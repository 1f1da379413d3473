------------------------------ MODULE MCServices ------------------------------
(***************************************************************************)
(* The services behind the web client that the other runs leave: the hub   *)
(* of the gateway, the membership of workspaces and channels, direct and   *)
(* scheduled messages, the search index, webhooks, the ring of channel     *)
(* owners and the second factor.  They meet only in the database, in rows  *)
(* no two of them write, and share no variable here: each is explored by   *)
(* itself, the others keeping their initial state.  focus names the part   *)
(* and what of it is explored together.                                    *)
(***************************************************************************)
EXTENDS Naturals, Sequences, FiniteSets

CONSTANTS
  Users, Conns, Capacity, MaxMessages, HubFailures, HubChanges,             \* GatewayHub
  Creator, Invites, AccessRequests, AccessFailures,                         \* WorkspaceAccess
  DirectRequests, DirectFailures,                                           \* DirectMessages
  Rows, Processes, Limit, ScheduleTime, ScheduleFailures,                   \* ScheduledMessages
  SearchRequests, SearchFailures, MaxStarts,                                \* SearchIndex
  Webhooks, Workers, MaxAttempts, WebhookFailures,                          \* WebhookDelivery
  Nodes, Calls, Addresses, Circle, VirtualNodes, RingChanges,               \* ChannelRing
  Attempts, Challenges, Step, Drift, ReplayTTL, FactorTime, FactorFailures, \* UserMFA
  ann, bob, r1, r2, r3, x, y   \* users, requests and connections the foci name

VARIABLE focus

VARIABLES owner, members, subscribers, statuses, bus, at, loaded, setting, snapshot, registered,
          sending, listener, sent, casts, failures, changes, heard, got, since, lossy, outlived,
          disturbed, lapsed, forgotten, missed, repeated, beside
hubVars == <<owner, members, subscribers, statuses, bus, at, loaded, setting, snapshot,
             registered, sending, listener, sent, casts, failures, changes, heard, got, since, lossy,
             outlived, disturbed, lapsed, forgotten, missed, repeated, beside>>
G == INSTANCE GatewayHub WITH MaxFailures <- HubFailures, MaxChanges <- HubChanges

VARIABLES role, channel, invites, cached, requests, trouble, doubtful, owners, overtaken,
          admitted, burnt, removed
accessVars == <<role, channel, invites, cached, requests, trouble, doubtful, owners, overtaken,
                admitted, burnt, removed>>
A == INSTANCE WorkspaceAccess WITH Requests <- AccessRequests, MaxFailures <- AccessFailures,
       failures <- trouble

VARIABLES opening, created, pairs, answer, broken, doubled, handed
directVars == <<opening, created, pairs, answer, broken, doubled, handed>>
D == INSTANCE DirectMessages WITH Requests <- DirectRequests, MaxFailures <- DirectFailures,
       requests <- opening, members <- pairs, failures <- broken

VARIABLES now, scheduled, dueAt, claimed, running, batch, telling, messages, told, lost, stops
scheduleVars == <<now, scheduled, dueAt, claimed, running, batch, telling, messages, told, lost,
                  stops>>
M == INSTANCE ScheduledMessages WITH Workers <- Processes, MaxTime <- ScheduleTime,
       MaxFailures <- ScheduleFailures, failures <- stops

VARIABLES row, deleted, document, writes, events, processed, consumers, starting, starts,
          errors, outdated
searchVars == <<row, deleted, document, writes, events, processed, consumers, starting, starts,
                errors, outdated>>
S == INSTANCE SearchIndex WITH Requests <- SearchRequests, MaxFailures <- SearchFailures,
       requests <- writes, failures <- errors

VARIABLES webhooks, gone, ledger, workers, done, refused, received, rejected, promised, again
webhookVars == <<webhooks, gone, ledger, workers, done, refused, received, rejected, promised,
                 again>>
W == INSTANCE WebhookDelivery WITH MaxFailures <- WebhookFailures, failures <- refused,
       doubled <- again

VARIABLES hash, nodes, points, addresses, writer, calls, moves, left
ringVars == <<hash, nodes, points, addresses, writer, calls, moves, left>>
R == INSTANCE ChannelRing WITH MaxChanges <- RingChanges, changes <- moves

VARIABLES clock, secret, enabled, shown, asking, attempts, challenges, lastUsed, down, proved,
          sessions, crowded
factorVars == <<clock, secret, enabled, shown, asking, attempts, challenges, lastUsed, down,
                proved, sessions, crowded>>
F == INSTANCE UserMFA WITH MaxTime <- FactorTime, MaxFailures <- FactorFailures, now <- clock,
       failures <- down

ASSUME ServiceConstants ==
  /\ G!HubAssumption /\ A!AccessAssumption /\ D!DirectAssumption /\ M!ScheduleAssumption
  /\ S!SearchAssumption /\ W!WebhookAssumption /\ R!RingAssumption /\ F!MFAAssumption

-----------------------------------------------------------------------------
(* The foci. *)

Focus(part, topic) == [part |-> part, topic |-> topic]

Foci == {Focus("hub", t) : t \in {"presence", "messages", "casts"}} \cup
  {Focus(p, "") : p \in {"access", "direct", "schedule", "search", "webhooks", "ring"}} \cup
  {Focus("factor", "setup"), Focus("factor", "login")}

\* What a connection is told of others, what is sent to the channel while
\* others come and go, or how its messages are sent to one connection.
HubFrom ==
  CASE focus.topic = "presence" -> sent = MaxMessages /\ failures = 0 /\ members = {} /\ changes = HubChanges
    [] focus.topic = "casts" -> /\ sent = 0 /\ failures = 0 /\ members = Users /\ changes = HubChanges
                                /\ statuses = G!Unknown /\ owner[x] = owner[y]
    [] focus.topic = "messages" ->
         /\ failures = 0 /\ members = Users /\ statuses = [w \in Users |-> "active"]
         /\ IF owner[x] = owner[y] THEN sent = 0 /\ changes = HubChanges ELSE sent = 1 /\ changes = 0
    [] OTHER -> /\ sent = 0 /\ failures = 0 /\ members = {} /\ changes = HubChanges
                /\ statuses = G!Unknown /\ owner[x] = owner[y]

\* Users and connections are alike where presence is looked at: x ends first,
\* and nothing fails but that the status of x expires while both are open and
\* have read what they were told.  Where the messages are looked at x stays, and
\* the statuses do not matter: none expires, and the change y's end makes is not
\* published; a message is sent to its connections, x before y, before anything
\* else happens; of two connections of one user no other call fails than the one
\* that asks for the status then.  Calls that send side by side, again, or to a
\* set that expired are looked at with x alone.
HubWithin ==
  LET ended == {c \in Conns : at'[c] \in {"leaving", "gone"}}
      only == failures' = failures
      keeps == lapsed' = lapsed
      quiet == \A c \in Conns : at[c] = "open" /\ sending[c] = <<>>
  IN  CASE focus.topic = "presence" -> /\ y \in ended => x \in ended
                                       /\ only \/ (lapsed' = {owner[x]} /\ quiet)
        [] focus.topic = "casts" -> ended = {} /\ keeps /\ at'[y] = "idle"
        [] OTHER -> /\ bus' = <<>> /\ x \notin ended /\ keeps
                    /\ repeated' = repeated /\ forgotten' = forgotten
                    /\ casts # {} => casts' # casts
                    /\ \A d \in casts : x \in d.to => sending'[x] # sending[x] \/ missed' # missed
                    /\ owner[x] # owner[y] \/ only \/ (at[y] = "leaving" /\ setting[y].phase = "get")

\* Attempts are alike, and so are challenges: they begin in one order.  Three
\* attempts to log in, or two and a failure.
FactorWithin ==
  IF focus.topic = "setup" THEN clock' = 0 /\ challenges' = challenges
  ELSE /\ shown' = shown /\ asking' = asking
       /\ attempts'[r2] # F!Fresh => attempts'[r1] # F!Fresh
       /\ attempts'[r3] # F!Fresh => attempts'[r2] # F!Fresh /\ down' = 0
       /\ challenges'[y] # "new" => challenges'[x] # "new"

AllVars == <<focus, hubVars, accessVars, directVars, scheduleVars, searchVars, webhookVars,
             ringVars, factorVars>>

Init ==
  /\ focus \in Foci
  /\ G!Init /\ owner[x] = ann /\ HubFrom
  /\ A!Init /\ (focus.part # "access" => role[bob] = A!Nobody)
  /\ D!Init /\ (focus.part # "direct" => opening = [r \in DirectRequests |-> D!Idle(ann)])
  /\ M!Init /\ S!Init
  /\ W!Init /\ webhooks = (IF focus.part = "webhooks" THEN {r1} ELSE {})
  /\ R!Init /\ (focus.part # "ring" => hash = [n \in Nodes |-> [i \in 1..VirtualNodes |-> 0]])
  /\ F!Init /\ (enabled <=> focus.topic = "login")

Next ==
  /\ UNCHANGED focus
  /\ IF focus.part = "hub" THEN G!Next /\ HubWithin ELSE UNCHANGED hubVars
  /\ IF focus.part = "access" THEN A!Next ELSE UNCHANGED accessVars
  /\ IF focus.part = "direct" THEN D!Next ELSE UNCHANGED directVars
  /\ IF focus.part = "schedule" THEN M!Next ELSE UNCHANGED scheduleVars
  /\ IF focus.part = "search" THEN S!Next ELSE UNCHANGED searchVars
  /\ IF focus.part = "webhooks" THEN W!Next ELSE UNCHANGED webhookVars
  /\ IF focus.part = "ring" THEN R!Next ELSE UNCHANGED ringVars
  /\ IF focus.part = "factor" THEN F!Next /\ FactorWithin ELSE UNCHANGED factorVars

Spec == Init /\ [][Next]_AllVars

-----------------------------------------------------------------------------
(* The properties, each stated in the module of its part. *)


\* WorkspaceAccess: cached roles, owners, invites and members of the channel;
\* UserMFA: a code opens one session, of the secret that was confirmed.
AccessAgrees ==
  /\ focus.part = "access" => A!AccessAgrees /\ A!TypeOK
  /\ focus.part = "factor" => F!MFAAgrees /\ F!TypeOK

\* DirectMessages: one conversation per pair, of its two members;
\* ScheduledMessages: sent once and not early, or lost to a stated cause;
\* SearchIndex: the document of a message is its row; WebhookDelivery: the
\* ledger of an event, which comes once unless a stated cause repeats it.
MessagesAgree ==
  /\ focus.part = "direct" => D!DirectAgrees /\ D!TypeOK
  /\ focus.part = "schedule" => M!ScheduledAgrees /\ M!TypeOK
  /\ focus.part = "search" => S!SearchAgrees /\ S!TypeOK
  /\ focus.part = "webhooks" => W!WebhooksAgree /\ W!TypeOK
=============================================================================
