----------------------------- MODULE GatewayHub -----------------------------
(***************************************************************************)
(* A gateway with its hub in Redis (internal/gateway: handler.go,          *)
(* redis_hub.go, redis_presence.go).  A connection loads the channels of   *)
(* its user, registers, subscribes its user, sets the user active, and is  *)
(* told who is there; when it ends it sets the user away and unregisters.  *)
(* Status changes go through Redis to a listener, which walks the map of   *)
(* connections without the lock of the hub.  The calls that send to a      *)
(* channel share that lock, which who registers or unregisters waits for.  *)
(* One channel is modelled, and a connection is not opened twice.          *)
(***************************************************************************)
EXTENDS Naturals, Sequences, FiniteSets

CONSTANTS
  Users,
  Conns,
  Capacity,     \* events a connection buffers (256 in the code)
  MaxMessages,  \* bound: messages sent to the channel
  MaxFailures,  \* bound: calls that fail, and keys of Redis that expire
  MaxChanges    \* bound: changes of membership

HubAssumption ==
  /\ Capacity \in Nat /\ MaxMessages \in Nat /\ MaxFailures \in Nat /\ MaxChanges \in Nat

VARIABLES
  owner,        \* the user of a connection
  members,      \* the database: users in the channel
  subscribers,  \* Redis: users subscribed to it
  statuses,     \* Redis: the status of each user
  bus,          \* status changes published and not taken by the listener
  at,           \* where a connection is in ServeWS or readPump
  loaded,       \* connections whose user was in the channel when they began
  setting,      \* the SetStatus a connection is in
  snapshot,     \* what a connection is about to be told
  registered,   \* the connections the hub knows
  sending,      \* Send: what each connection has still to write
  listener,     \* the change the listener is at
  sent,         \* messages sent to the channel
  casts,        \* calls of BroadcastToChannel: [id, again, asked, to], to: still to send to
  failures,     \* bound: calls that failed
  changes,      \* bound: changes of membership
  heard,        \* the status of each user the peer of a connection knows
  got,          \* messages the peer got
  since,        \* history: messages sent before the connection was subscribed
  lossy,        \* history: connections that missed an event, their buffer full
  outlived,     \* history: connections one more of whose user ended
  disturbed,    \* history: users a status of whom met one of the causes below
  lapsed,       \* history: users whose status expired, and was not set again
  forgotten,    \* history: users whose subscription expired, and did not subscribe again
  missed,       \* history: what a connection is not sent: [c, id], for a cause below
  repeated,     \* history: messages sent to the channel twice
  beside        \* history: pairs of messages sent side by side

delivery == <<sent, casts, missed, repeated, beside>>
network == <<owner, members, subscribers, statuses, bus, delivery, failures, changes>>
peer == <<heard, got>>
keys == <<lapsed, forgotten>>
ghosts == <<since, lossy, outlived, disturbed, keys>>
vars == <<owner, members, subscribers, statuses, bus, at, loaded, setting, snapshot, registered,
          sending, listener, sent, casts, failures, changes, heard, got, since, lossy, outlived,
          disturbed, lapsed, forgotten, missed, repeated, beside>>

Status == {"", "active", "away"}
Steps == {"idle", "loaded", "registered", "greeting", "opening", "open", "leaving", "gone"}
Nothing == [to |-> "", phase |-> "none"]
Unknown == [u \in Users |-> ""]
Idle == [active |-> FALSE, user |-> "", status |-> "", visited |-> {}, from |-> {}, at |-> {}]

Init ==
  /\ owner \in [Conns -> Users] /\ members \in SUBSET Users /\ subscribers = {}
  /\ statuses \in {Unknown, [u \in Users |-> "active"]}
  /\ bus = <<>> /\ sent \in 0..MaxMessages /\ failures \in 0..MaxFailures /\ changes \in 0..MaxChanges
  /\ at = [c \in Conns |-> "idle"] /\ loaded = {} /\ setting = [c \in Conns |-> Nothing]
  /\ snapshot = [c \in Conns |-> Unknown]
  /\ registered = {} /\ sending = [c \in Conns |-> <<>>] /\ listener = Idle
  /\ heard = [c \in Conns |-> Unknown] /\ got = [c \in Conns |-> <<>>]
  /\ since = [c \in Conns |-> 0] /\ lossy = {} /\ outlived = {} /\ disturbed = {}
  /\ lapsed = {} /\ forgotten = {} /\ casts = {} /\ missed = {} /\ repeated = {} /\ beside = {}

Fails == failures < MaxFailures /\ failures' = failures + 1

\* select { case conn.Send <- event: default: } for each connection of S.
Offer(S, event) ==
  /\ sending' = [c \in Conns |-> IF c \in S /\ Len(sending[c]) < Capacity
                                 THEN Append(sending[c], event) ELSE sending[c]]
  /\ lossy' = lossy \cup {c \in S: Len(sending[c]) >= Capacity}

Presence(u, status) == [kind |-> "presence", user |-> u, status |-> status]
Message(n) == [kind |-> "message", id |-> n]

-----------------------------------------------------------------------------
(* The end of the process: a goroutine panics, or the runtime finds a map   *)
(* written while it is walked.                                              *)

Crash ==
  /\ at' = [c \in Conns |-> IF at[c] = "idle" THEN "idle" ELSE "gone"]
  /\ registered' = {} /\ listener' = Idle /\ bus' = <<>>
  /\ sending' = [c \in Conns |-> <<>>] /\ setting' = [c \in Conns |-> Nothing]
  /\ snapshot' = [c \in Conns |-> Unknown] /\ loaded' = {}
  /\ heard' = [c \in Conns |-> Unknown] /\ got' = [c \in Conns |-> <<>>]
  /\ casts' = {}
  /\ UNCHANGED <<owner, members, subscribers, statuses, sent, missed, repeated, beside, failures,
                 changes, ghosts>>

-----------------------------------------------------------------------------
(* ServeWS *)

\* GetUserChannels; a failing call answers 503 and nothing has happened.
LoadMemberships(c) ==
  /\ at[c] = "idle" /\ at' = [at EXCEPT ![c] = "loaded"]
  /\ loaded' = IF owner[c] \in members THEN loaded \cup {c} ELSE loaded
  /\ UNCHANGED <<network, setting, snapshot, registered, sending, listener, peer, ghosts>>

Register(c) ==
  /\ at[c] = "loaded" /\ casts = {}
  /\ \/ /\ at' = [at EXCEPT ![c] = "registered"] /\ registered' = registered \cup {c}
        /\ UNCHANGED <<network, loaded, setting, snapshot, sending, listener, peer, ghosts>>
     \/ listener.active /\ Crash

\* SetStatus is called: by ServeWS, by readPump as it starts and as it ends.
Overlapping(c) == \E d \in Conns \ {c}: owner[d] = owner[c] /\ setting[d].phase # "none"

BeginSetStatus(c, from, to, next) ==
  /\ at[c] = from /\ setting[c] = Nothing
  /\ at' = [at EXCEPT ![c] = next]
  /\ setting' = [setting EXCEPT ![c] = [to |-> to, phase |-> "get"]]
  /\ disturbed' = IF Overlapping(c) THEN disturbed \cup {owner[c]} ELSE disturbed

\* A failing SADD is logged and the connection opens without it.
SubscribeToChannel(c) ==
  /\ BeginSetStatus(c, "registered", "active", "greeting")
  /\ \/ LET who == IF c \in loaded THEN {owner[c]} ELSE {}
        IN  /\ subscribers' = subscribers \cup who /\ forgotten' = forgotten \ who
            /\ UNCHANGED <<loaded, failures>>
     \/ c \in loaded /\ Fails /\ loaded' = loaded \ {c} /\ UNCHANGED <<subscribers, forgotten>>
  /\ since' = [since EXCEPT ![c] = sent]
  /\ UNCHANGED <<owner, changes, members, statuses, bus, delivery, snapshot, registered, sending,
                 listener, peer, lossy, outlived, lapsed>>

TakeSnapshot(c) ==
  /\ at[c] = "greeting" /\ setting[c] = Nothing
  /\ at' = [at EXCEPT ![c] = "opening"]
  /\ snapshot' = [snapshot EXCEPT ![c] = statuses]
  /\ UNCHANGED <<network, loaded, setting, registered, sending, listener, peer, ghosts>>

\* Sent after what the listener sent meanwhile, then the pumps start.  The
\* statuses are a map, walked in any order, and told as far as the buffer goes.
Greeted(queue, seen) ==
  LET known == {u \in Users: seen[u] # ""}
      room == Capacity - Len(queue)
      n == IF room < Cardinality(known) THEN room ELSE Cardinality(known)
      orders == {s \in [1..n -> known]: \A i, j \in 1..n: s[i] = s[j] => i = j}
  IN  {queue \o [i \in 1..n |-> Presence(s[i], seen[s[i]])]: s \in orders}

SendSnapshot(c) ==
  /\ at[c] = "opening" /\ setting[c] = Nothing
  /\ BeginSetStatus(c, "opening", "active", "open")
  /\ LET known == Cardinality({u \in Users: snapshot[c][u] # ""})
     IN  lossy' = IF Len(sending[c]) + known > Capacity THEN lossy \cup {c} ELSE lossy
  /\ \E queue \in Greeted(sending[c], snapshot[c]): sending' = [sending EXCEPT ![c] = queue]
  /\ snapshot' = [snapshot EXCEPT ![c] = Unknown]
  /\ UNCHANGED <<network, loaded, registered, listener, peer, since, outlived, keys>>

-----------------------------------------------------------------------------
(* SetStatus: read, compare, write, publish. *)

Set(c, to) == setting' = [setting EXCEPT ![c] = to]

\* A snapshot not sent yet is older than this change.
Outdating(u) == \E d \in Conns: at[d] = "opening" /\ owner[d] # u /\ snapshot[d][u] # statuses'[u]

GetCurrent(c) ==
  /\ setting[c].phase = "get"
  /\ \/ /\ IF statuses[owner[c]] = setting[c].to THEN Set(c, Nothing)
           ELSE Set(c, [setting[c] EXCEPT !.phase = "put"])
        /\ UNCHANGED <<failures, disturbed>>
     \/ Fails /\ Set(c, Nothing) /\ disturbed' = disturbed \cup {owner[c]}
  /\ UNCHANGED <<owner, changes, members, subscribers, statuses, bus, delivery, at, loaded, snapshot,
                 registered, sending, listener, peer, since, lossy, outlived, keys>>

\* The errors of both are ignored.
Put(c) ==
  /\ setting[c].phase = "put" /\ Set(c, [setting[c] EXCEPT !.phase = "publish"])
  /\ \/ /\ statuses' = [statuses EXCEPT ![owner[c]] = setting[c].to] /\ UNCHANGED failures
        /\ disturbed' = IF Outdating(owner[c]) THEN disturbed \cup {owner[c]} ELSE disturbed
        /\ lapsed' = lapsed \ {owner[c]}
     \/ Fails /\ UNCHANGED <<statuses, lapsed>> /\ disturbed' = disturbed \cup {owner[c]}
  /\ UNCHANGED <<owner, changes, members, subscribers, bus, delivery, at, loaded, snapshot, registered,
                 sending, listener, peer, since, lossy, outlived, forgotten>>

Publish(c) ==
  /\ setting[c].phase = "publish" /\ Set(c, Nothing)
  /\ \/ /\ bus' = Append(bus, [user |-> owner[c], status |-> setting[c].to])
        /\ UNCHANGED <<failures, disturbed>>
     \/ Fails /\ UNCHANGED bus /\ disturbed' = disturbed \cup {owner[c]}
  /\ UNCHANGED <<owner, changes, members, subscribers, statuses, delivery, at, loaded, snapshot, registered,
                 sending, listener, peer, since, lossy, outlived, keys>>

\* A status is kept for 24 hours from when it changed, and the set of a channel
\* from when anyone subscribed, however long the connections last.
StatusExpires(u) ==
  /\ statuses[u] # "" /\ Fails
  /\ statuses' = [statuses EXCEPT ![u] = ""] /\ lapsed' = lapsed \cup {u}
  /\ UNCHANGED <<owner, changes, members, subscribers, bus, delivery, at, loaded, setting, snapshot,
                 registered, sending, listener, peer, since, lossy, outlived, disturbed, forgotten>>

SubscribersExpire ==
  /\ subscribers # {} /\ Fails
  /\ subscribers' = {} /\ forgotten' = forgotten \cup subscribers
  /\ UNCHANGED <<owner, changes, members, statuses, bus, delivery, at, loaded, setting, snapshot,
                 registered, sending, listener, peer, since, lossy, outlived, disturbed, lapsed>>

-----------------------------------------------------------------------------
(* listenForPresenceUpdates *)

ListenerTakes ==
  /\ ~listener.active /\ bus # <<>>
  /\ listener' = [active |-> TRUE, user |-> Head(bus).user, status |-> Head(bus).status,
                  visited |-> {}, from |-> registered, at |-> {}]
  /\ bus' = Tail(bus)
  /\ UNCHANGED <<owner, changes, members, subscribers, statuses, delivery, failures, at, loaded, setting,
                 snapshot, registered, sending, peer, ghosts>>

Unvisited == {c \in registered: owner[c] # listener.user} \ listener.visited

ListenerPicks(c) ==
  /\ listener.active /\ listener.at = {} /\ c \in Unvisited
  /\ listener' = [listener EXCEPT !.at = {c}, !.visited = @ \cup {c}]
  /\ UNCHANGED <<network, at, loaded, setting, snapshot, registered, sending, peer, ghosts>>

\* Sending on a channel that Unregister closed meanwhile panics.
ListenerSends ==
  /\ listener.at # {}
  /\ IF listener.at \subseteq registered
     THEN /\ Offer(listener.at, Presence(listener.user, listener.status))
          /\ listener' = [listener EXCEPT !.at = {}]
          /\ UNCHANGED <<network, at, loaded, setting, snapshot, registered, peer, since, outlived,
                         disturbed, keys>>
     ELSE Crash

\* A connection that came during the walk may be met or not.
ListenerEnds ==
  /\ listener.active /\ listener.at = {} /\ Unvisited \cap listener.from = {}
  /\ listener' = Idle
  /\ disturbed' = IF Unvisited # {} THEN disturbed \cup {listener.user} ELSE disturbed
  /\ UNCHANGED <<network, at, loaded, setting, snapshot, registered, sending, peer, since, lossy,
                 outlived, keys>>

-----------------------------------------------------------------------------
(* Messages, and the end of a connection. *)

\* Someone else joins the channel or leaves it.
ChangeMembership(u) ==
  /\ changes < MaxChanges /\ changes' = changes + 1
  /\ members' = IF u \in members THEN members \ {u} ELSE members \cup {u}
  /\ UNCHANGED <<owner, subscribers, statuses, bus, delivery, failures, at, loaded, setting, snapshot,
                 registered, sending, listener, peer, ghosts>>

Reached == {c \in registered: owner[c] \in subscribers}

Still == UNCHANGED <<owner, changes, members, statuses, bus, at, loaded, setting, snapshot, registered,
                     listener, peer, since, outlived, disturbed, keys>>

\* Core calls once for a message, and again when the answer was lost.
BroadcastToChannel(n, again) ==
  /\ IF again THEN n \in 1..sent /\ n \notin repeated /\ Fails /\ UNCHANGED sent
     ELSE n = sent + 1 /\ n <= MaxMessages /\ sent' = n /\ UNCHANGED failures
  /\ repeated' = IF again THEN repeated \cup {n} ELSE repeated
  /\ casts' = casts \cup {[id |-> n, again |-> again, asked |-> FALSE, to |-> {}]}
  /\ beside' = beside \cup {{n, d.id}: d \in casts}
  /\ Still /\ UNCHANGED <<subscribers, sending, lossy, missed>>

Going(d, S) == (casts \ {d}) \cup (IF S = {} THEN {} ELSE {[d EXCEPT !.asked = TRUE, !.to = S]})

Misses(d, S) == missed' = missed \cup {[c |-> c, id |-> d.id]: c \in S}

\* A failure is logged, and the message is sent to nobody.
GetChannelSubscribers(d) ==
  /\ ~d.asked
  /\ \/ /\ casts' = Going(d, Reached)
        /\ Misses(d, {c \in registered: owner[c] \in forgotten}) /\ UNCHANGED failures
     \/ Fails /\ casts' = casts \ {d} /\ Misses(d, registered)
  /\ Still /\ UNCHANGED <<subscribers, sending, lossy, sent, repeated, beside>>

\* Calls share the lock: two of them send to a connection in either order.
SendTo(d, c) ==
  /\ c \in d.to /\ Offer({c}, Message(d.id))
  /\ casts' = Going(d, d.to \ {c})
  /\ Misses(d, IF Len(sending[c]) < Capacity THEN {} ELSE {c})
  /\ Still /\ UNCHANGED <<subscribers, sent, failures, repeated, beside>>

WritePump(c) ==
  /\ at[c] = "open" /\ sending[c] # <<>>
  /\ LET event == Head(sending[c])
     IN  IF event.kind = "presence"
         THEN heard' = [heard EXCEPT ![c][event.user] = event.status] /\ UNCHANGED got
         ELSE got' = [got EXCEPT ![c] = Append(@, event.id)] /\ UNCHANGED heard
  /\ sending' = [sending EXCEPT ![c] = Tail(@)]
  /\ UNCHANGED <<network, at, loaded, setting, snapshot, registered, listener, ghosts>>

\* The read fails, by a close or after 60 seconds without a pong.
ReadPumpEnds(c) ==
  /\ BeginSetStatus(c, "open", "away", "leaving")
  /\ outlived' = outlived \cup {d \in Conns \ {c}: owner[d] = owner[c] /\ at[d] \notin {"idle", "gone"}}
  /\ UNCHANGED <<network, loaded, snapshot, registered, sending, listener, peer, since, lossy, keys>>


Unregister(c) ==
  /\ at[c] = "leaving" /\ setting[c] = Nothing /\ casts = {}
  /\ \/ /\ at' = [at EXCEPT ![c] = "gone"]
        /\ registered' = registered \ {c}
        /\ sending' = [sending EXCEPT ![c] = <<>>] /\ loaded' = loaded \ {c}
        /\ heard' = [heard EXCEPT ![c] = Unknown] /\ got' = [got EXCEPT ![c] = <<>>]
        /\ UNCHANGED <<network, setting, snapshot, listener, ghosts>>
     \/ listener.active /\ Crash

Next ==
  \/ \E c \in Conns:
       \/ LoadMemberships(c) \/ Register(c) \/ SubscribeToChannel(c)
       \/ TakeSnapshot(c) \/ SendSnapshot(c) \/ GetCurrent(c) \/ Put(c) \/ Publish(c)
       \/ ListenerPicks(c) \/ WritePump(c) \/ ReadPumpEnds(c) \/ Unregister(c)
  \/ ListenerTakes \/ ListenerSends \/ ListenerEnds
  \/ (\E u \in Users: ChangeMembership(u) \/ StatusExpires(u)) \/ SubscribersExpire
  \/ \E n \in 1..MaxMessages, again \in BOOLEAN: BroadcastToChannel(n, again)
  \/ \E d \in casts: GetChannelSubscribers(d) \/ \E c \in d.to: SendTo(d, c)

Spec == Init /\ [][Next]_vars

-----------------------------------------------------------------------------
(* Properties *)

TypeOK ==
  /\ members \cup subscribers \subseteq Users /\ statuses \in [Users -> Status]
  /\ at \in [Conns -> Steps] /\ registered \cup loaded \subseteq Conns
  /\ \A c \in Conns: Len(sending[c]) <= Capacity
  /\ heard \in [Conns -> [Users -> Status]] /\ sent \in 0..MaxMessages

Open(c) == at[c] = "open" /\ setting[c] = Nothing

\* Nothing about u is under way to c.
Settled(u, c) ==
  /\ \A d \in Conns: owner[d] = u => setting[d] = Nothing
  /\ ~(listener.active /\ listener.user = u) /\ \A i \in DOMAIN bus: bus[i].user # u
  /\ \A i \in DOMAIN sending[c]: sending[c][i].kind = "presence" => sending[c][i].user # u

\* What an open connection heard last of another user is that user's status,
\* whatever it missed before it opened, unless two changes of the user's status
\* overlapped, one overtook the snapshot of a connection, met a connection on
\* its way in, or Redis failed in it; the status expired and was not set since;
\* or the buffer of the connection was full.
PresenceAgrees ==
  \A c \in Conns, u \in Users:
    Open(c) /\ u # owner[c] /\ c \notin lossy /\ u \notin disturbed \cup lapsed /\ Settled(u, c)
      => heard[c][u] = statuses[u]

\* The user of an open connection is active, unless another connection of the
\* user ended during its life, or the status expired, which nothing sets again
\* while the connection lasts.
ActiveWhileOpen ==
  \A c \in Conns:
    Open(c) /\ c \notin outlived /\ owner[c] \notin disturbed \cup lapsed => statuses[owner[c]] = "active"

\* A connection whose user was in the channel when it began gets what is sent
\* from its subscription on, whatever other connections of the user do, but for
\* what Redis failed to say whom to send to, what met its full buffer, and what
\* was sent after the subscriptions expired; once, but for what core sent twice;
\* and in order, but for what was sent side by side or twice.
MessagesAgree ==
  \A c \in loaded:
    at[c] = "open" =>
      LET waiting == SelectSeq(sending[c], LAMBDA e: e.kind = "message")
          all == got[c] \o [i \in DOMAIN waiting |-> waiting[i].id]
          Coming(n) == \E d \in casts: d.id = n /\ (~d.asked \/ c \in d.to)
      IN  /\ \A n \in (since[c] + 1)..sent:
               Coming(n) \/ [c |-> c, id |-> n] \in missed \/ \E i \in DOMAIN all: all[i] = n
          /\ \A i, j \in DOMAIN all:
               i < j => \/ all[i] < all[j] \/ all[i] \in repeated \/ all[j] \in repeated
                        \/ all[i] # all[j] /\ {all[i], all[j]} \in beside

HubAgrees == PresenceAgrees /\ ActiveWhileOpen /\ MessagesAgree
=============================================================================
