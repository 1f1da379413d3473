--------------------------- MODULE WorkspaceAccess ---------------------------
(***************************************************************************)
(* Membership of one workspace: the requests of internal/workspace and     *)
(* internal/channel that change it, the permission cache they go through   *)
(* (auth.RequirePermission, permission.Cache) and the invites.  A request  *)
(* is a sequence of calls of Redis and of the database; others come in     *)
(* between.  One public channel stands for the channels.                   *)
(***************************************************************************)
EXTENDS Naturals, FiniteSets

CONSTANTS
  Users,
  Creator,      \* the user who created the workspace
  Invites,      \* invites that may be made
  Requests,     \* identities of requests, which bound them
  MaxFailures   \* bound: calls of Redis or of the database that fail

AccessAssumption == Creator \in Users /\ MaxFailures \in Nat

VARIABLES
  role,         \* workspace_members: the role of each user
  channel,      \* channel_members
  invites,      \* each invite: "none", "open" or "used"
  cached,       \* the cache: a role per user, or nothing
  requests,     \* each request: what it does and how far it is
  failures,     \* bound: calls that failed
  doubtful,     \* history: users whose entry was filled with a role changed
                \* meanwhile, or not invalidated as Redis failed
  owners,       \* history: users who were made owner
  overtaken,    \* history: owners a change that had checked them before met
  admitted,     \* history: who came in by an invite
  burnt,        \* history: invites whose member was not inserted
  removed       \* history: users who were removed from the workspace

members == <<role, channel, invites>>
ghosts == <<doubtful, owners, overtaken, admitted, burnt, removed>>
vars == <<members, cached, requests, failures, ghosts>>

Nobody == "none"
Roles == {"OWNER", "ADMIN", "MEMBER"}
Check(r) == r \in {"OWNER", "ADMIN"}     \* every permission of the matrix

\* What a request may be: by whom, about whom, to which role, by which invite.
Begin(op, by, target, to, invite, step) ==
  [op |-> op, by |-> by, target |-> target, to |-> to, invite |-> invite, step |-> step,
   seen |-> Nobody, read |-> Nobody]
Idle == Begin("idle", Creator, Creator, "MEMBER", {}, "done")

Init ==
  /\ role \in [Users -> Roles \cup {Nobody}] /\ role[Creator] = "OWNER"
  /\ channel = {u \in Users: role[u] # Nobody} /\ invites = [i \in Invites |-> "none"]
  /\ cached = [u \in Users |-> Nobody]
  /\ requests = [r \in Requests |-> Idle] /\ failures = 0
  /\ doubtful = {} /\ owners = {u \in Users: role[u] = "OWNER"} /\ overtaken = {}
  /\ admitted = [i \in Invites |-> {}] /\ burnt = {} /\ removed = {}

Fails == failures < MaxFailures /\ failures' = failures + 1
At(r, step) == requests[r].step = step
Goto(r, step) == requests' = [requests EXCEPT ![r].step = step]
End(r) == Goto(r, "done")

-----------------------------------------------------------------------------
(* The requests *)

Start(r) ==
  /\ requests[r].op = "idle"
  /\ \E by, target \in Users:
       \/ \E to \in Roles: requests' = [requests EXCEPT ![r] = Begin("role", by, target, to, {}, "cache")]
       \/ \E op \in {"remove", "channelAdd"}:
            requests' = [requests EXCEPT ![r] = Begin(op, by, target, "MEMBER", {}, "cache")]
       \* leaving needs no permission
       \/ requests' = [requests EXCEPT ![r] = Begin("channelRemove", by, target, "MEMBER", {},
                                                   IF target = by THEN "member" ELSE "cache")]
       \/ by = target /\
          \/ requests' = [requests EXCEPT ![r] = Begin("invite", by, by, "MEMBER", {}, "cache")]
          \/ requests' = [requests EXCEPT ![r] = Begin("joinChannel", by, by, "MEMBER", {}, "member")]
          \/ requests' = [requests EXCEPT ![r] = Begin("join", by, by, "MEMBER", {}, "lookup")]
          \/ requests' = [requests EXCEPT ![r] = Begin("list", by, by, "MEMBER", {}, "channels")]
          \/ \E i \in Invites: invites[i] # "none"
               /\ requests' = [requests EXCEPT ![r] = Begin("accept", by, by, "MEMBER", {i}, "consume")]
  /\ UNCHANGED <<members, cached, failures, ghosts>>

\* RequirePermission: a hit decides, a miss or a failing read asks the database.
AfterCheck(r, seen) ==
  requests' = [requests EXCEPT ![r].seen = seen,
                               ![r].step = IF ~Check(seen) THEN "done"
                                           ELSE IF requests[r].op \in {"invite", "channelRemove"} THEN "write"
                                           ELSE "target"]

GetRole(r) ==
  /\ At(r, "cache")
  /\ \/ cached[requests[r].by] # Nobody /\ AfterCheck(r, cached[requests[r].by]) /\ UNCHANGED failures
     \/ cached[requests[r].by] = Nobody /\ Goto(r, "load") /\ UNCHANGED failures
     \/ Fails /\ Goto(r, "load")
  /\ UNCHANGED <<members, cached, ghosts>>

LoadRole(r) ==
  /\ At(r, "load")
  /\ LET own == role[requests[r].by]
     IN  IF own = Nobody THEN End(r)
         ELSE requests' = [requests EXCEPT ![r].seen = own, ![r].step = "fill"]
  /\ UNCHANGED <<members, cached, failures, ghosts>>

SetRole(r) ==
  /\ At(r, "fill")
  /\ LET by == requests[r].by
         seen == requests[r].seen
     IN  /\ \/ /\ cached' = [cached EXCEPT ![by] = seen] /\ UNCHANGED failures
               /\ doubtful' = IF role[by] # seen THEN doubtful \cup {by} ELSE doubtful \ {by}
            \/ Fails /\ UNCHANGED <<cached, doubtful>>
         /\ AfterCheck(r, seen)
  /\ UNCHANGED <<members, owners, overtaken, admitted, burnt, removed>>

\* What the handlers check of the member they change.
Allowed(q, target) ==
  /\ target # Nobody
  /\ q.op = "role" => /\ q.to = "OWNER" => q.seen = "OWNER"
                      /\ target = "OWNER" => q.to = "OWNER"
  /\ q.op = "remove" => target # "OWNER" /\ (target = "ADMIN" => q.seen = "OWNER")

GetTarget(r) ==
  /\ At(r, "target")
  /\ LET read == role[requests[r].target]
     IN  IF Allowed(requests[r], read)
         THEN requests' = [requests EXCEPT ![r].read = read, ![r].step = "write"]
         ELSE End(r)
  /\ UNCHANGED <<members, cached, failures, ghosts>>

\* UpdateWorkspaceMemberRole: no row, no change, and an error.
UpdateMemberRole(r) ==
  /\ At(r, "write") /\ requests[r].op = "role"
  /\ LET u == requests[r].target
         to == requests[r].to
     IN  IF role[u] = Nobody THEN End(r) /\ UNCHANGED <<role, owners, overtaken>>
         ELSE /\ role' = [role EXCEPT ![u] = to] /\ Goto(r, "invalidate")
              /\ owners' = IF to = "OWNER" THEN owners \cup {u} ELSE owners
              /\ overtaken' = IF role[u] = "OWNER" /\ to # "OWNER" /\ requests[r].read # "OWNER"
                              THEN overtaken \cup {u} ELSE overtaken
  /\ UNCHANGED <<channel, invites, cached, failures, doubtful, admitted, burnt, removed>>

\* mutant: the handler forgets the cache.
RemoveMemberUncached(r) ==
  /\ At(r, "write") /\ requests[r].op = "remove"
  /\ LET u == requests[r].target
     IN  /\ role' = IF role[u] = "OWNER" THEN role ELSE [role EXCEPT ![u] = Nobody]
         /\ removed' = IF role[u] = "OWNER" THEN removed ELSE removed \cup {u}
  /\ End(r)
  /\ UNCHANGED <<channel, invites, cached, failures, doubtful, owners, overtaken, admitted, burnt>>

\* The statement spares owners.
RemoveMember(r) ==
  /\ At(r, "write") /\ requests[r].op = "remove"
  /\ LET u == requests[r].target
     IN  /\ role' = IF role[u] = "OWNER" THEN role ELSE [role EXCEPT ![u] = Nobody]
         /\ removed' = IF role[u] = "OWNER" THEN removed ELSE removed \cup {u}
  /\ Goto(r, "invalidate")
  /\ UNCHANGED <<channel, invites, cached, failures, doubtful, owners, overtaken, admitted, burnt>>

\* A failing DEL is logged; a joining user then goes on to the channels.
Invalidate(r) ==
  /\ At(r, "invalidate")
  /\ LET u == requests[r].target
     IN  \/ /\ cached' = [cached EXCEPT ![u] = Nobody] /\ doubtful' = doubtful \ {u}
            /\ UNCHANGED failures
         \/ Fails /\ doubtful' = doubtful \cup {u} /\ UNCHANGED cached
  /\ IF requests[r].op \in {"join", "accept"} THEN Goto(r, "channels") ELSE End(r)
  /\ UNCHANGED <<members, owners, overtaken, admitted, burnt, removed>>

\* The entry lives 60 seconds.
Expire(u) ==
  /\ cached[u] # Nobody /\ cached' = [cached EXCEPT ![u] = Nobody]
  /\ doubtful' = doubtful \ {u}
  /\ UNCHANGED <<members, requests, failures, owners, overtaken, admitted, burnt, removed>>

\* Its token is new.
CreateInvite(r) ==
  /\ At(r, "write") /\ requests[r].op = "invite" /\ End(r)
  /\ \E i \in Invites: invites[i] = "none" /\ invites' = [invites EXCEPT ![i] = "open"]
  /\ UNCHANGED <<role, channel, cached, failures, ghosts>>

-----------------------------------------------------------------------------
(* Joining *)

\* JoinWorkspace: a member goes straight on to the channels.
Lookup(r) ==
  /\ At(r, "lookup")
  /\ Goto(r, IF role[requests[r].by] = Nobody THEN "insert" ELSE "channels")
  /\ UNCHANGED <<members, cached, failures, ghosts>>

\* ConsumeWorkspaceInvite, one statement.
Consume(r) ==
  /\ At(r, "consume")
  /\ IF \E i \in requests[r].invite: invites[i] = "open"
     THEN /\ invites' = [i \in Invites |-> IF i \in requests[r].invite THEN "used" ELSE invites[i]]
          /\ Goto(r, "insert")
     ELSE End(r) /\ UNCHANGED invites
  /\ UNCHANGED <<role, channel, cached, failures, ghosts>>

\* AddWorkspaceMember; the key of the table refuses a second row.
Insert(r) ==
  /\ At(r, "insert")
  /\ LET u == requests[r].by
         used == requests[r].invite
     IN  \/ /\ role[u] = Nobody /\ role' = [role EXCEPT ![u] = "MEMBER"] /\ Goto(r, "invalidate")
            /\ admitted' = [i \in Invites |-> IF i \in used THEN admitted[i] \cup {u} ELSE admitted[i]]
            /\ UNCHANGED <<failures, burnt>>
         \/ /\ role[u] # Nobody /\ End(r) /\ burnt' = burnt \cup used
            /\ UNCHANGED <<role, failures, admitted>>
         \/ Fails /\ End(r) /\ burnt' = burnt \cup used /\ UNCHANGED <<role, admitted>>
  /\ UNCHANGED <<channel, invites, cached, doubtful, owners, overtaken, removed>>

\* AddUserToPublicWorkspaceChannels does not ask whether the user is a member
\* any more; ListChannels, whose statement does, comes here too.
AddToChannels(r) ==
  /\ At(r, "channels") /\ End(r)
  /\ channel' = IF requests[r].op # "list" \/ role[requests[r].by] # Nobody
                THEN channel \cup {requests[r].by} ELSE channel
  /\ UNCHANGED <<role, invites, cached, failures, ghosts>>

-----------------------------------------------------------------------------
(* The members of the channel *)

\* JoinChannel, and leaving by oneself: the membership is read before.
GetMember(r) ==
  /\ At(r, "member")
  /\ IF role[requests[r].by] = Nobody THEN End(r) ELSE Goto(r, "write")
  /\ UNCHANGED <<members, cached, failures, ghosts>>

AddChannelMember(r) ==
  /\ At(r, "write") /\ requests[r].op \in {"joinChannel", "channelAdd"} /\ End(r)
  /\ channel' = channel \cup {requests[r].target}
  /\ UNCHANGED <<role, invites, cached, failures, ghosts>>

RemoveChannelMember(r) ==
  /\ At(r, "write") /\ requests[r].op = "channelRemove" /\ End(r)
  /\ channel' = channel \ {requests[r].target}
  /\ UNCHANGED <<role, invites, cached, failures, ghosts>>

Next ==
  \/ \E r \in Requests:
       \/ Start(r) \/ GetRole(r) \/ LoadRole(r) \/ SetRole(r) \/ GetTarget(r)
       \/ UpdateMemberRole(r) \/ RemoveMember(r) \/ Invalidate(r) \/ CreateInvite(r)
       \/ Lookup(r) \/ Consume(r) \/ Insert(r) \/ AddToChannels(r)
       \/ GetMember(r) \/ AddChannelMember(r) \/ RemoveChannelMember(r)
  \/ \E u \in Users: Expire(u)

Spec == Init /\ [][Next]_vars

-----------------------------------------------------------------------------
(* Properties *)

TypeOK ==
  /\ role \in [Users -> Roles \cup {Nobody}] /\ channel \subseteq Users
  /\ invites \in [Invites -> {"none", "open", "used"}]
  /\ cached \in [Users -> Roles \cup {Nobody}] /\ failures \in 0..MaxFailures
  /\ \A r \in Requests: requests[r].seen \in Roles \cup {Nobody}

Changing(u) == \E r \in Requests: At(r, "invalidate") /\ requests[r].target = u

\* An entry of the permission cache is the role the database has, or the change
\* that made it differ is about to invalidate it; unless the entry was read
\* before the change and written after it, or Redis failed (cache.go).
CacheAgrees ==
  \A u \in Users: cached[u] \in {Nobody, role[u]} \/ Changing(u) \/ u \in doubtful

\* An owner stays one, whoever asks for what at the same time, but for a change
\* that read the member before the promotion; who created the workspace always
\* is (workspace/handler.go:351, 385).
OwnersStay == role[Creator] = "OWNER" /\ \A u \in owners \ overtaken: role[u] = "OWNER"

\* An invite lets in one user at most, and none is used up for nothing unless
\* the insert failed or its user was a member (workspace/handler.go:267-281).
InvitesAgree ==
  \A i \in Invites:
    /\ Cardinality(admitted[i]) <= 1 /\ (invites[i] = "open" => admitted[i] = {})
    /\ invites[i] = "used" =>
         \/ admitted[i] # {} \/ i \in burnt
         \/ \E r \in Requests: At(r, "insert") /\ i \in requests[r].invite

\* Only members of the workspace are in its channel, but for users who were
\* removed from the workspace, which leaves the channels as they are.
ChannelAgrees == \A u \in channel: role[u] # Nobody \/ u \in removed

AccessAgrees == CacheAgrees /\ OwnersStay /\ InvitesAgree /\ ChannelAgrees
=============================================================================
