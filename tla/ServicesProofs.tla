--------------------------- MODULE ServicesProofs ---------------------------
(***************************************************************************)
(* Theorems about the services of MCServices, for any number of users,     *)
(* requests, processes and failures.  Each part has its own inductive      *)
(* invariant; no two of them share a variable.                             *)
(***************************************************************************)
EXTENDS MCServices, FiniteSetTheorems, WellFoundedInduction, TLAPS

-----------------------------------------------------------------------------
(* Workspaces.  A request acts on what it read earlier.  So the invariant  *)
(* says, of each request and each step, what it may still rely on: the     *)
(* member it is about to change is an owner only if it makes an owner of   *)
(* it, the one it takes into the channel was a member, and an invite that  *)
(* is used up belongs to one request.                                      *)

AccessRequest ==
  [op: {"idle", "role", "remove", "channelAdd", "channelRemove", "invite", "joinChannel", "join",
        "list", "accept"},
   by: Users, target: Users, to: A!Roles, invite: SUBSET Invites,
   step: {"done", "cache", "load", "fill", "target", "write", "invalidate", "member", "lookup",
          "channels", "consume", "insert"},
   seen: A!Roles \cup {A!Nobody}, read: A!Roles \cup {A!Nobody}]

AccessTypes ==
  /\ role \in [Users -> A!Roles \cup {A!Nobody}] /\ channel \subseteq Users
  /\ invites \in [Invites -> {"none", "open", "used"}]
  /\ cached \in [Users -> A!Roles \cup {A!Nobody}] /\ trouble \in 0..AccessFailures
  /\ requests \in [AccessRequests -> AccessRequest]
  /\ doubtful \subseteq Users /\ owners \subseteq Users /\ removed \subseteq Users
  /\ admitted \in [Invites -> SUBSET Users]

\* who asks for others, and who for themselves; what comes with an invite
Asked(q) ==
  /\ q.op = "idle" => q.step = "done"
  /\ q.step = "member" => q.op \in {"joinChannel", "channelRemove"}
  /\ q.step \in {"lookup", "consume", "insert"} => q.target = q.by
  /\ q.step = "lookup" => q.invite = {}
  /\ q.step = "consume" => \E i \in Invites : q.invite = {i}
  /\ q.op \notin {"role", "remove", "channelAdd", "channelRemove"} => q.target = q.by

\* a change of role about to be written is of no owner, or makes one
Permitted(q) ==
  q.op = "role" /\ q.step = "write" =>
    (q.read = "OWNER" => q.to = "OWNER") /\ (q.target = Creator => q.read = "OWNER")

\* who is in the workspace, or was
Known(u) == role[u] # A!Nobody \/ u \in removed

\* who is about to be added to the channel
Joining(q) ==
  /\ q.step = "channels" /\ q.op # "list" => Known(q.by)
  /\ q.step = "invalidate" /\ q.op \in {"join", "accept"} => Known(q.by)
  /\ q.step = "write" /\ q.op \in {"joinChannel", "channelAdd"} => Known(q.target)

AskedInv == \A r \in AccessRequests : Asked(requests[r])
PermittedInv == \A r \in AccessRequests : Permitted(requests[r])
JoiningInv == \A r \in AccessRequests : Joining(requests[r])

\* the invite a request has used up for a user it is about to insert
Holds(r, i) == requests[r].step = "insert" /\ i \in requests[r].invite

InviteInv ==
  \A i \in Invites :
    /\ admitted[i] = {} \/ \E u \in Users : admitted[i] = {u}
    /\ invites[i] # "used" => admitted[i] = {}
    /\ \A r \in AccessRequests : Holds(r, i) =>
         /\ invites[i] = "used" /\ admitted[i] = {}
         /\ \A q \in AccessRequests : Holds(q, i) => q = r
    /\ invites[i] = "used" =>
         admitted[i] # {} \/ i \in burnt \/ \E r \in AccessRequests : Holds(r, i)

AccessInv ==
  AccessTypes /\ AskedInv /\ PermittedInv /\ JoiningInv /\ InviteInv
  /\ A!CacheAgrees /\ A!OwnersStay /\ A!ChannelAgrees

\* The steps that only move a request on.
AccessRead(r) ==
  \/ A!Start(r) \/ A!GetRole(r) \/ A!LoadRole(r) \/ A!GetTarget(r) \/ A!Lookup(r) \/ A!GetMember(r)

\* The steps that write.
AccessWrite(r) ==
  \/ A!SetRole(r) \/ A!UpdateMemberRole(r) \/ A!RemoveMember(r) \/ A!Invalidate(r)
  \/ A!CreateInvite(r) \/ A!Consume(r) \/ A!Insert(r) \/ A!AddToChannels(r)
  \/ A!AddChannelMember(r) \/ A!RemoveChannelMember(r)

LEMMA AccessCases ==
  ASSUME [A!Next]_accessVars
  PROVE  \/ \E r \in AccessRequests : AccessRead(r) \/ AccessWrite(r)
         \/ \E u \in Users : A!Expire(u)
         \/ UNCHANGED accessVars
  BY DEF A!Next, AccessRead, AccessWrite

\* What a request starts as.
Begun(q) ==
  /\ q \in AccessRequest /\ Asked(q) /\ q.step \notin {"write", "invalidate", "insert"}
  /\ q.step = "channels" => q.op = "list"

LEMMA BeginIsBegun ==
  ASSUME NEW by \in Users, NEW target \in Users, NEW to \in A!Roles, NEW invite \in SUBSET Invites,
         NEW op \in {"role", "remove", "channelAdd", "channelRemove", "invite", "joinChannel", "join",
                     "list", "accept"},
         NEW step \in {"cache", "member", "lookup", "channels", "consume"},
         op \notin {"role", "remove", "channelAdd", "channelRemove"} => target = by,
         step = "channels" => op = "list", step = "lookup" => invite = {},
         step \in {"lookup", "consume"} => target = by,
         step = "member" => op \in {"joinChannel", "channelRemove"},
         step = "consume" => \E i \in Invites : invite = {i}
  PROVE  Begun(A!Begin(op, by, target, to, invite, step))
  BY DEF A!Begin, AccessRequest, Begun, Asked

LEMMA StartBegins ==
  ASSUME NEW r \in AccessRequests, A!Start(r)
  PROVE  \E q : Begun(q) /\ requests' = [requests EXCEPT ![r] = q]
<1>0. "MEMBER" \in A!Roles /\ {} \in SUBSET Invites
  BY DEF A!Roles
<1>1. PICK by \in Users, target \in Users :
       \/ \E to \in A!Roles :
            requests' = [requests EXCEPT ![r] = A!Begin("role", by, target, to, {}, "cache")]
       \/ \E op \in {"remove", "channelAdd"} :
            requests' = [requests EXCEPT ![r] = A!Begin(op, by, target, "MEMBER", {}, "cache")]
       \/ requests' = [requests EXCEPT ![r] = A!Begin("channelRemove", by, target, "MEMBER", {},
                                                    IF target = by THEN "member" ELSE "cache")]
       \/ by = target /\
          \/ requests' = [requests EXCEPT ![r] = A!Begin("invite", by, by, "MEMBER", {}, "cache")]
          \/ requests' = [requests EXCEPT ![r] = A!Begin("joinChannel", by, by, "MEMBER", {}, "member")]
          \/ requests' = [requests EXCEPT ![r] = A!Begin("join", by, by, "MEMBER", {}, "lookup")]
          \/ requests' = [requests EXCEPT ![r] = A!Begin("list", by, by, "MEMBER", {}, "channels")]
          \/ \E i \in Invites : invites[i] # "none"
               /\ requests' = [requests EXCEPT ![r] = A!Begin("accept", by, by, "MEMBER", {i}, "consume")]
  BY DEF A!Start
<1>2. \A to \in A!Roles : Begun(A!Begin("role", by, target, to, {}, "cache"))
  BY <1>0, BeginIsBegun
<1>3. /\ Begun(A!Begin("remove", by, target, "MEMBER", {}, "cache"))
      /\ Begun(A!Begin("channelAdd", by, target, "MEMBER", {}, "cache"))
      /\ Begun(A!Begin("channelRemove", by, target, "MEMBER", {}, "member"))
      /\ Begun(A!Begin("channelRemove", by, target, "MEMBER", {}, "cache"))
  BY <1>0, BeginIsBegun
<1>4. /\ Begun(A!Begin("invite", by, by, "MEMBER", {}, "cache"))
      /\ Begun(A!Begin("joinChannel", by, by, "MEMBER", {}, "member"))
      /\ Begun(A!Begin("join", by, by, "MEMBER", {}, "lookup"))
      /\ Begun(A!Begin("list", by, by, "MEMBER", {}, "channels"))
  BY <1>0, BeginIsBegun
<1>5. \A i \in Invites : Begun(A!Begin("accept", by, by, "MEMBER", {i}, "consume"))
  BY <1>0, BeginIsBegun
<1>6. QED
  BY <1>1, <1>2, <1>3, <1>4, <1>5

\* A step moves its own request only.
LEMMA AccessOthers ==
  ASSUME AccessTypes, NEW r \in AccessRequests, AccessRead(r) \/ AccessWrite(r)
  PROVE  /\ requests' \in [AccessRequests -> AccessRequest]
         /\ \A q \in AccessRequests : q # r => requests'[q] = requests[q]
<1>0. requests \in [AccessRequests -> AccessRequest] /\ requests[r] \in AccessRequest
  BY DEF AccessTypes
<1>1. ASSUME NEW s \in {"done", "cache", "load", "fill", "target", "write", "invalidate", "member",
                        "lookup", "channels", "consume", "insert"},
             A!Goto(r, s)
      PROVE  /\ requests' \in [AccessRequests -> AccessRequest]
             /\ \A q \in AccessRequests : q # r => requests'[q] = requests[q]
  BY <1>0, <1>1 DEF A!Goto, AccessRequest
<1>2. CASE A!Start(r)
  <2>1. PICK q \in AccessRequest : requests' = [requests EXCEPT ![r] = q]
    BY <1>2, StartBegins DEF Begun
  <2>2. QED
    BY <1>0, <2>1
<1>3. ASSUME NEW seen \in A!Roles \cup {A!Nobody}, A!AfterCheck(r, seen)
      PROVE  /\ requests' \in [AccessRequests -> AccessRequest]
             /\ \A q \in AccessRequests : q # r => requests'[q] = requests[q]
  BY <1>0, <1>3 DEF A!AfterCheck, AccessRequest
<1>4. CASE A!GetRole(r)
  <2>1. cached[requests[r].by] \in A!Roles \cup {A!Nobody}
    BY <1>0 DEF AccessTypes, AccessRequest
  <2>2. QED
    BY <1>1, <1>3, <1>4, <2>1 DEF A!GetRole
<1>5. CASE A!LoadRole(r)
  <2>1. role[requests[r].by] \in A!Roles \cup {A!Nobody}
    BY <1>0 DEF AccessTypes, AccessRequest
  <2>2. QED
    BY <1>0, <1>1, <1>5, <2>1 DEF A!LoadRole, A!End, AccessRequest
<1>6. CASE A!SetRole(r)
  BY <1>0, <1>3, <1>6 DEF A!SetRole, AccessRequest
<1>7. CASE A!GetTarget(r)
  <2>1. role[requests[r].target] \in A!Roles \cup {A!Nobody}
    BY <1>0 DEF AccessTypes, AccessRequest
  <2>2. QED
    BY <1>0, <1>1, <1>7, <2>1 DEF A!GetTarget, A!End, AccessRequest
<1>8. CASE A!Lookup(r) \/ A!GetMember(r) \/ A!UpdateMemberRole(r) \/ A!RemoveMember(r) \/ A!Invalidate(r)
  BY <1>1, <1>8 DEF A!Lookup, A!GetMember, A!UpdateMemberRole, A!RemoveMember, A!Invalidate, A!End
<1>9. CASE A!CreateInvite(r) \/ A!Consume(r) \/ A!Insert(r) \/ A!AddToChannels(r)
           \/ A!AddChannelMember(r) \/ A!RemoveChannelMember(r)
  BY <1>1, <1>9 DEF A!CreateInvite, A!Consume, A!Insert, A!AddToChannels, A!AddChannelMember,
                    A!RemoveChannelMember, A!End
<1>10. QED
  BY <1>2, <1>4, <1>5, <1>6, <1>7, <1>8, <1>9 DEF AccessRead, AccessWrite

\* A request that goes on stays what it is.
LEMMA AccessSame ==
  ASSUME AccessTypes, NEW r \in AccessRequests, AccessRead(r) \/ AccessWrite(r), ~A!Start(r)
  PROVE  /\ requests'[r].op = requests[r].op /\ requests'[r].by = requests[r].by
         /\ requests'[r].target = requests[r].target /\ requests'[r].to = requests[r].to
         /\ requests'[r].invite = requests[r].invite
         /\ requests[r].step # "done"
<1>0. requests \in [AccessRequests -> AccessRequest] /\ requests[r] \in AccessRequest
  BY DEF AccessTypes
<1> DEFINE Same == /\ requests'[r].op = requests[r].op /\ requests'[r].by = requests[r].by
                   /\ requests'[r].target = requests[r].target /\ requests'[r].to = requests[r].to
                   /\ requests'[r].invite = requests[r].invite
<1>1. ASSUME NEW s, A!Goto(r, s) PROVE Same
  BY <1>0, <1>1 DEF A!Goto, AccessRequest
<1>2. ASSUME NEW seen, A!AfterCheck(r, seen) PROVE Same
  BY <1>0, <1>2 DEF A!AfterCheck, AccessRequest
<1>3. CASE A!GetRole(r) \/ A!SetRole(r)
  BY <1>1, <1>2, <1>3 DEF A!GetRole, A!SetRole, A!At
<1>4. CASE A!LoadRole(r)
  BY <1>0, <1>1, <1>4 DEF A!LoadRole, A!At, A!End, AccessRequest
<1>5. CASE A!GetTarget(r)
  BY <1>0, <1>1, <1>5 DEF A!GetTarget, A!At, A!End, AccessRequest
<1>6. CASE A!Lookup(r) \/ A!GetMember(r) \/ A!UpdateMemberRole(r) \/ A!RemoveMember(r) \/ A!Invalidate(r)
  BY <1>1, <1>6 DEF A!Lookup, A!GetMember, A!UpdateMemberRole, A!RemoveMember, A!Invalidate, A!End, A!At
<1>7. CASE A!CreateInvite(r) \/ A!Consume(r) \/ A!Insert(r) \/ A!AddToChannels(r)
           \/ A!AddChannelMember(r) \/ A!RemoveChannelMember(r)
  BY <1>1, <1>7 DEF A!CreateInvite, A!Consume, A!Insert, A!AddToChannels, A!AddChannelMember,
                    A!RemoveChannelMember, A!End, A!At
<1>8. QED
  BY <1>3, <1>4, <1>5, <1>6, <1>7 DEF AccessRead, AccessWrite

\* Where a request may go from where it is.
LEMMA AccessGoes ==
  ASSUME AccessTypes, NEW r \in AccessRequests, AccessRead(r) \/ AccessWrite(r), ~A!Start(r)
  PROVE  LET was == requests[r].step
             is == requests'[r].step
             op == requests[r].op
         IN  /\ is = "write" => \/ was \in {"cache", "fill"} /\ op \in {"invite", "channelRemove"}
                                \/ was = "target" /\ A!GetTarget(r)
                                \/ was = "member" /\ A!GetMember(r)
             /\ is = "invalidate" => was = "write" \/ (was = "insert" /\ A!Insert(r))
             /\ is = "channels" => (was = "lookup" /\ A!Lookup(r)) \/ was = "invalidate"
             /\ is = "insert" => (was = "lookup" /\ A!Lookup(r)) \/ (was = "consume" /\ A!Consume(r))
             /\ is \notin {"member", "lookup", "consume"}
<1>0. requests \in [AccessRequests -> AccessRequest] /\ requests[r] \in AccessRequest
  BY DEF AccessTypes
<1>1. ASSUME NEW s, A!Goto(r, s) PROVE requests'[r].step = s
  BY <1>0, <1>1 DEF A!Goto, AccessRequest
<1>2. ASSUME NEW seen, A!AfterCheck(r, seen)
      PROVE  \/ requests'[r].step = "done" \/ requests'[r].step = "target"
             \/ requests'[r].step = "write" /\ requests[r].op \in {"invite", "channelRemove"}
  BY <1>0, <1>2 DEF A!AfterCheck, AccessRequest
<1>3. CASE A!GetRole(r) \/ A!SetRole(r)
  BY <1>1, <1>2, <1>3 DEF A!GetRole, A!SetRole, A!At
<1>4. CASE A!LoadRole(r)
  BY <1>0, <1>1, <1>4 DEF A!LoadRole, A!At, A!End, AccessRequest
<1>5. CASE A!GetTarget(r)
  BY <1>0, <1>1, <1>5 DEF A!GetTarget, A!At, A!End, AccessRequest
<1>6. CASE A!Lookup(r) \/ A!GetMember(r) \/ A!UpdateMemberRole(r) \/ A!RemoveMember(r)
  <2>1. CASE A!Lookup(r)
    BY <1>1, <2>1 DEF A!Lookup, A!At
  <2>2. CASE A!GetMember(r)
    BY <1>1, <2>2 DEF A!GetMember, A!End, A!At
  <2>3. CASE A!UpdateMemberRole(r) \/ A!RemoveMember(r)
    BY <1>1, <2>3 DEF A!UpdateMemberRole, A!RemoveMember, A!End, A!At
  <2>4. QED
    BY <1>6, <2>1, <2>2, <2>3
<1>7. CASE A!CreateInvite(r) \/ A!Consume(r) \/ A!Insert(r) \/ A!AddToChannels(r)
           \/ A!AddChannelMember(r) \/ A!RemoveChannelMember(r) \/ A!Invalidate(r)
  BY <1>1, <1>7 DEF A!CreateInvite, A!Consume, A!Insert, A!AddToChannels, A!AddChannelMember,
                    A!RemoveChannelMember, A!Invalidate, A!End, A!At
<1>8. QED
  BY <1>3, <1>4, <1>5, <1>6, <1>7 DEF AccessRead, AccessWrite

\* Requests keep to what they ask.
LEMMA AskedStep ==
  ASSUME AccessTypes, AskedInv, NEW r \in AccessRequests, AccessRead(r) \/ AccessWrite(r)
  PROVE  AskedInv'
<1>0. \A q \in AccessRequests : q # r => requests'[q] = requests[q]
  BY AccessOthers
<1>1. CASE A!Start(r)
  <2>1. PICK q : Begun(q) /\ requests' = [requests EXCEPT ![r] = q]
    BY <1>1, StartBegins
  <2>2. requests'[r] = q
    BY <2>1 DEF AccessTypes
  <2>3. QED
    BY <1>0, <2>1, <2>2 DEF AskedInv, Begun, Asked
<1>2. CASE ~A!Start(r)
  <2>1. Asked(requests'[r])
    BY <1>2, AccessSame, AccessGoes DEF AskedInv, Asked
  <2>2. QED
    BY <1>0, <2>1 DEF AskedInv, Asked
<1>3. QED
  BY <1>1, <1>2

\* Who was a member is one, or was removed.
LEMMA KnownStays ==
  ASSUME AccessTypes, NEW r \in AccessRequests, AccessRead(r) \/ AccessWrite(r)
  PROVE  \A u \in Users : Known(u) => Known(u)'
<1>0. requests[r] \in AccessRequest /\ role \in [Users -> A!Roles \cup {A!Nobody}]
  BY DEF AccessTypes
<1>1. CASE A!UpdateMemberRole(r)
  BY <1>0, <1>1 DEF A!UpdateMemberRole, Known, AccessRequest, A!Roles, A!Nobody
<1>2. CASE A!RemoveMember(r)
  BY <1>0, <1>2 DEF A!RemoveMember, Known, AccessRequest
<1>3. CASE A!Insert(r)
  BY <1>0, <1>3 DEF A!Insert, Known, AccessRequest, A!Nobody
<1>4. CASE UNCHANGED <<role, removed>>
  BY <1>4 DEF Known
<1>5. QED
  BY <1>1, <1>2, <1>3, <1>4
  DEF AccessRead, AccessWrite, A!Start, A!GetRole, A!LoadRole, A!GetTarget, A!Lookup, A!GetMember,
      A!SetRole, A!Invalidate, A!CreateInvite, A!Consume, A!AddToChannels, A!AddChannelMember,
      A!RemoveChannelMember, A!members, A!ghosts

\* Who is about to be added to the channel is a member, or was removed since.
LEMMA JoiningStep ==
  ASSUME AccessTypes, AskedInv, JoiningInv, NEW r \in AccessRequests, AccessRead(r) \/ AccessWrite(r)
  PROVE  JoiningInv'
<1>0. /\ \A q \in AccessRequests : q # r => requests'[q] = requests[q]
      /\ \A q \in AccessRequests : requests[q].by \in Users /\ requests[q].target \in Users
  BY AccessOthers DEF AccessTypes, AccessRequest
<1>1. SUFFICES Joining(requests[r])'
  BY <1>0, KnownStays DEF JoiningInv, Joining
<1>2. CASE A!Start(r)
  <2>1. PICK q : Begun(q) /\ requests' = [requests EXCEPT ![r] = q]
    BY <1>2, StartBegins
  <2>2. requests'[r] = q
    BY <2>1 DEF AccessTypes
  <2>3. QED
    BY <2>1, <2>2 DEF Begun, Joining
<1>3. CASE ~A!Start(r)
  <2>0. /\ requests'[r].op = requests[r].op /\ requests'[r].by = requests[r].by
        /\ requests'[r].target = requests[r].target
    BY <1>3, AccessSame
  <2>1. ASSUME requests'[r].step = "channels", requests[r].op # "list" PROVE Known(requests[r].by)'
    <3>1. CASE A!Lookup(r)
      <4>1. role[requests[r].by] # A!Nobody
        <5>1. requests'[r].step = IF role[requests[r].by] = A!Nobody THEN "insert" ELSE "channels"
          BY <3>1 DEF A!Lookup, A!Goto, AccessTypes, AccessRequest
        <5>2. QED
          BY <2>1, <5>1
      <4>2. QED
        BY <1>0, <2>0, <4>1, KnownStays DEF Known
    <3>2. CASE requests[r].step = "invalidate" /\ ~A!Lookup(r)
      <4>1. requests[r].op \in {"join", "accept"}
        <5>1. A!Invalidate(r)
          BY <1>3, <3>2 DEF AccessRead, AccessWrite, A!GetRole, A!LoadRole, A!GetTarget, A!Lookup,
             A!GetMember, A!SetRole, A!UpdateMemberRole, A!RemoveMember, A!CreateInvite, A!Consume,
             A!Insert, A!AddToChannels, A!AddChannelMember, A!RemoveChannelMember, A!At
        <5>2. QED
          BY <2>1, <5>1 DEF A!Invalidate, A!End, A!Goto, AccessTypes, AccessRequest
      <4>2. QED
        BY <1>0, <2>0, <3>2, <4>1, KnownStays DEF JoiningInv, Joining, Known
    <3>3. QED
      BY <1>3, <2>1, <3>1, <3>2, AccessGoes
  <2>2. ASSUME requests'[r].step = "invalidate", requests[r].op \in {"join", "accept"}
        PROVE  Known(requests[r].by)'
    <3>1. A!Insert(r)
      <4>1. ~A!UpdateMemberRole(r) /\ ~A!RemoveMember(r)
        BY <2>2 DEF A!UpdateMemberRole, A!RemoveMember
      <4>2. requests[r].step = "write" => ~(requests'[r].step = "invalidate")
        <5>1. SUFFICES ASSUME requests[r].step = "write" PROVE requests'[r].step = "done"
          OBVIOUS
        <5>2. A!CreateInvite(r) \/ A!AddChannelMember(r) \/ A!RemoveChannelMember(r)
          BY <1>3, <4>1, <5>1 DEF AccessRead, AccessWrite, A!GetRole, A!LoadRole, A!GetTarget,
             A!Lookup, A!GetMember, A!SetRole, A!Invalidate, A!Consume, A!Insert, A!AddToChannels, A!At
        <5>3. QED
          BY <5>2 DEF A!CreateInvite, A!AddChannelMember, A!RemoveChannelMember, A!End, A!Goto,
                      AccessTypes, AccessRequest
      <4>3. QED
        BY <1>3, <2>2, <4>2, AccessGoes
    <3>2. role'[requests[r].by] # A!Nobody
      <4>1. CASE role[requests[r].by] = A!Nobody /\ role' = [role EXCEPT ![requests[r].by] = "MEMBER"]
        BY <1>0, <4>1 DEF AccessTypes, A!Nobody
      <4>2. CASE A!End(r)
        BY <2>2, <4>2 DEF A!End, A!Goto, AccessTypes, AccessRequest
      <4>3. QED
        BY <3>1, <4>1, <4>2 DEF A!Insert
    <3>3. QED
      BY <2>0, <3>2 DEF Known
  <2>3. ASSUME requests'[r].step = "write", requests[r].op \in {"joinChannel", "channelAdd"}
        PROVE  Known(requests[r].target)'
    <3>1. CASE A!GetTarget(r)
      <4>1. role[requests[r].target] # A!Nobody
        <5>1. CASE A!Allowed(requests[r], role[requests[r].target])
          BY <5>1 DEF A!Allowed
        <5>2. CASE ~A!Allowed(requests[r], role[requests[r].target])
          BY <2>3, <3>1, <5>2 DEF A!GetTarget, A!End, A!Goto, AccessTypes, AccessRequest
        <5>3. QED
          BY <5>1, <5>2
      <4>2. QED
        BY <1>0, <2>0, <4>1, KnownStays DEF Known
    <3>2. CASE A!GetMember(r) /\ requests[r].step = "member"
      <4>1. role[requests[r].by] # A!Nobody
        BY <2>3, <3>2 DEF A!GetMember, A!End, A!Goto, AccessTypes, AccessRequest
      <4>2. requests[r].target = requests[r].by
        BY <2>3, <3>2 DEF AskedInv, Asked
      <4>3. QED
        BY <1>0, <2>0, <4>1, <4>2, KnownStays DEF Known
    <3>3. QED
      BY <1>3, <2>3, <3>1, <3>2, AccessGoes
  <2>4. QED
    BY <2>0, <2>1, <2>2, <2>3 DEF Joining, Known
<1>4. QED
  BY <1>2, <1>3

\* A change of role is checked against the role its member had: an owner stays
\* one, and who created the workspace is one.
LEMMA PermittedStep ==
  ASSUME AccessTypes, AskedInv, PermittedInv, A!OwnersStay,
         NEW r \in AccessRequests, AccessRead(r) \/ AccessWrite(r)
  PROVE  PermittedInv'
<1>0. \A q \in AccessRequests : q # r => requests'[q] = requests[q]
  BY AccessOthers
<1>1. SUFFICES ASSUME requests'[r].op = "role", requests'[r].step = "write"
               PROVE  /\ requests'[r].read = "OWNER" => requests'[r].to = "OWNER"
                      /\ requests'[r].target = Creator => requests'[r].read = "OWNER"
  BY <1>0 DEF PermittedInv, Permitted
<1>2. ~A!Start(r)
  <2>1. ASSUME NEW q, Begun(q), requests' = [requests EXCEPT ![r] = q] PROVE FALSE
    BY <1>1, <2>1 DEF AccessTypes, Begun
  <2>2. QED
    BY <2>1, StartBegins
<1>3. requests[r].op = "role"
  BY <1>1, <1>2, AccessSame
<1>4. A!GetTarget(r)
  BY <1>1, <1>2, <1>3, AccessGoes DEF AskedInv, Asked
<1>5. A!Allowed(requests[r], role[requests[r].target])
  <2>1. CASE A!End(r)
    BY <1>1, <2>1 DEF A!End, A!Goto, AccessTypes, AccessRequest
  <2>2. QED
    BY <1>4, <2>1 DEF A!GetTarget
<1>6. requests' = [requests EXCEPT ![r].read = role[requests[r].target], ![r].step = "write"]
  BY <1>4, <1>5 DEF A!GetTarget
<1>7. requests'[r].read = role[requests[r].target]
  BY <1>6 DEF AccessTypes, AccessRequest
<1>8. requests'[r].to = requests[r].to /\ requests'[r].target = requests[r].target
  BY <1>2, AccessSame
<1>9. QED
  BY <1>3, <1>5, <1>7, <1>8 DEF A!Allowed, A!OwnersStay

\* The entry of a user whose role changes is about to be invalidated.
LEMMA CacheStep ==
  ASSUME AccessTypes, AskedInv, A!CacheAgrees,
         NEW r \in AccessRequests, AccessRead(r) \/ AccessWrite(r)
  PROVE  A!CacheAgrees'
<1>0. /\ \A q \in AccessRequests : q # r => requests'[q] = requests[q]
      /\ requests[r] \in AccessRequest /\ role \in [Users -> A!Roles \cup {A!Nobody}]
      /\ cached \in [Users -> A!Roles \cup {A!Nobody}]
      /\ requests[r].by \in Users /\ requests[r].target \in Users
  BY AccessOthers DEF AccessTypes, AccessRequest
<1>1. ASSUME NEW u \in Users, A!Changing(u), requests[r].step # "invalidate" \/ requests[r].target # u
      PROVE  A!Changing(u)'
  BY <1>0, <1>1 DEF A!Changing, A!At
<1>2. CASE UNCHANGED <<role, cached, doubtful>> /\ requests[r].step # "invalidate"
  BY <1>1, <1>2 DEF A!CacheAgrees
<1>3. CASE A!SetRole(r)
  <2>1. requests[r].step = "fill"
    BY <1>3 DEF A!SetRole, A!At
  <2>2. CASE UNCHANGED <<cached, doubtful>>
    BY <1>2, <1>3, <2>1, <2>2 DEF A!SetRole, A!members
  <2>3. CASE /\ cached' = [cached EXCEPT ![requests[r].by] = requests[r].seen]
             /\ doubtful' = IF role[requests[r].by] # requests[r].seen
                            THEN doubtful \cup {requests[r].by} ELSE doubtful \ {requests[r].by}
    <3>1. role' = role
      BY <1>3 DEF A!SetRole, A!members
    <3>2. ASSUME NEW u \in Users, u # requests[r].by
          PROVE  cached'[u] \in {A!Nobody, role'[u]} \/ A!Changing(u)' \/ u \in doubtful'
      BY <1>0, <1>1, <2>1, <2>3, <3>1, <3>2 DEF A!CacheAgrees
    <3>3. cached'[requests[r].by] = role'[requests[r].by] \/ requests[r].by \in doubtful'
      BY <1>0, <2>3, <3>1
    <3>4. QED
      BY <3>2, <3>3 DEF A!CacheAgrees
  <2>4. QED
    BY <1>3, <2>2, <2>3 DEF A!SetRole
<1>4. ASSUME NEW u \in Users, NEW to, role' = [role EXCEPT ![u] = to], UNCHANGED <<cached, doubtful>>,
             A!Changing(u)', requests[r].step # "invalidate"
      PROVE  A!CacheAgrees'
  <2>1. \A v \in Users : v # u => role'[v] = role[v]
    BY <1>0, <1>4
  <2>2. QED
    BY <1>1, <1>4, <2>1 DEF A!CacheAgrees
<1>5. ASSUME A!Goto(r, "invalidate"), NEW u \in Users, requests[r].target = u PROVE A!Changing(u)'
  BY <1>0, <1>5 DEF A!Changing, A!At, A!Goto, AccessTypes, AccessRequest
<1>6. CASE A!UpdateMemberRole(r)
  BY <1>0, <1>2, <1>4, <1>5, <1>6 DEF A!UpdateMemberRole, A!At
<1>7. CASE A!RemoveMember(r)
  BY <1>0, <1>2, <1>4, <1>5, <1>7 DEF A!RemoveMember, A!At
<1>8. CASE A!Insert(r)
  <2>1. requests[r].step = "insert" /\ UNCHANGED <<cached, doubtful>>
    BY <1>8 DEF A!Insert, A!At
  <2>2. CASE UNCHANGED role
    BY <1>2, <2>1, <2>2
  <2>3. CASE role' = [role EXCEPT ![requests[r].by] = "MEMBER"] /\ A!Goto(r, "invalidate")
    <3>1. requests[r].target = requests[r].by
      BY <2>1 DEF AskedInv, Asked
    <3>2. QED
      BY <1>0, <1>4, <1>5, <2>1, <2>3, <3>1
  <2>4. QED
    BY <1>8, <2>2, <2>3 DEF A!Insert
<1>9. CASE A!Invalidate(r)
  <2>1. role' = role
    BY <1>9 DEF A!Invalidate, A!members
  <2>2. CASE cached' = [cached EXCEPT ![requests[r].target] = A!Nobody] /\ doubtful' = doubtful \ {requests[r].target}
    BY <1>0, <1>1, <2>1, <2>2 DEF A!CacheAgrees
  <2>3. CASE cached' = cached /\ doubtful' = doubtful \cup {requests[r].target}
    BY <1>0, <1>1, <2>1, <2>3 DEF A!CacheAgrees
  <2>4. QED
    BY <1>9, <2>2, <2>3 DEF A!Invalidate
<1>10. CASE \/ A!Start(r) \/ A!GetRole(r) \/ A!LoadRole(r) \/ A!GetTarget(r) \/ A!Lookup(r) \/ A!GetMember(r)
            \/ A!CreateInvite(r) \/ A!Consume(r) \/ A!AddToChannels(r) \/ A!AddChannelMember(r)
            \/ A!RemoveChannelMember(r)
  <2>1. UNCHANGED <<role, cached, doubtful>>
    BY <1>10 DEF A!Start, A!GetRole, A!LoadRole, A!GetTarget, A!Lookup, A!GetMember, A!CreateInvite,
       A!Consume, A!AddToChannels, A!AddChannelMember, A!RemoveChannelMember, A!members, A!ghosts
  <2>2. requests[r].step # "invalidate"
    BY <1>10 DEF A!Start, A!GetRole, A!LoadRole, A!GetTarget, A!Lookup, A!GetMember, A!CreateInvite,
       A!Consume, A!AddToChannels, A!AddChannelMember, A!RemoveChannelMember, A!At, AskedInv, Asked
  <2>3. QED
    BY <1>2, <2>1, <2>2
<1>11. QED
  BY <1>3, <1>6, <1>7, <1>8, <1>9, <1>10 DEF AccessRead, AccessWrite

\* An owner loses the role only to a change that found another one.
LEMMA OwnersStep ==
  ASSUME AccessTypes, AskedInv, PermittedInv, A!OwnersStay,
         NEW r \in AccessRequests, AccessRead(r) \/ AccessWrite(r)
  PROVE  A!OwnersStay'
<1>0. /\ requests[r] \in AccessRequest /\ role \in [Users -> A!Roles \cup {A!Nobody}]
      /\ requests[r].by \in Users /\ requests[r].target \in Users /\ Creator \in Users
      /\ owners \subseteq Users
  BY ServiceConstants DEF AccessTypes, AccessRequest, A!AccessAssumption
<1>1. CASE UNCHANGED <<role, owners, overtaken>>
  BY <1>1 DEF A!OwnersStay
<1>2. CASE A!UpdateMemberRole(r)
  <2>1. CASE role[requests[r].target] = A!Nobody
    BY <1>1, <1>2, <2>1 DEF A!UpdateMemberRole
  <2>2. CASE role[requests[r].target] # A!Nobody
    <3>1. /\ requests[r].op = "role" /\ requests[r].step = "write"
          /\ role' = [role EXCEPT ![requests[r].target] = requests[r].to]
          /\ owners' = IF requests[r].to = "OWNER" THEN owners \cup {requests[r].target} ELSE owners
          /\ overtaken' = IF role[requests[r].target] = "OWNER" /\ requests[r].to # "OWNER"
                             /\ requests[r].read # "OWNER"
                          THEN overtaken \cup {requests[r].target} ELSE overtaken
      BY <1>2, <2>2 DEF A!UpdateMemberRole, A!At
    <3>2. /\ requests[r].read = "OWNER" => requests[r].to = "OWNER"
          /\ requests[r].target = Creator => requests[r].read = "OWNER"
      BY <3>1 DEF PermittedInv, Permitted
    <3>3. role'[Creator] = "OWNER"
      BY <1>0, <3>1, <3>2 DEF A!OwnersStay
    <3>4. ASSUME NEW u \in owners' \ overtaken' PROVE role'[u] = "OWNER"
      BY <1>0, <3>1, <3>2 DEF A!OwnersStay
    <3>5. QED
      BY <3>3, <3>4 DEF A!OwnersStay
  <2>3. QED
    BY <2>1, <2>2
<1>3. CASE A!RemoveMember(r)
  BY <1>0, <1>3 DEF A!RemoveMember, A!OwnersStay
<1>4. CASE A!Insert(r)
  BY <1>0, <1>4 DEF A!Insert, A!OwnersStay, A!Nobody
<1>5. QED
  BY <1>1, <1>2, <1>3, <1>4
  DEF AccessRead, AccessWrite, A!Start, A!GetRole, A!LoadRole, A!GetTarget, A!Lookup, A!GetMember,
      A!SetRole, A!Invalidate, A!CreateInvite, A!Consume, A!AddToChannels, A!AddChannelMember,
      A!RemoveChannelMember, A!members, A!ghosts

\* Who comes into the channel was a member.
LEMMA ChannelStep ==
  ASSUME AccessTypes, AskedInv, JoiningInv, A!ChannelAgrees,
         NEW r \in AccessRequests, AccessRead(r) \/ AccessWrite(r)
  PROVE  A!ChannelAgrees'
<1>0. /\ \A u \in channel : u \in Users /\ Known(u)
      /\ requests[r].by \in Users /\ requests[r].target \in Users
  BY DEF AccessTypes, AccessRequest, A!ChannelAgrees, Known
<1>1. channel' \subseteq channel \cup {u \in Users : Known(u)}
  <2>1. CASE A!AddToChannels(r)
    BY <1>0, <2>1 DEF A!AddToChannels, A!At, JoiningInv, Joining, Known
  <2>2. CASE A!AddChannelMember(r)
    BY <1>0, <2>2 DEF A!AddChannelMember, A!At, JoiningInv, Joining
  <2>3. CASE channel' \subseteq channel
    BY <2>3
  <2>4. QED
    BY <2>1, <2>2, <2>3
    DEF AccessRead, AccessWrite, A!Start, A!GetRole, A!LoadRole, A!GetTarget, A!Lookup, A!GetMember,
        A!SetRole, A!Invalidate, A!CreateInvite, A!Consume, A!UpdateMemberRole, A!RemoveMember,
        A!Insert, A!RemoveChannelMember, A!members, A!ghosts
<1>2. ASSUME NEW u \in channel' PROVE Known(u)'
  BY <1>0, <1>1, KnownStays
<1>3. QED
  BY <1>2 DEF A!ChannelAgrees, Known

\* An invite is used up by one request, which inserts its user or fails to.
LEMMA InviteStep ==
  ASSUME AccessTypes, AskedInv, InviteInv, NEW r \in AccessRequests, AccessRead(r) \/ AccessWrite(r)
  PROVE  InviteInv'
<1>0. /\ \A q \in AccessRequests : q # r => requests'[q] = requests[q]
      /\ requests[r] \in AccessRequest /\ requests[r].by \in Users
      /\ invites \in [Invites -> {"none", "open", "used"}] /\ admitted \in [Invites -> SUBSET Users]
  BY AccessOthers DEF AccessTypes, AccessRequest
<1>a. ASSUME NEW q \in AccessRequests, q # r, NEW i \in Invites PROVE Holds(q, i)' <=> Holds(q, i)
  BY <1>0, <1>a DEF Holds
<1>1. ASSUME UNCHANGED <<invites, admitted, burnt>>, \A i \in Invites : ~Holds(r, i) /\ ~Holds(r, i)'
      PROVE  InviteInv'
  <2>1. \A i \in Invites, q \in AccessRequests : Holds(q, i)' <=> Holds(q, i)
    BY <1>a, <1>1
  <2>2. QED
    BY <1>1, <2>1 DEF InviteInv
<1>2. CASE A!CreateInvite(r)
  <2>1. PICK i \in Invites : invites[i] = "none" /\ invites' = [invites EXCEPT ![i] = "open"]
    BY <1>2 DEF A!CreateInvite
  <2>2. UNCHANGED <<admitted, burnt>>
    BY <1>2 DEF A!CreateInvite, A!ghosts
  <2>3. \A j \in Invites : ~Holds(r, j) /\ ~Holds(r, j)'
    BY <1>2 DEF A!CreateInvite, A!At, A!End, A!Goto, Holds, AccessTypes, AccessRequest
  <2>4. \A j \in Invites, q \in AccessRequests : Holds(q, j)' <=> Holds(q, j)
    BY <1>a, <2>3
  <2>5. \A j \in Invites : invites'[j] = IF j = i THEN "open" ELSE invites[j]
    BY <1>0, <2>1
  <2>6. QED
    BY <2>1, <2>2, <2>4, <2>5 DEF InviteInv
<1>3. CASE A!Consume(r)
  <2>0. UNCHANGED <<admitted, burnt>> /\ requests[r].step = "consume"
    BY <1>3 DEF A!Consume, A!ghosts, A!At
  <2>1. PICK i \in Invites : requests[r].invite = {i}
    BY <2>0 DEF AskedInv, Asked
  <2>2. \A j \in Invites : ~Holds(r, j)
    BY <2>0 DEF Holds
  <2>3. CASE invites[i] = "open"
    <3>1. invites' = [j \in Invites |-> IF j = i THEN "used" ELSE invites[j]] /\ A!Goto(r, "insert")
      BY <1>3, <2>1, <2>3 DEF A!Consume
    <3>2. requests'[r].step = "insert" /\ requests'[r].invite = {i}
      BY <2>1, <3>1 DEF A!Goto, AccessTypes, AccessRequest
    <3>3. \A j \in Invites : Holds(r, j)' <=> j = i
      BY <3>2 DEF Holds
    <3>4. \A q \in AccessRequests : ~Holds(q, i)
      BY <2>3 DEF InviteInv
    <3>5. admitted[i] = {}
      BY <2>3 DEF InviteInv
    <3>6. QED
      BY <1>a, <2>0, <2>2, <3>1, <3>3, <3>4, <3>5 DEF InviteInv
  <2>4. CASE invites[i] # "open"
    <3>1. A!End(r) /\ invites' = invites
      BY <1>3, <2>1, <2>4 DEF A!Consume
    <3>2. \A j \in Invites : ~Holds(r, j)'
      BY <3>1 DEF A!End, A!Goto, Holds, AccessTypes, AccessRequest
    <3>3. QED
      BY <1>1, <2>0, <2>2, <3>1, <3>2
  <2>5. QED
    BY <2>3, <2>4
<1>4. CASE A!Insert(r)
  <2>0. requests[r].step = "insert" /\ invites' = invites
    BY <1>4 DEF A!Insert, A!At
  <2>1. \A i \in Invites : Holds(r, i) <=> i \in requests[r].invite
    BY <2>0 DEF Holds
  <2>2. \A i \in Invites : ~Holds(r, i)'
    BY <1>4 DEF A!Insert, A!End, A!Goto, Holds, AccessTypes, AccessRequest
  <2>3. \/ /\ \A i \in Invites : admitted'[i] = IF Holds(r, i) THEN admitted[i] \cup {requests[r].by}
                                                ELSE admitted[i]
           /\ burnt' = burnt
        \/ admitted' = admitted /\ burnt' = burnt \cup requests[r].invite
    BY <1>4, <2>1 DEF A!Insert
  <2>4. CASE /\ \A i \in Invites : admitted'[i] = IF Holds(r, i) THEN admitted[i] \cup {requests[r].by}
                                                  ELSE admitted[i]
             /\ burnt' = burnt
    <3>1. ASSUME NEW i \in Invites, Holds(r, i)
          PROVE  /\ admitted'[i] = {requests[r].by} /\ invites'[i] = "used"
                 /\ \A q \in AccessRequests : ~Holds(q, i)'
      BY <1>a, <2>0, <2>2, <2>4, <3>1 DEF InviteInv
    <3>2. ASSUME NEW i \in Invites, ~Holds(r, i)
          PROVE  /\ admitted'[i] = admitted[i] /\ invites'[i] = invites[i]
                 /\ \A q \in AccessRequests : Holds(q, i)' <=> Holds(q, i)
      BY <1>a, <2>0, <2>2, <2>4, <3>2
    <3>3. QED
      BY <1>0, <2>4, <3>1, <3>2 DEF InviteInv
  <2>5. CASE admitted' = admitted /\ burnt' = burnt \cup requests[r].invite
    BY <1>a, <2>0, <2>1, <2>2, <2>5 DEF InviteInv
  <2>6. QED
    BY <2>3, <2>4, <2>5
<1>5. CASE A!Lookup(r)
  <2>1. requests[r].invite = {} /\ requests'[r].invite = requests[r].invite
    BY <1>5 DEF A!Lookup, A!Goto, A!At, AskedInv, Asked, AccessTypes, AccessRequest
  <2>2. UNCHANGED <<invites, admitted, burnt>>
    BY <1>5 DEF A!Lookup, A!members, A!ghosts
  <2>3. QED
    BY <1>1, <2>1, <2>2 DEF Holds
<1>6. CASE A!Start(r)
  <2>1. PICK q : Begun(q) /\ requests' = [requests EXCEPT ![r] = q]
    BY <1>6, StartBegins
  <2>2. requests'[r].step # "insert"
    BY <2>1 DEF AccessTypes, Begun
  <2>3. requests[r].step # "insert" /\ UNCHANGED <<invites, admitted, burnt>>
    BY <1>6 DEF A!Start, A!members, A!ghosts, AskedInv, Asked
  <2>4. QED
    BY <1>1, <2>2, <2>3 DEF Holds
<1>7. CASE \/ A!GetRole(r) \/ A!LoadRole(r) \/ A!GetTarget(r) \/ A!GetMember(r) \/ A!SetRole(r)
           \/ A!UpdateMemberRole(r) \/ A!RemoveMember(r) \/ A!Invalidate(r)
           \/ A!AddToChannels(r) \/ A!AddChannelMember(r) \/ A!RemoveChannelMember(r)
  <2>1. UNCHANGED <<invites, admitted, burnt>> /\ requests[r].step \notin {"insert", "lookup", "consume"}
    BY <1>7 DEF A!GetRole, A!LoadRole, A!GetTarget, A!GetMember, A!SetRole, A!UpdateMemberRole,
       A!RemoveMember, A!Invalidate, A!AddToChannels, A!AddChannelMember, A!RemoveChannelMember,
       A!At, A!members, A!ghosts
  <2>2. requests'[r].step # "insert"
    <3>1. ~A!Start(r)
      BY <1>7 DEF A!Start, A!GetRole, A!LoadRole, A!GetTarget, A!GetMember, A!SetRole,
         A!UpdateMemberRole, A!RemoveMember, A!Invalidate, A!AddToChannels, A!AddChannelMember,
         A!RemoveChannelMember, A!At, AskedInv, Asked
    <3>2. QED
      BY <2>1, <3>1, AccessGoes
  <2>3. QED
    BY <1>1, <2>1, <2>2 DEF Holds
<1>8. QED
  BY <1>2, <1>3, <1>4, <1>5, <1>6, <1>7 DEF AccessRead, AccessWrite

\* Every step keeps the types.
LEMMA AccessTypeStep ==
  ASSUME AccessTypes, NEW r \in AccessRequests, AccessRead(r) \/ AccessWrite(r)
  PROVE  AccessTypes'
<1>0. /\ requests[r] \in AccessRequest
      /\ requests[r].by \in Users /\ requests[r].target \in Users /\ requests[r].to \in A!Roles
      /\ requests[r].seen \in A!Roles \cup {A!Nobody}
  BY DEF AccessTypes, AccessRequest
<1>1. requests' \in [AccessRequests -> AccessRequest]
  BY AccessOthers
<1>2. A!Fails => trouble' \in 0..AccessFailures
  BY ServiceConstants DEF A!Fails, AccessTypes, A!AccessAssumption
<1> USE DEF A!members, A!ghosts
<1>3. CASE A!UpdateMemberRole(r) \/ A!RemoveMember(r)
  <2>1. /\ UNCHANGED <<channel, invites, cached, trouble, doubtful, admitted>>
        /\ owners' \subseteq Users /\ removed' \subseteq Users
    BY <1>0, <1>3 DEF A!UpdateMemberRole, A!RemoveMember, AccessTypes
  <2>2. role' \in [Users -> A!Roles \cup {A!Nobody}]
    BY <1>0, <1>3 DEF A!UpdateMemberRole, A!RemoveMember, AccessTypes
  <2>3. QED
    BY <1>1, <2>1, <2>2 DEF AccessTypes
<1>4. CASE A!Insert(r)
  <2>1. role' \in [Users -> A!Roles \cup {A!Nobody}]
    BY <1>0, <1>4 DEF A!Insert, AccessTypes, A!Roles
  <2>2. admitted' \in [Invites -> SUBSET Users]
    BY <1>0, <1>4 DEF A!Insert, AccessTypes
  <2>3. /\ UNCHANGED <<channel, invites, cached, doubtful, owners, removed>>
        /\ trouble' \in 0..AccessFailures
    BY <1>2, <1>4 DEF A!Insert, AccessTypes
  <2>4. QED
    BY <1>1, <2>1, <2>2, <2>3 DEF AccessTypes
<1>5. CASE A!SetRole(r) \/ A!Invalidate(r)
  <2>1. cached' \in [Users -> A!Roles \cup {A!Nobody}] /\ doubtful' \subseteq Users
    BY <1>0, <1>5 DEF A!SetRole, A!Invalidate, AccessTypes
  <2>2. UNCHANGED <<role, channel, invites, owners, removed, admitted>> /\ trouble' \in 0..AccessFailures
    BY <1>2, <1>5 DEF A!SetRole, A!Invalidate, AccessTypes
  <2>3. QED
    BY <1>1, <2>1, <2>2 DEF AccessTypes
<1>6. CASE A!CreateInvite(r) \/ A!Consume(r)
  <2>1. invites' \in [Invites -> {"none", "open", "used"}]
    BY <1>6 DEF A!CreateInvite, A!Consume, AccessTypes
  <2>2. UNCHANGED <<role, channel, cached, trouble, doubtful, owners, removed, admitted>>
    BY <1>6 DEF A!CreateInvite, A!Consume
  <2>3. QED
    BY <1>1, <2>1, <2>2 DEF AccessTypes
<1>7. CASE A!AddToChannels(r) \/ A!AddChannelMember(r) \/ A!RemoveChannelMember(r)
  <2>1. channel' \subseteq Users
    BY <1>0, <1>7 DEF A!AddToChannels, A!AddChannelMember, A!RemoveChannelMember, AccessTypes
  <2>2. UNCHANGED <<role, invites, cached, trouble, doubtful, owners, removed, admitted>>
    BY <1>7 DEF A!AddToChannels, A!AddChannelMember, A!RemoveChannelMember
  <2>3. QED
    BY <1>1, <2>1, <2>2 DEF AccessTypes
<1>8. CASE AccessRead(r)
  <2>1. /\ UNCHANGED <<role, channel, invites, cached, doubtful, owners, removed, admitted>>
        /\ trouble' \in 0..AccessFailures
    BY <1>2, <1>8 DEF AccessRead, A!Start, A!GetRole, A!LoadRole, A!GetTarget, A!Lookup, A!GetMember, AccessTypes
  <2>2. QED
    BY <1>1, <2>1 DEF AccessTypes
<1>9. QED
  BY <1>3, <1>4, <1>5, <1>6, <1>7, <1>8 DEF AccessWrite

LEMMA AccessInit == ASSUME A!Init PROVE AccessInv
<1> USE ServiceConstants DEF A!AccessAssumption
<1>1. A!Idle \in AccessRequest /\ A!Idle.op = "idle" /\ A!Idle.step = "done" /\ A!Idle.target = A!Idle.by
  BY DEF A!Idle, A!Begin, AccessRequest, A!Roles
<1>2. AccessTypes
  <2>1. channel \subseteq Users /\ owners \subseteq Users /\ 0 \in 0..AccessFailures
    BY DEF A!Init
  <2>2. QED
    BY <1>1, <2>1 DEF A!Init, AccessTypes
<1>3. \A r \in AccessRequests : /\ requests[r].op = "idle" /\ requests[r].step = "done"
                                  /\ requests[r].target = requests[r].by
  BY <1>1 DEF A!Init
<1>4. AskedInv /\ PermittedInv /\ JoiningInv
  BY <1>3 DEF AskedInv, Asked, PermittedInv, Permitted, JoiningInv, Joining
<1>5. InviteInv
  BY <1>3 DEF A!Init, InviteInv, Holds
<1>6. A!CacheAgrees /\ A!OwnersStay /\ A!ChannelAgrees
  BY DEF A!Init, A!CacheAgrees, A!OwnersStay, A!ChannelAgrees
<1>7. QED
  BY <1>2, <1>4, <1>5, <1>6 DEF AccessInv

LEMMA AccessStep == ASSUME AccessInv, [A!Next]_accessVars PROVE AccessInv'
<1>1. ASSUME NEW r \in AccessRequests, AccessRead(r) \/ AccessWrite(r) PROVE AccessInv'
  BY <1>1, AccessTypeStep, AskedStep, PermittedStep, JoiningStep, InviteStep, CacheStep, OwnersStep,
     ChannelStep DEF AccessInv
<1>2. ASSUME NEW u \in Users, A!Expire(u) PROVE AccessInv'
  <2>1. /\ cached' = [cached EXCEPT ![u] = A!Nobody] /\ doubtful' = doubtful \ {u}
        /\ UNCHANGED <<role, channel, invites, requests, trouble, owners, overtaken, admitted, burnt, removed>>
    BY <1>2 DEF A!Expire, A!members
  <2>2. AccessTypes' /\ A!CacheAgrees'
    BY <2>1 DEF AccessInv, AccessTypes, A!CacheAgrees, A!Changing, A!At
  <2>3. AskedInv' /\ PermittedInv' /\ JoiningInv' /\ InviteInv'
    BY <2>1 DEF AccessInv, AskedInv, PermittedInv, JoiningInv, InviteInv, Asked, Permitted, Joining, Known, Holds
  <2>4. A!OwnersStay' /\ A!ChannelAgrees'
    BY <2>1 DEF AccessInv, A!OwnersStay, A!ChannelAgrees
  <2>5. QED
    BY <2>2, <2>3, <2>4 DEF AccessInv
<1>3. CASE UNCHANGED accessVars
  BY <1>3 DEF accessVars, AccessInv, AccessTypes, A!CacheAgrees, A!Changing, A!At, AskedInv, PermittedInv,
     JoiningInv, InviteInv, Asked, Permitted, Joining, Known, Holds, A!OwnersStay, A!ChannelAgrees
<1>4. QED
  BY <1>1, <1>2, <1>3, AccessCases

LEMMA AccessSafe == ASSUME AccessInv PROVE A!AccessAgrees /\ A!TypeOK
<1>1. A!InvitesAgree
  <2>1. ASSUME NEW i \in Invites PROVE Cardinality(admitted[i]) <= 1
    <3>1. admitted[i] = {} \/ \E u \in Users : admitted[i] = {u}
      BY DEF AccessInv, InviteInv
    <3>2. Cardinality({}) = 0
      BY FS_EmptySet
    <3>3. \A u \in Users : Cardinality({u}) = 1
      BY FS_Singleton
    <3>4. QED
      BY <3>1, <3>2, <3>3
  <2>2. ASSUME NEW i \in Invites PROVE A!Cardinality(admitted[i]) = Cardinality(admitted[i])
    BY DEF A!Cardinality, Cardinality
  <2>3. QED
    BY <2>1, <2>2 DEF AccessInv, InviteInv, Holds, A!InvitesAgree, A!At
<1>2. A!TypeOK
  BY DEF AccessInv, AccessTypes, AccessRequest, A!TypeOK
<1>3. QED
  BY <1>1, <1>2 DEF AccessInv, A!AccessAgrees

-----------------------------------------------------------------------------
(* The second factor.  The code of a call is of a step near the time it    *)
(* was verified at, and Redis remembers the step accepted last until no    *)
(* call can have a code of that step any more; so the accepted steps grow, *)
(* also across the moment a step is forgotten.  That needs arithmetic of   *)
(* Step, Drift and ReplayTTL, the three lemmas that follow.                *)

FactorSecrets == Attempts \cup {F!None, F!Old}

FactorAttempt ==
  [step: {"fresh", "write", "answer", "enable", "accept", "delete", "done"}, since: Nat,
   secret: FactorSecrets, challenge: Challenges \cup {F!None}, code: Nat]

FactorTypes ==
  /\ clock \in 0..FactorTime /\ secret \in FactorSecrets /\ enabled \in BOOLEAN
  /\ shown \in FactorSecrets /\ proved \subseteq FactorSecrets
  /\ attempts \in [Attempts -> FactorAttempt]
  /\ challenges \in [Challenges -> {"new", "open", "gone"}] /\ down \in 0..FactorFailures
  /\ lastUsed \in [step: Int, until: Nat]
  /\ sessions \in [Attempts -> {F!None} \cup (Challenges \X Nat)] /\ crowded \subseteq Challenges

\* only a secret a code of which was verified is switched on
ProvedInv ==
  /\ proved \subseteq Attempts \cup {F!Old} /\ shown \in FactorSecrets
  /\ enabled => secret \in proved
  /\ \A a \in Attempts : attempts[a].step = "enable" => attempts[a].secret \in proved

Checked(a) == attempts[a].step \in {"accept", "delete"}
Opened(a) == sessions[a] # F!None
Uses(a, k) == (attempts[a].step = "delete" /\ attempts[a].code = k) \/ (Opened(a) /\ sessions[a][2] = k)
Comes(a, c) == (Checked(a) /\ attempts[a].challenge = c) \/ (Opened(a) /\ sessions[a][1] = c)

\* the time of a code, and of the step accepted last
Recent(q) == q.since <= clock /\ clock <= q.since + 1
Early(k, t) == Step * (k - Drift) <= t
Late(k, t) == t < Step * (k + Drift + 1)

TimeInv ==
  /\ \A a \in Attempts : Checked(a) => Recent(attempts[a])
  /\ \A a \in Attempts : attempts[a].step = "accept" =>
       Early(attempts[a].code, attempts[a].since) /\ Late(attempts[a].code, attempts[a].since)
  /\ lastUsed.step = -1 \/ Early(lastUsed.step, lastUsed.until - ReplayTTL)

CodeInv ==
  /\ lastUsed.step >= -1
  /\ \A a \in Attempts, k \in Nat : Uses(a, k) => k <= lastUsed.step
  /\ \A a, b \in Attempts, k \in Nat : Uses(a, k) /\ Uses(b, k) => a = b

ChallengeInv ==
  /\ \A a \in Attempts : Opened(a) => attempts[a].step = "done" /\ challenges[sessions[a][1]] = "gone"
  /\ \A a \in Attempts : Checked(a) => attempts[a].challenge \in Challenges
  /\ \A a, b \in Attempts, c \in Challenges : Comes(a, c) /\ Comes(b, c) => a = b \/ c \in crowded

FactorInv == FactorTypes /\ ProvedInv /\ TimeInv /\ CodeInv /\ ChallengeInv

\* A step of the clock and a remainder.
LEMMA StepOfTime ==
  ASSUME NEW n \in Nat, Step \in Nat \ {0}
  PROVE  /\ n \div Step \in Nat /\ Step * (n \div Step) <= n
         /\ n < Step * ((n \div Step) + 1)
  OBVIOUS

\* A product grows with its factor.
LEMMA Grows ==
  ASSUME NEW p \in Nat, NEW i \in Int, NEW j \in Int, i <= j
  PROVE  p * i <= p * j
  OBVIOUS

\* A code is verified near its time.
LEMMA VerifiedInTime ==
  ASSUME ServiceConstants, NEW t \in Nat, NEW k \in Nat,
         k \in ((t \div Step) - Drift)..((t \div Step) + Drift)
  PROVE  Early(k, t) /\ Late(k, t)
<1>1. Step \in Nat \ {0} /\ Drift \in Nat
  BY ServiceConstants DEF F!MFAAssumption
<1> DEFINE c == t \div Step
<1>2. c \in Nat /\ Step * c <= t /\ t < Step * (c + 1)
  BY <1>1, StepOfTime
<1> HIDE DEF c
<1>3. k - Drift <= c /\ c + 1 <= k + Drift + 1
  BY <1>1, <1>2 DEF c
<1>4. Step * (k - Drift) <= Step * c /\ Step * (c + 1) <= Step * (k + Drift + 1)
  BY <1>1, <1>2, <1>3, Grows
<1>5. Step * (k - Drift) \in Int /\ Step * c \in Int /\ Step * (c + 1) \in Int
      /\ Step * (k + Drift + 1) \in Int
  BY <1>1, <1>2
<1>6. QED
  BY <1>2, <1>4, <1>5 DEF Early, Late

\* A code verified when the step accepted last is forgotten is of a later step.
LEMMA ForgottenIsEarlier ==
  ASSUME ServiceConstants, NEW l \in Int, NEW until \in Nat, NEW t \in Nat, NEW k \in Nat,
         until <= t + 1, Early(l, until - ReplayTTL), Late(k, t)
  PROVE  l < k
<1>1. /\ Step \in Nat \ {0} /\ Drift \in Nat
      /\ ReplayTTL \in Nat /\ ReplayTTL > (2 * Drift + 1) * Step
  BY ServiceConstants DEF F!MFAAssumption
<1>2. SUFFICES ASSUME k <= l PROVE FALSE
  BY <1>1
<1>3. Step * (k - Drift) <= Step * (l - Drift)
  BY <1>1, <1>2, Grows
<1>4. Step * (k + Drift + 1) = Step * (k - Drift) + (2 * Drift + 1) * Step
  BY <1>1
<1>5. Step * (k - Drift) \in Int /\ Step * (l - Drift) \in Int /\ (2 * Drift + 1) * Step \in Int
  BY <1>1
<1>6. QED
  BY <1>1, <1>3, <1>4, <1>5 DEF Early, Late

\* The steps that neither verify nor accept a code of a login.
FactorSetup(a) ==
  F!BeginSetup(a) \/ F!SetUserMFASecret(a) \/ F!AnswerSetup(a) \/ F!LoadAndVerify(a) \/ F!EnableUserMFA(a)

LEMMA FactorCases ==
  ASSUME [F!Next]_factorVars
  PROVE  \/ F!Tick \/ UNCHANGED factorVars
         \/ \E a \in Attempts : FactorSetup(a) \/ F!Accept(a) \/ F!Delete(a)
         \/ \E a \in Attempts, c \in Challenges : F!Verify(a, c)
         \/ \E c \in Challenges : F!Login(c) \/ F!Expire(c)
  BY DEF F!Next, FactorSetup

LEMMA EndIsTyped ==
  /\ [F!Fresh EXCEPT !.step = "done"] \in FactorAttempt
  /\ [F!Fresh EXCEPT !.step = "done"].step = "done"
  /\ F!Fresh \in FactorAttempt /\ F!Fresh.step = "fresh"
  BY DEF F!Fresh, FactorAttempt, FactorSecrets

\* What a step of the setup does to its attempt, and that it leaves the others.
LEMMA SetupMoves ==
  ASSUME FactorTypes, NEW a \in Attempts, FactorSetup(a)
  PROVE  /\ \E q \in FactorAttempt :
              /\ attempts' = [attempts EXCEPT ![a] = q] /\ q.step \notin {"accept", "delete"}
              /\ q.step = "enable" => q.secret \in proved'
         /\ attempts[a].step \notin {"accept", "delete", "done"}
         /\ UNCHANGED <<clock, challenges, lastUsed, sessions, crowded>>
<1>0. /\ attempts \in [Attempts -> FactorAttempt] /\ attempts[a] \in FactorAttempt /\ clock \in Nat
      /\ secret \in FactorSecrets /\ a \in FactorSecrets /\ F!None \in FactorSecrets
  BY ServiceConstants DEF FactorTypes, F!MFAAssumption, FactorSecrets
<1> DEFINE Moves == \E q \in FactorAttempt :
              /\ attempts' = [attempts EXCEPT ![a] = q] /\ q.step \notin {"accept", "delete"}
              /\ q.step = "enable" => q.secret \in proved'
<1>1. ASSUME NEW step \in {"write", "enable", "done"}, NEW s \in FactorSecrets, F!Begin(a, step, s, F!None, 0),
             step = "enable" => s \in proved'
      PROVE  Moves
  <2>1. [step |-> step, since |-> clock, secret |-> s, challenge |-> F!None, code |-> 0] \in FactorAttempt
    BY <1>0 DEF FactorAttempt
  <2>2. QED
    BY <1>1, <2>1 DEF F!Begin
<1>2. ASSUME F!End(a) PROVE Moves
  BY <1>2, EndIsTyped DEF F!End
<1>3. ASSUME F!Goto(a, "answer") PROVE Moves
  <2> DEFINE q == [attempts[a] EXCEPT !.step = "answer"]
  <2>1. q \in FactorAttempt /\ q.step = "answer"
    BY <1>0 DEF FactorAttempt
  <2>2. attempts' = [attempts EXCEPT ![a] = q]
    BY <1>3 DEF F!Goto
  <2>3. QED
    BY <2>1, <2>2
<1>4. CASE F!BeginSetup(a)
  BY <1>0, <1>1, <1>4 DEF F!BeginSetup, F!At, F!redis
<1>5. CASE F!SetUserMFASecret(a)
  BY <1>2, <1>3, <1>5 DEF F!SetUserMFASecret, F!At, F!redis
<1>6. CASE F!AnswerSetup(a)
  BY <1>2, <1>6 DEF F!AnswerSetup, F!At, F!redis
<1>7. CASE F!LoadAndVerify(a)
  BY <1>0, <1>1, <1>7 DEF F!LoadAndVerify, F!At, F!redis
<1>8. CASE F!EnableUserMFA(a)
  BY <1>2, <1>8 DEF F!EnableUserMFA, F!At, F!redis
<1>9. QED
  BY <1>4, <1>5, <1>6, <1>7, <1>8 DEF FactorSetup

LEMMA SetupStep ==
  ASSUME FactorInv, NEW a \in Attempts, FactorSetup(a)
  PROVE  FactorInv'
<1>0. /\ FactorTypes /\ attempts \in [Attempts -> FactorAttempt] /\ attempts[a] \in FactorAttempt
      /\ secret \in FactorSecrets /\ a \in FactorSecrets
  BY DEF FactorInv, FactorTypes, FactorSecrets
<1>1. PICK q \in FactorAttempt :
        /\ attempts' = [attempts EXCEPT ![a] = q] /\ q.step \notin {"accept", "delete"}
        /\ q.step = "enable" => q.secret \in proved'
  BY <1>0, SetupMoves
<1>2. /\ attempts[a].step \notin {"accept", "delete", "done"}
      /\ UNCHANGED <<clock, challenges, lastUsed, sessions, crowded>>
  BY <1>0, SetupMoves
<1>3. /\ attempts' \in [Attempts -> FactorAttempt] /\ attempts'[a] = q
      /\ \A b \in Attempts : b # a => attempts'[b] = attempts[b]
  BY <1>0, <1>1
<1>4. down' \in 0..FactorFailures
  BY <1>0, ServiceConstants DEF FactorSetup, F!BeginSetup, F!SetUserMFASecret, F!AnswerSetup, F!LoadAndVerify,
     F!EnableUserMFA, F!Fails, F!MFAAssumption, FactorTypes
<1>5. /\ secret' \in FactorSecrets /\ enabled' \in BOOLEAN /\ shown' \in FactorSecrets
      /\ proved \subseteq proved' /\ proved' \subseteq proved \cup {secret}
      /\ secret' # secret => ~enabled /\ ~enabled'
      /\ enabled' /\ ~enabled => secret = attempts[a].secret /\ attempts[a].step = "enable"
  <2>1. CASE F!BeginSetup(a) \/ F!SetUserMFASecret(a) \/ F!AnswerSetup(a) \/ F!LoadAndVerify(a)
    BY <1>0, <2>1 DEF F!BeginSetup, F!SetUserMFASecret, F!AnswerSetup, F!LoadAndVerify, F!user, F!client,
       FactorTypes
  <2>2. CASE F!EnableUserMFA(a)
    <3>1. UNCHANGED <<secret, shown, proved>> /\ enabled' = (enabled \/ secret = attempts[a].secret)
          /\ attempts[a].step = "enable"
      BY <2>2 DEF F!EnableUserMFA, F!client, F!At
    <3>2. enabled' \in BOOLEAN
      BY <3>1
    <3>3. QED
      BY <1>0, <3>1, <3>2 DEF FactorTypes
  <2>3. QED
    BY <2>1, <2>2 DEF FactorSetup
<1>6. proved' \subseteq Attempts \cup {F!Old}
  <2>1. CASE proved' = proved
    BY <2>1 DEF FactorInv, ProvedInv
  <2>2. CASE F!LoadAndVerify(a)
    BY <1>0, <2>2 DEF F!LoadAndVerify, FactorInv, ProvedInv, FactorSecrets
  <2>3. QED
    BY <2>1, <2>2 DEF FactorSetup, F!BeginSetup, F!SetUserMFASecret, F!AnswerSetup, F!EnableUserMFA
<1>7. FactorTypes'
  BY <1>2, <1>3, <1>4, <1>5, <1>6, <1>0 DEF FactorTypes, FactorSecrets
<1>8. ProvedInv'
  <2>1. enabled' => secret' \in proved'
    BY <1>5 DEF FactorInv, ProvedInv
  <2>2. ASSUME NEW b \in Attempts, attempts'[b].step = "enable" PROVE attempts'[b].secret \in proved'
    BY <1>1, <1>3, <1>5, <2>2 DEF FactorInv, ProvedInv
  <2>3. QED
    BY <1>5, <1>6, <2>1, <2>2 DEF ProvedInv
<1>9. \A b \in Attempts : /\ Checked(b)' <=> Checked(b) /\ (Checked(b) => attempts'[b] = attempts[b])
                          /\ Opened(b)' <=> Opened(b)
                          /\ Opened(b) => attempts'[b] = attempts[b]
  BY <1>1, <1>2, <1>3 DEF Checked, Opened, FactorInv, ChallengeInv
<1>10. TimeInv'
  BY <1>1, <1>2, <1>3, <1>9 DEF FactorInv, TimeInv, Checked, Recent, Early, Late
<1>11. \A b \in Attempts : /\ \A k \in Nat : Uses(b, k)' <=> Uses(b, k)
                           /\ \A c \in Challenges : Comes(b, c)' <=> Comes(b, c)
  BY <1>1, <1>2, <1>3, <1>9 DEF Uses, Comes, Checked, Opened
<1>12. CodeInv'
  BY <1>2, <1>11 DEF FactorInv, CodeInv
<1>13. ChallengeInv'
  <2>1. \A b \in Attempts : Opened(b)' => attempts'[b].step = "done" /\ challenges'[sessions'[b][1]] = "gone"
    BY <1>2, <1>9 DEF FactorInv, ChallengeInv
  <2>2. \A b \in Attempts : Checked(b)' => attempts'[b].challenge \in Challenges
    BY <1>9 DEF FactorInv, ChallengeInv
  <2>3. \A b, d \in Attempts, c \in Challenges : Comes(b, c)' /\ Comes(d, c)' => b = d \/ c \in crowded'
    BY <1>2, <1>11 DEF FactorInv, ChallengeInv
  <2>4. QED
    BY <2>1, <2>2, <2>3 DEF ChallengeInv
<1>14. QED
  BY <1>7, <1>8, <1>10, <1>12, <1>13 DEF FactorInv

LEMMA TickStep == ASSUME FactorInv, F!Tick PROVE FactorInv'
<1>0. clock \in 0..FactorTime /\ clock \in Nat /\ FactorTime \in Nat
  BY ServiceConstants DEF FactorInv, FactorTypes, F!MFAAssumption
<1>1. /\ clock < FactorTime /\ clock' = clock + 1
      /\ \A a \in Attempts : attempts[a].step \in {"accept", "delete"} => attempts[a].since = clock
      /\ UNCHANGED <<secret, enabled, shown, asking, attempts, challenges, lastUsed, down, proved, sessions,
                     crowded>>
  BY DEF F!Tick, F!user, F!client, F!redis
<1>2. FactorTypes'
  BY <1>0, <1>1 DEF FactorInv, FactorTypes
<1>3. TimeInv'
  <2>1. \A a \in Attempts : Checked(a)' => Recent(attempts[a])'
    BY <1>0, <1>1 DEF Checked, Recent
  <2>2. QED
    BY <1>1, <2>1 DEF FactorInv, TimeInv, Early, Late
<1>4. ProvedInv' /\ CodeInv' /\ ChallengeInv'
  BY <1>1 DEF FactorInv, ProvedInv, CodeInv, ChallengeInv, Uses, Comes, Checked, Opened
<1>5. QED
  BY <1>2, <1>3, <1>4 DEF FactorInv

LEMMA ChallengeMoves ==
  ASSUME FactorInv, NEW c \in Challenges, F!Login(c) \/ F!Expire(c)
  PROVE  FactorInv'
<1>1. /\ challenges' \in [Challenges -> {"new", "open", "gone"}]
      /\ \A d \in Challenges : challenges[d] = "gone" => challenges'[d] = "gone"
      /\ UNCHANGED <<clock, secret, enabled, shown, attempts, lastUsed, down, proved, sessions, crowded>>
  BY DEF F!Login, F!Expire, F!user, F!client, FactorInv, FactorTypes
<1>2. FactorTypes' /\ ProvedInv' /\ TimeInv' /\ CodeInv'
  BY <1>1 DEF FactorInv, FactorTypes, ProvedInv, TimeInv, CodeInv, Uses, Checked, Opened, Recent, Early, Late
<1>3. \A a \in Attempts : Opened(a) => sessions[a][1] \in Challenges
  BY DEF FactorInv, FactorTypes, Opened
<1>4. ChallengeInv'
  BY <1>1, <1>3 DEF FactorInv, ChallengeInv, Comes, Checked, Opened
<1>5. QED
  BY <1>2, <1>4 DEF FactorInv

LEMMA VerifyStep ==
  ASSUME FactorInv, NEW a \in Attempts, NEW c \in Challenges, F!Verify(a, c)
  PROVE  FactorInv'
<1>0. /\ attempts \in [Attempts -> FactorAttempt] /\ attempts[a].step = "fresh" /\ clock \in Nat
      /\ challenges[c] = "open" /\ Drift \in Nat
  BY ServiceConstants DEF F!Verify, F!At, FactorInv, FactorTypes, F!MFAAssumption
<1>1. PICK k \in ((clock \div Step) - Drift)..((clock \div Step) + Drift) :
        k >= 0 /\ F!Begin(a, "accept", F!None, c, k)
  BY DEF F!Verify, F!Current
<1> DEFINE q == [step |-> "accept", since |-> clock, secret |-> F!None, challenge |-> c, code |-> k]
<1>2. k \in Nat
  <2>1. Step \in Nat \ {0}
    BY ServiceConstants DEF F!MFAAssumption
  <2>2. clock \div Step \in Nat
    BY <1>0, <2>1, StepOfTime
  <2>3. QED
    BY <1>0, <1>1, <2>2
<1>3. q \in FactorAttempt
  BY <1>0, <1>2 DEF FactorAttempt, FactorSecrets
<1>4. attempts' = [attempts EXCEPT ![a] = q]
  BY <1>1 DEF F!Begin
<1>5. /\ attempts' \in [Attempts -> FactorAttempt] /\ attempts'[a] = q
      /\ \A b \in Attempts : b # a => attempts'[b] = attempts[b]
  BY <1>0, <1>3, <1>4
<1>6. /\ crowded' = IF \E b \in Attempts : Checked(b) /\ attempts[b].challenge = c
                    THEN crowded \cup {c} ELSE crowded
      /\ UNCHANGED <<clock, secret, enabled, shown, asking, challenges, lastUsed, down, proved, sessions>>
  BY DEF F!Verify, F!user, F!client, F!redis, F!At, Checked
<1>7. FactorTypes'
  BY <1>5, <1>6 DEF FactorInv, FactorTypes
<1>8. ProvedInv'
  BY <1>5, <1>6 DEF FactorInv, ProvedInv
<1>9. TimeInv'
  <2>1. Early(k, clock) /\ Late(k, clock)
    BY <1>0, <1>1, <1>2, VerifiedInTime, ServiceConstants
  <2>2. \A b \in Attempts : Checked(b)' => Recent(attempts[b])'
    BY <1>0, <1>5, <1>6 DEF FactorInv, TimeInv, Checked, Recent
  <2>3. \A b \in Attempts : attempts'[b].step = "accept" =>
          Early(attempts'[b].code, attempts'[b].since) /\ Late(attempts'[b].code, attempts'[b].since)
    BY <1>5, <2>1 DEF FactorInv, TimeInv
  <2>4. QED
    BY <1>6, <2>2, <2>3 DEF FactorInv, TimeInv, Early, Late
<1>10. ~Opened(a) /\ \A b \in Attempts : Opened(b)' <=> Opened(b)
  BY <1>0, <1>6 DEF FactorInv, ChallengeInv, Opened
<1>11. CodeInv'
  <2>1. \A b \in Attempts, n \in Nat : Uses(b, n)' <=> Uses(b, n)
    BY <1>0, <1>5, <1>6 DEF Uses, Opened
  <2>2. QED
    BY <1>6, <2>1 DEF FactorInv, CodeInv
<1>12. ChallengeInv'
  <2>1. \A b \in Attempts : Opened(b)' => attempts'[b].step = "done" /\ challenges'[sessions'[b][1]] = "gone"
    BY <1>5, <1>6, <1>10 DEF FactorInv, ChallengeInv, Opened
  <2>2. \A b \in Attempts : Checked(b)' => attempts'[b].challenge \in Challenges
    BY <1>5 DEF FactorInv, ChallengeInv, Checked
  <2>3. \A b \in Attempts : b # a => \A d \in Challenges : Comes(b, d)' <=> Comes(b, d)
    BY <1>5, <1>6 DEF Comes, Checked, Opened
  <2>4. \A d \in Challenges : Comes(a, d)' <=> d = c
    BY <1>5, <1>6, <1>10 DEF Comes, Checked, Opened
  <2>5. ASSUME NEW b \in Attempts, b # a, Comes(b, c) PROVE c \in crowded'
    <3>1. Checked(b) /\ attempts[b].challenge = c
      BY <1>0, <2>5 DEF Comes, FactorInv, ChallengeInv
    <3>2. QED
      BY <1>6, <3>1
  <2>6. crowded \subseteq crowded'
    BY <1>6
  <2>7. \A b, d \in Attempts, e \in Challenges : Comes(b, e)' /\ Comes(d, e)' => b = d \/ e \in crowded'
    BY <2>3, <2>4, <2>5, <2>6 DEF FactorInv, ChallengeInv
  <2>8. QED
    BY <2>1, <2>2, <2>7 DEF ChallengeInv
<1>13. QED
  BY <1>7, <1>8, <1>9, <1>11, <1>12 DEF FactorInv

\* An attempt that ends without a session.
LEMMA EndStep ==
  ASSUME FactorInv, NEW a \in Attempts, ~Opened(a), F!End(a), down' \in 0..FactorFailures,
         UNCHANGED <<clock, secret, enabled, shown, challenges, lastUsed, proved, sessions, crowded>>
  PROVE  FactorInv'
<1>1. /\ attempts' \in [Attempts -> FactorAttempt] /\ attempts'[a].step = "done"
      /\ \A b \in Attempts : b # a => attempts'[b] = attempts[b]
  BY EndIsTyped DEF F!End, FactorInv, FactorTypes
<1>2. FactorTypes' /\ ProvedInv' /\ TimeInv'
  BY <1>1 DEF FactorInv, FactorTypes, ProvedInv, TimeInv, Checked, Recent, Early, Late
<1>3. \A b \in Attempts : /\ Opened(b)' <=> Opened(b)
                          /\ Checked(b)' => Checked(b) /\ b # a
                          /\ \A k \in Nat : Uses(b, k)' => Uses(b, k)
                          /\ \A c \in Challenges : Comes(b, c)' => Comes(b, c)
  BY <1>1 DEF Uses, Comes, Checked, Opened
<1>4. CodeInv'
  BY <1>3 DEF FactorInv, CodeInv
<1>5. ChallengeInv'
  <2>1. \A b \in Attempts : Opened(b)' => attempts'[b].step = "done" /\ challenges'[sessions'[b][1]] = "gone"
    BY <1>1, <1>3 DEF FactorInv, ChallengeInv
  <2>2. \A b \in Attempts : Checked(b)' => attempts'[b].challenge \in Challenges
    BY <1>1, <1>3 DEF FactorInv, ChallengeInv
  <2>3. QED
    BY <1>3, <2>1, <2>2 DEF FactorInv, ChallengeInv
<1>6. QED
  BY <1>2, <1>4, <1>5 DEF FactorInv

LEMMA AcceptStep ==
  ASSUME FactorInv, NEW a \in Attempts, F!Accept(a)
  PROVE  FactorInv'
<1>0. /\ attempts \in [Attempts -> FactorAttempt] /\ attempts[a] \in FactorAttempt /\ clock \in Nat
      /\ attempts[a].step = "accept" /\ attempts[a].code \in Nat /\ attempts[a].since \in Nat
      /\ lastUsed.step \in Int /\ lastUsed.until \in Nat /\ lastUsed.step >= -1
      /\ UNCHANGED <<clock, secret, enabled, shown, asking, challenges, proved, sessions, crowded>>
  BY ServiceConstants DEF F!Accept, F!At, F!user, F!client, FactorInv, FactorTypes, FactorAttempt, CodeInv,
     F!MFAAssumption
<1>1. ~Opened(a)
  BY <1>0 DEF FactorInv, ChallengeInv
<1> DEFINE k == attempts[a].code
<1>2. CASE F!End(a) /\ lastUsed' = lastUsed
  <2>1. down' \in 0..FactorFailures
    BY ServiceConstants DEF F!Accept, F!Fails, FactorInv, FactorTypes, F!MFAAssumption
  <2>2. QED
    BY <1>0, <1>1, <1>2, <2>1, EndStep
<1>3. CASE /\ ~(lastUsed.until > clock /\ k <= lastUsed.step)
           /\ lastUsed' = [step |-> k, until |-> clock + ReplayTTL]
           /\ attempts' = [attempts EXCEPT ![a].step = "delete", ![a].since = clock] /\ UNCHANGED down
  <2>0. ReplayTTL \in Nat
    BY ServiceConstants DEF F!MFAAssumption
  <2> DEFINE q == attempts'[a]
  <2>1. /\ q \in FactorAttempt /\ q.step = "delete" /\ q.since = clock /\ q.code = k
        /\ q.challenge = attempts[a].challenge
        /\ attempts' \in [Attempts -> FactorAttempt]
        /\ \A b \in Attempts : b # a => attempts'[b] = attempts[b]
    BY <1>0, <1>3 DEF FactorAttempt
  <2>2. lastUsed' \in [step: Int, until: Nat] /\ lastUsed'.step = k /\ lastUsed'.until = clock + ReplayTTL
    BY <1>0, <1>3, <2>0
  <2>3. /\ Recent(attempts[a]) /\ Early(k, attempts[a].since) /\ Late(k, attempts[a].since)
        /\ lastUsed.step = -1 \/ Early(lastUsed.step, lastUsed.until - ReplayTTL)
    BY <1>0 DEF FactorInv, TimeInv, Checked
  \* the step accepted now is later than the one before
  <2>4. lastUsed.step < k
    <3>1. CASE lastUsed.until > clock \/ lastUsed.step = -1
      BY <1>0, <1>3, <3>1
    <3>2. CASE lastUsed.until <= clock /\ Early(lastUsed.step, lastUsed.until - ReplayTTL)
      <4>1. lastUsed.until <= attempts[a].since + 1
        BY <1>0, <2>3, <3>2 DEF Recent
      <4>2. QED
        BY <1>0, <2>3, <3>2, <4>1, ForgottenIsEarlier, ServiceConstants
    <3>3. QED
      BY <1>0, <2>3, <3>1, <3>2
  <2>5. FactorTypes'
    BY <1>0, <1>3, <2>1, <2>2 DEF FactorInv, FactorTypes
  <2>6. ProvedInv'
    BY <1>0, <2>1 DEF FactorInv, ProvedInv
  <2>7. TimeInv'
    <3>1. Early(k, clock)
      <4>1. Step * (k - Drift) \in Int
        BY <1>0, ServiceConstants DEF F!MFAAssumption
      <4>2. QED
        BY <1>0, <2>3, <4>1 DEF Early, Recent
    <3>2. lastUsed'.step = k /\ lastUsed'.until - ReplayTTL = clock
      BY <1>0, <2>0, <2>2
    <3>3. Early(lastUsed.step, lastUsed.until - ReplayTTL)'
      BY <3>1, <3>2 DEF Early
    <3>4. \A b \in Attempts : Checked(b)' => Recent(attempts[b])'
      BY <1>0, <2>1 DEF FactorInv, TimeInv, Checked, Recent
    <3>5. \A b \in Attempts : attempts'[b].step = "accept" => b # a /\ attempts'[b] = attempts[b]
      BY <2>1
    <3>6. QED
      BY <1>0, <3>3, <3>4, <3>5 DEF FactorInv, TimeInv, Early, Late
  <2>8. \A b \in Attempts, n \in Nat : Uses(b, n)' => Uses(b, n) \/ (b = a /\ n = k)
    BY <1>0, <2>1 DEF Uses, Opened
  <2>9. CodeInv'
    <3>1. \A b \in Attempts, n \in Nat : Uses(b, n) => n < k
      BY <1>0, <2>4 DEF FactorInv, CodeInv
    <3>2. \A b \in Attempts, n \in Nat : Uses(b, n)' => n <= k
      BY <1>0, <2>8, <3>1
    <3>3. \A b, d \in Attempts, n \in Nat : Uses(b, n)' /\ Uses(d, n)' => b = d
      <4>1. ~(k < k)
        BY <1>0
      <4>2. QED
        BY <2>8, <3>1, <4>1 DEF FactorInv, CodeInv
    <3>4. QED
      BY <1>0, <2>2, <3>2, <3>3 DEF CodeInv
  <2>10. ChallengeInv'
    <3>1. \A b \in Attempts, c \in Challenges : Comes(b, c)' => Comes(b, c)
      BY <1>0, <2>1 DEF Comes, Checked, Opened
    <3>2. \A b \in Attempts : Checked(b)' => attempts'[b].challenge \in Challenges
      BY <1>0, <2>1 DEF FactorInv, ChallengeInv, Checked
    <3>3. \A b \in Attempts : Opened(b)' => b # a /\ attempts'[b] = attempts[b] /\ Opened(b)
      BY <1>0, <1>1, <2>1 DEF Opened
    <3>4. QED
      BY <1>0, <3>1, <3>2, <3>3 DEF FactorInv, ChallengeInv
  <2>11. QED
    BY <2>5, <2>6, <2>7, <2>9, <2>10 DEF FactorInv
<1>4. QED
  BY <1>2, <1>3 DEF F!Accept

LEMMA DeleteStep ==
  ASSUME FactorInv, NEW a \in Attempts, F!Delete(a)
  PROVE  FactorInv'
<1>0. /\ attempts \in [Attempts -> FactorAttempt] /\ attempts[a] \in FactorAttempt
      /\ attempts[a].step = "delete" /\ attempts[a].code \in Nat /\ F!End(a)
      /\ UNCHANGED <<clock, secret, enabled, shown, asking, lastUsed, proved, crowded>>
  BY DEF F!Delete, F!At, F!user, F!client, FactorInv, FactorTypes, FactorAttempt
<1>1. ~Opened(a) /\ attempts[a].challenge \in Challenges
  BY <1>0 DEF FactorInv, ChallengeInv, Checked
<1> DEFINE c == attempts[a].challenge
           k == attempts[a].code
<1>2. CASE F!Fails /\ UNCHANGED <<challenges, sessions>>
  <2>1. down' \in 0..FactorFailures
    BY <1>2, ServiceConstants DEF F!Fails, FactorInv, FactorTypes, F!MFAAssumption
  <2>2. QED
    BY <1>0, <1>1, <1>2, <2>1, EndStep
<1>3. CASE /\ challenges' = [challenges EXCEPT ![c] = "gone"] /\ UNCHANGED down
           /\ sessions' = [sessions EXCEPT ![a] = <<c, k>>]
  <2>1. /\ attempts' \in [Attempts -> FactorAttempt] /\ attempts'[a].step = "done"
        /\ \A b \in Attempts : b # a => attempts'[b] = attempts[b]
    BY <1>0, EndIsTyped DEF F!End
  <2>2. /\ sessions'[a] = <<c, k>> /\ \A b \in Attempts : b # a => sessions'[b] = sessions[b]
        /\ sessions' \in [Attempts -> {F!None} \cup (Challenges \X Nat)]
    BY <1>0, <1>1, <1>3 DEF FactorInv, FactorTypes
  <2>3. /\ challenges' \in [Challenges -> {"new", "open", "gone"}] /\ challenges'[c] = "gone"
        /\ \A d \in Challenges : challenges[d] = "gone" => challenges'[d] = "gone"
    BY <1>1, <1>3 DEF FactorInv, FactorTypes
  <2>4. FactorTypes' /\ ProvedInv' /\ TimeInv'
    BY <1>0, <1>3, <2>1, <2>2, <2>3
    DEF FactorInv, FactorTypes, ProvedInv, TimeInv, Checked, Recent, Early, Late
  <2>5. \A b \in Attempts : b # a => (Opened(b)' <=> Opened(b)) /\ (Checked(b)' <=> Checked(b))
    BY <2>1, <2>2 DEF Opened, Checked
  <2>6. \A b \in Attempts : /\ \A n \in Nat : Uses(b, n)' => Uses(b, n)
                            /\ \A d \in Challenges : Comes(b, d)' => Comes(b, d)
    <3>1. \A n \in Nat : Uses(a, n)' => Uses(a, n)
      BY <1>0, <2>1, <2>2 DEF Uses, Opened
    <3>2. \A d \in Challenges : Comes(a, d)' => Comes(a, d)
      BY <1>0, <2>1, <2>2 DEF Comes, Opened, Checked
    <3>3. QED
      BY <2>1, <2>2, <3>1, <3>2 DEF Uses, Comes, Opened, Checked
  <2>7. CodeInv'
    BY <1>0, <2>6 DEF FactorInv, CodeInv
  <2>8. ChallengeInv'
    <3>1. \A b \in Attempts : Opened(b)' => attempts'[b].step = "done" /\ challenges'[sessions'[b][1]] = "gone"
      <4>1. attempts'[a].step = "done" /\ challenges'[sessions'[a][1]] = "gone"
        BY <2>1, <2>2, <2>3
      <4>2. ASSUME NEW b \in Attempts, b # a, Opened(b)
            PROVE  attempts'[b].step = "done" /\ challenges'[sessions'[b][1]] = "gone"
        <5>1. sessions[b][1] \in Challenges
          BY <4>2 DEF FactorInv, FactorTypes, Opened
        <5>2. QED
          BY <2>1, <2>2, <2>3, <4>2, <5>1 DEF FactorInv, ChallengeInv
      <4>3. QED
        BY <2>5, <4>1, <4>2
    <3>2. \A b \in Attempts : Checked(b)' => attempts'[b].challenge \in Challenges
      BY <2>1, <2>5 DEF FactorInv, ChallengeInv, Checked
    <3>3. QED
      BY <1>0, <2>6, <3>1, <3>2 DEF FactorInv, ChallengeInv
  <2>9. QED
    BY <2>4, <2>7, <2>8 DEF FactorInv
<1>4. QED
  BY <1>2, <1>3 DEF F!Delete

LEMMA FactorInit == ASSUME F!Init PROVE FactorInv
<1>1. /\ \A a \in Attempts : attempts[a] = F!Fresh /\ ~Opened(a)
      /\ lastUsed = [step |-> -1, until |-> 0]
  BY DEF F!Init, Opened
<1>2. F!Fresh.step = "fresh" /\ F!Fresh \in FactorAttempt
  BY EndIsTyped
<1>3. FactorTypes
  <2>1. 0 \in 0..FactorTime /\ 0 \in 0..FactorFailures
    BY ServiceConstants DEF F!MFAAssumption
  <2>2. /\ secret \in FactorSecrets /\ enabled \in BOOLEAN /\ shown \in FactorSecrets
        /\ proved \subseteq FactorSecrets
    BY DEF F!Init, FactorSecrets
  <2>3. QED
    BY <1>2, <2>1, <2>2 DEF F!Init, FactorTypes
<1>4. ProvedInv
  BY <1>1, <1>2, <1>3 DEF F!Init, ProvedInv, FactorTypes
<1>5. TimeInv /\ CodeInv /\ ChallengeInv
  BY <1>1, <1>2 DEF TimeInv, CodeInv, ChallengeInv, Uses, Comes, Checked
<1>6. QED
  BY <1>3, <1>4, <1>5 DEF FactorInv

LEMMA FactorStep == ASSUME FactorInv, [F!Next]_factorVars PROVE FactorInv'
<1>1. CASE UNCHANGED factorVars
  BY <1>1 DEF factorVars, FactorInv, FactorTypes, ProvedInv, TimeInv, CodeInv, ChallengeInv, Uses, Comes,
     Checked, Opened, Recent, Early, Late
<1>2. QED
  BY <1>1, FactorCases, TickStep, SetupStep, AcceptStep, DeleteStep, VerifyStep, ChallengeMoves

LEMMA FactorSafe == ASSUME FactorInv PROVE F!MFAAgrees /\ F!TypeOK
<1>1. F!EnabledAgrees
  BY DEF FactorInv, ProvedInv, F!EnabledAgrees
<1>2. F!SessionsAgree
  <2>1. ASSUME NEW a \in Attempts, Opened(a)
        PROVE  /\ sessions[a][1] \in Challenges /\ Comes(a, sessions[a][1])
               /\ sessions[a][2] \in Nat /\ Uses(a, sessions[a][2])
    BY <2>1 DEF FactorInv, FactorTypes, Opened, Comes, Uses
  <2>2. QED
    BY <2>1 DEF FactorInv, CodeInv, ChallengeInv, Opened, F!SessionsAgree
<1>3. F!TypeOK
  BY DEF FactorInv, FactorTypes, ProvedInv, FactorSecrets, F!TypeOK
<1>4. QED
  BY <1>1, <1>2, <1>3 DEF F!MFAAgrees

-----------------------------------------------------------------------------
(* Direct messages.  A conversation goes by the request that made it.  It  *)
(* is whole once it has the members it was made for; two requests that do  *)
(* not overlap do not both make one, as the second finds the first whole.  *)

DirectRequest == [by: Users, other: Users, step: {"idle", "find", "insert", "me", "other", "done"}]

DirectTypes ==
  /\ opening \in [DirectRequests -> DirectRequest] /\ created \in Seq(DirectRequests)
  /\ pairs \in [DirectRequests -> SUBSET Users]
  /\ answer \in [DirectRequests -> DirectRequests \cup {D!None}] /\ broken \in 0..DirectFailures

Made(c) == \E i \in DOMAIN created : created[i] = c
Whole(c) == pairs[c] = D!Pair(c)
Active(r) == opening[r].step \notin {"idle", "done"}
Making(r) == opening[r].step \in {"insert", "me", "other"}

\* the members a conversation has, at each step of the request that makes it
MembersInv ==
  \A c \in DirectRequests :
    /\ Made(c) => opening[c].step \in {"me", "other", "done"}
    /\ pairs[c] \in {{}, {opening[c].by}, D!Pair(c)}
    /\ pairs[c] # {} => opening[c].step \in {"other", "done"}
    /\ opening[c].step = "other" => pairs[c] = {opening[c].by} /\ opening[c].by # opening[c].other
    /\ pairs[c] # {} \/ opening[c].step \in {"me", "other"} => Made(c)

\* one request of a pair at a time, one conversation of it
SingleInv ==
  /\ \A q, r \in DirectRequests :
       Active(q) /\ Active(r) /\ D!Pair(q) = D!Pair(r) => q = r \/ D!Pair(r) \in doubled
  /\ \A c, r \in DirectRequests :
       Whole(c) /\ Making(r) /\ D!Pair(c) = D!Pair(r) => D!Pair(r) \in doubled
  /\ \A c, d \in DirectRequests :
       Whole(c) /\ Whole(d) /\ D!Pair(c) = D!Pair(d) => c = d \/ D!Pair(d) \in doubled

AnswerInv ==
  \A r \in DirectRequests : answer[r] # D!None =>
    /\ opening[r].step = "done" /\ answer[r] \in DirectRequests
    /\ \/ Whole(answer[r]) /\ D!Pair(answer[r]) = D!Pair(r)
       \/ answer[r] \in handed /\ opening[r].by = opening[r].other

DirectInv == DirectTypes /\ MembersInv /\ SingleInv /\ AnswerInv

\* A set of numbers has a smallest.
Below == OpToRel(<, Nat)

LEMMA Smallest ==
  ASSUME NEW T, T \subseteq Nat, T # {}
  PROVE  \E m \in T : \A n \in T : m <= n
<1>1. IsWellFoundedOn(Below, Nat)
  BY NatLessThanWellFounded DEF Below
<1>2. PICK m \in T : \A n \in T : ~(<<n, m>> \in Below)
  BY <1>1, WFMin
<1>3. ASSUME NEW n \in Nat, NEW p \in Nat, n < p PROVE <<n, p>> \in Below
  BY <1>3 DEF Below, OpToRel
<1>4. ASSUME NEW n \in T PROVE m <= n
  <2>1. m \in Nat /\ n \in Nat
    OBVIOUS
  <2>2. ~(n < m)
    BY <1>2, <1>3, <2>1
  <2>3. QED
    BY <2>1, <2>2
<1>5. QED
  BY <1>4

\* Of the conversations a user made and is in, one is the first.
LEMMA OwnIsFound ==
  ASSUME created \in Seq(DirectRequests), NEW u, NEW c, Made(c), D!MadeBy(u, c)
  PROVE  D!Own(u) # {}
<1> DEFINE T == {i \in DOMAIN created : D!MadeBy(u, created[i])}
<1>1. T \subseteq Nat /\ T # {}
  BY DEF Made
<1>2. PICK m \in T : \A n \in T : m <= n
  BY <1>1, Smallest
<1>3. \A j \in 1..(m - 1) : ~D!MadeBy(u, created[j])
  <2>1. SUFFICES ASSUME NEW j \in 1..(m - 1), D!MadeBy(u, created[j]) PROVE FALSE
    OBVIOUS
  <2>2. m \in 1..Len(created) /\ Len(created) \in Nat /\ DOMAIN created = 1..Len(created)
    BY <1>2
  <2>3. j \in DOMAIN created /\ ~(m <= j)
    BY <2>2
  <2>4. QED
    BY <1>2, <2>1, <2>3
<1>4. QED
  BY <1>2, <1>3 DEF D!Own

LEMMA OwnIsOwn ==
  ASSUME created \in Seq(DirectRequests), NEW u, NEW c \in D!Own(u)
  PROVE  c \in DirectRequests /\ D!MadeBy(u, c) /\ Made(c)
  BY DEF D!Own, Made

LEMMA SharedIsMade ==
  ASSUME created \in Seq(DirectRequests), NEW u, NEW v, NEW c
  PROVE  c \in D!Shared(u, v) <=> c \in DirectRequests /\ Made(c) /\ pairs[c] = {u, v}
  BY DEF D!Shared, D!ToSet, Made

\* A step leaves the other requests and their conversations; its own request
\* stays who it is, unless it starts.
DirectAct(r) ==
  D!Find(r) \/ D!FindSelf(r) \/ D!CreateDirectConversation(r) \/ D!AddMe(r) \/ D!AddOther(r)

LEMMA DirectGoes ==
  ASSUME DirectTypes, NEW r \in DirectRequests, DirectAct(r)
  PROVE  /\ opening' \in [DirectRequests -> DirectRequest]
         /\ \A q \in DirectRequests : q # r => opening'[q] = opening[q]
         /\ opening'[r].by = opening[r].by /\ opening'[r].other = opening[r].other
         /\ Active(r) /\ \A q \in DirectRequests : D!Pair(q)' = D!Pair(q)
<1>0. opening \in [DirectRequests -> DirectRequest] /\ opening[r] \in DirectRequest
  BY DEF DirectTypes
<1>1. PICK s \in {"insert", "me", "other", "done"} : D!Goto(r, s)
  BY DEF DirectAct, D!Find, D!FindSelf, D!CreateDirectConversation, D!AddMe, D!AddOther, D!Answer
<1>2. /\ opening' \in [DirectRequests -> DirectRequest]
      /\ \A q \in DirectRequests : q # r => opening'[q] = opening[q]
      /\ opening'[r].by = opening[r].by /\ opening'[r].other = opening[r].other
  BY <1>0, <1>1 DEF D!Goto, DirectRequest
<1>3. Active(r)
  BY DEF DirectAct, D!Find, D!FindSelf, D!CreateDirectConversation, D!AddMe, D!AddOther, D!At, Active
<1>4. \A q \in DirectRequests : D!Pair(q)' = D!Pair(q)
  BY <1>2 DEF D!Pair
<1>5. QED
  BY <1>2, <1>3, <1>4

LEMMA DirectGoto ==
  ASSUME DirectTypes, NEW r \in DirectRequests, NEW s, D!Goto(r, s)
  PROVE  opening'[r].step = s
  BY DEF DirectTypes, DirectRequest, D!Goto

\* No conversation becomes whole, and no request starts to make one.
LEMMA SingleStays ==
  ASSUME DirectInv, doubled \subseteq doubled',
         \A q \in DirectRequests : /\ D!Pair(q)' = D!Pair(q) /\ (Whole(q)' => Whole(q))
                                   /\ (Active(q)' => Active(q)) /\ (Making(q)' => Making(q))
  PROVE  SingleInv'
<1>1. \A q, r \in DirectRequests :
       Active(q)' /\ Active(r)' /\ D!Pair(q)' = D!Pair(r)' => q = r \/ D!Pair(r)' \in doubled'
  BY DEF DirectInv, SingleInv
<1>2. \A c, r \in DirectRequests :
       Whole(c)' /\ Making(r)' /\ D!Pair(c)' = D!Pair(r)' => D!Pair(r)' \in doubled'
  BY DEF DirectInv, SingleInv
<1>3. \A c, d \in DirectRequests :
       Whole(c)' /\ Whole(d)' /\ D!Pair(c)' = D!Pair(d)' => c = d \/ D!Pair(d)' \in doubled'
  BY DEF DirectInv, SingleInv
<1>4. QED
  BY <1>1, <1>2, <1>3 DEF SingleInv

\* Answers stay right while whole conversations stay whole.
LEMMA AnswerStays ==
  ASSUME DirectInv, NEW r \in DirectRequests, handed \subseteq handed',
         \A q \in DirectRequests : q # r => opening'[q] = opening[q] /\ answer'[q] = answer[q],
         \A q \in DirectRequests : D!Pair(q)' = D!Pair(q) /\ (Whole(q) => Whole(q)'),
         answer'[r] # D!None =>
           /\ opening'[r].step = "done" /\ answer'[r] \in DirectRequests
           /\ \/ Whole(answer[r])' /\ D!Pair(answer[r])' = D!Pair(r)'
              \/ answer'[r] \in handed' /\ opening'[r].by = opening'[r].other
  PROVE  AnswerInv'
<1>1. ASSUME NEW q \in DirectRequests, q # r, answer'[q] # D!None
      PROVE  /\ opening'[q].step = "done" /\ answer'[q] \in DirectRequests
             /\ \/ Whole(answer[q])' /\ D!Pair(answer[q])' = D!Pair(q)'
                \/ answer'[q] \in handed' /\ opening'[q].by = opening'[q].other
  <2> DEFINE c == answer[q]
  <2>1. answer'[q] = c /\ c # D!None /\ opening'[q] = opening[q]
    BY <1>1
  <2>2. /\ opening[q].step = "done" /\ c \in DirectRequests
        /\ (Whole(c) /\ D!Pair(c) = D!Pair(q)) \/ (c \in handed /\ opening[q].by = opening[q].other)
    BY <2>1 DEF DirectInv, AnswerInv
  <2>3. CASE Whole(c) /\ D!Pair(c) = D!Pair(q)
    <3>1. pairs'[c] = {opening'[c].by, opening'[c].other}
          /\ {opening'[c].by, opening'[c].other} = {opening'[q].by, opening'[q].other}
      BY <2>1, <2>2, <2>3 DEF Whole, D!Pair
    <3>2. QED
      BY <2>1, <2>2, <3>1 DEF Whole, D!Pair
  <2>4. CASE c \in handed /\ opening[q].by = opening[q].other
    BY <2>1, <2>2, <2>4
  <2>5. QED
    BY <2>2, <2>3, <2>4
<1>2. QED
  BY <1>1 DEF AnswerInv

LEMMA DirectStart ==
  ASSUME DirectInv, NEW r \in DirectRequests, D!Start(r)
  PROVE  DirectInv'
<1>0. /\ DirectTypes /\ opening \in [DirectRequests -> DirectRequest] /\ opening[r].step = "idle"
      /\ UNCHANGED <<created, pairs, answer, broken, handed>>
  BY DEF DirectInv, DirectTypes, D!Start, D!At, D!tables
<1>1. PICK u \in Users, v \in Users :
        /\ opening' = [opening EXCEPT ![r] = [by |-> u, other |-> v, step |-> "find"]]
        /\ doubled' = IF \E q \in DirectRequests : Active(q) /\ D!Pair(q) = {u, v}
                      THEN doubled \cup {{u, v}} ELSE doubled
  BY DEF D!Start, D!At, Active
<1>2. /\ opening'[r] = [by |-> u, other |-> v, step |-> "find"]
      /\ opening' \in [DirectRequests -> DirectRequest]
      /\ \A q \in DirectRequests : q # r => opening'[q] = opening[q]
  BY <1>0, <1>1 DEF DirectRequest
<1>3. pairs[r] = {} /\ ~Made(r) /\ answer[r] = D!None
  BY <1>0 DEF DirectInv, MembersInv, AnswerInv
<1>4. ~Whole(r) /\ ~Whole(r)' /\ ~Making(r)' /\ D!Pair(r)' = {u, v}
  BY <1>0, <1>2, <1>3 DEF Whole, D!Pair, Making
<1>5. \A q \in DirectRequests : q # r =>
        /\ D!Pair(q)' = D!Pair(q) /\ (Whole(q)' <=> Whole(q))
        /\ (Active(q)' <=> Active(q)) /\ (Making(q)' <=> Making(q))
  BY <1>0, <1>2 DEF Whole, D!Pair, Active, Making
<1>6. DirectTypes'
  BY <1>0, <1>2 DEF DirectTypes
<1>7. MembersInv'
  <2>1. \A c \in DirectRequests : Made(c)' <=> Made(c)
    BY <1>0 DEF Made
  <2>2. ASSUME NEW c \in DirectRequests, c # r
        PROVE  /\ Made(c)' => opening'[c].step \in {"me", "other", "done"}
               /\ pairs'[c] \in {{}, {opening'[c].by}, D!Pair(c)'}
               /\ pairs'[c] # {} => opening'[c].step \in {"other", "done"}
               /\ opening'[c].step = "other" => pairs'[c] = {opening'[c].by} /\ opening'[c].by # opening'[c].other
               /\ pairs'[c] # {} \/ opening'[c].step \in {"me", "other"} => Made(c)'
    BY <1>0, <1>2, <1>5, <2>1, <2>2 DEF DirectInv, MembersInv
  <2>3. opening'[r].step = "find" /\ pairs'[r] = {} /\ ~Made(r)'
    BY <1>0, <1>2, <1>3, <2>1
  <2>4. QED
    BY <2>2, <2>3 DEF MembersInv
<1>8. SingleInv'
  <2>1. doubled \subseteq doubled'
    BY <1>1
  <2>2. ASSUME NEW q \in DirectRequests, q # r, Active(q), D!Pair(q) = {u, v} PROVE {u, v} \in doubled'
    BY <1>1, <2>2
  <2>3. \A q, s \in DirectRequests :
          Active(q)' /\ Active(s)' /\ D!Pair(q)' = D!Pair(s)' => q = s \/ D!Pair(s)' \in doubled'
    BY <1>4, <1>5, <2>1, <2>2 DEF DirectInv, SingleInv
  <2>4. \A c, s \in DirectRequests :
          Whole(c)' /\ Making(s)' /\ D!Pair(c)' = D!Pair(s)' => D!Pair(s)' \in doubled'
    BY <1>4, <1>5, <2>1 DEF DirectInv, SingleInv
  <2>5. \A c, d \in DirectRequests :
          Whole(c)' /\ Whole(d)' /\ D!Pair(c)' = D!Pair(d)' => c = d \/ D!Pair(d)' \in doubled'
    BY <1>4, <1>5, <2>1 DEF DirectInv, SingleInv
  <2>6. QED
    BY <2>3, <2>4, <2>5 DEF SingleInv
<1>9. AnswerInv'
  <2>1. ASSUME NEW q \in DirectRequests, answer'[q] # D!None
        PROVE  /\ opening'[q].step = "done" /\ answer'[q] \in DirectRequests
               /\ \/ Whole(answer[q])' /\ D!Pair(answer[q])' = D!Pair(q)'
                  \/ answer'[q] \in handed' /\ opening'[q].by = opening'[q].other
    <3> DEFINE c == answer[q]
    <3>1. answer'[q] = c /\ c # D!None /\ q # r /\ opening'[q] = opening[q] /\ handed' = handed
          /\ pairs' = pairs
      BY <1>0, <1>2, <1>3, <2>1
    <3>2. /\ opening[q].step = "done" /\ c \in DirectRequests
          /\ (Whole(c) /\ D!Pair(c) = D!Pair(q)) \/ (c \in handed /\ opening[q].by = opening[q].other)
      BY <3>1 DEF DirectInv, AnswerInv
    <3>3. CASE Whole(c) /\ D!Pair(c) = D!Pair(q)
      <4>1. opening'[c] = opening[c]
        BY <1>2, <1>4, <3>2, <3>3
      <4>2. QED
        BY <3>1, <3>2, <3>3, <4>1 DEF Whole, D!Pair
    <3>4. CASE c \in handed /\ opening[q].by = opening[q].other
      BY <3>1, <3>2, <3>4
    <3>5. QED
      BY <3>2, <3>3, <3>4
  <2>2. QED
    BY <2>1 DEF AnswerInv
<1>10. QED
  BY <1>6, <1>7, <1>8, <1>9 DEF DirectInv

\* What a step that inserts nothing keeps.
LEMMA MembersStayAsTheyAre ==
  ASSUME DirectInv, NEW r \in DirectRequests, DirectAct(r), UNCHANGED <<created, pairs>>,
         \/ opening[r].step \in {"find", "insert"} /\ opening'[r].step \in {"insert", "done"}
         \/ opening[r].step \in {"me", "other"} /\ opening'[r].step = "done"
  PROVE  MembersInv'
<1>1. /\ \A q \in DirectRequests : q # r => opening'[q] = opening[q]
      /\ opening'[r].by = opening[r].by /\ \A q \in DirectRequests : D!Pair(q)' = D!Pair(q)
  BY DirectGoes DEF DirectInv
<1>2. \A c \in DirectRequests : Made(c)' <=> Made(c)
  BY DEF Made
<1>3. ASSUME NEW c \in DirectRequests
      PROVE  /\ Made(c)' => opening'[c].step \in {"me", "other", "done"}
             /\ pairs'[c] \in {{}, {opening'[c].by}, D!Pair(c)'}
             /\ pairs'[c] # {} => opening'[c].step \in {"other", "done"}
             /\ opening'[c].step = "other" => pairs'[c] = {opening'[c].by} /\ opening'[c].by # opening'[c].other
             /\ pairs'[c] # {} \/ opening'[c].step \in {"me", "other"} => Made(c)'
  <2>1. CASE c = r
    BY <1>1, <1>2, <2>1 DEF DirectInv, MembersInv
  <2>2. CASE c # r
    BY <1>1, <1>2, <2>2 DEF DirectInv, MembersInv
  <2>3. QED
    BY <2>1, <2>2
<1>4. QED
  BY <1>3 DEF MembersInv

LEMMA FindStep ==
  ASSUME DirectInv, NEW r \in DirectRequests, D!Find(r) \/ D!FindSelf(r)
  PROVE  DirectInv'
<1>a. DirectAct(r) /\ DirectTypes
  BY DEF DirectAct, DirectInv
<1>0. /\ opening' \in [DirectRequests -> DirectRequest] /\ Active(r)
      /\ \A q \in DirectRequests : q # r => opening'[q] = opening[q]
      /\ \A q \in DirectRequests : D!Pair(q)' = D!Pair(q)
      /\ opening'[r].by = opening[r].by /\ opening'[r].other = opening[r].other
  BY <1>a, DirectGoes
<1>b. /\ UNCHANGED <<created, pairs>> /\ created \in Seq(DirectRequests) /\ opening[r].step = "find"
      /\ answer \in [DirectRequests -> DirectRequests \cup {D!None}] /\ answer[r] = D!None
  BY DEF D!Find, D!FindSelf, D!At, D!tables, DirectInv, DirectTypes, AnswerInv
<1>1. \A q \in DirectRequests : Whole(q)' <=> Whole(q)
  BY <1>0, <1>b DEF Whole
<1>2. broken' \in 0..DirectFailures /\ handed \subseteq handed' /\ doubled \subseteq doubled'
  BY ServiceConstants DEF D!Find, D!FindSelf, D!Fails, D!ghosts, DirectInv, DirectTypes, D!DirectAssumption
<1>3. CASE \E c : D!Answer(r, c) /\ c \in DirectRequests
                  /\ \/ Whole(c) /\ D!Pair(c) = D!Pair(r)
                     \/ c \in handed' /\ opening[r].by = opening[r].other
  <2>1. PICK c \in DirectRequests : D!Answer(r, c)
           /\ \/ Whole(c) /\ D!Pair(c) = D!Pair(r)
              \/ c \in handed' /\ opening[r].by = opening[r].other
    BY <1>3
  <2>2. /\ opening'[r].step = "done" /\ answer'[r] = c /\ answer' \in [DirectRequests -> DirectRequests \cup {D!None}]
        /\ \A q \in DirectRequests : q # r => answer'[q] = answer[q]
    BY <1>a, <1>b, <2>1, DirectGoto DEF D!Answer
  <2>3. MembersInv'
    BY <1>a, <1>b, <2>2, MembersStayAsTheyAre
  <2>4. SingleInv'
    <3>1. \A q \in DirectRequests : (Active(q)' => Active(q)) /\ (Making(q)' => Making(q))
      BY <1>0, <2>2 DEF Active, Making
    <3>2. QED
      BY <1>0, <1>1, <1>2, <3>1, SingleStays
  <2>5. AnswerInv'
    <3>1. \/ Whole(answer[r])' /\ D!Pair(answer[r])' = D!Pair(r)'
          \/ answer'[r] \in handed' /\ opening'[r].by = opening'[r].other
      <4>1. CASE Whole(c) /\ D!Pair(c) = D!Pair(r)
        <5>1. pairs'[c] = {opening'[c].by, opening'[c].other}
              /\ {opening'[c].by, opening'[c].other} = {opening'[r].by, opening'[r].other}
          BY <1>0, <1>1, <4>1 DEF Whole, D!Pair
        <5>2. QED
          BY <2>2, <5>1 DEF Whole, D!Pair
      <4>2. QED
        BY <1>0, <2>1, <2>2, <4>1
    <3>2. QED
      BY <1>0, <1>1, <1>2, <2>2, <3>1, AnswerStays
  <2>6. DirectTypes'
    BY <1>0, <1>b, <1>2, <2>2, <1>a DEF DirectTypes
  <2>7. QED
    BY <2>3, <2>4, <2>5, <2>6 DEF DirectInv
<1>4. CASE /\ opening'[r].step \in {"insert", "done"} /\ answer' = answer
           /\ opening'[r].step = "insert" =>
                D!Pair(r) \in doubled' \/ \A c \in DirectRequests : Whole(c) => D!Pair(c) # D!Pair(r)
  <2>1. MembersInv'
    BY <1>a, <1>b, <1>4, MembersStayAsTheyAre
  <2>2. SingleInv'
    <3>1. \A q \in DirectRequests : (Active(q)' => Active(q)) /\ (q # r => (Making(q)' => Making(q)))
      BY <1>0 DEF Active, Making
    <3>2. Making(r)' => opening'[r].step = "insert"
      BY <1>4 DEF Making
    <3>3. \A q, s \in DirectRequests :
            Active(q)' /\ Active(s)' /\ D!Pair(q)' = D!Pair(s)' => q = s \/ D!Pair(s)' \in doubled'
      BY <1>0, <1>2, <3>1 DEF DirectInv, SingleInv
    <3>4. \A c, s \in DirectRequests :
            Whole(c)' /\ Making(s)' /\ D!Pair(c)' = D!Pair(s)' => D!Pair(s)' \in doubled'
      BY <1>0, <1>1, <1>2, <1>4, <3>1, <3>2 DEF DirectInv, SingleInv
    <3>5. \A c, d \in DirectRequests :
            Whole(c)' /\ Whole(d)' /\ D!Pair(c)' = D!Pair(d)' => c = d \/ D!Pair(d)' \in doubled'
      BY <1>0, <1>1, <1>2 DEF DirectInv, SingleInv
    <3>6. QED
      BY <3>3, <3>4, <3>5 DEF SingleInv
  <2>3. AnswerInv'
    <3>1. answer'[r] = D!None
      BY <1>b, <1>4
    <3>2. QED
      BY <1>0, <1>1, <1>2, <1>4, <3>1, AnswerStays
  <2>4. DirectTypes'
    BY <1>0, <1>b, <1>2, <1>4, <1>a DEF DirectTypes
  <2>5. QED
    BY <2>1, <2>2, <2>3, <2>4 DEF DirectInv
<1>5. CASE D!Find(r)
  <2> DEFINE found == D!Shared(opening[r].by, opening[r].other)
  <2>1. \A c : c \in found <=> c \in DirectRequests /\ Made(c) /\ pairs[c] = D!Pair(r)
    BY <1>b, SharedIsMade DEF D!Pair
  <2>2. opening[r].by # opening[r].other
    BY <1>5 DEF D!Find
  <2>3. \A c \in found : Whole(c) /\ D!Pair(c) = D!Pair(r)
    <3>1. SUFFICES ASSUME NEW c \in found PROVE Whole(c) /\ D!Pair(c) = D!Pair(r)
      OBVIOUS
    <3>2. c \in DirectRequests /\ pairs[c] = {opening[r].by, opening[r].other}
      BY <2>1 DEF D!Pair
    <3>3. pairs[c] \in {{}, {opening[c].by}, D!Pair(c)}
      BY <3>2 DEF DirectInv, MembersInv
    <3>4. pairs[c] = D!Pair(c)
      BY <2>2, <3>2, <3>3
    <3>5. QED
      BY <2>1, <3>4 DEF Whole
  <2>4. \A c \in DirectRequests : Whole(c) /\ D!Pair(c) = D!Pair(r) => c \in found
    <3>1. SUFFICES ASSUME NEW c \in DirectRequests, Whole(c), D!Pair(c) = D!Pair(r) PROVE c \in found
      OBVIOUS
    <3>2. pairs[c] = D!Pair(r) /\ pairs[c] # {}
      BY <3>1 DEF Whole, D!Pair
    <3>3. Made(c)
      BY <3>2 DEF DirectInv, MembersInv
    <3>4. QED
      BY <2>1, <3>2, <3>3
  <2>5. \/ \E c \in found : D!Answer(r, c)
        \/ found = {} /\ D!Goto(r, "insert") /\ answer' = answer
        \/ D!Goto(r, "done") /\ answer' = answer
    BY <1>5 DEF D!Find
  <2> HIDE DEF found
  <2>6. CASE \E c \in found : D!Answer(r, c)
    BY <1>3, <2>1, <2>3, <2>6
  <2>7. CASE found = {} /\ D!Goto(r, "insert") /\ answer' = answer
    BY <1>a, <1>4, <2>4, <2>7, DirectGoto
  <2>8. CASE D!Goto(r, "done") /\ answer' = answer
    BY <1>a, <1>4, <2>8, DirectGoto
  <2>9. QED
    BY <2>5, <2>6, <2>7, <2>8
<1>6. CASE D!FindSelf(r)
  <2> DEFINE u == opening[r].by
  <2>1. opening[r].other = u /\ D!Pair(r) = {u}
    BY <1>6 DEF D!FindSelf, D!Pair
  <2>2. \/ \E c \in D!Own(u) : D!Answer(r, c) /\ (opening[c].other # u => c \in handed')
        \/ D!Own(u) = {} /\ D!Goto(r, "insert") /\ answer' = answer
        \/ D!Goto(r, "insert") /\ {u} \in doubled' /\ answer' = answer
    BY <1>6 DEF D!FindSelf
  <2>3. CASE \E c \in D!Own(u) : D!Answer(r, c) /\ (opening[c].other # u => c \in handed')
    <3>1. PICK c \in D!Own(u) : D!Answer(r, c) /\ (opening[c].other # u => c \in handed')
      BY <2>3
    <3>2. c \in DirectRequests /\ opening[c].by = u /\ u \in pairs[c]
      BY <1>b, OwnIsOwn DEF D!MadeBy
    <3>3. pairs[c] \in {{}, {opening[c].by}, D!Pair(c)}
      BY <3>2 DEF DirectInv, MembersInv
    <3>4. opening[c].other = u => Whole(c) /\ D!Pair(c) = D!Pair(r)
      BY <2>1, <3>2, <3>3 DEF Whole, D!Pair
    <3>5. QED
      BY <1>3, <2>1, <3>1, <3>2, <3>4
  <2>4. CASE D!Own(u) = {} /\ D!Goto(r, "insert") /\ answer' = answer
    <3>1. ASSUME NEW c \in DirectRequests, Whole(c), D!Pair(c) = D!Pair(r) PROVE FALSE
      <4>1. pairs[c] = {u} /\ opening[c].by = u
        BY <2>1, <3>1 DEF Whole, D!Pair
      <4>2. Made(c) /\ D!MadeBy(u, c)
        BY <4>1 DEF DirectInv, MembersInv, D!MadeBy
      <4>3. QED
        BY <1>b, <2>4, <4>2, OwnIsFound
    <3>2. QED
      BY <1>a, <1>4, <2>4, <3>1, DirectGoto
  <2>5. CASE D!Goto(r, "insert") /\ {u} \in doubled' /\ answer' = answer
    BY <1>a, <1>4, <2>1, <2>5, DirectGoto
  <2>6. QED
    BY <2>2, <2>3, <2>4, <2>5
<1>7. QED
  BY <1>5, <1>6

\* A statement that fails ends the request.
LEMMA GiveUpStep ==
  ASSUME DirectInv, NEW r \in DirectRequests, DirectAct(r), D!Goto(r, "done"), broken' \in 0..DirectFailures,
         UNCHANGED <<created, pairs, answer, doubled, handed>>
  PROVE  DirectInv'
<1>a. DirectTypes
  BY DEF DirectInv
<1>0. /\ opening' \in [DirectRequests -> DirectRequest] /\ Active(r)
      /\ \A q \in DirectRequests : q # r => opening'[q] = opening[q]
      /\ \A q \in DirectRequests : D!Pair(q)' = D!Pair(q)
      /\ opening'[r].step = "done"
  BY <1>a, DirectGoes, DirectGoto
<1>1. \A q \in DirectRequests : Whole(q)' <=> Whole(q)
  BY <1>0 DEF Whole
<1>2. MembersInv'
  <2>1. opening[r].step \in {"find", "insert", "me", "other"}
    BY <1>0, <1>a DEF Active, DirectTypes, DirectRequest
  <2>2. QED
    BY <1>0, <2>1, MembersStayAsTheyAre
<1>3. SingleInv'
  <2>1. \A q \in DirectRequests : (Active(q)' => Active(q)) /\ (Making(q)' => Making(q))
    BY <1>0 DEF Active, Making
  <2>2. QED
    BY <1>0, <1>1, <2>1, SingleStays
<1>4. AnswerInv'
  <2>1. answer'[r] = D!None
    BY <1>0 DEF DirectInv, AnswerInv, Active
  <2>2. QED
    BY <1>0, <1>1, <2>1, AnswerStays
<1>5. QED
  BY <1>a, <1>0, <1>2, <1>3, <1>4 DEF DirectInv, DirectTypes

LEMMA InsertStep ==
  ASSUME DirectInv, NEW r \in DirectRequests, D!CreateDirectConversation(r)
  PROVE  DirectInv'
<1>a. DirectTypes /\ DirectAct(r) /\ opening[r].step = "insert"
      /\ UNCHANGED <<pairs, answer, doubled, handed>>
  BY DEF DirectInv, DirectAct, D!CreateDirectConversation, D!At, D!ghosts
<1>0. /\ opening' \in [DirectRequests -> DirectRequest] /\ Active(r)
      /\ \A q \in DirectRequests : q # r => opening'[q] = opening[q]
      /\ \A q \in DirectRequests : D!Pair(q)' = D!Pair(q)
      /\ opening'[r].by = opening[r].by /\ opening'[r].other = opening[r].other
  BY <1>a, DirectGoes
<1>1. \A q \in DirectRequests : Whole(q)' <=> Whole(q)
  BY <1>0, <1>a DEF Whole
<1>2. CASE created' = Append(created, r) /\ D!Goto(r, "me") /\ UNCHANGED broken
  <2>1. opening'[r].step = "me"
    BY <1>a, <1>2, DirectGoto
  <2>2. created' \in Seq(DirectRequests)
    BY <1>a, <1>2 DEF DirectTypes
  <2>3. \A c \in DirectRequests : Made(c)' <=> Made(c) \/ c = r
    BY <1>a, <1>2 DEF DirectTypes, Made
  <2>4. MembersInv'
    <3>1. ASSUME NEW c \in DirectRequests
          PROVE  /\ Made(c)' => opening'[c].step \in {"me", "other", "done"}
                 /\ pairs'[c] \in {{}, {opening'[c].by}, D!Pair(c)'}
                 /\ pairs'[c] # {} => opening'[c].step \in {"other", "done"}
                 /\ opening'[c].step = "other" => pairs'[c] = {opening'[c].by} /\ opening'[c].by # opening'[c].other
                 /\ pairs'[c] # {} \/ opening'[c].step \in {"me", "other"} => Made(c)'
      <4>1. CASE c = r
        BY <1>0, <1>a, <2>1, <2>3, <4>1 DEF DirectInv, MembersInv
      <4>2. CASE c # r
        BY <1>0, <1>a, <2>3, <4>2 DEF DirectInv, MembersInv
      <4>3. QED
        BY <4>1, <4>2
    <3>2. QED
      BY <3>1 DEF MembersInv
  <2>5. SingleInv'
    <3>1. \A q \in DirectRequests : (Active(q)' => Active(q)) /\ (Making(q)' => Making(q))
      BY <1>0, <1>a DEF Active, Making
    <3>2. QED
      BY <1>0, <1>1, <1>a, <3>1, SingleStays
  <2>6. AnswerInv'
    <3>1. answer'[r] = D!None
      BY <1>a DEF DirectInv, AnswerInv
    <3>2. QED
      BY <1>0, <1>1, <1>a, <3>1, AnswerStays
  <2>7. QED
    BY <1>a, <1>0, <1>2, <2>2, <2>4, <2>5, <2>6 DEF DirectInv, DirectTypes
<1>3. CASE D!Fails /\ D!Goto(r, "done") /\ UNCHANGED created
  <2>1. broken' \in 0..DirectFailures
    BY <1>3, ServiceConstants DEF D!Fails, DirectInv, DirectTypes, D!DirectAssumption
  <2>2. QED
    BY <1>a, <1>3, <2>1, GiveUpStep
<1>4. QED
  BY <1>2, <1>3 DEF D!CreateDirectConversation

\* A request has put its last member in: its conversation is whole, and its own
\* answer.
LEMMA FillStep ==
  ASSUME DirectInv, NEW r \in DirectRequests, DirectAct(r), Making(r), Made(r), opening'[r].step = "done",
         pairs' = [pairs EXCEPT ![r] = D!Pair(r)], answer' = [answer EXCEPT ![r] = r],
         UNCHANGED <<created, broken, doubled, handed>>
  PROVE  DirectInv'
<1>a. DirectTypes
  BY DEF DirectInv
<1>0. /\ opening' \in [DirectRequests -> DirectRequest] /\ Active(r)
      /\ \A q \in DirectRequests : q # r => opening'[q] = opening[q]
      /\ \A q \in DirectRequests : D!Pair(q)' = D!Pair(q)
      /\ opening'[r].by = opening[r].by /\ opening'[r].other = opening[r].other
  BY <1>a, DirectGoes
<1>1. /\ pairs' \in [DirectRequests -> SUBSET Users] /\ pairs'[r] = D!Pair(r)
      /\ \A q \in DirectRequests : q # r => pairs'[q] = pairs[q] /\ answer'[q] = answer[q]
      /\ answer' \in [DirectRequests -> DirectRequests \cup {D!None}] /\ answer'[r] = r
  BY <1>a DEF DirectTypes, DirectRequest, D!Pair
<1>2. Whole(r)' /\ \A q \in DirectRequests : q # r => (Whole(q)' <=> Whole(q))
  BY <1>0, <1>1 DEF Whole
<1>3. MembersInv'
  <2>1. \A c \in DirectRequests : Made(c)' <=> Made(c)
    BY DEF Made
  <2>2. ASSUME NEW c \in DirectRequests
        PROVE  /\ Made(c)' => opening'[c].step \in {"me", "other", "done"}
               /\ pairs'[c] \in {{}, {opening'[c].by}, D!Pair(c)'}
               /\ pairs'[c] # {} => opening'[c].step \in {"other", "done"}
               /\ opening'[c].step = "other" => pairs'[c] = {opening'[c].by} /\ opening'[c].by # opening'[c].other
               /\ pairs'[c] # {} \/ opening'[c].step \in {"me", "other"} => Made(c)'
    <3>1. CASE c = r
      BY <1>0, <1>1, <2>1, <3>1 DEF DirectInv, MembersInv
    <3>2. CASE c # r
      BY <1>0, <1>1, <2>1, <3>2 DEF DirectInv, MembersInv
    <3>3. QED
      BY <3>1, <3>2
  <2>3. QED
    BY <2>2 DEF MembersInv
<1>4. SingleInv'
  <2>1. ~Active(r)' /\ ~Making(r)'
    BY DEF Active, Making
  <2>2. \A q \in DirectRequests : (Active(q)' => Active(q)) /\ (Making(q)' => Making(q) /\ Active(q) /\ q # r)
    BY <1>0, <2>1 DEF Active, Making
  <2>3. \A q, s \in DirectRequests :
          Active(q)' /\ Active(s)' /\ D!Pair(q)' = D!Pair(s)' => q = s \/ D!Pair(s)' \in doubled'
    BY <1>0, <2>2 DEF DirectInv, SingleInv
  <2>4. \A c, s \in DirectRequests :
          Whole(c)' /\ Making(s)' /\ D!Pair(c)' = D!Pair(s)' => D!Pair(s)' \in doubled'
    BY <1>0, <1>2, <2>2 DEF DirectInv, SingleInv
  <2>5. \A c, d \in DirectRequests :
          Whole(c)' /\ Whole(d)' /\ D!Pair(c)' = D!Pair(d)' => c = d \/ D!Pair(d)' \in doubled'
    BY <1>0, <1>2 DEF DirectInv, SingleInv
  <2>6. QED
    BY <2>3, <2>4, <2>5 DEF SingleInv
<1>5. AnswerInv'
  <2>1. \A q \in DirectRequests : Whole(q) => Whole(q)'
    BY <1>2
  <2>2. Whole(answer[r])' /\ D!Pair(answer[r])' = D!Pair(r)'
    BY <1>1, <1>2 DEF Whole, D!Pair
  <2>3. QED
    BY <1>0, <1>1, <2>1, <2>2, AnswerStays
<1>6. QED
  BY <1>a, <1>0, <1>1, <1>3, <1>4, <1>5 DEF DirectInv, DirectTypes

LEMMA AddStep ==
  ASSUME DirectInv, NEW r \in DirectRequests, D!AddMe(r) \/ D!AddOther(r)
  PROVE  DirectInv'
<1>a. DirectTypes /\ DirectAct(r) /\ opening[r].step \in {"me", "other"} /\ Making(r) /\ Made(r)
      /\ UNCHANGED <<created, doubled, handed>> /\ pairs \in [DirectRequests -> SUBSET Users]
      /\ answer \in [DirectRequests -> DirectRequests \cup {D!None}]
  BY DEF DirectInv, DirectTypes, MembersInv, DirectAct, D!AddMe, D!AddOther, D!At, D!ghosts, Making
<1>0. /\ opening' \in [DirectRequests -> DirectRequest] /\ Active(r)
      /\ \A q \in DirectRequests : q # r => opening'[q] = opening[q]
      /\ \A q \in DirectRequests : D!Pair(q)' = D!Pair(q)
      /\ opening'[r].by = opening[r].by /\ opening'[r].other = opening[r].other
  BY <1>a, DirectGoes
<1>1. CASE D!Fails /\ D!Goto(r, "done") /\ UNCHANGED <<pairs, answer>>
  <2>1. broken' \in 0..DirectFailures
    BY <1>1, ServiceConstants DEF D!Fails, DirectInv, DirectTypes, D!DirectAssumption
  <2>2. QED
    BY <1>a, <1>1, <2>1, GiveUpStep
<1>2. CASE /\ D!Answer(r, r) /\ UNCHANGED broken
           /\ \/ /\ opening[r].step = "me" /\ opening[r].other = opening[r].by
                 /\ pairs' = [pairs EXCEPT ![r] = @ \cup {opening[r].by}]
              \/ opening[r].step = "other" /\ pairs' = [pairs EXCEPT ![r] = @ \cup {opening[r].other}]
  <2>1. pairs' = [pairs EXCEPT ![r] = D!Pair(r)]
    <3>1. CASE opening[r].step = "me"
      <4>1. pairs[r] = {}
        BY <3>1 DEF DirectInv, MembersInv
      <4>2. QED
        BY <1>2, <3>1, <4>1 DEF D!Pair
    <3>2. CASE opening[r].step = "other"
      <4>1. pairs[r] = {opening[r].by}
        BY <3>2 DEF DirectInv, MembersInv
      <4>2. {opening[r].by} \cup {opening[r].other} = D!Pair(r)
        BY DEF D!Pair
      <4>3. pairs' = [pairs EXCEPT ![r] = pairs[r] \cup {opening[r].other}]
        BY <1>2, <3>2
      <4>4. QED
        BY <4>1, <4>2, <4>3
    <3>3. QED
      BY <1>a, <3>1, <3>2
  <2>2. opening'[r].step = "done" /\ answer' = [answer EXCEPT ![r] = r]
    BY <1>a, <1>2, DirectGoto DEF D!Answer
  <2>3. QED
    BY <1>a, <1>2, <2>1, <2>2, FillStep
<1>3. CASE /\ opening[r].step = "me" /\ opening[r].other # opening[r].by /\ D!Goto(r, "other")
           /\ pairs' = [pairs EXCEPT ![r] = @ \cup {opening[r].by}] /\ UNCHANGED <<answer, broken>>
  <2>1. pairs[r] = {} /\ opening'[r].step = "other"
    BY <1>a, <1>3, DirectGoto DEF DirectInv, MembersInv
  <2>2. /\ pairs'[r] = {opening[r].by} /\ \A q \in DirectRequests : q # r => pairs'[q] = pairs[q]
        /\ pairs' \in [DirectRequests -> SUBSET Users]
    BY <1>a, <1>3, <2>1 DEF DirectTypes, DirectRequest
  <2>3. \A q \in DirectRequests : Whole(q)' <=> Whole(q)
    BY <1>0, <1>3, <2>1, <2>2 DEF Whole, D!Pair
  <2>4. MembersInv'
    <3>1. \A c \in DirectRequests : Made(c)' <=> Made(c)
      BY <1>a DEF Made
    <3>2. ASSUME NEW c \in DirectRequests
          PROVE  /\ Made(c)' => opening'[c].step \in {"me", "other", "done"}
                 /\ pairs'[c] \in {{}, {opening'[c].by}, D!Pair(c)'}
                 /\ pairs'[c] # {} => opening'[c].step \in {"other", "done"}
                 /\ opening'[c].step = "other" => pairs'[c] = {opening'[c].by} /\ opening'[c].by # opening'[c].other
                 /\ pairs'[c] # {} \/ opening'[c].step \in {"me", "other"} => Made(c)'
      <4>1. CASE c = r
        BY <1>0, <1>3, <1>a, <2>1, <2>2, <3>1, <4>1 DEF DirectInv, MembersInv
      <4>2. CASE c # r
        BY <1>0, <2>2, <3>1, <4>2 DEF DirectInv, MembersInv
      <4>3. QED
        BY <4>1, <4>2
    <3>3. QED
      BY <3>2 DEF MembersInv
  <2>5. SingleInv'
    <3>1. \A q \in DirectRequests : (Active(q)' => Active(q)) /\ (Making(q)' => Making(q))
      BY <1>0, <1>a DEF Active, Making
    <3>2. QED
      BY <1>0, <1>a, <2>3, <3>1, SingleStays
  <2>6. AnswerInv'
    <3>1. answer'[r] = D!None
      BY <1>a, <1>3 DEF DirectInv, AnswerInv
    <3>2. QED
      BY <1>0, <1>a, <1>3, <2>3, <3>1, AnswerStays
  <2>7. QED
    BY <1>a, <1>0, <1>3, <2>2, <2>4, <2>5, <2>6 DEF DirectInv, DirectTypes
<1>4. QED
  BY <1>1, <1>2, <1>3 DEF D!AddMe, D!AddOther, D!At

LEMMA DirectGoesOn == ASSUME DirectInv, [D!Next]_directVars PROVE DirectInv'
<1>1. CASE UNCHANGED directVars
  BY <1>1 DEF directVars, DirectInv, DirectTypes, MembersInv, SingleInv, AnswerInv, Made, Whole, Active, Making,
     D!Pair
<1>2. QED
  BY <1>1, DirectStart, FindStep, InsertStep, AddStep DEF D!Next

\* Conversations are numbered in the order they were made.  The one Self was
\* answered with is not preceded by another one of the same user that is whole
\* or will be, unless requests overlapped or the read failed.
First(r) ==
  opening[r].by = opening[r].other /\ answer[r] # D!None =>
    \A i, j \in DOMAIN created :
      i < j /\ created[j] = answer[r] /\ D!Pair(created[i]) = D!Pair(r) /\ (Whole(created[i]) \/ Making(created[i]))
        => D!Pair(r) \in doubled

FirstInv ==
  /\ \A i, j \in DOMAIN created : created[i] = created[j] => i = j
  /\ \A r \in DirectRequests : answer[r] # D!None => Made(answer[r])
  /\ \A r \in DirectRequests : First(r)

\* It is so while no conversation is inserted and none but that of the request
\* starts to be made.
LEMMA FirstStays ==
  ASSUME DirectInv, FirstInv, created' = created, doubled \subseteq doubled', NEW r \in DirectRequests,
         \A q \in DirectRequests : q # r => answer'[q] = answer[q] /\ opening'[q] = opening[q],
         \A q \in DirectRequests : Made(q) =>
           D!Pair(q)' = D!Pair(q) /\ (Whole(q)' \/ Making(q)' => Whole(q) \/ Making(q)),
         answer'[r] # D!None => Made(answer'[r]) /\ First(r)'
  PROVE  FirstInv'
<1>1. created \in Seq(DirectRequests)
  BY DEF DirectInv, DirectTypes
<1>2. ASSUME NEW q \in DirectRequests, q # r PROVE First(q)'
  <2>1. SUFFICES ASSUME opening[q].by = opening[q].other, answer[q] # D!None,
                        NEW i \in DOMAIN created, NEW j \in DOMAIN created, i < j, created[j] = answer[q],
                        D!Pair(created[i])' = D!Pair(q)', Whole(created[i])' \/ Making(created[i])'
                 PROVE  D!Pair(q) \in doubled
    <3>1. D!Pair(q)' = D!Pair(q) /\ answer'[q] = answer[q] /\ opening'[q] = opening[q]
      BY <1>2 DEF D!Pair
    <3>2. QED
      BY <3>1, <2>1 DEF First
  <2>2. created[i] \in DirectRequests /\ Made(created[i])
    BY <1>1 DEF Made
  <2>3. D!Pair(q)' = D!Pair(q)
    BY <1>2 DEF D!Pair
  <2>4. D!Pair(created[i]) = D!Pair(q) /\ (Whole(created[i]) \/ Making(created[i]))
    BY <2>1, <2>2, <2>3
  <2>5. QED
    BY <2>1, <2>4 DEF FirstInv, First
<1>3. First(r)'
  BY DEF First
<1>4. \A q \in DirectRequests : First(q)'
  BY <1>2, <1>3
<1>5. \A q \in DirectRequests : answer'[q] # D!None => Made(answer[q])'
  BY DEF FirstInv, Made
<1>6. QED
  BY <1>4, <1>5 DEF FirstInv

\* A request that goes on or gives up, without an answer.
LEMMA FirstWaits ==
  ASSUME DirectInv, FirstInv, NEW r \in DirectRequests, DirectAct(r), created' = created, pairs' = pairs,
         answer' = answer, doubled \subseteq doubled',
         Making(r)' => Making(r) \/ ~Made(r)
  PROVE  FirstInv'
<1>1. /\ \A q \in DirectRequests : q # r => opening'[q] = opening[q]
      /\ \A q \in DirectRequests : D!Pair(q)' = D!Pair(q)
      /\ Active(r)
  BY DirectGoes DEF DirectInv
<1>2. answer'[r] = D!None
  BY <1>1 DEF DirectInv, AnswerInv, Active
<1>3. \A q \in DirectRequests : Made(q) =>
        D!Pair(q)' = D!Pair(q) /\ (Whole(q)' \/ Making(q)' => Whole(q) \/ Making(q))
  BY <1>1 DEF Whole, Making
<1>4. QED
  BY <1>1, <1>2, <1>3, FirstStays

LEMMA FirstStart ==
  ASSUME DirectInv, FirstInv, NEW r \in DirectRequests, D!Start(r)
  PROVE  FirstInv'
<1>1. /\ opening \in [DirectRequests -> DirectRequest] /\ opening[r].step = "idle"
      /\ UNCHANGED <<created, pairs, answer>> /\ doubled \subseteq doubled'
  BY DEF DirectInv, DirectTypes, D!Start, D!At, D!tables
<1>2. \A q \in DirectRequests : q # r => opening'[q] = opening[q]
  BY <1>1 DEF D!Start
<1>3. answer'[r] = D!None /\ ~Made(r)
  BY <1>1 DEF DirectInv, MembersInv, AnswerInv
<1>4. \A q \in DirectRequests : Made(q) =>
        D!Pair(q)' = D!Pair(q) /\ (Whole(q)' \/ Making(q)' => Whole(q) \/ Making(q))
  BY <1>1, <1>2, <1>3 DEF Whole, Making, D!Pair
<1>5. QED
  BY <1>1, <1>2, <1>3, <1>4, FirstStays

LEMMA FirstFind ==
  ASSUME DirectInv, FirstInv, NEW r \in DirectRequests, D!Find(r) \/ D!FindSelf(r)
  PROVE  FirstInv'
<1>a. DirectAct(r) /\ DirectTypes /\ created \in Seq(DirectRequests)
  BY DEF DirectAct, DirectInv, DirectTypes
<1>0. /\ Active(r)
      /\ \A q \in DirectRequests : q # r => opening'[q] = opening[q]
      /\ \A q \in DirectRequests : D!Pair(q)' = D!Pair(q)
      /\ opening'[r].by = opening[r].by /\ opening'[r].other = opening[r].other
  BY <1>a, DirectGoes
<1>b. /\ UNCHANGED <<created, pairs>> /\ doubled \subseteq doubled' /\ opening[r].step = "find"
      /\ answer \in [DirectRequests -> DirectRequests \cup {D!None}] /\ ~Made(r) /\ ~Making(r)
  BY DEF D!Find, D!FindSelf, D!At, D!tables, D!ghosts, DirectInv, DirectTypes, MembersInv, Making
<1>1. CASE answer' = answer
  BY <1>a, <1>b, <1>1, FirstWaits
<1>2. CASE \E c : D!Answer(r, c) /\ c \in DirectRequests /\ Made(c) /\ (First(r)' \/ opening[r].by # opening[r].other)
  <2>1. PICK c \in DirectRequests : D!Answer(r, c) /\ Made(c) /\ (First(r)' \/ opening[r].by # opening[r].other)
    BY <1>2
  <2>2. /\ answer'[r] = c /\ \A q \in DirectRequests : q # r => answer'[q] = answer[q]
        /\ opening'[r].step = "done"
    BY <1>a, <1>b, <2>1, DirectGoto DEF D!Answer
  <2>3. First(r)'
    BY <1>0, <2>1 DEF First
  <2>4. \A q \in DirectRequests : Made(q) =>
          D!Pair(q)' = D!Pair(q) /\ (Whole(q)' \/ Making(q)' => Whole(q) \/ Making(q))
    BY <1>0, <1>b DEF Whole, Making
  <2>5. QED
    BY <1>0, <1>b, <2>1, <2>2, <2>3, <2>4, FirstStays
<1>3. CASE D!Find(r)
  <2>1. opening[r].by # opening[r].other
        /\ (answer' = answer \/ \E c \in D!Shared(opening[r].by, opening[r].other) : D!Answer(r, c))
    BY <1>3 DEF D!Find
  <2>2. \A c \in D!Shared(opening[r].by, opening[r].other) : c \in DirectRequests /\ Made(c)
    BY <1>a, SharedIsMade
  <2>3. QED
    BY <1>1, <1>2, <2>1, <2>2
<1>4. CASE D!FindSelf(r)
  <2> DEFINE u == opening[r].by
  <2>1. opening[r].other = u /\ D!Pair(r) = {u}
    BY <1>4 DEF D!FindSelf, D!Pair
  <2>2. answer' = answer \/ \E c \in D!Own(u) : D!Answer(r, c)
    BY <1>4 DEF D!FindSelf
  <2>3. ASSUME NEW c \in D!Own(u), D!Answer(r, c)
        PROVE  c \in DirectRequests /\ Made(c) /\ First(r)'
    <3>1. PICK m \in DOMAIN created : c = created[m] /\ \A k \in 1..(m - 1) : ~D!MadeBy(u, created[k])
      BY <2>3 DEF D!Own
    <3>2. c \in DirectRequests /\ Made(c) /\ answer'[r] = c
      BY <1>a, <1>b, <2>3, OwnIsOwn DEF D!Answer
    <3>3. SUFFICES ASSUME NEW i \in DOMAIN created, NEW j \in DOMAIN created, i < j, created[j] = c,
                          D!Pair(created[i]) = {u}, Whole(created[i])' \/ Making(created[i])'
                   PROVE  {u} \in doubled
      <4>1. \A i \in DOMAIN created : created[i] \in DirectRequests
        BY <1>a
      <4>2. \A i \in DOMAIN created : D!Pair(created[i])' = D!Pair(created[i])
        <5>1. created' = created
          BY <1>b
        <5>2. QED
          BY <1>0, <4>1, <5>1 DEF D!Pair
      <4>3. First(r)'
        BY <1>0, <1>b, <2>1, <3>2, <3>3, <4>2 DEF First
      <4>4. QED
        BY <3>2, <4>3
    <3>4. j = m /\ i \in 1..(m - 1)
      BY <3>1, <3>3, <1>a DEF FirstInv
    <3>5. ~D!MadeBy(u, created[i]) /\ created[i] \in DirectRequests /\ Made(created[i])
      BY <1>a, <3>1, <3>4, <3>3 DEF Made
    <3>6. created[i] # r /\ opening[created[i]].by = u
      BY <1>b, <3>3, <3>5 DEF D!Pair
    <3>7. ~Whole(created[i])
      BY <3>3, <3>5, <3>6 DEF Whole, D!MadeBy
    <3>8. Making(created[i])
      BY <1>0, <1>b, <3>3, <3>5, <3>6, <3>7 DEF Whole, Making
    <3>9. Active(created[i])
      BY <3>8 DEF Making, Active
    <3>10. QED
      BY <1>0, <2>1, <3>3, <3>5, <3>6, <3>9 DEF DirectInv, SingleInv
  <2>4. CASE \E c \in D!Own(u) : D!Answer(r, c)
    BY <1>2, <2>3, <2>4
  <2>5. QED
    BY <1>1, <2>2, <2>4
<1>5. QED
  BY <1>3, <1>4

LEMMA FirstInsert ==
  ASSUME DirectInv, FirstInv, NEW r \in DirectRequests, D!CreateDirectConversation(r)
  PROVE  FirstInv'
<1>a. /\ DirectTypes /\ DirectAct(r) /\ opening[r].step = "insert" /\ created \in Seq(DirectRequests)
      /\ UNCHANGED <<pairs, answer, doubled>> /\ ~Made(r)
  BY DEF DirectInv, DirectTypes, MembersInv, DirectAct, D!CreateDirectConversation, D!At, D!ghosts
<1>0. /\ \A q \in DirectRequests : q # r => opening'[q] = opening[q]
      /\ \A q \in DirectRequests : D!Pair(q)' = D!Pair(q)
      /\ Active(r)
  BY <1>a, DirectGoes
<1>1. CASE created' = created
  BY <1>a, <1>1, FirstWaits
<1>2. CASE created' = Append(created, r)
  <2>1. /\ DOMAIN created' = 1..(Len(created) + 1) /\ DOMAIN created = 1..Len(created) /\ Len(created) \in Nat
        /\ created'[Len(created) + 1] = r /\ \A i \in DOMAIN created : created'[i] = created[i]
    BY <1>a, <1>2
  <2>2. \A i \in DOMAIN created : created[i] # r
    BY <1>a DEF Made
  <2>3. \A i, j \in DOMAIN created' : created'[i] = created'[j] => i = j
    BY <2>1, <2>2 DEF FirstInv
  <2>4. \A q \in DirectRequests : answer'[q] # D!None => Made(answer[q])'
    BY <1>a, <2>1 DEF FirstInv, Made
  <2>5. ASSUME NEW q \in DirectRequests PROVE First(q)'
    <3>1. SUFFICES ASSUME opening[q].by = opening[q].other, answer[q] # D!None, q # r,
                          NEW i \in DOMAIN created', NEW j \in DOMAIN created', i < j, created'[j] = answer[q],
                          D!Pair(created[i])' = D!Pair(q), Whole(created[i])' \/ Making(created[i])'
                   PROVE  D!Pair(q) \in doubled
      <4>1. answer[r] = D!None
        BY <1>a DEF DirectInv, AnswerInv
      <4>2. CASE q = r
        BY <1>a, <4>1, <4>2 DEF First
      <4>3. CASE q # r
        <5>1. D!Pair(q)' = D!Pair(q) /\ opening'[q] = opening[q] /\ answer'[q] = answer[q] /\ doubled' = doubled
          BY <1>a, <1>0, <4>3
        <5>2. QED
          BY <3>1, <4>3, <5>1 DEF First
      <4>4. QED
        BY <4>2, <4>3
    <3>2. j # Len(created) + 1
      BY <1>a, <2>1, <3>1 DEF FirstInv
    <3>3. i \in DOMAIN created /\ j \in DOMAIN created
      BY <2>1, <3>1, <3>2
    <3>4. created'[i] = created[i] /\ created'[j] = created[j] /\ created[i] # r /\ created[i] \in DirectRequests
      BY <1>a, <2>1, <2>2, <3>3
    <3>5. D!Pair(created[i]) = D!Pair(q) /\ (Whole(created[i]) \/ Making(created[i]))
      BY <1>0, <1>a, <3>1, <3>4 DEF Whole, Making
    <3>6. QED
      BY <3>1, <3>3, <3>4, <3>5 DEF FirstInv, First
  <2>6. QED
    BY <2>3, <2>4, <2>5 DEF FirstInv
<1>3. QED
  BY <1>1, <1>2 DEF D!CreateDirectConversation

LEMMA FirstAdd ==
  ASSUME DirectInv, FirstInv, NEW r \in DirectRequests, D!AddMe(r) \/ D!AddOther(r)
  PROVE  FirstInv'
<1>a. /\ DirectTypes /\ DirectAct(r) /\ Making(r) /\ Made(r) /\ UNCHANGED <<created, doubled>>
      /\ pairs \in [DirectRequests -> SUBSET Users] /\ created \in Seq(DirectRequests)
      /\ answer \in [DirectRequests -> DirectRequests \cup {D!None}]
  BY DEF DirectInv, DirectTypes, MembersInv, DirectAct, D!AddMe, D!AddOther, D!At, D!ghosts, Making
<1>0. /\ \A q \in DirectRequests : q # r => opening'[q] = opening[q]
      /\ \A q \in DirectRequests : D!Pair(q)' = D!Pair(q)
      /\ Active(r)
  BY <1>a, DirectGoes
<1>1. \A q \in DirectRequests : q # r => pairs'[q] = pairs[q] /\ answer'[q] = answer[q]
  BY <1>a DEF D!AddMe, D!AddOther, D!Answer
<1>2. \A q \in DirectRequests : Made(q) =>
        D!Pair(q)' = D!Pair(q) /\ (Whole(q)' \/ Making(q)' => Whole(q) \/ Making(q))
  BY <1>a, <1>0, <1>1 DEF Whole, Making
<1>3. answer[r] = D!None /\ (answer' = answer \/ answer' = [answer EXCEPT ![r] = r])
  BY <1>0 DEF DirectInv, AnswerInv, Active, D!AddMe, D!AddOther, D!Answer
<1>4. ASSUME answer'[r] # D!None PROVE Made(answer'[r]) /\ First(r)'
  <2>1. answer'[r] = r
    BY <1>a, <1>3, <1>4
  <2>2. ASSUME NEW i \in DOMAIN created, NEW j \in DOMAIN created, i < j, created[j] = r,
               D!Pair(created[i])' = D!Pair(r)', Whole(created[i])' \/ Making(created[i])'
        PROVE  D!Pair(r) \in doubled
    <3>1. created[i] \in DirectRequests /\ Made(created[i]) /\ created[i] # r
      BY <1>a, <2>2 DEF FirstInv, Made
    <3>a. created' = created /\ D!Pair(r)' = D!Pair(r)
      BY <1>a, <1>0
    <3>b. D!Pair(created[i])' = D!Pair(created[i])
          /\ (Whole(created[i])' \/ Making(created[i])' => Whole(created[i]) \/ Making(created[i]))
      <4> DEFINE d == created[i]
      <4>1. d' = d
        BY <3>a
      <4>2. D!Pair(d)' = D!Pair(d)
        BY <1>2, <3>1, <4>1 DEF D!Pair
      <4>3. Whole(d)' \/ Making(d)' => Whole(d) \/ Making(d)
        BY <1>2, <3>1, <4>1 DEF Whole, Making, D!Pair
      <4>4. QED
        BY <4>2, <4>3
    <3>2. D!Pair(created[i]) = D!Pair(r) /\ (Whole(created[i]) \/ Making(created[i]))
      BY <2>2, <3>a, <3>b
    <3>3. CASE Whole(created[i])
      BY <1>a, <3>1, <3>2, <3>3 DEF DirectInv, SingleInv
    <3>4. CASE Making(created[i])
      <4>1. Active(created[i])
        BY <3>4 DEF Making, Active
      <4>2. QED
        BY <1>0, <3>1, <3>2, <4>1 DEF DirectInv, SingleInv
    <3>5. QED
      BY <3>2, <3>3, <3>4
  <2>3. First(r)'
    BY <1>a, <1>0, <2>1, <2>2 DEF First
  <2>4. QED
    BY <1>a, <2>1, <2>3
<1>5. QED
  BY <1>a, <1>0, <1>1, <1>2, <1>4, FirstStays

LEMMA FirstStep == ASSUME DirectInv, FirstInv, [D!Next]_directVars PROVE FirstInv'
<1>1. CASE UNCHANGED directVars
  BY <1>1 DEF directVars, FirstInv, First, Made, Whole, Making, D!Pair
<1>2. QED
  BY <1>1, FirstStart, FirstFind, FirstInsert, FirstAdd DEF D!Next

ConversationInv == DirectInv /\ FirstInv

LEMMA DirectInit == ASSUME D!Init PROVE ConversationInv
<1>1. PICK u \in Users : opening = [r \in DirectRequests |-> D!Idle(u)]
  BY DEF D!Init
<1>2. D!Idle(u) \in DirectRequest /\ D!Idle(u).step = "idle"
  BY DEF D!Idle, DirectRequest
<1>3. /\ created = <<>> /\ pairs = [r \in DirectRequests |-> {}] /\ broken = 0
      /\ answer = [r \in DirectRequests |-> D!None]
  BY DEF D!Init
<1>4. DirectTypes
  <2>1. 0 \in 0..DirectFailures /\ <<>> \in Seq(DirectRequests)
    BY ServiceConstants DEF D!DirectAssumption
  <2>2. QED
    BY <1>1, <1>2, <1>3, <2>1 DEF DirectTypes
<1>5. \A r \in DirectRequests : /\ opening[r].step = "idle" /\ pairs[r] = {} /\ answer[r] = D!None
                                /\ ~Made(r) /\ ~Whole(r) /\ ~Active(r) /\ ~Making(r)
  BY <1>1, <1>2, <1>3 DEF Made, Whole, Active, Making, D!Pair
<1>6. DirectInv
  BY <1>4, <1>5 DEF DirectInv, MembersInv, SingleInv, AnswerInv
<1>7. FirstInv
  BY <1>3, <1>5 DEF FirstInv, First
<1>8. QED
  BY <1>6, <1>7 DEF ConversationInv

LEMMA DirectStep == ASSUME ConversationInv, [D!Next]_directVars PROVE ConversationInv'
  BY DirectGoesOn, FirstStep DEF ConversationInv

LEMMA DirectSafe == ASSUME ConversationInv PROVE D!DirectAgrees /\ D!TypeOK
<1>a. DirectInv /\ FirstInv
  BY DEF ConversationInv
<1>1. D!MembersStay
  BY <1>a DEF DirectInv, AnswerInv, Whole, D!MembersStay
<1>2. D!OnePerPair
  <2>1. SUFFICES ASSUME NEW q \in DirectRequests, NEW r \in DirectRequests,
                        answer[q] # D!None, answer[r] # D!None, D!Pair(q) = D!Pair(r)
                 PROVE  \/ answer[q] = answer[r] \/ D!Pair(r) \in doubled
                        \/ opening[r].by = opening[r].other /\ {answer[q], answer[r]} \cap handed # {}
    BY DEF D!OnePerPair
  <2>2. CASE answer[q] \in handed /\ opening[q].by = opening[q].other
    BY <2>1, <2>2 DEF D!Pair
  <2>3. CASE answer[r] \in handed /\ opening[r].by = opening[r].other
    BY <2>3
  <2>4. CASE /\ Whole(answer[q]) /\ D!Pair(answer[q]) = D!Pair(q)
             /\ Whole(answer[r]) /\ D!Pair(answer[r]) = D!Pair(r)
    BY <1>a, <2>1, <2>4 DEF DirectInv, SingleInv, AnswerInv
  <2>5. QED
    BY <1>a, <2>1, <2>2, <2>3, <2>4 DEF DirectInv, AnswerInv
<1>3. D!TypeOK
  BY <1>a DEF DirectInv, DirectTypes, D!TypeOK, D!ToSet
<1>4. D!OwnComesFirst
  BY <1>a DEF FirstInv, First, Whole, D!OwnComesFirst
<1>5. QED
  BY <1>1, <1>2, <1>3, <1>4 DEF D!DirectAgrees

-----------------------------------------------------------------------------
(* Scheduled messages. *)

\* Only due rows are claimed, and what a process has in hand is claimed.
ClaimInv ==
  /\ claimed \subseteq scheduled
  /\ \A m \in claimed: dueAt[m] <= now
  /\ \A w \in Processes: batch[w] \subseteq claimed

\* A row is in one batch at most, and no message yet while it is there.
BatchInv ==
  /\ \A v, w \in Processes: v # w => batch[v] \cap batch[w] = {}
  /\ \A w \in Processes: \A m \in batch[w]: messages[m] = 0

\* A row that is not claimed is no message, and none is two.
MessageInv ==
  /\ \A m \in Rows: messages[m] <= 1
  /\ \A m \in Rows: m \notin claimed => messages[m] = 0

ScheduleInv == M!TypeOK /\ ClaimInv /\ BatchInv /\ MessageInv /\ M!NoneForgotten

\* Nothing is scheduled at first.
LEMMA ScheduleInit ==
  ASSUME M!Init PROVE ScheduleInv
BY ServiceConstants DEF M!ScheduleAssumption, M!Init, ScheduleInv, M!TypeOK, ClaimInv, BatchInv, MessageInv, M!NoneForgotten

\* What a claim does, without the order and the limit of its rows: it takes
\* some due rows, for the batch of its process or for nobody.
LEMMA ClaimTakes ==
  ASSUME NEW w \in Processes, M!ClaimDueScheduledMessages(w)
  PROVE  \E claims \in SUBSET M!Due:
           /\ claimed' = claimed \cup claims
           /\ \/ batch' = [batch EXCEPT ![w] = claims] /\ UNCHANGED <<lost, stops>>
              \/ stops' = stops + 1 /\ lost' = lost \cup claims /\ UNCHANGED batch
           /\ UNCHANGED <<now, scheduled, dueAt, running, telling, messages, told>>
           /\ batch[w] = {}
BY DEF M!ClaimDueScheduledMessages, M!Free, M!Fails

\* Every step keeps the types.
LEMMA ScheduleTypeStep ==
  ASSUME ScheduleInv, [M!Next]_scheduleVars PROVE M!TypeOK'
<1> USE ServiceConstants DEF M!ScheduleAssumption, ScheduleInv, M!TypeOK, M!table, M!Fails
<1>1. CASE M!Tick
  BY <1>1 DEF M!Tick
<1>2. ASSUME NEW m \in Rows, M!Schedule(m) PROVE M!TypeOK'
  BY <1>2 DEF M!Schedule
<1>3. ASSUME NEW w \in Processes, M!ClaimDueScheduledMessages(w) PROVE M!TypeOK'
  BY <1>3, ClaimTakes DEF M!Due
<1>4. ASSUME NEW w \in Processes, NEW m \in Rows, M!CreateMessage(w, m) PROVE M!TypeOK'
  BY <1>4 DEF M!CreateMessage
<1>5. ASSUME NEW w \in Processes, M!Broadcast(w) \/ M!Stop(w) \/ M!End(w) PROVE M!TypeOK'
  BY <1>5 DEF M!Broadcast, M!Stop, M!End
<1>6. CASE UNCHANGED scheduleVars
  BY <1>6 DEF scheduleVars
<1>7. QED
  BY <1>1, <1>2, <1>3, <1>4, <1>5, <1>6 DEF M!Next

\* Rows leave a batch or enter it with the claim; time only goes on.
LEMMA ClaimStep ==
  ASSUME ScheduleInv, [M!Next]_scheduleVars PROVE ClaimInv'
<1> USE ServiceConstants DEF M!ScheduleAssumption, ScheduleInv, M!TypeOK, ClaimInv, M!table, M!Fails
<1>1. CASE M!Tick
  BY <1>1 DEF M!Tick
<1>2. ASSUME NEW m \in Rows, M!Schedule(m) PROVE ClaimInv'
  BY <1>2 DEF M!Schedule
<1>3. ASSUME NEW w \in Processes, M!ClaimDueScheduledMessages(w) PROVE ClaimInv'
  BY <1>3, ClaimTakes DEF M!Due
<1>4. ASSUME NEW w \in Processes, NEW m \in Rows, M!CreateMessage(w, m) PROVE ClaimInv'
  BY <1>4 DEF M!CreateMessage
<1>5. ASSUME NEW w \in Processes, M!Broadcast(w) \/ M!Stop(w) \/ M!End(w) PROVE ClaimInv'
  BY <1>5 DEF M!Broadcast, M!Stop, M!End
<1>6. CASE UNCHANGED scheduleVars
  BY <1>6 DEF scheduleVars
<1>7. QED
  BY <1>1, <1>2, <1>3, <1>4, <1>5, <1>6 DEF M!Next

\* A claim takes rows nobody claimed; a row leaves its batch before its message
\* is there.
LEMMA BatchStep ==
  ASSUME ScheduleInv, [M!Next]_scheduleVars PROVE BatchInv' /\ MessageInv'
<1> USE ServiceConstants DEF M!ScheduleAssumption, ScheduleInv, M!TypeOK, ClaimInv, BatchInv, MessageInv, M!table, M!Fails
<1>1. CASE M!Tick
  BY <1>1 DEF M!Tick
<1>2. ASSUME NEW m \in Rows, M!Schedule(m) PROVE BatchInv' /\ MessageInv'
  BY <1>2 DEF M!Schedule
<1>3. ASSUME NEW w \in Processes, M!ClaimDueScheduledMessages(w) PROVE BatchInv' /\ MessageInv'
  BY <1>3, ClaimTakes DEF M!Due
<1>4. ASSUME NEW w \in Processes, NEW m \in Rows, M!CreateMessage(w, m)
      PROVE  BatchInv' /\ MessageInv'
  <2>1. messages[m] = 0 /\ m \in claimed /\ \A v \in Processes \ {w}: m \notin batch[v]
    BY <1>4 DEF M!CreateMessage
  <2>2. messages' = messages \/ messages' = [messages EXCEPT ![m] = 1]
    BY <1>4, <2>1 DEF M!CreateMessage
  <2>3. batch' = [batch EXCEPT ![w] = @ \ {m}] /\ claimed' = claimed
    BY <1>4 DEF M!CreateMessage
  <2>4. QED
    BY <2>1, <2>2, <2>3
<1>5. ASSUME NEW w \in Processes, M!Broadcast(w) \/ M!Stop(w) \/ M!End(w)
      PROVE  BatchInv' /\ MessageInv'
  BY <1>5 DEF M!Broadcast, M!Stop, M!End
<1>6. CASE UNCHANGED scheduleVars
  BY <1>6 DEF scheduleVars
<1>7. QED
  BY <1>1, <1>2, <1>3, <1>4, <1>5, <1>6 DEF M!Next

\* A row leaves a batch as a message or as a lost one.
LEMMA ForgottenStep ==
  ASSUME ScheduleInv, [M!Next]_scheduleVars PROVE M!NoneForgotten'
<1> USE ServiceConstants DEF M!ScheduleAssumption, ScheduleInv, M!TypeOK, ClaimInv, BatchInv, M!NoneForgotten, M!table, M!Fails
<1>1. CASE M!Tick
  BY <1>1 DEF M!Tick
<1>2. ASSUME NEW m \in Rows, M!Schedule(m) PROVE M!NoneForgotten'
  BY <1>2 DEF M!Schedule
<1>3. ASSUME NEW w \in Processes, M!ClaimDueScheduledMessages(w) PROVE M!NoneForgotten'
  BY <1>3, ClaimTakes DEF M!Due
<1>4. ASSUME NEW w \in Processes, NEW m \in Rows, M!CreateMessage(w, m) PROVE M!NoneForgotten'
  <2>1. messages[m] = 0 /\ m \in claimed
    BY <1>4 DEF M!CreateMessage
  <2>2. \/ messages' = [messages EXCEPT ![m] = 1] /\ lost' = lost
        \/ messages' = messages /\ lost' = lost \cup {m}
    BY <1>4, <2>1 DEF M!CreateMessage
  <2>3. batch' = [batch EXCEPT ![w] = @ \ {m}] /\ claimed' = claimed
    BY <1>4 DEF M!CreateMessage
  <2>4. QED
    BY <2>1, <2>2, <2>3
<1>5. ASSUME NEW w \in Processes, M!Broadcast(w) \/ M!Stop(w) PROVE M!NoneForgotten'
  BY <1>5 DEF M!Broadcast, M!Stop
<1>6. ASSUME NEW w \in Processes, M!End(w) PROVE M!NoneForgotten'
  BY <1>6 DEF M!End
<1>7. CASE UNCHANGED scheduleVars
  BY <1>7 DEF scheduleVars
<1>8. QED
  BY <1>1, <1>2, <1>3, <1>4, <1>5, <1>6, <1>7 DEF M!Next

LEMMA ScheduleStep == ASSUME ScheduleInv, [M!Next]_scheduleVars PROVE ScheduleInv'
  BY ScheduleTypeStep, ClaimStep, BatchStep, ForgottenStep DEF ScheduleInv

LEMMA ScheduleSafe == ASSUME ScheduleInv PROVE M!ScheduledAgrees /\ M!TypeOK
<1>1. ASSUME NEW m \in Rows
      PROVE  messages[m] <= 1 /\ (messages[m] > 0 => m \in scheduled /\ dueAt[m] <= now)
  BY DEF ScheduleInv, M!TypeOK, ClaimInv, MessageInv
<1>2. QED
  BY <1>1 DEF ScheduleInv, M!ScheduledAgrees, M!SentOnce

-----------------------------------------------------------------------------
(* The search index.  Whatever the consumers and starting processes write, *)
(* the document differs from the row only while a handler that changed the *)
(* row has not come to it, or after a call that was outdated.              *)

SearchWrite == [kind: {"nothing", "put", "remove", "over", "fresh"}, text: 0..row]

SearchTypes ==
  /\ row \in Nat /\ deleted \in BOOLEAN /\ document \in 0..row
  /\ writes \in [SearchRequests -> SearchWrite]
  /\ processed \subseteq S!Topics
  /\ consumers \in [S!Topics -> SearchWrite] /\ starting \in SearchWrite
  /\ errors \in 0..SearchFailures /\ outdated \in BOOLEAN

DocumentInv ==
  \/ outdated \/ document = IF deleted THEN 0 ELSE row
  \/ \E r \in SearchRequests : writes[r].kind \in {"put", "remove"}

SearchInv == SearchTypes /\ DocumentInv

\* A call about the document makes it agree, or is outdated.
LEMMA ApplyAgrees ==
  ASSUME SearchTypes, NEW do \in SearchWrite, S!Apply(do), UNCHANGED <<row, deleted>>
  PROVE  /\ document' \in 0..row' /\ outdated' \in BOOLEAN
         /\ outdated' \/ document' = IF deleted' THEN 0 ELSE row'
<1>1. document' = do.text /\ outdated' = ~S!Current(do) /\ do.text \in 0..row
  BY DEF S!Apply, SearchWrite
<1>2. S!Current(do) => do.text = IF deleted THEN 0 ELSE row
  BY DEF S!Current, S!Remove, S!Put
<1>3. QED
  BY <1>1, <1>2

\* A text of the row stays one when the row grows.
LEMMA SearchGrows ==
  ASSUME SearchTypes, row' \in Nat, row <= row'
  PROVE  /\ SearchWrite \subseteq SearchWrite' /\ document \in 0..row'
         /\ \A n \in 0..row' : S!Put(n) \in SearchWrite'
         /\ S!Remove \in SearchWrite' /\ S!Over \in SearchWrite' /\ S!Nothing \in SearchWrite'
         /\ writes \in [SearchRequests -> SearchWrite'] /\ consumers \in [S!Topics -> SearchWrite']
<1>1. 0..row \subseteq 0..row' /\ 0 \in 0..row'
  BY DEF SearchTypes
<1>2. SearchWrite \subseteq SearchWrite'
  BY <1>1 DEF SearchWrite
<1>3. /\ \A n \in 0..row' : S!Put(n) \in SearchWrite'
      /\ S!Remove \in SearchWrite' /\ S!Over \in SearchWrite' /\ S!Nothing \in SearchWrite'
  BY <1>1 DEF SearchWrite, S!Put, S!Remove, S!Over, S!Nothing
<1>4. QED
  BY <1>1, <1>2, <1>3 DEF SearchTypes

\* The handlers write the row, and are to write the document.
LEMMA HandlerStep ==
  ASSUME SearchInv, NEW r \in SearchRequests, S!SendMessage(r) \/ S!EditMessage(r) \/ S!DeleteMessage(r)
  PROVE  SearchInv'
<1>1. row' \in Nat /\ row <= row' /\ deleted' \in BOOLEAN
  <2>0. row \in Nat /\ deleted \in BOOLEAN
    BY DEF SearchInv, SearchTypes
  <2>1. CASE S!SendMessage(r)
    BY <2>0, <2>1 DEF S!SendMessage
  <2>2. CASE S!EditMessage(r)
    BY <2>0, <2>2 DEF S!EditMessage
  <2>3. CASE S!DeleteMessage(r)
    BY <2>0, <2>3 DEF S!DeleteMessage
  <2>4. QED
    BY <2>1, <2>2, <2>3
<1>2. /\ \E do \in {S!Put(row'), S!Remove} : writes' = [writes EXCEPT ![r] = do]
      /\ UNCHANGED <<document, outdated, processed, consumers, starting, errors>>
  BY DEF S!SendMessage, S!EditMessage, S!DeleteMessage, S!index
<1>3. /\ SearchWrite \subseteq SearchWrite' /\ document \in 0..row'
      /\ S!Put(row') \in SearchWrite' /\ S!Remove \in SearchWrite'
      /\ writes \in [SearchRequests -> SearchWrite'] /\ consumers \in [S!Topics -> SearchWrite']
  BY <1>1, SearchGrows DEF SearchInv
<1>4. PICK do \in {S!Put(row'), S!Remove} : writes' = [writes EXCEPT ![r] = do]
  BY <1>2
<1>5. writes' \in [SearchRequests -> SearchWrite'] /\ writes'[r] = do
  BY <1>3, <1>4
<1>6. SearchTypes'
  BY <1>1, <1>2, <1>3, <1>5 DEF SearchInv, SearchTypes
<1>7. DocumentInv'
  BY <1>5 DEF DocumentInv, S!Put, S!Remove
<1>8. QED
  BY <1>6, <1>7 DEF SearchInv

LEMMA IndexStep ==
  ASSUME SearchInv, NEW r \in SearchRequests, S!Index(r)
  PROVE  SearchInv'
<1>0. /\ writes' = [writes EXCEPT ![r] = S!Over] /\ S!Over \in SearchWrite /\ writes[r] \in SearchWrite
      /\ UNCHANGED <<row, deleted, events, processed, consumers, starting>>
      /\ SearchTypes /\ row \in Nat
  BY DEF S!Index, SearchInv, SearchTypes, S!Over, SearchWrite
<1>1. /\ document' \in 0..row' /\ outdated' \in BOOLEAN /\ errors' \in 0..SearchFailures
      /\ outdated' \/ document' = IF deleted' THEN 0 ELSE row'
  <2>1. CASE S!Apply(writes[r]) /\ UNCHANGED errors
    BY <1>0, <2>1, ApplyAgrees DEF SearchTypes
  <2>2. CASE S!Fails /\ outdated' = TRUE /\ UNCHANGED document
    BY <1>0, <2>2, ServiceConstants DEF S!Fails, SearchTypes, S!SearchAssumption
  <2>3. QED
    BY <2>1, <2>2 DEF S!Index
<1>2. SearchWrite' = SearchWrite /\ writes' \in [SearchRequests -> SearchWrite]
  BY <1>0 DEF SearchWrite, SearchTypes
<1>3. QED
  BY <1>0, <1>1, <1>2 DEF SearchInv, SearchTypes, DocumentInv

LEMMA ConsumerStep ==
  ASSUME SearchInv, NEW t \in S!Topics, S!Skip(t) \/ S!Begin(t) \/ S!Finish(t) \/ S!Forget(t)
  PROVE  SearchInv'
<1>0. /\ UNCHANGED <<row, deleted, writes, starting>> /\ SearchTypes /\ row \in Nat
      /\ consumers[t] \in SearchWrite
  BY DEF S!Skip, S!Begin, S!Finish, S!Forget, SearchInv, SearchTypes
<1>1. /\ S!Nothing \in SearchWrite /\ S!Put(row) \in SearchWrite /\ S!Remove \in SearchWrite
      /\ SearchWrite' = SearchWrite
  BY <1>0 DEF S!Nothing, S!Put, S!Remove, SearchWrite
<1>2. consumers' \in [S!Topics -> SearchWrite]
  BY <1>0, <1>1 DEF S!Skip, S!Begin, S!Finish, S!Forget, SearchTypes
<1>3. /\ processed' \subseteq S!Topics /\ errors' \in 0..SearchFailures
  BY <1>0, ServiceConstants DEF S!Skip, S!Begin, S!Finish, S!Forget, S!Fails, SearchTypes, S!SearchAssumption
<1>4. CASE UNCHANGED <<document, outdated>>
  BY <1>0, <1>1, <1>2, <1>3, <1>4 DEF SearchInv, SearchTypes, DocumentInv
<1>5. CASE S!Apply(consumers[t])
  <2>1. /\ document' \in 0..row' /\ outdated' \in BOOLEAN
        /\ outdated' \/ document' = IF deleted' THEN 0 ELSE row'
    BY <1>0, <1>5, ApplyAgrees
  <2>2. QED
    BY <1>0, <1>1, <1>2, <1>3, <2>1 DEF SearchInv, SearchTypes, DocumentInv
<1>6. QED
  BY <1>4, <1>5 DEF S!Skip, S!Begin, S!Finish, S!Forget, S!index

LEMMA StartingStep == ASSUME SearchInv, S!Load \/ S!Reindex PROVE SearchInv'
<1>0. /\ UNCHANGED <<row, deleted, writes, events, processed, consumers>> /\ SearchTypes /\ row \in Nat
      /\ starting \in SearchWrite
  BY DEF S!Load, S!Reindex, SearchInv, SearchTypes
<1>1. SearchWrite' = SearchWrite /\ starting' \in SearchWrite /\ errors' \in 0..SearchFailures
  BY <1>0, ServiceConstants DEF S!Load, S!Reindex, S!Nothing, S!Put, S!Fails, SearchWrite, SearchTypes, S!SearchAssumption
<1>2. CASE UNCHANGED <<document, outdated>>
  BY <1>0, <1>1, <1>2 DEF SearchInv, SearchTypes, DocumentInv
<1>3. CASE S!Apply(starting)
  <2>1. /\ document' \in 0..row' /\ outdated' \in BOOLEAN
        /\ outdated' \/ document' = IF deleted' THEN 0 ELSE row'
    BY <1>0, <1>3, ApplyAgrees
  <2>2. QED
    BY <1>0, <1>1, <2>1 DEF SearchInv, SearchTypes, DocumentInv
<1>4. QED
  BY <1>2, <1>3 DEF S!Load, S!Reindex, S!index

LEMMA SearchInit == ASSUME S!Init PROVE SearchInv
<1>1. row = 0 /\ S!Fresh \in SearchWrite /\ S!Nothing \in SearchWrite /\ 0 \in 0..SearchFailures
  BY ServiceConstants DEF S!Init, S!Fresh, S!Nothing, SearchWrite, S!SearchAssumption
<1>2. DocumentInv /\ document \in 0..row
  BY <1>1 DEF S!Init, DocumentInv
<1>3. row \in Nat /\ errors \in 0..SearchFailures /\ processed \subseteq S!Topics
      /\ deleted \in BOOLEAN /\ outdated \in BOOLEAN
  <2>1. deleted \in BOOLEAN
    BY DEF S!Init
  <2>2. outdated \in BOOLEAN
    BY DEF S!Init
  <2>3. row \in Nat /\ errors \in 0..SearchFailures /\ processed \subseteq S!Topics
    BY <1>1 DEF S!Init
  <2>4. QED
    BY <2>1, <2>2, <2>3
<1>4. /\ writes \in [SearchRequests -> SearchWrite] /\ consumers \in [S!Topics -> SearchWrite]
      /\ starting \in SearchWrite
  BY <1>1 DEF S!Init
<1>5. QED
  BY <1>2, <1>3, <1>4 DEF SearchInv, SearchTypes

LEMMA SearchStep == ASSUME SearchInv, [S!Next]_searchVars PROVE SearchInv'
<1>1. CASE UNCHANGED searchVars
  BY <1>1 DEF searchVars, SearchInv, SearchTypes, SearchWrite, DocumentInv
<1>2. QED
  BY <1>1, HandlerStep, IndexStep, ConsumerStep, StartingStep DEF S!Next

LEMMA SearchSafe == ASSUME SearchInv PROVE S!SearchAgrees /\ S!TypeOK
  BY DEF SearchInv, SearchTypes, DocumentInv, S!SearchAgrees, S!Settled, S!TypeOK

-----------------------------------------------------------------------------
(* Webhooks.  A worker keeps the webhooks it has to come to, and the one it *)
(* is at; the receiver of that one has not got the event unless another    *)
(* worker was at it too, an answer or an entry of the ledger was lost, or  *)
(* the webhook is gone.                                                    *)

WebhookWorker ==
  [step: {"idle", "check", "send", "mark"}, todo: SUBSET Webhooks, listed: SUBSET Webhooks,
   at: SUBSET Webhooks, attempt: Nat, failed: SUBSET Webhooks]

WebhookTypes ==
  /\ webhooks \subseteq Webhooks /\ gone \subseteq Webhooks /\ ledger \subseteq Webhooks
  /\ rejected \subseteq Webhooks /\ promised \subseteq Webhooks /\ done \in BOOLEAN
  /\ workers \in [Workers -> WebhookWorker] /\ received \in [Webhooks -> Nat]

\* what a worker has in hand
InHand(q) ==
  /\ q.step \in {"idle", "check"} => q.at = {} /\ q.attempt = 0
  /\ q.step \in {"send", "mark"} => \E t \in q.todo : q.at = {t}
  /\ q.attempt < MaxAttempts /\ q.todo \subseteq q.listed /\ q.listed \subseteq webhooks \cup gone
  /\ \A t \in q.at : q.step = "mark" => received[t] > 0 \/ t \in rejected
  /\ \A t \in q.listed \cap webhooks : t \in q.todo \cup q.failed \cup ledger

LedgerInv ==
  /\ ledger \subseteq webhooks /\ webhooks \cap gone = {} /\ promised \subseteq ledger
  /\ \A t \in ledger : received[t] > 0 \/ t \in rejected

\* the receiver of t has not got the event twice, and who is at it knows
OnceFor(t) ==
  /\ \A v, w \in Workers : t \in workers[v].at /\ t \in workers[w].at => v = w
  /\ \A w \in Workers : t \in workers[w].at /\ workers[w].step = "send" => received[t] = 0
  /\ received[t] <= 1
  /\ received[t] = 1 => t \in ledger \/ \E w \in Workers : workers[w].step = "mark" /\ t \in workers[w].at

HandsInv == \A w \in Workers : InHand(workers[w])
OnceInv == \A t \in Webhooks : t \in again \cup gone \/ OnceFor(t)

WebhookInv == WebhookTypes /\ HandsInv /\ LedgerInv /\ OnceInv

\* What a worker's step leaves as it is.
WorkerAct(w) ==
  \/ W!Begin(w) \/ W!Return(w) \/ W!Crash(w)
  \/ \E t \in Webhooks : W!Check(w, t) \/ W!Refuse(w, t) \/ W!Post(w, t) \/ W!Mark(w, t)

LEMMA IdleHand ==
  /\ W!Idle \in WebhookWorker /\ W!Idle.step = "idle" /\ W!Idle.at = {} /\ W!Idle.attempt = 0
  /\ W!Idle.todo = {} /\ W!Idle.listed = {} /\ W!Idle.failed = {}
  BY DEF W!Idle, WebhookWorker

LEMMA LeaveDoes ==
  ASSUME WebhookTypes, NEW w \in Workers, NEW t \in Webhooks, NEW error, W!Leave(w, t, error)
  PROVE  /\ workers' \in [Workers -> WebhookWorker]
         /\ \A v \in Workers : v # w => workers'[v] = workers[v]
         /\ workers'[w].step = "check" /\ workers'[w].at = {} /\ workers'[w].attempt = 0
         /\ workers'[w].todo = workers[w].todo \ {t} /\ workers'[w].listed = workers[w].listed
         /\ workers'[w].failed = IF error THEN workers[w].failed \cup {t} ELSE workers[w].failed
<1> DEFINE q == workers[w]
           n == [step |-> "check", todo |-> q.todo \ {t}, listed |-> q.listed, at |-> {}, attempt |-> 0,
                 failed |-> IF error THEN q.failed \cup {t} ELSE q.failed]
<1>1. workers \in [Workers -> WebhookWorker] /\ q \in WebhookWorker
  BY DEF WebhookTypes
<1>2. workers' = [workers EXCEPT ![w] = n]
  BY <1>1 DEF W!Leave, WebhookWorker
<1>3. n \in WebhookWorker
  BY <1>1 DEF WebhookWorker
<1>4. QED
  BY <1>1, <1>2, <1>3

\* A hand keeps to be what it is when only others change.
LEMMA HandStays ==
  ASSUME NEW q \in WebhookWorker, InHand(q), WebhookTypes, LedgerInv,
         webhooks' \cup gone' = webhooks \cup gone, webhooks' \subseteq webhooks,
         ledger \cap webhooks' \subseteq ledger', rejected \subseteq rejected',
         \A t \in Webhooks : received[t] > 0 => received'[t] > 0
  PROVE  InHand(q)'
<1>1. q.at \subseteq Webhooks
  BY DEF WebhookWorker
<1>2. QED
  BY <1>1 DEF InHand

\* A worker that leaves a webhook has entered it, failed, or finds it gone.
LEMMA HandLeaves ==
  ASSUME WebhookTypes, LedgerInv, NEW w \in Workers, NEW t \in Webhooks, NEW error,
         InHand(workers[w]), W!Leave(w, t, error), error \/ t \in ledger' \/ t \notin webhooks,
         UNCHANGED <<webhooks, gone>>, ledger \subseteq ledger'
  PROVE  InHand(workers[w])'
<1>1. /\ workers'[w].step = "check" /\ workers'[w].at = {} /\ workers'[w].attempt = 0
      /\ workers'[w].todo = workers[w].todo \ {t} /\ workers'[w].listed = workers[w].listed
      /\ workers'[w].failed = IF error THEN workers[w].failed \cup {t} ELSE workers[w].failed
  BY LeaveDoes
<1>2. MaxAttempts \in Nat /\ 0 < MaxAttempts
  BY ServiceConstants DEF W!WebhookAssumption
<1>3. \A h \in workers'[w].listed \cap webhooks' :
        h \in workers'[w].todo \cup workers'[w].failed \cup ledger'
  BY <1>1 DEF InHand
<1>4. workers'[w].todo \subseteq workers'[w].listed /\ workers'[w].listed \subseteq webhooks' \cup gone'
  BY <1>1 DEF InHand
<1>5. QED
  BY <1>1, <1>2, <1>3, <1>4 DEF InHand

LEMMA OnceLeaves ==
  ASSUME WebhookTypes, OnceInv, NEW w \in Workers, NEW t \in Webhooks, NEW error,
         W!Leave(w, t, error), UNCHANGED <<received, gone>>, ledger \subseteq ledger', again \subseteq again',
         workers[w].step # "mark" \/ (workers[w].at = {t} /\ t \in ledger' \cup again' \cup gone)
  PROVE  OnceInv'
<1>1. /\ \A v \in Workers : v # w => workers'[v] = workers[v]
      /\ workers'[w].at = {} /\ workers'[w].step = "check"
  BY LeaveDoes
<1>2. SUFFICES ASSUME NEW h \in Webhooks, h \notin again' \cup gone' PROVE OnceFor(h)'
  BY DEF OnceInv
<1>3. OnceFor(h)
  BY <1>2 DEF OnceInv
<1>4. /\ \A u, v \in Workers : h \in workers'[u].at /\ h \in workers'[v].at => u = v
      /\ \A v \in Workers : h \in workers'[v].at /\ workers'[v].step = "send" => received'[h] = 0
      /\ received'[h] <= 1
  BY <1>1, <1>3 DEF OnceFor
<1>5. received'[h] = 1 => h \in ledger' \/ \E v \in Workers : workers'[v].step = "mark" /\ h \in workers'[v].at
  BY <1>1, <1>2, <1>3 DEF OnceFor
<1>6. QED
  BY <1>4, <1>5 DEF OnceFor

\* The other workers' hands.
LEMMA OtherHands ==
  ASSUME WebhookTypes, LedgerInv, HandsInv, NEW w \in Workers,
         \A v \in Workers : v # w => workers'[v] = workers[v],
         UNCHANGED <<webhooks, gone>>, ledger \subseteq ledger', rejected \subseteq rejected',
         \A t \in Webhooks : received[t] > 0 => received'[t] > 0,
         InHand(workers[w])'
  PROVE  HandsInv'
<1>1. ASSUME NEW v \in Workers, v # w PROVE InHand(workers[v])'
  <2>1. workers[v] \in WebhookWorker /\ InHand(workers[v]) /\ workers'[v] = workers[v]
    BY <1>1 DEF WebhookTypes, HandsInv
  <2> DEFINE q == workers[v]
  <2>2. InHand(workers'[v])
    BY <2>1
  <2>3. \A t \in workers'[v].at : workers'[v].step = "mark" => received'[t] > 0 \/ t \in rejected'
    <3>1. workers[v].at \subseteq Webhooks
      BY <2>1 DEF WebhookWorker
    <3>2. QED
      BY <2>1, <3>1 DEF InHand
  <2>4. QED
    BY <2>1, <2>3 DEF InHand
<1>2. QED
  BY <1>1 DEF HandsInv

\* The webhooks of the workspace.
LEMMA WorkspaceStep ==
  ASSUME WebhookInv, NEW t \in Webhooks, W!Make(t) \/ W!Remove(t)
  PROVE  WebhookInv'
<1>0. /\ UNCHANGED <<workers, done, received, rejected, again>> /\ gone \subseteq gone'
      /\ WebhookTypes /\ LedgerInv /\ HandsInv /\ OnceInv
  BY DEF W!Make, W!Remove, W!receivers, WebhookInv
<1>1. CASE W!Make(t)
  <2>1. /\ t \notin webhooks \cup gone /\ webhooks' = webhooks \cup {t}
        /\ UNCHANGED <<gone, ledger, promised>>
    BY <1>1 DEF W!Make
  <2>2. WebhookTypes' /\ LedgerInv' /\ OnceInv'
    BY <1>0, <2>1 DEF WebhookTypes, LedgerInv, OnceInv, OnceFor
  <2>3. HandsInv'
    BY <1>0, <2>1 DEF HandsInv, InHand
  <2>4. QED
    BY <2>2, <2>3 DEF WebhookInv
<1>2. CASE W!Remove(t)
  <2>1. /\ webhooks' = webhooks \ {t} /\ gone' = gone \cup {t} /\ ledger' = ledger \ {t}
        /\ promised' = promised \ {t} /\ t \in webhooks
    BY <1>2 DEF W!Remove
  <2>2. WebhookTypes' /\ LedgerInv'
    BY <1>0, <2>1 DEF WebhookTypes, LedgerInv
  <2>3. OnceInv'
    <3>1. ASSUME NEW h \in Webhooks, h \notin again \cup gone' PROVE OnceFor(h)'
      <4>1. OnceFor(h) /\ (h \in ledger => h \in ledger')
        BY <2>1, <3>1, <1>0 DEF OnceInv
      <4>2. QED
        BY <1>0, <4>1 DEF OnceFor
    <3>2. QED
      BY <1>0, <3>1 DEF OnceInv
  <2>4. HandsInv'
    BY <1>0, <2>1 DEF HandsInv, InHand
  <2>5. QED
    BY <2>2, <2>3, <2>4 DEF WebhookInv
<1>3. QED
  BY <1>1, <1>2

\* An event is taken, and given back: without errors every webhook it was
\* listed for and that is there has its entry.
LEMMA EventStep ==
  ASSUME WebhookInv, NEW w \in Workers, W!Begin(w) \/ W!Return(w) \/ W!Crash(w)
  PROVE  WebhookInv'
<1>0. /\ UNCHANGED <<webhooks, gone, ledger, received, rejected>>
      /\ WebhookTypes /\ LedgerInv /\ HandsInv /\ OnceInv /\ workers \in [Workers -> WebhookWorker]
      /\ InHand(workers[w])
  BY DEF W!Begin, W!Return, W!Crash, W!receivers, W!workspace, WebhookInv, HandsInv, WebhookTypes
<1> DEFINE begun == [W!Idle EXCEPT !.step = "check", !.todo = webhooks, !.listed = webhooks]
<1>1. /\ begun \in WebhookWorker /\ begun.step = "check" /\ begun.at = {} /\ begun.attempt = 0
      /\ begun.todo = webhooks /\ begun.listed = webhooks
  BY <1>0 DEF W!Idle, WebhookWorker, WebhookTypes
<1> HIDE DEF begun
<1>2. PICK q \in {begun, W!Idle} : workers' = [workers EXCEPT ![w] = q]
  BY DEF W!Begin, W!Return, W!Crash, begun
<1>3. /\ workers' \in [Workers -> WebhookWorker] /\ workers'[w] = q
      /\ \A v \in Workers : v # w => workers'[v] = workers[v]
      /\ q.at = {} /\ q.attempt = 0 /\ q.step \in {"idle", "check"}
  BY <1>0, <1>1, <1>2, IdleHand
<1>4. HandsInv'
  <2>1. MaxAttempts \in Nat /\ 0 < MaxAttempts
    BY ServiceConstants DEF W!WebhookAssumption
  <2>2. q.todo \subseteq q.listed /\ q.listed \subseteq webhooks /\ q.listed = q.todo
    BY <1>1, <1>2, IdleHand
  <2>3. InHand(workers[w])'
    BY <1>0, <1>3, <2>1, <2>2 DEF InHand
  <2>4. QED
    BY <1>0, <1>3, <2>3, OtherHands
<1>5. /\ done' \in BOOLEAN /\ promised' \subseteq ledger /\ again \subseteq again'
      /\ workers[w].step = "mark" => workers[w].at \subseteq again'
  <2>1. CASE W!Begin(w)
    BY <1>0, <2>1, IdleHand DEF W!Begin, WebhookTypes, LedgerInv
  <2>2. CASE W!Return(w)
    <3>1. /\ workers[w].step = "check" /\ workers[w].todo = {} /\ again' = again
          /\ \/ workers[w].failed = {} /\ done' = TRUE /\ promised' = promised \cup (workers[w].listed \cap webhooks)
             \/ UNCHANGED <<done, promised>>
      BY <2>2 DEF W!Return, W!Passed
    <3>2. workers[w].failed = {} => workers[w].listed \cap webhooks \subseteq ledger
      BY <1>0, <3>1 DEF InHand
    <3>3. done' \in BOOLEAN
      BY <1>0, <3>1 DEF WebhookTypes
    <3>4. promised' \subseteq ledger
      BY <1>0, <3>1, <3>2 DEF LedgerInv
    <3>5. QED
      BY <3>1, <3>3, <3>4
  <2>3. CASE W!Crash(w)
    BY <1>0, <2>3 DEF W!Crash, WebhookTypes, LedgerInv
  <2>4. QED
    BY <2>1, <2>2, <2>3
<1>6. WebhookTypes' /\ LedgerInv'
  BY <1>0, <1>3, <1>5 DEF WebhookTypes, LedgerInv
<1>7. OnceInv'
  <2>1. SUFFICES ASSUME NEW h \in Webhooks, h \notin again' \cup gone' PROVE OnceFor(h)'
    BY DEF OnceInv
  <2>2. OnceFor(h)
    BY <1>0, <1>5, <2>1 DEF OnceInv
  <2>3. /\ \A u, v \in Workers : h \in workers'[u].at /\ h \in workers'[v].at => u = v
        /\ \A v \in Workers : h \in workers'[v].at /\ workers'[v].step = "send" => received'[h] = 0
        /\ received'[h] <= 1
    BY <1>0, <1>3, <2>2 DEF OnceFor
  <2>4. received'[h] = 1 => h \in ledger' \/ \E v \in Workers : workers'[v].step = "mark" /\ h \in workers'[v].at
    BY <1>0, <1>3, <1>5, <2>1, <2>2 DEF OnceFor
  <2>5. QED
    BY <2>3, <2>4 DEF OnceFor
<1>8. QED
  BY <1>4, <1>6, <1>7 DEF WebhookInv

\* A worker looks into the ledger: if the receiver has the event, it is in
\* there, or another worker is about to enter it.
LEMMA CheckStep ==
  ASSUME WebhookInv, NEW w \in Workers, NEW t \in Webhooks, W!Check(w, t)
  PROVE  WebhookInv'
<1>0. /\ UNCHANGED <<webhooks, gone, ledger, done, received, rejected, promised>> /\ again \subseteq again'
      /\ WebhookTypes /\ LedgerInv /\ HandsInv /\ OnceInv /\ workers \in [Workers -> WebhookWorker]
      /\ InHand(workers[w]) /\ workers[w].step = "check" /\ t \in workers[w].todo
      /\ workers[w] \in WebhookWorker
  BY DEF W!Check, W!Passed, W!receivers, W!workspace, WebhookInv, HandsInv, WebhookTypes
<1>1. CASE \E error \in BOOLEAN : W!Leave(w, t, error) /\ (error \/ t \in ledger)
  <2>1. PICK error \in BOOLEAN : W!Leave(w, t, error) /\ (error \/ t \in ledger)
    BY <1>1
  <2>2. /\ workers' \in [Workers -> WebhookWorker] /\ \A v \in Workers : v # w => workers'[v] = workers[v]
    BY <1>0, <2>1, LeaveDoes
  <2>3. InHand(workers[w])'
    BY <1>0, <2>1, HandLeaves
  <2>4. HandsInv'
    BY <1>0, <2>2, <2>3, OtherHands
  <2>5. OnceInv'
    BY <1>0, <2>1, OnceLeaves
  <2>6. WebhookTypes' /\ LedgerInv'
    BY <1>0, <2>2 DEF WebhookTypes, LedgerInv
  <2>7. QED
    BY <2>4, <2>5, <2>6 DEF WebhookInv
<1>2. CASE /\ t \notin ledger /\ workers' = [workers EXCEPT ![w].step = "send", ![w].at = {t}]
           /\ again' = IF \E v \in Workers \ {w} : t \in workers[v].at THEN again \cup {t} ELSE again
  <2>1. /\ workers' \in [Workers -> WebhookWorker] /\ \A v \in Workers : v # w => workers'[v] = workers[v]
        /\ workers'[w].step = "send" /\ workers'[w].at = {t} /\ workers'[w].todo = workers[w].todo
        /\ workers'[w].listed = workers[w].listed /\ workers'[w].failed = workers[w].failed
        /\ workers'[w].attempt = workers[w].attempt
    BY <1>0, <1>2 DEF WebhookWorker
  <2>2. HandsInv'
    <3>1. InHand(workers[w])'
      BY <1>0, <2>1 DEF InHand
    <3>2. QED
      BY <1>0, <2>1, <3>1, OtherHands
  <2>3. OnceInv'
    <3>1. SUFFICES ASSUME NEW h \in Webhooks, h \notin again' \cup gone' PROVE OnceFor(h)'
      BY DEF OnceInv
    <3>2. OnceFor(h)
      BY <1>0, <3>1 DEF OnceInv
    <3>3. CASE h # t
      <4>1. \A v \in Workers : h \in workers'[v].at => v # w
        BY <2>1, <3>3
      <4>2. h \notin workers[w].at
        BY <1>0 DEF InHand
      <4>3. QED
        BY <1>0, <2>1, <3>2, <4>1, <4>2 DEF OnceFor
    <3>4. CASE h = t
      <4>1. \A v \in Workers \ {w} : t \notin workers[v].at
        BY <1>2, <3>1, <3>4
      <4>2. t \notin workers[w].at
        BY <1>0 DEF InHand
      <4>3. received[t] = 0
        BY <1>0, <1>2, <3>2, <3>4, <4>1, <4>2 DEF OnceFor, WebhookTypes
      <4>4. QED
        BY <1>0, <2>1, <3>4, <4>1, <4>3 DEF OnceFor
    <3>5. QED
      BY <3>3, <3>4
  <2>4. WebhookTypes' /\ LedgerInv'
    BY <1>0, <2>1 DEF WebhookTypes, LedgerInv
  <2>5. QED
    BY <2>2, <2>3, <2>4 DEF WebhookInv
<1>3. QED
  BY <1>1, <1>2 DEF W!Check

LEMMA RefuseStep ==
  ASSUME WebhookInv, NEW w \in Workers, NEW t \in Webhooks, W!Refuse(w, t)
  PROVE  WebhookInv'
<1>0. /\ UNCHANGED <<webhooks, gone, ledger, done, received, rejected, promised, again>>
      /\ WebhookTypes /\ LedgerInv /\ HandsInv /\ OnceInv /\ InHand(workers[w]) /\ workers[w].step = "send"
      /\ W!Leave(w, t, TRUE)
  BY DEF W!Refuse, W!receivers, W!workspace, WebhookInv, HandsInv
<1>1. /\ workers' \in [Workers -> WebhookWorker] /\ \A v \in Workers : v # w => workers'[v] = workers[v]
  BY <1>0, LeaveDoes
<1>2. InHand(workers[w])'
  BY <1>0, HandLeaves
<1>3. HandsInv'
  BY <1>0, <1>1, <1>2, OtherHands
<1>4. OnceInv'
  BY <1>0, OnceLeaves
<1>5. WebhookTypes' /\ LedgerInv'
  BY <1>0, <1>1 DEF WebhookTypes, LedgerInv
<1>6. QED
  BY <1>3, <1>4, <1>5 DEF WebhookInv

LEMMA PostStep ==
  ASSUME WebhookInv, NEW w \in Workers, NEW t \in Webhooks, W!Post(w, t)
  PROVE  WebhookInv'
<1>0. /\ UNCHANGED <<webhooks, gone, ledger, done, promised>>
      /\ WebhookTypes /\ LedgerInv /\ HandsInv /\ OnceInv /\ workers \in [Workers -> WebhookWorker]
      /\ InHand(workers[w]) /\ workers[w].step = "send" /\ t \in workers[w].at
      /\ workers[w] \in WebhookWorker /\ received \in [Webhooks -> Nat]
  BY DEF W!Post, W!workspace, WebhookInv, HandsInv, WebhookTypes
<1>1. workers[w].at = {t} /\ t \in workers[w].todo
  BY <1>0 DEF InHand
<1>2. /\ received' = received \/ received' = [received EXCEPT ![t] = @ + 1]
      /\ rejected \subseteq rejected' /\ rejected' \subseteq rejected \cup {t} /\ again \subseteq again'
  BY DEF W!Post
<1>3. /\ received' \in [Webhooks -> Nat] /\ \A h \in Webhooks : h # t => received'[h] = received[h]
      /\ \A h \in Webhooks : received[h] > 0 => received'[h] > 0
  BY <1>0, <1>2
<1>4. LedgerInv'
  <2>1. ledger \subseteq Webhooks
    BY <1>0 DEF WebhookTypes
  <2>2. QED
    BY <1>0, <1>2, <1>3, <2>1 DEF LedgerInv
\* an answer: the entry in the ledger is next
<1>5. CASE /\ workers' = [workers EXCEPT ![w].step = "mark"] /\ again' = again
           /\ \/ received' = [received EXCEPT ![t] = @ + 1] \/ (t \in rejected' /\ received' = received)
  <2>1. /\ workers' \in [Workers -> WebhookWorker] /\ \A v \in Workers : v # w => workers'[v] = workers[v]
        /\ workers'[w].step = "mark" /\ workers'[w].at = {t} /\ workers'[w].todo = workers[w].todo
        /\ workers'[w].listed = workers[w].listed /\ workers'[w].failed = workers[w].failed
        /\ workers'[w].attempt = workers[w].attempt
    BY <1>0, <1>1, <1>5 DEF WebhookWorker
  <2>2. received'[t] > 0 \/ t \in rejected'
    BY <1>0, <1>5
  <2>3. HandsInv'
    <3>1. InHand(workers[w])'
      BY <1>0, <1>1, <2>1, <2>2 DEF InHand
    <3>2. QED
      BY <1>0, <1>2, <1>3, <2>1, <3>1, OtherHands
  <2>4. OnceInv'
    <3>1. SUFFICES ASSUME NEW h \in Webhooks, h \notin again' \cup gone' PROVE OnceFor(h)'
      BY DEF OnceInv
    <3>2. OnceFor(h)
      BY <1>0, <1>5, <3>1 DEF OnceInv
    <3>3. \A v \in Workers : workers'[v].at = workers[v].at
      BY <1>1, <2>1
    <3>4. CASE h # t
      BY <1>0, <1>1, <1>3, <2>1, <3>2, <3>3, <3>4 DEF OnceFor
    <3>5. CASE h = t
      <4>1. received[t] = 0 /\ \A v \in Workers : t \in workers[v].at => v = w
        BY <1>0, <3>2, <3>5 DEF OnceFor
      <4>2. received'[t] <= 1
        BY <1>0, <1>5, <4>1
      <4>3. QED
        BY <2>1, <3>3, <3>5, <4>1, <4>2 DEF OnceFor
    <3>6. QED
      BY <3>4, <3>5
  <2>5. WebhookTypes'
    BY <1>0, <1>2, <1>3, <2>1 DEF WebhookTypes
  <2>6. QED
    BY <1>4, <2>3, <2>4, <2>5 DEF WebhookInv
\* no answer, or one to try again on
<1>6. CASE /\ rejected' = rejected /\ (t \in again' \/ received' = received)
           /\ IF workers[w].attempt + 1 = MaxAttempts THEN W!Leave(w, t, TRUE)
              ELSE workers' = [workers EXCEPT ![w].attempt = @ + 1]
  <2>1. /\ workers' \in [Workers -> WebhookWorker] /\ \A v \in Workers : v # w => workers'[v] = workers[v]
        /\ workers'[w].at \subseteq {t} /\ workers'[w].step \in {"check", "send"}
    <3>1. CASE W!Leave(w, t, TRUE)
      BY <1>0, <3>1, LeaveDoes
    <3>2. CASE workers' = [workers EXCEPT ![w].attempt = @ + 1]
      BY <1>0, <1>1, <3>2 DEF WebhookWorker
    <3>3. QED
      BY <1>6, <3>1, <3>2
  <2>2. HandsInv'
    <3>1. CASE W!Leave(w, t, TRUE)
      <4>1. InHand(workers[w])'
        BY <1>0, <3>1, HandLeaves
      <4>2. QED
        BY <1>0, <1>2, <1>3, <2>1, <4>1, OtherHands
    <3>2. CASE workers' = [workers EXCEPT ![w].attempt = @ + 1] /\ workers[w].attempt + 1 # MaxAttempts
      <4>1. /\ workers'[w].step = "send" /\ workers'[w].at = {t} /\ workers'[w].todo = workers[w].todo
            /\ workers'[w].listed = workers[w].listed /\ workers'[w].failed = workers[w].failed
            /\ workers'[w].attempt = workers[w].attempt + 1 /\ workers[w].attempt \in Nat
        BY <1>0, <1>1, <3>2 DEF WebhookWorker
      <4>2. MaxAttempts \in Nat /\ workers[w].attempt < MaxAttempts
        BY <1>0, ServiceConstants DEF W!WebhookAssumption, InHand
      <4>3. workers'[w].attempt < MaxAttempts
        BY <3>2, <4>1, <4>2
      <4>4. InHand(workers[w])'
        BY <1>0, <1>1, <4>1, <4>3 DEF InHand
      <4>5. QED
        BY <1>0, <1>2, <1>3, <2>1, <4>4, OtherHands
    <3>3. QED
      BY <1>6, <3>1, <3>2
  <2>3. OnceInv'
    <3>1. SUFFICES ASSUME NEW h \in Webhooks, h \notin again' \cup gone' PROVE OnceFor(h)'
      BY DEF OnceInv
    <3>2. OnceFor(h) /\ received'[h] = received[h]
      BY <1>0, <1>2, <1>3, <1>6, <3>1 DEF OnceInv
    <3>3. \A v \in Workers : h \in workers'[v].at => h \in workers[v].at
      BY <1>1, <2>1
    <3>4. /\ \A v \in Workers : workers'[v].step = "send" /\ h \in workers'[v].at =>
                workers[v].step = "send" /\ h \in workers[v].at
          /\ \A v \in Workers : workers[v].step = "mark" => workers'[v] = workers[v]
      BY <1>0, <2>1, <3>3
    <3>5. QED
      BY <1>0, <3>2, <3>3, <3>4 DEF OnceFor
  <2>4. WebhookTypes'
    BY <1>0, <1>2, <1>3, <2>1 DEF WebhookTypes
  <2>5. QED
    BY <1>4, <2>2, <2>3, <2>4 DEF WebhookInv
<1>7. QED
  BY <1>5, <1>6 DEF W!Post

LEMMA MarkStep ==
  ASSUME WebhookInv, NEW w \in Workers, NEW t \in Webhooks, W!Mark(w, t)
  PROVE  WebhookInv'
<1>0. /\ UNCHANGED <<webhooks, gone, done, received, rejected, promised>>
      /\ WebhookTypes /\ LedgerInv /\ HandsInv /\ OnceInv /\ workers \in [Workers -> WebhookWorker]
      /\ InHand(workers[w]) /\ workers[w].step = "mark" /\ t \in workers[w].at
  BY DEF W!Mark, W!receivers, W!workspace, WebhookInv, HandsInv, WebhookTypes
<1>1. workers[w].at = {t} /\ t \in workers[w].listed /\ (received[t] > 0 \/ t \in rejected)
      /\ t \in webhooks \cup gone
  BY <1>0 DEF InHand
<1>2. PICK error \in BOOLEAN :
        /\ W!Leave(w, t, error) /\ (error \/ t \in ledger')
        /\ ledger' = ledger \/ (ledger' = ledger \cup {t} /\ t \in webhooks)
        /\ again \subseteq again' /\ t \in ledger' \cup again' \cup gone
  BY <1>1 DEF W!Mark
<1>3. /\ workers' \in [Workers -> WebhookWorker] /\ \A v \in Workers : v # w => workers'[v] = workers[v]
  BY <1>0, <1>2, LeaveDoes
<1>4. InHand(workers[w])'
  BY <1>0, <1>2, HandLeaves
<1>5. HandsInv'
  BY <1>0, <1>2, <1>3, <1>4, OtherHands
<1>6. OnceInv'
  BY <1>0, <1>1, <1>2, OnceLeaves
<1>7. WebhookTypes' /\ LedgerInv'
  BY <1>0, <1>1, <1>2, <1>3 DEF WebhookTypes, LedgerInv
<1>8. QED
  BY <1>5, <1>6, <1>7 DEF WebhookInv

LEMMA WebhookInit == ASSUME W!Init PROVE WebhookInv
<1>1. MaxAttempts \in Nat /\ 0 < MaxAttempts
  BY ServiceConstants DEF W!WebhookAssumption
<1>2. \A w \in Workers : workers[w] = W!Idle
  BY DEF W!Init
<1>3. WebhookTypes
  BY IdleHand DEF W!Init, WebhookTypes
<1>4. HandsInv
  BY <1>1, <1>2, IdleHand DEF HandsInv, InHand
<1>5. OnceInv /\ LedgerInv
  BY <1>2, IdleHand DEF W!Init, OnceInv, OnceFor, LedgerInv
<1>6. QED
  BY <1>3, <1>4, <1>5 DEF WebhookInv

LEMMA WebhookStep == ASSUME WebhookInv, [W!Next]_webhookVars PROVE WebhookInv'
<1>1. CASE UNCHANGED webhookVars
  BY <1>1 DEF webhookVars, WebhookInv, WebhookTypes, HandsInv, InHand, LedgerInv, OnceInv, OnceFor
<1>2. QED
  BY <1>1, WorkspaceStep, EventStep, CheckStep, RefuseStep, PostStep, MarkStep DEF W!Next

LEMMA WebhookSafe == ASSUME WebhookInv PROVE W!WebhooksAgree /\ W!TypeOK
<1>1. W!LedgerAgrees
  BY DEF WebhookInv, LedgerInv, W!LedgerAgrees
<1>2. W!ReceivedOnce
  BY DEF WebhookInv, WebhookTypes, OnceInv, OnceFor, W!ReceivedOnce
<1>3. W!TypeOK
  BY DEF WebhookInv, WebhookTypes, WebhookWorker, HandsInv, InHand, W!TypeOK
<1>4. QED
  BY <1>1, <1>2, <1>3 DEF W!WebhooksAgree

-----------------------------------------------------------------------------
(* Each part by itself, without the foci that MCServices narrows some of   *)
(* them with.                                                              *)

\* Cached roles agree with the database or are about to be dropped, owners stay
\* owners, an invite lets one user in, and only members are in the channel, for
\* any number of users, invites, requests and failing calls.
THEOREM MembershipAgrees == A!Spec => [](A!AccessAgrees /\ A!TypeOK)
<1>1. [A!Next]_(A!vars) => [A!Next]_accessVars
  BY DEF A!vars, A!members, A!ghosts, accessVars
<1>2. QED
  BY <1>1, AccessInit, AccessStep, AccessSafe, PTL DEF A!Spec

\* The second factor is on with a verified secret only, and a code opens one
\* session, for any time step, drift and replay time that ServiceConstants
\* allows.
THEOREM FactorAgrees == F!Spec => [](F!MFAAgrees /\ F!TypeOK)
<1>1. [F!Next]_(F!vars) => [F!Next]_factorVars
  BY DEF F!vars, F!user, F!client, F!redis, factorVars
<1>2. QED
  BY <1>1, FactorInit, FactorStep, FactorSafe, PTL DEF F!Spec

\* Requests for a pair are answered with one conversation, of its members, but
\* for the stated causes, and the own conversation comes before later ones.
THEOREM ConversationsAgree == D!Spec => [](D!DirectAgrees /\ D!TypeOK)
<1>1. [D!Next]_(D!vars) => [D!Next]_directVars
  BY DEF D!vars, D!tables, D!ghosts, directVars
<1>2. QED
  BY <1>1, DirectInit, DirectStep, DirectSafe, PTL DEF D!Spec

\* A scheduled message becomes one message at most and none early, and a claimed
\* row that is no message waits in a batch or was lost to a failure, for any
\* number of core processes, stops and failing statements.
THEOREM SentAtMostOnce == M!Spec => [](M!ScheduledAgrees /\ M!TypeOK)
<1>1. [M!Next]_(M!vars) => [M!Next]_scheduleVars
  BY DEF M!vars, M!table, scheduleVars
<1>2. QED
  BY <1>1, ScheduleInit, ScheduleStep, ScheduleSafe, PTL DEF M!Spec

\* With nothing under way the document is the row, unless the last call about
\* it was outdated.
THEOREM DocumentAgrees == S!Spec => [](S!SearchAgrees /\ S!TypeOK)
<1>1. [S!Next]_(S!vars) => [S!Next]_searchVars
  BY DEF S!vars, searchVars
<1>2. QED
  BY <1>1, SearchInit, SearchStep, SearchSafe, PTL DEF S!Spec

\* The ledger is right, an event is done only when it is complete, and a
\* receiver gets the event once but for the stated causes.
THEOREM DeliveriesAgree == W!Spec => [](W!WebhooksAgree /\ W!TypeOK)
<1>1. [W!Next]_(W!vars) => [W!Next]_webhookVars
  BY DEF W!vars, W!workspace, W!receivers, webhookVars
<1>2. QED
  BY <1>1, WebhookInit, WebhookStep, WebhookSafe, PTL DEF W!Spec

-----------------------------------------------------------------------------
(* The composition. *)

ServicesInv ==
  AccessInv /\ FactorInv /\ ConversationInv /\ ScheduleInv /\ SearchInv /\ WebhookInv

LEMMA ServicesInit == Init => ServicesInv
  BY AccessInit, FactorInit, DirectInit, ScheduleInit, SearchInit, WebhookInit DEF Init, ServicesInv

LEMMA ServicesStep == ServicesInv /\ [Next]_AllVars => ServicesInv'
<1>1. [Next]_AllVars =>
        /\ [A!Next]_accessVars /\ [F!Next]_factorVars /\ [D!Next]_directVars
        /\ [M!Next]_scheduleVars /\ [S!Next]_searchVars /\ [W!Next]_webhookVars
  BY DEF Next, AllVars
<1>2. QED
  BY <1>1, AccessStep, FactorStep, DirectStep, ScheduleStep, SearchStep, WebhookStep DEF ServicesInv

\* The inductive invariant holds in every reachable state.
THEOREM ServicesInvariance == Spec => []ServicesInv
  BY ServicesInit, ServicesStep, PTL DEF Spec

\* Cached roles, owners, invites and channel members agree, and the second
\* factor's codes and sessions, in every reachable state.
THEOREM AccessIsAgreed == Spec => []AccessAgrees
<1>1. ServicesInv => AccessAgrees
  BY AccessSafe, FactorSafe DEF ServicesInv, AccessAgrees
<1>2. QED
  BY <1>1, ServicesInvariance, PTL

\* Direct conversations, scheduled messages, the search document and webhook
\* deliveries agree in every reachable state.
THEOREM MessagesAreAgreed == Spec => []MessagesAgree
<1>1. ServicesInv => MessagesAgree
  BY DirectSafe, ScheduleSafe, SearchSafe, WebhookSafe DEF ServicesInv, MessagesAgree
<1>2. QED
  BY <1>1, ServicesInvariance, PTL
====
