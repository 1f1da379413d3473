---------------------------- MODULE DirectMessages ----------------------------
(***************************************************************************)
(* Opening a direct conversation (internal/dm/handler.go Create and Self,  *)
(* services/database dm_parity.go and direct_messages.sql.go).  A request  *)
(* looks for the conversation and, when there is none, inserts it and its  *)
(* members, each by a statement of its own and in no transaction.  The     *)
(* conversation a request inserts goes by the name of the request.         *)
(***************************************************************************)
EXTENDS Naturals, Sequences, FiniteSets, SequencesExt

CONSTANTS
  Users,
  Requests,     \* identities of requests, which bound them
  MaxFailures   \* bound: statements that fail

DirectAssumption == MaxFailures \in Nat

VARIABLES
  requests,     \* each request: by whom, with whom, how far it is
  created,      \* direct_conversations, in the order of created_at
  members,      \* direct_conversation_members
  answer,       \* the conversation a request was answered with
  failures,     \* bound: statements that failed
  doubled,      \* history: pairs (or one user) asked for again while a request
                \* was under way, or whose own conversation could not be read
  handed        \* history: conversations with another user that Self was answered with

tables == <<created, members>>
ghosts == <<doubled, handed>>
vars == <<requests, tables, answer, failures, ghosts>>

None == "none"
Idle(u) == [by |-> u, other |-> u, step |-> "idle"]
Pair(r) == {requests[r].by, requests[r].other}    \* one user, of Self
At(r, step) == requests[r].step = step
Goto(r, step) == requests' = [requests EXCEPT ![r].step = step]
Fails == failures < MaxFailures /\ failures' = failures + 1

Init ==
  /\ \E u \in Users: requests = [r \in Requests |-> Idle(u)]
  /\ created = <<>> /\ members = [r \in Requests |-> {}]
  /\ answer = [r \in Requests |-> None] /\ failures = 0
  /\ doubled = {} /\ handed = {}

\* Create refuses the caller as the other user; other = by is Self.
Start(r) ==
  /\ At(r, "idle")
  /\ \E u, v \in Users:
       /\ requests' = [requests EXCEPT ![r] = [by |-> u, other |-> v, step |-> "find"]]
       /\ doubled' = IF \E q \in Requests: ~At(q, "idle") /\ ~At(q, "done") /\ Pair(q) = {u, v}
                     THEN doubled \cup {{u, v}} ELSE doubled
  /\ UNCHANGED <<tables, answer, failures, handed>>

Answer(r, c) == answer' = [answer EXCEPT ![r] = c] /\ Goto(r, "done")

\* FindDirectConversation: exactly these two members; any of them.
Shared(u, v) == {c \in ToSet(created): members[c] = {u, v}}

\* A failing read is an error of Create.
Find(r) ==
  /\ At(r, "find") /\ requests[r].by # requests[r].other
  /\ LET found == Shared(requests[r].by, requests[r].other)
     IN  \/ \E c \in found: Answer(r, c) /\ UNCHANGED failures
         \/ found = {} /\ Goto(r, "insert") /\ UNCHANGED <<answer, failures>>
         \/ Fails /\ Goto(r, "done") /\ UNCHANGED answer
  /\ UNCHANGED <<tables, ghosts>>

\* FindSelfDirectConversation: the first the user made and is in.  The query
\* counts the user's own membership only, so one with another user is one too.
MadeBy(u, c) == requests[c].by = u /\ u \in members[c]
Own(u) ==
  {created[i]: i \in {i \in DOMAIN created:
     MadeBy(u, created[i]) /\ \A j \in 1..(i - 1): ~MadeBy(u, created[j])}}

\* A failing read goes on like an empty one.
FindSelf(r) ==
  /\ At(r, "find") /\ requests[r].by = requests[r].other
  /\ LET u == requests[r].by
         found == Own(u)
     IN  \/ \E c \in found:
              /\ Answer(r, c)
              /\ handed' = IF requests[c].other # u THEN handed \cup {c} ELSE handed
              /\ UNCHANGED <<failures, doubled>>
         \/ found = {} /\ Goto(r, "insert") /\ UNCHANGED <<answer, failures, ghosts>>
         \/ Fails /\ Goto(r, "insert") /\ doubled' = doubled \cup {{u}} /\ UNCHANGED <<answer, handed>>
  /\ UNCHANGED tables

CreateDirectConversation(r) ==
  /\ At(r, "insert")
  /\ \/ created' = Append(created, r) /\ Goto(r, "me") /\ UNCHANGED failures
     \/ Fails /\ Goto(r, "done") /\ UNCHANGED created
  /\ UNCHANGED <<members, answer, ghosts>>

\* AddDirectConversationMember, for the caller.
AddMe(r) ==
  /\ At(r, "me")
  /\ LET u == requests[r].by
     IN  \/ /\ members' = [members EXCEPT ![r] = @ \cup {u}] /\ UNCHANGED failures
            /\ IF requests[r].other = u THEN Answer(r, r) ELSE Goto(r, "other") /\ UNCHANGED answer
         \/ Fails /\ Goto(r, "done") /\ UNCHANGED <<members, answer>>
  /\ UNCHANGED <<created, ghosts>>

AddOther(r) ==
  /\ At(r, "other")
  /\ \/ members' = [members EXCEPT ![r] = @ \cup {requests[r].other}] /\ Answer(r, r) /\ UNCHANGED failures
     \/ Fails /\ Goto(r, "done") /\ UNCHANGED <<members, answer>>
  /\ UNCHANGED <<created, ghosts>>

Next == \E r \in Requests:
  \/ Start(r) \/ Find(r) \/ FindSelf(r)
  \/ CreateDirectConversation(r) \/ AddMe(r) \/ AddOther(r)

Spec == Init /\ [][Next]_vars

-----------------------------------------------------------------------------
(* Properties *)

TypeOK ==
  /\ ToSet(created) \subseteq Requests /\ members \in [Requests -> SUBSET Users]
  /\ answer \in [Requests -> Requests \cup {None}] /\ failures \in 0..MaxFailures

\* Two answers for the same pair, or to the same user about the own
\* conversation, are one conversation, unless requests for the pair overlapped
\* or the own conversation could not be read once; or one of the two is with
\* another user and was handed out as the own conversation (dm_parity.go, 11-19).
OnePerPair ==
  \A q, r \in Requests:
    answer[q] # None /\ answer[r] # None /\ Pair(q) = Pair(r) =>
      \/ answer[q] = answer[r] \/ Pair(r) \in doubled
      \/ requests[r].by = requests[r].other /\ {answer[q], answer[r]} \cap handed # {}

\* A conversation answered to a request has its two users for members, or its
\* one, and keeps to them, but for one with another user that was handed out as
\* the own conversation.
MembersStay ==
  \A r \in Requests: answer[r] # None =>
    \/ members[answer[r]] = Pair(r)
    \/ answer[r] \in handed /\ requests[r].by = requests[r].other

\* That happens only to a user without an own conversation: once there is one,
\* Self is not answered with a conversation created after it, unless requests
\* about the own conversation overlapped or it could not be read once
\* (dm_parity.go, 11-28).
OwnComesFirst ==
  \A r \in Requests: requests[r].by = requests[r].other /\ answer[r] # None =>
    \A i, j \in DOMAIN created:
      i < j /\ created[j] = answer[r] /\ Pair(created[i]) = Pair(r) /\ members[created[i]] = Pair(r)
        => Pair(r) \in doubled

DirectAgrees == OnePerPair /\ MembersStay /\ OwnComesFirst
=============================================================================
