--------------------------- MODULE EventDelivery ---------------------------
(***************************************************************************)
(* What the transactional outbox promises to the rest of the system, with  *)
(* no database, claim or dispatcher in sight: an event that was committed  *)
(* is delivered to its topic at least once, and it is acknowledged only    *)
(* after a delivery.  Redelivery of a delivered event changes nothing at   *)
(* this level, so it is a stuttering step.                                 *)
(***************************************************************************)
CONSTANT Events

VARIABLES
  committed,      \* events whose transaction committed
  delivered,      \* events of which the topic holds a copy
  acknowledged    \* events nobody will send again on purpose

vars == <<committed, delivered, acknowledged>>

Init ==
  /\ committed = {}
  /\ delivered = {}
  /\ acknowledged = {}

Commit(e) ==
  /\ e \notin committed
  /\ committed' = committed \cup {e}
  /\ UNCHANGED <<delivered, acknowledged>>

Deliver(e) ==
  /\ e \in committed
  /\ delivered' = delivered \cup {e}
  /\ UNCHANGED <<committed, acknowledged>>

Acknowledge(e) ==
  /\ e \in delivered
  /\ acknowledged' = acknowledged \cup {e}
  /\ UNCHANGED <<committed, delivered>>

Next == \E e \in Events : Commit(e) \/ Deliver(e) \/ Acknowledge(e)

Safety == Init /\ [][Next]_vars
=============================================================================
