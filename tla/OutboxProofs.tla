---------------------------- MODULE OutboxProofs ----------------------------
(***************************************************************************)
(* Proofs about Outbox, for any set of events and dispatchers and any      *)
(* bounds.  The inductive invariant IInv says who may hold a row: LoopInv  *)
(* ties a dispatcher's variables to its place in the loop, RowInv ties the *)
(* rows to the topic, and ExclusiveInv states that a row no lease and no   *)
(* ambiguous publish disturbed has at most one holder, which owns its live *)
(* claim.                                                                  *)
(***************************************************************************)
EXTENDS Outbox, FiniteSetTheorems, TLAPS

Has(d, e) == e \in todo[d] \/ cur[d] = e

LoopInv ==
  \A d \in Dispatchers :
    /\ pc[d] = "idle" => todo[d] = {} /\ cur[d] = None
    /\ pc[d] = "looping" => cur[d] = None
    /\ pc[d] \in {"idle", "looping"} => tries[d] = 0
    /\ pc[d] = "publishing" => tries[d] < PublishAttempts
    /\ pc[d] \in {"publishing", "published", "failed"} =>
         cur[d] \in Events /\ cur[d] \notin todo[d]
    /\ \A e \in Events : Has(d, e) => e \in outbox

RowInv ==
  /\ business = outbox
  /\ \A e \in Events :
       /\ e \in outbox <=> tx[e] = "committed"
       /\ topic[e] > 0 => e \in outbox
       /\ published[e] => topic[e] > 0
       /\ claim[e] # "free" => e \in outbox /\ ~published[e]
       /\ \A d \in Dispatchers :
            /\ published[e] /\ Has(d, e) => token[e] # d
            /\ cur[d] = e /\ pc[d] = "published" => topic[e] > 0

ExclusiveInv ==
  \A e \in Events \ disturbed :
    /\ \A d \in Dispatchers :
         Has(d, e) => claim[e] = "live" /\ token[e] = d
    /\ topic[e] <= 1
    /\ topic[e] > 0 /\ ~published[e] =>
         /\ claim[e] = "live"
         /\ \A d \in Dispatchers : Has(d, e) => cur[d] = e /\ pc[d] = "published"

IInv == TypeOK /\ LoopInv /\ RowInv /\ ExclusiveInv

-----------------------------------------------------------------------------
(* The next-state relation, one case per action.                           *)

LEMMA NextCases ==
  ASSUME Next
  PROVE  \/ \E e \in Events : TxWrite(e) \/ TxEnqueue(e) \/ TxCommit(e) \/ TxRollback(e)
         \/ \E e \in Events : LapseAbandoned(e) \/ LapseHeld(e)
         \/ \E d \in Dispatchers :
              \/ Claim(d) \/ EndBatch(d) \/ PublishError(d) \/ PublishAmbiguous(d)
              \/ Release(d) \/ SettleLost(d) \/ Crash(d)
         \/ \E d \in Dispatchers, e \in Events :
              StartItem(d, e) \/ PublishOk(d, e) \/ Mark(d, e)
BY DEF Next, Writer, Loop

LEMMA InitIInv == Init => IInv
<1> SUFFICES ASSUME Init PROVE IInv
  OBVIOUS
<1> USE OutboxConstants DEF Init
<1>1. TypeOK
  BY DEF TypeOK
<1>2. LoopInv
  BY DEF LoopInv, Has
<1>3. RowInv
  BY DEF RowInv, Has
<1>4. ExclusiveInv
  BY DEF ExclusiveInv, Has
<1>5. QED
  BY <1>1, <1>2, <1>3, <1>4 DEF IInv

\* A claim takes rows that are unacknowledged and not under a live lease, and
\* stamps them with the token of d.
Takes(d, rows) ==
  /\ \A e \in rows : Claimable(e)
  /\ claim' = [e \in Events |-> IF e \in rows THEN "live" ELSE claim[e]]
  /\ token' = [e \in Events |-> IF e \in rows THEN d ELSE token[e]]
  /\ todo' = [todo EXCEPT ![d] = rows]
  /\ pc[d] = "idle" /\ pc' = [pc EXCEPT ![d] = "looping"]
  /\ UNCHANGED <<tx, createdAt, business, outbox, published, topic, cur, tries,
                 crashes, slow, disturbed>>

LEMMA ClaimTakes ==
  ASSUME NEW d \in Dispatchers, TypeOK, Claim(d)
  PROVE  \E rows \in SUBSET Events : Takes(d, rows)
<1>1. PICK skipped \in SUBSET LockedByOthers(d) :
        LET rows == Oldest({e \in Events : Claimable(e)} \ skipped)
        IN  /\ claim' = [e \in Events |-> IF e \in rows THEN "live" ELSE claim[e]]
            /\ token' = [e \in Events |-> IF e \in rows THEN d ELSE token[e]]
            /\ todo' = [todo EXCEPT ![d] = rows]
  BY DEF Claim
<1> DEFINE rows == Oldest({e \in Events : Claimable(e)} \ skipped)
<1>2. rows \in SUBSET Events /\ \A e \in rows : Claimable(e)
  BY DEF Oldest
<1>3. /\ pc[d] = "idle" /\ pc' = [pc EXCEPT ![d] = "looping"]
      /\ UNCHANGED <<tx, createdAt, business, outbox, published, topic, cur, tries,
                     crashes, slow, disturbed>>
  BY DEF Claim, dbVars, boundVars
<1>4. /\ claim' = [e \in Events |-> IF e \in rows THEN "live" ELSE claim[e]]
      /\ token' = [e \in Events |-> IF e \in rows THEN d ELSE token[e]]
      /\ todo' = [todo EXCEPT ![d] = rows]
  BY <1>1
<1> HIDE DEF rows
<1>5. QED
  BY <1>2, <1>3, <1>4 DEF Takes

\* The part common to Mark, Release and a lost settlement keeps the types.
LEMMA SettleType ==
  ASSUME NEW d \in Dispatchers, TypeOK, NextItem(d),
         published' \in [Events -> BOOLEAN],
         claim' \in [Events -> {"free", "live", "stale"}],
         token' \in [Events -> Dispatchers \cup {None}]
  PROVE  TypeOK'
BY OutboxConstants DEF TypeOK, NextItem, dbVars, boundVars

LEMMA TypeStep == TypeOK /\ LoopInv /\ [Next]_vars => TypeOK'
<1> SUFFICES ASSUME TypeOK, LoopInv, [Next]_vars PROVE TypeOK'
  OBVIOUS
<1> USE OutboxConstants DEF TypeOK, dbVars, rowVars, loopVars, boundVars
<1>1. ASSUME NEW e \in Events, TxWrite(e) PROVE TypeOK'
  <2>1. Cardinality({f \in Events : tx[f] # "none"}) \in Nat
    BY FS_Subset, FS_CardinalityType
  <2>2. QED
    BY <1>1, <2>1 DEF TxWrite
<1>2. ASSUME NEW e \in Events, TxEnqueue(e) \/ TxCommit(e) \/ TxRollback(e) PROVE TypeOK'
  BY <1>2 DEF TxEnqueue, TxCommit, TxRollback
<1>3. ASSUME NEW e \in Events, LapseAbandoned(e) \/ LapseHeld(e) PROVE TypeOK'
  BY <1>3 DEF LapseAbandoned, LapseHeld, Lapse
<1>4. ASSUME NEW d \in Dispatchers, Claim(d) PROVE TypeOK'
  <2>1. PICK rows \in SUBSET Events : Takes(d, rows)
    BY <1>4, ClaimTakes
  <2>2. claim' \in [Events -> {"free", "live", "stale"}] /\ token' \in [Events -> Dispatchers \cup {None}]
    BY <2>1 DEF Takes
  <2>3. todo' \in [Dispatchers -> SUBSET Events]
    BY <2>1 DEF Takes
  <2>4. QED
    BY <2>1, <2>2, <2>3 DEF Takes
<1>5. ASSUME NEW d \in Dispatchers, EndBatch(d) \/ SettleLost(d) \/ Release(d) PROVE TypeOK'
  <2>1. CASE EndBatch(d)
    BY <2>1 DEF EndBatch
  <2>2. CASE SettleLost(d)
    BY <2>2, SettleType DEF SettleLost
  <2>3. CASE Release(d)
    <3>1. claim' \in [Events -> {"free", "live", "stale"}]
      BY <2>3 DEF Release
    <3>2. token' \in [Events -> Dispatchers \cup {None}]
      BY <2>3 DEF Release
    <3>3. QED
      BY <2>3, <3>1, <3>2, SettleType DEF Release
  <2>4. QED
    BY <1>5, <2>1, <2>2, <2>3
<1>6. ASSUME NEW d \in Dispatchers, PublishError(d) \/ PublishAmbiguous(d) PROVE TypeOK'
  <2>1. pc[d] = "publishing" /\ cur[d] \in Events /\ tries[d] + 1 \in 0..PublishAttempts
    BY <1>6 DEF LoopInv, PublishError, PublishAmbiguous
  <2>2. tries' = [tries EXCEPT ![d] = tries[d] + 1] /\ pc' \in [Dispatchers -> {"idle", "looping", "publishing", "published", "failed"}]
    BY <1>6 DEF PublishError, PublishAmbiguous, AfterError
  <2>3. tries' \in [Dispatchers -> 0..PublishAttempts]
    BY <2>1, <2>2
  <2>4. topic' \in [Events -> 0..MaxCopies] /\ disturbed' \subseteq Events
    BY <1>6, <2>1 DEF PublishError, PublishAmbiguous, Append1
  <2>5. QED
    BY <1>6, <2>2, <2>3, <2>4 DEF PublishError, PublishAmbiguous
<1>7. ASSUME NEW d \in Dispatchers, Crash(d) PROVE TypeOK'
  BY <1>7, 0 \in 0..PublishAttempts DEF Crash
<1>8. ASSUME NEW d \in Dispatchers, NEW e \in Events,
             StartItem(d, e) \/ PublishOk(d, e) \/ Mark(d, e)
      PROVE  TypeOK'
  <2>1. CASE StartItem(d, e)
    BY <2>1 DEF StartItem
  <2>2. CASE PublishOk(d, e)
    <3>1. topic' \in [Events -> 0..MaxCopies]
      BY <2>2 DEF PublishOk, Append1
    <3>2. QED
      BY <2>2, <3>1 DEF PublishOk
  <2>3. CASE Mark(d, e)
    <3>1. claim' \in [Events -> {"free", "live", "stale"}] /\ published' \in [Events -> BOOLEAN]
      BY <2>3 DEF Mark
    <3>2. QED
      BY <2>3, <3>1, SettleType DEF Mark
  <2>4. QED
    BY <1>8, <2>1, <2>2, <2>3
<1>9. CASE UNCHANGED vars
  BY <1>9 DEF vars
<1>10. QED
  BY <1>1, <1>2, <1>3, <1>4, <1>5, <1>6, <1>7, <1>8, <1>9, NextCases

-----------------------------------------------------------------------------
(* Each conjunct of IInv is preserved, one case per action.                *)

LEMMA LoopStep == TypeOK /\ LoopInv /\ [Next]_vars => LoopInv'
<1> SUFFICES ASSUME TypeOK, LoopInv, [Next]_vars PROVE LoopInv'
  OBVIOUS
<1> USE OutboxConstants DEF TypeOK, LoopInv, Has, dbVars, rowVars, loopVars, boundVars
<1>1. ASSUME NEW e \in Events, TxWrite(e) \/ TxEnqueue(e) \/ TxCommit(e) \/ TxRollback(e)
      PROVE  LoopInv'
  BY <1>1 DEF TxWrite, TxEnqueue, TxCommit, TxRollback
<1>2. ASSUME NEW e \in Events, LapseAbandoned(e) \/ LapseHeld(e) PROVE LoopInv'
  BY <1>2 DEF LapseAbandoned, LapseHeld, Lapse
<1>3. ASSUME NEW d \in Dispatchers, Claim(d) PROVE LoopInv'
  <2>1. PICK rows \in SUBSET Events : Takes(d, rows)
    BY <1>3, ClaimTakes
  <2>2. rows \subseteq outbox
    BY <2>1 DEF Takes, Claimable
  <2>3. QED
    BY <2>1, <2>2 DEF Takes
<1>4. ASSUME NEW d \in Dispatchers, EndBatch(d) PROVE LoopInv'
  BY <1>4 DEF EndBatch
<1>5. ASSUME NEW d \in Dispatchers, NextItem(d), pc[d] \in {"published", "failed"} PROVE LoopInv'
  BY <1>5 DEF NextItem
<1>6. ASSUME NEW d \in Dispatchers, AfterError(d), pc[d] = "publishing",
             UNCHANGED <<todo, cur, outbox>>
      PROVE  LoopInv'
  BY <1>6 DEF AfterError
<1>7. ASSUME NEW d \in Dispatchers, Crash(d) PROVE LoopInv'
  BY <1>7 DEF Crash
<1>8. ASSUME NEW d \in Dispatchers, NEW e \in Events, StartItem(d, e) PROVE LoopInv'
  BY <1>8 DEF StartItem
<1>9. ASSUME NEW d \in Dispatchers, NEW e \in Events, PublishOk(d, e) PROVE LoopInv'
  BY <1>9 DEF PublishOk
<1>10. CASE UNCHANGED vars
  BY <1>10 DEF vars
<1>11. ASSUME NEW d \in Dispatchers,
              \/ PublishError(d) \/ PublishAmbiguous(d) \/ Release(d) \/ SettleLost(d)
              \/ \E e \in Events : Mark(d, e)
       PROVE  LoopInv'
  BY <1>5, <1>6, <1>11 DEF PublishError, PublishAmbiguous, Release, SettleLost, Mark
<1>12. QED
  BY <1>1, <1>2, <1>3, <1>4, <1>7, <1>8, <1>9, <1>10, <1>11, NextCases

LEMMA RowStep == TypeOK /\ LoopInv /\ RowInv /\ [Next]_vars => RowInv'
<1> SUFFICES ASSUME TypeOK, LoopInv, RowInv, [Next]_vars PROVE RowInv'
  OBVIOUS
<1> USE OutboxConstants DEF TypeOK, LoopInv, RowInv, Has, dbVars, rowVars, loopVars, boundVars
<1>1. ASSUME NEW e \in Events, TxWrite(e) \/ TxEnqueue(e) \/ TxCommit(e) \/ TxRollback(e)
      PROVE  RowInv'
  <2>1. CASE TxWrite(e) \/ TxEnqueue(e) \/ TxRollback(e)
    BY <2>1 DEF TxWrite, TxEnqueue, TxRollback
  <2>2. CASE TxCommit(e)
    BY <2>2 DEF TxCommit
  <2>3. QED
    BY <1>1, <2>1, <2>2
<1>2. ASSUME NEW e \in Events, LapseAbandoned(e) \/ LapseHeld(e) PROVE RowInv'
  BY <1>2 DEF LapseAbandoned, LapseHeld, Lapse
<1>3. ASSUME NEW d \in Dispatchers, Claim(d) PROVE RowInv'
  <2>1. PICK rows \in SUBSET Events : Takes(d, rows)
    BY <1>3, ClaimTakes
  <2>2. QED
    BY <2>1 DEF Takes, Claimable
<1>4. ASSUME NEW d \in Dispatchers, EndBatch(d) \/ Crash(d) PROVE RowInv'
  BY <1>4 DEF EndBatch, Crash
<1>5. ASSUME NEW d \in Dispatchers, PublishError(d) \/ PublishAmbiguous(d) PROVE RowInv'
  BY <1>5 DEF PublishError, PublishAmbiguous, AfterError, Append1
<1>6. ASSUME NEW d \in Dispatchers, Release(d) \/ SettleLost(d) PROVE RowInv'
  BY <1>6 DEF Release, SettleLost, NextItem, OwnsRow
<1>7. ASSUME NEW d \in Dispatchers, NEW e \in Events, StartItem(d, e) PROVE RowInv'
  BY <1>7 DEF StartItem
<1>8. ASSUME NEW d \in Dispatchers, NEW e \in Events, PublishOk(d, e) PROVE RowInv'
  BY <1>8 DEF PublishOk, Append1
<1>9. ASSUME NEW d \in Dispatchers, NEW e \in Events, Mark(d, e) PROVE RowInv'
  BY <1>9 DEF Mark, NextItem, OwnsRow
<1>10. CASE UNCHANGED vars
  BY <1>10 DEF vars
<1>11. QED
  BY <1>1, <1>2, <1>3, <1>4, <1>5, <1>6, <1>7, <1>8, <1>9, <1>10, NextCases

LEMMA ExclusiveStep ==
  TypeOK /\ LoopInv /\ RowInv /\ ExclusiveInv /\ [Next]_vars => ExclusiveInv'
<1> SUFFICES ASSUME TypeOK, LoopInv, RowInv, ExclusiveInv, [Next]_vars PROVE ExclusiveInv'
  OBVIOUS
<1> USE OutboxConstants DEF TypeOK, LoopInv, RowInv, ExclusiveInv, Has, dbVars, rowVars, loopVars, boundVars
<1>1. ASSUME NEW e \in Events, TxWrite(e) \/ TxEnqueue(e) \/ TxCommit(e) \/ TxRollback(e)
      PROVE  ExclusiveInv'
  BY <1>1 DEF TxWrite, TxEnqueue, TxCommit, TxRollback
<1>2. ASSUME NEW e \in Events, LapseAbandoned(e) \/ LapseHeld(e) PROVE ExclusiveInv'
  BY <1>2 DEF LapseAbandoned, LapseHeld, Lapse
<1>3. ASSUME NEW d \in Dispatchers, Claim(d) PROVE ExclusiveInv'
  <2>1. PICK rows \in SUBSET Events : Takes(d, rows)
    BY <1>3, ClaimTakes
  <2>2. QED
    BY <2>1 DEF Takes, Claimable
<1>4. ASSUME NEW d \in Dispatchers, EndBatch(d) \/ Crash(d) PROVE ExclusiveInv'
  <2>1. CASE EndBatch(d)
    BY <2>1 DEF EndBatch
  <2>2. CASE Crash(d)
    BY <2>2 DEF Crash
  <2>3. QED
    BY <1>4, <2>1, <2>2
<1>5. ASSUME NEW d \in Dispatchers, PublishError(d) \/ PublishAmbiguous(d) PROVE ExclusiveInv'
  BY <1>5 DEF PublishError, PublishAmbiguous, AfterError, Append1
<1>6. ASSUME NEW d \in Dispatchers, Release(d) \/ SettleLost(d) PROVE ExclusiveInv'
  BY <1>6 DEF Release, SettleLost, NextItem, OwnsRow
<1>7. ASSUME NEW d \in Dispatchers, NEW e \in Events, StartItem(d, e) PROVE ExclusiveInv'
  BY <1>7 DEF StartItem
<1>8. ASSUME NEW d \in Dispatchers, NEW e \in Events, PublishOk(d, e) PROVE ExclusiveInv'
  BY <1>8 DEF PublishOk, Append1
<1>9. ASSUME NEW d \in Dispatchers, NEW e \in Events, Mark(d, e) PROVE ExclusiveInv'
  BY <1>9 DEF Mark, NextItem, OwnsRow
<1>10. CASE UNCHANGED vars
  BY <1>10 DEF vars
<1>11. QED
  BY <1>1, <1>2, <1>3, <1>4, <1>5, <1>6, <1>7, <1>8, <1>9, <1>10, NextCases

\* The inductive invariant holds in every reachable state.
THEOREM Invariance == Spec => []IInv
<1>1. IInv /\ [Next]_vars => IInv'
  BY TypeStep, LoopStep, RowStep, ExclusiveStep DEF IInv
<1>2. QED
  BY InitIInv, <1>1, PTL DEF Spec

-----------------------------------------------------------------------------
(* What the invariant gives.                                               *)

\* Every variable keeps its type.
THEOREM TypeCorrect == Spec => []TypeOK
BY Invariance, PTL DEF IInv

\* The topic announces committed transactions only, and it holds every event whose
\* row is acknowledged.
THEOREM OutboxSafe == Spec => [](NoPhantomEvent /\ AckedIsInTopic)
<1>1. IInv => NoPhantomEvent /\ AckedIsInTopic
  BY DEF IInv, RowInv, NoPhantomEvent, AckedIsInTopic
<1>2. QED
  BY <1>1, Invariance, PTL

\* A rolled back transaction, or one that did not end, announces nothing.
THEOREM NothingPhantom == Spec => []NoPhantomEvent
BY OutboxSafe, PTL

\* Without a lapsed lease or an ambiguous publish an event is sent at most once.
THEOREM AtMostOnceUndisturbed == Spec => []DuplicateNeedsCause
<1>1. IInv => DuplicateNeedsCause
  <2> SUFFICES ASSUME IInv, NEW e \in Events, topic[e] > 1 PROVE e \in disturbed
    BY DEF DuplicateNeedsCause
  <2>1. topic[e] \in Nat
    BY OutboxConstants DEF IInv, TypeOK
  <2>2. QED
    BY <2>1 DEF IInv, ExclusiveInv
<1>2. QED
  BY <1>1, Invariance, PTL

\* Only the dispatcher whose token a row carries ends the row's claim.
THEOREM ClaimsAreFenced == Spec => OnlyOwnerSettles
<1>1. IInv /\ [Next]_vars =>
        [\A e \in Events :
           claim[e] # "free" /\ claim'[e] = "free" =>
             \E d \in Dispatchers : cur[d] = e /\ token[e] = d]_vars
  <2> SUFFICES ASSUME IInv, Next, NEW e \in Events, claim[e] # "free", claim'[e] = "free"
               PROVE  \E d \in Dispatchers : cur[d] = e /\ token[e] = d
    BY DEF vars
  <2> USE DEF IInv, TypeOK, dbVars, rowVars, loopVars, boundVars
  <2>1. ASSUME NEW f \in Events,
               \/ TxWrite(f) \/ TxEnqueue(f) \/ TxCommit(f) \/ TxRollback(f)
               \/ LapseAbandoned(f) \/ LapseHeld(f)
        PROVE  FALSE
    BY <2>1 DEF TxWrite, TxEnqueue, TxCommit, TxRollback, LapseAbandoned, LapseHeld, Lapse
  <2>2. ASSUME NEW d \in Dispatchers, Claim(d) PROVE FALSE
    BY <2>2, ClaimTakes DEF Takes
  <2>3. ASSUME NEW d \in Dispatchers,
               \/ EndBatch(d) \/ PublishError(d) \/ PublishAmbiguous(d) \/ SettleLost(d)
               \/ Crash(d) \/ \E f \in Events : StartItem(d, f) \/ PublishOk(d, f)
        PROVE  FALSE
    BY <2>3 DEF EndBatch, PublishError, PublishAmbiguous, SettleLost, Crash, StartItem, PublishOk
  <2>4. ASSUME NEW d \in Dispatchers, Release(d) \/ \E f \in Events : Mark(d, f)
        PROVE  cur[d] = e /\ token[e] = d
    BY <2>4 DEF Release, Mark, OwnsRow, LoopInv
  <2>5. QED
    BY <2>1, <2>2, <2>3, <2>4, NextCases
<1>2. QED
  BY <1>1, Invariance, PTL DEF Spec, OnlyOwnerSettles

\* An acknowledged row is never claimed, released or acknowledged again.
THEOREM AcknowledgementIsFinal == Spec => AckIsFinal
<1>1. IInv /\ [Next]_vars =>
        [\A e \in Events :
           published[e] => published'[e] /\ claim'[e] = "free" /\ token'[e] = token[e]]_vars
  <2> SUFFICES ASSUME IInv, Next, NEW e \in Events, published[e]
               PROVE  published'[e] /\ claim'[e] = "free" /\ token'[e] = token[e]
    BY DEF vars
  <2> USE DEF IInv, TypeOK, RowInv, Has, dbVars, rowVars, loopVars, boundVars
  <2>0. claim[e] = "free"
    OBVIOUS
  <2>1. ASSUME NEW f \in Events,
               \/ TxWrite(f) \/ TxEnqueue(f) \/ TxCommit(f) \/ TxRollback(f)
               \/ LapseAbandoned(f) \/ LapseHeld(f)
        PROVE  published'[e] /\ claim'[e] = "free" /\ token'[e] = token[e]
    BY <2>0, <2>1 DEF TxWrite, TxEnqueue, TxCommit, TxRollback, LapseAbandoned, LapseHeld, Lapse
  <2>2. ASSUME NEW d \in Dispatchers, Claim(d)
        PROVE  published'[e] /\ claim'[e] = "free" /\ token'[e] = token[e]
    BY <2>0, <2>2, ClaimTakes DEF Takes, Claimable
  <2>3. ASSUME NEW d \in Dispatchers,
               \/ EndBatch(d) \/ PublishError(d) \/ PublishAmbiguous(d) \/ SettleLost(d)
               \/ Crash(d) \/ \E f \in Events : StartItem(d, f) \/ PublishOk(d, f)
        PROVE  published'[e] /\ claim'[e] = "free" /\ token'[e] = token[e]
    BY <2>0, <2>3 DEF EndBatch, PublishError, PublishAmbiguous, SettleLost, Crash, StartItem, PublishOk
  <2>4. ASSUME NEW d \in Dispatchers, Release(d) \/ \E f \in Events : Mark(d, f)
        PROVE  published'[e] /\ claim'[e] = "free" /\ token'[e] = token[e]
    BY <2>0, <2>4 DEF Release, Mark, OwnsRow, LoopInv
  <2>5. QED
    BY <2>1, <2>2, <2>3, <2>4, NextCases
<1>2. QED
  BY <1>1, Invariance, PTL DEF Spec, AckIsFinal

\* The outbox implements the at-least-once promise of EventDelivery.
THEOREM ImplementsDelivery == Spec => DeliversAtLeastOnce
<1> DEFINE delivered == {e \in Events : topic[e] > 0}
           acked == {e \in Events : published[e]}
<1>1. Init => Delivery!Init
  BY DEF Init, Delivery!Init
<1>2. IInv /\ [Next]_vars => [Delivery!Next]_(Delivery!vars)
  <2> SUFFICES ASSUME IInv, [Next]_vars PROVE [Delivery!Next]_(Delivery!vars)
    OBVIOUS
  <2> USE DEF IInv, TypeOK, dbVars, rowVars, loopVars, boundVars
  <2>1. ASSUME UNCHANGED <<outbox, topic, published>> PROVE UNCHANGED Delivery!vars
    BY <2>1 DEF Delivery!vars
  <2>2. ASSUME NEW e \in Events, TxCommit(e) PROVE Delivery!Commit(e)
    <3>1. e \notin outbox
      BY <2>2 DEF TxCommit, RowInv
    <3>2. QED
      BY <2>2, <3>1 DEF TxCommit, Delivery!Commit
  <2>3. ASSUME NEW d \in Dispatchers, NEW e \in Events, cur[d] = e, pc[d] = "publishing",
               Append1(e), UNCHANGED <<outbox, published>>
        PROVE  Delivery!Deliver(e)
    <3>1. e \in outbox
      BY <2>3 DEF LoopInv, Has
    <3>2. delivered' = delivered \cup {e}
      BY <2>3, OutboxConstants DEF Append1
    <3>3. acked' = acked
      BY <2>3
    <3>4. QED
      BY <2>3, <3>1, <3>2, <3>3 DEF Delivery!Deliver
  <2>4. ASSUME NEW d \in Dispatchers, NEW e \in Events, Mark(d, e)
        PROVE  Delivery!Acknowledge(e) \/ UNCHANGED Delivery!vars
    <3>1. CASE OwnsRow(d)
      <4>1. e \in delivered
        BY <2>4 DEF Mark, RowInv
      <4>2. acked' = acked \cup {e}
        BY <2>4, <3>1 DEF Mark
      <4>3. delivered' = delivered /\ outbox' = outbox
        BY <2>4 DEF Mark, NextItem
      <4>4. QED
        BY <4>1, <4>2, <4>3 DEF Delivery!Acknowledge
    <3>2. CASE ~OwnsRow(d)
      BY <2>1, <2>4, <3>2 DEF Mark, NextItem
    <3>3. QED
      BY <3>1, <3>2
  <2>5. ASSUME NEW e \in Events,
               TxWrite(e) \/ TxEnqueue(e) \/ TxRollback(e) \/ LapseAbandoned(e) \/ LapseHeld(e)
        PROVE  UNCHANGED Delivery!vars
    BY <2>1, <2>5 DEF TxWrite, TxEnqueue, TxRollback, LapseAbandoned, LapseHeld, Lapse
  <2>6. ASSUME NEW d \in Dispatchers,
               \/ Claim(d) \/ EndBatch(d) \/ PublishError(d) \/ Release(d) \/ SettleLost(d)
               \/ Crash(d) \/ \E e \in Events : StartItem(d, e)
        PROVE  UNCHANGED Delivery!vars
    BY <2>1, <2>6 DEF Claim, EndBatch, PublishError, Release, SettleLost, Crash, StartItem, NextItem
  <2>7. ASSUME NEW d \in Dispatchers, PublishAmbiguous(d)
        PROVE  \E e \in Events : Delivery!Deliver(e)
    <3>1. cur[d] \in Events
      BY <2>7 DEF PublishAmbiguous, LoopInv
    <3>2. QED
      BY <2>3, <2>7, <3>1 DEF PublishAmbiguous
  <2>8. ASSUME NEW d \in Dispatchers, NEW e \in Events, PublishOk(d, e)
        PROVE  Delivery!Deliver(e)
    BY <2>3, <2>8 DEF PublishOk
  <2>9. CASE UNCHANGED vars
    BY <2>1, <2>9 DEF vars
  <2>10. QED
    BY <2>2, <2>4, <2>5, <2>6, <2>7, <2>8, <2>9, NextCases DEF Delivery!Next
<1>3. QED
  BY <1>1, <1>2, Invariance, PTL DEF Spec, DeliversAtLeastOnce, Delivery!Safety
=============================================================================
