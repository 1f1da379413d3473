------------------------ MODULE KafkaConsumerProofs ------------------------
(***************************************************************************)
(* Theorems about KafkaConsumer for any number of workers, any log and any *)
(* amount of trouble.  The argument: while a worker is between ClaimLease  *)
(* and its release, and 30 seconds have not passed under it, the lease of  *)
(* its key carries its token (LeaseInv); so the handlers of one event do   *)
(* not overlap, and as long as nothing disturbed the event, an effect of   *)
(* it is visible to the others as a lease or as a "processed:" key         *)
(* (OnceInv).                                                              *)
(***************************************************************************)
EXTENDS KafkaConsumer, TLAPS

\* the attempt of w is between ClaimLease and the release
Attempting(w) == pc[w] \in {"handle", "complete", "release", "abandon"}

\* the message in hand
MsgInv ==
  \A w \in Workers :
    /\ pc[w] # "fetch" => msg[w] \in Offsets
    /\ pc[w] \notin {"fetch", "commit"} => Log[msg[w]] \in Keys
    /\ pc[w] \in {"fetch", "check", "claim"} => w \notin overtaken

\* the lease protects the attempt, or it has lapsed, which the history tells
LeaseInv ==
  \A w \in Workers :
    Attempting(w) => IF w \in overtaken THEN Key(w) \in disturbed ELSE lease[Key(w)] = w

\* what is complete, processed or ready to commit has had its effect
DoneInv ==
  /\ \A k \in processed : effects[k] > 0
  /\ \A w \in Workers :
       /\ pc[w] \in {"complete", "release"} => effects[Key(w)] > 0
       /\ pc[w] = "commit" => Done(msg[w])

\* an undisturbed event has had at most one effect, and shows it
OnceInv ==
  \A k \in Keys \ disturbed :
    /\ effects[k] <= 1
    /\ effects[k] = 1 => k \in processed \/ \E w \in Workers : pc[w] = "complete" /\ Key(w) = k
    /\ \A w \in Workers : pc[w] = "handle" /\ Key(w) = k => effects[k] = 0

IInv == TypeOK /\ MsgInv /\ LeaseInv /\ DoneInv /\ OnceInv

-----------------------------------------------------------------------------
\* Facts about the constants.
LEMMA LogFacts == /\ Len(Log) \in Nat
                  /\ Offsets = DOMAIN Log
                  /\ \A o \in Offsets : o \in Nat /\ o # 0 /\ Log[o] \in Keys \cup {Garbage}
  BY ConsumerConstants DEF Offsets

\* The initial states satisfy the invariant.
LEMMA InitIInv == Init => IInv
  BY ConsumerConstants, LogFacts
  DEF Init, IInv, TypeOK, MsgInv, LeaseInv, DoneInv, OnceInv, Attempting, Trouble

\* Spending keeps the budget within its bound.
LEMMA SpendType ==
  ASSUME TypeOK, NEW t \in Trouble, Spend(t)
  PROVE  used' \in [Trouble -> Nat] /\ \A u \in Trouble : used'[u] <= Max[u]
<1>1. used[t] \in Nat /\ Max[t] \in Nat /\ used[t] < Max[t]
  BY ConsumerConstants DEF TypeOK, Spend
<1>2. used[t] + 1 \in Nat /\ used[t] + 1 <= Max[t]
  BY <1>1
<1>3. used \in [Trouble -> Nat] /\ used' = [used EXCEPT ![t] = used[t] + 1]
  BY DEF TypeOK, Spend
<1>4. ASSUME NEW u \in Trouble PROVE used'[u] \in Nat /\ used'[u] <= Max[u]
  BY <1>2, <1>3, <1>4 DEF TypeOK
<1>5. QED
  BY <1>2, <1>3, <1>4

\* The type invariant is kept by every step.
LEMMA TypeStep == TypeOK /\ MsgInv /\ [Next]_vars => TypeOK'
<1> SUFFICES ASSUME TypeOK, MsgInv, [Next]_vars PROVE TypeOK'
  OBVIOUS
<1> USE DEF TypeOK, groupVars, redisVars, workerVars, historyVars, GoTo, Continue
<1>0. \A w \in Workers : pc[w] \notin {"fetch", "commit"} => Key(w) \in Keys
  BY LogFacts DEF MsgInv, Key
<1>len. Len(Log) \in Nat
  BY LogFacts
<1>1. ASSUME NEW w \in Workers, Loop(w) PROVE TypeOK'
  <2>1. CASE Fetch(w)
    BY <2>1, LogFacts DEF Fetch, Offsets
  <2>2. CASE Check(w) \/ LeaseHeld(w)
    BY <1>len, <2>2 DEF Check, LeaseHeld
  <2>3. CASE ClaimLease(w)
    BY <1>0, <2>3 DEF ClaimLease
  <2>4. CASE HandleOk(w)
    <3>1. Key(w) \in Keys /\ effects[Key(w)] \in 0..2
      BY <1>0, <2>4 DEF HandleOk
    <3>2. effects' \in [Keys -> 0..2]
      BY <3>1, <2>4 DEF HandleOk
    <3>3. QED
      BY <2>4, <3>2 DEF HandleOk
  <2>5. CASE Complete(w)
    <3>1. processed' \subseteq Keys
      BY <1>0, <2>5 DEF Complete
    <3>2. QED
      BY <2>5, <3>1 DEF Complete
  <2>6. CASE Release(w) \/ Abandon(w)
    <3>1. lease' \in [Keys -> Workers \cup {None}]
      BY <1>0, <2>6 DEF Release, Abandon, DeleteLease
    <3>2. QED
      <4>1. CASE Release(w)
        BY <4>1, <3>1 DEF Release
      <4>2. CASE Abandon(w)
        BY <1>len, <4>2, <3>1 DEF Abandon
      <4>3. QED
        BY <2>6, <4>1, <4>2
  <2>7. CASE Commit(w)
    <3>1. msg[w] \in Offsets /\ msg[w] + 1 \in 1..(Len(Log) + 1)
      BY <2>7, LogFacts DEF Commit, MsgInv, Offsets
    <3>2. QED
      BY <2>7, <3>1 DEF Commit
  <2>8. QED
    BY <1>1, <2>1, <2>2, <2>3, <2>4, <2>5, <2>6, <2>7 DEF Loop
<1>2. ASSUME NEW w \in Workers, Failure(w) PROVE TypeOK'
  <2>1. CASE HandleError(w)
    <3>1. Spend("handler")
      BY <2>1 DEF HandleError
    <3>2. QED
      BY <2>1, <3>1, SpendType DEF HandleError, OnHandleError, Trouble
  <2>2. CASE CompleteError(w) \/ CallError(w) \/ ReleaseLost(w)
    <3>1. Spend("call")
      BY <2>2 DEF CompleteError, CallError, ReleaseLost
    <3>2. used' \in [Trouble -> Nat] /\ \A u \in Trouble : used'[u] <= Max[u]
      BY <3>1, SpendType DEF Trouble
    <3>3. disturbed' \subseteq Keys
      BY <1>0, <2>2 DEF CompleteError, CallError, ReleaseLost
    <3>4. QED
      <4>1. CASE CompleteError(w)
        BY <4>1, <3>2, <3>3 DEF CompleteError
      <4>2. CASE CallError(w)
        BY <1>len, <4>2, <3>2 DEF CallError
      <4>3. CASE ReleaseLost(w)
        <5>1. CASE pc[w] = "release"
          <6>1. /\ pc' = [pc EXCEPT ![w] = "commit"]
                /\ UNCHANGED <<groupVars, redisVars, pos, msg, effects, disturbed, overtaken>>
            BY <4>3, <5>1 DEF ReleaseLost
          <6>2. QED
            BY <6>1, <3>2
        <5>2. CASE pc[w] = "abandon"
          <6>1. Continue(w) /\ UNCHANGED <<groupVars, redisVars, pos, effects, disturbed>>
            BY <4>3, <5>2 DEF ReleaseLost
          <6>2. QED
            BY <1>len, <6>1, <3>2
        <5>3. QED
          BY <4>3, <5>1, <5>2 DEF ReleaseLost
      <4>4. QED
        BY <2>2, <4>1, <4>2, <4>3
  <2>3. CASE Crash(w)
    <3>1. Spend("crash")
      BY <2>3 DEF Crash
    <3>2. used' \in [Trouble -> Nat] /\ \A u \in Trouble : used'[u] <= Max[u]
      BY <3>1, SpendType DEF Trouble
    <3>3. QED
      BY <1>0, <1>len, <2>3, <3>2 DEF Crash
  <2>4. QED
    BY <1>2, <2>1, <2>2, <2>3 DEF Failure
<1>3. ASSUME NEW w \in Workers, Assign(w) \/ Rebalance(w) PROVE TypeOK'
  <2>1. used' \in [Trouble -> Nat] /\ \A u \in Trouble : used'[u] <= Max[u]
    BY <1>3, SpendType DEF Assign, Rebalance, Trouble
  <2>2. QED
    BY <1>3, <2>1 DEF Assign, Rebalance, Own, StartOffset
<1>4. ASSUME NEW w \in Workers, LapseHeld(w) PROVE TypeOK'
  <2>1. used' \in [Trouble -> Nat] /\ \A u \in Trouble : used'[u] <= Max[u]
    BY <1>4, SpendType DEF LapseHeld, Trouble
  <2>2. Key(w) \in Keys
    BY <1>4 DEF LapseHeld, Holds, Key, MsgInv
  <2>3. QED
    BY <1>4, <2>1, <2>2 DEF LapseHeld
<1>5. ASSUME NEW k \in Keys, LapseFree(k) \/ Expire(k) PROVE TypeOK'
  <2>1. used' \in [Trouble -> Nat] /\ \A u \in Trouble : used'[u] <= Max[u]
    BY <1>5, SpendType DEF LapseFree, Expire, Trouble
  <2>2. QED
    BY <1>5, <2>1 DEF LapseFree, Expire
<1>6. CASE UNCHANGED vars
  BY <1>6 DEF vars
<1>7. QED
  BY <1>1, <1>2, <1>3, <1>4, <1>5, <1>6 DEF Next

\* The message in hand stays what its step of the loop needs.
LEMMA MsgStep == TypeOK /\ MsgInv /\ [Next]_vars => MsgInv'
<1> SUFFICES ASSUME TypeOK, MsgInv, [Next]_vars, NEW v \in Workers
             PROVE  /\ pc'[v] # "fetch" => msg'[v] \in Offsets
                    /\ pc'[v] \notin {"fetch", "commit"} => Log[msg'[v]] \in Keys
                    /\ pc'[v] \in {"fetch", "check", "claim"} => v \notin overtaken'
  BY DEF MsgInv
<1> USE LogFacts DEF TypeOK, MsgInv, groupVars, redisVars, workerVars, historyVars, GoTo, Continue
<1>1. CASE \E w \in Workers : Loop(w)
  BY <1>1 DEF Loop, Fetch, Check, ClaimLease, LeaseHeld, HandleOk, Complete, Release, Abandon, Commit
<1>2. CASE \E w \in Workers : Failure(w)
  BY <1>2 DEF Failure, HandleError, OnHandleError, CompleteError, CallError, ReleaseLost, Crash
<1>3. CASE \E w \in Workers : Assign(w) \/ Rebalance(w) \/ LapseHeld(w)
  BY <1>3 DEF Assign, Rebalance, Own, LapseHeld, Holds
<1>4. CASE \E k \in Keys : LapseFree(k) \/ Expire(k)
  BY <1>4 DEF LapseFree, Expire
<1>5. CASE UNCHANGED vars
  BY <1>5 DEF vars
<1>6. QED
  BY <1>1, <1>2, <1>3, <1>4, <1>5 DEF Next

\* A claim finds the lease free, so no attempt on the key is protected by it.
LEMMA LeaseStep == TypeOK /\ MsgInv /\ LeaseInv /\ [Next]_vars => LeaseInv'
<1> SUFFICES ASSUME TypeOK, MsgInv, LeaseInv, [Next]_vars,
                    NEW v \in Workers, Attempting(v)'
             PROVE  IF v \in overtaken' THEN Log[msg'[v]] \in disturbed'
                                        ELSE lease'[Log[msg'[v]]] = v
  BY DEF LeaseInv, Key
<1> DEFINE Kept == /\ Attempting(v)
                   /\ msg'[v] = msg[v]
                   /\ v \in overtaken' <=> v \in overtaken
                   /\ disturbed \subseteq disturbed'
<1> USE DEF TypeOK, groupVars, redisVars, workerVars, historyVars, GoTo, Continue, Key, Attempting
<1>1. ASSUME Kept, v \notin overtaken => lease'[Key(v)] = lease[Key(v)]
      PROVE  IF v \in overtaken' THEN Log[msg'[v]] \in disturbed' ELSE lease'[Log[msg'[v]]] = v
  BY <1>1 DEF LeaseInv
<1>2. ASSUME NEW w \in Workers, Loop(w)
      PROVE  IF v \in overtaken' THEN Log[msg'[v]] \in disturbed' ELSE lease'[Log[msg'[v]]] = v
  <2>1. CASE Fetch(w) \/ Check(w) \/ LeaseHeld(w) \/ HandleOk(w) \/ Complete(w) \/ Commit(w)
    <3>1. Kept /\ lease' = lease
      BY <2>1 DEF Fetch, Check, LeaseHeld, HandleOk, Complete, Commit
    <3>2. QED
      BY <1>1, <3>1
  <2>2. CASE ClaimLease(w)
    <3>1. CASE v = w
      BY <2>2, <3>1 DEF ClaimLease, MsgInv
    <3>2. CASE v # w
      <4>1. Kept
        BY <2>2, <3>2 DEF ClaimLease
      <4>2. v \notin overtaken => lease[Key(v)] = v /\ Key(w) # Key(v)
        BY <2>2, <4>1, ConsumerConstants DEF ClaimLease, LeaseFree, LeaseInv
      <4>3. QED
        BY <1>1, <2>2, <4>1, <4>2 DEF ClaimLease
    <3>3. QED
      BY <3>1, <3>2
  <2>3. CASE Release(w) \/ Abandon(w)
    <3>1. v # w /\ Kept
      BY <2>3 DEF Release, Abandon
    <3>2. v \notin overtaken => lease[Key(v)] = v
      BY <3>1 DEF LeaseInv
    <3>3. v \notin overtaken => lease'[Key(v)] = lease[Key(v)]
      BY <2>3, <3>1, <3>2 DEF Release, Abandon, DeleteLease, OwnsLease, MsgInv
    <3>4. QED
      BY <1>1, <3>1, <3>3
  <2>4. QED
    BY <1>2, <2>1, <2>2, <2>3 DEF Loop
<1>3. ASSUME NEW w \in Workers, Failure(w)
      PROVE  IF v \in overtaken' THEN Log[msg'[v]] \in disturbed' ELSE lease'[Log[msg'[v]]] = v
  <2>1. Kept /\ lease' = lease
    BY <1>3 DEF Failure, HandleError, OnHandleError, CompleteError, CallError, ReleaseLost, Crash
  <2>2. QED
    BY <1>1, <2>1
<1>4. ASSUME NEW w \in Workers, Assign(w) \/ Rebalance(w)
      PROVE  IF v \in overtaken' THEN Log[msg'[v]] \in disturbed' ELSE lease'[Log[msg'[v]]] = v
  BY <1>1, <1>4 DEF Assign, Rebalance, Own
<1>5. ASSUME NEW w \in Workers, LapseHeld(w)
      PROVE  IF v \in overtaken' THEN Log[msg'[v]] \in disturbed' ELSE lease'[Log[msg'[v]]] = v
  <2>1. CASE v = w
    BY <1>5, <2>1 DEF LapseHeld, Holds
  <2>2. CASE v # w
    <3>1. Kept
      BY <1>5, <2>2 DEF LapseHeld
    <3>2. v \notin overtaken => lease[Key(v)] = v /\ lease[Key(w)] = w
      BY <1>5, <3>1 DEF LapseHeld, Holds, LeaseInv
    <3>3. v \notin overtaken => lease'[Key(v)] = lease[Key(v)]
      BY <1>5, <2>2, <3>2 DEF LapseHeld
    <3>4. QED
      BY <1>1, <3>1, <3>3
  <2>3. QED
    BY <2>1, <2>2
<1>6. ASSUME NEW k \in Keys, LapseFree(k) \/ Expire(k)
      PROVE  IF v \in overtaken' THEN Log[msg'[v]] \in disturbed' ELSE lease'[Log[msg'[v]]] = v
  <2>1. Kept
    BY <1>6 DEF LapseFree, Expire
  <2>2. v \notin overtaken => lease[Key(v)] = v
    BY <2>1 DEF LeaseInv
  <2>3. v \notin overtaken => lease'[Key(v)] = lease[Key(v)]
    <3>1. CASE LapseFree(k)
      BY <2>1, <2>2, <3>1 DEF LapseFree, Holds, MsgInv
    <3>2. CASE Expire(k)
      BY <3>2 DEF Expire
    <3>3. QED
      BY <1>6, <3>1, <3>2
  <2>4. QED
    BY <1>1, <2>1, <2>3
<1>7. CASE UNCHANGED vars
  BY <1>1, <1>7 DEF vars
<1>8. QED
  BY <1>2, <1>3, <1>4, <1>5, <1>6, <1>7 DEF Next

\* What is complete, processed or ready to commit has had its effect.
LEMMA DoneStep == TypeOK /\ MsgInv /\ DoneInv /\ [Next]_vars => DoneInv'
<1> SUFFICES ASSUME TypeOK, MsgInv, DoneInv, [Next]_vars PROVE DoneInv'
  OBVIOUS
<1> USE DEF groupVars, redisVars, workerVars, historyVars, GoTo, Continue
<1>1. ASSUME NEW k \in Keys, effects[k] > 0 PROVE effects'[k] > 0
  <2>1. CASE \E w \in Workers : HandleOk(w)
    <3>1. PICK w \in Workers : HandleOk(w)
      BY <2>1
    <3>2. effects \in [Keys -> 0..2] /\ effects[k] \in 1..2
      BY <1>1 DEF TypeOK
    <3>3. effects'[k] = effects[k] \/ effects'[k] = effects[k] + 1
      BY <3>1, <3>2 DEF HandleOk
    <3>4. QED
      BY <3>2, <3>3
  <2>2. CASE ~\E w \in Workers : HandleOk(w)
    <3>1. effects' = effects
      BY <2>2 DEF Next, vars, Loop, Fetch, Check, ClaimLease, LeaseHeld, Complete, Release, Abandon,
        Commit, Failure, HandleError, CompleteError, CallError, ReleaseLost, Crash, Assign,
        Rebalance, Own, LapseHeld, LapseFree, Expire
    <3>2. QED
      BY <1>1, <3>1
  <2>3. QED
    BY <2>1, <2>2
<1>2. ASSUME NEW o \in Offsets, Done(o) PROVE Done(o)'
  BY <1>1, <1>2, LogFacts DEF Done
<1>3. ASSUME NEW k \in processed' PROVE effects'[k] > 0
  <2>1. CASE k \in processed
    BY <1>1, <2>1 DEF TypeOK, DoneInv
  <2>2. CASE k \notin processed
    <3>1. PICK w \in Workers : Complete(w) /\ k = Key(w)
      BY <1>3, <2>2 DEF Next, vars, Loop, Fetch, Check, ClaimLease, LeaseHeld, HandleOk, Complete,
        Release, Abandon, Commit, Failure, HandleError, CompleteError, CallError, ReleaseLost,
        Crash, Assign, Rebalance, Own, LapseHeld, LapseFree, Expire
    <3>2. effects[k] > 0 /\ k \in Keys
      BY <3>1 DEF Complete, DoneInv, MsgInv, Key
    <3>3. QED
      BY <1>1, <3>2
  <2>3. QED
    BY <2>1, <2>2
<1>4. ASSUME NEW v \in Workers
      PROVE  /\ pc'[v] \in {"complete", "release"} => effects'[Key(v)'] > 0
             /\ pc'[v] = "commit" => Done(msg[v])'
  <2>1. ASSUME NEW w \in Workers, Loop(w), v = w
        PROVE  /\ pc'[v] \in {"complete", "release"} => effects'[Key(v)'] > 0
               /\ pc'[v] = "commit" => Done(msg[v])'
    <3>1. CASE Fetch(w)
      BY <2>1, <3>1, LogFacts DEF Fetch, TypeOK, Done
    <3>2. CASE Check(w)
      <4>1. msg'[v] = msg[v] /\ effects' = effects /\ pc'[v] \in {"commit", "claim"}
        BY <2>1, <3>2 DEF Check, TypeOK
      <4>2. pc'[v] = "commit" => effects[Key(v)] > 0
        BY <2>1, <3>2 DEF Check, Seen, TypeOK, DoneInv
      <4>3. QED
        BY <4>1, <4>2 DEF Done, Key
    <3>3. CASE HandleOk(w)
      <4>1. pc'[v] = "complete" /\ msg'[v] = msg[v]
        BY <2>1, <3>3 DEF HandleOk, TypeOK
      <4>2. Key(v) \in Keys /\ effects \in [Keys -> 0..2]
        BY <2>1, <3>3 DEF HandleOk, TypeOK, MsgInv, Key
      <4>3. effects'[Key(v)] > 0
        BY <2>1, <3>3, <4>2 DEF HandleOk
      <4>4. QED
        BY <4>1, <4>3 DEF Key
    <3>4. CASE Complete(w)
      BY <2>1, <3>4 DEF Complete, TypeOK, DoneInv, Key
    <3>5. CASE Release(w)
      BY <2>1, <3>5 DEF Release, TypeOK, DoneInv, Key, Done
    <3>6. CASE ClaimLease(w) \/ LeaseHeld(w) \/ Abandon(w) \/ Commit(w)
      BY <2>1, <3>6 DEF ClaimLease, LeaseHeld, Abandon, Commit, TypeOK
    <3>7. QED
      BY <2>1, <3>1, <3>2, <3>3, <3>4, <3>5, <3>6 DEF Loop
  <2>2. ASSUME NEW w \in Workers, Failure(w), v = w
        PROVE  /\ pc'[v] \in {"complete", "release"} => effects'[Key(v)'] > 0
               /\ pc'[v] = "commit" => Done(msg[v])'
    <3>1. CASE ReleaseLost(w)
      <4>1. CASE pc[w] = "release"
        <5>1. pc'[v] = "commit" /\ msg'[v] = msg[v] /\ effects' = effects /\ effects[Key(v)] > 0
          BY <2>2, <3>1, <4>1 DEF ReleaseLost, TypeOK, DoneInv
        <5>2. QED
          BY <5>1 DEF Done, Key
      <4>2. CASE pc[w] = "abandon"
        BY <2>2, <3>1, <4>2 DEF ReleaseLost, TypeOK
      <4>3. QED
        BY <3>1, <4>1, <4>2 DEF ReleaseLost
    <3>2. CASE HandleError(w) \/ CompleteError(w) \/ CallError(w) \/ Crash(w)
      BY <2>2, <3>2 DEF HandleError, OnHandleError, CompleteError, CallError, Crash, TypeOK
    <3>3. QED
      BY <2>2, <3>1, <3>2 DEF Failure
  <2>3. ASSUME pc'[v] = pc[v], msg'[v] = msg[v]
        PROVE  /\ pc'[v] \in {"complete", "release"} => effects'[Key(v)'] > 0
               /\ pc'[v] = "commit" => Done(msg[v])'
    <3>1. pc[v] \in {"complete", "release"} => Key(v) \in Keys /\ effects'[Key(v)] > 0
      BY <1>1 DEF DoneInv, MsgInv, Key
    <3>2. pc[v] = "commit" => msg[v] \in Offsets /\ Done(msg[v])
      BY DEF DoneInv, MsgInv
    <3>3. pc[v] = "commit" => Log[msg[v]] = Garbage \/ effects'[Log[msg[v]]] > 0
      BY <1>2, <3>2 DEF Done
    <3>4. QED
      BY <2>3, <3>1, <3>3 DEF Key, Done
  <2>4. ASSUME ~(Loop(v) \/ Failure(v)) PROVE pc'[v] = pc[v] /\ msg'[v] = msg[v]
    <3>1. CASE \E w \in Workers \ {v} : Loop(w)
      BY <3>1 DEF Loop, Fetch, Check, ClaimLease, LeaseHeld, HandleOk, Complete, Release, Abandon,
        Commit, TypeOK
    <3>2. CASE \E w \in Workers \ {v} : Failure(w)
      BY <3>2 DEF Failure, HandleError, OnHandleError, CompleteError, CallError, ReleaseLost, Crash,
        TypeOK
    <3>3. CASE \/ \E w \in Workers : Assign(w) \/ Rebalance(w) \/ LapseHeld(w)
               \/ \E k \in Keys : LapseFree(k) \/ Expire(k)
      BY <3>3 DEF Assign, Rebalance, Own, LapseHeld, LapseFree, Expire
    <3>4. QED
      BY <2>4, <3>1, <3>2, <3>3 DEF Next, vars
  <2>5. QED
    BY <2>1, <2>2, <2>3, <2>4
<1>5. QED
  BY <1>3, <1>4 DEF DoneInv

\* An undisturbed event has at most one effect: whoever might run its handler holds
\* its lease, and the claim saw no "processed:" key.
LEMMA OnceStep ==
  TypeOK /\ MsgInv /\ LeaseInv /\ OnceInv /\ [Next]_vars => OnceInv'
<1> DEFINE Showing(k) == k \in processed \/ \E w \in Workers : pc[w] = "complete" /\ Key(w) = k
           Once(k) == /\ effects[k] <= 1
                      /\ effects[k] = 1 => Showing(k)
                      /\ \A w \in Workers : pc[w] = "handle" /\ Key(w) = k => effects[k] = 0
<1> SUFFICES ASSUME TypeOK, MsgInv, LeaseInv, OnceInv, [Next]_vars,
                    NEW k \in Keys, k \notin disturbed'
             PROVE  Once(k)'
  BY DEF OnceInv
<1> USE DEF TypeOK, groupVars, redisVars, workerVars, historyVars, GoTo, Continue, Key
<1>1. k \notin disturbed
  BY DEF Next, vars, Loop, Fetch, Check, ClaimLease, LeaseHeld, HandleOk, Complete, Release, Abandon,
    Commit, Failure, HandleError, CompleteError, CallError, ReleaseLost, Crash, Assign,
    Rebalance, Own, LapseHeld, LapseFree, Expire
<1>2. Once(k) /\ effects[k] \in {0, 1}
  BY <1>1 DEF OnceInv
<1>3. \A v \in Workers : Attempting(v) /\ Key(v) = k => lease[k] = v
  BY <1>1 DEF LeaseInv
<1> HIDE DEF Once, Showing
<1>4. ASSUME effects' = effects, Showing(k) => Showing(k)',
             \A v \in Workers : pc'[v] = "handle" /\ Key(v)' = k => pc[v] = "handle" /\ Key(v) = k
      PROVE  Once(k)'
  BY <1>2, <1>4 DEF Once
<1>5. ASSUME NEW w \in Workers, Loop(w) PROVE Once(k)'
  <2>1. CASE Fetch(w) \/ Check(w) \/ LeaseHeld(w) \/ Release(w) \/ Abandon(w) \/ Commit(w)
    <3>1. effects' = effects /\ processed' = processed
      BY <2>1 DEF Fetch, Check, LeaseHeld, Release, Abandon, Commit
    <3>2. \A v \in Workers \ {w} : pc'[v] = pc[v] /\ msg'[v] = msg[v]
      BY <2>1 DEF Fetch, Check, LeaseHeld, Release, Abandon, Commit
    <3>3. pc[w] # "complete" /\ pc'[w] # "handle"
      BY <2>1 DEF Fetch, Check, LeaseHeld, Release, Abandon, Commit
    <3>4. QED
      BY <1>4, <3>1, <3>2, <3>3 DEF Showing
  <2>2. CASE ClaimLease(w)
    <3>1. /\ effects' = effects /\ processed' = processed /\ msg' = msg
          /\ pc[w] = "claim" /\ pc' = [pc EXCEPT ![w] = "handle"]
      BY <2>2 DEF ClaimLease
    <3>2. CASE Key(w) # k
      BY <1>4, <3>1, <3>2 DEF Showing
    <3>3. CASE Key(w) = k
      <4>1. k \notin processed /\ lease[k] = None
        BY <2>2, <3>3 DEF ClaimLease, LeaseFree
      <4>2. ~Showing(k)
        BY <1>3, <4>1, ConsumerConstants DEF Showing, Attempting
      <4>3. effects[k] = 0
        BY <1>2, <4>2 DEF Once
      <4>4. QED
        BY <3>1, <4>3 DEF Once
    <3>4. QED
      BY <3>2, <3>3
  <2>3. CASE HandleOk(w)
    <3>1. /\ processed' = processed /\ msg' = msg
          /\ pc[w] = "handle" /\ pc' = [pc EXCEPT ![w] = "complete"]
      BY <2>3 DEF HandleOk
    <3>2. CASE Key(w) # k
      <4>1. effects'[k] = effects[k]
        BY <2>3, <3>2 DEF HandleOk
      <4>2. QED
        BY <1>2, <3>1, <4>1 DEF Once, Showing
    <3>3. CASE Key(w) = k
      <4>1. effects[k] = 0
        BY <1>2, <3>1, <3>3 DEF Once
      <4>2. effects'[k] = 1
        BY <2>3, <3>3, <4>1 DEF HandleOk
      <4>3. Showing(k)'
        BY <3>1, <3>3 DEF Showing
      <4>4. \A v \in Workers : ~(pc'[v] = "handle" /\ Key(v)' = k)
        BY <1>3, <3>1, <3>3 DEF Attempting
      <4>5. QED
        BY <4>2, <4>3, <4>4 DEF Once
    <3>4. QED
      BY <3>2, <3>3
  <2>4. CASE Complete(w)
    <3>1. /\ effects' = effects /\ processed' = processed \cup {Key(w)} /\ msg' = msg
          /\ pc[w] = "complete" /\ pc' = [pc EXCEPT ![w] = "release"]
      BY <2>4 DEF Complete
    <3>2. QED
      BY <1>4, <3>1 DEF Showing
  <2>5. QED
    BY <1>5, <2>1, <2>2, <2>3, <2>4 DEF Loop
<1>6. ASSUME NEW w \in Workers, Failure(w) PROVE Once(k)'
  <2>1. effects' = effects /\ processed' = processed
    BY <1>6 DEF Failure, HandleError, CompleteError, CallError, ReleaseLost, Crash
  <2>2. \A v \in Workers \ {w} : pc'[v] = pc[v] /\ msg'[v] = msg[v]
    BY <1>6 DEF Failure, HandleError, OnHandleError, CompleteError, CallError, ReleaseLost, Crash
  <2>3. pc'[w] # "handle"
    BY <1>6 DEF Failure, HandleError, OnHandleError, CompleteError, CallError, ReleaseLost, Crash
  <2>4. pc[w] = "complete" => Key(w) # k
    BY <1>6 DEF Failure, HandleError, CompleteError, CallError, ReleaseLost, Crash
  <2>5. QED
    BY <1>4, <2>1, <2>2, <2>3, <2>4 DEF Showing
<1>7. ASSUME \/ \E w \in Workers : Assign(w) \/ Rebalance(w) \/ LapseHeld(w)
             \/ \E j \in Keys : LapseFree(j) \/ Expire(j)
             \/ UNCHANGED vars
      PROVE  Once(k)'
  <2>1. effects' = effects /\ pc' = pc /\ msg' = msg
    BY <1>7 DEF Assign, Rebalance, Own, LapseHeld, LapseFree, Expire, vars
  <2>2. k \in processed => k \in processed'
    BY <1>7 DEF Assign, Rebalance, Own, LapseHeld, LapseFree, Expire, vars
  <2>3. QED
    BY <1>4, <2>1, <2>2 DEF Showing
<1>8. QED
  BY <1>5, <1>6, <1>7 DEF Next

-----------------------------------------------------------------------------
\* The invariant holds in every reachable state.
THEOREM Invariance == Spec => []IInv
<1>1. IInv /\ [Next]_vars => IInv'
  BY TypeStep, MsgStep, LeaseStep, DoneStep, OnceStep DEF IInv
<1>2. QED
  BY InitIInv, <1>1, PTL DEF Spec

\* Every variable keeps to its type, whatever fails or restarts.
THEOREM TypeCorrect == Spec => []TypeOK
  BY Invariance, PTL DEF IInv

\* The lease excludes two concurrent runs of one event's handler, unless 30 seconds
\* passed under one of them.
THEOREM HandlersExclude == Spec => []ExclusiveHandling
<1>1. IInv => ExclusiveHandling
  BY DEF IInv, ExclusiveHandling, LeaseInv, Attempting
<1>2. QED
  BY Invariance, <1>1, PTL

\* The list of causes of a double effect is complete.
THEOREM DoubleEffectExplained == Spec => []DoubleEffectNeedsCause
<1>1. IInv => DoubleEffectNeedsCause
  <2> SUFFICES ASSUME IInv, NEW k \in Keys, effects[k] > 1, k \notin disturbed
               PROVE  FALSE
    BY DEF DoubleEffectNeedsCause
  <2>1. effects[k] \in Nat /\ effects[k] <= 1
    BY DEF IInv, TypeOK, OnceInv
  <2>2. QED
    BY <2>1
<1>2. QED
  BY Invariance, <1>1, PTL

\* No worker commits a message whose event has had no effect.
THEOREM CommitsAreEarned == Spec => CommitsOnlyDone
<1>1. IInv /\ [Next]_vars => [committed' # committed => Done(committed' - 1)]_vars
  <2> SUFFICES ASSUME IInv, Next, committed' # committed
               PROVE  Done(committed' - 1)
    BY DEF vars
  <2>1. PICK w \in Workers : Commit(w)
    BY DEF Next, groupVars, Loop, Fetch, Check, ClaimLease, LeaseHeld, HandleOk, Complete, Release,
      Abandon, Failure, HandleError, CompleteError, CallError, ReleaseLost, Crash, Assign,
      Rebalance, Own, LapseHeld, LapseFree, Expire
  <2>2. msg[w] \in Offsets /\ Done(msg[w])
    BY <2>1 DEF IInv, MsgInv, DoneInv, Commit
  <2>3. committed' - 1 = msg[w]
    BY <2>1, <2>2, LogFacts DEF Commit
  <2>4. QED
    BY <2>2, <2>3
<1>2. QED
  BY Invariance, <1>1, PTL DEF Spec, CommitsOnlyDone
=============================================================================
