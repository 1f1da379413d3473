--------------------------- MODULE RecoveryProofs ---------------------------
(***************************************************************************)
(* Theorems about what comes back by itself, for any set of callers, any   *)
(* limits, any number of mounts, sockets, typists, threads and replies:    *)
(* the circuit breaker and its callers, the connection and the thread      *)
(* panel of the web client.                                                *)
(***************************************************************************)
EXTENDS MCRecovery, FiniteSetTheorems, TLAPS

-----------------------------------------------------------------------------
(* The breaker.  The argument is about time: an operation in flight while  *)
(* the circuit is open was let through before it opened, so it is at least *)
(* as old as the open window (OpenInv).  No operation reaches the age      *)
(* ResetTimeout, so when the window ends nobody is in flight, and the      *)
(* probe is alone (HalfInv).                                               *)

\* the reservation is exactly the half-open state
ProbeInv == probeInFlight <=> state = "halfOpen"

\* a closed circuit is below its limit
ClosedInv == state = "closed" => failures < FailureLimit

\* operations in flight are older than the open window
OpenInv == state = "open" => \A c \in InFlight : openAge <= age[c]

\* the half-open circuit has one operation in flight
HalfInv == state = "halfOpen" => \E p \in Callers : InFlight = {p}

IInv == TypeOK /\ ProbeInv /\ ClosedInv /\ OpenInv /\ HalfInv

-----------------------------------------------------------------------------
\* The initial states satisfy the invariant.
LEMMA InitIInv == Init => IInv
<1> SUFFICES ASSUME Init PROVE IInv
  OBVIOUS
<1> USE BreakerConstants, ClientConstants DEF Init, BreakerInit
<1>1. BreakerTypeOK
  <2>1. 0 \in 0..FailureLimit /\ 0 \in 0..ResetTimeout
    OBVIOUS
  <2>2. QED
    BY <2>1 DEF BreakerTypeOK
<1>2. TypeOK
  <2>1. 0 \in 0..(MaxAttempts - 1) /\ 0 \in 0..OpTimeout
    OBVIOUS
  <2>2. QED
    BY <1>1, <2>1 DEF TypeOK
<1>3. ProbeInv /\ ClosedInv /\ OpenInv /\ HalfInv
  BY DEF ProbeInv, ClosedInv, OpenInv, HalfInv
<1>4. QED
  BY <1>2, <1>3 DEF IInv

\* A circuit that lets a request through is closed, or nobody is in flight.
LEMMA AllowMeansQuiet ==
  ASSUME IInv, Allow
  PROVE  \/ state = "closed" /\ UNCHANGED breakerVars
         \/ /\ state = "open" /\ state' = "halfOpen" /\ probeInFlight'
            /\ UNCHANGED <<failures, openAge>>
            /\ InFlight = {}
<1> USE DEF IInv, Allow, breakerVars
<1>1. CASE state = "closed"
  BY <1>1
<1>2. CASE state = "halfOpen"
  BY <1>2 DEF ProbeInv, Allowed
<1>3. CASE state = "open"
  <2>1. ASSUME NEW c \in InFlight PROVE FALSE
    <3>1. age[c] \in Nat /\ age[c] <= OpTimeout /\ openAge \in Nat /\ openAge <= age[c]
      BY <1>3, <2>1, ClientConstants, BreakerConstants
      DEF TypeOK, BreakerTypeOK, OpenInv, InFlight
    <3>2. openAge >= ResetTimeout
      BY <1>3 DEF Allowed
    <3>3. QED
      BY <3>1, <3>2, ClientConstants, BreakerConstants
  <2>2. QED
    BY <1>3, <2>1
<1>4. QED
  BY <1>1, <1>2, <1>3 DEF TypeOK, BreakerTypeOK

\* What the three ways of reporting a result can do to the breaker.
Settled ==
  \/ /\ state = "closed" /\ state' = "closed" /\ failures' \in 0..(FailureLimit - 1)
     /\ UNCHANGED <<openAge, probeInFlight>>
  \/ /\ state \in {"closed", "halfOpen"} /\ state' = "open" /\ openAge' = 0
     /\ failures' \in 0..FailureLimit /\ probeInFlight' = FALSE
  \/ /\ state = "halfOpen" /\ state' = "closed" /\ failures' = 0 /\ probeInFlight' = FALSE
     /\ UNCHANGED openAge
  \/ state = "open" /\ UNCHANGED breakerVars

LEMMA ReportSettles ==
  ASSUME IInv, RecordSuccess \/ RecordFailure \/ AbortProbe
  PROVE  Settled
<1> USE BreakerConstants
        DEF IInv, TypeOK, BreakerTypeOK, ProbeInv, ClosedInv, ProbePending, openLocked, breakerVars
<1>1. CASE RecordSuccess
  BY <1>1 DEF RecordSuccess, Settled
<1>2. CASE RecordFailure
  BY <1>2 DEF RecordFailure, Settled
<1>3. CASE AbortProbe
  BY <1>3 DEF AbortProbe, Settled
<1>4. QED
  BY <1>1, <1>2, <1>3

\* Reporting the result of an operation and returning keeps the invariant.
LEMMA FinishStep ==
  ASSUME IInv, NEW c \in InFlight, Settled, Finish(c), healthy' \in BOOLEAN
  PROVE  IInv'
<1> USE BreakerConstants, ClientConstants DEF IInv, Finish
<1>1. c \in Callers /\ InFlight' = InFlight \ {c}
  BY DEF TypeOK, InFlight
<1>2. TypeOK'
  <2>1. BreakerTypeOK'
    <3>1. failures' \in 0..FailureLimit /\ openAge' \in 0..ResetTimeout
      BY DEF TypeOK, BreakerTypeOK, Settled, breakerVars
    <3>2. state' \in {"closed", "open", "halfOpen"} /\ probeInFlight' \in BOOLEAN
      BY DEF TypeOK, BreakerTypeOK, Settled, breakerVars
    <3>3. QED
      BY <3>1, <3>2 DEF BreakerTypeOK
  <2>2. QED
    BY <1>1, <2>1 DEF TypeOK
<1>3. ProbeInv' /\ ClosedInv'
  BY DEF ProbeInv, ClosedInv, Settled, breakerVars, TypeOK, BreakerTypeOK
<1>4. OpenInv'
  <2>1. \A b \in InFlight' : b \in Callers /\ b # c /\ age'[b] = age[b] /\ age[b] \in Nat
    BY <1>1 DEF TypeOK, InFlight
  <2>2. CASE state = "open" /\ UNCHANGED breakerVars
    BY <1>1, <2>1, <2>2 DEF OpenInv, breakerVars
  <2>3. CASE openAge' = 0
    BY <2>1, <2>3 DEF OpenInv
  <2>4. QED
    BY <2>2, <2>3 DEF Settled, OpenInv
<1>5. HalfInv'
  BY DEF HalfInv, Settled, breakerVars
<1>6. QED
  BY <1>2, <1>3, <1>4, <1>5

\* Every step keeps the invariant.
LEMMA NextIInv == IInv /\ [Next]_vars => IInv'
<1> SUFFICES ASSUME IInv, [Next]_vars PROVE IInv'
  OBVIOUS
<1> USE BreakerConstants, ClientConstants
<1>1. ASSUME NEW c \in Callers, Admit(c) PROVE IInv'
  <2> USE DEF Admit
  <2>1. InFlight' = InFlight \cup {c} /\ c \notin InFlight
    BY <1>1 DEF InFlight, IInv, TypeOK
  <2>2. CASE state = "closed" /\ UNCHANGED breakerVars
    BY <1>1, <2>2
    DEF breakerVars, IInv, TypeOK, BreakerTypeOK, ProbeInv, ClosedInv, OpenInv, HalfInv
  <2>3. CASE /\ state = "open" /\ state' = "halfOpen" /\ probeInFlight'
             /\ UNCHANGED <<failures, openAge>>
             /\ InFlight = {}
    <3>1. InFlight' = {c}
      BY <2>1, <2>3
    <3>2. TypeOK'
      BY <1>1, <2>3 DEF IInv, TypeOK, BreakerTypeOK
    <3>3. QED
      BY <1>1, <2>3, <3>1, <3>2 DEF IInv, TypeOK, BreakerTypeOK, ProbeInv, ClosedInv, OpenInv, HalfInv
  <2>4. QED
    BY <1>1, <2>2, <2>3, AllowMeansQuiet
<1>2. ASSUME NEW c \in Callers, CallOk(c) \/ CallRefused(c) \/ CallExhausted(c) \/ Cancel(c)
      PROVE  IInv'
  <2>1. c \in InFlight /\ Finish(c) /\ UNCHANGED healthy
    BY <1>2 DEF CallOk, CallRefused, CallExhausted, Cancel, InFlight
  <2>2. RecordSuccess \/ RecordFailure \/ AbortProbe
    BY <1>2 DEF CallOk, CallRefused, CallExhausted, Cancel, ReportCancel
  <2>3. healthy' \in BOOLEAN
    BY <2>1 DEF IInv, TypeOK
  <2>4. QED
    BY <2>1, <2>2, <2>3, ReportSettles, FinishStep
<1>3. ASSUME NEW c \in Callers, CallTransient(c) \/ WaitDone(c) PROVE IInv'
  <2>1. InFlight' = InFlight /\ age' = age /\ UNCHANGED breakerVars
    BY <1>3 DEF CallTransient, WaitDone, InFlight, IInv, TypeOK
  <2>2. attempt' \in [Callers -> 0..(MaxAttempts - 1)]
    <3>1. attempt[c] \in 0..(MaxAttempts - 1)
      BY DEF IInv, TypeOK
    <3>2. CallTransient(c) => attempt[c] + 1 \in 0..(MaxAttempts - 1)
      BY <3>1 DEF CallTransient
    <3>3. QED
      BY <1>3, <3>2 DEF CallTransient, WaitDone, IInv, TypeOK
  <2>3. TypeOK'
    BY <1>3, <2>1, <2>2 DEF CallTransient, WaitDone, IInv, TypeOK, BreakerTypeOK, breakerVars
  <2>4. QED
    BY <2>1, <2>3 DEF IInv, ProbeInv, ClosedInv, OpenInv, HalfInv, breakerVars
<1>4. CASE Tick
  <2>1. InFlight' = InFlight /\ UNCHANGED <<state, failures, probeInFlight, pc, attempt, healthy>>
    BY <1>4 DEF Tick, Age, InFlight
  <2>2. \A b \in Callers : age'[b] = IF b \in InFlight THEN age[b] + 1 ELSE age[b]
    BY <1>4 DEF Tick, DeadlineKept
  <2>3. age' \in [Callers -> 0..OpTimeout]
    <3>1. \A b \in Callers : age[b] \in 0..OpTimeout /\ OpTimeout \in Nat
      BY ClientConstants DEF IInv, TypeOK
    <3>2. \A b \in InFlight : age[b] < OpTimeout
      BY <1>4 DEF Tick, DeadlineKept
    <3>3. \A b \in Callers : age'[b] \in 0..OpTimeout
      BY <2>2, <3>1, <3>2
    <3>4. QED
      BY <1>4, <3>3 DEF Tick
  <2>4. openAge' \in 0..ResetTimeout
    BY <1>4 DEF Tick, Age, IInv, TypeOK, BreakerTypeOK
  <2>5. OpenInv'
    <3>1. SUFFICES ASSUME state = "open", NEW b \in InFlight PROVE openAge' <= age'[b]
      BY <2>1 DEF OpenInv
    <3>2. openAge \in Nat /\ age[b] \in Nat /\ openAge <= age[b] /\ b \in Callers
      BY <3>1 DEF IInv, TypeOK, BreakerTypeOK, OpenInv, InFlight
    <3>3. openAge' = openAge \/ openAge' = openAge + 1
      BY <1>4 DEF Tick, Age
    <3>4. QED
      BY <2>2, <3>1, <3>2, <3>3
  <2>6. TypeOK'
    BY <2>1, <2>3, <2>4 DEF IInv, TypeOK, BreakerTypeOK
  <2>7. QED
    BY <2>1, <2>5, <2>6 DEF IInv, ProbeInv, ClosedInv, HalfInv
<1>5. CASE Heal \/ UNCHANGED vars
  <2>1. /\ UNCHANGED <<state, failures, openAge, probeInFlight, pc, attempt, age>>
        /\ healthy' = TRUE \/ healthy' = healthy
    BY <1>5 DEF Heal, vars, callerVars, breakerVars
  <2>2. healthy' \in BOOLEAN /\ InFlight' = InFlight
    BY <2>1 DEF IInv, TypeOK, InFlight
  <2>3. TypeOK'
    BY <2>1, <2>2 DEF IInv, TypeOK, BreakerTypeOK
  <2>4. QED
    BY <2>1, <2>2, <2>3 DEF IInv, ProbeInv, ClosedInv, OpenInv, HalfInv
<1>6. QED
  BY <1>1, <1>2, <1>3, <1>4, <1>5 DEF Next, Progress, Trouble

-----------------------------------------------------------------------------
\* The invariant holds in every reachable state.
THEOREM Invariance == Spec => []IInv
  BY InitIInv, NextIInv, PTL DEF Spec

\* Every variable keeps to its type; the failure counter stays within its limit.
THEOREM TypeCorrect == Spec => []TypeOK
  BY Invariance, PTL DEF IInv

\* One operation, the probe, is in flight while the circuit is half open.
THEOREM ProbeIsAlone == Spec => []HalfOpenIsolated
<1>1. IInv => HalfOpenIsolated
  BY FS_Singleton DEF IInv, ProbeInv, HalfInv, HalfOpenIsolated
<1>2. QED
  BY Invariance, <1>1, PTL

\* Late results leave the rejection window alone.
THEOREM WindowIsFixed == Spec => OpenWindowFixed
<1>1. IInv /\ [Next]_vars =>
        [state = "open" =>
           \/ state' = "open" /\ openAge' >= openAge
           \/ state' = "halfOpen" /\ openAge >= ResetTimeout]_vars
  <2> SUFFICES ASSUME IInv, Next, state = "open"
               PROVE  \/ state' = "open" /\ openAge' >= openAge
                      \/ state' = "halfOpen" /\ openAge >= ResetTimeout
    BY DEF vars
  <2>0. openAge \in Nat
    BY BreakerConstants DEF IInv, TypeOK, BreakerTypeOK
  <2>1. ASSUME NEW c \in Callers, Admit(c)
        PROVE  state' = "halfOpen" /\ openAge >= ResetTimeout
    BY <2>1 DEF Admit, Allow, Allowed
  <2>2. ASSUME NEW c \in Callers, CallOk(c) \/ CallRefused(c) \/ CallExhausted(c) \/ Cancel(c)
        PROVE  state' = "open" /\ openAge' = openAge
    <3>1. RecordSuccess \/ RecordFailure \/ AbortProbe
      BY <2>2 DEF CallOk, CallRefused, CallExhausted, Cancel, ReportCancel
    <3>2. QED
      BY <3>1, ReportSettles DEF Settled, breakerVars
  <2>3. ASSUME NEW c \in Callers, CallTransient(c) \/ WaitDone(c)
        PROVE  state' = "open" /\ openAge' = openAge
    BY <2>3 DEF CallTransient, WaitDone, breakerVars
  <2>4. CASE Tick
    <3>1. state' = "open" /\ (openAge' = openAge \/ openAge' = openAge + 1)
      BY <2>4 DEF Tick, Age
    <3>2. QED
      BY <2>0, <3>1
  <2>5. CASE Heal
    BY <2>0, <2>5 DEF Heal, breakerVars
  <2>6. QED
    BY <2>0, <2>1, <2>2, <2>3, <2>4, <2>5 DEF Next, Progress, Trouble
<1>2. QED
  BY Invariance, <1>1, PTL DEF Spec, OpenWindowFixed

-----------------------------------------------------------------------------
(* The connection.  The sockets of a mounted effect are its own (OwnInv),  *)
(* so the one that closes starts the timer of the mount that is there.     *)

\* whatever is connected was connected by the effect that is mounted
OwnInv == enabled => \A s \in sockets : s.mount = mount

ConnectionInv == R!TypeOK /\ R!OneChain /\ R!NothingDangles /\ OwnInv

LEMMA ConnectionInit == ASSUME R!Init PROVE ConnectionInv
<1> USE RecoveryConstants DEF R!RealtimeAssumption
<1>1. R!TypeOK
  <2>1. 0 \in 0..MaxMounts /\ 0 \in 0..TopAttempt /\ 0 \in 0..MaxTyping
    OBVIOUS
  <2>2. QED
    BY <2>1 DEF R!Init, R!TypeOK
<1>2. QED
  BY <1>1 DEF R!Init, ConnectionInv, R!OneChain, R!NothingDangles, OwnInv

\* A socket belongs to the effect that is mounted, and is the only one.
LEMMA OneSocket ==
  ASSUME ConnectionInv, NEW s \in sockets
  PROVE  /\ enabled /\ sockets = {s} /\ s.id = wsRef /\ s.mount = mount
         /\ timer = 0 /\ mount \notin fetches /\ mount \in 1..MaxMounts
         /\ s.id \in SocketIds /\ s = [id |-> wsRef, mount |-> mount, state |-> s.state]
<1>1. enabled
  BY DEF ConnectionInv, R!NothingDangles, R!TypeOK
<1>2. sockets = {s} /\ s.id = wsRef /\ timer = 0 /\ mount \notin fetches
  BY <1>1 DEF ConnectionInv, R!OneChain
<1>3. s.mount = mount
  BY <1>1 DEF ConnectionInv, OwnInv
<1>4. s \in [id: SocketIds, mount: 1..MaxMounts, state: {"connecting", "open"}]
  BY DEF ConnectionInv, R!TypeOK, R!Sockets
<1>5. QED
  BY <1>1, <1>2, <1>3, <1>4

\* A timer is the one of the effect that is mounted.
LEMMA OneTimer ==
  ASSUME ConnectionInv, timer # 0
  PROVE  enabled /\ timer = mount /\ sockets = {} /\ mount \notin fetches /\ mount \in 1..MaxMounts
<1>1. enabled
  BY DEF ConnectionInv, R!NothingDangles, R!TypeOK
<1>2. timer = mount /\ sockets = {} /\ mount \notin fetches
  BY <1>1 DEF ConnectionInv, R!OneChain
<1>3. timer \in 1..MaxMounts
  BY RecoveryConstants DEF ConnectionInv, R!TypeOK, R!RealtimeAssumption
<1>4. QED
  BY <1>1, <1>2, <1>3

\* Every step of the connection keeps the invariant.
LEMMA ConnectionStep ==
  ASSUME ConnectionInv, [R!Next]_connectionVars
  PROVE  ConnectionInv'
<1> USE RecoveryConstants DEF R!RealtimeAssumption
<1>0. R!TypeOK /\ R!OneChain /\ R!NothingDangles /\ OwnInv
  BY DEF ConnectionInv
<1>1. CASE R!Mount
  <2>1. sockets = {} /\ timer = 0
    BY <1>0, <1>1 DEF R!Mount, R!NothingDangles
  <2>2. mount + 1 \in 1..MaxMounts
    BY <1>0, <1>1 DEF R!Mount, R!TypeOK
  <2>3. R!TypeOK'
    BY <1>0, <1>1, <2>2 DEF R!Mount, R!TypeOK, R!indicator
  <2>4. QED
    BY <1>0, <1>1, <2>1, <2>3
    DEF R!Mount, R!indicator, ConnectionInv, R!OneChain, R!NothingDangles, OwnInv
<1>2. CASE R!Unmount
  <2>1. sockets' = {}
    BY <1>2, OneSocket DEF R!Unmount
  <2>2. R!TypeOK'
    <3>1. /\ timer' = 0 /\ wsRef' = NoSocket /\ enabled' = FALSE
          /\ UNCHANGED <<mount, fetches, reconnectAttempt, typing, timers>>
      BY <1>2 DEF R!Unmount, R!indicator
    <3>2. 0 \in 0..MaxMounts /\ {} \subseteq R!Sockets
      OBVIOUS
    <3>3. QED
      BY <1>0, <2>1, <3>1, <3>2 DEF R!TypeOK
  <2>3. QED
    BY <1>0, <1>2, <2>1, <2>2
    DEF R!Unmount, R!indicator, ConnectionInv, R!OneChain, R!NothingDangles, OwnInv
<1>3. ASSUME NEW m \in 1..MaxMounts, R!TokenArrives(m) PROVE ConnectionInv'
  <2>1. CASE ~enabled \/ m # mount
    <3>1. /\ fetches' = fetches \ {m}
          /\ UNCHANGED <<mount, enabled, sockets, wsRef, timer, reconnectAttempt, typing, timers>>
      BY <1>3, <2>1 DEF R!TokenArrives, R!Disposed, R!indicator
    <3>2. R!TypeOK' /\ R!NothingDangles' /\ OwnInv'
      BY <1>0, <3>1 DEF R!TypeOK, R!NothingDangles, OwnInv
    <3>3. R!OneChain'
      BY <1>0, <2>1, <3>1 DEF R!OneChain
    <3>4. QED
      BY <3>2, <3>3 DEF ConnectionInv
  <2>2. CASE enabled /\ m = mount
    <3>1. sockets = {} /\ timer = 0
      BY <1>0, <1>3, <2>2 DEF R!OneChain, R!TokenArrives
    <3>2. PICK id \in SocketIds :
            /\ wsRef' = id
            /\ sockets' = {[id |-> id, mount |-> mount, state |-> "connecting"]}
      BY <1>3, <2>2, <3>1 DEF R!TokenArrives, R!Disposed
    <3>3. /\ fetches' = fetches \ {mount}
          /\ UNCHANGED <<mount, enabled, timer, reconnectAttempt, typing, timers>>
      BY <1>3, <2>2 DEF R!TokenArrives, R!indicator
    <3>4. sockets' \subseteq R!Sockets
      BY <2>2, <3>2 DEF R!Sockets
    <3>5. R!TypeOK'
      BY <1>0, <3>2, <3>3, <3>4 DEF R!TypeOK, R!Sockets
    <3>6. R!OneChain' /\ R!NothingDangles' /\ OwnInv'
      BY <1>0, <2>2, <3>1, <3>2, <3>3 DEF R!OneChain, R!NothingDangles, OwnInv
    <3>7. QED
      BY <3>5, <3>6 DEF ConnectionInv
  <2>3. QED
    BY <1>0, <2>1, <2>2 DEF R!TypeOK
<1>4. ASSUME NEW m \in 1..MaxMounts, R!TokenFails(m) PROVE ConnectionInv'
  <2>0. /\ m \in fetches /\ fetches' = fetches \ {m}
        /\ UNCHANGED <<mount, enabled, sockets, wsRef, typing, timers>>
    BY <1>4 DEF R!TokenFails, R!indicator
  <2>1. CASE ~enabled \/ m # mount
    <3>1. UNCHANGED <<timer, reconnectAttempt>>
      BY <1>4, <2>1 DEF R!TokenFails, R!ScheduleReconnect, R!Disposed
    <3>2. R!TypeOK' /\ R!NothingDangles' /\ OwnInv'
      BY <1>0, <2>0, <3>1 DEF R!TypeOK, R!NothingDangles, OwnInv
    <3>3. R!OneChain'
      BY <1>0, <2>0, <2>1, <3>1 DEF R!OneChain
    <3>4. QED
      BY <3>2, <3>3 DEF ConnectionInv
  <2>2. CASE enabled /\ m = mount
    <3>1. sockets = {}
      BY <1>0, <2>0, <2>2 DEF R!OneChain
    <3>2. timer' = mount /\ reconnectAttempt' \in 0..TopAttempt
      BY <1>0, <1>4, <2>2 DEF R!TokenFails, R!ScheduleReconnect, R!Disposed, R!TypeOK
    <3>3. R!TypeOK'
      BY <1>0, <2>0, <3>2 DEF R!TypeOK
    <3>4. R!OneChain' /\ R!NothingDangles' /\ OwnInv'
      BY <1>0, <2>0, <2>2, <3>1, <3>2 DEF R!OneChain, R!NothingDangles, OwnInv
    <3>5. QED
      BY <3>3, <3>4 DEF ConnectionInv
  <2>3. QED
    BY <1>0, <2>1, <2>2 DEF R!TypeOK
<1>5. ASSUME NEW s \in sockets, R!Open(s) PROVE ConnectionInv'
  <2>1. /\ enabled /\ sockets = {s} /\ s.id = wsRef /\ s.mount = mount
        /\ timer = 0 /\ mount \notin fetches /\ mount \in 1..MaxMounts /\ s.id \in SocketIds
        /\ s = [id |-> wsRef, mount |-> mount, state |-> s.state]
    BY OneSocket
  <2>2. sockets' = {[id |-> wsRef, mount |-> mount, state |-> "open"]}
    BY <1>5, <2>1 DEF R!Open
  <2>3. /\ reconnectAttempt' = 0
        /\ UNCHANGED <<mount, enabled, fetches, wsRef, timer, typing, timers>>
    BY <1>5 DEF R!Open, R!indicator
  <2>4. R!TypeOK'
    BY <1>0, <2>1, <2>2, <2>3 DEF R!TypeOK, R!Sockets
  <2>5. R!OneChain' /\ R!NothingDangles' /\ OwnInv'
    BY <1>0, <2>1, <2>2, <2>3 DEF R!OneChain, R!NothingDangles, OwnInv
  <2>6. QED
    BY <2>4, <2>5 DEF ConnectionInv
<1>6. ASSUME NEW s \in sockets, R!Close(s) PROVE ConnectionInv'
  <2>1. /\ enabled /\ sockets = {s} /\ s.id = wsRef /\ s.mount = mount
        /\ timer = 0 /\ mount \notin fetches /\ mount \in 1..MaxMounts
    BY OneSocket
  <2>2. sockets' = {} /\ UNCHANGED <<mount, enabled, fetches, wsRef, typing, timers>>
    BY <1>6, <2>1 DEF R!Close, R!indicator
  <2>3. timer' = mount /\ reconnectAttempt' \in 0..TopAttempt
    BY <1>0, <1>6, <2>1 DEF R!Close, R!ScheduleReconnect, R!Disposed, R!TypeOK
  <2>4. R!TypeOK'
    BY <1>0, <2>2, <2>3 DEF R!TypeOK
  <2>5. R!OneChain' /\ R!NothingDangles' /\ OwnInv'
    BY <1>0, <2>1, <2>2, <2>3 DEF R!OneChain, R!NothingDangles, OwnInv
  <2>6. QED
    BY <2>4, <2>5 DEF ConnectionInv
<1>7. CASE R!TimerFires
  <2>1. enabled /\ timer = mount /\ sockets = {} /\ mount \in 1..MaxMounts
    BY <1>7, OneTimer DEF R!TimerFires
  <2>2. /\ timer' = 0 /\ fetches' = fetches \cup {mount}
        /\ UNCHANGED <<mount, enabled, sockets, wsRef, reconnectAttempt, typing, timers>>
    BY <1>7, <2>1 DEF R!TimerFires, R!Disposed, R!indicator
  <2>3. R!TypeOK'
    BY <1>0, <2>1, <2>2 DEF R!TypeOK
  <2>4. R!OneChain' /\ R!NothingDangles' /\ OwnInv'
    BY <1>0, <2>1, <2>2 DEF R!OneChain, R!NothingDangles, OwnInv
  <2>5. QED
    BY <2>3, <2>4 DEF ConnectionInv
<1>8. ASSUME NEW u \in Typists, R!TypingEvent(u) \/ R!TypingTimeout(u) PROVE ConnectionInv'
  <2>1. UNCHANGED <<mount, enabled, fetches, sockets, wsRef, timer, reconnectAttempt>>
    BY <1>8 DEF R!TypingEvent, R!TypingTimeout, R!chain
  <2>2. \A v \in Typists : timers[v] \in 0..MaxTyping
    BY <1>0 DEF R!TypeOK
  <2>3. CASE R!TypingEvent(u)
    <3>1. timers[u] + 1 \in 0..MaxTyping /\ timers[u] + 1 > 0
      BY <2>2, <2>3 DEF R!TypingEvent
    <3>2. typing' \subseteq Typists /\ timers' \in [Typists -> 0..MaxTyping]
      BY <1>0, <2>3, <3>1 DEF R!TypingEvent, R!TypeOK
    <3>3. \A v \in typing' : timers'[v] > 0
      BY <1>0, <2>2, <2>3, <3>1 DEF R!TypingEvent, R!TypeOK, R!NothingDangles
    <3>4. QED
      BY <1>0, <2>1, <3>2, <3>3 DEF ConnectionInv, R!TypeOK, R!OneChain, R!NothingDangles, OwnInv
  <2>4. CASE R!TypingTimeout(u)
    <3>1. timers[u] - 1 \in 0..MaxTyping
      BY <2>2, <2>4 DEF R!TypingTimeout
    <3>2. typing' \subseteq Typists /\ timers' \in [Typists -> 0..MaxTyping]
      BY <1>0, <2>4, <3>1 DEF R!TypingTimeout, R!TypeOK
    <3>3. \A v \in typing' : timers'[v] > 0
      BY <1>0, <2>4 DEF R!TypingTimeout, R!TypeOK, R!NothingDangles
    <3>4. QED
      BY <1>0, <2>1, <3>2, <3>3 DEF ConnectionInv, R!TypeOK, R!OneChain, R!NothingDangles, OwnInv
  <2>5. QED
    BY <1>8, <2>3, <2>4
<1>9. CASE UNCHANGED connectionVars
  BY <1>0, <1>9 DEF connectionVars, ConnectionInv, R!TypeOK, R!OneChain, R!NothingDangles, OwnInv
<1>10. QED
  BY <1>1, <1>2, <1>3, <1>4, <1>5, <1>6, <1>7, <1>8, <1>9 DEF R!Next

-----------------------------------------------------------------------------
(* The thread panel.  An answer names replies that were posted (AnswerInv),*)
(* so what it puts on the panel exists and is counted under its thread.    *)

\* an answer, and what a poll already knows, are replies that were posted
AnswerInv == \A call \in asked : call.reply \subseteq DOMAIN thread

PanelInv == T!TypeOK /\ AnswerInv

LEMMA PanelInit == ASSUME T!Init PROVE PanelInv
<1> USE RecoveryConstants DEF T!ThreadsAssumption
<1>1. 0 \in 0..MaxMoves /\ 0 <= MaxReplies /\ 0 \in Nat /\ FALSE \in BOOLEAN
  OBVIOUS
<1>2. thread = <<>> /\ thread \in Seq(Parents) /\ Len(thread) = 0
  BY DEF T!Init
<1>3. T!TypeOK
  BY <1>1, <1>2 DEF T!Init, T!TypeOK
<1>4. AnswerInv
  BY DEF T!Init, AnswerInv
<1>5. QED
  BY <1>3, <1>4 DEF PanelInv

\* What is posted is numbered from 1 to MaxReplies.
LEMMA Posted ==
  ASSUME PanelInv
  PROVE  DOMAIN thread = 1..Len(thread) /\ DOMAIN thread \subseteq T!ReplyIds /\ Len(thread) \in Nat
<1>1. /\ thread \in Seq(Parents) /\ Len(thread) \in Nat
      /\ Len(thread) <= MaxReplies /\ MaxReplies \in Nat
  BY RecoveryConstants DEF PanelInv, T!TypeOK, T!ThreadsAssumption
<1>2. QED
  BY <1>1 DEF T!ReplyIds

\* The bounds of a user who moves.
LEMMA Moving == ASSUME PanelInv, T!Move PROVE moves' \in 0..MaxMoves
  BY RecoveryConstants DEF PanelInv, T!TypeOK, T!Move, T!ThreadsAssumption

\* The type of a call.
PanelCall ==
  [op: {"open", "poll", "send", "sent"}, parent: Parents, done: BOOLEAN, reply: SUBSET T!ReplyIds]

\* A call and the replies it names.
GoodCall(call) == call \in PanelCall /\ call.reply \subseteq DOMAIN thread

LEMMA CallsAreGood == ASSUME PanelInv, NEW call \in asked PROVE GoodCall(call)
  BY DEF PanelInv, T!TypeOK, AnswerInv, GoodCall, PanelCall

\* A new call names replies of the panel.
LEMMA AskIsGood ==
  ASSUME PanelInv, NEW p \in Parents, NEW known \in SUBSET DOMAIN thread,
         NEW op \in {"open", "poll", "send", "sent"}, T!Ask(op, p, known)
  PROVE  \A call \in asked' : GoodCall(call)
<1>1. [op |-> op, parent |-> p, done |-> FALSE, reply |-> known] \in PanelCall
  BY Posted DEF PanelCall
<1>2. GoodCall([op |-> op, parent |-> p, done |-> FALSE, reply |-> known])
  BY <1>1 DEF GoodCall
<1>3. QED
  BY <1>2, CallsAreGood DEF T!Ask

LEMMA OrphanedIsGood ==
  ASSUME PanelInv, asked' = T!Orphaned
  PROVE  \A call \in asked' : GoodCall(call)
<1>1. SUFFICES ASSUME NEW call \in asked, call.op = "send"
               PROVE  GoodCall([call EXCEPT !.op = "sent"])
  BY CallsAreGood DEF T!Orphaned
<1>2. call \in PanelCall /\ call.reply \subseteq DOMAIN thread
  BY CallsAreGood DEF GoodCall
<1>3. [call EXCEPT !.op = "sent"] \in PanelCall /\ [call EXCEPT !.op = "sent"].reply = call.reply
  BY <1>2 DEF PanelCall
<1>4. QED
  BY <1>2, <1>3 DEF GoodCall

\* A step of the user or of a call leaves what was posted alone; its calls
\* stay good.
LEMMA ScreenStep ==
  ASSUME PanelInv, UNCHANGED <<thread, removed>>, echo' \subseteq echo,
         looking' \in Convs, parent' \in Parents \cup {NoParent},
         panel' \subseteq DOMAIN thread, replyCount' \in [Parents -> Nat],
         loadingReplies' \in BOOLEAN, sendingReply' \in BOOLEAN,
         replyText' \in Parents \cup {NoParent}, moves' \in 0..MaxMoves,
         \A call \in asked' : GoodCall(call)
  PROVE  PanelInv'
<1>1. AnswerInv'
  BY DEF AnswerInv, GoodCall
<1>2. \A call \in asked' : call \in PanelCall
  BY DEF GoodCall
<1>3. T!TypeOK'
  BY <1>2 DEF PanelInv, T!TypeOK, PanelCall, T!ReplyIds
<1>4. QED
  BY <1>1, <1>3 DEF PanelInv

\* addThreadReply keeps the panel to what was posted, and its counts numbers.
LEMMA AddKeeps ==
  ASSUME PanelInv, NEW S \in SUBSET DOMAIN thread, T!AddThreadReplies(S)
  PROVE  panel' \subseteq DOMAIN thread /\ replyCount' \in [Parents -> Nat]
<1> DEFINE new == S \ panel
           under(p) == {r \in new : thread[r] = p}
<1>1. panel \subseteq DOMAIN thread /\ replyCount \in [Parents -> Nat]
  BY DEF PanelInv, T!TypeOK
<1>2. /\ panel' = panel \cup new
      /\ replyCount' = [p \in Parents |-> replyCount[p] + Cardinality(under(p))]
  BY DEF T!AddThreadReplies, T!Cardinality, Cardinality
<1>3. ASSUME NEW p \in Parents PROVE Cardinality(under(p)) \in Nat
  <2>1. IsFiniteSet(1..Len(thread))
    BY Posted, FS_Interval
  <2>2. under(p) \subseteq 1..Len(thread)
    BY Posted
  <2>3. IsFiniteSet(under(p))
    BY <2>1, <2>2, FS_Subset
  <2>4. QED
    BY <2>3, FS_CardinalityType
<1>4. panel' \subseteq DOMAIN thread
  BY <1>1, <1>2
<1> HIDE DEF under
<1>5. replyCount' \in [Parents -> Nat]
  BY <1>1, <1>2, <1>3
<1>6. QED
  BY <1>4, <1>5

\* A reply that is posted is one more of the same, and is on its way.
LEMMA PostKeeps ==
  ASSUME PanelInv, NEW p \in Parents, Len(thread) < MaxReplies, T!Post(p)
  PROVE  /\ thread' \in Seq(Parents) /\ Len(thread') <= MaxReplies
         /\ DOMAIN thread' = DOMAIN thread \cup {Len(thread) + 1}
         /\ echo' \subseteq DOMAIN thread' /\ Len(thread) + 1 \in T!ReplyIds
<1>1. /\ thread \in Seq(Parents) /\ Len(thread) \in Nat
      /\ MaxReplies \in Nat /\ echo \subseteq DOMAIN thread
  BY RecoveryConstants DEF PanelInv, T!TypeOK, T!ThreadsAssumption
<1>2. thread' \in Seq(Parents) /\ Len(thread') = Len(thread) + 1
  BY <1>1 DEF T!Post
<1>3. DOMAIN thread' = 1..(Len(thread) + 1) /\ DOMAIN thread = 1..Len(thread)
  BY <1>1, <1>2
<1>4. 1..(Len(thread) + 1) = 1..Len(thread) \cup {Len(thread) + 1}
  BY <1>1
<1>5. Len(thread) + 1 \in T!ReplyIds
  BY <1>1 DEF T!ReplyIds
<1>6. Len(thread) + 1 <= MaxReplies
  BY <1>1
<1>7. echo' \subseteq DOMAIN thread'
  BY <1>1, <1>3, <1>4 DEF T!Post
<1>8. QED
  BY <1>2, <1>3, <1>4, <1>5, <1>6, <1>7

\* A step that posts a reply leaves the screen alone.
LEMMA PostStep ==
  ASSUME PanelInv, NEW p \in Parents, Len(thread) < MaxReplies, T!Post(p),
         UNCHANGED <<removed, looking, parent, panel, replyCount, loadingReplies, replyText,
                     sendingReply, moves>>,
         \A call \in asked' : call \in PanelCall /\ call.reply \subseteq DOMAIN thread'
  PROVE  PanelInv'
<1>1. /\ thread' \in Seq(Parents) /\ Len(thread') <= MaxReplies
      /\ DOMAIN thread \subseteq DOMAIN thread' /\ echo' \subseteq DOMAIN thread'
  BY PostKeeps
<1>2. T!TypeOK'
  BY <1>1 DEF PanelInv, T!TypeOK, PanelCall, T!ReplyIds
<1>3. QED
  BY <1>2 DEF PanelInv, AnswerInv

\* Every step of the thread panel keeps the invariant.
LEMMA PanelStep ==
  ASSUME PanelInv, [T!Next]_threadVars
  PROVE  PanelInv'
<1> USE DEF T!remote, T!screen, T!form
<1>0. /\ thread \in Seq(Parents) /\ echo \subseteq DOMAIN thread
      /\ looking \in Convs /\ parent \in Parents \cup {NoParent}
      /\ panel \subseteq DOMAIN thread /\ replyCount \in [Parents -> Nat]
      /\ loadingReplies \in BOOLEAN /\ sendingReply \in BOOLEAN
      /\ replyText \in Parents \cup {NoParent} /\ moves \in 0..MaxMoves
      /\ \A call \in asked : GoodCall(call)
  BY CallsAreGood DEF PanelInv, T!TypeOK
<1>a. T!Mounted => parent \in Parents
  BY DEF T!Mounted
<1>1. ASSUME NEW p \in Parents, T!OpenThreadPanel(p) PROVE PanelInv'
  <2>1. \A call \in asked' : GoodCall(call)
    BY <1>1, AskIsGood DEF T!OpenThreadPanel
  <2>2. moves' \in 0..MaxMoves
    BY <1>1, Moving DEF T!OpenThreadPanel
  <2>3. QED
    BY <1>0, <1>1, <2>1, <2>2, ScreenStep DEF T!OpenThreadPanel
<1>2. CASE T!CloseThreadPanel
  <2>1. \A call \in asked' : GoodCall(call)
    BY <1>2, OrphanedIsGood DEF T!CloseThreadPanel
  <2>2. moves' \in 0..MaxMoves
    BY <1>2, Moving DEF T!CloseThreadPanel
  <2>3. QED
    BY <1>0, <1>2, <2>1, <2>2, ScreenStep DEF T!CloseThreadPanel
<1>3. ASSUME NEW c \in Convs, T!Look(c) PROVE PanelInv'
  <2>1. \A call \in asked' : GoodCall(call)
    BY <1>3, OrphanedIsGood DEF T!Look
  <2>2. moves' \in 0..MaxMoves
    BY <1>3, Moving DEF T!Look
  <2>3. QED
    BY <1>0, <1>3, <2>1, <2>2, ScreenStep DEF T!Look
<1>4. CASE T!WriteReply
  BY <1>0, <1>a, <1>4, ScreenStep DEF T!WriteReply
<1>5. CASE T!HandleSendReply
  <2>1. \A call \in asked' : GoodCall(call)
    BY <1>a, <1>5, AskIsGood DEF T!HandleSendReply
  <2>2. QED
    BY <1>0, <1>5, <2>1, ScreenStep DEF T!HandleSendReply
<1>6. CASE T!Poll
  <2>1. \A call \in asked' : GoodCall(call)
    BY <1>0, <1>a, <1>6, AskIsGood DEF T!Poll
  <2>2. QED
    BY <1>0, <1>6, <2>1, ScreenStep DEF T!Poll
<1>7. ASSUME NEW p \in Parents, T!OthersReply(p) PROVE PanelInv'
  <2>1. T!Post(p) /\ Len(thread) < MaxReplies
    BY <1>7 DEF T!OthersReply
  <2>2. DOMAIN thread \subseteq DOMAIN thread'
    BY <2>1, PostKeeps
  <2>3. \A call \in asked' : call \in PanelCall /\ call.reply \subseteq DOMAIN thread'
    BY <1>0, <1>7, <2>2 DEF T!OthersReply, GoodCall
  <2>4. UNCHANGED <<removed, looking, parent, panel, replyCount, loadingReplies, replyText,
                    sendingReply, moves>>
    BY <1>7 DEF T!OthersReply
  <2>5. QED
    BY <2>1, <2>3, <2>4, PostStep
<1>8. ASSUME NEW r \in T!ReplyIds, T!DeleteReply(r) PROVE PanelInv'
  <2>1. removed' \subseteq DOMAIN thread
    BY <1>8 DEF T!DeleteReply, PanelInv, T!TypeOK
  <2>2. UNCHANGED <<thread, echo, looking, parent, panel, replyCount, loadingReplies, asked,
                    replyText, sendingReply, moves>>
    BY <1>8 DEF T!DeleteReply
  <2>3. QED
    BY <2>1, <2>2 DEF PanelInv, AnswerInv, T!TypeOK
<1>9. ASSUME NEW call \in asked, T!Serve(call) PROVE PanelInv'
  <2>0. call \in PanelCall /\ call.reply \subseteq DOMAIN thread
    BY <1>0 DEF GoodCall
  <2>1. UNCHANGED <<removed, looking, parent, panel, replyCount, loadingReplies, replyText,
                    sendingReply, moves>>
    BY <1>9 DEF T!Serve
  <2>2. CASE call.op \in {"send", "sent"}
    <3>1. /\ Len(thread) < MaxReplies /\ T!Post(call.parent) /\ call.parent \in Parents
          /\ asked' = (asked \ {call})
                        \cup {[call EXCEPT !.done = TRUE, !.reply = {Len(thread) + 1}]}
      BY <1>9, <2>0, <2>2 DEF T!Serve, PanelCall
    <3>2. DOMAIN thread' = DOMAIN thread \cup {Len(thread) + 1} /\ Len(thread) + 1 \in T!ReplyIds
      BY <3>1, PostKeeps
    <3>3. [call EXCEPT !.done = TRUE, !.reply = {Len(thread) + 1}] \in PanelCall
      BY <2>0, <3>2 DEF PanelCall
    <3>4. [call EXCEPT !.done = TRUE, !.reply = {Len(thread) + 1}].reply = {Len(thread) + 1}
      BY <2>0 DEF PanelCall
    <3>5. \A c \in asked' : c \in PanelCall /\ c.reply \subseteq DOMAIN thread'
      BY <1>0, <3>1, <3>2, <3>3, <3>4 DEF GoodCall
    <3>6. QED
      BY <2>1, <3>1, <3>5, PostStep
  <2>3. CASE call.op \notin {"send", "sent"}
    <3> DEFINE found == T!RepliesOf(call.parent) \ call.reply
               served == [call EXCEPT !.done = TRUE, !.reply = found]
    <3>1. asked' = (asked \ {call}) \cup {served} /\ UNCHANGED <<thread, echo>>
      BY <1>9, <2>3 DEF T!Serve
    <3>2. found \subseteq DOMAIN thread
      BY DEF T!RepliesOf
    <3>3. found \in SUBSET T!ReplyIds
      BY <3>2, Posted
    <3>4. served \in PanelCall /\ served.reply = found
      BY <2>0, <3>3 DEF PanelCall
    <3>5. \A c \in asked' : GoodCall(c)
      BY <1>0, <3>1, <3>2, <3>4 DEF GoodCall
    <3>6. QED
      BY <1>0, <2>1, <3>1, <3>5, ScreenStep
  <2>4. QED
    BY <2>2, <2>3
<1>10. ASSUME NEW call \in asked, T!Answered(call) PROVE PanelInv'
  <2>1. /\ \A c \in asked' : GoodCall(c)
        /\ UNCHANGED <<thread, removed, echo, looking, parent, moves>>
        /\ T!Opened(call) \/ T!Polled(call) \/ T!Sent(call)
    BY <1>0, <1>10 DEF T!Answered
  <2>2. call.reply \in SUBSET DOMAIN thread
    BY <1>0 DEF GoodCall
  <2>3. panel' \subseteq DOMAIN thread /\ replyCount' \in [Parents -> Nat]
    BY <1>0, <2>1, <2>2, AddKeeps DEF T!Opened, T!Polled, T!Sent
  <2>4. /\ loadingReplies' \in BOOLEAN /\ sendingReply' \in BOOLEAN
        /\ replyText' \in Parents \cup {NoParent}
    BY <1>0, <2>1 DEF T!Opened, T!Polled, T!Sent
  <2>5. QED
    BY <1>0, <2>1, <2>3, <2>4, ScreenStep
<1>11. ASSUME NEW call \in asked, T!Failed(call) PROVE PanelInv'
  <2>1. \A c \in asked' : GoodCall(c)
    BY <1>0, <1>11 DEF T!Failed
  <2>2. loadingReplies' \in BOOLEAN /\ sendingReply' \in BOOLEAN
    BY <1>0, <1>11 DEF T!Failed
  <2>3. UNCHANGED <<thread, removed, echo, looking, parent, panel, replyCount, replyText, moves>>
    BY <1>11 DEF T!Failed
  <2>4. QED
    BY <1>0, <2>1, <2>2, <2>3, ScreenStep
<1>12. ASSUME NEW r \in T!ReplyIds, NEW lost \in BOOLEAN, T!Receive(r, lost) PROVE PanelInv'
  <2>1. /\ r \in echo /\ echo' = echo \ {r}
        /\ UNCHANGED <<thread, removed, looking, parent, loadingReplies, asked, replyText,
                       sendingReply, moves>>
    BY <1>12 DEF T!Receive
  <2>2. {r} \in SUBSET DOMAIN thread
    BY <1>0, <2>1
  <2>3. T!AddThreadReplies({r}) \/ UNCHANGED <<panel, replyCount>>
    BY <1>12 DEF T!Receive
  <2>4. panel' \subseteq DOMAIN thread /\ replyCount' \in [Parents -> Nat]
    BY <1>0, <2>2, <2>3, AddKeeps
  <2>5. QED
    BY <1>0, <2>1, <2>4, ScreenStep
<1>13. CASE UNCHANGED threadVars
  BY <1>13 DEF threadVars, PanelInv, AnswerInv, T!TypeOK
<1>14. QED
  BY <1>1, <1>2, <1>3, <1>4, <1>5, <1>6, <1>7, <1>8, <1>9, <1>10, <1>11, <1>12, <1>13 DEF T!Next

-----------------------------------------------------------------------------
\* Whatever is explored, the three keep their invariants.
LEMMA AllStep == ConnectionInv /\ PanelInv /\ [AllNext]_AllVars => ConnectionInv' /\ PanelInv'
<1> SUFFICES ASSUME ConnectionInv, PanelInv, [AllNext]_AllVars PROVE ConnectionInv' /\ PanelInv'
  OBVIOUS
<1>1. [R!Next]_connectionVars /\ [T!Next]_threadVars
  BY DEF AllNext, AllVars
<1>2. QED
  BY <1>1, ConnectionStep, PanelStep

\* A mounted effect has one way on and only one, an unmounted one has none
\* (use-realtime-connection.ts), and every typing indicator has a timer that
\* ends it; the state of the connection and of the thread panel is well-typed.
THEOREM ConnectionIsSound == AllSpec => []ConnectionSound
<1>1. AllInit => ConnectionInv /\ PanelInv
  BY ConnectionInit, PanelInit DEF AllInit
<1>2. ConnectionInv /\ PanelInv => ConnectionSound
  BY DEF ConnectionInv, PanelInv, ConnectionSound, R!ConnectionSound
<1>3. QED
  BY <1>1, <1>2, AllStep, PTL DEF AllSpec
=============================================================================
