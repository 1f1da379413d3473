----------------------------- MODULE RpcClients -----------------------------
(***************************************************************************)
(* The goroutines of a core process that call one remote service through   *)
(* one circuit breaker.  Three procedures share the breaker protocol and   *)
(* differ in what they retry and in how they report a cancellation:        *)
(*   "do"        rpcretry.Do, used by the user and storage clients;        *)
(*   "getOwner"  channelclient.GetOwner;                                   *)
(*   "join"      channelclient.Join and Leave, one attempt.                *)
(* An operation is bounded by its context: OpTimeout ticks.  The in-memory *)
(* ring GetOwner rejoins on the way is not part of this module.            *)
(***************************************************************************)
EXTENDS Naturals, FiniteSets

-----------------------------------------------------------------------------
(* The circuit breaker (internal/breaker) that the goroutines share.  Its   *)
(* methods run under a mutex, so each is one step.  Time enters only through*)
(* now.Sub(openedAt), kept here as openAge and counted up to ResetTimeout,  *)
(* the only value it is compared with.                                      *)

CONSTANTS
  FailureLimit,   \* failures that open a closed circuit
  ResetTimeout    \* ticks an open circuit rejects every request

\* NewCircuitBreakerWithClock clamps its parameters to these ranges.
ASSUME BreakerConstants ==
  /\ FailureLimit \in Nat \ {0}
  /\ ResetTimeout \in Nat

VARIABLES
  state,          \* "closed", "open" or "halfOpen"
  failures,       \* failures recorded since the circuit last proved healthy
  openAge,        \* time since openedAt
  probeInFlight   \* the half-open circuit has let its probe through

breakerVars == <<state, failures, openAge, probeInFlight>>

BreakerTypeOK ==
  /\ state \in {"closed", "open", "halfOpen"}
  /\ failures \in 0..FailureLimit
  /\ openAge \in 0..ResetTimeout
  /\ probeInFlight \in BOOLEAN

BreakerInit ==
  /\ state = "closed"
  /\ failures = 0
  /\ openAge = 0
  /\ probeInFlight = FALSE

\* mutant: a half-open circuit lets everyone through
AllowedUnreserved ==
  \/ state \in {"closed", "halfOpen"}
  \/ openAge >= ResetTimeout

\* what Allow answers
Allowed ==
  \/ state = "closed"
  \/ /\ ~probeInFlight
     /\ state = "halfOpen" \/ openAge >= ResetTimeout

\* Allow answered true; the answer false changes nothing
Allow ==
  /\ Allowed
  /\ state' = IF state = "closed" THEN "closed" ELSE "halfOpen"
  /\ probeInFlight' = IF state = "closed" THEN probeInFlight ELSE TRUE
  /\ UNCHANGED <<failures, openAge>>

ProbePending == state = "halfOpen" /\ probeInFlight

openLocked ==
  /\ state' = "open"
  /\ openAge' = 0
  /\ probeInFlight' = FALSE

RecordSuccess ==
  \/ /\ ProbePending
     /\ state' = "closed" /\ failures' = 0 /\ probeInFlight' = FALSE
     /\ UNCHANGED openAge
  \/ /\ ~ProbePending
     /\ failures' = IF state = "closed" THEN 0 ELSE failures
     /\ UNCHANGED <<state, openAge, probeInFlight>>

\* mutant: the failure of a request let through earlier opens an open circuit again
RecordFailureWhileOpen ==
  \/ (ProbePending \/ state = "open") /\ openLocked /\ UNCHANGED failures
  \/ /\ state = "closed"
     /\ failures' = failures + 1
     /\ IF failures + 1 >= FailureLimit
        THEN openLocked
        ELSE UNCHANGED <<state, openAge, probeInFlight>>

\* mutant: > for >=
RecordFailureOneMore ==
  \/ ProbePending /\ openLocked /\ UNCHANGED failures
  \/ ~ProbePending /\ state # "closed" /\ UNCHANGED breakerVars
  \/ /\ state = "closed"
     /\ failures' = failures + 1
     /\ IF failures + 1 > FailureLimit
        THEN openLocked
        ELSE UNCHANGED <<state, openAge, probeInFlight>>

RecordFailure ==
  \/ ProbePending /\ openLocked /\ UNCHANGED failures
  \/ ~ProbePending /\ state # "closed" /\ UNCHANGED breakerVars
  \/ /\ state = "closed"
     /\ failures' = failures + 1
     /\ IF failures + 1 >= FailureLimit
        THEN openLocked
        ELSE UNCHANGED <<state, openAge, probeInFlight>>

\* mutant: a cancelled probe stays reserved
AbortProbeForgotten == UNCHANGED breakerVars

AbortProbe ==
  \/ ProbePending /\ openLocked /\ UNCHANGED failures
  \/ ~ProbePending /\ UNCHANGED breakerVars

\* one tick passes
Age ==
  /\ openAge' = IF state = "open" /\ openAge < ResetTimeout THEN openAge + 1 ELSE openAge
  /\ UNCHANGED <<state, failures, probeInFlight>>

-----------------------------------------------------------------------------
(* The calling procedures.                                                  *)

CONSTANTS
  Callers,      \* goroutines
  Kind,         \* per caller: the procedure it runs
  MaxAttempts,  \* 4
  OpTimeout     \* 5 seconds, against a ResetTimeout of 30

\* Every NewCircuitBreaker of an RPC client passes 30 seconds, and no operation
\* lives longer than its 5 second context.
ASSUME ClientConstants ==
  /\ Kind \in [Callers -> {"do", "getOwner", "join"}]
  /\ MaxAttempts \in Nat \ {0}
  /\ OpTimeout \in Nat
  /\ OpTimeout < ResetTimeout

VARIABLES
  pc,       \* per caller: "idle", "calling" or "waiting" for the next attempt
  attempt,  \* per caller: attempts that failed
  age,      \* per caller: time since its operation was let through
  healthy   \* the service answers and the clients wait, from now on

callerVars == <<pc, attempt, age>>
vars == <<breakerVars, callerVars, healthy>>

TypeOK ==
  /\ BreakerTypeOK
  /\ pc \in [Callers -> {"idle", "calling", "waiting"}]
  /\ attempt \in [Callers -> 0..(MaxAttempts - 1)]
  /\ age \in [Callers -> 0..OpTimeout]
  /\ healthy \in BOOLEAN

Init ==
  /\ BreakerInit
  /\ pc = [c \in Callers |-> "idle"]
  /\ attempt = [c \in Callers |-> 0]
  /\ age = [c \in Callers |-> 0]
  /\ healthy = FALSE

InFlight == {c \in Callers : pc[c] # "idle"}

\* the operation returns to its caller
Finish(c) ==
  /\ pc' = [pc EXCEPT ![c] = "idle"]
  /\ attempt' = [attempt EXCEPT ![c] = 0]
  /\ age' = [age EXCEPT ![c] = 0]

\* an operation the breaker rejects returns ErrOpen and leaves no trace
Admit(c) ==
  /\ pc[c] = "idle"
  /\ Allow
  /\ pc' = [pc EXCEPT ![c] = "calling"]
  /\ UNCHANGED <<attempt, age, healthy>>

CallOk(c) ==
  /\ pc[c] = "calling"
  /\ RecordSuccess
  /\ Finish(c)
  /\ UNCHANGED healthy

\* an answer that is no transient error, a refused password for one
CallRefused(c) ==
  /\ pc[c] = "calling"
  /\ ~healthy
  /\ RecordFailure
  /\ Finish(c)
  /\ UNCHANGED healthy

\* Unavailable or DeadlineExceeded with attempts left
CallTransient(c) ==
  /\ pc[c] = "calling"
  /\ ~healthy
  /\ Kind[c] # "join"
  /\ attempt[c] < MaxAttempts - 1
  /\ attempt' = [attempt EXCEPT ![c] = @ + 1]
  /\ pc' = [pc EXCEPT ![c] = "waiting"]
  /\ UNCHANGED <<breakerVars, age, healthy>>

\* ... and with none left
CallExhausted(c) ==
  /\ pc[c] = "calling"
  /\ ~healthy
  /\ Kind[c] = "join" \/ attempt[c] = MaxAttempts - 1
  /\ RecordFailure
  /\ Finish(c)
  /\ UNCHANGED healthy

WaitDone(c) ==
  /\ pc[c] = "waiting"
  /\ pc' = [pc EXCEPT ![c] = "calling"]
  /\ UNCHANGED <<breakerVars, attempt, age, healthy>>

\* GetOwner does not look at its context after a call: a cancelled call is an error
\* like any other
ReportCancel(c) ==
  IF Kind[c] = "getOwner" /\ pc[c] = "calling" THEN RecordFailure ELSE AbortProbe

\* the operation's context ends, by its deadline or because the client went away
Cancel(c) ==
  /\ c \in InFlight
  /\ ~healthy
  /\ ReportCancel(c)
  /\ Finish(c)
  /\ UNCHANGED healthy

DeadlineKept == \A c \in InFlight : age[c] < OpTimeout

\* contexts bound every operation, so time does not pass beyond a deadline
Tick ==
  /\ DeadlineKept
  /\ Age
  /\ age' = [c \in Callers |-> IF c \in InFlight THEN age[c] + 1 ELSE age[c]]
  /\ UNCHANGED <<pc, attempt, healthy>>

\* the service recovers for good
Heal ==
  /\ ~healthy
  /\ healthy' = TRUE
  /\ UNCHANGED <<breakerVars, callerVars>>

Progress(c) == Admit(c) \/ CallOk(c) \/ WaitDone(c)
Trouble(c) == CallRefused(c) \/ CallTransient(c) \/ CallExhausted(c) \/ Cancel(c)

Next ==
  \/ \E c \in Callers : Progress(c) \/ Trouble(c)
  \/ Tick
  \/ Heal

Spec == Init /\ [][Next]_vars

\* Requests keep coming, a healthy service answers, time passes.
FairSpec == Spec /\ WF_vars(Tick) /\ \A c \in Callers : WF_vars(Progress(c))

-----------------------------------------------------------------------------
(* Properties                                                              *)

\* circuitbreaker.go 54-55: exactly one request probes a half-open circuit.  It is
\* also the only operation in flight, so nobody else's late result decides the
\* probe, and a half-open circuit whose probe is gone cannot be.
HalfOpenIsolated == state = "halfOpen" => Cardinality(InFlight) = 1 /\ probeInFlight

\* While the circuit is open, the results of operations let through before it opened
\* neither prolong nor cut short its rejection window.
OpenWindowFixed ==
  [][state = "open" =>
       \/ state' = "open" /\ openAge' >= openAge
       \/ state' = "halfOpen" /\ openAge >= ResetTimeout]_vars

\* Whatever was cancelled, refused or lost, the circuit closes for good once the
\* service answers again.
Recovers == <>healthy => <>[](state = "closed")
=============================================================================
