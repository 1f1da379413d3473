--------------------------- MODULE KafkaConsumer ---------------------------
(***************************************************************************)
(* One Kafka consumer group reading one partition: Consumer.Run in every   *)
(* core process, the Redis keys "processed:<k>" and "processing:<k>" that  *)
(* de-duplicate events, and, as far as the code relies on them, the group  *)
(* coordinator and the kafka-go reader (external): one member owns the     *)
(* partition, a new owner starts at the committed offset, and a reader     *)
(* never goes back by itself to an offset it has fetched.                  *)
(*                                                                         *)
(* A lease token (uuid.NewString()) is represented by its worker: a worker *)
(* makes one attempt at a time, and can claim a key again only after the   *)
(* lease of its earlier attempt is gone.                                   *)
(***************************************************************************)
EXTENDS Naturals, Sequences

CONSTANTS
  Workers,   \* core processes of the group
  Keys,      \* dedup keys
  Garbage,   \* what EventDedupKey makes of a record that is not JSON
  Log,       \* the partition: the dedup key of each record
  Max,       \* bound on each kind of trouble
  None       \* no worker

Trouble == {"handler", "call", "crash", "rebalance", "slow", "expiry"}

ASSUME ConsumerConstants ==
  /\ Garbage \notin Keys
  /\ Log \in Seq(Keys \cup {Garbage})
  /\ Max \in [Trouble -> Nat]
  /\ None \notin Workers

VARIABLES
  (* the group coordinator *)
  owner,      \* the member the partition is assigned to
  committed,  \* the next offset a new owner reads
  (* Redis *)
  processed,  \* keys with a "processed:" entry, kept 24 hours
  lease,      \* per key: whose token "processing:" holds, for 30 seconds
  (* the workers *)
  pc,         \* where the loop of Run is
  pos,        \* the reader's position
  msg,        \* the offset of the message in hand, 0 when there is none
  (* history and bounds *)
  effects,    \* per key: successful runs of handle, counted up to 2
  overtaken,  \* workers whose lease lapsed during their attempt
  disturbed,  \* keys that met one of the causes of a double effect
  used        \* how much trouble there has been

groupVars == <<owner, committed>>
redisVars == <<processed, lease>>
workerVars == <<pc, pos, msg>>
historyVars == <<effects, overtaken, disturbed>>
vars == <<groupVars, redisVars, workerVars, historyVars, used>>

Offsets == 1..Len(Log)

TypeOK ==
  /\ owner \in Workers \cup {None}
  /\ committed \in 1..(Len(Log) + 1)
  /\ processed \subseteq Keys
  /\ lease \in [Keys -> Workers \cup {None}]
  /\ pc \in [Workers -> {"fetch", "check", "claim", "handle", "complete",
                         "release", "abandon", "commit"}]
  /\ pos \in [Workers -> 1..(Len(Log) + 1)]
  /\ msg \in [Workers -> 0..Len(Log)]
  /\ effects \in [Keys -> 0..2]
  /\ overtaken \subseteq Workers
  /\ disturbed \subseteq Keys
  /\ used \in [Trouble -> Nat]
  /\ \A t \in Trouble : used[t] <= Max[t]

Init ==
  /\ owner = None
  /\ committed = 1
  /\ processed = {}
  /\ lease = [k \in Keys |-> None]
  /\ pc = [w \in Workers |-> "fetch"]
  /\ pos = [w \in Workers |-> 1]
  /\ msg = [w \in Workers |-> 0]
  /\ effects = [k \in Keys |-> 0]
  /\ overtaken = {}
  /\ disturbed = {}
  /\ used = [t \in Trouble |-> 0]

Spend(t) ==
  /\ used[t] < Max[t]
  /\ used' = [used EXCEPT ![t] = @ + 1]

\* the dedup key of the message in w's hands
Key(w) == Log[msg[w]]

GoTo(w, where) == pc' = [pc EXCEPT ![w] = where]

\* continue: on to the next FetchMessage, without the message in hand
Continue(w) ==
  /\ GoTo(w, "fetch")
  /\ msg' = [msg EXCEPT ![w] = 0]
  /\ overtaken' = overtaken \ {w}

-----------------------------------------------------------------------------
(* The loop of Run.                                                        *)

\* FetchMessage and EventDedupKey: a record without a key is only committed
Fetch(w) ==
  /\ pc[w] = "fetch"
  /\ owner = w
  /\ pos[w] \in Offsets
  /\ msg' = [msg EXCEPT ![w] = pos[w]]
  /\ pos' = [pos EXCEPT ![w] = @ + 1]
  /\ GoTo(w, IF Log[pos[w]] = Garbage THEN "commit" ELSE "check")
  /\ UNCHANGED <<groupVars, redisVars, historyVars, used>>

\* EXISTS processed:<k>
Seen(k) == k \in processed

Check(w) ==
  /\ pc[w] = "check"
  /\ GoTo(w, IF Seen(Key(w)) THEN "commit" ELSE "claim")
  /\ UNCHANGED <<groupVars, redisVars, pos, msg, historyVars, used>>

\* mutant: SET without NX
LeaseFreeAlways(k) == TRUE

LeaseFree(k) == lease[k] = None

\* SET processing:<k> NX EX 30.  A claim on a processed key means that another
\* worker finished the event after this one's Check.
ClaimLease(w) ==
  /\ pc[w] = "claim"
  /\ LeaseFree(Key(w))
  /\ lease' = [lease EXCEPT ![Key(w)] = w]
  /\ disturbed' = IF Key(w) \in processed THEN disturbed \cup {Key(w)} ELSE disturbed
  /\ GoTo(w, "handle")
  /\ UNCHANGED <<groupVars, processed, pos, msg, effects, overtaken, used>>

\* another worker holds the lease: the message is left without a commit
LeaseHeld(w) ==
  /\ pc[w] = "claim"
  /\ ~LeaseFree(Key(w))
  /\ Continue(w)
  /\ UNCHANGED <<groupVars, redisVars, pos, effects, disturbed, used>>

HandleOk(w) ==
  /\ pc[w] = "handle"
  /\ effects' = [effects EXCEPT ![Key(w)] = IF @ < 2 THEN @ + 1 ELSE @]
  /\ GoTo(w, "complete")
  /\ UNCHANGED <<groupVars, redisVars, pos, msg, overtaken, disturbed, used>>

\* mutant: a handler error is logged and the loop falls through to the commit
OnHandleErrorCommit(w) == GoTo(w, "release")

OnHandleError(w) == GoTo(w, "abandon")

HandleError(w) ==
  /\ pc[w] = "handle"
  /\ Spend("handler")
  /\ OnHandleError(w)
  /\ UNCHANGED <<groupVars, redisVars, pos, msg, historyVars>>

\* SET processed:<k> EX 24h
Complete(w) ==
  /\ pc[w] = "complete"
  /\ processed' = processed \cup {Key(w)}
  /\ GoTo(w, "release")
  /\ UNCHANGED <<groupVars, lease, pos, msg, historyVars, used>>

\* the SET failed; the effect of handle stays
CompleteError(w) ==
  /\ pc[w] = "complete"
  /\ Spend("call")
  /\ disturbed' = disturbed \cup {Key(w)}
  /\ GoTo(w, "abandon")
  /\ UNCHANGED <<groupVars, redisVars, pos, msg, effects, overtaken>>

\* mutant: DEL without comparing the token
OwnsAnyLease(w) == TRUE

OwnsLease(w) == lease[Key(w)] = w

\* the compare-and-delete script; its error is ignored (ReleaseLost)
DeleteLease(w) ==
  lease' = IF OwnsLease(w) THEN [lease EXCEPT ![Key(w)] = None] ELSE lease

Release(w) ==
  /\ pc[w] = "release"
  /\ DeleteLease(w)
  /\ GoTo(w, "commit")
  /\ UNCHANGED <<groupVars, processed, pos, msg, historyVars, used>>

\* the release of an attempt that failed
Abandon(w) ==
  /\ pc[w] = "abandon"
  /\ DeleteLease(w)
  /\ Continue(w)
  /\ UNCHANGED <<groupVars, processed, pos, effects, disturbed, used>>

\* CommitMessages commits an offset, and with it every earlier one; a member that
\* lost the partition still commits, and may so move the group back
Commit(w) ==
  /\ pc[w] = "commit"
  /\ committed' = msg[w] + 1
  /\ Continue(w)
  /\ UNCHANGED <<owner, redisVars, pos, effects, disturbed, used>>

\* Redis or the broker fails a call whose error leaves the message uncommitted
CallError(w) ==
  /\ pc[w] \in {"check", "claim", "commit"}
  /\ Spend("call")
  /\ Continue(w)
  /\ UNCHANGED <<groupVars, redisVars, pos, effects, disturbed>>

ReleaseLost(w) ==
  /\ pc[w] \in {"release", "abandon"}
  /\ Spend("call")
  /\ IF pc[w] = "release"
     THEN GoTo(w, "commit") /\ UNCHANGED <<msg, overtaken>>
     ELSE Continue(w)
  /\ UNCHANGED <<groupVars, redisVars, pos, effects, disturbed>>

-----------------------------------------------------------------------------
(* The environment.                                                        *)

\* the process stops, by a crash or a shutdown, and may join again later
Crash(w) ==
  /\ Spend("crash")
  /\ owner = w \/ pc[w] # "fetch"
  /\ owner' = IF owner = w THEN None ELSE owner
  /\ disturbed' = IF pc[w] = "complete" THEN disturbed \cup {Key(w)} ELSE disturbed
  /\ Continue(w)
  /\ UNCHANGED <<committed, redisVars, pos, effects>>

\* mutant: a new owner starts one past the committed offset
StartOffsetPlusOne == committed + 1

StartOffset == committed

\* the coordinator gives the partition to w; its owner finishes what it holds
Own(w) ==
  /\ owner' = w
  /\ pos' = [pos EXCEPT ![w] = StartOffset]
  /\ UNCHANGED <<committed, redisVars, pc, msg, historyVars>>

Assign(w) == owner = None /\ Own(w) /\ UNCHANGED used
Rebalance(w) == owner # None /\ Spend("rebalance") /\ Own(w)

\* the worker whose attempt the lease of k protects
Holds(w, k) ==
  /\ pc[w] \in {"handle", "complete", "release", "abandon"}
  /\ Key(w) = k
  /\ lease[k] = w

LapseFree(k) ==
  /\ lease[k] # None
  /\ \A w \in Workers : ~Holds(w, k)
  /\ lease' = [lease EXCEPT ![k] = None]
  /\ UNCHANGED <<groupVars, processed, workerVars, historyVars, used>>

\* 30 seconds pass while the holder is still at work
LapseHeld(w) ==
  /\ msg[w] # 0
  /\ Holds(w, Key(w))
  /\ Spend("slow")
  /\ lease' = [lease EXCEPT ![Key(w)] = None]
  /\ overtaken' = overtaken \cup {w}
  /\ disturbed' = disturbed \cup {Key(w)}
  /\ UNCHANGED <<groupVars, processed, workerVars, effects>>

\* 24 hours pass
Expire(k) ==
  /\ k \in processed
  /\ Spend("expiry")
  /\ processed' = processed \ {k}
  /\ disturbed' = disturbed \cup {k}
  /\ UNCHANGED <<groupVars, lease, workerVars, effects, overtaken>>

-----------------------------------------------------------------------------
Loop(w) ==
  \/ Fetch(w) \/ Check(w) \/ ClaimLease(w) \/ LeaseHeld(w) \/ HandleOk(w)
  \/ Complete(w) \/ Release(w) \/ Abandon(w) \/ Commit(w)

Failure(w) ==
  HandleError(w) \/ CompleteError(w) \/ CallError(w) \/ ReleaseLost(w) \/ Crash(w)

Next ==
  \/ \E w \in Workers : Loop(w) \/ Failure(w) \/ Assign(w) \/ Rebalance(w) \/ LapseHeld(w)
  \/ \E k \in Keys : LapseFree(k) \/ Expire(k)

Spec == Init /\ [][Next]_vars

\* The goroutine of every process runs, the coordinator assigns an orphaned
\* partition, and 30 seconds pass for a lease nobody works under.
FairSpec ==
  /\ Spec
  /\ \A w \in Workers : WF_vars(Loop(w))
  /\ WF_vars(\E w \in Workers : Assign(w))
  /\ \A k \in Keys : WF_vars(LapseFree(k))

-----------------------------------------------------------------------------
(* Properties                                                              *)

\* The lease is a lock on the event: two workers run its handler at the same time
\* only if 30 seconds passed under one of them, whatever was released, redelivered
\* or restarted in between.
ExclusiveHandling ==
  \A v, w \in Workers :
    /\ v # w
    /\ pc[v] \in {"handle", "complete"} /\ pc[w] \in {"handle", "complete"}
    /\ Key(v) = Key(w)
    => v \in overtaken \/ w \in overtaken

\* The causes of a double effect are exactly these: a lease that lapsed under its
\* holder, a stop or a Redis failure between handle and Complete, a forgotten
\* "processed:" key, and a Check that was stale when the lease was taken.
DoubleEffectNeedsCause == \A k \in Keys : effects[k] > 1 => k \in disturbed

Done(o) == Log[o] = Garbage \/ effects[Log[o]] > 0

\* A worker moves the group's offset only past a message that is itself done.
CommitsOnlyDone ==
  [][committed' # committed => Done(committed' - 1)]_vars

\* Without a failing call or handler, a stop or a lost "processed:" key, every event is
\* handled: a worker that loses the partition, even under a slow handler, finishes
\* what the new owner skips.
EveryEventHandled ==
  <>(\/ \A o \in Offsets : Done(o)
     \/ \E t \in {"handler", "call", "crash", "expiry"} : used[t] > 0)

\* consumer.go 18-21: the SetNX check makes the reprocessing of a redelivered
\* message safe.
ReprocessingIsSafe == \A k \in Keys : effects[k] <= 1

\* consumer.go 82-83: an event whose handler failed is not committed and comes back.
UncommittedUntilDone == \A o \in Offsets : o < committed => Done(o)
=============================================================================
