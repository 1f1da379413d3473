------------------------------- MODULE Outbox -------------------------------
(***************************************************************************)
(* The transactional outbox: the event_outbox table, the HTTP handlers     *)
(* that insert into it inside their own transaction, and the dispatcher    *)
(* goroutine runOutbox of every core process, which claims rows under a    *)
(* lease, publishes them to Kafka and marks or releases them.              *)
(*                                                                         *)
(* An event stands for one transaction that writes a business row (a       *)
(* message, a reaction, a user) and the outbox row announcing it.  Time is *)
(* abstract: a claim is live until its lease lapses, which may happen at   *)
(* any moment, because a batch of Limit slow publishes can outlast it.     *)
(* The claim token, a fresh uuid per tick, is represented by its           *)
(* dispatcher: a dispatcher works on one batch at a time, settles rows of  *)
(* that batch only, and stamped every one of them in that tick.            *)
(***************************************************************************)
EXTENDS Naturals, FiniteSets

CONSTANTS
  Events,           \* transactions that announce an event
  Poison,           \* events whose payload the broker always refuses
  Dispatchers,      \* core processes running runOutbox
  Limit,            \* rows one claim may take: 100
  PublishAttempts,  \* tries inside one PublishRaw: 3
  MaxCopies,        \* bound: copies of one event counted in the topic
  MaxCrashes,       \* bound: process stops
  MaxSlow,          \* bound: leases that lapse under a working dispatcher
  None              \* no dispatcher, no event

ASSUME OutboxConstants ==
  /\ IsFiniteSet(Events)
  /\ Poison \subseteq Events
  /\ Limit \in Nat \ {0}
  /\ PublishAttempts \in Nat \ {0}
  /\ MaxCopies \in Nat /\ MaxCopies >= 2
  /\ MaxCrashes \in Nat /\ MaxSlow \in Nat
  /\ None \notin Events /\ None \notin Dispatchers

VARIABLES
  (* the database *)
  tx,          \* per event: how far its transaction is
  createdAt,   \* per event: created_at, the start of its transaction
  business,    \* events whose business row is visible
  outbox,      \* events whose outbox row is visible
  published,   \* per row: published_at is set
  claim,       \* per row: claimed_at is "free" (NULL), "live" or "stale"
  token,       \* per row: whose claim_token it is
  (* the broker *)
  topic,       \* per event: copies in its topic, counted up to MaxCopies
  (* the dispatchers *)
  pc,          \* per dispatcher: where its loop is
  todo,        \* per dispatcher: claimed items it has not started
  cur,         \* per dispatcher: the item it works on
  tries,       \* per dispatcher: failed attempts inside PublishRaw
  (* bounds and history *)
  crashes, slow,
  disturbed    \* events that met a lapsed lease or an ambiguous publish

dbVars == <<tx, createdAt, business, outbox>>
rowVars == <<published, claim, token>>
loopVars == <<pc, todo, cur, tries>>
boundVars == <<crashes, slow>>
vars == <<dbVars, rowVars, topic, loopVars, boundVars, disturbed>>

TypeOK ==
  /\ tx \in [Events -> {"none", "written", "enqueued", "committed", "rolledBack"}]
  /\ createdAt \in [Events -> Nat]
  /\ business \subseteq Events
  /\ outbox \subseteq Events
  /\ published \in [Events -> BOOLEAN]
  /\ claim \in [Events -> {"free", "live", "stale"}]
  /\ token \in [Events -> Dispatchers \cup {None}]
  /\ topic \in [Events -> 0..MaxCopies]
  /\ pc \in [Dispatchers -> {"idle", "looping", "publishing", "published", "failed"}]
  /\ todo \in [Dispatchers -> SUBSET Events]
  /\ cur \in [Dispatchers -> Events \cup {None}]
  /\ tries \in [Dispatchers -> 0..PublishAttempts]
  /\ crashes \in 0..MaxCrashes
  /\ slow \in 0..MaxSlow
  /\ disturbed \subseteq Events

Init ==
  /\ tx = [e \in Events |-> "none"]
  /\ createdAt = [e \in Events |-> 0]
  /\ business = {} /\ outbox = {}
  /\ published = [e \in Events |-> FALSE]
  /\ claim = [e \in Events |-> "free"]
  /\ token = [e \in Events |-> None]
  /\ topic = [e \in Events |-> 0]
  /\ pc = [d \in Dispatchers |-> "idle"]
  /\ todo = [d \in Dispatchers |-> {}]
  /\ cur = [d \in Dispatchers |-> None]
  /\ tries = [d \in Dispatchers |-> 0]
  /\ crashes = 0 /\ slow = 0
  /\ disturbed = {}

-----------------------------------------------------------------------------
(* The writers: InTx(CreateMessage; EnqueueOutbox).                        *)

\* Begin and the business INSERT; created_at of the outbox row is now(), which
\* Postgres fixes when the transaction starts.
TxWrite(e) ==
  /\ tx[e] = "none"
  /\ tx' = [tx EXCEPT ![e] = "written"]
  /\ createdAt' = [createdAt EXCEPT ![e] = 1 + Cardinality({f \in Events : tx[f] # "none"})]
  /\ UNCHANGED <<business, outbox, rowVars, topic, loopVars, boundVars, disturbed>>

\* mutant: the INSERT goes through the pool and not through the transaction
TxEnqueueOutsideTx(e) ==
  /\ tx[e] = "written"
  /\ tx' = [tx EXCEPT ![e] = "enqueued"]
  /\ outbox' = outbox \cup {e}
  /\ UNCHANGED <<createdAt, business, rowVars, topic, loopVars, boundVars, disturbed>>

TxEnqueue(e) ==
  /\ tx[e] = "written"
  /\ tx' = [tx EXCEPT ![e] = "enqueued"]
  /\ UNCHANGED <<createdAt, business, outbox, rowVars, topic, loopVars, boundVars, disturbed>>

TxCommit(e) ==
  /\ tx[e] = "enqueued"
  /\ tx' = [tx EXCEPT ![e] = "committed"]
  /\ business' = business \cup {e}
  /\ outbox' = outbox \cup {e}
  /\ UNCHANGED <<createdAt, rowVars, topic, loopVars, boundVars, disturbed>>

\* an error of either statement, of Commit, or the process stopping
TxRollback(e) ==
  /\ tx[e] \in {"written", "enqueued"}
  /\ tx' = [tx EXCEPT ![e] = "rolledBack"]
  /\ UNCHANGED <<createdAt, business, outbox, rowVars, topic, loopVars, boundVars, disturbed>>

-----------------------------------------------------------------------------
(* One tick of runOutbox: claim, then publish and settle item by item.     *)

\* mutants of the claim's WHERE clause
ClaimableWithoutPublished(e) == e \in outbox /\ claim[e] \in {"free", "stale"}
ClaimableWithoutLease(e) == e \in outbox /\ ~published[e]
ClaimableNeverStale(e) == e \in outbox /\ ~published[e] /\ claim[e] = "free"

Claimable(e) ==
  /\ e \in outbox
  /\ ~published[e]
  /\ claim[e] \in {"free", "stale"}

\* the rows ORDER BY created_at LIMIT keeps of S
Oldest(S) ==
  {e \in S : Cardinality({f \in S : createdAt[f] < createdAt[e]}) < Limit}

\* rows the statement of another dispatcher may have locked: SKIP LOCKED
LockedByOthers(d) ==
  {cur[x] : x \in {y \in Dispatchers \ {d} : pc[y] \in {"published", "failed"}}}

Claim(d) ==
  /\ pc[d] = "idle"
  /\ \E skipped \in SUBSET LockedByOthers(d) :
       LET rows == Oldest({e \in Events : Claimable(e)} \ skipped)
       IN  /\ rows # {}
           /\ claim' = [e \in Events |-> IF e \in rows THEN "live" ELSE claim[e]]
           /\ token' = [e \in Events |-> IF e \in rows THEN d ELSE token[e]]
           /\ todo' = [todo EXCEPT ![d] = rows]
  /\ pc' = [pc EXCEPT ![d] = "looping"]
  /\ UNCHANGED <<dbVars, published, topic, cur, tries, boundVars, disturbed>>

\* the next item of the batch; UPDATE ... RETURNING promises no order
StartItem(d, e) ==
  /\ pc[d] = "looping"
  /\ e \in todo[d]
  /\ todo' = [todo EXCEPT ![d] = @ \ {e}]
  /\ cur' = [cur EXCEPT ![d] = e]
  /\ pc' = [pc EXCEPT ![d] = "publishing"]
  /\ UNCHANGED <<dbVars, rowVars, topic, tries, boundVars, disturbed>>

EndBatch(d) ==
  /\ pc[d] = "looping"
  /\ todo[d] = {}
  /\ pc' = [pc EXCEPT ![d] = "idle"]
  /\ UNCHANGED <<dbVars, rowVars, topic, todo, cur, tries, boundVars, disturbed>>

\* the broker appends a copy of e
Append1(e) ==
  topic' = [topic EXCEPT ![e] = IF @ < MaxCopies THEN @ + 1 ELSE @]

\* WriteMessages returned nil
PublishOk(d, e) ==
  /\ pc[d] = "publishing"
  /\ cur[d] = e
  /\ e \notin Poison
  /\ Append1(e)
  /\ pc' = [pc EXCEPT ![d] = "published"]
  /\ UNCHANGED <<dbVars, rowVars, todo, cur, tries, boundVars, disturbed>>

\* mutant: the loop goes on to Mark whatever PublishRaw returned
AfterErrorIgnored(d) ==
  /\ tries' = [tries EXCEPT ![d] = @ + 1]
  /\ pc' = [pc EXCEPT ![d] = IF tries[d] + 1 = PublishAttempts THEN "published" ELSE @]

\* mutant: one attempt too many
AfterErrorOneMore(d) ==
  /\ tries' = [tries EXCEPT ![d] = @ + 1]
  /\ pc' = [pc EXCEPT ![d] = IF tries[d] = PublishAttempts THEN "failed" ELSE @]

\* an attempt failed: try again, or give the item up
AfterError(d) ==
  /\ tries' = [tries EXCEPT ![d] = @ + 1]
  /\ pc' = [pc EXCEPT ![d] = IF tries[d] + 1 = PublishAttempts THEN "failed" ELSE @]

\* an error before the broker stored the record
PublishError(d) ==
  /\ pc[d] = "publishing"
  /\ AfterError(d)
  /\ UNCHANGED <<dbVars, rowVars, topic, todo, cur, boundVars, disturbed>>

\* the broker stored the record and the answer was lost (WriteTimeout)
PublishAmbiguous(d) ==
  /\ pc[d] = "publishing"
  /\ cur[d] \notin Poison
  /\ Append1(cur[d])
  /\ AfterError(d)
  /\ disturbed' = disturbed \cup {cur[d]}
  /\ UNCHANGED <<dbVars, rowVars, todo, cur, boundVars>>

\* mutant: WHERE id = $1 alone
OwnsAnyRow(d) == TRUE

\* WHERE id = $1 AND claim_token = $2
OwnsRow(d) == token[cur[d]] = d

\* the item is done with, whether or not the UPDATE matched
NextItem(d) ==
  /\ pc' = [pc EXCEPT ![d] = "looping"]
  /\ cur' = [cur EXCEPT ![d] = None]
  /\ tries' = [tries EXCEPT ![d] = 0]
  /\ UNCHANGED <<dbVars, topic, todo, boundVars, disturbed>>

\* MarkOutboxPublished; it leaves claim_token in the row
Mark(d, e) ==
  /\ pc[d] = "published"
  /\ cur[d] = e
  /\ IF OwnsRow(d)
     THEN /\ published' = [published EXCEPT ![e] = TRUE]
          /\ claim' = [claim EXCEPT ![e] = "free"]
     ELSE UNCHANGED <<published, claim>>
  /\ UNCHANGED token
  /\ NextItem(d)

\* ReleaseOutboxClaim
Release(d) ==
  /\ pc[d] = "failed"
  /\ IF OwnsRow(d)
     THEN /\ claim' = [claim EXCEPT ![cur[d]] = "free"]
          /\ token' = [token EXCEPT ![cur[d]] = None]
     ELSE UNCHANGED <<claim, token>>
  /\ UNCHANGED published
  /\ NextItem(d)

\* the UPDATE itself failed: logged after Mark, ignored after Release
SettleLost(d) ==
  /\ pc[d] \in {"published", "failed"}
  /\ UNCHANGED rowVars
  /\ NextItem(d)

\* the process stops, by a crash or by the shutdown's ctx.Done; its claims stay
Crash(d) ==
  /\ pc[d] # "idle"
  /\ crashes < MaxCrashes
  /\ crashes' = crashes + 1
  /\ pc' = [pc EXCEPT ![d] = "idle"]
  /\ todo' = [todo EXCEPT ![d] = {}]
  /\ cur' = [cur EXCEPT ![d] = None]
  /\ tries' = [tries EXCEPT ![d] = 0]
  /\ UNCHANGED <<dbVars, rowVars, topic, slow, disturbed>>

-----------------------------------------------------------------------------
(* The lease: claimed_at < now - 30s.                                      *)

Held(e) == \E d \in Dispatchers : (e \in todo[d] \/ cur[d] = e) /\ token[e] = d

Lapse(e) ==
  /\ claim[e] = "live"
  /\ claim' = [claim EXCEPT ![e] = "stale"]
  /\ disturbed' = disturbed \cup {e}
  /\ UNCHANGED <<dbVars, published, token, topic, loopVars, crashes>>

\* the claimant is gone, or lost the row's answer
LapseAbandoned(e) == ~Held(e) /\ Lapse(e) /\ UNCHANGED slow

\* the claimant is still working through its batch
LapseHeld(e) == Held(e) /\ slow < MaxSlow /\ Lapse(e) /\ slow' = slow + 1

-----------------------------------------------------------------------------
Writer(e) == TxWrite(e) \/ TxEnqueue(e) \/ TxCommit(e) \/ TxRollback(e)

\* the steps of a dispatcher that only need its process to run
Loop(d) ==
  \/ \E e \in Events : StartItem(d, e)
  \/ EndBatch(d)
  \/ PublishError(d)
  \/ Release(d)
  \/ SettleLost(d)

Next ==
  \/ \E e \in Events : Writer(e) \/ LapseAbandoned(e) \/ LapseHeld(e)
  \/ \E d \in Dispatchers :
       \/ Claim(d) \/ Loop(d) \/ PublishAmbiguous(d) \/ Crash(d)
       \/ \E e \in Events : PublishOk(d, e) \/ Mark(d, e)

Spec == Init /\ [][Next]_vars

\* The ticker fires for ever and the loop body runs; broker and database are
\* up infinitely often; 30 seconds pass.  Crashes and slow batches end.
Fairness ==
  /\ \A d \in Dispatchers :
       WF_vars(Claim(d) \/ Loop(d) \/ \E e \in Events : PublishOk(d, e) \/ Mark(d, e))
  /\ \A e \in Events \ Poison :
       /\ SF_vars(\E d \in Dispatchers : PublishOk(d, e))
       /\ SF_vars(\E d \in Dispatchers : Mark(d, e))
  /\ \A e \in Events : WF_vars(LapseAbandoned(e))

FairSpec == Spec /\ Fairness

-----------------------------------------------------------------------------
(* Properties                                                              *)

\* The topic never announces something no transaction committed: the handlers enqueue
\* inside the transaction that writes the row they announce.
NoPhantomEvent == \A e \in Events : topic[e] > 0 => e \in business

\* A row carries published_at only if the broker holds the event: whatever was
\* lost, retried or fenced on the way, no acknowledged event is missing.
AckedIsInTopic == \A e \in Events : published[e] => topic[e] > 0

\* When no lease lapsed and no publish was ambiguous, the event is in the topic
\* at most once, for any number of dispatchers: the claim alone prevents doubles.
DuplicateNeedsCause == \A e \in Events : topic[e] > 1 => e \in disturbed

\* A claim ends in the hands of the dispatcher whose token the row carries: one
\* that lost its lease neither acknowledges nor releases what another reclaimed.
OnlyOwnerSettles ==
  [][\A e \in Events :
       claim[e] # "free" /\ claim'[e] = "free" =>
         \E d \in Dispatchers : cur[d] = e /\ token[e] = d]_vars

\* An acknowledged row is final: no dispatcher takes it again.
AckIsFinal ==
  [][\A e \in Events : published[e] => published'[e] /\ claim'[e] = "free" /\ token'[e] = token[e]]_vars

\* Every committed event that the broker can store is eventually acknowledged, in
\* spite of crashes, lost answers, and older rows that fail for ever, as long as
\* there are fewer than Limit of those: they come first in every claim.
EventuallyAcked == \A e \in Events \ Poison : e \in outbox ~> published[e]

\* The outbox implements at-least-once delivery.
Delivery ==
  INSTANCE EventDelivery WITH
    committed <- outbox,
    delivered <- {e \in Events : topic[e] > 0},
    acknowledged <- {e \in Events : published[e]}

\* Every step of the outbox is a step the at-least-once promise allows.
DeliversAtLeastOnce == Delivery!Safety
=============================================================================
