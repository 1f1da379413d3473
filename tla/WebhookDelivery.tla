--------------------------- MODULE WebhookDelivery ---------------------------
(***************************************************************************)
(* One message event on its way to the webhooks of its workspace           *)
(* (internal/webhook/consumer.go HandleMessageSent, dispatcher.go Send).   *)
(* KafkaConsumer hands the event to a worker, to another one when the      *)
(* first is slow, and again until the handler returns no error.  For each  *)
(* webhook the handler looks into the ledger, sends up to MaxAttempts      *)
(* times, and enters it in the ledger.  RpcClients models the breaker;     *)
(* here it may be open at any Send.                                        *)
(***************************************************************************)
EXTENDS Naturals, FiniteSets

CONSTANTS
  Webhooks,
  Workers,
  MaxAttempts,  \* maxAttempts
  MaxFailures   \* bound: requests and calls that fail

WebhookAssumption == MaxAttempts \in Nat \ {0} /\ MaxFailures \in Nat

VARIABLES
  webhooks,     \* the webhooks of the workspace
  gone,         \* those removed from it
  ledger,       \* webhook_deliveries
  workers,      \* each worker: its webhooks to come, the one it is at, and errors
  done,         \* the event was handled without an error
  failures,     \* bound: requests and calls that failed
  received,     \* how often the receiver of a webhook got the event
  rejected,     \* receivers that answered with a 4xx
  promised,     \* history: the webhooks the handling that made it done had listed
  doubled       \* history: webhooks a cause of a second request was met for

vars == <<webhooks, gone, ledger, workers, done, failures, received, rejected, promised, doubled>>
receivers == <<received, rejected>>
workspace == <<webhooks, gone>>

Idle == [step |-> "idle", todo |-> {}, listed |-> {}, at |-> {}, attempt |-> 0, failed |-> {}]
Working(w) == workers[w].step # "idle"
Fails == failures < MaxFailures /\ failures' = failures + 1

Init ==
  /\ webhooks \in SUBSET Webhooks /\ ledger = {} /\ workers = [w \in Workers |-> Idle]
  /\ done = FALSE /\ failures = 0 /\ gone = {}
  /\ received = [t \in Webhooks |-> 0] /\ rejected = {} /\ promised = {} /\ doubled = {}

Make(t) ==
  /\ t \notin webhooks \cup gone /\ webhooks' = webhooks \cup {t}
  /\ UNCHANGED <<gone, ledger, workers, done, failures, receivers, promised, doubled>>

\* It takes its entries in the ledger with it.
Remove(t) ==
  /\ t \in webhooks /\ webhooks' = webhooks \ {t} /\ gone' = gone \cup {t}
  /\ ledger' = ledger \ {t} /\ promised' = promised \ {t}
  /\ UNCHANGED <<workers, done, failures, receivers, doubled>>

\* ListWorkspaceWebhooks, once the event is decoded and its channel found.
Begin(w) ==
  /\ ~done /\ workers[w] = Idle
  /\ workers' = [workers EXCEPT ![w] = [Idle EXCEPT !.step = "check", !.todo = webhooks, !.listed = webhooks]]
  /\ UNCHANGED <<workspace, ledger, done, failures, receivers, promised, doubled>>

\* continue, with an error or without.
Leave(w, t, error) ==
  LET q == workers[w]
  IN  workers' = [workers EXCEPT ![w] =
        [step |-> "check", todo |-> q.todo \ {t}, listed |-> q.listed, at |-> {}, attempt |-> 0,
         failed |-> IF error THEN q.failed \cup {t} ELSE q.failed]]

Passed(w) == workers[w].step = "check"

\* IsWebhookDelivered
Check(w, t) ==
  /\ Passed(w) /\ t \in workers[w].todo
  /\ \/ t \in ledger /\ Leave(w, t, FALSE) /\ UNCHANGED <<failures, doubled>>
     \/ /\ t \notin ledger /\ UNCHANGED failures
        /\ workers' = [workers EXCEPT ![w].step = "send", ![w].at = {t}]
        /\ doubled' = IF \E v \in Workers \ {w}: t \in workers[v].at THEN doubled \cup {t} ELSE doubled
     \/ Fails /\ Leave(w, t, TRUE) /\ UNCHANGED doubled
  /\ UNCHANGED <<workspace, ledger, done, receivers, promised>>

\* The breaker of the URL is open.
Refuse(w, t) ==
  /\ workers[w].step = "send" /\ t \in workers[w].at /\ workers[w].attempt = 0
  /\ Fails /\ Leave(w, t, TRUE)
  /\ UNCHANGED <<workspace, ledger, done, receivers, promised, doubled>>

\* One request.  An answer of 2xx or 3xx is a delivery, 4xx an end of it; a lost
\* answer and 5xx are tried again, though the receiver may have got it.
Post(w, t) ==
  /\ workers[w].step = "send" /\ t \in workers[w].at
  /\ \/ /\ received' = [received EXCEPT ![t] = @ + 1] /\ UNCHANGED <<rejected, failures, doubled>>
        /\ workers' = [workers EXCEPT ![w].step = "mark"]
     \/ /\ Fails /\ rejected' = rejected \cup {t} /\ UNCHANGED <<received, doubled>>
        /\ workers' = [workers EXCEPT ![w].step = "mark"]
     \/ /\ Fails /\ UNCHANGED rejected
        /\ \/ received' = [received EXCEPT ![t] = @ + 1] /\ doubled' = doubled \cup {t}
           \/ UNCHANGED <<received, doubled>>
        /\ IF workers[w].attempt + 1 = MaxAttempts THEN Leave(w, t, TRUE)
           ELSE workers' = [workers EXCEPT ![w].attempt = @ + 1]
  /\ UNCHANGED <<workspace, ledger, done, promised>>

\* MarkWebhookDelivered, a second entry is none; one of a webhook that is gone
\* is an error.
Mark(w, t) ==
  /\ workers[w].step = "mark" /\ t \in workers[w].at
  /\ \/ t \in webhooks /\ ledger' = ledger \cup {t} /\ Leave(w, t, FALSE) /\ UNCHANGED <<failures, doubled>>
     \/ t \notin webhooks /\ Leave(w, t, TRUE) /\ UNCHANGED <<ledger, failures, doubled>>
     \/ Fails /\ Leave(w, t, TRUE) /\ doubled' = doubled \cup {t} /\ UNCHANGED ledger
  /\ UNCHANGED <<workspace, done, receivers, promised>>

\* mutant: a webhook that cannot be reached is given up.
ReturnAnyway(w) ==
  /\ Passed(w) /\ workers[w].todo = {} /\ workers' = [workers EXCEPT ![w] = Idle]
  /\ done' = TRUE /\ promised' = promised \cup (workers[w].listed \cap webhooks)
  /\ UNCHANGED <<workspace, ledger, failures, receivers, doubled>>

\* errors.Join: the event is done, or comes again.
Return(w) ==
  /\ Passed(w) /\ workers[w].todo = {} /\ workers' = [workers EXCEPT ![w] = Idle]
  /\ IF workers[w].failed = {}
     THEN done' = TRUE /\ promised' = promised \cup (workers[w].listed \cap webhooks)
     ELSE UNCHANGED <<done, promised>>
  /\ UNCHANGED <<workspace, ledger, failures, receivers, doubled>>

\* The process ends in the middle.
Crash(w) ==
  /\ Working(w) /\ Fails /\ workers' = [workers EXCEPT ![w] = Idle]
  /\ doubled' = IF workers[w].step = "mark" THEN doubled \cup workers[w].at ELSE doubled
  /\ UNCHANGED <<workspace, ledger, done, receivers, promised>>

Next ==
  \/ \E t \in Webhooks: Make(t) \/ Remove(t)
  \/ \E w \in Workers:
       \/ Begin(w) \/ Return(w) \/ Crash(w)
       \/ \E t \in Webhooks: Check(w, t) \/ Refuse(w, t) \/ Post(w, t) \/ Mark(w, t)

Spec == Init /\ [][Next]_vars

-----------------------------------------------------------------------------
(* Properties *)

TypeOK ==
  /\ webhooks \cup gone \cup ledger \cup rejected \cup promised \subseteq Webhooks /\ done \in BOOLEAN
  /\ \A w \in Workers: workers[w].attempt < MaxAttempts /\ workers[w].at \cup workers[w].todo \subseteq Webhooks
  /\ received \in [Webhooks -> Nat]

\* An entry in the ledger is of a webhook whose receiver got the event or
\* turned it down, and an event is done only when every webhook it was handled
\* for and that is still there has its entry, whichever failed on the way.
LedgerAgrees ==
  /\ \A t \in ledger: received[t] > 0 \/ t \in rejected
  /\ done => promised \subseteq ledger

\* A receiver gets the event once, unless an answer or the entry was lost,
\* two workers were at its webhook at once, or the webhook was removed.
ReceivedOnce == \A t \in Webhooks: received[t] > 1 => t \in doubled \cup gone

WebhooksAgree == LedgerAgrees /\ ReceivedOnce
=============================================================================
