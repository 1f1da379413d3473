----------------------------- MODULE SearchIndex -----------------------------
(***************************************************************************)
(* One message and its document in Elasticsearch.  The handlers of         *)
(* internal/message write the row with its event and then the document;    *)
(* the consumers of cmd/core/main.go read the row again and write the      *)
(* document (syncSearchDocument); a starting core process writes every     *)
(* document (search.Client.Reindex).  A document carries no version, so    *)
(* the last writer decides.  KafkaConsumer says how an event comes to its  *)
(* handler: at least once, later ones of the same key passed over.  A row  *)
(* is the number of its text.                                              *)
(***************************************************************************)
EXTENDS Naturals

CONSTANTS
  Requests,     \* identities of requests, which bound them
  MaxFailures,  \* bound: calls that fail, deliveries that are repeated
  MaxStarts     \* bound: core processes that start

SearchAssumption == MaxFailures \in Nat /\ MaxStarts \in Nat

VARIABLES
  row,          \* the number of the text, 0 before the message is sent
  deleted,      \* deleted_at is set
  document,     \* the text of the document, 0 when there is none
  requests,     \* each request: what it is about to do to the document
  events,       \* the events of each topic that are to be handled
  processed,    \* topics whose event of this message was handled in 24 hours
  consumers,    \* what the consumer of a topic is about to do
  starting,     \* what a starting process is about to do
  starts,       \* bound: processes started
  failures,     \* bound: calls that failed
  outdated      \* history: the last call about the document wrote what the row
                \* was no longer, or was that of a handler, and failed

vars == <<row, deleted, document, requests, events, processed, consumers, starting, starts,
          failures, outdated>>

Topics == {"created", "edited", "deleted"}
\* What is to be done: nothing, or to write a text, or to take it out.
Nothing == [kind |-> "nothing", text |-> 0]
Put(n) == [kind |-> "put", text |-> n]
Remove == [kind |-> "remove", text |-> 0]
Over == [kind |-> "over", text |-> 0]
Fresh == [kind |-> "fresh", text |-> 0]

Init ==
  /\ row = 0 /\ deleted = FALSE /\ document = 0
  /\ requests = [r \in Requests |-> Fresh] /\ events = [t \in Topics |-> 0] /\ processed = {}
  /\ consumers = [t \in Topics |-> Nothing] /\ starting = Nothing /\ starts = 0
  /\ failures = 0 /\ outdated = FALSE

Fails == failures < MaxFailures /\ failures' = failures + 1
Enqueue(t) == events' = [events EXCEPT ![t] = @ + 1]
index == <<document, outdated>>

-----------------------------------------------------------------------------
(* The handlers: a transaction of the row and its event, then the document. *)

SendMessage(r) ==
  /\ requests[r] = Fresh /\ row = 0 /\ row' = 1 /\ Enqueue("created")
  /\ requests' = [requests EXCEPT ![r] = Put(1)]
  /\ UNCHANGED <<deleted, index, processed, consumers, starting, starts, failures>>

\* Neither the handler nor the statement looks at deleted_at.
EditMessage(r) ==
  /\ requests[r] = Fresh /\ row > 0 /\ row' = row + 1 /\ Enqueue("edited")
  /\ requests' = [requests EXCEPT ![r] = Put(row + 1)]
  /\ UNCHANGED <<deleted, index, processed, consumers, starting, starts, failures>>

DeleteMessage(r) ==
  /\ requests[r] = Fresh /\ row > 0 /\ deleted' = TRUE /\ Enqueue("deleted")
  /\ requests' = [requests EXCEPT ![r] = Remove]
  /\ UNCHANGED <<row, index, processed, consumers, starting, starts, failures>>

Current(do) == IF deleted THEN do = Remove ELSE do = Put(row)

\* Client.IndexMessage and Client.DeleteMessage.
Apply(do) == document' = do.text /\ outdated' = ~Current(do)

\* The error is logged, and the request goes on; or its process ends before.
Index(r) ==
  /\ requests[r].kind \in {"put", "remove"} /\ requests' = [requests EXCEPT ![r] = Over]
  /\ \/ Apply(requests[r]) /\ UNCHANGED failures
     \/ Fails /\ outdated' = TRUE /\ UNCHANGED document
  /\ UNCHANGED <<row, deleted, events, processed, consumers, starting, starts>>

-----------------------------------------------------------------------------
(* The consumers *)

\* An event whose key was handled is passed over: every edit has the same key.
Skip(t) ==
  /\ events[t] > 0 /\ consumers[t] = Nothing /\ t \in processed
  /\ events' = [events EXCEPT ![t] = @ - 1]
  /\ UNCHANGED <<row, deleted, index, requests, processed, consumers, starting, starts, failures>>

\* syncSearchDocument reads the row, deleted or not.
Begin(t) ==
  /\ events[t] > 0 /\ consumers[t] = Nothing /\ t \notin processed
  /\ consumers' = [consumers EXCEPT ![t] = IF t = "deleted" THEN Remove ELSE Put(row)]
  /\ UNCHANGED <<row, deleted, index, requests, events, processed, starting, starts, failures>>

\* The handler fails, or is done; the event is handled, or comes again.
Finish(t) ==
  /\ consumers[t] # Nothing /\ consumers' = [consumers EXCEPT ![t] = Nothing]
  /\ \/ /\ Apply(consumers[t]) /\ UNCHANGED failures
        /\ processed' = processed \cup {t} /\ events' = [events EXCEPT ![t] = @ - 1]
     \/ Fails /\ Apply(consumers[t]) /\ UNCHANGED <<processed, events>>
     \/ Fails /\ UNCHANGED <<index, processed, events>>
  /\ UNCHANGED <<row, deleted, requests, starting, starts>>

\* The key of a handled event lives 24 hours.
Forget(t) ==
  /\ t \in processed /\ processed' = processed \ {t}
  /\ UNCHANGED <<row, deleted, index, requests, events, consumers, starting, starts, failures>>

-----------------------------------------------------------------------------
(* A core process starts. *)

\* ListMessagesForSearch leaves the deleted ones out.
Load ==
  /\ starts < MaxStarts /\ starts' = starts + 1 /\ starting = Nothing
  /\ row > 0 /\ ~deleted /\ starting' = Put(row)
  /\ UNCHANGED <<row, deleted, index, requests, events, processed, consumers, failures>>

\* The first document that fails ends it.
Reindex ==
  /\ starting # Nothing /\ starting' = Nothing
  /\ \/ Apply(starting) /\ UNCHANGED failures
     \/ Fails /\ UNCHANGED index
  /\ UNCHANGED <<row, deleted, requests, events, processed, consumers, starts>>

Next ==
  \/ \E r \in Requests: SendMessage(r) \/ EditMessage(r) \/ DeleteMessage(r) \/ Index(r)
  \/ \E t \in Topics: Skip(t) \/ Begin(t) \/ Finish(t) \/ Forget(t)
  \/ Load \/ Reindex

Spec == Init /\ [][Next]_vars

-----------------------------------------------------------------------------
(* Properties *)

TypeOK ==
  /\ row \in Nat /\ deleted \in BOOLEAN /\ document \in 0..row
  /\ processed \subseteq Topics /\ failures \in 0..MaxFailures /\ outdated \in BOOLEAN

Settled ==
  /\ \A r \in Requests: requests[r].kind \notin {"put", "remove"}
  /\ \A t \in Topics: consumers[t] = Nothing

\* Once nothing is under way the document is the row, or gone with it, whatever
\* events are passed over, repeated or late, unless the last call about it was
\* a handler's and failed, or wrote what had been read before a later change or
\* of a message already deleted (main.go:76, message/handler.go:589).
SearchAgrees ==
  Settled /\ ~outdated => document = IF deleted THEN 0 ELSE row
=============================================================================
