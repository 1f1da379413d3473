-------------------------- MODULE ScheduledMessages --------------------------
(***************************************************************************)
(* Messages sent later (internal/productivity/handler.go Schedule, cmd/    *)
(* core/main.go runScheduledMessages, services/database/productivity.go).  *)
(* Every core process claims due rows each two seconds, which marks them   *)
(* sent, and then creates their messages one at a time, with no            *)
(* transaction around both and no outbox row.  The rows a claim returns    *)
(* come in any order.                                                      *)
(***************************************************************************)
EXTENDS Naturals, FiniteSets

CONSTANTS
  Rows,
  Workers,      \* core processes
  Limit,        \* rows claimed at once (100 in the code)
  MaxTime,      \* bound: of the clock
  MaxFailures   \* bound: calls that fail, and stops of a process

ScheduleAssumption == Limit \in Nat \ {0} /\ MaxTime \in Nat /\ MaxFailures \in Nat

VARIABLES
  now,
  scheduled,    \* scheduled_messages
  dueAt,        \* scheduled_for
  claimed,      \* rows whose sent_at is set
  running,      \* processes whose context is not done
  batch,        \* what each process has claimed and not come to
  telling,      \* the row whose message a process is about to broadcast
  messages,     \* how many messages each row has become
  told,         \* rows whose message was broadcast
  lost,         \* history: claimed rows whose insert failed, or whose process
                \* or claim was gone before it
  failures

table == <<scheduled, dueAt, claimed>>
vars == <<now, table, running, batch, telling, messages, told, lost, failures>>

Fails == failures < MaxFailures /\ failures' = failures + 1

Init ==
  /\ now = 0 /\ scheduled = {} /\ dueAt = [m \in Rows |-> 0] /\ claimed = {}
  /\ running = Workers /\ batch = [w \in Workers |-> {}] /\ telling = [w \in Workers |-> {}]
  /\ messages = [m \in Rows |-> 0] /\ told = {} /\ lost = {} /\ failures = 0

Tick ==
  /\ now < MaxTime /\ now' = now + 1
  /\ UNCHANGED <<table, running, batch, telling, messages, told, lost, failures>>

\* A time in the past is refused.
Schedule(m) ==
  /\ m \notin scheduled /\ scheduled' = scheduled \cup {m}
  /\ \E t \in now..MaxTime: dueAt' = [dueAt EXCEPT ![m] = t]
  /\ UNCHANGED <<now, claimed, running, batch, telling, messages, told, lost, failures>>

Due == {m \in scheduled \ claimed: dueAt[m] <= now}

\* ORDER BY scheduled_for LIMIT
First(S) ==
  /\ S \subseteq Due /\ (S = Due \/ Cardinality(S) = Limit) /\ Cardinality(S) <= Limit
  /\ \A m \in S, n \in Due \ S: dueAt[m] <= dueAt[n]

Free(w) == w \in running /\ batch[w] = {} /\ telling[w] = {}

\* One statement; its answer may not arrive, and the rows are marked.
ClaimDueScheduledMessages(w) ==
  /\ Free(w) /\ Due # {}
  /\ \E S \in SUBSET Due: First(S) /\ claimed' = claimed \cup S
       /\ \/ batch' = [batch EXCEPT ![w] = S] /\ UNCHANGED <<lost, failures>>
          \/ Fails /\ lost' = lost \cup S /\ UNCHANGED batch
  /\ UNCHANGED <<now, scheduled, dueAt, running, telling, messages, told>>

\* A failing insert is logged and the row passed over; the insert may have
\* happened.  Once the context is done every insert fails.
CreateMessage(w, m) ==
  /\ m \in batch[w] /\ telling[w] = {} /\ batch' = [batch EXCEPT ![w] = @ \ {m}]
  /\ \/ /\ w \in running /\ messages' = [messages EXCEPT ![m] = @ + 1]
        /\ telling' = [telling EXCEPT ![w] = {m}] /\ UNCHANGED <<lost, failures>>
     \/ /\ Fails /\ UNCHANGED <<telling, lost>>
        /\ messages' = [messages EXCEPT ![m] = @ + 1]
     \/ /\ \/ w \notin running /\ UNCHANGED failures
           \/ w \in running /\ Fails
        /\ lost' = lost \cup {m} /\ UNCHANGED <<telling, messages>>
  /\ UNCHANGED <<now, table, running, told>>

\* The error is ignored.
Broadcast(w) ==
  /\ telling[w] # {} /\ telling' = [telling EXCEPT ![w] = {}]
  /\ \/ w \in running /\ told' = told \cup telling[w] /\ UNCHANGED failures
     \/ w \in running /\ Fails /\ UNCHANGED told
     \/ w \notin running /\ UNCHANGED <<told, failures>>
  /\ UNCHANGED <<now, table, running, batch, messages, lost>>

\* SIGTERM: the context of the process is done.
Stop(w) ==
  /\ w \in running /\ Fails /\ running' = running \ {w}
  /\ UNCHANGED <<now, table, batch, telling, messages, told, lost>>

\* The process ends, after Stop or without.
End(w) ==
  /\ w \notin running \/ Fails
  /\ w \notin running => failures' = failures
  /\ lost' = lost \cup batch[w] /\ running' = running \cup {w}
  /\ batch' = [batch EXCEPT ![w] = {}] /\ telling' = [telling EXCEPT ![w] = {}]
  /\ UNCHANGED <<now, table, messages, told>>

Next ==
  \/ Tick \/ \E m \in Rows: Schedule(m)
  \/ \E w \in Workers:
       \/ ClaimDueScheduledMessages(w) \/ Broadcast(w) \/ Stop(w) \/ End(w)
       \/ \E m \in Rows: CreateMessage(w, m)

Spec == Init /\ [][Next]_vars

-----------------------------------------------------------------------------
(* Properties *)

TypeOK ==
  /\ now \in 0..MaxTime /\ scheduled \subseteq Rows /\ dueAt \in [Rows -> 0..MaxTime]
  /\ claimed \subseteq Rows /\ running \subseteq Workers
  /\ batch \in [Workers -> SUBSET Rows] /\ telling \in [Workers -> SUBSET Rows]
  /\ messages \in [Rows -> Nat] /\ told \subseteq Rows /\ lost \subseteq Rows /\ failures \in Nat

\* A scheduled message becomes one message at most, and none before its time,
\* however many core processes look for due rows, stop and fail.
SentOnce ==
  \A m \in Rows: messages[m] <= 1 /\ (messages[m] > 0 => m \in scheduled /\ dueAt[m] <= now)

\* A row marked sent is a message, waits in the batch of one process, or is
\* lost: to a failing statement or to the end of its process.
NoneForgotten ==
  \A m \in claimed: messages[m] = 1 \/ m \in lost \/ \E w \in Workers: m \in batch[w]

ScheduledAgrees == SentOnce /\ NoneForgotten
=============================================================================
