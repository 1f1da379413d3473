----------------------------- MODULE ChatThreads -----------------------------
(***************************************************************************)
(* The thread panel: ThreadPanel.tsx over the thread slice of store.ts.    *)
(* Its replies come from the listing when it opens, from the WebSocket,    *)
(* from the user's own replies and from a poll every second; a listing     *)
(* replaces what is there, the others add what is missing.  None of them   *)
(* is cancelled when the panel moves to another thread.                    *)
(***************************************************************************)
EXTENDS Naturals, Sequences, FiniteSets

CONSTANTS
  Convs,        \* conversations
  Parents,      \* the messages that may have a thread
  Home,         \* Home[p]: the conversation of p
  NoParent,     \* no panel
  MaxReplies,   \* bound: replies ever posted
  MaxCalls,     \* bound: calls in flight
  MaxMoves      \* bound: times the user opens, closes or leaves

ThreadsAssumption ==
  /\ Home \in [Parents -> Convs]
  /\ NoParent \notin Parents
  /\ MaxReplies \in Nat /\ MaxCalls \in Nat \ {0} /\ MaxMoves \in Nat

ReplyIds == 1..MaxReplies

VARIABLES
  thread,       \* the server: the parent of each reply posted
  removed,      \* replies deleted there
  echo,         \* replies whose event is on the WebSocket
  looking,      \* the conversation on screen
  parent,       \* selectedThreadParentId
  panel,        \* threadReplies, as a set: addThreadReply lets none in twice
  replyCount,   \* the count under each message
  loadingReplies, \* loadingThreadReplies
  asked,        \* calls in flight: op, parent and, once served, the answer
  replyText,    \* for which thread the text of the panel was typed
  sendingReply, \* the button says "Sending..."
  moves         \* bound: moves so far

screen == <<panel, replyCount>>
remote == <<thread, removed, echo>>
form == <<replyText, sendingReply>>
vars == <<thread, removed, echo, looking, parent, panel, replyCount, loadingReplies,
          asked, replyText, sendingReply, moves>>

RepliesOf(p) == {r \in DOMAIN thread: thread[r] = p /\ r \notin removed}

\* The panel is rendered while its parent is a message of the conversation on
\* screen.
Mounted == parent \in Parents /\ Home[parent] = looking

\* known is what the panel shows when a poll is sent.
Ask(op, p, known) ==
  /\ Cardinality(asked) < MaxCalls
  /\ asked' = asked \cup {[op |-> op, parent |-> p, done |-> FALSE, reply |-> known]}

\* Replies being sent by a panel that is no longer there.
Orphaned == {IF call.op = "send" THEN [call EXCEPT !.op = "sent"] ELSE call: call \in asked}

Init ==
  /\ thread = <<>> /\ removed = {} /\ echo = {}
  /\ looking \in Convs
  /\ parent = NoParent /\ panel = {} /\ replyCount = [p \in Parents |-> 0]
  /\ loadingReplies = FALSE /\ asked = {}
  /\ replyText = NoParent /\ sendingReply = FALSE
  /\ moves = 0

-----------------------------------------------------------------------------
(* The user. *)

Move == moves < MaxMoves /\ moves' = moves + 1

OpenThreadPanel(p) ==
  /\ Move /\ Home[p] = looking
  /\ parent' = p /\ loadingReplies' = TRUE
  /\ Ask("open", p, {})
  /\ UNCHANGED <<remote, screen, looking, form>>

CloseThreadPanel ==
  /\ Move /\ Mounted
  /\ parent' = NoParent /\ panel' = {} /\ loadingReplies' = FALSE
  /\ replyText' = NoParent /\ sendingReply' = FALSE
  /\ asked' = Orphaned
  /\ UNCHANGED <<remote, replyCount, looking>>

\* Another conversation hides the panel; the store keeps its state.
Look(c) ==
  /\ Move /\ c # looking
  /\ looking' = c
  /\ replyText' = NoParent /\ sendingReply' = FALSE
  /\ asked' = Orphaned
  /\ UNCHANGED <<remote, screen, parent, loadingReplies>>

\* The panel is the same component for every thread: its text stays when it
\* is opened on another one.
WriteReply ==
  /\ Mounted /\ replyText = NoParent
  /\ replyText' = parent
  /\ UNCHANGED <<remote, screen, looking, parent, loadingReplies, asked, sendingReply, moves>>

\* Enter submits even while an earlier reply is being sent.
HandleSendReply ==
  /\ Mounted /\ replyText # NoParent
  /\ Ask("send", parent, {})
  /\ sendingReply' = TRUE
  /\ UNCHANGED <<remote, screen, looking, parent, loadingReplies, replyText, moves>>

-----------------------------------------------------------------------------
(* The server. *)

Post(p) == thread' = Append(thread, p) /\ echo' = echo \cup {Len(thread) + 1}

OthersReply(p) ==
  /\ Len(thread) < MaxReplies
  /\ Post(p)
  /\ UNCHANGED <<removed, looking, parent, screen, loadingReplies, asked, form, moves>>

\* The client hears of it, and leaves the panel alone: the event names a
\* message of the history.
DeleteReply(r) ==
  /\ r \in DOMAIN thread \ removed
  /\ removed' = removed \cup {r}
  /\ UNCHANGED <<thread, echo, looking, parent, screen, loadingReplies, asked, form, moves>>

Serve(call) ==
  /\ ~call.done
  /\ IF call.op \in {"send", "sent"}
     THEN /\ Len(thread) < MaxReplies
          /\ Post(call.parent)
          /\ asked' = (asked \ {call}) \cup {[call EXCEPT !.done = TRUE, !.reply = {Len(thread) + 1}]}
     ELSE /\ asked' = (asked \ {call}) \cup {[call EXCEPT !.done = TRUE, !.reply = RepliesOf(call.parent) \ call.reply]}
          /\ UNCHANGED <<thread, echo>>
  /\ UNCHANGED <<removed, looking, parent, screen, loadingReplies, form, moves>>

-----------------------------------------------------------------------------
(* What reaches the panel. *)

\* addThreadReply, for each reply of S in turn.
AddThreadReplies(S) ==
  LET new == S \ panel
  IN  /\ panel' = panel \cup new
      /\ replyCount' = [p \in Parents |-> replyCount[p] + Cardinality({r \in new: thread[r] = p})]

\* The listing of openThreadPanel replaces the replies, of whatever thread the
\* panel shows by now.
Opened(call) ==
  /\ call.op = "open"
  /\ panel' = call.reply /\ loadingReplies' = FALSE
  /\ UNCHANGED <<replyCount, form>>

\* mutant: a poll replaces the replies like an opening does.
PolledReplacing(call) ==
  /\ call.op = "poll"
  /\ panel' = call.reply
  /\ UNCHANGED <<replyCount, loadingReplies, form>>

Polled(call) ==
  /\ call.op = "poll"
  /\ AddThreadReplies(call.reply)
  /\ UNCHANGED <<loadingReplies, form>>

Sent(call) ==
  /\ call.op \in {"send", "sent"}
  /\ AddThreadReplies(call.reply)
  /\ IF call.op = "send" THEN replyText' = NoParent /\ sendingReply' = FALSE ELSE UNCHANGED form
  /\ UNCHANGED loadingReplies

Answered(call) ==
  /\ call.done /\ asked' = asked \ {call}
  /\ Opened(call) \/ Polled(call) \/ Sent(call)
  /\ UNCHANGED <<remote, looking, parent, moves>>

\* A failing send keeps its text, a failing poll is ignored.
Failed(call) ==
  /\ asked' = asked \ {call}
  /\ loadingReplies' = IF call.op = "open" THEN FALSE ELSE loadingReplies
  /\ sendingReply' = IF call.op = "send" THEN FALSE ELSE sendingReply
  /\ UNCHANGED <<remote, looking, parent, screen, replyText, moves>>

\* thread_reply_created counts only for the thread that is open; lost while
\* the connection is down.
Receive(r, lost) ==
  /\ r \in echo /\ echo' = echo \ {r}
  /\ IF ~lost /\ thread[r] = parent THEN AddThreadReplies({r}) ELSE UNCHANGED screen
  /\ UNCHANGED <<thread, removed, looking, parent, loadingReplies, asked, form, moves>>

\* The interval of a second, restarted whenever the replies change.
Poll ==
  /\ Mounted
  /\ Ask("poll", parent, panel)
  /\ UNCHANGED <<remote, screen, looking, parent, loadingReplies, form, moves>>

Next ==
  \/ \E p \in Parents: OpenThreadPanel(p) \/ OthersReply(p)
  \/ CloseThreadPanel \/ \E c \in Convs: Look(c)
  \/ WriteReply \/ HandleSendReply
  \/ \E r \in ReplyIds: DeleteReply(r)
  \/ \E call \in asked: Serve(call) \/ Answered(call) \/ Failed(call)
  \/ \E r \in ReplyIds, lost \in BOOLEAN: Receive(r, lost)
  \/ Poll

\* The timer of the poll keeps running while the panel is there, calls end,
\* and polls do not fail for ever.
Fairness ==
  /\ SF_vars(Poll)
  /\ SF_vars(\E call \in asked: call.op = "poll" /\ Serve(call))
  /\ SF_vars(\E call \in asked: call.op = "poll" /\ Answered(call))
  /\ WF_vars(\E call \in asked: call.op # "poll" /\ (Serve(call) \/ Answered(call) \/ Failed(call)))

Spec == Init /\ [][Next]_vars /\ Fairness

-----------------------------------------------------------------------------
(* Properties *)

TypeOK ==
  /\ thread \in Seq(Parents) /\ Len(thread) <= MaxReplies
  /\ removed \subseteq DOMAIN thread /\ echo \subseteq DOMAIN thread
  /\ looking \in Convs /\ parent \in Parents \cup {NoParent}
  /\ panel \subseteq DOMAIN thread /\ replyCount \in [Parents -> Nat]
  /\ loadingReplies \in BOOLEAN /\ sendingReply \in BOOLEAN
  /\ \A call \in asked: call \in [op: {"open", "poll", "send", "sent"}, parent: Parents,
                                   done: BOOLEAN, reply: SUBSET ReplyIds]
  /\ replyText \in Parents \cup {NoParent} /\ moves \in 0..MaxMoves

\* A thread that stays open ends up showing every reply that was not deleted,
\* although events are lost and late answers of other threads, or of this
\* one, overwrite the panel.
ThreadCatchesUp ==
  \A p \in Parents:
    <>[](Mounted /\ parent = p) => <>[](RepliesOf(p) \subseteq panel)
=============================================================================
