----------------------------- MODULE MCRecovery -----------------------------
(***************************************************************************)
(* What comes back by itself: a circuit breaker that closes again, the     *)
(* WebSocket of the web client that reconnects, and its thread panel that  *)
(* polls because events may be lost.  They share no variable, so each is   *)
(* explored by itself, under its own fairness.                             *)
(***************************************************************************)
EXTENDS RpcClients, Sequences

CONSTANTS c1, c2, c3  \* three of the callers, one of each kind

MixedKinds ==
  [c \in Callers |-> CASE c = c1 -> "do" [] c = c2 -> "getOwner" [] OTHER -> "join"]

CONSTANTS
  MaxMounts, SocketIds, NoSocket, TopAttempt, Typists, MaxTyping,   \* RealtimeConnection
  Convs, Parents, Home, NoParent, MaxReplies, MaxCalls, MaxMoves    \* ChatThreads

\* Every message that may have a thread is of one conversation.
OneHome == [p \in Parents |-> CHOOSE c \in Convs : TRUE]

VARIABLE part

VARIABLES mount, enabled, fetches, sockets, wsRef, timer, reconnectAttempt, typing, timers
connectionVars == <<mount, enabled, fetches, sockets, wsRef, timer, reconnectAttempt, typing, timers>>
R == INSTANCE RealtimeConnection WITH attempt <- reconnectAttempt

VARIABLES thread, removed, echo, looking, parent, panel, replyCount, loadingReplies,
          asked, replyText, sendingReply, moves
threadVars == <<thread, removed, echo, looking, parent, panel, replyCount, loadingReplies,
                asked, replyText, sendingReply, moves>>
T == INSTANCE ChatThreads

ASSUME RecoveryConstants == R!RealtimeAssumption /\ T!ThreadsAssumption

AllVars == <<part, vars, connectionVars, threadVars>>

AllInit == part \in {"breaker", "connection", "threads"} /\ Init /\ R!Init /\ T!Init

AllNext ==
  /\ UNCHANGED part
  /\ IF part = "breaker" THEN Next ELSE UNCHANGED vars
  /\ IF part = "connection" THEN R!Next ELSE UNCHANGED connectionVars
  /\ IF part = "threads" THEN T!Next ELSE UNCHANGED threadVars

\* FairSpec of the breaker, where it is explored; nothing of the other two is
\* enabled where they are not.
BreakerFairness ==
  /\ WF_AllVars(part = "breaker" /\ Tick /\ UNCHANGED <<part, connectionVars, threadVars>>)
  /\ \A c \in Callers:
       WF_AllVars(part = "breaker" /\ Progress(c) /\ UNCHANGED <<part, connectionVars, threadVars>>)

AllSpec == AllInit /\ [][AllNext]_AllVars /\ BreakerFairness /\ R!Fairness /\ T!Fairness

\* RealtimeConnection and ChatThreads: a mounted effect has one way on and only
\* one, an unmounted one has none; and each variable has its type.
ConnectionSound == R!ConnectionSound /\ R!TypeOK /\ T!TypeOK
\* RealtimeConnection: a mounted effect is connected again and again.
Reconnects == R!Reconnects
\* ChatThreads: an open thread ends up showing every reply there is.
ThreadCatchesUp == T!ThreadCatchesUp
=============================================================================
