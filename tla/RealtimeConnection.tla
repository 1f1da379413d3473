------------------------- MODULE RealtimeConnection -------------------------
(***************************************************************************)
(* The WebSocket of a session: the effect of use-realtime-connection.ts    *)
(* that fetches a token, connects, and reconnects with a growing delay,    *)
(* and the timers that end a typing indicator.                             *)
(*                                                                         *)
(* The effect is mounted while a user is signed in, and may be mounted     *)
(* again.  Each mount has its own `disposed` flag, captured by whatever it *)
(* started; the refs to the socket, the timer and the attempts are shared  *)
(* by all of them.                                                         *)
(***************************************************************************)
EXTENDS Naturals, FiniteSets

CONSTANTS
  MaxMounts,    \* bound: times the effect is mounted
  SocketIds,    \* identities of sockets
  NoSocket,     \* wsRef.current = null
  TopAttempt,   \* the attempt from which the delay is 30 seconds (5 in the code)
  Typists,      \* other users
  MaxTyping     \* bound: typing timers of a user

RealtimeAssumption ==
  /\ MaxMounts \in Nat /\ NoSocket \notin SocketIds
  /\ TopAttempt \in Nat \ {0} /\ MaxTyping \in Nat

VARIABLES
  mount,        \* the last mount
  enabled,      \* whether it is mounted; every other mount is disposed
  fetches,      \* mounts that wait for a token
  sockets,      \* sockets that exist: [id, mount, state]
  wsRef,        \* the socket the ref names
  timer,        \* the mount whose reconnect timer runs, 0 for none
  attempt,      \* reconnectAttemptRef, up to where it matters
  typing,       \* typingUsers of a channel
  timers        \* typing timers running, per user

chain == <<mount, enabled, fetches, sockets, wsRef, timer, attempt>>
indicator == <<typing, timers>>
vars == <<mount, enabled, fetches, sockets, wsRef, timer, attempt, typing, timers>>

Disposed(m) == ~enabled \/ m # mount

Init ==
  /\ mount = 0 /\ enabled = FALSE
  /\ fetches = {} /\ sockets = {} /\ wsRef = NoSocket
  /\ timer = 0 /\ attempt = 0
  /\ typing = {} /\ timers = [u \in Typists |-> 0]

-----------------------------------------------------------------------------
(* The effect. *)

Mount ==
  /\ ~enabled /\ mount < MaxMounts
  /\ mount' = mount + 1 /\ enabled' = TRUE
  /\ fetches' = fetches \cup {mount + 1}
  /\ UNCHANGED <<sockets, wsRef, timer, attempt, indicator>>

\* mutant: the cleanup forgets the reconnect timer.
UnmountTimerLeft ==
  /\ enabled /\ enabled' = FALSE
  /\ wsRef' = NoSocket
  /\ sockets' = {s \in sockets: s.id # wsRef}
  /\ UNCHANGED <<mount, fetches, timer, attempt, indicator>>

\* The cleanup: closing makes the socket deliver nothing more.
Unmount ==
  /\ enabled /\ enabled' = FALSE
  /\ timer' = 0
  /\ wsRef' = NoSocket
  /\ sockets' = {s \in sockets: s.id # wsRef}
  /\ UNCHANGED <<mount, fetches, attempt, indicator>>

\* scheduleReconnect
ScheduleReconnect(m) ==
  IF Disposed(m) THEN UNCHANGED <<timer, attempt>>
  ELSE /\ timer' = m
       /\ attempt' = IF attempt < TopAttempt THEN attempt + 1 ELSE attempt

\* The token arrives and a socket is made, unless the mount is disposed.
TokenArrives(m) ==
  /\ m \in fetches /\ fetches' = fetches \ {m}
  /\ IF Disposed(m) THEN UNCHANGED <<sockets, wsRef>>
     ELSE \E id \in SocketIds \ ({s.id: s \in sockets} \cup {wsRef}):
            /\ wsRef' = id
            /\ sockets' = sockets \cup {[id |-> id, mount |-> m, state |-> "connecting"]}
  /\ UNCHANGED <<mount, enabled, timer, attempt, indicator>>

\* The request fails, or its answer holds no token, or no socket can be made.
TokenFails(m) ==
  /\ m \in fetches /\ fetches' = fetches \ {m}
  /\ ScheduleReconnect(m)
  /\ UNCHANGED <<mount, enabled, sockets, wsRef, indicator>>

\* onopen
Open(s) ==
  /\ s.state = "connecting"
  /\ sockets' = (sockets \ {s}) \cup {[s EXCEPT !.state = "open"]}
  /\ attempt' = 0
  /\ UNCHANGED <<mount, enabled, fetches, wsRef, timer, indicator>>

\* onclose, after an error or not: only the socket of the ref, of a mount that
\* is not disposed, is replaced.
Close(s) ==
  /\ sockets' = sockets \ {s}
  /\ IF wsRef # s.id THEN UNCHANGED <<timer, attempt>> ELSE ScheduleReconnect(s.mount)
  /\ UNCHANGED <<mount, enabled, fetches, wsRef, indicator>>

\* mutant: the timer waits while the ref still names the socket that closed.
TimerFiresGuarded ==
  /\ timer # 0
  /\ IF wsRef = NoSocket THEN timer' = 0 /\ fetches' = IF Disposed(timer) THEN fetches ELSE fetches \cup {timer}
     ELSE UNCHANGED <<timer, fetches>>
  /\ UNCHANGED <<mount, enabled, sockets, wsRef, attempt, indicator>>

\* setTimeout of scheduleReconnect: connect, which returns if disposed.
TimerFires ==
  /\ timer # 0
  /\ timer' = 0
  /\ fetches' = IF Disposed(timer) THEN fetches ELSE fetches \cup {timer}
  /\ UNCHANGED <<mount, enabled, sockets, wsRef, attempt, indicator>>

-----------------------------------------------------------------------------
(* Typing indicators.  Each event starts a timer, which outlives the socket. *)

TypingEvent(u) ==
  /\ \E s \in sockets: s.state = "open"
  /\ timers[u] < MaxTyping
  /\ typing' = typing \cup {u}
  /\ timers' = [timers EXCEPT ![u] = @ + 1]
  /\ UNCHANGED chain

TypingTimeout(u) ==
  /\ timers[u] > 0
  /\ typing' = typing \ {u}
  /\ timers' = [timers EXCEPT ![u] = @ - 1]
  /\ UNCHANGED chain

Next ==
  \/ Mount \/ Unmount
  \/ \E m \in 1..MaxMounts: TokenArrives(m) \/ TokenFails(m)
  \/ \E s \in sockets: Open(s) \/ Close(s)
  \/ TimerFires
  \/ \E u \in Typists: TypingEvent(u) \/ TypingTimeout(u)

\* Timers fire, requests end, and neither tokens nor connections fail for
\* ever.
Fairness ==
  /\ WF_vars(TimerFires)
  /\ WF_vars(\E m \in 1..MaxMounts: TokenArrives(m) \/ TokenFails(m))
  /\ SF_vars(\E m \in 1..MaxMounts: TokenArrives(m))
  /\ SF_vars(\E s \in sockets: Open(s))
  /\ \A u \in Typists: WF_vars(TypingTimeout(u))

Spec == Init /\ [][Next]_vars /\ Fairness

-----------------------------------------------------------------------------
(* Properties *)

Sockets == [id: SocketIds, mount: 1..MaxMounts, state: {"connecting", "open"}]

TypeOK ==
  /\ mount \in 0..MaxMounts /\ enabled \in BOOLEAN
  /\ fetches \subseteq 1..MaxMounts
  /\ sockets \subseteq Sockets
  /\ wsRef \in SocketIds \cup {NoSocket}
  /\ timer \in 0..MaxMounts /\ attempt \in 0..TopAttempt
  /\ typing \subseteq Typists /\ timers \in [Typists -> 0..MaxTyping]

\* The mounted effect pursues exactly one thing: a token, a socket or a timer
\* that will start over.  So a session never has two sockets, and whatever
\* fails, it never stops trying.
OneChain ==
  enabled => \/ mount \in fetches /\ sockets = {} /\ timer = 0
             \/ mount \notin fetches /\ timer = 0 /\ \E s \in sockets: sockets = {s} /\ s.id = wsRef
             \/ mount \notin fetches /\ sockets = {} /\ timer = mount

\* Without the effect nothing is left that could connect again, and an
\* indicator is never left without a timer that ends it.
NothingDangles ==
  /\ ~enabled => sockets = {} /\ timer = 0
  /\ \A u \in typing: timers[u] > 0

\* Of use-realtime-connection.ts's effect and its cleanup: a mounted effect has
\* one way on and only one, an unmounted one has none.
ConnectionSound == OneChain /\ NothingDangles

\* While the effect stays mounted, however often its connection or its token
\* fails, it is connected again and again (scheduleReconnect).
Reconnects ==
  <>[]enabled => []<>(\E s \in sockets: s.state = "open")
=============================================================================
