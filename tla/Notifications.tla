---------------------------- MODULE Notifications ----------------------------
(***************************************************************************)
(* The notifications of the signed-in user: the rows the server writes     *)
(* (internal/message, services/database/notifications.go), the ones the    *)
(* client adds itself from realtime events, under ids of its own, and the  *)
(* list both are put in (features/notifications/utils/store.ts), which the *)
(* bell, the rail, the notifications page and the activity page show.  A   *)
(* load replaces the list by what the server had when it was served.       *)
(***************************************************************************)
EXTENDS Naturals, FiniteSets

CONSTANTS
  Events,     \* messages that notify this user
  Convs,      \* conversations
  ConvOf,     \* the conversation of each event
  Replies,    \* the events that are replies in a thread: only their realtime
              \* notification names its conversation
  NoEvent,    \* selected = null
  MaxCalls    \* bound: calls in flight

NotificationsAssumption ==
  ConvOf \in [Events -> Convs] /\ Replies \subseteq Events /\ NoEvent \notin Events /\ MaxCalls \in Nat

VARIABLES
  rows,       \* the server's rows: "none", "unread" or "read"
  pushed,     \* realtime events on their way
  known,      \* the conversations the chat store has loaded
  list,       \* notifications: [event, by, status]
  posts,      \* calls in flight: [op, of, done, rows]
  selected,   \* the notification whose details the activity page shows
  missed,     \* history: unread rows that may be missing from the list
  returned    \* history: events read while a load, or by an id, that the server
              \* may still give as unread

vars == <<rows, pushed, known, list, posts, selected, missed, returned>>

Unread == {n \in list: n.status = "unread"}
Loading == \E p \in posts: p.op = "load"
BeingRead == UNION {p.of: p \in {q \in posts: q.op = "read"}}
Item(e, by, status) == [event |-> e, by |-> by, status |-> status]
Post(op, of) == [op |-> op, of |-> of, done |-> FALSE, rows |-> [e \in Events |-> "none"]]

Init ==
  /\ rows = [e \in Events |-> "none"] /\ pushed = {}
  /\ known = {} /\ list = {} /\ posts = {} /\ selected = NoEvent
  /\ missed = {} /\ returned = {}

-----------------------------------------------------------------------------
(* The server and the socket. *)

\* A message of somebody else: its row is written and it is broadcast.
Notify(e) ==
  /\ rows[e] = "none"
  /\ rows' = [rows EXCEPT ![e] = "unread"] /\ pushed' = pushed \cup {e}
  /\ missed' = missed \cup {e}
  /\ UNCHANGED <<known, list, posts, selected, returned>>

\* mutant: every notification made here has the same id.
AddNotificationOver(e) ==
  /\ e \in pushed /\ pushed' = pushed \ {e}
  /\ list' = {n \in list: n.by = "server"} \cup {Item(e, "client", "unread")}
  /\ missed' = IF Loading THEN missed ELSE missed \ {e}
  /\ UNCHANGED <<rows, known, posts, selected, returned>>

\* addNotification: the id of a realtime notification is not the row's.
AddNotification(e) ==
  /\ e \in pushed /\ pushed' = pushed \ {e}
  /\ list' = IF \E n \in list: n.event = e /\ n.by = "client" THEN list
             ELSE list \cup {Item(e, "client", "unread")}
  /\ missed' = IF Loading THEN missed ELSE missed \ {e}
  /\ UNCHANGED <<rows, known, posts, selected, returned>>

\* The socket was down.
Lose(e) ==
  /\ e \in pushed /\ pushed' = pushed \ {e}
  /\ UNCHANGED <<rows, known, list, posts, selected, missed, returned>>

\* The chat store learns of conversations; the rail then loads.
Learn(c) ==
  /\ c \notin known /\ Cardinality(posts) < MaxCalls
  /\ known' = known \cup {c}
  /\ posts' = posts \cup {Post("load", {})} /\ returned' = returned \cup BeingRead
  /\ UNCHANGED <<rows, pushed, list, selected, missed>>

Load ==
  /\ Cardinality(posts) < MaxCalls
  /\ posts' = posts \cup {Post("load", {})} /\ returned' = returned \cup BeingRead
  /\ UNCHANGED <<rows, pushed, known, list, selected, missed>>

\* A read names a row or, if the id is the client's, nothing.
Serve(p) ==
  /\ ~p.done
  /\ rows' = [e \in Events |-> IF e \in p.of /\ rows[e] = "unread" THEN "read" ELSE rows[e]]
  /\ posts' = (posts \ {p}) \cup (IF p.op = "load" THEN {[p EXCEPT !.done = TRUE, !.rows = rows]} ELSE {})
  /\ UNCHANGED <<pushed, known, list, selected, missed, returned>>

\* Rows of conversations the chat store does not know are left out.
LoadAnswered(p) ==
  /\ p.op = "load" /\ p.done /\ posts' = posts \ {p}
  /\ list' = {Item(e, "server", p.rows[e]): e \in {x \in Events: p.rows[x] # "none" /\ ConvOf[x] \in known}}
  /\ missed' = (missed \cup {n.event: n \in Unread}) \ {n.event: n \in list'}
  /\ UNCHANGED <<rows, pushed, known, selected, returned>>

LoadFailed(p) ==
  /\ p.op = "load" /\ posts' = posts \ {p}
  /\ list' = {}
  /\ missed' = missed \cup {n.event: n \in Unread}
  /\ UNCHANGED <<rows, pushed, known, selected, returned>>

\* Nobody hears of a read that fails.
ReadFailed(p) ==
  /\ p.op = "read" /\ ~p.done
  /\ posts' = posts \ {p}
  /\ returned' = returned \cup p.of /\ missed' = missed \cup p.of
  /\ UNCHANGED <<rows, pushed, known, list, selected>>

-----------------------------------------------------------------------------
(* The user. *)

\* The notifications leave the list at once and are posted as read.
Read(items, of) ==
  /\ items # {} /\ Cardinality(posts) < MaxCalls
  /\ list' = list \ items
  /\ posts' = posts \cup {Post("read", of)}
  /\ returned' = returned \cup (IF Loading THEN of \cup {n.event: n \in items}
                                ELSE {n.event: n \in items} \ of)
  /\ missed' = missed \cup ({n.event: n \in items} \ of)

MarkAsRead(n) ==
  /\ n.status = "unread"
  /\ Read({n}, IF n.by = "server" THEN {n.event} ELSE {})
  /\ UNCHANGED <<rows, pushed, known, selected>>

\* Every row of the user, listed or not.
MarkAllAsRead ==
  /\ Read(list, Events)
  /\ UNCHANGED <<rows, pushed, known, selected>>

\* The conversation on screen has nothing unread any more.
MarkEntityAsRead(c) ==
  /\ c \in known
  /\ LET matching == {n \in list: ConvOf[n.event] = c /\ (n.by = "server" \/ n.event \in Replies)}
     IN Read(matching, {n.event: n \in {x \in matching: x.by = "server"}})
  /\ UNCHANGED <<rows, pushed, known, selected>>

\* The activity page keeps showing what it has just taken off the list.
Open(n) ==
  /\ n \in list
  /\ selected' = n.event
  /\ Read({n}, IF n.by = "server" THEN {n.event} ELSE {})
  /\ UNCHANGED <<rows, pushed, known>>

Next ==
  \/ \E e \in Events: Notify(e) \/ AddNotification(e) \/ Lose(e)
  \/ \E c \in Convs: Learn(c) \/ MarkEntityAsRead(c)
  \/ \E n \in list: MarkAsRead(n) \/ Open(n)
  \/ Load \/ MarkAllAsRead
  \/ \E p \in posts: Serve(p) \/ LoadAnswered(p) \/ LoadFailed(p) \/ ReadFailed(p)

Spec == Init /\ [][Next]_vars

-----------------------------------------------------------------------------
\* The state of the notification store (features/notifications/utils/store.ts).
TypeOK ==
  /\ rows \in [Events -> {"none", "unread", "read"}] /\ pushed \subseteq Events
  /\ known \subseteq Convs /\ selected \in Events \cup {NoEvent}
  /\ list \subseteq [event: Events, by: {"server", "client"}, status: {"unread", "read"}]
  /\ missed \subseteq Events /\ returned \subseteq Events

\* Once nothing is on its way, an unread row is on the list unless its event was
\* lost, its conversation unknown at the last load, or a load replaced it; and
\* a notification listed as unread by the server's id has not been read, unless
\* it was read during a load, under the client's id, or by a read that failed
\* (notifications/utils/store.ts, load, markAsRead, markEntityAsRead).
NotificationsAgree ==
  (posts = {} /\ pushed = {}) =>
    /\ \A e \in Events \ missed: rows[e] = "unread" => \E n \in list: n.event = e
    /\ \A n \in list: (n.by = "server" /\ n.status = "unread" /\ n.event \notin returned) =>
         rows[n.event] = "unread"
=============================================================================
