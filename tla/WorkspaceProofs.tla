-------------------------- MODULE WorkspaceProofs --------------------------
(***************************************************************************)
(* Theorems about the parts of MCWorkspace, for any events, files,         *)
(* conversations and bounds: the notifications, the downloads, the tab,    *)
(* the profile, the lists, the hub, the search, the frame of the pages,    *)
(* the sidebar, the activity and the board.                                *)
(***************************************************************************)
EXTENDS MCWorkspace, Integers, SequenceTheorems, FiniteSetTheorems, TLAPS

-----------------------------------------------------------------------------
(* Sequences. *)

\* A sequence without its element p: the others, in order.
LEMMA Removed ==
  ASSUME NEW T, NEW s \in Seq(T), NEW p \in 1..Len(s)
  PROVE  LET r == SubSeq(s, 1, p - 1) \o SubSeq(s, p + 1, Len(s))
         IN  /\ r \in Seq(T) /\ Len(r) = Len(s) - 1 /\ DOMAIN r = 1..(Len(s) - 1)
             /\ \A i \in 1..(Len(s) - 1) : r[i] = s[IF i < p THEN i ELSE i + 1]
<1> DEFINE n == Len(s)
           front == SubSeq(s, 1, p - 1)
           back == SubSeq(s, p + 1, n)
           r == front \o back
<1>1. n \in Nat /\ p \in 1..n
  OBVIOUS
<1>2. front \in Seq(T) /\ Len(front) = p - 1 /\ \A i \in 1..(p - 1) : front[i] = s[i]
  BY <1>1
<1>3. back \in Seq(T) /\ Len(back) = n - p /\ \A i \in 1..(n - p) : back[i] = s[p + i]
  BY <1>1
<1> HIDE DEF n, front, back
<1>4. /\ r \in Seq(T) /\ Len(r) = Len(front) + Len(back)
      /\ \A i \in 1..(Len(front) + Len(back)) :
           r[i] = IF i <= Len(front) THEN front[i] ELSE back[i - Len(front)]
  BY <1>2, <1>3, ConcatProperties
<1>5. /\ r \in Seq(T) /\ Len(r) = n - 1
      /\ \A i \in 1..(p - 1) : r[i] = front[i]
  BY <1>1, <1>2, <1>3, <1>4
<1>6. \A i \in p..(n - 1) : r[i] = back[i - (p - 1)]
  BY <1>1, <1>2, <1>3, <1>4
<1>7. \A i \in 1..(n - 1) : r[i] = s[IF i < p THEN i ELSE i + 1]
  <2>1. ASSUME NEW i \in 1..(n - 1), i < p PROVE r[i] = s[i]
    BY <1>1, <1>2, <1>5, <2>1
  <2>2. ASSUME NEW i \in 1..(n - 1), ~(i < p) PROVE r[i] = s[i + 1]
    <3>1. i - (p - 1) \in 1..(n - p) /\ i \in p..(n - 1) /\ p + (i - (p - 1)) = i + 1
      BY <1>1, <2>2
    <3>2. QED
      BY <1>3, <1>6, <3>1
  <2>3. QED
    BY <2>1, <2>2
<1>8. DOMAIN r = 1..(n - 1)
  BY <1>5
<1>9. QED
  BY <1>5, <1>7, <1>8 DEF n, front, back

-----------------------------------------------------------------------------
(* Notifications.  Every unread row is on the list, about to be read, or   *)
(* on record as missed (MissInv); what the list or an answer says is       *)
(* unread is, and nobody is about to read it (BackInv).                    *)

NoteRows == [Events -> {"none", "unread", "read"}]
NoteItem == [event: Events, by: {"server", "client"}, status: {"unread", "read"}]
NoteCall == [op: {"load", "read"}, of: SUBSET Events, done: BOOLEAN, rows: NoteRows]

NoteTypes ==
  /\ rows \in NoteRows /\ pushed \subseteq Events /\ known \subseteq Sources
  /\ list \subseteq NoteItem /\ posts \subseteq NoteCall /\ notified \in Events \cup {none}
  /\ missed \subseteq Events /\ returned \subseteq Events

Reading(e) == \E p \in posts : p.op = "read" /\ e \in p.of

\* the server gives a row one item, and what was read stays so
ItemInv ==
  /\ \A n, o \in list : n.event = o.event /\ n.by = "server" /\ o.by = "server" => n = o
  /\ \A n \in list : n.status = "read" => rows[n.event] = "read"
  /\ \A p \in posts : p.op = "load" => p.of = {}
  /\ \A p \in posts, e \in Events : p.op = "load" /\ p.done /\ p.rows[e] = "read" => rows[e] = "read"

MissInv ==
  \A e \in Events \ missed :
    rows[e] = "unread" => Reading(e) \/ \E n \in list : n.event = e

BackInv ==
  /\ \A n \in list : n.by = "server" /\ n.status = "unread" /\ n.event \notin returned =>
       rows[n.event] = "unread" /\ ~Reading(n.event)
  /\ \A p \in posts, e \in Events \ returned : p.op = "load" =>
       /\ ~Reading(e)
       /\ p.done /\ p.rows[e] = "unread" => rows[e] = "unread"

NoteInv == NoteTypes /\ ItemInv /\ MissInv /\ BackInv

LEMMA NoteInit == ASSUME N!Init PROVE NoteInv
<1>1. NoteTypes
  BY PageConstants DEF N!NotificationsAssumption, N!Init, NoteTypes, NoteRows
<1>2. QED
  BY <1>1 DEF N!Init, NoteInv, NoteTypes, ItemInv, MissInv, BackInv

LEMMA NoteReading == \A e : e \in N!BeingRead <=> Reading(e)
  BY DEF N!BeingRead, Reading

\* A call that begins knows nothing yet.
LEMMA NewCall ==
  ASSUME NEW op \in {"load", "read"}, NEW of \in SUBSET Events
  PROVE  /\ N!Post(op, of) \in NoteCall
         /\ N!Post(op, of).op = op /\ N!Post(op, of).of = of /\ ~N!Post(op, of).done
  BY DEF N!Post, NoteCall, NoteRows

\* What of the list leaves it when it is read, and what is posted.
LEMMA ReadSafe ==
  ASSUME NoteInv, NEW gone \in SUBSET list, NEW of \in SUBSET Events,
         N!Read(gone, of), UNCHANGED <<rows, pushed, known>>,
         notified' \in Events \cup {none},
         N!Loading \/ \A n \in list \ gone : n.by = "server" => n.event \notin of
  PROVE  NoteInv'
<1> DEFINE call == N!Post("read", of)
<1>1. /\ call \in NoteCall /\ call.op = "read" /\ call.of = of /\ ~call.done
      /\ posts' = posts \cup {call} /\ list' = list \ gone
  BY NewCall DEF N!Read
<1>2. /\ missed' = missed \cup ({n.event : n \in gone} \ of)
      /\ returned' = returned \cup (IF N!Loading THEN of \cup {n.event : n \in gone} ELSE {n.event : n \in gone} \ of)
  BY DEF N!Read
<1>3. NoteTypes'
  <2>1. {n.event : n \in gone} \subseteq Events
    BY DEF NoteInv, NoteTypes, NoteItem
  <2>2. QED
    BY <1>1, <1>2, <2>1 DEF NoteInv, NoteTypes
<1> HIDE DEF call
<1>4. \A e : Reading(e)' <=> Reading(e) \/ e \in of
  BY <1>1 DEF Reading
<1>5. ItemInv'
  BY <1>1 DEF NoteInv, ItemInv
<1>6. MissInv'
  <2>1. SUFFICES ASSUME NEW e \in Events, e \notin missed', rows[e] = "unread",
                        ~Reading(e)', \A n \in list' : n.event # e
                 PROVE  FALSE
    BY DEF MissInv
  <2>2. e \notin missed /\ ~Reading(e) /\ e \notin of
    BY <1>2, <1>4, <2>1
  <2>3. PICK n \in list : n.event = e
    BY <2>1, <2>2 DEF NoteInv, MissInv
  <2>4. n \in gone
    BY <1>1, <2>1, <2>3
  <2>5. QED
    BY <1>2, <2>1, <2>2, <2>3, <2>4
<1>7. BackInv'
  <2>1. ASSUME NEW n \in list', n.by = "server", n.status = "unread", n.event \notin returned'
        PROVE  rows'[n.event] = "unread" /\ ~Reading(n.event)'
    <3>1. n \in list \ gone /\ n.event \notin returned /\ (N!Loading => n.event \notin of)
      BY <1>1, <1>2, <2>1
    <3>2. rows[n.event] = "unread" /\ ~Reading(n.event)
      BY <2>1, <3>1 DEF NoteInv, BackInv
    <3>3. n.event \notin of
      BY <2>1, <3>1
    <3>4. QED
      BY <1>4, <3>2, <3>3
  <2>2. ASSUME NEW p \in posts', NEW e \in Events \ returned', p.op = "load"
        PROVE  ~Reading(e)' /\ (p.done /\ p.rows[e] = "unread" => rows'[e] = "unread")
    <3>1. p \in posts
      BY <1>1, <2>2
    <3>2. N!Loading /\ e \notin returned /\ e \notin of
      BY <1>2, <2>2, <3>1 DEF N!Loading
    <3>3. ~Reading(e) /\ (p.done /\ p.rows[e] = "unread" => rows[e] = "unread")
      BY <2>2, <3>1, <3>2 DEF NoteInv, BackInv
    <3>4. QED
      BY <1>4, <3>2, <3>3
  <2>3. QED
    BY <2>1, <2>2 DEF BackInv
<1>8. QED
  BY <1>3, <1>5, <1>6, <1>7 DEF NoteInv

\* A load that begins.
LEMMA LoadSafe ==
  ASSUME NoteInv, posts' = posts \cup {N!Post("load", {})}, returned' = returned \cup N!BeingRead,
         known' \subseteq Sources, UNCHANGED <<rows, pushed, list, notified, missed>>
  PROVE  NoteInv'
<1> DEFINE call == N!Post("load", {})
<1>1. call \in NoteCall /\ call.op = "load" /\ call.of = {} /\ ~call.done /\ posts' = posts \cup {call}
  BY NewCall
<1> HIDE DEF call
<1>2. \A e : Reading(e)' <=> Reading(e)
  BY <1>1 DEF Reading
<1>3. \A e : e \in returned' <=> e \in returned \/ Reading(e)
  BY NoteReading
<1>4. NoteTypes'
  BY <1>1, <1>3 DEF NoteInv, NoteTypes, Reading, NoteCall
<1>5. ItemInv'
  BY <1>1 DEF NoteInv, ItemInv
<1>6. MissInv'
  BY <1>2 DEF NoteInv, MissInv
<1>7. BackInv'
  BY <1>1, <1>2, <1>3 DEF NoteInv, BackInv
<1>8. QED
  BY <1>4, <1>5, <1>6, <1>7 DEF NoteInv

\* The server and the socket.
LEMMA EventSafe ==
  ASSUME NoteInv, NEW e \in Events, N!Notify(e) \/ N!AddNotification(e) \/ N!Lose(e) PROVE NoteInv'
<1>1. CASE N!Notify(e)
  <2>1. NoteTypes'
    BY <1>1 DEF N!Notify, NoteInv, NoteTypes, NoteRows
  <2>2. \A d \in Events : d # e => rows'[d] = rows[d]
    BY <1>1 DEF N!Notify, NoteInv, NoteTypes, NoteRows
  <2>3. \A d : Reading(d)' <=> Reading(d)
    BY <1>1 DEF N!Notify, Reading
  <2>4. rows[e] = "none" /\ rows'[e] = "unread" /\ missed' = missed \cup {e} /\ UNCHANGED <<list, posts, returned>>
    BY <1>1 DEF N!Notify, NoteInv, NoteTypes, NoteRows
  <2>5. \A n \in list : n.event \in Events
    BY DEF NoteInv, NoteTypes, NoteItem
  <2>6. ItemInv'
    BY <2>2, <2>4, <2>5 DEF NoteInv, ItemInv
  <2>7. MissInv'
    BY <2>2, <2>3, <2>4 DEF NoteInv, MissInv
  <2>8. BackInv'
    BY <2>2, <2>3, <2>4, <2>5 DEF NoteInv, BackInv
  <2>9. QED
    BY <2>1, <2>6, <2>7, <2>8 DEF NoteInv
<1>2. CASE N!AddNotification(e)
  <2> DEFINE item == N!Item(e, "client", "unread")
  <2>1. item \in NoteItem /\ item.event = e /\ item.by = "client" /\ item.status = "unread"
    BY DEF N!Item, NoteItem
  <2>2. /\ list \subseteq list' /\ list' \subseteq list \cup {item} /\ \E n \in list' : n.event = e
        /\ missed' \in {missed, missed \ {e}} /\ pushed' \subseteq pushed
        /\ UNCHANGED <<rows, known, posts, notified, returned>>
    <3>1. CASE \E n \in list : n.event = e /\ n.by = "client"
      BY <1>2, <3>1 DEF N!AddNotification
    <3>2. CASE ~\E n \in list : n.event = e /\ n.by = "client"
      BY <1>2, <2>1, <3>2 DEF N!AddNotification
    <3>3. QED
      BY <3>1, <3>2
  <2> HIDE DEF item
  <2>3. \A d : Reading(d)' <=> Reading(d)
    BY <2>2 DEF Reading
  <2>4. NoteTypes'
    BY <2>1, <2>2 DEF NoteInv, NoteTypes
  <2>5. ItemInv'
    BY <2>1, <2>2 DEF NoteInv, ItemInv
  <2>6. MissInv'
    BY <2>2, <2>3 DEF NoteInv, MissInv
  <2>7. BackInv'
    BY <2>1, <2>2, <2>3 DEF NoteInv, BackInv
  <2>8. QED
    BY <2>4, <2>5, <2>6, <2>7 DEF NoteInv
<1>3. CASE N!Lose(e)
  BY <1>3 DEF N!Lose, NoteInv, NoteTypes, ItemInv, MissInv, BackInv, Reading
<1>4. QED
  BY <1>1, <1>2, <1>3

\* A call is served.
LEMMA ServeSafe ==
  ASSUME NoteInv, NEW p \in posts, N!Serve(p) PROVE NoteInv'
<1> DEFINE answered == [p EXCEPT !.done = TRUE, !.rows = rows]
<1>0. p \in NoteCall /\ ~p.done /\ UNCHANGED <<pushed, known, list, notified, missed, returned>>
  BY DEF N!Serve, NoteInv, NoteTypes
<1>1. rows' \in NoteRows /\ \A e \in Events :
        rows'[e] = IF e \in p.of /\ rows[e] = "unread" THEN "read" ELSE rows[e]
  BY DEF N!Serve, NoteInv, NoteTypes, NoteRows
<1>2. \A n \in list : n.event \in Events
  BY DEF NoteInv, NoteTypes, NoteItem
<1>3. CASE p.op = "load"
  <2>1. /\ answered \in NoteCall /\ answered.op = "load" /\ answered.of = p.of
        /\ answered.rows = rows /\ answered.done
    BY <1>0, <1>3 DEF NoteInv, NoteTypes, NoteCall
  <2>2. p.of = {} /\ posts' = (posts \ {p}) \cup {answered}
    BY <1>3 DEF N!Serve, NoteInv, ItemInv
  <2> HIDE DEF answered
  <2>3. rows' = rows
    BY <1>1, <2>2 DEF NoteInv, NoteTypes, NoteRows
  <2>4. \A e : Reading(e)' <=> Reading(e)
    BY <1>3, <2>1, <2>2 DEF Reading
  <2>5. NoteTypes'
    BY <1>0, <2>1, <2>2, <2>3 DEF NoteInv, NoteTypes
  <2>6. ItemInv'
    BY <1>0, <2>1, <2>2, <2>3 DEF NoteInv, ItemInv
  <2>7. MissInv'
    BY <1>0, <2>3, <2>4 DEF NoteInv, MissInv
  <2>8. BackInv'
    BY <1>0, <1>3, <2>1, <2>2, <2>3, <2>4 DEF NoteInv, BackInv
  <2>9. QED
    BY <2>5, <2>6, <2>7, <2>8 DEF NoteInv
<1>4. CASE p.op = "read"
  <2>1. posts' = posts \ {p}
    BY <1>4 DEF N!Serve
  <2>2. \A e : Reading(e) <=> Reading(e)' \/ e \in p.of
    BY <1>4, <2>1 DEF Reading
  <2>3. NoteTypes'
    BY <1>0, <1>1, <2>1 DEF NoteInv, NoteTypes
  <2>4. ItemInv'
    BY <1>0, <1>1, <1>2, <2>1 DEF NoteInv, ItemInv
  <2>5. MissInv'
    BY <1>0, <1>1, <2>2 DEF NoteInv, MissInv
  <2>6. BackInv'
    BY <1>0, <1>1, <1>2, <2>1, <2>2 DEF NoteInv, BackInv
  <2>7. QED
    BY <2>3, <2>4, <2>5, <2>6 DEF NoteInv
<1>5. QED
  BY <1>0, <1>3, <1>4 DEF NoteCall

\* The answer of a load, or none.
LEMMA AnswerSafe ==
  ASSUME NoteInv, NEW p \in posts, N!LoadAnswered(p) \/ N!LoadFailed(p) PROVE NoteInv'
<1>0. p.op = "load" /\ posts' = posts \ {p} /\ UNCHANGED <<rows, pushed, known, notified, returned>>
  BY DEF N!LoadAnswered, N!LoadFailed
<1>1. p \in NoteCall /\ \A n \in list : n \in NoteItem
  BY DEF NoteInv, NoteTypes
<1>2. /\ list' \subseteq {N!Item(e, "server", p.rows[e]) : e \in {d \in Events : p.rows[d] # "none"}}
      /\ list' # {} => p.done
      /\ missed' = (missed \cup {n.event : n \in N!Unread}) \ {n.event : n \in list'}
  BY DEF N!LoadAnswered, N!LoadFailed
<1>3. \A n \in list' : n \in NoteItem /\ n.by = "server" /\ n.status = p.rows[n.event]
  BY <1>1, <1>2 DEF N!Item, NoteItem, NoteCall, NoteRows
<1>4. \A e : Reading(e)' <=> Reading(e)
  BY <1>0 DEF Reading
<1>5. \A n \in list : n.event \in Events /\ (n \notin N!Unread => n.status = "read")
  BY <1>1 DEF N!Unread, NoteItem
<1>6. NoteTypes'
  <2>1. missed' \subseteq Events
    BY <1>2, <1>5 DEF NoteInv, NoteTypes, N!Unread
  <2>2. QED
    BY <1>0, <1>3, <2>1 DEF NoteInv, NoteTypes
<1>7. ItemInv'
  <2>1. \A n, o \in list' : n.event = o.event => n = o
    BY <1>3 DEF NoteItem
  <2>2. \A n \in list' : n.event \in Events /\ (n.status = "read" => rows[n.event] = "read")
    BY <1>0, <1>2, <1>3 DEF NoteInv, ItemInv, NoteItem
  <2>3. QED
    BY <1>0, <2>1, <2>2 DEF NoteInv, ItemInv
<1>8. MissInv'
  <2>1. SUFFICES ASSUME NEW e \in Events, e \notin missed', rows[e] = "unread", ~Reading(e),
                        \A n \in list' : n.event # e
                 PROVE  FALSE
    BY <1>0, <1>4 DEF MissInv
  <2>2. e \notin missed /\ \A n \in N!Unread : n.event # e
    BY <1>2, <2>1
  <2>3. PICK n \in list : n.event = e
    BY <2>1, <2>2 DEF NoteInv, MissInv
  <2>4. n.status = "read"
    BY <1>5, <2>2, <2>3
  <2>5. QED
    BY <2>1, <2>3, <2>4 DEF NoteInv, ItemInv
<1>9. BackInv'
  <2>1. \A n \in list' : n.by = "server" /\ n.status = "unread" /\ n.event \notin returned =>
          rows[n.event] = "unread" /\ ~Reading(n.event)
    BY <1>0, <1>2, <1>3 DEF NoteInv, BackInv, NoteItem
  <2>2. QED
    BY <1>0, <1>4, <2>1 DEF NoteInv, BackInv
<1>10. QED
  BY <1>6, <1>7, <1>8, <1>9 DEF NoteInv

LEMMA ReadFailedSafe ==
  ASSUME NoteInv, NEW p \in posts, N!ReadFailed(p) PROVE NoteInv'
<1>1. /\ p.op = "read" /\ p \in NoteCall /\ posts' = posts \ {p}
      /\ returned' = returned \cup p.of /\ missed' = missed \cup p.of
      /\ UNCHANGED <<rows, pushed, known, list, notified>>
  BY DEF N!ReadFailed, NoteInv, NoteTypes
<1>2. \A e : Reading(e) <=> Reading(e)' \/ e \in p.of
  BY <1>1 DEF Reading
<1>3. NoteTypes'
  BY <1>1 DEF NoteInv, NoteTypes, NoteCall
<1>4. ItemInv'
  BY <1>1 DEF NoteInv, ItemInv
<1>5. MissInv'
  BY <1>1, <1>2 DEF NoteInv, MissInv
<1>6. BackInv'
  BY <1>1, <1>2 DEF NoteInv, BackInv
<1>7. QED
  BY <1>3, <1>4, <1>5, <1>6 DEF NoteInv

\* One item read or opened.
LEMMA OneReadSafe ==
  ASSUME NoteInv, NEW n \in list, N!MarkAsRead(n) \/ N!Open(n) PROVE NoteInv'
<1> DEFINE of == IF n.by = "server" THEN {n.event} ELSE {}
<1>1. n \in NoteItem
  BY DEF NoteInv, NoteTypes
<1>2. N!Read({n}, of) /\ UNCHANGED <<rows, pushed, known>> /\ notified' \in Events \cup {none}
  BY <1>1 DEF N!MarkAsRead, N!Open, NoteInv, NoteTypes, NoteItem
<1>3. \A o \in list \ {n} : o.by = "server" => o.event \notin of
  BY DEF NoteInv, ItemInv
<1>4. of \in SUBSET Events /\ {n} \in SUBSET list
  BY <1>1 DEF NoteItem
<1> HIDE DEF of
<1>5. QED
  BY <1>2, <1>3, <1>4, ReadSafe

LEMMA ManyReadSafe ==
  ASSUME NoteInv, N!MarkAllAsRead \/ \E s \in Sources : N!MarkEntityAsRead(s) PROVE NoteInv'
<1>1. CASE N!MarkAllAsRead
  <2>1. N!Read(list, Events) /\ UNCHANGED <<rows, pushed, known>> /\ notified' \in Events \cup {none}
    BY <1>1 DEF N!MarkAllAsRead, NoteInv, NoteTypes
  <2>2. QED
    BY <2>1, ReadSafe
<1>2. ASSUME NEW s \in Sources, N!MarkEntityAsRead(s) PROVE NoteInv'
  <2> DEFINE matching == {n \in list : ConvOf[n.event] = s /\ (n.by = "server" \/ n.event \in Replies)}
             of == {n.event : n \in {o \in matching : o.by = "server"}}
  <2>1. N!Read(matching, of) /\ UNCHANGED <<rows, pushed, known>> /\ notified' \in Events \cup {none}
    BY <1>2 DEF N!MarkEntityAsRead, NoteInv, NoteTypes
  <2>2. \A o \in list \ matching : o.by = "server" => o.event \notin of
    OBVIOUS
  <2>3. of \in SUBSET Events /\ matching \in SUBSET list
    BY DEF NoteInv, NoteTypes, NoteItem
  <2> HIDE DEF matching, of
  <2>4. QED
    BY <2>1, <2>2, <2>3, ReadSafe
<1>3. QED
  BY <1>1, <1>2

LEMMA NoteStep ==
  ASSUME NoteInv, [N!Next]_notificationVars PROVE NoteInv'
<1>1. CASE UNCHANGED notificationVars
  BY <1>1 DEF notificationVars, NoteInv, NoteTypes, ItemInv, MissInv, BackInv, Reading
<1>2. CASE \E e \in Events : N!Notify(e) \/ N!AddNotification(e) \/ N!Lose(e)
  BY <1>2, EventSafe
<1>3. CASE \E s \in Sources : N!Learn(s)
  BY <1>3, LoadSafe DEF N!Learn, NoteInv, NoteTypes
<1>4. CASE N!Load
  BY <1>4, LoadSafe DEF N!Load, NoteInv, NoteTypes
<1>5. CASE \E n \in list : N!MarkAsRead(n) \/ N!Open(n)
  BY <1>5, OneReadSafe
<1>6. CASE N!MarkAllAsRead \/ \E s \in Sources : N!MarkEntityAsRead(s)
  BY <1>6, ManyReadSafe
<1>7. CASE \E p \in posts : N!Serve(p)
  BY <1>7, ServeSafe
<1>8. CASE \E p \in posts : N!LoadAnswered(p) \/ N!LoadFailed(p)
  BY <1>8, AnswerSafe
<1>9. CASE \E p \in posts : N!ReadFailed(p)
  BY <1>9, ReadFailedSafe
<1>10. QED
  BY <1>1, <1>2, <1>3, <1>4, <1>5, <1>6, <1>7, <1>8, <1>9 DEF N!Next

LEMMA NoteSafe == NoteInv => N!TypeOK /\ N!NotificationsAgree
<1>1. ASSUME NoteInv, posts = {} PROVE \A e : ~Reading(e)
  BY <1>1 DEF Reading
<1>2. QED
  BY <1>1 DEF NoteInv, NoteTypes, NoteRows, NoteItem, MissInv, BackInv, N!TypeOK, N!NotificationsAgree

-----------------------------------------------------------------------------
(* Downloads.  A file has one line of the panel at most; a line that says  *)
(* its download runs has one that does, any other a timeout; a load of the *)
(* files dialog that is not overtaken is of the conversations there are    *)
(* (LoadInv).                                                              *)

Line == [file: Files, status: {"downloading", "complete", "failed"}]

PanelTypes ==
  /\ downloads \in Seq(Line) /\ Len(downloads) <= PanelSize
  /\ \A i, j \in DOMAIN downloads : downloads[i].file = downloads[j].file => i = j

DownloadTypes ==
  /\ button \in [Buttons -> {"gone", "idle", "downloading", "complete"}]
  /\ orphans \in [Files -> Nat] /\ hideTimers \in [Files -> Nat]
  /\ hidden \in BOOLEAN /\ remembered \subseteq Files

GalleryTypes ==
  /\ gallery \in [open: BOOLEAN, initial: 0 .. Pictures - 1, index: 0 .. Pictures - 1,
                  zoom: 2 .. MaxZoom, turns: 0 .. 3]
  /\ preview \in BOOLEAN

DialogTypes ==
  filesDialog \in [open: BOOLEAN, loading: BOOLEAN, convs: Nat, listed: Int, effect: Nat,
                   loads: SUBSET [convs: Nat, effect: Nat]]

LoadInv ==
  /\ \A l \in filesDialog.loads :
       /\ l.effect <= filesDialog.effect
       /\ l.effect = filesDialog.effect => l.convs = filesDialog.convs
  /\ M!FilesAreCurrent

MediaInv == PanelTypes /\ DownloadTypes /\ GalleryTypes /\ DialogTypes /\ LoadInv /\ M!DownloadsLeave

LEMMA MediaInit == ASSUME M!Init PROVE MediaInv
<1> USE PageConstants DEF M!MediaAssumption, M!Init
<1>1. PanelTypes
  BY DEF PanelTypes
<1>2. DownloadTypes
  BY DEF DownloadTypes
<1>3. GalleryTypes
  <2>1. 0 \in 0 .. Pictures - 1 /\ 4 \in 2 .. MaxZoom /\ 0 \in 0 .. 3
    OBVIOUS
  <2>2. QED
    BY <2>1 DEF GalleryTypes
<1>4. DialogTypes
  BY DEF DialogTypes
<1>5. LoadInv
  BY DEF LoadInv, M!FilesAreCurrent
<1>6. QED
  BY <1>1, <1>2, <1>3, <1>4, <1>5 DEF MediaInv, M!DownloadsLeave

\* Taking the line of a file off leaves the other lines, in order.
LEMMA WithoutLine ==
  ASSUME PanelTypes, NEW h \in Files
  PROVE  /\ M!Without(h) \in Seq(Line) /\ Len(M!Without(h)) <= Len(downloads)
         /\ \A i, j \in DOMAIN M!Without(h) : M!Without(h)[i].file = M!Without(h)[j].file => i = j
         /\ \A i \in DOMAIN M!Without(h) :
              M!Without(h)[i].file # h /\ \E j \in DOMAIN downloads : M!Without(h)[i] = downloads[j]
<1>1. CASE M!LinesOf(h) = {}
  BY <1>1 DEF M!Without, M!LinesOf, PanelTypes
<1>2. CASE M!LinesOf(h) # {}
  <2> DEFINE p == CHOOSE i \in M!LinesOf(h) : TRUE
             n == Len(downloads)
             rest == SubSeq(downloads, 1, p - 1) \o SubSeq(downloads, p + 1, n)
  <2>1. p \in 1..n /\ downloads[p].file = h /\ n \in Nat /\ downloads \in Seq(Line)
    BY <1>2 DEF M!LinesOf, PanelTypes
  <2>2. M!Without(h) = rest
    BY <1>2 DEF M!Without
  <2> HIDE DEF p
  <2>4. /\ rest \in Seq(Line) /\ Len(rest) = n - 1 /\ DOMAIN rest = 1..(n - 1)
        /\ \A i \in 1..(n - 1) : rest[i] = downloads[IF i < p THEN i ELSE i + 1]
    BY <2>1, Removed
  <2>6. DOMAIN downloads = 1..n
    BY <2>1
  <2> HIDE DEF rest, n
  <2>7. \A i \in 1..(n - 1) :
          /\ (IF i < p THEN i ELSE i + 1) \in 1..n
          /\ (IF i < p THEN i ELSE i + 1) # p
          /\ rest[i] = downloads[IF i < p THEN i ELSE i + 1]
    BY <2>1, <2>4
  <2>8. \A i, j \in 1..(n - 1) : (IF i < p THEN i ELSE i + 1) = (IF j < p THEN j ELSE j + 1) => i = j
    BY <2>1
  <2>9. \A i, j \in 1..n : downloads[i].file = downloads[j].file => i = j
    BY <2>6 DEF PanelTypes
  <2>10. \A i, j \in 1..(n - 1) : rest[i].file = rest[j].file => i = j
    BY <2>7, <2>8, <2>9
  <2>11. \A i \in 1..(n - 1) : rest[i].file # h /\ \E j \in 1..n : rest[i] = downloads[j]
    BY <2>1, <2>7, <2>9
  <2>12. n - 1 <= Len(downloads)
    BY <2>1 DEF n
  <2>13. QED
    BY <2>2, <2>4, <2>6, <2>10, <2>11, <2>12
<1>3. QED
  BY <1>1, <1>2

\* A report ends the panel with the line of its file; the others stay, but for
\* the first when there are too many.
LEMMA ReportLine ==
  ASSUME PanelTypes, NEW h \in Files, NEW status \in {"downloading", "complete", "failed"},
         M!Report(h, status)
  PROVE  /\ PanelTypes'
         /\ \A i \in DOMAIN downloads' :
              \/ downloads'[i] = [file |-> h, status |-> status]
              \/ downloads'[i].file # h /\ \E j \in DOMAIN downloads : downloads'[i] = downloads[j]
<1> DEFINE kept == M!Without(h)
           line == [file |-> h, status |-> status]
           next == Append(kept, line)
<1>1. /\ kept \in Seq(Line) /\ Len(kept) <= Len(downloads)
      /\ \A i, j \in DOMAIN kept : kept[i].file = kept[j].file => i = j
      /\ \A i \in DOMAIN kept : kept[i].file # h /\ \E j \in DOMAIN downloads : kept[i] = downloads[j]
  BY WithoutLine
<1>2. downloads' = IF Len(next) > PanelSize THEN Tail(next) ELSE next
  BY DEF M!Report
<1>3. line \in Line /\ line.file = h /\ Len(downloads) \in Nat /\ Len(downloads) <= PanelSize
  BY DEF Line, PanelTypes
<1> HIDE DEF kept, line
<1>4. /\ next \in Seq(Line) /\ Len(next) = Len(kept) + 1 /\ DOMAIN next = 1..(Len(kept) + 1)
      /\ \A i \in 1..Len(kept) : next[i] = kept[i]
      /\ next[Len(kept) + 1] = line /\ Len(kept) \in Nat /\ DOMAIN kept = 1..Len(kept)
  BY <1>1, <1>3
<1> HIDE DEF next
<1>5. /\ \A i, j \in DOMAIN next : next[i].file = next[j].file => i = j
      /\ \A i \in DOMAIN next :
           next[i] = line \/ (next[i].file # h /\ \E j \in DOMAIN downloads : next[i] = downloads[j])
  BY <1>1, <1>3, <1>4
<1>6. PanelSize \in Nat \ {0}
  BY PageConstants DEF M!MediaAssumption
<1>7. CASE Len(next) > PanelSize
  <2>1. /\ downloads' = Tail(next) /\ Tail(next) \in Seq(Line) /\ Len(Tail(next)) = Len(kept)
        /\ DOMAIN Tail(next) = 1..Len(kept) /\ \A i \in 1..Len(kept) : Tail(next)[i] = next[i + 1]
    BY <1>2, <1>4, <1>7
  <2>2. Len(kept) <= PanelSize
    BY <1>1, <1>3, <1>4, <1>6
  <2>3. \A i \in 1..Len(kept) : i + 1 \in DOMAIN next
    BY <1>4
  <2>4. \A i, j \in DOMAIN downloads' : downloads'[i].file = downloads'[j].file => i = j
    BY <1>4, <1>5, <2>1, <2>3
  <2>5. \A i \in DOMAIN downloads' :
          downloads'[i] = line \/ (downloads'[i].file # h /\ \E j \in DOMAIN downloads : downloads'[i] = downloads[j])
    BY <1>5, <2>1, <2>3
  <2>6. QED
    BY <2>1, <2>2, <2>4, <2>5 DEF PanelTypes, line
<1>8. CASE ~(Len(next) > PanelSize)
  <2>1. downloads' = next /\ Len(next) <= PanelSize
    BY <1>2, <1>4, <1>6, <1>8
  <2>2. QED
    BY <1>4, <1>5, <2>1 DEF PanelTypes, line
<1>9. QED
  BY <1>7, <1>8

\* The files with a download that goes on, and those with a timeout.
Going == {e \in Files : M!Running(e)}
Ending == {e \in Files : hideTimers[e] > 0}
Leaves(l, going, ending) == l.file \in IF l.status = "downloading" THEN going ELSE ending

LEMMA FilesOfLines == ASSUME PanelTypes PROVE \A i \in DOMAIN downloads : downloads[i].file \in Files
<1>1. \A i \in DOMAIN downloads : downloads[i] \in Line
  BY DEF PanelTypes
<1>2. QED
  BY <1>1 DEF Line

LEMMA LinesLeave ==
  ASSUME MediaInv PROVE \A i \in DOMAIN downloads : Leaves(downloads[i], Going, Ending)
<1>1. ASSUME NEW i \in DOMAIN downloads PROVE Leaves(downloads[i], Going, Ending)
  <2>1. downloads[i].file \in Files
    BY FilesOfLines DEF MediaInv
  <2>2. IF downloads[i].status = "downloading" THEN M!Running(downloads[i].file)
        ELSE hideTimers[downloads[i].file] > 0
    BY DEF MediaInv, M!DownloadsLeave
  <2>3. QED
    BY <2>1, <2>2 DEF Leaves, Going, Ending
<1>2. QED
  BY <1>1

LEMMA LinesLeaveNext ==
  ASSUME \A i \in DOMAIN downloads' : Leaves(downloads'[i], Going', Ending')
  PROVE  M!DownloadsLeave'
<1>1. ASSUME NEW i \in DOMAIN downloads'
      PROVE  IF downloads'[i].status = "downloading" THEN downloads'[i].file \in Going'
             ELSE downloads'[i].file \in Ending'
  BY DEF Leaves
<1>2. QED
  BY <1>1 DEF M!DownloadsLeave, Going, Ending

\* A report leaves the lines of the other files as they were.
LEMMA ReportSafe ==
  ASSUME MediaInv, NEW h \in Files, NEW status \in {"downloading", "complete", "failed"},
         M!Report(h, status), status = "downloading" => h \in Going', Going \ {h} \subseteq Going'
  PROVE  PanelTypes' /\ M!DownloadsLeave'
<1>1. /\ PanelTypes'
      /\ \A i \in DOMAIN downloads' :
           \/ downloads'[i] = [file |-> h, status |-> status]
           \/ downloads'[i].file # h /\ \E j \in DOMAIN downloads : downloads'[i] = downloads[j]
  BY ReportLine DEF MediaInv
<1>2. /\ hideTimers \in [Files -> Nat]
      /\ hideTimers' = IF status = "downloading" THEN hideTimers ELSE [hideTimers EXCEPT ![h] = @ + 1]
  BY DEF M!Report, MediaInv, DownloadTypes
<1>3. Ending \subseteq Ending' /\ (status # "downloading" => h \in Ending')
  BY <1>2 DEF Ending
<1>4. ASSUME NEW i \in DOMAIN downloads' PROVE Leaves(downloads'[i], Going', Ending')
  <2>1. CASE downloads'[i] = [file |-> h, status |-> status]
    <3>1. downloads'[i].file = h /\ downloads'[i].status = status
      BY <2>1
    <3>2. QED
      BY <1>3, <3>1 DEF Leaves
  <2>2. CASE downloads'[i].file # h /\ \E j \in DOMAIN downloads : downloads'[i] = downloads[j]
    <3>1. PICK j \in DOMAIN downloads : downloads'[i] = downloads[j]
      BY <2>2
    <3>2. Leaves(downloads[j], Going, Ending)
      BY LinesLeave
    <3>3. QED
      BY <1>3, <2>2, <3>1, <3>2 DEF Leaves
  <2>3. QED
    BY <1>1, <2>1, <2>2
<1>5. QED
  BY <1>1, <1>4, LinesLeaveNext

\* With the panel and the timeouts left alone, downloads that go on will do.
LEMMA StayLeaves ==
  ASSUME MediaInv, UNCHANGED <<downloads, hideTimers>>, Going \subseteq Going'
  PROVE  PanelTypes' /\ M!DownloadsLeave'
<1>1. Ending' = Ending
  BY DEF Ending
<1>2. \A i \in DOMAIN downloads' : Leaves(downloads'[i], Going', Ending')
  <2>1. \A i \in DOMAIN downloads : Leaves(downloads[i], Going, Ending)
    BY LinesLeave
  <2>2. QED
    BY <1>1, <2>1 DEF Leaves
<1>3. PanelTypes'
  BY DEF MediaInv, PanelTypes
<1>4. QED
  BY <1>2, <1>3, LinesLeaveNext

LEMMA ButtonSafe ==
  ASSUME MediaInv, NEW p \in Buttons, M!Mount(p) \/ M!Unmount(p) \/ M!Download(p)
  PROVE  PanelTypes' /\ DownloadTypes' /\ M!DownloadsLeave'
<1> USE PageConstants DEF M!MediaAssumption
<1>0. DownloadTypes /\ FileOf[p] \in Files
  BY DEF MediaInv
<1>1. CASE M!Mount(p)
  <2>1. DownloadTypes'
    BY <1>0, <1>1 DEF M!Mount, DownloadTypes
  <2>2. Going \subseteq Going'
    BY <1>0, <1>1 DEF M!Mount, M!Running, DownloadTypes, Going
  <2>3. QED
    BY <1>1, <2>1, <2>2, StayLeaves DEF M!Mount
<1>2. CASE M!Unmount(p)
  <2>1. DownloadTypes'
    BY <1>0, <1>2 DEF M!Unmount, DownloadTypes
  <2>2. \A q \in Buttons \ {p} : button'[q] = button[q]
    BY <1>0, <1>2 DEF M!Unmount, DownloadTypes
  <2>3. /\ \A e \in Files : orphans'[e] >= orphans[e] /\ orphans[e] \in Nat /\ orphans'[e] \in Nat
        /\ button[p] = "downloading" => orphans'[FileOf[p]] > 0
    BY <1>0, <1>2, <2>1 DEF M!Unmount, DownloadTypes
  <2>4. ASSUME NEW e \in Files, M!Running(e) PROVE M!Running(e)'
    <3>1. CASE orphans[e] > 0
      BY <2>3, <3>1 DEF M!Running
    <3>2. CASE FileOf[p] = e /\ button[p] = "downloading"
      BY <2>3, <3>2 DEF M!Running
    <3>3. CASE \E q \in Buttons \ {p} : FileOf[q] = e /\ button[q] = "downloading"
      BY <2>2, <3>3 DEF M!Running
    <3>4. QED
      BY <2>4, <3>1, <3>2, <3>3 DEF M!Running
  <2>5. Going \subseteq Going'
    BY <2>4 DEF Going
  <2>6. QED
    BY <1>2, <2>1, <2>5, StayLeaves DEF M!Unmount
<1>3. CASE M!Download(p)
  <2>1. M!Report(FileOf[p], "downloading") /\ button' = [button EXCEPT ![p] = "downloading"]
        /\ UNCHANGED <<orphans, remembered>>
    BY <1>3 DEF M!Download
  <2>2. DownloadTypes'
    BY <1>0, <2>1 DEF M!Report, DownloadTypes
  <2>3. FileOf[p] \in Going' /\ Going \subseteq Going'
    BY <1>0, <2>1 DEF M!Running, DownloadTypes, Going
  <2>4. QED
    BY <1>0, <2>1, <2>2, <2>3, ReportSafe
<1>4. QED
  BY <1>1, <1>2, <1>3

\* The end of a download leaves those of other files running.
LEMMA EndSafe ==
  ASSUME MediaInv, NEW h \in Files, NEW to \in {"complete", "idle"},
         NEW status \in {"complete", "failed"}, M!Report(h, status), remembered' \subseteq Files,
         M!EndOrphan(h) \/ \E p \in Buttons : FileOf[p] = h /\ M!EndOnPage(p, to)
  PROVE  PanelTypes' /\ DownloadTypes' /\ M!DownloadsLeave'
<1>0. DownloadTypes
  BY DEF MediaInv
<1>1. hidden' = FALSE /\ hideTimers' = [hideTimers EXCEPT ![h] = @ + 1]
  BY DEF M!Report
<1>2. hideTimers' \in [Files -> Nat]
  BY <1>0, <1>1 DEF DownloadTypes
<1>3. DownloadTypes' /\ \A e \in Files \ {h} : M!Running(e) => M!Running(e)'
  <2>1. CASE M!EndOrphan(h)
    <3>1. orphans' \in [Files -> Nat] /\ UNCHANGED button /\ \A e \in Files \ {h} : orphans'[e] = orphans[e]
      BY <1>0, <2>1 DEF M!EndOrphan, DownloadTypes
    <3>2. QED
      BY <1>0, <1>1, <1>2, <3>1 DEF DownloadTypes, M!Running
  <2>2. ASSUME NEW p \in Buttons, FileOf[p] = h, M!EndOnPage(p, to)
        PROVE  DownloadTypes' /\ \A e \in Files \ {h} : M!Running(e) => M!Running(e)'
    <3>1. /\ button' \in [Buttons -> {"gone", "idle", "downloading", "complete"}] /\ UNCHANGED orphans
          /\ \A q \in Buttons \ {p} : button'[q] = button[q]
      BY <1>0, <2>2 DEF M!EndOnPage, DownloadTypes
    <3>2. QED
      BY <1>0, <1>1, <1>2, <2>2, <3>1 DEF DownloadTypes, M!Running
  <2>3. QED
    BY <2>1, <2>2
<1>4. Going \ {h} \subseteq Going'
  BY <1>3 DEF Going
<1>5. QED
  BY <1>3, <1>4, ReportSafe

LEMMA FileSafe ==
  ASSUME MediaInv, NEW h \in Files, M!Progress(h) \/ M!Complete(h) \/ M!Fail(h) \/ M!Expire(h)
  PROVE  PanelTypes' /\ DownloadTypes' /\ M!DownloadsLeave'
<1>0. DownloadTypes /\ PanelTypes
  BY DEF MediaInv
<1>1. CASE M!Progress(h)
  <2>1. M!Running(h) /\ M!Report(h, "downloading") /\ UNCHANGED <<button, orphans, remembered>>
    BY <1>1 DEF M!Progress
  <2>2. DownloadTypes'
    BY <1>0, <2>1 DEF M!Report, DownloadTypes
  <2>3. h \in Going' /\ Going \subseteq Going'
    BY <2>1 DEF M!Running, Going
  <2>4. QED
    BY <2>1, <2>2, <2>3, ReportSafe
<1>2. CASE M!Complete(h)
  <2>1. remembered' \subseteq Files
    BY <1>0, <1>2 DEF M!Complete, DownloadTypes
  <2>2. QED
    BY <1>2, <2>1, EndSafe DEF M!Complete
<1>3. CASE M!Fail(h)
  <2>1. remembered' \subseteq Files
    BY <1>0, <1>3 DEF M!Fail, DownloadTypes
  <2>2. QED
    BY <1>3, <2>1, EndSafe DEF M!Fail
<1>4. CASE M!Expire(h)
  <2>1. /\ downloads' = M!Without(h) /\ UNCHANGED <<button, orphans, hidden, remembered>>
        /\ hideTimers' \in [Files -> Nat] /\ \A e \in Files \ {h} : hideTimers'[e] = hideTimers[e]
    BY <1>0, <1>4 DEF M!Expire, DownloadTypes
  <2>2. /\ downloads' \in Seq(Line) /\ Len(downloads') <= Len(downloads)
        /\ \A i, j \in DOMAIN downloads' : downloads'[i].file = downloads'[j].file => i = j
        /\ \A i \in DOMAIN downloads' :
             downloads'[i].file # h /\ \E j \in DOMAIN downloads : downloads'[i] = downloads[j]
    BY <1>0, <2>1, WithoutLine
  <2>3. PanelTypes'
    <3>1. Len(downloads) \in Nat /\ Len(downloads') \in Nat /\ PanelSize \in Nat
      BY <1>0, <2>2, PageConstants DEF PanelTypes, M!MediaAssumption
    <3>2. QED
      BY <1>0, <2>2, <3>1 DEF PanelTypes
  <2>4. DownloadTypes'
    BY <1>0, <2>1 DEF DownloadTypes
  <2>5. Going' = Going /\ Ending \ {h} \subseteq Ending'
    BY <2>1 DEF Going, Ending, M!Running
  <2>6. ASSUME NEW i \in DOMAIN downloads' PROVE Leaves(downloads'[i], Going', Ending')
    <3>1. PICK j \in DOMAIN downloads : downloads'[i] = downloads[j] /\ downloads'[i].file # h
      BY <2>2
    <3>2. Leaves(downloads[j], Going, Ending)
      BY LinesLeave
    <3>3. QED
      BY <2>5, <3>1, <3>2 DEF Leaves
  <2>7. M!DownloadsLeave'
    BY <2>6, LinesLeaveNext
  <2>8. QED
    BY <2>3, <2>4, <2>7
<1>5. QED
  BY <1>1, <1>2, <1>3, <1>4

LEMMA DownloadsSafe ==
  ASSUME MediaInv, M!Downloads PROVE MediaInv'
<1>1. UNCHANGED <<gallery, preview, filesDialog>>
  BY DEF M!Downloads
<1>2. GalleryTypes' /\ DialogTypes' /\ LoadInv'
  BY <1>1 DEF MediaInv, GalleryTypes, DialogTypes, LoadInv, M!FilesAreCurrent
<1>3. PanelTypes' /\ DownloadTypes' /\ M!DownloadsLeave'
  <2>1. CASE M!Dismiss
    <3>1. UNCHANGED <<downloads, hideTimers, button, orphans, remembered>> /\ hidden' = TRUE
      BY <2>1 DEF M!Dismiss
    <3>2. Going \subseteq Going'
      BY <3>1 DEF Going, M!Running
    <3>3. PanelTypes' /\ M!DownloadsLeave'
      BY <3>1, <3>2, StayLeaves
    <3>4. DownloadTypes'
      BY <3>1 DEF MediaInv, DownloadTypes
    <3>5. QED
      BY <3>3, <3>4
  <2>2. QED
    BY <2>1, ButtonSafe, FileSafe DEF M!Downloads
<1>4. QED
  BY <1>2, <1>3 DEF MediaInv

\* Gallery and dialog leave the downloads alone.
LEMMA OthersSafe ==
  ASSUME MediaInv, UNCHANGED M!downloadVars, GalleryTypes', DialogTypes', LoadInv'
  PROVE  MediaInv'
<1>1. PanelTypes' /\ DownloadTypes'
  BY DEF MediaInv, PanelTypes, DownloadTypes, M!downloadVars
<1>2. M!DownloadsLeave'
  BY DEF MediaInv, M!DownloadsLeave, M!Running, M!downloadVars
<1>3. QED
  BY <1>1, <1>2 DEF MediaInv

LEMMA ViewingSafe ==
  ASSUME MediaInv, M!Viewing PROVE MediaInv'
<1> DEFINE Gallery == [open: BOOLEAN, initial: 0 .. Pictures - 1, index: 0 .. Pictures - 1,
                       zoom: 2 .. MaxZoom, turns: 0 .. 3]
<1>0. gallery \in Gallery /\ preview \in BOOLEAN /\ Pictures \in Nat /\ MaxZoom \in Nat /\ MaxZoom >= 4
  BY PageConstants DEF MediaInv, GalleryTypes, M!MediaAssumption
<1>1. UNCHANGED <<M!downloadVars, filesDialog>>
  BY DEF M!Viewing
<1>2. 4 \in 2 .. MaxZoom /\ 0 \in 0 .. 3
  BY <1>0
<1>3. gallery' \in Gallery
  <2>1. CASE \E i \in 0 .. Pictures - 1 : M!OpenGallery(i)
    BY <1>0, <1>2, <2>1 DEF M!OpenGallery, M!At
  <2>2. CASE M!HandleNext
    <3>1. gallery.index + 1 \in 0 .. Pictures - 1
      BY <1>0, <2>2 DEF M!HandleNext
    <3>2. QED
      BY <1>0, <1>2, <2>2, <3>1 DEF M!HandleNext, M!At
  <2>3. CASE M!HandlePrev
    <3>1. gallery.index - 1 \in 0 .. Pictures - 1
      BY <1>0, <2>3 DEF M!HandlePrev
    <3>2. QED
      BY <1>0, <1>2, <2>3, <3>1 DEF M!HandlePrev, M!At
  <2>4. CASE M!HandleZoomIn \/ M!HandleZoomOut
    BY <1>0, <2>4 DEF M!HandleZoomIn, M!HandleZoomOut
  <2>5. CASE M!HandleRotate
    BY <1>0, <2>5 DEF M!HandleRotate
  <2>6. CASE M!CloseGallery \/ M!TogglePreview
    BY <1>0, <2>6 DEF M!CloseGallery, M!TogglePreview
  <2>7. QED
    BY <2>1, <2>2, <2>3, <2>4, <2>5, <2>6 DEF M!Viewing
<1>4. preview' \in BOOLEAN
  BY <1>0 DEF M!Viewing, M!TogglePreview
<1>5. GalleryTypes' /\ DialogTypes' /\ LoadInv'
  BY <1>1, <1>3, <1>4 DEF MediaInv, GalleryTypes, DialogTypes, LoadInv, M!FilesAreCurrent
<1>6. QED
  BY <1>1, <1>5, OthersSafe

LEMMA BrowsingSafe ==
  ASSUME MediaInv, M!Browsing PROVE MediaInv'
<1> DEFINE Loads == [convs: Nat, effect: Nat]
           d == filesDialog
           r == filesDialog'
<1>0. /\ d \in [open: BOOLEAN, loading: BOOLEAN, convs: Nat, listed: Int, effect: Nat, loads: SUBSET Loads]
      /\ \A l \in d.loads : l.effect <= d.effect /\ (l.effect = d.effect => l.convs = d.convs)
      /\ d.open /\ ~d.loading => d.listed \in {d.convs, -1}
  BY DEF MediaInv, DialogTypes, LoadInv, M!FilesAreCurrent
<1>1. UNCHANGED <<M!downloadVars, gallery, preview>>
  BY DEF M!Browsing
<1>2. CASE M!SetOpen \/ M!ConversationsChange
  <2>0. PICK e \in [open: BOOLEAN, loading: BOOLEAN, convs: Nat, listed: Int, effect: Nat,
                       loads: SUBSET Loads] :
          e.effect = d.effect /\ e.loads = d.loads /\ r = M!RunEffect(e)
    <3>1. CASE M!SetOpen
      <4>1. [d EXCEPT !.open = ~@] \in [open: BOOLEAN, loading: BOOLEAN, convs: Nat, listed: Int,
                                         effect: Nat, loads: SUBSET Loads]
            /\ [d EXCEPT !.open = ~@].effect = d.effect /\ [d EXCEPT !.open = ~@].loads = d.loads
        BY <1>0
      <4>2. QED
        BY <3>1, <4>1 DEF M!SetOpen
    <3>2. CASE M!ConversationsChange
      <4>1. [d EXCEPT !.convs = @ + 1] \in [open: BOOLEAN, loading: BOOLEAN, convs: Nat, listed: Int,
                                             effect: Nat, loads: SUBSET Loads]
            /\ [d EXCEPT !.convs = @ + 1].effect = d.effect /\ [d EXCEPT !.convs = @ + 1].loads = d.loads
        BY <1>0
      <4>2. QED
        BY <3>2, <4>1 DEF M!ConversationsChange
    <3>3. QED
      BY <1>2, <3>1, <3>2
  <2>1. /\ r = [open |-> e.open, loading |-> IF e.open THEN TRUE ELSE e.loading, convs |-> e.convs,
                listed |-> e.listed, effect |-> d.effect + 1,
                loads |-> IF e.open THEN d.loads \cup {[convs |-> e.convs, effect |-> d.effect + 1]}
                          ELSE d.loads]
    <3>1. CASE e.open
      BY <2>0, <3>1 DEF M!RunEffect
    <3>2. CASE ~e.open
      BY <2>0, <3>2 DEF M!RunEffect
    <3>3. QED
      BY <3>1, <3>2
  <2>2. /\ (IF e.open THEN TRUE ELSE e.loading) \in BOOLEAN /\ d.effect + 1 \in Nat
        /\ e.open \in BOOLEAN /\ e.convs \in Nat /\ e.listed \in Int
        /\ (IF e.open THEN d.loads \cup {[convs |-> e.convs, effect |-> d.effect + 1]}
            ELSE d.loads) \in SUBSET Loads
    <3>1. e.open \in BOOLEAN /\ e.loading \in BOOLEAN /\ e.convs \in Nat /\ e.listed \in Int
      BY <2>0
    <3>2. d.effect + 1 \in Nat /\ d.loads \in SUBSET Loads
      BY <1>0
    <3>3. [convs |-> e.convs, effect |-> d.effect + 1] \in Loads
      BY <3>1, <3>2
    <3>4. CASE e.open
      BY <3>1, <3>2, <3>3, <3>4
    <3>5. CASE ~e.open
      BY <3>1, <3>2, <3>5
    <3>6. QED
      BY <3>4, <3>5
  <2>3. DialogTypes'
    BY <2>1, <2>2, Zenon DEF DialogTypes
  <2>4. LoadInv'
    <3>1. \A l \in d.loads : l.effect \in Nat
      BY <1>0
    <3>2. \A l \in r.loads : l.effect <= r.effect /\ (l.effect = r.effect => l.convs = r.convs)
      BY <1>0, <2>0, <2>1, <3>1
    <3>3. r.open => r.loading
      BY <2>0, <2>1
    <3>4. QED
      BY <3>2, <3>3 DEF LoadInv, M!FilesAreCurrent
  <2>5. QED
    BY <1>1, <2>3, <2>4, OthersSafe DEF MediaInv, GalleryTypes
<1>3. ASSUME NEW l \in d.loads, NEW ok, M!FilesAnswered(l, ok) PROVE MediaInv'
  <2>1. l \in Loads
    BY <1>0
  <2>2. CASE l.effect = d.effect
    <3>1. PICK n \in {l.convs, -1} :
            r = [open |-> d.open, loading |-> FALSE, convs |-> d.convs, listed |-> n,
                 effect |-> d.effect, loads |-> d.loads \ {l}]
      <4>1. r = [d EXCEPT !.loads = @ \ {l}, !.loading = FALSE, !.listed = IF ok THEN l.convs ELSE -1]
        BY <1>3, <2>2 DEF M!FilesAnswered
      <4>2. QED
        BY <1>0, <4>1
    <3>2. n \in Int
      BY <2>1, <3>1
    <3>3. DialogTypes'
      BY <1>0, <3>1, <3>2 DEF DialogTypes
    <3>4. LoadInv'
      BY <1>0, <2>2, <3>1 DEF LoadInv, M!FilesAreCurrent
    <3>5. QED
      BY <1>1, <3>3, <3>4, OthersSafe DEF MediaInv, GalleryTypes
  <2>3. CASE l.effect # d.effect
    <3>1. r = [open |-> d.open, loading |-> d.loading, convs |-> d.convs, listed |-> d.listed,
               effect |-> d.effect, loads |-> d.loads \ {l}]
      BY <1>0, <1>3, <2>3 DEF M!FilesAnswered
    <3>2. DialogTypes'
      BY <1>0, <3>1 DEF DialogTypes
    <3>3. LoadInv'
      BY <1>0, <3>1 DEF LoadInv, M!FilesAreCurrent
    <3>4. QED
      BY <1>1, <3>2, <3>3, OthersSafe DEF MediaInv, GalleryTypes
  <2>4. QED
    BY <2>2, <2>3
<1>4. QED
  BY <1>2, <1>3 DEF M!Browsing

LEMMA MediaStep ==
  ASSUME MediaInv, [M!Next]_mediaVars PROVE MediaInv'
<1>1. CASE UNCHANGED mediaVars
  BY <1>1 DEF mediaVars, MediaInv, PanelTypes, DownloadTypes, GalleryTypes, DialogTypes, LoadInv,
     M!FilesAreCurrent, M!DownloadsLeave, M!Running
<1>2. QED
  BY <1>1, DownloadsSafe, ViewingSafe, BrowsingSafe DEF M!Next

LEMMA MediaSafe == MediaInv => M!TypeOK /\ M!DownloadsLeave /\ M!FilesAreCurrent
<1>1. ASSUME PanelTypes, DownloadTypes, GalleryTypes, DialogTypes PROVE M!TypeOK
  <2>1. /\ \A i \in DOMAIN downloads : downloads[i] \in Line
        /\ \A e \in Files : \A i, j \in M!LinesOf(e) : i = j
    BY <1>1 DEF PanelTypes, M!LinesOf
  <2>2. filesDialog.open \in BOOLEAN /\ filesDialog.loading \in BOOLEAN
    BY <1>1 DEF DialogTypes
  <2>3. QED
    BY <1>1, <2>1, <2>2 DEF PanelTypes, DownloadTypes, GalleryTypes, Line, M!TypeOK
<1>2. QED
  BY <1>1 DEF MediaInv, LoadInv


-----------------------------------------------------------------------------
(* The tab.  A boot whose provider is mounted is of the workspace on       *)
(* screen, and nothing is ready outside of the workspaces (Boots).  While  *)
(* no boot fails or runs beside another (Clear), one whose provider left   *)
(* runs outside of the workspaces only, so a workspace that is ready is    *)
(* the one of the store, the history of a workspace and a new message that *)
(* was written in it are of that workspace, and what the path shows and    *)
(* the conversation remembered are so too or were opened there (Belongs).  *)

Posting == [ws: Workspaces, to: Rooms, chosen: BOOLEAN]

BootTypes ==
  /\ route \in Workspaces \cup {none} /\ shown \in B!Places /\ ready \in BOOLEAN
  /\ store \in Workspaces \cup {none} /\ selected \in Rooms \cup {none}
  /\ active \in Workspaces \cup {none} /\ last \in [Workspaces -> Rooms \cup {none}]
  /\ newMessage \in BOOLEAN /\ searching \in BOOLEAN /\ confused \in BOOLEAN
  /\ posting \in {none} \cup Posting /\ foreign \subseteq Workspaces \X Rooms

Histories ==
  /\ lately \in [Workspaces -> Seq(Rooms)] /\ recent \in Seq(Rooms)
  /\ \A ws \in Workspaces : \A i, j \in DOMAIN lately[ws] : lately[ws][i] = lately[ws][j] => i = j

Boots ==
  /\ boots \subseteq [ws: Workspaces, mine: BOOLEAN]
  /\ \A o \in boots : o.mine => o.ws = route
  /\ ready => route # none

OneBoot ==
  /\ \A o, q \in boots : o = q
  /\ \A o \in boots : ~o.mine => route = none
  /\ ready => store = route
Belongs(ws, conv) == HomeOf[conv] = ws \/ <<ws, conv>> \in foreign
ShownHome == shown \in Rooms => Belongs(route, shown)
LastHome == \A ws \in Workspaces : last[ws] # none => Belongs(ws, last[ws])
LatelyHome == \A ws \in Workspaces : \A i \in DOMAIN lately[ws] : HomeOf[lately[ws][i]] = ws
RecentHome == route # none => \A i \in DOMAIN recent : HomeOf[recent[i]] = route
PostHome == posting # none => HomeOf[posting.to] = posting.ws

Clear == OneBoot /\ ShownHome /\ LastHome /\ LatelyHome /\ RecentHome /\ PostHome

BootInv == BootTypes /\ Histories /\ Boots /\ (~confused => Clear)

LEMMA BootInit == ASSUME B!Init PROVE BootInv
<1> USE PageConstants DEF B!BootAssumption, B!Init
<1>1. BootTypes
  BY DEF BootTypes, B!Places
<1>2. Histories
  BY DEF Histories
<1>3. Boots
  BY DEF Boots
<1>4. Clear
  BY DEF Clear, OneBoot, ShownHome, LastHome, LatelyHome, RecentHome, PostHome
<1>5. QED
  BY <1>1, <1>2, <1>3, <1>4 DEF BootInv

\* What is opened somewhere is remembered: it grows, and has what is astray.
LEMMA StrayMeans ==
  ASSUME BootInv, NEW ws \in Workspaces \cup {none}, NEW p \in B!Places,
         foreign' = foreign \cup B!Stray(ws, p)
  PROVE  /\ foreign \subseteq foreign' /\ foreign' \subseteq Workspaces \X Rooms
         /\ p \in Rooms /\ ws # none => HomeOf[p] = ws \/ <<ws, p>> \in foreign'
<1>1. foreign \subseteq Workspaces \X Rooms
  BY DEF BootInv, BootTypes
<1>2. CASE p \in Rooms /\ ws # none /\ HomeOf[p] # ws
  BY <1>1, <1>2 DEF B!Stray
<1>3. CASE ~(p \in Rooms /\ ws # none /\ HomeOf[p] # ws)
  BY <1>1, <1>3 DEF B!Stray
<1>4. QED
  BY <1>2, <1>3

\* The history of a workspace when a conversation is opened: the conversation
\* and those there were, each once.
LEMMA LatelyOnce ==
  ASSUME NEW s \in Seq(Rooms), \A i, j \in DOMAIN s : s[i] = s[j] => i = j, NEW conv \in Rooms
  PROVE  /\ B!Lately(s, conv) \in Seq(Rooms)
         /\ \A i, j \in DOMAIN B!Lately(s, conv) :
              B!Lately(s, conv)[i] = B!Lately(s, conv)[j] => i = j
         /\ \A i \in DOMAIN B!Lately(s, conv) :
              B!Lately(s, conv)[i] = conv \/ \E j \in DOMAIN s : B!Lately(s, conv)[i] = s[j]
<1> DEFINE places == {i \in DOMAIN s : s[i] = conv}
           p == CHOOSE i \in places : TRUE
           rest == IF places = {} THEN s
                   ELSE SubSeq(s, 1, p - 1) \o SubSeq(s, p + 1, Len(s))
           next == <<conv>> \o rest
<1>1. /\ rest \in Seq(Rooms)
      /\ \A i, j \in DOMAIN rest : rest[i] = rest[j] => i = j
      /\ \A i \in DOMAIN rest : rest[i] # conv /\ \E j \in DOMAIN s : rest[i] = s[j]
  <2>1. CASE places = {}
    BY <2>1
  <2>2. CASE places # {}
    <3> DEFINE n == Len(s)
               others == SubSeq(s, 1, p - 1) \o SubSeq(s, p + 1, n)
    <3>1. p \in 1..n /\ s[p] = conv /\ n \in Nat /\ DOMAIN s = 1..n
      BY <2>2
    <3>2. rest = others
      BY <2>2
    <3> HIDE DEF p, rest, places
    <3>3. /\ others \in Seq(Rooms) /\ DOMAIN others = 1..(n - 1)
          /\ \A i \in 1..(n - 1) : others[i] = s[IF i < p THEN i ELSE i + 1]
      <4>1. s \in Seq(Rooms) /\ p \in 1..Len(s)
        BY <3>1
      <4>2. QED
        BY <4>1, Removed
    <3> HIDE DEF others, n
    <3>4. \A i \in 1..(n - 1) :
            /\ (IF i < p THEN i ELSE i + 1) \in 1..n
            /\ (IF i < p THEN i ELSE i + 1) # p
            /\ others[i] = s[IF i < p THEN i ELSE i + 1]
      BY <3>1, <3>3
    <3>5. \A i, j \in 1..(n - 1) : (IF i < p THEN i ELSE i + 1) = (IF j < p THEN j ELSE j + 1) => i = j
      BY <3>1
    <3>6. \A i, j \in 1..n : s[i] = s[j] => i = j
      BY <3>1
    <3>7. \A i, j \in 1..(n - 1) : others[i] = others[j] => i = j
      BY <3>4, <3>5, <3>6
    <3>8. \A i \in 1..(n - 1) : others[i] # conv /\ \E j \in 1..n : others[i] = s[j]
      BY <3>1, <3>4, <3>6
    <3>9. QED
      BY <3>1, <3>2, <3>3, <3>7, <3>8
  <2>3. QED
    BY <2>1, <2>2
<1>2. B!Lately(s, conv) = IF Len(next) > HistorySize THEN SubSeq(next, 1, HistorySize) ELSE next
  BY DEF B!Lately
<1> HIDE DEF rest
<1>3. <<conv>> \in Seq(Rooms) /\ Len(<<conv>>) = 1 /\ <<conv>>[1] = conv
  OBVIOUS
<1>4. Len(rest) \in Nat /\ DOMAIN rest = 1..Len(rest)
  BY <1>1
<1>5. /\ next \in Seq(Rooms) /\ Len(next) = 1 + Len(rest)
      /\ \A i \in 1..(1 + Len(rest)) : next[i] = IF i <= 1 THEN <<conv>>[i] ELSE rest[i - 1]
  BY <1>1, <1>3, ConcatProperties
<1> HIDE DEF next
<1>6. DOMAIN next = 1..(1 + Len(rest)) /\ next[1] = conv /\ \A i \in 1..Len(rest) : next[i + 1] = rest[i]
  <2>1. DOMAIN next = 1..(1 + Len(rest))
    BY <1>5
  <2>2. next[1] = conv
    BY <1>3, <1>4, <1>5
  <2>3. ASSUME NEW i \in 1..Len(rest) PROVE next[i + 1] = rest[i]
    <3>1. i + 1 \in 1..(1 + Len(rest)) /\ ~(i + 1 <= 1) /\ (i + 1) - 1 = i
      BY <1>4
    <3>2. QED
      BY <1>5, <3>1
  <2>4. QED
    BY <2>1, <2>2, <2>3
<1>7. \A i \in DOMAIN next : i = 1 \/ \E h \in 1..Len(rest) : i = h + 1
  <2>1. ASSUME NEW i \in DOMAIN next, i # 1 PROVE i - 1 \in 1..Len(rest) /\ i = (i - 1) + 1
    BY <1>4, <1>6, <2>1
  <2>2. QED
    BY <2>1
<1>8. \A i \in DOMAIN next : next[i] = conv \/ \E j \in DOMAIN s : next[i] = s[j]
  <2>1. ASSUME NEW h \in 1..Len(rest) PROVE \E j \in DOMAIN s : next[h + 1] = s[j]
    <3>1. next[h + 1] = rest[h] /\ h \in DOMAIN rest
      BY <1>4, <1>6
    <3>2. QED
      BY <1>1, <3>1
  <2>2. QED
    BY <1>6, <1>7, <2>1
<1>9. \A i, j \in DOMAIN next : next[i] = next[j] => i = j
  <2>1. ASSUME NEW h \in 1..Len(rest), NEW e \in 1..Len(rest), next[h + 1] = next[e + 1]
        PROVE  h = e
    <3>1. next[h + 1] = rest[h] /\ next[e + 1] = rest[e] /\ h \in DOMAIN rest /\ e \in DOMAIN rest
      BY <1>4, <1>6
    <3>2. rest[h] = rest[e]
      BY <2>1, <3>1
    <3>3. QED
      BY <1>1, <3>1, <3>2
  <2>2. ASSUME NEW h \in 1..Len(rest) PROVE next[h + 1] # next[1]
    <3>1. next[h + 1] = rest[h] /\ h \in DOMAIN rest /\ next[1] = conv
      BY <1>4, <1>6
    <3>2. QED
      BY <1>1, <3>1
  <2>3. QED
    BY <1>7, <2>1, <2>2
<1>10. CASE Len(next) > HistorySize
  <2>1. HistorySize \in Nat /\ HistorySize <= Len(next) /\ Len(next) \in Nat /\ next \in Seq(Rooms)
    BY <1>4, <1>5, <1>10, PageConstants DEF B!BootAssumption
  <2>2. /\ SubSeq(next, 1, HistorySize) \in Seq(Rooms)
        /\ DOMAIN SubSeq(next, 1, HistorySize) = 1..HistorySize
        /\ \A i \in 1..HistorySize : SubSeq(next, 1, HistorySize)[i] = next[i]
    BY <2>1
  <2>3. \A i \in 1..HistorySize : i \in DOMAIN next
    BY <2>1
  <2>4. QED
    BY <1>2, <1>8, <1>9, <1>10, <2>2, <2>3
<1>11. CASE ~(Len(next) > HistorySize)
  BY <1>2, <1>5, <1>8, <1>9, <1>11
<1>12. QED
  BY <1>10, <1>11

\* Selecting a conversation that belongs to the workspace in the store, or none.
LEMMA SelectSafe ==
  ASSUME BootInv, NEW conv \in Rooms \cup {none}, B!Select(conv), foreign \subseteq foreign',
         ~confused /\ conv # none /\ store # none => HomeOf[conv] = store \/ <<store, conv>> \in foreign'
  PROVE  /\ selected' \in Rooms \cup {none} /\ last' \in [Workspaces -> Rooms \cup {none}]
         /\ ~confused => LastHome'
<1>1. /\ selected' = conv /\ last' = IF store = none THEN last ELSE [last EXCEPT ![store] = conv]
      /\ store \in Workspaces \cup {none} /\ last \in [Workspaces -> Rooms \cup {none}]
  BY DEF B!Select, BootInv, BootTypes
<1>2. CASE store = none
  BY <1>1, <1>2 DEF BootInv, Clear, LastHome, Belongs
<1>3. CASE store # none
  <2>1. store \in Workspaces /\ last' = [last EXCEPT ![store] = conv]
    BY <1>1, <1>3
  <2>2. ASSUME ~confused PROVE LastHome'
    <3>1. \A ws \in Workspaces : last[ws] # none => HomeOf[last[ws]] = ws \/ <<ws, last[ws]>> \in foreign'
      BY <2>2 DEF BootInv, Clear, LastHome, Belongs
    <3>2. ASSUME NEW ws \in Workspaces, last'[ws] # none
          PROVE  HomeOf[last'[ws]] = ws \/ <<ws, last'[ws]>> \in foreign'
      <4>1. CASE ws = store
        BY <1>1, <1>3, <2>1, <2>2, <3>2, <4>1
      <4>2. CASE ws # store
        BY <1>1, <2>1, <3>1, <3>2, <4>2
      <4>3. QED
        BY <4>1, <4>2
    <3>3. QED
      BY <3>2 DEF LastHome, Belongs
  <2>3. QED
    BY <1>1, <2>1, <2>2
<1>4. QED
  BY <1>2, <1>3

\* What the path shows changes within a workspace, or what is selected.
LEMMA ShowSafe ==
  ASSUME BootInv, NEW p \in B!Places,
         foreign \subseteq foreign', foreign' \subseteq Workspaces \X Rooms,
         ~confused /\ p \in Rooms => HomeOf[p] = route \/ <<route, p>> \in foreign',
         shown' = p, recent' = recent \/ (route # none /\ recent' = lately'[route]), newMessage' \in BOOLEAN,
         UNCHANGED <<route, ready, boots, store, active, lately, confused>>,
         posting' \in {none} \cup Posting,
         ~confused /\ posting' # none => HomeOf[posting'.to] = posting'.ws,
         searching' \in BOOLEAN, selected' \in Rooms \cup {none},
         last' \in [Workspaces -> Rooms \cup {none}], ~confused => LastHome'
  PROVE  BootInv'
<1>0. BootTypes /\ Histories /\ Boots
  BY DEF BootInv
<1>1. route \in Workspaces \cup {none} /\ lately' = lately
  BY <1>0 DEF BootTypes
<1>2. BootTypes'
  BY <1>0 DEF BootTypes
<1>3. Histories'
  BY <1>0, <1>1 DEF Histories
<1>4. Boots'
  BY <1>0 DEF Boots
<1>5. ASSUME ~confused PROVE Clear'
  <2>1. OneBoot' /\ LastHome' /\ LatelyHome'
    BY <1>5 DEF BootInv, Clear, OneBoot, LatelyHome
  <2>2. ShownHome'
    BY <1>5 DEF ShownHome, Belongs
  <2>3. RecentHome'
    BY <1>1, <1>5 DEF BootInv, Clear, LatelyHome, RecentHome
  <2>4. PostHome'
    BY <1>5 DEF PostHome
  <2>5. QED
    BY <2>1, <2>2, <2>3, <2>4 DEF Clear
<1>6. QED
  BY <1>2, <1>3, <1>4, <1>5 DEF BootInv

\* A new message that stays as it was, and what was opened elsewhere too.
LEMMA PostKept ==
  ASSUME BootInv, UNCHANGED posting
  PROVE  /\ posting' \in {none} \cup Posting
         /\ ~confused /\ posting' # none => HomeOf[posting'.to] = posting'.ws
  BY DEF BootInv, BootTypes, Clear, PostHome

LEMMA ForeignKept ==
  ASSUME BootInv, UNCHANGED foreign
  PROVE  foreign \subseteq foreign' /\ foreign' \subseteq Workspaces \X Rooms
  BY DEF BootInv, BootTypes

LEMMA ShowMeans ==
  ASSUME BootInv, NEW p, B!Show(p), UNCHANGED <<route, lately>>
  PROVE  shown' = p /\ (recent' = recent \/ recent' = lately'[route]) /\ newMessage' \in BOOLEAN
<1>1. newMessage \in BOOLEAN
  BY DEF BootInv, BootTypes
<1>2. CASE p = shown
  BY <1>1, <1>2 DEF B!Show
<1>3. CASE p # shown
  BY <1>3 DEF B!Show
<1>4. QED
  BY <1>2, <1>3

LEMMA EnterSafe ==
  ASSUME BootInv, NEW ws \in Workspaces, NEW p \in Rooms \cup {"home"},
         foreign \subseteq foreign', foreign' \subseteq Workspaces \X Rooms,
         ~confused /\ p \in Rooms => HomeOf[p] = ws \/ <<ws, p>> \in foreign', B!Enter(ws, p),
         posting' \in {none} \cup Posting,
         ~confused /\ posting' # none => HomeOf[posting'.to] = posting'.ws
  PROVE  BootInv'
<1> USE PageConstants DEF B!BootAssumption
<1>0. BootTypes /\ Histories /\ Boots
  BY DEF BootInv
<1>1. /\ route' = ws /\ shown' = p /\ ready' = FALSE /\ newMessage' = FALSE
      /\ boots' = {[o EXCEPT !.mine = FALSE] : o \in boots} \cup {[ws |-> ws, mine |-> TRUE]}
      /\ active' = ws /\ recent' = lately[ws]
      /\ UNCHANGED <<store, selected, last, lately, searching>>
  BY DEF B!Enter
<1>2. confused' = (confused \/ boots # {})
  BY DEF B!Enter
<1>3. BootTypes'
  <2>1. confused' \in BOOLEAN
    BY <1>2
  <2>2. QED
    BY <1>0, <1>1, <2>1 DEF BootTypes, B!Places
<1>4. Histories'
  BY <1>0, <1>1 DEF Histories
<1>5. Boots'
  <2>1. \A o \in boots : [o EXCEPT !.mine = FALSE] \in [ws: Workspaces, mine: BOOLEAN]
                        /\ [o EXCEPT !.mine = FALSE].mine = FALSE
    BY <1>0 DEF Boots
  <2>2. [ws |-> ws, mine |-> TRUE] \in [ws: Workspaces, mine: BOOLEAN] /\ [ws |-> ws, mine |-> TRUE].ws = ws
    OBVIOUS
  <2>3. \A o \in boots' : o \in [ws: Workspaces, mine: BOOLEAN] /\ (o.mine => o.ws = ws)
    BY <1>1, <2>1, <2>2
  <2>4. QED
    BY <1>1, <2>3 DEF Boots
<1>6. ASSUME ~confused' PROVE Clear'
  <2>1. ~confused /\ boots = {} /\ Clear
    BY <1>2, <1>6 DEF BootInv
  <2>2. boots' = {[ws |-> ws, mine |-> TRUE]}
    BY <1>1, <2>1
  <2>3. OneBoot'
    <3>1. \A o \in boots' : o = [ws |-> ws, mine |-> TRUE] /\ o.mine
      BY <2>2
    <3>2. QED
      BY <1>1, <3>1 DEF OneBoot
  <2>4. ShownHome' /\ LastHome' /\ LatelyHome' /\ RecentHome' /\ PostHome'
    BY <1>1, <2>1 DEF Clear, ShownHome, LastHome, LatelyHome, RecentHome, PostHome, Belongs
  <2>5. QED
    BY <2>3, <2>4 DEF Clear
<1>7. QED
  BY <1>3, <1>4, <1>5, <1>6 DEF BootInv

\* The tab is loaded anew: nothing runs but the boot of where it is.
LEMMA AnewSafe ==
  ASSUME BootInv, NEW ws \in Workspaces \cup {none}, NEW p \in B!Places, B!Load(ws, p),
         ws = none => p = "page"
  PROVE  BootInv'
<1> USE PageConstants DEF B!BootAssumption
<1>0. BootTypes /\ Histories /\ Boots
  BY DEF BootInv
<1>1. /\ route' = ws /\ shown' = p /\ ready' = FALSE /\ newMessage' = FALSE
      /\ boots' = IF ws = none THEN {} ELSE {[ws |-> ws, mine |-> TRUE]}
      /\ store' = none /\ selected' = none /\ searching' = FALSE /\ posting' = none
      /\ active' = IF ws = none THEN active ELSE ws
      /\ recent' = IF ws = none THEN <<>> ELSE lately[ws]
      /\ foreign' = foreign \cup B!Stray(ws, p) /\ UNCHANGED <<last, lately, confused>>
  BY DEF B!Load
<1>2. /\ foreign \subseteq foreign' /\ foreign' \subseteq Workspaces \X Rooms
      /\ p \in Rooms /\ ws # none => HomeOf[p] = ws \/ <<ws, p>> \in foreign'
  BY <1>1, StrayMeans
<1>3. active' \in Workspaces \cup {none} /\ recent' \in Seq(Rooms)
  BY <1>0, <1>1 DEF BootTypes, Histories
<1>4. BootTypes'
  BY <1>0, <1>1, <1>2, <1>3 DEF BootTypes
<1>5. Histories'
  BY <1>0, <1>1, <1>3 DEF Histories
<1>6. \A o \in boots' : ws # none /\ o = [ws |-> ws, mine |-> TRUE] /\ o.ws = ws /\ o.mine
  BY <1>1
<1>7. Boots'
  <2>1. boots' \subseteq [ws: Workspaces, mine: BOOLEAN]
    <3>1. ws # none => [ws |-> ws, mine |-> TRUE] \in [ws: Workspaces, mine: BOOLEAN]
      OBVIOUS
    <3>2. QED
      BY <1>6, <3>1
  <2>2. \A o \in boots' : o.ws = route'
    BY <1>1, <1>6
  <2>3. QED
    BY <1>1, <2>1, <2>2 DEF Boots
<1>8. ASSUME ~confused' PROVE Clear'
  <2>1. Clear
    BY <1>1, <1>8 DEF BootInv
  <2>2. OneBoot'
    <3>1. \A o \in boots' : o.mine
      BY <1>6
    <3>2. QED
      BY <1>1, <1>6, <3>1 DEF OneBoot
  <2>3. ShownHome' /\ PostHome'
    <3>1. shown' \in Rooms => ws # none
      BY <1>1
    <3>2. QED
      BY <1>1, <1>2, <3>1 DEF ShownHome, PostHome, Belongs
  <2>4. LastHome'
    BY <1>1, <1>2, <2>1 DEF Clear, LastHome, Belongs
  <2>5. LatelyHome' /\ RecentHome'
    BY <1>1, <2>1 DEF Clear, LatelyHome, RecentHome
  <2>6. QED
    BY <2>2, <2>3, <2>4, <2>5 DEF Clear
<1>9. QED
  BY <1>4, <1>5, <1>7, <1>8 DEF BootInv

LEMMA LeaveSafe == ASSUME BootInv, B!LeaveAll PROVE BootInv'
<1> USE PageConstants DEF B!BootAssumption
<1>0. BootTypes /\ Histories /\ Boots
  BY DEF BootInv
<1>1. /\ route' = none /\ shown' = "page" /\ ready' = FALSE /\ newMessage' = FALSE
      /\ boots' = {[o EXCEPT !.mine = FALSE] : o \in boots}
      /\ UNCHANGED <<store, selected, active, last, lately, recent, searching, posting, confused, foreign>>
  BY DEF B!LeaveAll
<1>2. BootTypes'
  BY <1>0, <1>1 DEF BootTypes, B!Places
<1>3. Histories'
  BY <1>0, <1>1 DEF Histories
<1>4. \A o \in boots : [o EXCEPT !.mine = FALSE] \in [ws: Workspaces, mine: BOOLEAN]
                        /\ [o EXCEPT !.mine = FALSE].mine = FALSE
  BY <1>0 DEF Boots
<1>5. Boots'
  BY <1>1, <1>4 DEF Boots
<1>6. ASSUME ~confused' PROVE Clear'
  <2>1. Clear
    BY <1>1, <1>6 DEF BootInv
  <2>2. OneBoot'
    BY <1>1, <1>4, <2>1 DEF Clear, OneBoot
  <2>3. ShownHome' /\ LastHome' /\ LatelyHome' /\ RecentHome' /\ PostHome'
    BY <1>1, <2>1 DEF Clear, ShownHome, LastHome, LatelyHome, RecentHome, PostHome, Belongs
  <2>4. QED
    BY <2>2, <2>3 DEF Clear
<1>7. QED
  BY <1>2, <1>3, <1>5, <1>6 DEF BootInv

LEMMA BootEndSafe ==
  ASSUME BootInv, NEW o \in boots, B!BootAnswered(o) \/ \E unknown \in BOOLEAN : B!BootFailed(o, unknown)
  PROVE  BootInv'
<1>0. BootTypes /\ Histories /\ Boots /\ o.ws \in Workspaces /\ o.mine \in BOOLEAN
  BY DEF BootInv, Boots
<1>1. /\ boots' = boots \ {o} /\ ready' = (ready \/ o.mine)
      /\ UNCHANGED <<route, shown, active, last, lately, recent, newMessage, searching, posting, foreign>>
  BY DEF B!BootAnswered, B!BootFailed
<1>2. store' \in Workspaces \cup {none} /\ selected' \in Rooms \cup {none}
  BY <1>0 DEF B!BootAnswered, B!BootFailed, BootTypes
<1>3. confused' \in BOOLEAN
  BY <1>0 DEF B!BootAnswered, B!BootFailed, BootTypes
<1>4. BootTypes'
  <2>1. ready' \in BOOLEAN
    BY <1>1
  <2>2. QED
    BY <1>0, <1>1, <1>2, <1>3, <2>1 DEF BootTypes
<1>5. Histories'
  BY <1>0, <1>1 DEF Histories
<1>6. Boots'
  <2>1. o.mine => route # none
    BY <1>0, PageConstants DEF Boots, B!BootAssumption
  <2>2. QED
    BY <1>0, <1>1, <2>1 DEF Boots
<1>7. ASSUME ~confused' PROVE Clear'
  <2>1. B!BootAnswered(o)
    BY <1>7 DEF B!BootFailed
  <2>2. store' = o.ws /\ Clear
    BY <1>7, <2>1 DEF B!BootAnswered, BootInv
  <2>3. ready' => store' = route'
    BY <1>0, <1>1, <2>2 DEF Boots, Clear, OneBoot
  <2>4. OneBoot'
    BY <1>1, <2>2, <2>3 DEF Clear, OneBoot
  <2>5. ShownHome' /\ LastHome' /\ LatelyHome' /\ RecentHome' /\ PostHome'
    BY <1>1, <2>2 DEF Clear, ShownHome, LastHome, LatelyHome, RecentHome, PostHome, Belongs
  <2>6. QED
    BY <2>4, <2>5 DEF Clear
<1>8. QED
  BY <1>4, <1>5, <1>6, <1>7 DEF BootInv

LEMMA OpenSafe == ASSUME BootInv, NEW conv \in Rooms, B!OpenConversation(conv) PROVE BootInv'
<1> USE PageConstants DEF B!BootAssumption
<1>0. BootTypes /\ Histories /\ Boots /\ route \in Workspaces
  BY DEF BootInv, Boots, BootTypes, B!OpenConversation
<1>1. /\ ready /\ HomeOf[conv] = store /\ B!Select(conv)
      /\ lately' = [lately EXCEPT ![route] = B!Lately(@, conv)]
      /\ shown' = conv /\ newMessage' = FALSE
      /\ recent' = IF conv = shown THEN recent ELSE lately'[route]
      /\ UNCHANGED <<route, ready, boots, store, active, searching, posting, confused, foreign>>
  BY DEF B!OpenConversation
<1>2. /\ selected' \in Rooms \cup {none} /\ last' \in [Workspaces -> Rooms \cup {none}]
      /\ ~confused => LastHome'
  BY <1>1, SelectSafe, ForeignKept
<1>3. /\ B!Lately(lately[route], conv) \in Seq(Rooms)
      /\ \A i, j \in DOMAIN B!Lately(lately[route], conv) :
           B!Lately(lately[route], conv)[i] = B!Lately(lately[route], conv)[j] => i = j
      /\ \A i \in DOMAIN B!Lately(lately[route], conv) :
           \/ B!Lately(lately[route], conv)[i] = conv
           \/ \E j \in DOMAIN lately[route] : B!Lately(lately[route], conv)[i] = lately[route][j]
  <2>1. /\ lately[route] \in Seq(Rooms)
        /\ \A i, j \in DOMAIN lately[route] : lately[route][i] = lately[route][j] => i = j
    BY <1>0 DEF Histories
  <2>2. QED
    BY <2>1, LatelyOnce
<1>4. /\ lately'[route] = B!Lately(lately[route], conv)
      /\ \A ws \in Workspaces \ {route} : lately'[ws] = lately[ws]
      /\ lately' \in [Workspaces -> Seq(Rooms)]
  BY <1>0, <1>1, <1>3 DEF Histories
<1>5. BootTypes'
  BY <1>0, <1>1, <1>2 DEF BootTypes, B!Places
<1>6. Histories'
  <2>1. ASSUME NEW ws \in Workspaces
        PROVE  \A i, j \in DOMAIN lately'[ws] : lately'[ws][i] = lately'[ws][j] => i = j
    <3>1. CASE ws = route
      BY <1>3, <1>4, <3>1
    <3>2. CASE ws # route
      BY <1>0, <1>4, <3>2 DEF Histories
    <3>3. QED
      BY <3>1, <3>2
  <2>2. recent' \in Seq(Rooms)
    BY <1>0, <1>1, <1>4 DEF Histories
  <2>3. QED
    BY <1>4, <2>1, <2>2 DEF Histories
<1>7. Boots'
  BY <1>0, <1>1 DEF Boots
<1>8. ASSUME ~confused PROVE Clear'
  <2>1. Clear /\ HomeOf[conv] = route
    BY <1>1, <1>8 DEF BootInv, Clear, OneBoot
  <2>2. OneBoot' /\ ShownHome' /\ LastHome' /\ PostHome'
    BY <1>1, <1>2, <1>8, <2>1 DEF Clear, OneBoot, ShownHome, PostHome, Belongs
  <2>3. LatelyHome'
    <3>1. ASSUME NEW ws \in Workspaces, NEW i \in DOMAIN lately'[ws] PROVE HomeOf[lately'[ws][i]] = ws
      <4>1. CASE ws = route
        <5>1. lately'[ws] = B!Lately(lately[route], conv)
          BY <1>4, <4>1
        <5>2. lately'[ws][i] = conv \/ \E j \in DOMAIN lately[route] : lately'[ws][i] = lately[route][j]
          BY <1>3, <5>1
        <5>3. \A j \in DOMAIN lately[route] : HomeOf[lately[route][j]] = route
          BY <1>0, <2>1 DEF Clear, LatelyHome
        <5>4. QED
          BY <2>1, <4>1, <5>2, <5>3
      <4>2. CASE ws # route
        BY <1>4, <2>1, <4>2 DEF Clear, LatelyHome
      <4>3. QED
        BY <4>1, <4>2
    <3>2. QED
      BY <3>1 DEF LatelyHome
  <2>4. RecentHome'
    <3>1. \A i \in DOMAIN recent : HomeOf[recent[i]] = route
      BY <1>0, <2>1, PageConstants DEF Clear, RecentHome
    <3>2. \A i \in DOMAIN lately'[route] : HomeOf[lately'[route][i]] = route
      BY <1>0, <2>3 DEF LatelyHome
    <3>3. recent' = recent \/ recent' = lately'[route]
      BY <1>1
    <3>4. QED
      BY <1>1, <3>1, <3>2, <3>3 DEF RecentHome
  <2>5. QED
    BY <2>2, <2>3, <2>4 DEF Clear
<1>9. QED
  BY <1>1, <1>5, <1>6, <1>7, <1>8 DEF BootInv

LEMMA FollowSafe == ASSUME BootInv, B!FollowRoute PROVE BootInv'
<1>1. /\ ready /\ shown \in Rooms /\ B!Select(shown)
      /\ UNCHANGED <<route, shown, ready, boots, store, active, lately, recent, newMessage,
                     searching, posting, confused, foreign>>
  BY DEF B!FollowRoute
<1>2. shown \in B!Places /\ newMessage \in BOOLEAN /\ searching \in BOOLEAN
  BY <1>1 DEF BootInv, BootTypes
<1>3. ~confused => store = route /\ (HomeOf[shown] = route \/ <<route, shown>> \in foreign)
  BY <1>1 DEF BootInv, Clear, OneBoot, ShownHome, Belongs
<1>4. /\ selected' \in Rooms \cup {none} /\ last' \in [Workspaces -> Rooms \cup {none}]
      /\ ~confused => LastHome'
  BY <1>1, <1>3, SelectSafe
<1>5. QED
  BY <1>1, <1>2, <1>3, <1>4, ShowSafe, PostKept, ForeignKept

LEMMA ReselectSafe == ASSUME BootInv, B!Reselect PROVE BootInv'
<1>1. /\ shown \in Rooms /\ B!Select(shown) /\ foreign' = foreign \cup B!Stray(store, shown)
      /\ UNCHANGED <<route, shown, ready, boots, store, active, lately, recent, newMessage,
                     searching, posting, confused>>
  BY DEF B!Reselect
<1>2. /\ shown \in B!Places /\ newMessage \in BOOLEAN /\ searching \in BOOLEAN
      /\ store \in Workspaces \cup {none}
  BY <1>1 DEF BootInv, BootTypes
<1>3. /\ foreign \subseteq foreign' /\ foreign' \subseteq Workspaces \X Rooms
      /\ store # none => HomeOf[shown] = store \/ <<store, shown>> \in foreign'
  BY <1>1, <1>2, StrayMeans
<1>4. /\ selected' \in Rooms \cup {none} /\ last' \in [Workspaces -> Rooms \cup {none}]
      /\ ~confused => LastHome'
  BY <1>1, <1>3, SelectSafe
<1>5. ~confused => HomeOf[shown] = route \/ <<route, shown>> \in foreign'
  BY <1>1, <1>3 DEF BootInv, Clear, ShownHome, Belongs
<1>6. QED
  BY <1>1, <1>2, <1>3, <1>4, <1>5, ShowSafe, PostKept

LEMMA CloseSafe == ASSUME BootInv, B!ClosePanel PROVE BootInv'
<1>1. /\ ready /\ B!Select(none) /\ B!Show("home")
      /\ UNCHANGED <<lately, route, ready, boots, store, active, searching, posting, confused, foreign>>
  BY DEF B!ClosePanel
<1>2. route # none /\ "home" \in B!Places /\ searching \in BOOLEAN /\ "home" \notin Rooms
  BY <1>1, PageConstants DEF BootInv, Boots, BootTypes, B!Places, B!BootAssumption
<1>3. /\ selected' \in Rooms \cup {none} /\ last' \in [Workspaces -> Rooms \cup {none}]
      /\ ~confused => LastHome'
  BY <1>1, SelectSafe
<1>4. shown' = "home" /\ (recent' = recent \/ recent' = lately'[route]) /\ newMessage' \in BOOLEAN
  BY <1>1, ShowMeans
<1>5. QED
  BY <1>1, <1>2, <1>3, <1>4, ShowSafe, PostKept, ForeignKept

\* The new message: its conversation is selected wherever the user is, and shown
\* in the workspace it was written in.
LEMMA PostingSafe ==
  ASSUME BootInv, (\E conv \in Rooms : B!Post(conv)) \/ B!PostUploaded \/ B!PostFailed PROVE BootInv'
<1> USE PageConstants DEF B!BootAssumption
<1>0. /\ shown \in B!Places /\ newMessage \in BOOLEAN /\ searching \in BOOLEAN
      /\ store \in Workspaces \cup {none} /\ posting \in {none} \cup Posting
      /\ selected \in Rooms \cup {none} /\ last \in [Workspaces -> Rooms \cup {none}]
  BY DEF BootInv, BootTypes
<1>1. ~confused /\ shown \in Rooms => HomeOf[shown] = route \/ <<route, shown>> \in foreign
  BY DEF BootInv, Clear, ShownHome, Belongs
<1>2. ASSUME UNCHANGED <<B!tab, lately, searching, confused, foreign>>,
             posting' \in {none} \cup Posting,
             ~confused /\ posting' # none => HomeOf[posting'.to] = posting'.ws
      PROVE  BootInv'
  <2>1. UNCHANGED <<route, shown, ready, boots, store, selected, active, last, lately, recent,
                    newMessage, searching, confused, foreign>>
    BY <1>2 DEF B!tab
  <2>2. ~confused => LastHome'
    BY <2>1 DEF BootInv, Clear, LastHome, Belongs
  <2>3. /\ selected' \in Rooms \cup {none} /\ last' \in [Workspaces -> Rooms \cup {none}]
        /\ newMessage' \in BOOLEAN /\ searching' \in BOOLEAN
    BY <1>0, <2>1
  <2>4. foreign \subseteq foreign' /\ foreign' \subseteq Workspaces \X Rooms
    BY <2>1, ForeignKept
  <2>5. ~confused /\ shown \in Rooms => HomeOf[shown] = route \/ <<route, shown>> \in foreign'
    BY <1>1, <2>4
  <2>6. QED
    BY <1>0, <1>2, <2>1, <2>2, <2>3, <2>4, <2>5, ShowSafe
<1>3. ASSUME NEW conv \in Rooms, B!Post(conv) PROVE BootInv'
  <2>1. /\ ready /\ HomeOf[conv] = store /\ posting' = [ws |-> route, to |-> conv, chosen |-> FALSE]
        /\ UNCHANGED <<B!tab, lately, searching, confused, foreign>>
    BY <1>3 DEF B!Post
  <2>2. route \in Workspaces /\ (~confused => store = route)
    BY <2>1 DEF BootInv, BootTypes, Boots, Clear, OneBoot
  <2>3. posting' \in Posting /\ posting'.to = conv /\ posting'.ws = route
    BY <2>1, <2>2 DEF Posting
  <2>4. QED
    BY <1>2, <2>1, <2>2, <2>3
<1>4. CASE B!PostUploaded
  <2>1. /\ posting # none /\ posting' = [posting EXCEPT !.chosen = TRUE]
        /\ B!Select(posting.to) /\ foreign' = foreign \cup B!Stray(store, posting.to)
        /\ UNCHANGED <<route, shown, ready, boots, store, active, lately, recent, newMessage,
                       searching, confused>>
    BY <1>4 DEF B!PostUploaded
  <2>2. posting \in Posting /\ posting.to \in Rooms /\ posting.to \in B!Places
    BY <1>0, <2>1 DEF Posting, B!Places
  <2>3. posting' \in Posting /\ posting'.to = posting.to /\ posting'.ws = posting.ws
    BY <2>1, <2>2 DEF Posting
  <2>4. /\ foreign \subseteq foreign' /\ foreign' \subseteq Workspaces \X Rooms
        /\ store # none => HomeOf[posting.to] = store \/ <<store, posting.to>> \in foreign'
    BY <1>0, <2>1, <2>2, StrayMeans
  <2>5. /\ selected' \in Rooms \cup {none} /\ last' \in [Workspaces -> Rooms \cup {none}]
        /\ ~confused => LastHome'
    BY <2>1, <2>2, <2>4, SelectSafe
  <2>6. ~confused => HomeOf[posting'.to] = posting'.ws
    BY <2>1, <2>3 DEF BootInv, Clear, PostHome
  <2>7. ~confused /\ shown \in Rooms => HomeOf[shown] = route \/ <<route, shown>> \in foreign'
    BY <1>1, <2>4
  <2>8. newMessage' \in BOOLEAN /\ searching' \in BOOLEAN /\ posting' \in {none} \cup Posting
    BY <1>0, <2>1, <2>3
  <2>9. QED
    BY <1>0, <2>1, <2>4, <2>5, <2>6, <2>7, <2>8, ShowSafe
<1>5. CASE B!PostFailed
  BY <1>2, <1>5 DEF B!PostFailed
<1>6. QED
  BY <1>3, <1>4, <1>5

\* Navigation that selects nothing.
LEMMA WithinSafe ==
  ASSUME BootInv, route # none, NEW p \in B!Places,
         foreign \subseteq foreign', foreign' \subseteq Workspaces \X Rooms,
         ~confused /\ p \in Rooms => HomeOf[p] = route \/ <<route, p>> \in foreign',
         B!Within, UNCHANGED lately, shown' = p, recent' = recent \/ recent' = lately'[route],
         posting' \in {none} \cup Posting,
         ~confused /\ posting' # none => HomeOf[posting'.to] = posting'.ws,
         newMessage' \in BOOLEAN, searching' \in BOOLEAN
  PROVE  BootInv'
<1>1. UNCHANGED <<route, ready, boots, store, selected, active, last, lately, confused>>
  BY DEF B!Within
<1>2. selected' \in Rooms \cup {none} /\ last' \in [Workspaces -> Rooms \cup {none}]
  BY <1>1 DEF BootInv, BootTypes
<1>3. ~confused => LastHome'
  BY <1>1 DEF BootInv, Clear, LastHome, Belongs
<1>4. QED
  BY <1>1, <1>2, <1>3, ShowSafe

LEMMA PostSentSafe == ASSUME BootInv, B!PostSent PROVE BootInv'
<1>1. posting # none /\ posting' = none /\ UNCHANGED foreign
  BY DEF B!PostSent
<1>2. posting \in Posting /\ posting.to \in Rooms /\ posting.ws \in Workspaces /\ posting.to \in B!Places
  BY <1>1 DEF BootInv, BootTypes, Posting, B!Places
<1>3. ~confused => HomeOf[posting.to] = posting.ws
  BY <1>1 DEF BootInv, Clear, PostHome
<1>4. /\ foreign \subseteq foreign' /\ foreign' \subseteq Workspaces \X Rooms
  BY <1>1, ForeignKept
<1>5. CASE posting.ws # route
  <2>1. B!Enter(posting.ws, posting.to)
    BY <1>5 DEF B!PostSent
  <2>2. QED
    BY <1>1, <1>2, <1>3, <1>4, <2>1, EnterSafe
<1>6. CASE posting.ws = route
  <2>1. /\ B!Within /\ shown' = posting.to /\ newMessage' = FALSE /\ UNCHANGED searching
        /\ recent' = IF posting.to = shown THEN recent ELSE lately[route]
    BY <1>6 DEF B!PostSent
  <2>2. lately' = lately /\ route # none /\ searching' \in BOOLEAN /\ newMessage' \in BOOLEAN
    BY <1>2, <1>6, <2>1, PageConstants DEF B!Within, B!BootAssumption, BootInv, BootTypes
  <2>3. recent' = recent \/ recent' = lately'[route]
    BY <2>1, <2>2
  <2>4. QED
    BY <1>1, <1>2, <1>3, <1>4, <1>6, <2>1, <2>2, <2>3, WithinSafe
<1>7. QED
  BY <1>5, <1>6

LEMMA PlacesSafe ==
  ASSUME BootInv, NEW p \in B!Places, B!Shortcut(p) \/ B!Visit(p) PROVE BootInv'
<1> USE PageConstants DEF B!BootAssumption
<1>0. searching \in BOOLEAN
  BY DEF BootInv, BootTypes
<1>1. CASE B!Shortcut(p)
  <2>1. /\ route # none /\ p \notin Rooms /\ UNCHANGED <<lately, searching, posting, foreign>> /\ B!Within
        /\ shown' = p /\ newMessage' = FALSE /\ recent' = IF p = shown THEN recent ELSE lately[route]
    BY <1>1 DEF B!Shortcut
  <2>2. recent' = recent \/ recent' = lately'[route]
    <3>1. lately' = lately
      BY <2>1
    <3>2. QED
      BY <2>1, <3>1
  <2>3. newMessage' \in BOOLEAN /\ searching' \in BOOLEAN
    BY <1>0, <2>1
  <2>4. QED
    BY <2>1, <2>2, <2>3, WithinSafe, PostKept, ForeignKept
<1>2. CASE B!Visit(p)
  <2>1. /\ route # none /\ B!Within /\ B!Show(p) /\ UNCHANGED <<searching, posting, foreign>>
        /\ \/ p \in {"home", "page"} \/ \E i \in DOMAIN recent : p = recent[i]
           \/ HomeOf[p] = route \/ <<route, p>> \in foreign
           \/ ready /\ HomeOf[p] = store
    BY <1>2 DEF B!Visit, B!Proper
  <2>2. UNCHANGED lately /\ UNCHANGED route
    BY <2>1 DEF B!Within
  <2>3. ~confused /\ p \in Rooms => HomeOf[p] = route \/ <<route, p>> \in foreign
    BY <2>1 DEF BootInv, Clear, OneBoot, RecentHome
  <2>4. shown' = p /\ (recent' = recent \/ recent' = lately'[route]) /\ newMessage' \in BOOLEAN
    BY <2>1, <2>2, ShowMeans
  <2>5. QED
    BY <1>0, <2>1, <2>2, <2>3, <2>4, WithinSafe, PostKept, ForeignKept
<1>3. QED
  BY <1>1, <1>2

LEMMA LinkSafe ==
  ASSUME BootInv, NEW ws \in Workspaces, NEW conv \in Rooms, B!FollowLink(ws, conv) PROVE BootInv'
<1>1. route # none /\ foreign' = foreign \cup B!Stray(ws, conv) /\ UNCHANGED posting
  BY DEF B!FollowLink
<1>2. conv \in B!Places /\ ws # none
  BY PageConstants DEF B!Places, B!BootAssumption
<1>3. /\ foreign \subseteq foreign' /\ foreign' \subseteq Workspaces \X Rooms
      /\ HomeOf[conv] = ws \/ <<ws, conv>> \in foreign'
  BY <1>1, <1>2, StrayMeans
<1>4. CASE ws = route
  <2>1. B!Within /\ B!Show(conv) /\ UNCHANGED searching
    BY <1>4 DEF B!FollowLink
  <2>2. UNCHANGED lately /\ UNCHANGED route
    BY <2>1 DEF B!Within
  <2>3. shown' = conv /\ (recent' = recent \/ recent' = lately'[route]) /\ newMessage' \in BOOLEAN
    BY <1>2, <2>1, <2>2, ShowMeans
  <2>4. searching' \in BOOLEAN
    BY <2>1 DEF BootInv, BootTypes
  <2>5. QED
    BY <1>1, <1>2, <1>3, <1>4, <2>1, <2>2, <2>3, <2>4, WithinSafe, PostKept
<1>5. CASE ws # route
  <2>1. B!Enter(ws, conv)
    BY <1>5 DEF B!FollowLink
  <2>2. QED
    BY <1>1, <1>3, <2>1, EnterSafe, PostKept
<1>6. QED
  BY <1>4, <1>5

LEMMA HomeSafe == ASSUME BootInv, B!Home PROVE BootInv'
<1>1. /\ route # none /\ active \in Workspaces /\ last[active] \in Rooms /\ UNCHANGED <<posting, foreign>>
      /\ ~confused => HomeOf[last[active]] = active \/ <<active, last[active]>> \in foreign
  BY DEF B!Home, BootInv, BootTypes, Clear, LastHome, Belongs
<1>2. CASE active = route
  <2>1. B!Within /\ B!Show(last[active]) /\ UNCHANGED searching
    BY <1>2 DEF B!Home
  <2>2. UNCHANGED lately /\ UNCHANGED route
    BY <2>1 DEF B!Within
  <2>3. /\ shown' = last[active] /\ (recent' = recent \/ recent' = lately'[route])
        /\ newMessage' \in BOOLEAN
    BY <2>1, <2>2, ShowMeans
  <2>4. searching' \in BOOLEAN /\ last[active] \in B!Places
    BY <1>1, <2>1 DEF BootInv, BootTypes, B!Places
  <2>5. QED
    BY <1>1, <1>2, <2>1, <2>2, <2>3, <2>4, WithinSafe, PostKept, ForeignKept
<1>3. CASE active # route
  <2>1. B!Enter(active, last[active])
    BY <1>3 DEF B!Home
  <2>2. QED
    BY <1>1, <2>1, EnterSafe, PostKept, ForeignKept
<1>4. QED
  BY <1>2, <1>3

LEMMA SearchSafe == ASSUME BootInv, B!SearchNavigates PROVE BootInv'
<1>1. searching' = FALSE /\ B!Within /\ UNCHANGED <<posting, foreign>>
  BY DEF B!SearchNavigates
<1>2. CASE route # none
  <2>1. UNCHANGED lately /\ B!Show("page") /\ UNCHANGED route
    BY <1>1, <1>2 DEF B!SearchNavigates, B!Within
  <2>2. shown' = "page" /\ (recent' = recent \/ recent' = lately'[route]) /\ newMessage' \in BOOLEAN
    BY <2>1, ShowMeans
  <2>3. "page" \in B!Places /\ "page" \notin Rooms /\ searching' \in BOOLEAN
    BY <1>1, PageConstants DEF B!Places, B!BootAssumption
  <2>4. QED
    BY <1>1, <1>2, <2>1, <2>2, <2>3, WithinSafe, PostKept, ForeignKept
<1>3. CASE route = none
  <2>1. UNCHANGED <<route, shown, ready, boots, store, selected, active, last, lately, recent,
                    newMessage, posting, confused, foreign>>
    BY <1>1, <1>3 DEF B!SearchNavigates, B!Within
  <2>2. BootTypes' /\ Histories' /\ Boots'
    BY <1>1, <2>1 DEF BootInv, BootTypes, Histories, Boots
  <2>3. ~confused' => Clear'
    BY <2>1 DEF BootInv, Clear, OneBoot, ShownHome, LastHome, LatelyHome, RecentHome, PostHome, Belongs
  <2>4. QED
    BY <2>2, <2>3 DEF BootInv
<1>4. QED
  BY <1>2, <1>3

\* What moves neither the tab nor its boots.
LEMMA AsideSafe ==
  ASSUME BootInv, newMessage' \in BOOLEAN, searching' \in BOOLEAN, active' \in Workspaces \cup {none},
         UNCHANGED <<route, shown, ready, boots, store, selected, last, lately, recent, posting,
                     confused, foreign>>
  PROVE  BootInv'
<1>1. BootTypes' /\ Histories' /\ Boots'
  BY DEF BootInv, BootTypes, Histories, Boots
<1>2. ~confused' => Clear'
  BY DEF BootInv, Clear, OneBoot, ShownHome, LastHome, LatelyHome, RecentHome, PostHome, Belongs
<1>3. QED
  BY <1>1, <1>2 DEF BootInv

LEMMA BootStep == ASSUME BootInv, [B!Next]_bootVars PROVE BootInv'
<1> USE DEF B!tab
<1>0. newMessage \in BOOLEAN /\ searching \in BOOLEAN /\ active \in Workspaces \cup {none}
  BY DEF BootInv, BootTypes
<1>1. ASSUME NEW ws \in Workspaces, NEW p \in B!Places, B!EnterProperly(ws, p) \/ B!Load(ws, p)
      PROVE  BootInv'
  <2>1. CASE B!EnterProperly(ws, p)
    <3>1. /\ p \in Rooms \cup {"home"} /\ (p \in Rooms => HomeOf[p] = ws \/ <<ws, p>> \in foreign)
          /\ B!Enter(ws, p) /\ UNCHANGED <<posting, foreign>>
      BY <2>1, PageConstants DEF B!EnterProperly, B!Proper, B!BootAssumption
    <3>2. QED
      BY <3>1, EnterSafe, PostKept, ForeignKept
  <2>2. CASE B!Load(ws, p)
    BY <2>2, AnewSafe, PageConstants DEF B!BootAssumption
  <2>3. QED
    BY <1>1, <2>1, <2>2
<1>2. CASE B!LeaveAll \/ B!HomeNowhere
  BY <1>2, LeaveSafe DEF B!HomeNowhere
<1>3. CASE B!Home
  BY <1>3, HomeSafe
<1>4. CASE B!ClosePanel \/ B!FollowRoute \/ B!Reselect
  BY <1>4, CloseSafe, FollowSafe, ReselectSafe
<1>5. ASSUME NEW o \in boots,
             B!BootAnswered(o) \/ \E unknown \in BOOLEAN : B!BootFailed(o, unknown)
      PROVE  BootInv'
  BY <1>5, BootEndSafe
<1>6. ASSUME NEW conv \in Rooms, B!OpenConversation(conv) PROVE BootInv'
  BY <1>6, OpenSafe
<1>7. ASSUME NEW p \in B!Places, B!Shortcut(p) \/ B!Visit(p) PROVE BootInv'
  BY <1>7, PlacesSafe
<1>8. CASE B!TypeSearch
  BY <1>0, <1>8, AsideSafe DEF B!TypeSearch
<1>9. CASE B!SearchNavigates
  BY <1>9, SearchSafe
<1>10. CASE B!OpenNewMessage \/ B!CloseNewMessage
  <2>1. newMessage' \in BOOLEAN
    BY <1>10 DEF B!OpenNewMessage, B!CloseNewMessage
  <2>2. QED
    BY <1>0, <1>10, <2>1, AsideSafe DEF B!OpenNewMessage, B!CloseNewMessage
<1>11. ASSUME NEW ws \in Workspaces \cup {none}, B!OtherTab(ws) PROVE BootInv'
  BY <1>0, <1>11, AsideSafe DEF B!OtherTab
<1>12. CASE B!Hover
  <2>1. UNCHANGED <<route, shown, ready, boots, store, selected, last, lately, recent, posting, confused,
                    foreign, newMessage, searching, active>>
    BY <1>12 DEF B!Hover
  <2>2. QED
    BY <1>0, <2>1, AsideSafe
<1>13. CASE UNCHANGED bootVars
  <2>1. UNCHANGED <<route, shown, ready, boots, store, selected, last, lately, recent, posting, confused,
                    foreign, newMessage, searching, active>>
    BY <1>13 DEF bootVars
  <2>2. QED
    BY <1>0, <2>1, AsideSafe
<1>14. CASE B!Load(none, "page")
  <2>1. none \in Workspaces \cup {none} /\ "page" \in B!Places
    BY DEF B!Places
  <2>2. QED
    BY <1>14, <2>1, AnewSafe
<1>15. ASSUME NEW ws \in Workspaces, NEW conv \in Rooms, B!FollowLink(ws, conv) PROVE BootInv'
  BY <1>15, LinkSafe
<1>16. CASE (\E conv \in Rooms : B!Post(conv)) \/ B!PostUploaded \/ B!PostSent \/ B!PostFailed
  BY <1>16, PostingSafe, PostSentSafe
<1>17. QED
  BY <1>1, <1>2, <1>3, <1>4, <1>5, <1>6, <1>7, <1>8, <1>9, <1>10, <1>11, <1>12, <1>13, <1>14, <1>15,
     <1>16 DEF B!Next

LEMMA BootSafe == BootInv => B!TypeOK /\ B!BootAgrees
<1>1. BootInv => B!TypeOK
  BY DEF BootInv, BootTypes, Histories, Boots, Posting, B!TypeOK
<1>2. BootInv => B!BootAgrees
  BY DEF BootInv, Clear, OneBoot, LastHome, Belongs, B!BootAgrees
<1>3. QED
  BY <1>1, <1>2

-----------------------------------------------------------------------------
(* Each part by itself, without the foci that MCWorkspace narrows some of   *)
(* them with.                                                               *)

\* With nothing under way the list has the unread rows of the server and says of
\* none that it is unread when it was read, but for the causes in missed and
\* returned, for any events and any number of calls.
THEOREM NotificationsAreAgreed == N!Spec => [](N!TypeOK /\ N!NotificationsAgree)
<1>1. [N!Next]_(N!vars) => [N!Next]_notificationVars
  BY DEF N!vars, notificationVars
<1>2. QED
  BY <1>1, NoteInit, NoteStep, NoteSafe, PTL DEF N!Spec

\* No line stays on the panel for good, and the open dialog lists the files of
\* the conversations there are, for any files, buttons and size of the panel.
THEOREM MediaAgrees == M!Spec => [](M!TypeOK /\ M!DownloadsLeave /\ M!FilesAreCurrent)
<1>1. [M!Next]_(M!vars) => [M!Next]_mediaVars
  BY DEF M!vars, mediaVars
<1>2. QED
  BY <1>1, MediaInit, MediaStep, MediaSafe, PTL DEF M!Spec

\* While no boot fails or runs beside another, a workspace that is ready is the
\* one the store holds, and one is remembered by a conversation of another only
\* where a link, an address, a toast or a new message opened that in it, for any
\* workspaces, conversations and size of the history.
THEOREM BootIsAgreed == B!Spec => [](B!TypeOK /\ B!BootAgrees)
<1>1. [B!Next]_(B!vars) => [B!Next]_bootVars
  BY DEF B!vars, bootVars
<1>2. QED
  BY <1>1, BootInit, BootStep, BootSafe, PTL DEF B!Spec

-----------------------------------------------------------------------------
(* The composition. *)

WorkspaceInv == NoteInv /\ MediaInv /\ BootInv

LEMMA WorkspaceInit == Init => WorkspaceInv
  BY NoteInit, MediaInit, BootInit DEF Init, WorkspaceInv

LEMMA WorkspaceStep == WorkspaceInv /\ [Next]_AllVars => WorkspaceInv'
<1>1. [Next]_AllVars =>
        [N!Next]_notificationVars /\ [M!Next]_mediaVars /\ [B!Next]_bootVars
  BY DEF Next, AllVars
<1>2. QED
  BY <1>1, NoteStep, MediaStep, BootStep DEF WorkspaceInv

\* The inductive invariant holds in every reachable state.
THEOREM WorkspaceInvariance == Spec => []WorkspaceInv
  BY WorkspaceInit, WorkspaceStep, PTL DEF Spec

\* The list of notifications agrees with the server in every reachable state.
THEOREM ListIsUnread == Spec => []NotificationsAgree
<1>1. WorkspaceInv => NotificationsAgree
  BY NoteSafe DEF WorkspaceInv, NotificationsAgree
<1>2. QED
  BY <1>1, WorkspaceInvariance, PTL

\* Every line of the panel of downloads is about to leave it.
THEOREM LinesDoLeave == Spec => []DownloadsLeave
<1>1. WorkspaceInv => DownloadsLeave
  BY MediaSafe DEF WorkspaceInv, DownloadsLeave
<1>2. QED
  BY <1>1, WorkspaceInvariance, PTL

\* The tab shows the conversations of the workspace it is in.
THEOREM TabIsAgreed == Spec => []TabAgrees
<1>1. WorkspaceInv => TabAgrees
  BY BootSafe DEF WorkspaceInv, TabAgrees
<1>2. QED
  BY <1>1, WorkspaceInvariance, PTL

-----------------------------------------------------------------------------
(* The history of a workspace.  An entry of what was opened counts where it *)
(* comes last, and its place in the history is the number of those that     *)
(* count beyond it (Recents).                                               *)

\* the places of s after which its entry does not come again, and how many of
\* them are beyond i
Latest(s) == {i \in DOMAIN s : \A j \in DOMAIN s : j > i => s[j] # s[i]}
Beyond(s, i) == {j \in Latest(s) : j > i}
Later(s, i) == Cardinality(Beyond(s, i))

LEMMA BeyondFinite ==
  ASSUME NEW T, NEW s \in Seq(T), NEW i
  PROVE  IsFiniteSet(Beyond(s, i)) /\ Later(s, i) \in Nat
<1>1. IsFiniteSet(1..Len(s)) /\ Beyond(s, i) \in SUBSET (1..Len(s))
  BY FS_Interval DEF Beyond, Latest
<1>2. QED
  BY <1>1, FS_Subset, FS_CardinalityType DEF Later

\* The further on a place is, the fewer are beyond it.
LEMMA LaterFalls ==
  ASSUME NEW T, NEW s \in Seq(T), NEW i \in Latest(s), NEW j \in Latest(s), i < j
  PROVE  Later(s, j) < Later(s, i)
<1>1. /\ i \in Nat /\ j \in Nat
      /\ Beyond(s, j) \in SUBSET Beyond(s, i) /\ j \in Beyond(s, i) /\ j \notin Beyond(s, j)
  BY DEF Latest, Beyond
<1>2. QED
  BY <1>1, BeyondFinite, FS_Subset DEF Later

\* What one more entry does to the places that count.
LEMMA LatestAppend ==
  ASSUME NEW T, NEW s \in Seq(T), NEW e \in T
  PROVE  Latest(Append(s, e)) = {i \in Latest(s) : s[i] # e} \cup {Len(s) + 1}
<1> DEFINE n == Len(s)
           t == Append(s, e)
<1>1. /\ n \in Nat /\ DOMAIN s = 1..n /\ DOMAIN t = 1..(n + 1) /\ t[n + 1] = e
      /\ \A i \in 1..n : t[i] = s[i] /\ i # n + 1 /\ i \in 1..(n + 1)
      /\ \A i \in 1..(n + 1) : i # n + 1 => i \in 1..n
  OBVIOUS
<1> HIDE DEF n, t
<1>2. ASSUME NEW i \in 1..n PROVE i \in Latest(t) <=> i \in Latest(s) /\ s[i] # e
  <2>1. i \in Latest(t) => s[i] # e
    <3>1. n + 1 > i
      BY <1>1
    <3>2. QED
      BY <1>1, <3>1 DEF Latest
  <2>2. i \in Latest(t) => i \in Latest(s)
    BY <1>1 DEF Latest
  <2>3. i \in Latest(s) /\ s[i] # e => i \in Latest(t)
    BY <1>1 DEF Latest
  <2>4. QED
    BY <2>1, <2>2, <2>3
<1>3. n + 1 \in Latest(t)
  BY <1>1 DEF Latest
<1>4. Latest(t) \subseteq 1..(n + 1) /\ Latest(s) \subseteq 1..n
  BY <1>1 DEF Latest
<1>5. QED
  BY <1>1, <1>2, <1>3, <1>4 DEF n, t

\* How many are beyond a place, once there is one more entry.
LEMMA LaterAppend ==
  ASSUME NEW T, NEW s \in Seq(T), NEW e \in T
  PROVE  /\ Later(Append(s, e), Len(s) + 1) = 0
         /\ \A i \in Latest(s) :
              s[i] # e =>
                IF \E k \in Beyond(s, i) : s[k] = e THEN Later(Append(s, e), i) = Later(s, i)
                ELSE Later(Append(s, e), i) = Later(s, i) + 1
<1> DEFINE n == Len(s)
           t == Append(s, e)
<1>1. n \in Nat /\ Latest(s) \subseteq 1..n
  BY DEF Latest
<1>2. Latest(t) = {i \in Latest(s) : s[i] # e} \cup {n + 1}
  BY LatestAppend
<1>3. t \in Seq(T)
  OBVIOUS
<1> HIDE DEF n, t
<1>4. Beyond(t, n + 1) = {}
  BY <1>1, <1>2 DEF Beyond
<1>5. Later(t, n + 1) = 0
  BY <1>4, FS_EmptySet DEF Later
<1>6. ASSUME NEW i \in Latest(s), s[i] # e
      PROVE  IF \E k \in Beyond(s, i) : s[k] = e THEN Later(t, i) = Later(s, i)
             ELSE Later(t, i) = Later(s, i) + 1
  <2>1. /\ i \in 1..n /\ n + 1 > i
        /\ IsFiniteSet(Beyond(s, i)) /\ Later(s, i) \in Nat /\ n + 1 \notin Beyond(s, i)
    <3>1. i \in 1..n /\ n + 1 > i /\ n + 1 \notin Beyond(s, i)
      BY <1>1 DEF Beyond
    <3>2. QED
      BY <3>1, BeyondFinite
  <2>2. Beyond(t, i) = {j \in Beyond(s, i) : s[j] # e} \cup {n + 1}
    BY <1>2, <2>1 DEF Beyond
  <2>3. CASE \E k \in Beyond(s, i) : s[k] = e
    <3>1. PICK k \in Beyond(s, i) : s[k] = e
      BY <2>3
    <3>2. \A j \in Beyond(s, i) : s[j] = e => j = k
      BY <1>1, <3>1 DEF Beyond, Latest
    <3>3. {j \in Beyond(s, i) : s[j] # e} = Beyond(s, i) \ {k}
      BY <3>1, <3>2
    <3>4. /\ IsFiniteSet(Beyond(s, i) \ {k}) /\ Cardinality(Beyond(s, i) \ {k}) = Later(s, i) - 1
      BY <2>1, <3>1, FS_RemoveElement DEF Later
    <3>5. Cardinality((Beyond(s, i) \ {k}) \cup {n + 1}) = (Later(s, i) - 1) + 1
      BY <2>1, <3>4, FS_AddElement
    <3>6. Later(t, i) = (Later(s, i) - 1) + 1
      BY <2>2, <3>3, <3>5 DEF Later
    <3>7. Later(t, i) = Later(s, i)
      BY <2>1, <3>6
    <3>8. QED
      BY <2>3, <3>7
  <2>4. CASE ~ \E k \in Beyond(s, i) : s[k] = e
    <3>1. {j \in Beyond(s, i) : s[j] # e} = Beyond(s, i)
      BY <2>4
    <3>2. Cardinality(Beyond(s, i) \cup {n + 1}) = Later(s, i) + 1
      BY <2>1, FS_AddElement DEF Later
    <3>3. QED
      BY <2>2, <2>4, <3>1, <3>2 DEF Later
  <2>5. QED
    BY <2>3, <2>4
<1>7. QED
  BY <1>5, <1>6 DEF n, t

\* l holds the last h entries of s, each once, the latest first.
Recents(s, l, h) ==
  /\ Len(l) <= h
  /\ \A i \in Latest(s) : Later(s, i) < h => Later(s, i) < Len(l) /\ l[Later(s, i) + 1] = s[i]
  /\ \A p \in 1..Len(l) : \E i \in Latest(s) : Later(s, i) = p - 1

\* m is l with e before the others, and no longer than h.
Fronted(l, m, e, h) ==
  \/ \E p \in DOMAIN l :
       /\ l[p] = e /\ Len(m) = Len(l) /\ m[1] = e
       /\ \A d \in 2..Len(l) : m[d] = IF d <= p THEN l[d - 1] ELSE l[d]
  \/ /\ \A p \in DOMAIN l : l[p] # e
     /\ Len(m) = (IF Len(l) < h THEN Len(l) + 1 ELSE h) /\ m[1] = e
     /\ \A d \in 2..Len(m) : m[d] = l[d - 1]

\* What was opened comes first, and what it replaces is where it was: so the
\* list stays the last entries.
LEMMA RecentsKept ==
  ASSUME NEW T, NEW s \in Seq(T), NEW l \in Seq(T), NEW m \in Seq(T), NEW e \in T,
         NEW h \in Nat \ {0}, Recents(s, l, h), Fronted(l, m, e, h)
  PROVE  Recents(Append(s, e), m, h)
<1> DEFINE n == Len(s)
           t == Append(s, e)
           R(i) == Later(s, i)
           Q(i) == Later(t, i)
<1>1. /\ n \in Nat /\ Latest(s) \subseteq 1..n /\ t[n + 1] = e /\ \A i \in 1..n : t[i] = s[i]
      /\ Len(l) \in Nat /\ DOMAIN l = 1..Len(l)
  BY DEF Latest
<1>2. \A i \in Latest(s) : R(i) \in Nat
  BY BeyondFinite
<1>3. \A i, j \in Latest(s) : i < j => R(j) < R(i)
  BY LaterFalls
<1>4. \A i, j \in Latest(s) : s[i] = s[j] => i = j
  BY <1>1 DEF Latest
<1>5. Q(n + 1) = 0
  BY LaterAppend
<1>6. \A i \in Latest(s) :
        s[i] # e => IF \E k \in Latest(s) : k > i /\ s[k] = e THEN Q(i) = R(i) ELSE Q(i) = R(i) + 1
  BY LaterAppend DEF Beyond
<1>7. \A i : i \in Latest(t) <=> i = n + 1 \/ (i \in Latest(s) /\ s[i] # e)
  BY LatestAppend
<1>8. /\ Len(l) <= h
      /\ \A i \in Latest(s) : R(i) < h => R(i) < Len(l) /\ l[R(i) + 1] = s[i]
      /\ \A p \in 1..Len(l) : \E i \in Latest(s) : R(i) = p - 1
  BY DEF Recents
<1> SUFFICES /\ Len(m) <= h
             /\ \A i \in Latest(t) : Q(i) < h => Q(i) < Len(m) /\ m[Q(i) + 1] = t[i]
             /\ \A p \in 1..Len(m) : \E i \in Latest(t) : Q(i) = p - 1
  BY DEF Recents
<1> HIDE DEF n, t, R, Q
<1>9. ASSUME NEW p \in 1..Len(l), l[p] = e, Len(m) = Len(l), m[1] = e,
             \A d \in 2..Len(l) : m[d] = IF d <= p THEN l[d - 1] ELSE l[d]
      PROVE  /\ Len(m) <= h
             /\ \A i \in Latest(t) : Q(i) < h => Q(i) < Len(m) /\ m[Q(i) + 1] = t[i]
             /\ \A d \in 1..Len(m) : \E i \in Latest(t) : Q(i) = d - 1
  <2>1. PICK k \in Latest(s) : R(k) = p - 1
    BY <1>8
  <2>2. s[k] = e
    <3>1. R(k) < h /\ R(k) + 1 = p
      BY <1>1, <1>8, <2>1
    <3>2. l[R(k) + 1] = s[k]
      BY <1>8, <3>1
    <3>3. QED
      BY <1>9, <3>1, <3>2
  <2>3. ASSUME NEW i \in Latest(s), s[i] # e
        PROVE  \/ R(i) < p - 1 /\ Q(i) = R(i) + 1
               \/ R(i) >= p /\ Q(i) = R(i)
    <3>1. i \in Nat /\ k \in Nat /\ i # k /\ R(i) \in Nat
      BY <1>1, <1>2, <2>2, <2>3
    <3>2. CASE i < k
      BY <1>3, <1>6, <2>1, <2>2, <2>3, <3>1, <3>2
    <3>3. CASE k < i
      <4>1. ~ \E q \in Latest(s) : q > i /\ s[q] = e
        BY <1>1, <1>4, <2>2, <3>3
      <4>2. R(i) < p - 1
        BY <1>3, <2>1, <3>3
      <4>3. QED
        BY <1>6, <2>3, <4>1, <4>2
    <3>4. QED
      BY <3>1, <3>2, <3>3
  <2>4. ASSUME NEW i \in Latest(t), Q(i) < h PROVE Q(i) < Len(m) /\ m[Q(i) + 1] = t[i]
    <3>1. CASE i = n + 1
      BY <1>1, <1>5, <1>9, <3>1
    <3>2. CASE i # n + 1
      <4>1. i \in Latest(s) /\ s[i] # e /\ R(i) \in Nat /\ t[i] = s[i]
        BY <1>1, <1>2, <1>7, <3>2
      <4>2. CASE R(i) < p - 1 /\ Q(i) = R(i) + 1
        <5>1. R(i) < h /\ R(i) + 2 \in 2..Len(l) /\ R(i) + 2 <= p /\ (R(i) + 2) - 1 = R(i) + 1
          BY <1>1, <1>8, <4>1, <4>2
        <5>2. m[R(i) + 2] = l[R(i) + 1] /\ l[R(i) + 1] = s[i]
          BY <1>8, <1>9, <4>1, <5>1
        <5>3. Q(i) + 1 = R(i) + 2 /\ Q(i) < Len(m)
          BY <1>9, <4>1, <4>2, <5>1
        <5>4. QED
          BY <4>1, <5>2, <5>3
      <4>3. CASE R(i) >= p /\ Q(i) = R(i)
        <5>1. R(i) < Len(l) /\ l[R(i) + 1] = s[i]
          BY <1>8, <2>4, <4>1, <4>3
        <5>2. R(i) + 1 \in 2..Len(l) /\ ~(R(i) + 1 <= p)
          BY <1>1, <4>1, <4>3, <5>1
        <5>3. m[R(i) + 1] = l[R(i) + 1]
          BY <1>9, <5>2
        <5>4. QED
          BY <1>9, <4>1, <4>3, <5>1, <5>3
      <4>4. QED
        BY <2>3, <4>1, <4>2, <4>3
    <3>3. QED
      BY <3>1, <3>2
  <2>5. ASSUME NEW d \in 1..Len(m) PROVE \E i \in Latest(t) : Q(i) = d - 1
    <3>1. CASE d = 1
      BY <1>5, <1>7, <3>1
    <3>2. CASE d # 1 /\ d <= p
      <4>1. d - 1 \in 1..Len(l) /\ d \in Nat /\ p \in Nat
        BY <1>1, <1>9, <3>2
      <4>2. PICK i \in Latest(s) : R(i) = (d - 1) - 1
        BY <1>8, <4>1
      <4>3. s[i] # e /\ R(i) < p
        BY <1>4, <2>1, <2>2, <3>2, <4>1, <4>2
      <4>4. Q(i) = d - 1
        BY <2>3, <3>2, <4>1, <4>2, <4>3
      <4>5. QED
        BY <1>7, <4>3, <4>4
    <3>3. CASE d > p
      <4>1. d \in 1..Len(l) /\ d \in Nat /\ p \in Nat
        BY <1>1, <1>9
      <4>2. PICK i \in Latest(s) : R(i) = d - 1
        BY <1>8, <4>1
      <4>3. s[i] # e /\ R(i) >= p
        BY <1>4, <2>1, <2>2, <3>3, <4>1, <4>2
      <4>4. Q(i) = d - 1
        BY <2>3, <3>3, <4>1, <4>2, <4>3
      <4>5. QED
        BY <1>7, <4>3, <4>4
    <3>4. QED
      BY <1>1, <1>9, <3>1, <3>2, <3>3
  <2>6. QED
    BY <1>8, <1>9, <2>4, <2>5
<1>10. ASSUME \A p \in 1..Len(l) : l[p] # e, Len(m) = (IF Len(l) < h THEN Len(l) + 1 ELSE h),
              m[1] = e, \A d \in 2..Len(m) : m[d] = l[d - 1]
       PROVE  /\ Len(m) <= h
              /\ \A i \in Latest(t) : Q(i) < h => Q(i) < Len(m) /\ m[Q(i) + 1] = t[i]
              /\ \A d \in 1..Len(m) : \E i \in Latest(t) : Q(i) = d - 1
  <2>1. ASSUME NEW k \in Latest(s), s[k] = e PROVE R(k) >= h
    <3>1. SUFFICES ASSUME R(k) < h PROVE FALSE
      BY <1>2
    <3>2. R(k) \in Nat /\ R(k) + 1 \in 1..Len(l) /\ l[R(k) + 1] = e
      BY <1>1, <1>2, <1>8, <2>1, <3>1
    <3>3. QED
      BY <1>10, <3>2
  <2>2. ASSUME NEW i \in Latest(s), s[i] # e
        PROVE  /\ Q(i) \in Nat /\ Q(i) >= R(i)
               /\ R(i) < h => Q(i) = R(i) + 1
    <3>1. Q(i) \in {R(i), R(i) + 1} /\ R(i) \in Nat
      BY <1>2, <1>6, <2>2
    <3>2. ASSUME R(i) < h PROVE ~ \E k \in Latest(s) : k > i /\ s[k] = e
      <4>1. ASSUME NEW k \in Latest(s), k > i, s[k] = e PROVE FALSE
        <5>1. R(k) < R(i) /\ R(k) >= h /\ R(k) \in Nat
          BY <1>1, <1>2, <1>3, <2>1, <4>1
        <5>2. QED
          BY <3>1, <3>2, <5>1
      <4>2. QED
        BY <4>1
    <3>3. R(i) < h => Q(i) = R(i) + 1
      BY <1>6, <2>2, <3>2
    <3>4. QED
      BY <3>1, <3>3
  <2>3. ASSUME NEW i \in Latest(t), Q(i) < h PROVE Q(i) < Len(m) /\ m[Q(i) + 1] = t[i]
    <3>1. CASE i = n + 1
      BY <1>1, <1>5, <1>10, <3>1
    <3>2. CASE i # n + 1
      <4>1. i \in Latest(s) /\ s[i] # e /\ R(i) \in Nat /\ t[i] = s[i]
        BY <1>1, <1>2, <1>7, <3>2
      <4>2. R(i) < h /\ Q(i) = R(i) + 1
        BY <2>2, <2>3, <4>1
      <4>3. R(i) < Len(l) /\ l[R(i) + 1] = s[i]
        BY <1>8, <4>1, <4>2
      <4>4. R(i) + 2 \in 2..Len(m) /\ (R(i) + 2) - 1 = R(i) + 1
        BY <1>1, <1>10, <2>3, <4>1, <4>2, <4>3
      <4>5. m[R(i) + 2] = l[R(i) + 1]
        BY <1>10, <4>4
      <4>6. Q(i) + 1 = R(i) + 2 /\ Q(i) < Len(m)
        BY <4>1, <4>2, <4>4
      <4>7. QED
        BY <4>1, <4>3, <4>5, <4>6
    <3>3. QED
      BY <3>1, <3>2
  <2>4. ASSUME NEW d \in 1..Len(m) PROVE \E i \in Latest(t) : Q(i) = d - 1
    <3>1. CASE d = 1
      BY <1>5, <1>7, <3>1
    <3>2. CASE d # 1
      <4>1. d - 1 \in 1..Len(l) /\ d \in Nat /\ d <= h
        BY <1>1, <1>10, <3>2
      <4>2. PICK i \in Latest(s) : R(i) = (d - 1) - 1
        BY <1>8, <4>1
      <4>3. R(i) < h
        BY <4>1, <4>2
      <4>4. s[i] # e
        BY <2>1, <1>2, <4>3
      <4>5. Q(i) = d - 1
        BY <2>2, <4>1, <4>2, <4>3, <4>4
      <4>6. QED
        BY <1>7, <4>4, <4>5
    <3>3. QED
      BY <3>1, <3>2
  <2>5. Len(m) <= h
    BY <1>1, <1>10
  <2>6. QED
    BY <2>3, <2>4, <2>5
<1>11. QED
  BY <1>1, <1>9, <1>10 DEF Fronted

\* lately of a workspace when a conversation is opened.
LEMMA LatelyFronted ==
  ASSUME NEW l \in Seq(Rooms), NEW conv \in Rooms, Len(l) <= HistorySize,
         \A i, j \in DOMAIN l : l[i] = l[j] => i = j
  PROVE  Fronted(l, B!Lately(l, conv), conv, HistorySize)
<1> DEFINE places == {i \in DOMAIN l : l[i] = conv}
           p == CHOOSE i \in places : TRUE
           rest == IF places = {} THEN l ELSE SubSeq(l, 1, p - 1) \o SubSeq(l, p + 1, Len(l))
           next == <<conv>> \o rest
<1>1. /\ HistorySize \in Nat \ {0} /\ Len(l) \in Nat /\ DOMAIN l = 1..Len(l)
      /\ <<conv>> \in Seq(Rooms) /\ Len(<<conv>>) = 1 /\ <<conv>>[1] = conv
  BY PageConstants DEF B!BootAssumption
<1>2. B!Lately(l, conv) = IF Len(next) > HistorySize THEN SubSeq(next, 1, HistorySize) ELSE next
  BY DEF B!Lately
<1>3. ASSUME rest \in Seq(Rooms)
      PROVE  /\ next \in Seq(Rooms) /\ Len(next) = Len(rest) + 1 /\ Len(rest) \in Nat /\ next[1] = conv
             /\ \A d \in 2..(Len(rest) + 1) : next[d] = rest[d - 1]
  <2> HIDE DEF rest
  <2>1. /\ next \in Seq(Rooms) /\ Len(next) = 1 + Len(rest) /\ Len(rest) \in Nat
        /\ \A d \in 1..(1 + Len(rest)) : next[d] = IF d <= 1 THEN <<conv>>[d] ELSE rest[d - 1]
    BY <1>1, <1>3, ConcatProperties
  <2> HIDE DEF next
  <2>2. next[1] = conv
    BY <1>1, <2>1
  <2>3. QED
    BY <2>1, <2>2
<1>4. CASE places # {}
  <2>1. p \in 1..Len(l) /\ l[p] = conv
    BY <1>1, <1>4
  <2>2. /\ rest \in Seq(Rooms) /\ Len(rest) = Len(l) - 1
        /\ \A d \in 1..(Len(l) - 1) : rest[d] = l[IF d < p THEN d ELSE d + 1]
    BY <1>4, <2>1, Removed
  <2> HIDE DEF p, rest
  <2>3. /\ next \in Seq(Rooms) /\ Len(next) = Len(l) /\ next[1] = conv
        /\ \A d \in 2..Len(l) : next[d] = rest[d - 1]
    <3>1. Len(rest) + 1 = Len(l)
      BY <1>1, <2>2
    <3>2. QED
      BY <1>3, <2>2, <3>1
  <2> HIDE DEF next
  <2>4. B!Lately(l, conv) = next
    BY <1>1, <1>2, <2>3
  <2>5. ASSUME NEW d \in 2..Len(l) PROVE next[d] = IF d <= p THEN l[d - 1] ELSE l[d]
    <3>1. d \in Nat /\ p \in Nat /\ d - 1 \in 1..(Len(l) - 1) /\ (d - 1) + 1 = d /\ (d - 1 < p <=> d <= p)
      BY <1>1, <2>1
    <3>2. QED
      BY <2>2, <2>3, <3>1
  <2>6. QED
    BY <1>1, <2>1, <2>3, <2>4, <2>5 DEF Fronted
<1>5. CASE places = {}
  <2>1. rest = l /\ \A i \in DOMAIN l : l[i] # conv
    BY <1>5
  <2>2. /\ next \in Seq(Rooms) /\ Len(next) = Len(l) + 1 /\ next[1] = conv
        /\ \A d \in 2..(Len(l) + 1) : next[d] = l[d - 1]
    BY <1>3, <2>1
  <2> HIDE DEF rest, next
  <2>3. CASE Len(l) < HistorySize
    <3>1. B!Lately(l, conv) = next
      BY <1>1, <1>2, <2>2, <2>3
    <3>2. QED
      BY <1>1, <2>1, <2>2, <2>3, <3>1 DEF Fronted
  <2>4. CASE ~(Len(l) < HistorySize)
    <3>1. /\ Len(l) = HistorySize /\ Len(next) = HistorySize + 1
          /\ B!Lately(l, conv) = SubSeq(next, 1, HistorySize)
      <4>1. Len(l) = HistorySize
        <5>1. Len(l) \in Nat /\ HistorySize \in Nat /\ Len(l) <= HistorySize
          BY <1>1
        <5>2. QED
          BY <2>4, <5>1
      <4>2. Len(next) = HistorySize + 1 /\ Len(next) > HistorySize
        BY <1>1, <2>2, <4>1
      <4>3. B!Lately(l, conv) = SubSeq(next, 1, HistorySize)
        BY <1>2, <4>2, Zenon
      <4>4. QED
        BY <4>1, <4>2, <4>3
    <3>2. /\ Len(SubSeq(next, 1, HistorySize)) = HistorySize
          /\ \A d \in 1..HistorySize : SubSeq(next, 1, HistorySize)[d] = next[d]
      BY <1>1, <2>2, <3>1
    <3>3. /\ SubSeq(next, 1, HistorySize)[1] = conv
          /\ \A d \in 2..HistorySize : SubSeq(next, 1, HistorySize)[d] = l[d - 1]
      BY <1>1, <2>2, <3>1, <3>2
    <3>4. QED
      BY <2>1, <2>4, <3>1, <3>2, <3>3 DEF Fronted
  <2>5. QED
    BY <2>3, <2>4
<1>6. QED
  BY <1>4, <1>5

RecentInv ==
  /\ opened \in [Workspaces -> Seq(Rooms)]
  /\ \A ws \in Workspaces : Recents(opened[ws], lately[ws], HistorySize)

LEMMA RecentInit == ASSUME B!Init PROVE RecentInv
<1>1. /\ opened = [ws \in Workspaces |-> <<>>] /\ lately = [ws \in Workspaces |-> <<>>]
      /\ HistorySize \in Nat
  BY PageConstants DEF B!Init, B!BootAssumption
<1>2. Recents(<<>>, <<>>, HistorySize)
  BY <1>1 DEF Recents, Latest
<1>3. QED
  BY <1>1, <1>2 DEF RecentInv

LEMMA RecentStep == ASSUME BootInv, RecentInv, [B!Next]_bootVars PROVE RecentInv'
<1>1. ASSUME NEW conv \in Rooms, B!OpenConversation(conv) PROVE RecentInv'
  <2>1. /\ ready /\ lately' = [lately EXCEPT ![route] = B!Lately(@, conv)]
        /\ opened' = [opened EXCEPT ![route] = Append(@, conv)]
    BY <1>1 DEF B!OpenConversation
  <2>2. route \in Workspaces
    BY <2>1 DEF BootInv, BootTypes, Boots
  <2>3. /\ lately \in [Workspaces -> Seq(Rooms)] /\ opened \in [Workspaces -> Seq(Rooms)]
        /\ \A i, j \in DOMAIN lately[route] : lately[route][i] = lately[route][j] => i = j
    BY <2>2 DEF BootInv, Histories, RecentInv
  <2>4. /\ lately'[route] = B!Lately(lately[route], conv) /\ opened'[route] = Append(opened[route], conv)
        /\ \A ws \in Workspaces \ {route} : lately'[ws] = lately[ws] /\ opened'[ws] = opened[ws]
    BY <2>1, <2>2, <2>3
  <2>5. opened' \in [Workspaces -> Seq(Rooms)]
    <3>1. Append(opened[route], conv) \in Seq(Rooms)
      BY <2>2, <2>3
    <3>2. QED
      BY <2>1, <2>3, <3>1
  <2>6. Recents(opened'[route], lately'[route], HistorySize)
    <3>1. /\ HistorySize \in Nat \ {0} /\ lately[route] \in Seq(Rooms) /\ opened[route] \in Seq(Rooms)
          /\ Recents(opened[route], lately[route], HistorySize)
          /\ B!Lately(lately[route], conv) \in Seq(Rooms)
      BY <2>2, <2>3, LatelyOnce, PageConstants DEF RecentInv, B!BootAssumption
    <3>2. Fronted(lately[route], B!Lately(lately[route], conv), conv, HistorySize)
      BY <2>3, <3>1, LatelyFronted DEF Recents
    <3>3. QED
      BY <2>4, <3>1, <3>2, RecentsKept
  <2>7. QED
    BY <2>4, <2>5, <2>6 DEF RecentInv
<1>2. ASSUME UNCHANGED <<lately, opened>> PROVE RecentInv'
  BY <1>2 DEF RecentInv
<1>3. CASE \/ \E ws \in Workspaces : \E p \in B!Places : B!EnterProperly(ws, p) \/ B!Load(ws, p)
           \/ B!Load(none, "page")
  BY <1>2, <1>3 DEF B!EnterProperly, B!Enter, B!Load
<1>4. CASE B!LeaveAll \/ B!HomeNowhere \/ B!Home
  BY <1>2, <1>4 DEF B!HomeNowhere, B!LeaveAll, B!Home, B!Within, B!Enter
<1>5. CASE B!ClosePanel \/ B!FollowRoute \/ B!Reselect
  BY <1>2, <1>5 DEF B!ClosePanel, B!FollowRoute, B!Reselect
<1>6. CASE \E o \in boots : B!BootAnswered(o) \/ \E unknown \in BOOLEAN : B!BootFailed(o, unknown)
  BY <1>2, <1>6 DEF B!BootAnswered, B!BootFailed
<1>7. CASE \E p \in B!Places : B!Shortcut(p) \/ B!Visit(p)
  BY <1>2, <1>7 DEF B!Shortcut, B!Visit, B!Within
<1>8. CASE B!TypeSearch \/ B!SearchNavigates
  BY <1>2, <1>8 DEF B!TypeSearch, B!SearchNavigates, B!Within
<1>9. CASE B!OpenNewMessage \/ B!CloseNewMessage \/ B!Hover
  BY <1>2, <1>9 DEF B!OpenNewMessage, B!CloseNewMessage, B!Hover
<1>10. CASE \E ws \in Workspaces \cup {none} : B!OtherTab(ws)
  BY <1>2, <1>10 DEF B!OtherTab
<1>11. CASE UNCHANGED bootVars
  BY <1>2, <1>11 DEF bootVars
<1>12. CASE \E ws \in Workspaces : \E conv \in Rooms : B!FollowLink(ws, conv)
  BY <1>2, <1>12 DEF B!FollowLink, B!Within, B!Enter
<1>13. CASE (\E conv \in Rooms : B!Post(conv)) \/ B!PostUploaded \/ B!PostSent \/ B!PostFailed
  BY <1>2, <1>13 DEF B!Post, B!PostUploaded, B!PostSent, B!PostFailed, B!Within, B!Enter
<1>14. QED
  BY <1>1, <1>3, <1>4, <1>5, <1>6, <1>7, <1>8, <1>9, <1>10, <1>11, <1>12, <1>13 DEF B!Next

LEMMA RecentSafe == BootInv /\ RecentInv => B!HistoryIsRecent
<1> SUFFICES ASSUME BootInv, RecentInv, NEW ws \in Workspaces
             PROVE  LET s == opened[ws]
                        Last(i) == ~ \E j \in DOMAIN s : j > i /\ s[j] = s[i]
                        distinct == {i \in DOMAIN s : Last(i)}
                        After(i) == Cardinality({j \in distinct : j > i})
                    IN  /\ {lately[ws][p] : p \in DOMAIN lately[ws]}
                             = {s[i] : i \in {k \in distinct : After(k) < HistorySize}}
                        /\ \A i \in distinct : After(i) < HistorySize => lately[ws][After(i) + 1] = s[i]
  <2>1. \A set : B!Cardinality(set) = Cardinality(set)
    BY DEF B!Cardinality, Cardinality
  <2>2. QED
    BY <2>1 DEF B!HistoryIsRecent
<1> DEFINE s == opened[ws]
           l == lately[ws]
           distinct == {i \in DOMAIN s : ~ \E j \in DOMAIN s : j > i /\ s[j] = s[i]}
           After(i) == Cardinality({j \in distinct : j > i})
<1>1. s \in Seq(Rooms) /\ l \in Seq(Rooms) /\ Recents(s, l, HistorySize) /\ HistorySize \in Nat
  BY PageConstants DEF BootInv, Histories, RecentInv, B!BootAssumption
<1>2. distinct = Latest(s)
  BY DEF Latest
<1>3. \A i : After(i) = Later(s, i)
  BY <1>2 DEF Later, Beyond
<1> HIDE DEF s, l, distinct, After
<1>4. DOMAIN l = 1..Len(l) /\ Len(l) \in Nat /\ \A i : Later(s, i) \in Nat
  BY <1>1, BeyondFinite
<1>5. \A i \in distinct : After(i) < HistorySize => After(i) + 1 \in DOMAIN l /\ l[After(i) + 1] = s[i]
  BY <1>1, <1>2, <1>3, <1>4 DEF Recents
<1>6. \A p \in DOMAIN l : \E i \in distinct : After(i) < HistorySize /\ p = After(i) + 1
  <2>1. ASSUME NEW p \in DOMAIN l PROVE \E i \in distinct : After(i) < HistorySize /\ p = After(i) + 1
    <3>1. PICK i \in Latest(s) : Later(s, i) = p - 1
      BY <1>1, <1>4 DEF Recents
    <3>2. p \in 1..Len(l) /\ Len(l) <= HistorySize
      BY <1>1, <1>4 DEF Recents
    <3>3. After(i) < HistorySize /\ p = After(i) + 1
      BY <1>1, <1>3, <1>4, <3>1, <3>2
    <3>4. QED
      BY <1>2, <3>1, <3>3
  <2>2. QED
    BY <2>1
<1>7. {l[p] : p \in DOMAIN l} = {s[i] : i \in {k \in distinct : After(k) < HistorySize}}
  BY <1>5, <1>6
<1>8. QED
  BY <1>5, <1>7 DEF s, l, distinct, After

\* The history of a workspace has the conversations opened last from the
\* sidebar, each once and the latest first, for any workspaces, conversations
\* and size of the history (WorkspaceConversationSidebar.tsx, openConversation).
THEOREM HistoryShown == Spec => []B!HistoryIsRecent
<1>1. Init => RecentInv
  BY RecentInit DEF Init
<1>2. WorkspaceInv /\ RecentInv /\ [Next]_AllVars => RecentInv'
  <2>1. [Next]_AllVars => [B!Next]_bootVars
    BY DEF Next, AllVars
  <2>2. QED
    BY <2>1, RecentStep DEF WorkspaceInv
<1>3. WorkspaceInv /\ RecentInv => B!HistoryIsRecent
  BY RecentSafe DEF WorkspaceInv
<1>4. QED
  BY <1>1, <1>2, <1>3, WorkspaceInvariance, PTL DEF Spec

-----------------------------------------------------------------------------
(* The profile.  Of a field whose updates neither failed nor overlapped one *)
(* call is in flight at most, and the page shows what that call writes.     *)

ProfileRow == [photo: Photos \cup {none}, name: Names, presence: Presences]
ProfileOps == {"load", "loadPrefs", "photo", "name", "presence", "prefs", "logout"}
Written == Photos \cup Names \cup Presences \cup {none} \cup (SUBSET Kinds)
ProfileCall == [op: ProfileOps, to: Written, old: Written, page: P!Pages \cup {"", "gone"}, done: BOOLEAN,
                reply: {none} \cup (SUBSET Kinds) \cup (SUBSET ProfileRow)]

\* What a call carries, by its kind.
Carries(q) ==
  /\ q.op = "photo" => q.to \in Photos \cup {none} /\ q.old \in Photos \cup {none}
  /\ q.op = "name" => q.to \in Names \cup {none}
  /\ q.op = "presence" => q.to \in Presences
  /\ q.op = "prefs" => q.to \in SUBSET Kinds /\ q.old \in SUBSET Kinds
  /\ q.op \in {"prefs", "loadPrefs"} /\ q.done => q.reply \in SUBSET Kinds
  /\ q.op = "loadPrefs" /\ ~q.done => q.reply = none
  /\ q.op = "load" /\ q.done => \E r \in ProfileRow : q.reply = {r}

ProfileTypes == P!TypeOK /\ profileCalls \subseteq ProfileCall /\ \A q \in profileCalls : Carries(q)

Same(fd) == form[fd] = profile[fd] \/ (fd = "name" /\ form.name = none)
Of(fd) == {q \in profileCalls : q.op \in {"load", fd}}

FieldInv(fd) ==
  page # "" /\ fd \notin crossed =>
    /\ \A p, q \in Of(fd) : p = q
    /\ fd = "photo" => \A q \in profileCalls : q.op \notin {"name", "presence"}
    /\ \A q \in Of(fd) :
         /\ q.op = "load" /\ q.done => \A r \in q.reply : r[fd] = profile[fd]
         /\ q.op = fd => form[fd] = q.to /\ (q.done => Same(fd))
    /\ Of(fd) = {} => Same(fd)

OfPrefs == {q \in profileCalls : q.op \in {"loadPrefs", "prefs"}}

PrefsInv ==
  page # "" /\ "prefs" \notin crossed =>
    /\ \A p, q \in OfPrefs : p = q
    /\ \A q \in OfPrefs :
         /\ q.page = page
         /\ q.op = "loadPrefs" => shownPrefs = none /\ (q.done => q.reply = prefs)
         /\ q.op = "prefs" => shownPrefs = q.to /\ IF q.done THEN q.to = prefs /\ q.reply = prefs ELSE q.old = prefs
    /\ OfPrefs = {} => shownPrefs = none \/ shownPrefs = prefs

ProfileInv == ProfileTypes /\ (\A fd \in P!Fields : FieldInv(fd)) /\ PrefsInv

LEMMA ProfileNames ==
  /\ none \notin Photos /\ none \notin Names /\ UserName \in Names /\ "active" \in Presences
  /\ P!Blank = [photo |-> none, name |-> none, presence |-> "active", card |-> P!Blank.card]
  /\ P!Blank.card \in Cards
BY PageConstants DEF P!ProfileAssumption, P!Blank

LEMMA ProfileInit == ASSUME P!Init PROVE ProfileInv
<1>1. P!TypeOK
  <2>1. profile \in ProfileRow
    BY ProfileNames DEF P!Init, ProfileRow
  <2>2. cache \in [photo: Photos \cup {none}, name: Names \cup {none}, card: Cards]
    BY ProfileNames DEF P!Init
  <2>3. form \in [photo: Photos \cup {none}, name: Names \cup {none}, presence: Presences, card: Cards]
    <3>1. form = [photo |-> none, name |-> none, presence |-> "active", card |-> P!Blank.card]
      BY ProfileNames DEF P!Init
    <3>2. QED
      BY <3>1, ProfileNames
  <2>4. QED
    BY <2>1, <2>2, <2>3 DEF P!Init, P!TypeOK, P!Fields, P!Edits, P!Pages, ProfileRow
<1>2. profileCalls = {} /\ page = ""
  BY DEF P!Init
<1>3. QED
  BY <1>1, <1>2 DEF ProfileInv, ProfileTypes, FieldInv, PrefsInv

\* What a field shows depends on its calls, and on those that load the profile.
LEMMA FieldStays ==
  ASSUME NEW fd \in P!Fields, FieldInv(fd), page' = page, crossed \subseteq crossed',
         form'[fd] = form[fd], fd = "name" => form'.name = form.name, profile'[fd] = profile[fd],
         Of(fd)' = Of(fd),
         fd = "photo" => \A q \in profileCalls' : q.op \in {"name", "presence"} => q \in profileCalls
  PROVE  FieldInv(fd)'
<1>1. Same(fd)' <=> Same(fd)
  BY DEF Same
<1>2. \A q \in Of(fd) : q.op \in {"load", fd}
  BY DEF Of
<1>3. QED
  BY <1>1, <1>2 DEF FieldInv

\* And the preferences on theirs.
LEMMA PrefsStay ==
  ASSUME PrefsInv, page' = page, crossed \subseteq crossed', OfPrefs' = OfPrefs, UNCHANGED <<prefs, shownPrefs>>
  PROVE  PrefsInv'
BY DEF PrefsInv

\* A page that is left claims nothing.
LEMMA ProfileLeft ==
  ASSUME ProfileInv, ProfileTypes', page' = ""
  PROVE  ProfileInv'
BY DEF ProfileInv, FieldInv, PrefsInv

LEMMA NewProfileCall ==
  ASSUME ProfileTypes, NEW op \in ProfileOps, NEW to \in Written, NEW old \in Written, NEW at \in P!Pages \cup {""}
  PROVE  LET q == [op |-> op, to |-> to, old |-> old, page |-> at, done |-> FALSE, reply |-> none]
         IN q \in ProfileCall /\ q.op = op /\ q.to = to /\ q.old = old /\ q.page = at /\ ~q.done /\ q.reply = none
BY DEF ProfileCall, Written

\* An update of field own is sent; what is shown of the field is what it writes.
LEMMA WriteSafe ==
  ASSUME ProfileInv, NEW own \in P!Fields, NEW to \in Written, P!Write(own, to), form[own] \in Written,
         own = "photo" => to \in Photos \cup {none} /\ form[own] \in Photos \cup {none},
         own = "name" => to \in Names \cup {none}, own = "presence" => to \in Presences,
         P!TypeOK', form'[own] = to, \A fd \in P!Fields \ {own} : form'[fd] = form[fd],
         own # "name" => form'.name = form.name, UNCHANGED <<profile, prefs, page, shownPrefs>>
  PROVE  ProfileInv'
<1> DEFINE q == P!Call(own, to, form[own])
<1>1. page \in P!Pages \cup {""} /\ own \in ProfileOps /\ own \notin {"load", "loadPrefs", "prefs"}
  BY DEF ProfileInv, ProfileTypes, P!TypeOK, P!Fields, ProfileOps
<1>2. /\ q \in ProfileCall /\ q.op = own /\ q.to = to /\ q.old = form[own] /\ ~q.done
  BY <1>1, NewProfileCall DEF P!Call, ProfileInv
<1>3. profileCalls' = profileCalls \cup {q}
  BY DEF P!Write
<1>4. crossed' = crossed
        \cup (IF \E p \in profileCalls : p.op \in {"load", own} THEN {own} ELSE {})
        \cup (IF own # "photo" \/ \E p \in profileCalls : p.op \in P!Fields \cup {"load"} THEN {"photo"} ELSE {})
  BY DEF P!Write
<1> HIDE DEF q
<1>5. ProfileTypes'
  <2>1. Carries(q)
    BY <1>1, <1>2 DEF Carries
  <2>2. QED
    BY <1>2, <1>3, <2>1 DEF ProfileInv, ProfileTypes, Carries
<1>6. PrefsInv'
  <2>1. OfPrefs' = OfPrefs
    BY <1>1, <1>2, <1>3 DEF OfPrefs
  <2>2. QED
    BY <1>4, <2>1, PrefsStay DEF ProfileInv
<1>7. ASSUME NEW fd \in P!Fields, fd # own PROVE FieldInv(fd)'
  <2>1. CASE fd = "photo"
    <3>1. "photo" \in crossed'
      BY <1>4, <1>7, <2>1
    <3>2. QED
      BY <2>1, <3>1 DEF FieldInv
  <2>2. CASE fd # "photo"
    <3>1. Of(fd)' = Of(fd)
      BY <1>1, <1>2, <1>3, <1>7 DEF Of
    <3>2. form'[fd] = form[fd] /\ profile'[fd] = profile[fd]
      BY <1>7
    <3>3. fd = "name" => form'.name = form.name
      BY <1>7
    <3>4. QED
      BY <1>4, <2>2, <3>1, <3>2, <3>3, FieldStays DEF ProfileInv
  <2>3. QED
    BY <2>1, <2>2
<1>8. FieldInv(own)'
  <2>1. SUFFICES ASSUME own \notin crossed' PROVE FieldInv(own)'
    BY DEF FieldInv
  <2>2. \A p \in profileCalls : p.op \notin {"load", own}
    BY <1>4, <2>1
  <2>3. own = "photo" => \A p \in profileCalls : p.op \notin P!Fields
    BY <1>4, <2>1
  <2>4. Of(own)' = {q}
    BY <1>2, <1>3, <2>2 DEF Of
  <2>5. own = "photo" => \A p \in profileCalls' : p.op \notin {"name", "presence"}
    BY <1>2, <1>3, <2>3 DEF P!Fields
  <2>6. \A p \in Of(own)' : p.op = own /\ form'[own] = p.to /\ ~p.done
    BY <1>2, <2>4
  <2>7. QED
    BY <1>1, <2>4, <2>5, <2>6 DEF FieldInv
<1>9. QED
  BY <1>5, <1>6, <1>7, <1>8 DEF ProfileInv

LEMMA PhotoSafe == ASSUME ProfileInv, NEW to \in Photos \cup {none}, P!ChoosePhoto(to) PROVE ProfileInv'
<1>1. /\ form' = [form EXCEPT !.photo = to] /\ cache' = [cache EXCEPT !.photo = to] /\ P!Write("photo", to)
      /\ UNCHANGED <<profile, prefs, page, fieldEdited, shownPrefs, session>>
  BY DEF P!ChoosePhoto
<1>2. P!TypeOK
  BY DEF ProfileInv, ProfileTypes
<1>3. crossed' \subseteq P!Fields \cup {"prefs"}
  BY <1>1, <1>2 DEF P!Write, P!TypeOK, P!Fields
<1>4. P!TypeOK'
  BY <1>1, <1>2, <1>3 DEF P!TypeOK
<1>5. /\ form'["photo"] = to /\ form["photo"] \in Photos \cup {none} /\ form'.name = form.name
      /\ form'["name"] = form["name"] /\ form'["presence"] = form["presence"]
  BY <1>1, <1>2 DEF P!TypeOK
<1>6. \A fd \in P!Fields \ {"photo"} : form'[fd] = form[fd]
  BY <1>5 DEF P!Fields
<1>7. to \in Written /\ form["photo"] \in Written /\ "photo" \in P!Fields
  BY <1>5 DEF Written, P!Fields
<1>8. QED
  BY <1>1, <1>4, <1>5, <1>6, <1>7, WriteSafe

LEMMA NameSafe == ASSUME ProfileInv, NEW to \in Names \cup {none}, P!SaveName(to) PROVE ProfileInv'
<1>1. /\ form' = [form EXCEPT !.name = to] /\ cache' = [cache EXCEPT !.name = to] /\ P!Write("name", to)
      /\ fieldEdited' = "nothing" /\ UNCHANGED <<profile, prefs, page, shownPrefs, session>>
  BY DEF P!SaveName
<1>2. P!TypeOK
  BY DEF ProfileInv, ProfileTypes
<1>3. crossed' \subseteq P!Fields \cup {"prefs"}
  BY <1>1, <1>2 DEF P!Write, P!TypeOK, P!Fields
<1>4. P!TypeOK'
  BY <1>1, <1>2, <1>3 DEF P!TypeOK, P!Edits
<1>5. /\ form'["name"] = to /\ form["name"] \in Names \cup {none}
      /\ form'["photo"] = form["photo"] /\ form'["presence"] = form["presence"]
  BY <1>1, <1>2 DEF P!TypeOK
<1>6. \A fd \in P!Fields \ {"name"} : form'[fd] = form[fd]
  BY <1>5 DEF P!Fields
<1>7. to \in Written /\ form["name"] \in Written /\ "name" \in P!Fields
  BY <1>5 DEF Written, P!Fields
<1>8. QED
  BY <1>1, <1>4, <1>5, <1>6, <1>7, WriteSafe

LEMMA PresenceSafe == ASSUME ProfileInv, NEW to \in Presences, P!SavePresence(to) PROVE ProfileInv'
<1>1. /\ form' = [form EXCEPT !.presence = to] /\ P!Write("presence", to)
      /\ UNCHANGED <<profile, prefs, cache, page, fieldEdited, shownPrefs, session>>
  BY DEF P!SavePresence
<1>2. P!TypeOK
  BY DEF ProfileInv, ProfileTypes
<1>3. crossed' \subseteq P!Fields \cup {"prefs"}
  BY <1>1, <1>2 DEF P!Write, P!TypeOK, P!Fields
<1>4. P!TypeOK'
  BY <1>1, <1>2, <1>3 DEF P!TypeOK
<1>5. /\ form'["presence"] = to /\ form["presence"] \in Presences /\ form'.name = form.name
      /\ form'["photo"] = form["photo"] /\ form'["name"] = form["name"]
  BY <1>1, <1>2 DEF P!TypeOK
<1>6. \A fd \in P!Fields \ {"presence"} : form'[fd] = form[fd]
  BY <1>5 DEF P!Fields
<1>7. to \in Written /\ form["presence"] \in Written /\ "presence" \in P!Fields
  BY <1>5 DEF Written, P!Fields
<1>8. QED
  BY <1>1, <1>4, <1>5, <1>6, <1>7, WriteSafe

\* Other calls begin and end.
LEMMA FieldsStay ==
  ASSUME ProfileInv, UNCHANGED <<profile, page>>, \A fd \in P!Fields : form'[fd] = form[fd], form'.name = form.name,
         crossed \subseteq crossed',
         \A q \in profileCalls' : q.op \in P!Fields \cup {"load"} => q \in profileCalls,
         \A q \in profileCalls : q.op \in P!Fields \cup {"load"} => q \in profileCalls'
  PROVE  \A fd \in P!Fields : FieldInv(fd)'
<1>1. ASSUME NEW fd \in P!Fields PROVE FieldInv(fd)'
  <2>1. Of(fd)' = Of(fd)
    BY DEF Of
  <2>2. fd = "photo" => \A q \in profileCalls' : q.op \in {"name", "presence"} => q \in profileCalls
    BY DEF P!Fields
  <2>3. QED
    BY <2>1, <2>2, FieldStays DEF ProfileInv
<1>2. QED
  BY <1>1

LEMMA EditSafe ==
  ASSUME ProfileInv, (\E e \in P!Edits : P!Edit(e)) \/ (\E card \in Cards : P!SaveCard(card)) \/ P!SignOut
  PROVE  ProfileInv'
<1>1. P!TypeOK
  BY DEF ProfileInv, ProfileTypes
<1>2. /\ UNCHANGED <<profile, prefs, page, shownPrefs, crossed>>
      /\ profileCalls' = profileCalls \/ profileCalls' = profileCalls \cup {P!Call("logout", none, none)}
  BY DEF P!Edit, P!SaveCard, P!SignOut
<1>3. /\ P!TypeOK' /\ form'["photo"] = form["photo"] /\ form'["name"] = form["name"]
      /\ form'["presence"] = form["presence"] /\ form'.name = form.name
  BY <1>1 DEF P!TypeOK, P!Edit, P!SaveCard, P!SignOut, P!Edits
<1>4. \A fd \in P!Fields : form'[fd] = form[fd]
  BY <1>3 DEF P!Fields
<1> DEFINE q == P!Call("logout", none, none)
<1>5. q \in ProfileCall /\ q.op = "logout"
  BY <1>1, NewProfileCall DEF P!Call, ProfileInv, P!TypeOK, Written, ProfileOps
<1>6. profileCalls' = profileCalls \/ profileCalls' = profileCalls \cup {q}
  BY <1>2
<1> HIDE DEF q
<1>7. ProfileTypes'
  <2>1. Carries(q)
    BY <1>5 DEF Carries
  <2>2. QED
    BY <1>3, <1>5, <1>6, <2>1 DEF ProfileInv, ProfileTypes, Carries
<1>8. PrefsInv'
  <2>1. OfPrefs' = OfPrefs
    BY <1>5, <1>6 DEF OfPrefs
  <2>2. QED
    BY <1>2, <2>1, PrefsStay DEF ProfileInv
<1>9. \A fd \in P!Fields : FieldInv(fd)'
  BY <1>2, <1>3, <1>4, <1>5, <1>6, FieldsStay DEF P!Fields
<1>10. QED
  BY <1>7, <1>8, <1>9 DEF ProfileInv

\* A page opens with everything it asks for still to come.
LEMMA OpenPageSafe == ASSUME ProfileInv, NEW p \in P!Pages, P!Open(p) PROVE ProfileInv'
<1> DEFINE load == [P!Call("load", none, none) EXCEPT !.page = p]
           loadPrefs == [P!Call("loadPrefs", none, none) EXCEPT !.page = p]
<1>1. P!TypeOK
  BY DEF ProfileInv, ProfileTypes
<1>2. /\ page' = p /\ fieldEdited' = "nothing" /\ shownPrefs' = none
      /\ form' = (IF p = "account" THEN P!Blank
                  ELSE [P!Blank EXCEPT !.name = IF cache.name # none THEN cache.name ELSE UserName, !.card = cache.card])
      /\ crossed' = (IF profileCalls = {} THEN {} ELSE P!Fields \cup {"prefs"})
      /\ UNCHANGED <<profile, prefs, cache, session>>
  BY DEF P!Open
<1>3. profileCalls' = profileCalls \cup {load, loadPrefs}
  <2>1. profileCalls' = profileCalls \cup {[P!Call(op, none, none) EXCEPT !.page = p] : op \in {"load", "loadPrefs"}}
    BY DEF P!Open
  <2>2. {[P!Call(op, none, none) EXCEPT !.page = p] : op \in {"load", "loadPrefs"}} = {load, loadPrefs}
    OBVIOUS
  <2>3. QED
    BY <2>1, <2>2
<1>4. /\ load \in ProfileCall /\ load.op = "load" /\ ~load.done
      /\ loadPrefs \in ProfileCall /\ loadPrefs.op = "loadPrefs" /\ loadPrefs.page = p /\ ~loadPrefs.done
      /\ loadPrefs.reply = none
  BY <1>1 DEF P!Call, ProfileCall, ProfileOps, Written, P!TypeOK
<1> HIDE DEF load, loadPrefs
<1>5. ProfileTypes'
  <2>1. Carries(load) /\ Carries(loadPrefs)
    BY <1>4 DEF Carries
  <2>2. form' \in [photo: Photos \cup {none}, name: Names \cup {none}, presence: Presences, card: Cards]
    <3> DEFINE local == IF cache.name # none THEN cache.name ELSE UserName
    <3>1. local \in Names \cup {none} /\ cache.card \in Cards
      BY <1>1, ProfileNames DEF P!TypeOK
    <3> HIDE DEF local
    <3>2. P!Blank \in [photo: Photos \cup {none}, name: Names \cup {none}, presence: Presences, card: Cards]
      BY ProfileNames
    <3>3. form' = P!Blank \/ form' = [P!Blank EXCEPT !.name = local, !.card = cache.card]
      BY <1>2 DEF local
    <3>4. QED
      BY <3>1, <3>2, <3>3
  <2>3. P!TypeOK'
    BY <1>1, <1>2, <2>2 DEF P!TypeOK, P!Edits
  <2>4. QED
    BY <1>3, <1>4, <2>1, <2>3 DEF ProfileInv, ProfileTypes, Carries
<1>6. CASE profileCalls = {}
  <2>1. profileCalls' = {load, loadPrefs}
    BY <1>3, <1>6
  <2>2. OfPrefs' = {loadPrefs}
    BY <1>4, <2>1 DEF OfPrefs
  <2>3. PrefsInv'
    BY <1>2, <1>4, <2>2 DEF PrefsInv
  <2>4. ASSUME NEW fd \in P!Fields PROVE FieldInv(fd)'
    <3>1. Of(fd)' = {load} /\ fd # "load"
      BY <1>4, <2>1 DEF Of, P!Fields
    <3>2. \A q \in profileCalls' : q.op \notin {"name", "presence"}
      BY <1>4, <2>1
    <3>3. QED
      BY <1>4, <3>1, <3>2 DEF FieldInv
  <2>5. QED
    BY <1>5, <2>3, <2>4 DEF ProfileInv
<1>7. CASE profileCalls # {}
  <2>1. crossed' = P!Fields \cup {"prefs"}
    BY <1>2, <1>7
  <2>2. QED
    BY <1>5, <2>1 DEF ProfileInv, FieldInv, PrefsInv
<1>8. QED
  BY <1>6, <1>7

\* What is left of the calls of a page that is left.
LEMMA LeftCalls ==
  ASSUME NEW cs, cs \subseteq ProfileCall, \A q \in cs : Carries(q)
  PROVE  P!Left(cs) \subseteq ProfileCall /\ \A q \in P!Left(cs) : Carries(q)
<1>1. ASSUME NEW r \in P!Left(cs) PROVE r \in ProfileCall /\ Carries(r)
  <2>1. PICK q \in cs : r = [q EXCEPT !.page = IF q.op = "photo" /\ q.page \in {"account", "gone"} THEN "gone" ELSE ""]
    BY <1>1 DEF P!Left
  <2>2. PICK at \in {"", "gone"} : r = [q EXCEPT !.page = at]
    BY <2>1
  <2>3. q \in ProfileCall /\ Carries(q)
    OBVIOUS
  <2>4. r \in ProfileCall /\ r.op = q.op /\ r.to = q.to /\ r.old = q.old /\ r.done = q.done /\ r.reply = q.reply
    BY <2>2, <2>3 DEF ProfileCall
  <2>5. QED
    BY <2>3, <2>4 DEF Carries
<1>2. QED
  BY <1>1

LEMMA LeaveSafely ==
  ASSUME ProfileInv, P!GoBack \/ \E q \in profileCalls : P!SignedOut(q)
  PROVE  ProfileInv'
<1>1. P!TypeOK /\ profileCalls \subseteq ProfileCall /\ \A q \in profileCalls : Carries(q)
  BY DEF ProfileInv, ProfileTypes
<1>2. /\ page' = "" /\ form' = P!Blank /\ fieldEdited' = "nothing" /\ shownPrefs' = none
      /\ session' \in {"in", "leaving", "out"} /\ UNCHANGED <<profile, prefs, cache, crossed>>
  BY <1>1 DEF P!GoBack, P!SignedOut, P!TypeOK
<1>3. \E cs \in SUBSET profileCalls : profileCalls' = P!Left(cs)
  BY DEF P!GoBack, P!SignedOut
<1>4. profileCalls' \subseteq ProfileCall /\ \A q \in profileCalls' : Carries(q)
  BY <1>1, <1>3, LeftCalls
<1>5. form' \in [photo: Photos \cup {none}, name: Names \cup {none}, presence: Presences, card: Cards]
  <2>1. form' = [photo |-> none, name |-> none, presence |-> "active", card |-> P!Blank.card]
    BY <1>2, ProfileNames
  <2>2. QED
    BY <2>1, ProfileNames
<1>6. P!TypeOK'
  BY <1>1, <1>2, <1>5 DEF P!TypeOK, P!Edits
<1>7. ProfileTypes'
  BY <1>4, <1>6 DEF ProfileTypes, Carries
<1>8. QED
  BY <1>2, <1>7, ProfileLeft

\* What the server makes of an update.
LEMMA ServedProfile ==
  ASSUME ProfileTypes, NEW q \in profileCalls
  PROVE  /\ P!Updated(q) \in ProfileRow
         /\ q.op \notin P!Fields => P!Updated(q) = profile
         /\ q.op = "photo" => P!Updated(q).photo = q.to
         /\ q.op # "name" => P!Updated(q).name = profile.name
         /\ q.op = "name" => P!Updated(q).name = IF q.to = none THEN profile.name ELSE q.to
         /\ q.op # "presence" => P!Updated(q).presence = profile.presence
         /\ q.op = "presence" => P!Updated(q).presence = q.to
<1>1. profile \in ProfileRow /\ Carries(q)
  BY DEF ProfileTypes, P!TypeOK, ProfileRow
<1>2. CASE q.op = "photo"
  <2>1. P!Updated(q) = [profile EXCEPT !.photo = q.to]
    BY <1>2 DEF P!Updated
  <2>2. QED
    BY <1>1, <1>2, <2>1 DEF ProfileRow, Carries, P!Fields
<1>3. CASE q.op = "name"
  <2> DEFINE name == IF q.to = none THEN profile.name ELSE q.to
  <2>1. P!Updated(q) = [profile EXCEPT !.photo = none, !.name = name]
    BY <1>3 DEF P!Updated
  <2>2. name \in Names
    BY <1>1, <1>3 DEF ProfileRow, Carries
  <2>3. q.op = "name" => name = IF q.to = none THEN profile.name ELSE q.to
    OBVIOUS
  <2> HIDE DEF name
  <2>4. P!Updated(q) \in ProfileRow /\ P!Updated(q).name = name /\ P!Updated(q).presence = profile.presence
    BY <1>1, <2>1, <2>2 DEF ProfileRow
  <2>5. QED
    BY <1>3, <2>3, <2>4 DEF P!Fields
<1>4. CASE q.op = "presence"
  <2>1. P!Updated(q) = [profile EXCEPT !.photo = none, !.presence = q.to]
    BY <1>4 DEF P!Updated
  <2>2. QED
    BY <1>1, <1>4, <2>1 DEF ProfileRow, Carries, P!Fields
<1>5. CASE q.op \notin P!Fields
  <2>1. P!Updated(q) = profile
    BY <1>5 DEF P!Updated, P!Fields
  <2>2. QED
    BY <1>1, <1>5, <2>1 DEF P!Fields
<1>6. QED
  BY <1>2, <1>3, <1>4, <1>5 DEF P!Fields

LEMMA ServeProfileSafe == ASSUME ProfileInv, NEW q \in profileCalls, P!Serve(q) PROVE ProfileInv'
<1> DEFINE reply == IF q.op = "load" THEN {profile} ELSE IF q.op \in {"prefs", "loadPrefs"} THEN prefs' ELSE none
           r == [q EXCEPT !.done = TRUE, !.reply = reply]
<1>1. /\ ProfileTypes /\ P!TypeOK /\ q \in ProfileCall /\ Carries(q) /\ ~q.done
  BY DEF ProfileInv, ProfileTypes, P!Serve
<1>2. /\ profile' = P!Updated(q) /\ prefs' = (IF q.op = "prefs" THEN q.to ELSE prefs)
      /\ UNCHANGED <<cache, page, form, fieldEdited, shownPrefs, session, crossed>>
  BY DEF P!Serve
<1>3. profileCalls' = (profileCalls \ {q}) \cup {r}
  BY DEF P!Serve
<1>4. profile' \in ProfileRow /\ prefs' \subseteq Kinds
  BY <1>1, <1>2, ServedProfile DEF P!TypeOK, Carries
<1>5. /\ reply \in {none} \cup (SUBSET Kinds) \cup (SUBSET ProfileRow)
      /\ q.op = "load" => reply = {profile} /\ profile \in ProfileRow
      /\ q.op \in {"prefs", "loadPrefs"} => reply = prefs' /\ reply \in SUBSET Kinds
  BY <1>1, <1>4 DEF P!TypeOK, ProfileRow
<1> HIDE DEF reply
<1>6. /\ r \in ProfileCall /\ r.op = q.op /\ r.to = q.to /\ r.old = q.old /\ r.page = q.page /\ r.done
      /\ r.reply = reply
  BY <1>1, <1>5 DEF ProfileCall
<1> HIDE DEF r
<1>7. ProfileTypes'
  <2>1. Carries(r)
    BY <1>1, <1>5, <1>6 DEF Carries
  <2>2. P!TypeOK'
    BY <1>1, <1>2, <1>4 DEF P!TypeOK, ProfileRow
  <2>3. QED
    BY <1>1, <1>3, <1>6, <2>1, <2>2 DEF ProfileTypes, Carries
<1>8. PrefsInv'
  <2>1. CASE q.op \in {"loadPrefs", "prefs"}
    <3>1. SUFFICES ASSUME page # "", "prefs" \notin crossed PROVE PrefsInv'
      BY <1>2 DEF PrefsInv
    <3>2. q \in OfPrefs /\ \A p \in OfPrefs : p = q
      BY <2>1, <3>1 DEF OfPrefs, ProfileInv, PrefsInv
    <3>3. OfPrefs' = {r}
      BY <1>3, <1>6, <2>1, <3>2 DEF OfPrefs
    <3>4. q.page = page /\ (q.op = "loadPrefs" => shownPrefs = none) /\ (q.op = "prefs" => shownPrefs = q.to)
      BY <3>1, <3>2 DEF ProfileInv, PrefsInv
    <3>5. r.page = page' /\ (r.op = "loadPrefs" => shownPrefs' = none /\ r.reply = prefs')
          /\ (r.op = "prefs" => shownPrefs' = r.to /\ r.to = prefs' /\ r.reply = prefs')
      BY <1>2, <1>5, <1>6, <3>4
    <3>6. QED
      BY <1>6, <3>3, <3>5 DEF PrefsInv
  <2>2. CASE q.op \notin {"loadPrefs", "prefs"}
    <3>1. OfPrefs' = OfPrefs
      BY <1>3, <1>6, <2>2 DEF OfPrefs
    <3>2. QED
      BY <1>2, <2>2, <3>1, PrefsStay DEF ProfileInv
  <2>3. QED
    BY <2>1, <2>2
<1>9. ASSUME NEW fd \in P!Fields PROVE FieldInv(fd)'
  <2>1. SUFFICES ASSUME page # "", fd \notin crossed PROVE FieldInv(fd)'
    BY <1>2 DEF FieldInv
  <2>2. FieldInv(fd)
    BY DEF ProfileInv
  <2>3. fd = "photo" => q.op \notin {"name", "presence"}
    BY <2>1, <2>2 DEF FieldInv
  <2>4. q.op # fd => profile'[fd] = profile[fd]
    <3>1. CASE fd = "photo"
      BY <1>1, <1>2, <2>3, <3>1, ServedProfile DEF P!Fields
    <3>2. CASE fd = "name"
      BY <1>1, <1>2, <3>2, ServedProfile
    <3>3. CASE fd = "presence"
      BY <1>1, <1>2, <3>3, ServedProfile
    <3>4. QED
      BY <3>1, <3>2, <3>3 DEF P!Fields
  <2>5. CASE q.op \notin {"load", fd}
    <3>1. Of(fd)' = Of(fd)
      BY <1>3, <1>6, <2>5 DEF Of
    <3>2. fd = "photo" => \A p \in profileCalls' : p.op \in {"name", "presence"} => p \in profileCalls
      BY <1>3, <1>6, <2>3
    <3>3. QED
      BY <1>2, <2>2, <2>4, <2>5, <3>1, <3>2, FieldStays
  <2>6. CASE q.op \in {"load", fd}
    <3>1. q \in Of(fd) /\ \A p \in Of(fd) : p = q
      BY <2>1, <2>2, <2>6 DEF Of, FieldInv
    <3>2. Of(fd)' = {r}
      BY <1>3, <1>6, <2>6, <3>1 DEF Of
    <3>3. fd = "photo" => \A p \in profileCalls' : p.op \notin {"name", "presence"}
      BY <1>3, <1>6, <2>1, <2>2, <2>3 DEF FieldInv
    <3>4. r.op = "load" => \A p \in r.reply : p[fd] = profile'[fd]
      BY <1>5, <1>6, <2>4 DEF P!Fields
    <3>5. r.op = fd => form'[fd] = r.to /\ Same(fd)'
      <4>1. SUFFICES ASSUME q.op = fd PROVE form'[fd] = q.to /\ Same(fd)'
        BY <1>6
      <4>2. form[fd] = q.to
        BY <2>1, <2>2, <3>1, <4>1 DEF FieldInv
      <4>3. CASE fd = "photo"
        BY <1>1, <1>2, <4>1, <4>2, <4>3, ServedProfile DEF Same
      <4>4. CASE fd = "name"
        BY <1>1, <1>2, <4>1, <4>2, <4>4, ServedProfile DEF Same
      <4>5. CASE fd = "presence"
        BY <1>1, <1>2, <4>1, <4>2, <4>5, ServedProfile DEF Same
      <4>6. QED
        BY <4>3, <4>4, <4>5 DEF P!Fields
    <3>6. QED
      BY <3>2, <3>3, <3>4, <3>5 DEF FieldInv
  <2>7. QED
    BY <2>5, <2>6
<1>10. QED
  BY <1>7, <1>8, <1>9 DEF ProfileInv

\* Fewer calls are as well typed.
LEMMA TakenTypes ==
  ASSUME ProfileTypes, NEW q \in profileCalls, profileCalls' = profileCalls \ {q}, P!TypeOK'
  PROVE  ProfileTypes'
BY DEF ProfileTypes, Carries

LEMMA ProfileAnsweredSafe == ASSUME ProfileInv, NEW q \in profileCalls, P!ProfileAnswered(q) PROVE ProfileInv'
<1> DEFINE held == CHOOSE p \in q.reply : TRUE
           photo == IF held.photo # none THEN held.photo ELSE IF page = "account" THEN cache.photo ELSE form.photo
<1>1. P!TypeOK /\ ProfileTypes /\ Carries(q)
  BY DEF ProfileInv, ProfileTypes
<1>2. /\ q.op = "load" /\ q.done /\ profileCalls' = profileCalls \ {q}
      /\ form' = [form EXCEPT !.photo = photo, !.name = held.name, !.presence = held.presence]
      /\ cache' = (IF page = "account" /\ photo # none THEN [cache EXCEPT !.photo = photo] ELSE cache)
      /\ crossed' = (IF photo # held.photo THEN crossed \cup {"photo"} ELSE crossed)
      /\ UNCHANGED <<profile, prefs, page, fieldEdited, shownPrefs, session>>
  BY DEF P!ProfileAnswered, P!Take
<1>3. held \in ProfileRow /\ q.reply = {held}
  <2>1. PICK p \in ProfileRow : q.reply = {p}
    BY <1>1, <1>2 DEF Carries
  <2>2. QED
    BY <2>1
<1>4. photo \in Photos \cup {none}
  BY <1>1, <1>3 DEF P!TypeOK, ProfileRow
<1> HIDE DEF held, photo
<1>5. P!TypeOK'
  <2>1. form' \in [photo: Photos \cup {none}, name: Names \cup {none}, presence: Presences, card: Cards]
    BY <1>1, <1>2, <1>3, <1>4 DEF P!TypeOK, ProfileRow
  <2>2. cache' \in [photo: Photos \cup {none}, name: Names \cup {none}, card: Cards]
    BY <1>1, <1>2, <1>4 DEF P!TypeOK
  <2>3. crossed' \subseteq P!Fields \cup {"prefs"}
    BY <1>1, <1>2 DEF P!TypeOK, P!Fields
  <2>4. QED
    BY <1>1, <1>2, <2>1, <2>2, <2>3 DEF P!TypeOK
<1>6. ProfileTypes'
  BY <1>1, <1>2, <1>5, TakenTypes
<1>7. PrefsInv'
  <2>1. OfPrefs' = OfPrefs /\ crossed \subseteq crossed'
    BY <1>2 DEF OfPrefs
  <2>2. QED
    BY <1>2, <2>1, PrefsStay DEF ProfileInv
<1>8. form'["photo"] = photo /\ form'["name"] = held.name /\ form'["presence"] = held.presence
  BY <1>1, <1>2 DEF P!TypeOK
<1>9. ASSUME NEW fd \in P!Fields PROVE FieldInv(fd)'
  <2>1. SUFFICES ASSUME page # "", fd \notin crossed' PROVE FieldInv(fd)'
    BY <1>2 DEF FieldInv
  <2>2. FieldInv(fd) /\ fd \notin crossed
    BY <1>2, <2>1 DEF ProfileInv
  <2>3. q \in Of(fd) /\ \A p \in Of(fd) : p = q
    BY <1>2, <2>1, <2>2 DEF Of, FieldInv
  <2>4. Of(fd)' = {}
    BY <1>2, <2>3 DEF Of
  <2>5. held[fd] = profile[fd]
    BY <1>2, <1>3, <2>1, <2>2, <2>3 DEF FieldInv
  <2>6. form'[fd] = held[fd]
    <3>1. CASE fd = "photo"
      BY <1>2, <1>8, <2>1, <3>1
    <3>2. CASE fd = "name" \/ fd = "presence"
      BY <1>8, <3>2
    <3>3. QED
      BY <3>1, <3>2 DEF P!Fields
  <2>7. fd = "photo" => \A p \in profileCalls' : p.op \notin {"name", "presence"}
    BY <1>2, <2>1, <2>2 DEF FieldInv
  <2>8. QED
    BY <1>2, <2>4, <2>5, <2>6, <2>7 DEF FieldInv, Same
<1>10. QED
  BY <1>6, <1>7, <1>9 DEF ProfileInv

LEMMA ProfileFailedSafe == ASSUME ProfileInv, NEW q \in profileCalls, P!ProfileFailed(q) PROVE ProfileInv'
<1> DEFINE name == IF page = "workspace" THEN form.name ELSE IF cache.name # none THEN cache.name ELSE UserName
<1>1. P!TypeOK /\ ProfileTypes
  BY DEF ProfileInv, ProfileTypes
<1>2. /\ q.op = "load" /\ profileCalls' = profileCalls \ {q}
      /\ form' = [form EXCEPT !.photo = cache.photo, !.name = name]
      /\ crossed' = crossed \cup P!Fields
      /\ UNCHANGED <<profile, prefs, cache, page, fieldEdited, shownPrefs, session>>
  BY DEF P!ProfileFailed, P!Take
<1>3. name \in Names \cup {none} /\ cache.photo \in Photos \cup {none}
  BY <1>1, ProfileNames DEF P!TypeOK
<1> HIDE DEF name
<1>4. P!TypeOK'
  <2>1. form' \in [photo: Photos \cup {none}, name: Names \cup {none}, presence: Presences, card: Cards]
    BY <1>1, <1>2, <1>3 DEF P!TypeOK
  <2>2. crossed' \subseteq P!Fields \cup {"prefs"}
    BY <1>1, <1>2 DEF P!TypeOK
  <2>3. QED
    BY <1>1, <1>2, <2>1, <2>2 DEF P!TypeOK
<1>5. ProfileTypes'
  BY <1>1, <1>2, <1>4, TakenTypes
<1>6. PrefsInv'
  <2>1. OfPrefs' = OfPrefs /\ crossed \subseteq crossed'
    BY <1>2 DEF OfPrefs
  <2>2. QED
    BY <1>2, <2>1, PrefsStay DEF ProfileInv
<1>7. QED
  BY <1>2, <1>5, <1>6 DEF ProfileInv, FieldInv

\* An update is answered; or it failed, and its field, like the photo, is given up.
LEMMA WriteEndSafe ==
  ASSUME ProfileInv, NEW q \in profileCalls, P!WriteAnswered(q) \/ P!WriteFailed(q)
  PROVE  ProfileInv'
<1>1. P!TypeOK /\ ProfileTypes /\ Carries(q)
  BY DEF ProfileInv, ProfileTypes
<1>2. /\ q.op \in P!Fields /\ profileCalls' = profileCalls \ {q} /\ crossed \subseteq crossed'
      /\ UNCHANGED <<profile, prefs, page, fieldEdited, shownPrefs, session>>
  BY DEF P!WriteAnswered, P!WriteFailed, P!Take
<1>3. \/ q.done /\ UNCHANGED <<form, cache, crossed>>
      \/ /\ crossed' = crossed \cup {q.op, "photo"}
         /\ form' = form \/ (q.op = "photo" /\ form' = [form EXCEPT !.photo = q.old])
         /\ cache' = cache \/ (q.op = "photo" /\ cache' = [cache EXCEPT !.photo = q.old])
  BY DEF P!WriteAnswered, P!WriteFailed
<1>4. q.op = "photo" => q.old \in Photos \cup {none}
  BY <1>1 DEF Carries
<1>5. P!TypeOK'
  <2>1. form' \in [photo: Photos \cup {none}, name: Names \cup {none}, presence: Presences, card: Cards]
    BY <1>1, <1>3, <1>4 DEF P!TypeOK
  <2>2. cache' \in [photo: Photos \cup {none}, name: Names \cup {none}, card: Cards]
    BY <1>1, <1>3, <1>4 DEF P!TypeOK
  <2>3. crossed' \subseteq P!Fields \cup {"prefs"}
    BY <1>1, <1>2, <1>3 DEF P!TypeOK, P!Fields
  <2>4. QED
    BY <1>1, <1>2, <2>1, <2>2, <2>3 DEF P!TypeOK
<1>6. ProfileTypes'
  BY <1>1, <1>2, <1>5, TakenTypes
<1>7. PrefsInv'
  <2>1. OfPrefs' = OfPrefs
    BY <1>2 DEF OfPrefs, P!Fields
  <2>2. QED
    BY <1>2, <2>1, PrefsStay DEF ProfileInv
<1>8. form'["name"] = form["name"] /\ form'["presence"] = form["presence"] /\ form'.name = form.name
  BY <1>1, <1>3 DEF P!TypeOK
<1>9. ASSUME NEW fd \in P!Fields PROVE FieldInv(fd)'
  <2>1. SUFFICES ASSUME page # "", fd \notin crossed' PROVE FieldInv(fd)'
    BY <1>2 DEF FieldInv
  <2>2. FieldInv(fd) /\ fd \notin crossed
    BY <1>2, <2>1 DEF ProfileInv
  <2>3. form'[fd] = form[fd]
    BY <1>3, <1>8, <2>1 DEF P!Fields
  <2>4. fd = "photo" => \A p \in profileCalls' : p.op \notin {"name", "presence"}
    BY <1>2, <2>1, <2>2 DEF FieldInv
  <2>5. CASE q.op # fd
    <3>1. Of(fd)' = Of(fd)
      BY <1>2, <2>5 DEF Of, P!Fields
    <3>2. QED
      BY <1>2, <1>8, <2>2, <2>3, <2>4, <3>1, FieldStays
  <2>6. CASE q.op = fd
    <3>1. q.done /\ UNCHANGED form
      BY <1>3, <2>1, <2>6
    <3>2. q \in Of(fd) /\ \A p \in Of(fd) : p = q
      BY <2>1, <2>2, <2>6 DEF Of, FieldInv
    <3>3. Of(fd)' = {}
      BY <1>2, <3>2 DEF Of
    <3>4. Same(fd)
      BY <2>1, <2>2, <2>6, <3>1, <3>2 DEF FieldInv
    <3>5. Same(fd)'
      BY <1>2, <3>1, <3>4 DEF Same
    <3>6. QED
      BY <2>4, <3>3, <3>5 DEF FieldInv
  <2>7. QED
    BY <2>5, <2>6
<1>10. QED
  BY <1>6, <1>7, <1>9 DEF ProfileInv

\* The preferences: only one call of the page at a time.
LEMMA UpdatePrefsSafe == ASSUME ProfileInv, NEW k \in Kinds, P!UpdateNotification(k) PROVE ProfileInv'
<1> DEFINE next == IF k \in shownPrefs THEN shownPrefs \ {k} ELSE shownPrefs \cup {k}
           q == P!Call("prefs", next, shownPrefs)
<1>1. P!TypeOK /\ ProfileTypes
  BY DEF ProfileInv, ProfileTypes
<1>2. /\ page # "" /\ shownPrefs # none /\ \A p \in profileCalls : ~(p.op = "prefs" /\ p.page = page)
      /\ shownPrefs' = next /\ profileCalls' = profileCalls \cup {q}
      /\ UNCHANGED <<profile, prefs, cache, page, form, fieldEdited, session, crossed>>
  BY DEF P!UpdateNotification, P!Saving
<1>3. shownPrefs \in SUBSET Kinds /\ next \in SUBSET Kinds
  BY <1>1, <1>2 DEF P!TypeOK
<1> HIDE DEF next
<1>4. next \in Written /\ shownPrefs \in Written /\ page \in P!Pages
  BY <1>1, <1>2, <1>3 DEF Written, P!TypeOK
<1>5. q \in ProfileCall /\ q.op = "prefs" /\ q.to = next /\ q.old = shownPrefs /\ q.page = page /\ ~q.done
  BY <1>1, <1>4, NewProfileCall DEF P!Call, ProfileOps
<1> HIDE DEF q
<1>6. ProfileTypes'
  <2>1. Carries(q)
    BY <1>3, <1>5 DEF Carries
  <2>2. P!TypeOK'
    BY <1>1, <1>2, <1>3 DEF P!TypeOK
  <2>3. QED
    BY <1>1, <1>2, <1>5, <2>1, <2>2 DEF ProfileTypes, Carries
<1>7. \A fd \in P!Fields : FieldInv(fd)'
  BY <1>2, <1>5, FieldsStay DEF P!Fields
<1>8. PrefsInv'
  <2>1. SUFFICES ASSUME "prefs" \notin crossed PROVE PrefsInv'
    BY <1>2 DEF PrefsInv
  <2>2. OfPrefs = {}
    <3>1. ASSUME NEW p \in OfPrefs PROVE FALSE
      <4>1. p.page = page /\ (p.op = "loadPrefs" => shownPrefs = none) /\ p \in profileCalls
            /\ p.op \in {"loadPrefs", "prefs"}
        BY <1>2, <2>1, <3>1 DEF ProfileInv, PrefsInv, OfPrefs
      <4>2. QED
        BY <1>2, <4>1
    <3>2. QED
      BY <3>1
  <2>3. shownPrefs = prefs
    BY <1>2, <2>1, <2>2 DEF ProfileInv, PrefsInv
  <2>4. OfPrefs' = {q}
    BY <1>2, <1>5, <2>2 DEF OfPrefs
  <2>5. QED
    BY <1>2, <1>5, <2>3, <2>4 DEF PrefsInv
<1>9. QED
  BY <1>6, <1>7, <1>8 DEF ProfileInv

LEMMA PrefsEndSafe ==
  ASSUME ProfileInv, NEW q \in profileCalls, P!PrefsLoaded(q) \/ P!PrefsAnswered(q) \/ P!PrefsFailed(q)
  PROVE  ProfileInv'
<1>1. P!TypeOK /\ ProfileTypes /\ Carries(q)
  BY DEF ProfileInv, ProfileTypes
<1>2. /\ q.op \in {"prefs", "loadPrefs"} /\ profileCalls' = profileCalls \ {q} /\ crossed' \in {crossed, crossed \cup {"prefs"}}
      /\ UNCHANGED <<profile, prefs, cache, page, form, fieldEdited, session>>
  BY DEF P!PrefsLoaded, P!PrefsAnswered, P!PrefsFailed, P!Take
<1>3. shownPrefs' = none \/ shownPrefs' \subseteq Kinds
  <2>1. CASE P!PrefsLoaded(q)
    BY <1>1, <2>1 DEF P!PrefsLoaded, P!Take, Carries, ProfileTypes, ProfileCall
  <2>2. CASE P!PrefsAnswered(q)
    BY <1>1, <2>2 DEF P!PrefsAnswered, P!Take, Carries, P!TypeOK
  <2>3. CASE P!PrefsFailed(q)
    BY <1>1, <2>3 DEF P!PrefsFailed, P!Take, Carries, P!TypeOK
  <2>4. QED
    BY <2>1, <2>2, <2>3
<1>4. P!TypeOK'
  BY <1>1, <1>2, <1>3 DEF P!TypeOK
<1>5. ProfileTypes'
  BY <1>1, <1>2, <1>4, TakenTypes
<1>6. \A fd \in P!Fields : FieldInv(fd)'
  BY <1>2, FieldsStay DEF P!Fields
<1>7. PrefsInv'
  <2>1. SUFFICES ASSUME page # "", "prefs" \notin crossed' PROVE PrefsInv'
    BY <1>2 DEF PrefsInv
  <2>2. "prefs" \notin crossed
    BY <1>2, <2>1
  <2>3. q \in OfPrefs /\ \A p \in OfPrefs : p = q
    BY <1>2, <2>1, <2>2 DEF OfPrefs, ProfileInv, PrefsInv
  <2>4. OfPrefs' = {}
    BY <1>2, <2>3 DEF OfPrefs
  <2>5. /\ q.page = page
        /\ q.op = "loadPrefs" => shownPrefs = none /\ (q.done => q.reply = prefs)
        /\ q.op = "prefs" => shownPrefs = q.to /\ IF q.done THEN q.to = prefs /\ q.reply = prefs ELSE q.old = prefs
    BY <2>1, <2>2, <2>3 DEF ProfileInv, PrefsInv
  <2>6. shownPrefs' = none \/ shownPrefs' = prefs
    <3>1. CASE P!PrefsLoaded(q)
      BY <1>1, <2>5, <3>1 DEF P!PrefsLoaded, P!Take, Carries
    <3>2. CASE P!PrefsAnswered(q)
      BY <2>5, <3>2 DEF P!PrefsAnswered, P!Take
    <3>3. CASE P!PrefsFailed(q)
      BY <2>1, <2>5, <3>3 DEF P!PrefsFailed, P!Take, P!Mine
    <3>4. QED
      BY <3>1, <3>2, <3>3
  <2>7. QED
    BY <1>2, <2>4, <2>6 DEF PrefsInv
<1>8. QED
  BY <1>5, <1>6, <1>7 DEF ProfileInv

LEMMA ProfileStep == ASSUME ProfileInv, [Next]_AllVars PROVE ProfileInv'
<1>1. CASE UNCHANGED profileVars
  <2>1. ProfileTypes'
    BY <1>1 DEF profileVars, ProfileInv, ProfileTypes, P!TypeOK, Carries
  <2>2. PrefsInv'
    BY <1>1 DEF profileVars, ProfileInv, PrefsInv, OfPrefs
  <2>3. \A fd \in P!Fields : FieldInv(fd)'
    BY <1>1, FieldsStay DEF profileVars
  <2>4. QED
    BY <2>1, <2>2, <2>3 DEF ProfileInv
<1>2. CASE P!User
  BY <1>2, OpenPageSafe, PhotoSafe, EditSafe, NameSafe, PresenceSafe, UpdatePrefsSafe, LeaveSafely DEF P!User
<1>3. ASSUME NEW q \in profileCalls, P!Network(q) PROVE ProfileInv'
  BY <1>3, ServeProfileSafe, ProfileAnsweredSafe, ProfileFailedSafe, WriteEndSafe, PrefsEndSafe, LeaveSafely DEF P!Network
<1>4. UNCHANGED profileVars \/ P!Next
  BY DEF Next, AllVars
<1>5. QED
  BY <1>1, <1>2, <1>3, <1>4 DEF P!Next

\* Once its calls are answered, a profile page shows what the server holds, in
\* each field none of whose updates failed or overlapped, and the preferences
\* even when an update is refused (both pages' updateNotification, saveAvatar,
\* savePresence and saveProfileField).
THEOREM ProfileShown == Spec => [](P!TypeOK /\ P!ProfileAgrees)
<1>1. ProfileInv => P!TypeOK /\ P!ProfileAgrees
  <2>1. SUFFICES ASSUME ProfileInv PROVE P!ProfileAgrees
    BY DEF ProfileInv, ProfileTypes
  <2>2. ASSUME page # "", NEW fd \in P!Fields, fd \notin crossed, P!Quiet({"load", fd})
        PROVE  form[fd] = profile[fd] \/ (fd = "name" /\ form.name = none)
    <3>1. Of(fd) = {}
      BY <2>2 DEF P!Quiet, Of
    <3>2. QED
      BY <2>1, <2>2, <3>1 DEF ProfileInv, FieldInv, Same
  <2>3. ASSUME page # "", shownPrefs # none, "prefs" \notin crossed, P!Quiet({"prefs", "loadPrefs"})
        PROVE  shownPrefs = prefs
    <3>1. OfPrefs = {}
      BY <2>3 DEF P!Quiet, OfPrefs
    <3>2. QED
      BY <2>1, <2>3, <3>1 DEF ProfileInv, PrefsInv
  <2>4. QED
    BY <2>2, <2>3 DEF P!ProfileAgrees
<1>2. Init => ProfileInv
  BY ProfileInit DEF Init
<1>3. ProfileInv /\ [Next]_AllVars => ProfileInv'
  BY ProfileStep
<1>4. QED
  BY <1>1, <1>2, <1>3, PTL DEF Spec

-----------------------------------------------------------------------------
(* The saved messages, the stars and the roles.  A list nothing of which    *)
(* is in doubt has one call that may change it, and what the others answer  *)
(* is what it shows.                                                        *)

SavedOps == {"listSaved", "unsave", "unsaveLeft", "relistSaved"}
StarOps == {"listStars", "star", "unstar", "relistStars"}
RoleOps == {"members", "role", "remove", "invite"}
RoleMaps == [Members -> L!Roles \cup {"gone"}]

ListCall == [op: SavedOps \cup StarOps \cup RoleOps,
             of: Messages \cup Conversations \cup Members \cup {none}, arg: L!Roles \cup {none},
             n: Nat, alone: BOOLEAN, done: BOOLEAN,
             answer: (SUBSET Messages) \cup (SUBSET Conversations) \cup RoleMaps \cup {none}]

\* What a call is about, by its kind.
FitCall(p) ==
  /\ p.op \in {"unsave", "unsaveLeft"} => p.of \in Messages
  /\ p.op \in {"star", "unstar"} => p.of \in Conversations
  /\ p.op \in {"role", "remove"} => p.of \in Members
  /\ p.op \in {"role", "members"} => p.arg \in L!Roles
  /\ p.done =>
       /\ p.op \in {"listSaved", "relistSaved"} => p.answer \in SUBSET Messages
       /\ p.op \in {"listStars", "relistStars"} => p.answer \in SUBSET Conversations
       /\ p.op = "members" => p.answer \in RoleMaps

ListTypes ==
  /\ stored \in [saved: SUBSET Messages, starred: SUBSET Conversations, roles: RoleMaps]
  /\ later \in [items: SUBSET Messages, removing: Messages \cup {none},
                shelf: [Messages -> L!Shelves], tab: L!Shelves]
  /\ starred \subseteq Conversations
  /\ roster \in [open: BOOLEAN, mine: L!Roles \cup {none}, roles: RoleMaps,
                 busy: Members \cup {none}, link: BOOLEAN, creating: BOOLEAN]
  /\ doubted \subseteq {"saved", "starred", "roles"}
  /\ made \in Nat

\* calls are told apart by their number, and one that began alone is the first of its list
CallInv ==
  /\ \A p \in calls : p \in ListCall /\ FitCall(p) /\ p.n < made
  /\ \A p, q \in calls : p.n = q.n => p = q
  /\ \A p, q \in calls : p.op \in SavedOps /\ q.op \in SavedOps /\ p.n < q.n => ~q.alone
  /\ \A p, q \in calls : p.op \in StarOps /\ q.op \in StarOps /\ p.n < q.n => ~q.alone

SavedInv ==
  /\ \A p \in calls :
       p.op \in {"listSaved", "relistSaved"} /\ p.done
         /\ ((p.alone /\ p.n = made - 1) \/ "saved" \notin doubted) => p.answer = stored.saved
  /\ "saved" \notin doubted =>
       /\ \A p, q \in calls : p.op \in SavedOps /\ q.op \in SavedOps => p = q
       /\ \A p \in calls :
            /\ p.op # "unsaveLeft"
            /\ p.op = "unsave" =>
                 later.items = IF p.done THEN stored.saved ELSE stored.saved \ {p.of}
       /\ (\A p \in calls : p.op \notin SavedOps) => later.items = stored.saved

StarredInv ==
  /\ \A p \in calls :
       p.op \in {"listStars", "relistStars"} /\ p.done
         /\ ((p.alone /\ p.n = made - 1) \/ "starred" \notin doubted) => p.answer = stored.starred
  /\ "starred" \notin doubted =>
       /\ \A p, q \in calls : p.op \in StarOps /\ q.op \in StarOps => p = q
       /\ (\A p \in calls : p.op \notin StarOps) => starred = stored.starred

\* what the server has of a member once the call is served
Rewritten(p, role) == IF p.op = "remove" \/ role = "gone" THEN "gone" ELSE p.arg
Write(p) == p.op \in {"role", "remove"}

RolesInv ==
  /\ ~roster.open => roster.mine = none /\ \A p \in calls : p.op # "members"
  /\ \A p, q \in calls : p.op = "members" /\ q.op = "members" => p = q
  /\ \A p \in calls : p.op = "members" => roster.mine = none /\ (p.done => p.answer = stored.roles)
  /\ roster.mine = none => "roles" \in doubted /\ \A p \in calls : ~Write(p)
  /\ "roles" \notin doubted =>
       /\ \A p, q \in calls : Write(p) /\ Write(q) /\ p.of = q.of => p = q
       /\ \A u \in Members :
            (\A p \in calls : Write(p) /\ p.done => p.of # u) => roster.roles[u] = stored.roles[u]
       /\ \A p \in calls : Write(p) /\ p.done =>
            stored.roles[p.of] = Rewritten(p, roster.roles[p.of])

ListInv == ListTypes /\ CallInv /\ SavedInv /\ StarredInv /\ RolesInv

LEMMA ListsInit == ASSUME L!Init PROVE ListInv
<1>1. ListTypes
  BY PageConstants DEF L!ListsAssumption, L!Init, ListTypes, RoleMaps, L!Roles, L!Shelves
<1>2. QED
  BY <1>1 DEF L!Init, ListInv, CallInv, SavedInv, StarredInv, RolesInv, Write

\* The list a call is of.
LEMMA OfList ==
  /\ \A op : L!ListOf(op) = "saved" <=> op \in SavedOps
  /\ \A op : L!ListOf(op) = "starred" <=> op \in StarOps
  /\ \A op \in RoleOps : L!ListOf(op) = "roles"
  /\ \A op : L!ListOf(op) \in {"saved", "starred", "roles"}
BY DEF L!ListOf, SavedOps, StarOps, RoleOps

\* A call that begins.
LEMMA NewListCall ==
  ASSUME ListInv, NEW op \in SavedOps \cup StarOps \cup RoleOps,
         NEW of \in Messages \cup Conversations \cup Members \cup {none},
         NEW arg \in L!Roles \cup {none}
  PROVE  LET p == L!Call(op, of, arg)
         IN /\ p \in ListCall /\ p.op = op /\ p.of = of /\ p.arg = arg /\ p.n = made /\ ~p.done
            /\ p.alone <=> ~L!Overlaps(op, of)
<1>1. made \in Nat /\ L!Overlaps(op, of) \in BOOLEAN
  BY DEF ListInv, ListTypes, L!Overlaps
<1> DEFINE beside == L!Overlaps(op, of)
<1>2. L!Call(op, of, arg) = [op |-> op, of |-> of, arg |-> arg, n |-> made, alone |-> ~beside,
                             done |-> FALSE, answer |-> none]
  BY DEF L!Call
<1>3. beside \in BOOLEAN
  BY <1>1
<1> HIDE DEF beside
<1>4. /\ L!Call(op, of, arg) \in ListCall
      /\ L!Call(op, of, arg).op = op /\ L!Call(op, of, arg).of = of /\ L!Call(op, of, arg).arg = arg
      /\ L!Call(op, of, arg).n = made /\ ~L!Call(op, of, arg).done
      /\ L!Call(op, of, arg).alone = ~beside
  BY <1>1, <1>2, <1>3 DEF ListCall
<1>5. QED
  BY <1>3, <1>4 DEF beside

LEMMA ListOverlaps ==
  ASSUME ListInv, NEW of
  PROVE  /\ \A op \in SavedOps : L!Overlaps(op, of) <=> \E p \in calls : p.op \in SavedOps
         /\ \A op \in StarOps : L!Overlaps(op, of) <=> \E p \in calls : p.op \in StarOps
         /\ \A op \in RoleOps : L!Overlaps(op, of) <=> \E p \in calls : p.op \in RoleOps /\ p.of = of
<1>1. \A p \in calls : p.op \in SavedOps \cup StarOps \cup RoleOps
  BY DEF ListInv, CallInv, ListCall
<1>2. /\ \A op \in SavedOps : L!ListOf(op) = "saved"
      /\ \A op \in StarOps : L!ListOf(op) = "starred"
      /\ \A op \in RoleOps : L!ListOf(op) = "roles"
      /\ \A op : L!ListOf(op) = "saved" => op \in SavedOps
      /\ \A op : L!ListOf(op) = "starred" => op \in StarOps
  BY OfList
<1>3. \A p \in calls : L!ListOf(p.op) = "roles" <=> p.op \in RoleOps
  BY <1>1, <1>2, OfList
<1>4. QED
  BY <1>2, <1>3 DEF L!Overlaps

\* Another call is made.
LEMMA PostSafe ==
  ASSUME ListInv, NEW op \in SavedOps \cup StarOps \cup RoleOps,
         NEW of \in Messages \cup Conversations \cup Members \cup {none},
         NEW arg \in L!Roles \cup {none},
         op \in {"unsave", "unsaveLeft"} => of \in Messages,
         op \in {"star", "unstar"} => of \in Conversations,
         op \in {"role", "remove"} => of \in Members,
         op \in {"role", "members"} => arg \in L!Roles,
         L!Post(op, of, arg)
  PROVE  /\ CallInv' /\ made' = made + 1 /\ made' \in Nat
         /\ doubted' \subseteq {"saved", "starred", "roles"} /\ doubted \subseteq doubted'
         /\ L!Overlaps(op, of) => doubted' = doubted \cup {L!ListOf(op)}
         /\ ~L!Overlaps(op, of) => doubted' = doubted
         /\ \E p \in ListCall : /\ calls' = calls \cup {p} /\ p \notin calls
                                /\ p.op = op /\ p.of = of /\ p.arg = arg /\ ~p.done
<1> DEFINE p == L!Call(op, of, arg)
<1>1. /\ p \in ListCall /\ p.op = op /\ p.of = of /\ p.arg = arg /\ p.n = made /\ ~p.done
      /\ p.alone <=> ~L!Overlaps(op, of)
  BY NewListCall
<1>2. calls' = calls \cup {p} /\ made' = made + 1 /\ made \in Nat /\ doubted \subseteq {"saved", "starred", "roles"}
  BY DEF L!Post, ListInv, ListTypes
<1>3. doubted' = IF L!Overlaps(op, of) THEN doubted \cup {L!ListOf(op)} ELSE doubted
  BY DEF L!Post
<1> HIDE DEF p
<1>4. FitCall(p)
  BY <1>1 DEF FitCall
<1>5. \A q \in calls : q \in ListCall /\ FitCall(q) /\ q.n < made /\ q.n \in Nat
  BY DEF ListInv, CallInv, ListCall
<1>6. CallInv'
  <2>1. \A q \in calls' : q \in ListCall /\ FitCall(q) /\ q.n < made'
    BY <1>1, <1>2, <1>4, <1>5
  <2>2. \A q, r \in calls' : q.n = r.n => q = r
    BY <1>1, <1>2, <1>5 DEF ListInv, CallInv
  <2>3. \A q, r \in calls' : q.op \in SavedOps /\ r.op \in SavedOps /\ q.n < r.n => ~r.alone
    BY <1>1, <1>2, <1>5, ListOverlaps DEF ListInv, CallInv
  <2>4. \A q, r \in calls' : q.op \in StarOps /\ r.op \in StarOps /\ q.n < r.n => ~r.alone
    BY <1>1, <1>2, <1>5, ListOverlaps DEF ListInv, CallInv
  <2>5. QED
    BY <2>1, <2>2, <2>3, <2>4 DEF CallInv
<1>7. L!ListOf(op) \in {"saved", "starred", "roles"}
  BY OfList
<1>8. p \notin calls
  BY <1>1, <1>2, <1>5
<1>9. \E q \in ListCall : /\ calls' = calls \cup {q} /\ q \notin calls
                          /\ q.op = op /\ q.of = of /\ q.arg = arg /\ ~q.done
  BY <1>1, <1>2, <1>8
<1>10. /\ L!Overlaps(op, of) => doubted' = doubted \cup {L!ListOf(op)}
       /\ ~L!Overlaps(op, of) => doubted' = doubted
  BY <1>3
<1>11. made' = made + 1 /\ made' \in Nat
  BY <1>2
<1>12. doubted' \subseteq {"saved", "starred", "roles"} /\ doubted \subseteq doubted'
  BY <1>2, <1>3, <1>7
<1>13. QED
  BY <1>6, <1>9, <1>10, <1>11, <1>12

\* A call ends.
LEMMA DropSafe ==
  ASSUME ListInv, NEW p \in calls, L!Drop(p)
  PROVE  CallInv' /\ made' = made /\ made' \in Nat /\ calls' = calls \ {p}
BY DEF L!Drop, ListInv, ListTypes, CallInv

\* A call is served, or follows another: the same call but for what is said.
LEMMA SwapSafe ==
  ASSUME ListInv, NEW p \in calls, NEW q \in ListCall, FitCall(q),
         q.n = p.n, q.alone = p.alone, q.op \in SavedOps <=> p.op \in SavedOps,
         q.op \in StarOps <=> p.op \in StarOps,
         calls' = (calls \ {p}) \cup {q}, made' = made
  PROVE  CallInv' /\ made' \in Nat /\ q \notin calls \ {p}
BY DEF ListInv, ListTypes, CallInv

\* The lists that a step leaves alone.
LEMMA SavedFrame ==
  ASSUME ListInv, {p \in calls : p.op \in SavedOps} = {p \in calls' : p.op \in SavedOps},
         stored'.saved = stored.saved, later'.items = later.items,
         "saved" \in doubted => "saved" \in doubted', made' \in Nat, made' >= made
  PROVE  SavedInv'
<1>1. \A p : (p \in calls /\ p.op \in SavedOps) <=> (p \in calls' /\ p.op \in SavedOps)
  OBVIOUS
<1>2. \A p \in calls : p.n \in Nat /\ p.n < made /\ made \in Nat
  BY DEF ListInv, ListTypes, CallInv, ListCall
<1>3. \A p \in calls' : p.op \in SavedOps /\ p.n = made' - 1 => p.n = made - 1
  BY <1>1, <1>2
<1>4. QED
  BY <1>1, <1>3 DEF ListInv, SavedInv, SavedOps

LEMMA StarredFrame ==
  ASSUME ListInv, {p \in calls : p.op \in StarOps} = {p \in calls' : p.op \in StarOps},
         stored'.starred = stored.starred, starred' = starred,
         "starred" \in doubted => "starred" \in doubted', made' \in Nat, made' >= made
  PROVE  StarredInv'
<1>1. \A p : (p \in calls /\ p.op \in StarOps) <=> (p \in calls' /\ p.op \in StarOps)
  OBVIOUS
<1>2. \A p \in calls : p.n \in Nat /\ p.n < made /\ made \in Nat
  BY DEF ListInv, ListTypes, CallInv, ListCall
<1>3. \A p \in calls' : p.op \in StarOps /\ p.n = made' - 1 => p.n = made - 1
  BY <1>1, <1>2
<1>4. QED
  BY <1>1, <1>3 DEF ListInv, StarredInv, StarOps

LEMMA RolesFrame ==
  ASSUME ListInv, {p \in calls : p.op \in RoleOps \ {"invite"}} = {p \in calls' : p.op \in RoleOps \ {"invite"}},
         stored'.roles = stored.roles, roster'.roles = roster.roles, roster'.mine = roster.mine,
         roster'.open = roster.open,
         "roles" \in doubted => "roles" \in doubted'
  PROVE  RolesInv'
<1>1. \A p : (p \in calls /\ p.op \in RoleOps \ {"invite"}) <=> (p \in calls' /\ p.op \in RoleOps \ {"invite"})
  OBVIOUS
<1>2. QED
  BY <1>1 DEF ListInv, RolesInv, RoleOps, Write, Rewritten

\* The saved messages.
LEMMA SavedAsks ==
  ASSUME ListInv, L!OpenSaved \/ \E m \in Messages : L!Unsave(m) PROVE ListInv'
<1>0. /\ ListTypes /\ CallInv /\ SavedInv
      /\ \A p \in calls : p \in ListCall /\ FitCall(p) /\ p.n < made /\ p.n \in Nat
  BY DEF ListInv, CallInv, ListCall
<1>1. CASE L!OpenSaved
  <2> DEFINE new == L!Call("listSaved", none, none)
  <2>1. /\ new \in ListCall /\ new.op = "listSaved" /\ new.n = made /\ ~new.done
        /\ new.alone <=> ~\E p \in calls : p.op \in SavedOps
    BY <1>1, NewListCall, ListOverlaps DEF SavedOps
  <2>2. made' = made + 1 /\ calls' = {L!Left(p) : p \in {q \in calls : q.op \notin {"listSaved", "relistSaved"}}} \cup {new}
    BY <1>1 DEF L!OpenSaved
  <2>3. \A p \in calls : p.op # "unsave" => L!Left(p) = p
    BY DEF L!Left
  <2>4. \A p \in calls : p.op = "unsave" =>
          /\ L!Left(p) \in ListCall /\ L!Left(p).op = "unsaveLeft" /\ L!Left(p).n = p.n
          /\ L!Left(p).alone = p.alone /\ FitCall(L!Left(p))
    BY <1>0 DEF L!Left, ListCall, FitCall, SavedOps
  <2> HIDE DEF new
  <2>5. \A q \in calls' : q = new \/ \E p \in calls :
          /\ q \in ListCall /\ FitCall(q) /\ q.n = p.n /\ q.alone = p.alone
          /\ q.op \in SavedOps <=> p.op \in SavedOps
          /\ q.op \notin SavedOps => q = p
          /\ q = L!Left(p) /\ q.op \notin {"listSaved", "relistSaved", "unsave"}
    BY <1>0, <2>2, <2>3, <2>4 DEF SavedOps
  <2>6. \A p \in calls : p.op \notin SavedOps => p \in calls'
    BY <2>2, <2>3 DEF SavedOps
  <2>7. CallInv'
    <3>1. \A q \in calls' : q \in ListCall /\ FitCall(q) /\ q.n < made'
      BY <1>0, <2>1, <2>2, <2>5 DEF ListTypes, FitCall
    <3>2. \A q, r \in calls' : q.n = r.n => q = r
      BY <1>0, <2>1, <2>5 DEF CallInv, ListTypes
    <3>3. \A q, r \in calls' : q.op \in SavedOps /\ r.op \in SavedOps /\ q.n < r.n => ~r.alone
      <4>1. ASSUME NEW q \in calls', NEW r \in calls', q.op \in SavedOps, r.op \in SavedOps, q.n < r.n
            PROVE  ~r.alone
        <5>1. CASE r = new
          <6>1. q # new
            BY <1>0, <2>1, <4>1, <5>1 DEF ListTypes
          <6>2. QED
            BY <2>1, <2>5, <4>1, <5>1, <6>1
        <5>2. CASE r # new
          <6>1. PICK p \in calls : r.n = p.n /\ r.alone = p.alone /\ p.op \in SavedOps
            BY <2>5, <4>1, <5>2
          <6>2. q # new
            BY <1>0, <2>1, <4>1, <6>1 DEF ListTypes
          <6>3. PICK o \in calls : q.n = o.n /\ o.op \in SavedOps
            BY <2>5, <4>1, <6>2
          <6>4. QED
            BY <1>0, <4>1, <6>1, <6>3 DEF CallInv
        <5>3. QED
          BY <5>1, <5>2
      <4>2. QED
        BY <4>1
    <3>4. \A q, r \in calls' : q.op \in StarOps /\ r.op \in StarOps /\ q.n < r.n => ~r.alone
      <4>1. \A q \in calls' : q.op \in StarOps => q \in calls
        BY <2>1, <2>5 DEF StarOps, SavedOps
      <4>2. QED
        BY <1>0, <4>1 DEF CallInv
    <3>5. QED
      BY <3>1, <3>2, <3>3, <3>4 DEF CallInv
  <2>8. /\ doubted' = IF \E p \in calls : p.op \in SavedOps THEN doubted \cup {"saved"} ELSE doubted
        /\ UNCHANGED <<stored, starred, roster>>
    BY <1>1, ListOverlaps DEF L!OpenSaved, SavedOps
  <2>9. ListTypes'
    <3>1. /\ later' = [later EXCEPT !.items = {}, !.removing = none, !.tab = "in-progress"]
      BY <1>1 DEF L!OpenSaved
    <3>2. later' \in [items: SUBSET Messages, removing: Messages \cup {none},
                     shelf: [Messages -> L!Shelves], tab: L!Shelves]
      BY <1>0, <3>1 DEF ListTypes, L!Shelves
    <3>3. doubted' \subseteq {"saved", "starred", "roles"} /\ made' \in Nat
      BY <1>0, <2>2, <2>8 DEF ListTypes
    <3>4. QED
      BY <1>0, <2>8, <3>2, <3>3 DEF ListTypes
  <2>10. SavedInv'
    <3>1. \A p \in calls' : p.op \in {"listSaved", "relistSaved"} => p = new
      BY <2>5
    <3>2. "saved" \notin doubted' => \A p \in calls' : p.op \in SavedOps => p = new
      BY <2>5, <2>8
    <3>3. new \in calls'
      BY <2>2
    <3>4. QED
      BY <2>1, <3>1, <3>2, <3>3 DEF SavedInv, SavedOps
  <2>11. \A p : p.op \notin SavedOps => (p \in calls <=> p \in calls')
    BY <2>1, <2>5, <2>6 DEF SavedOps
  <2>12. made' \in Nat /\ made' >= made
    BY <1>0, <2>2 DEF ListTypes
  <2>13. StarredInv'
    <3>1. {p \in calls : p.op \in StarOps} = {p \in calls' : p.op \in StarOps}
      BY <2>11 DEF StarOps, SavedOps
    <3>2. QED
      BY <2>8, <2>12, <3>1, StarredFrame
  <2>14. RolesInv'
    <3>1. {p \in calls : p.op \in RoleOps \ {"invite"}} = {p \in calls' : p.op \in RoleOps \ {"invite"}}
      BY <2>11 DEF RoleOps, SavedOps
    <3>2. QED
      BY <2>8, <3>1, RolesFrame
  <2>15. QED
    BY <2>7, <2>9, <2>10, <2>13, <2>14 DEF ListInv
<1>2. ASSUME NEW m \in Messages, L!Unsave(m) PROVE ListInv'
  <2>1. /\ m \in later.items /\ L!Post("unsave", m, none)
        /\ later' = [later EXCEPT !.items = @ \ {m}, !.removing = m]
        /\ UNCHANGED <<stored, starred, roster>>
    BY <1>2 DEF L!Unsave
  <2>2. /\ CallInv' /\ made' = made + 1 /\ made' \in Nat
        /\ doubted' \subseteq {"saved", "starred", "roles"} /\ doubted \subseteq doubted'
        /\ L!Overlaps("unsave", m) => doubted' = doubted \cup {L!ListOf("unsave")}
        /\ \E p \in ListCall : /\ calls' = calls \cup {p} /\ p \notin calls
                               /\ p.op = "unsave" /\ p.of = m /\ p.arg = none /\ ~p.done
    <3>1. "unsave" \in SavedOps \cup StarOps \cup RoleOps
      BY DEF SavedOps
    <3>2. QED
      BY <2>1, <3>1, PostSafe
  <2>3. PICK p \in ListCall : /\ calls' = calls \cup {p} /\ p \notin calls
                              /\ p.op = "unsave" /\ p.of = m /\ ~p.done
    BY <2>2
  <2>4. ListTypes' /\ later'.items = later.items \ {m}
    BY <1>0, <2>1, <2>2 DEF ListTypes
  <2>5. SavedInv'
    <3>1. (\E q \in calls : q.op \in SavedOps) => "saved" \in doubted'
      BY <2>2, ListOverlaps, OfList DEF SavedOps
    <3>2. \A q \in calls : q.n # made' - 1 /\ q.n # made
      BY <1>0, <2>2 DEF ListTypes
    <3>3. "saved" \notin doubted' =>
            "saved" \notin doubted /\ (\A q \in calls : q.op \notin SavedOps) /\ later.items = stored.saved
      BY <1>0, <2>2, <3>1 DEF SavedInv
    <3>4. "unsave" \in SavedOps
      BY DEF SavedOps
    <3>5. QED
      BY <1>0, <2>1, <2>3, <2>4, <3>1, <3>2, <3>3, <3>4 DEF SavedInv, SavedOps
  <2>6. StarredInv'
    <3>1. {q \in calls : q.op \in StarOps} = {q \in calls' : q.op \in StarOps}
      BY <2>3 DEF StarOps
    <3>2. made' >= made
      BY <1>0, <2>2 DEF ListTypes
    <3>3. QED
      BY <2>1, <2>2, <3>1, <3>2, StarredFrame
  <2>7. RolesInv'
    <3>1. {q \in calls : q.op \in RoleOps \ {"invite"}} = {q \in calls' : q.op \in RoleOps \ {"invite"}}
      BY <2>3 DEF RoleOps
    <3>2. QED
      BY <2>1, <2>2, <3>1, RolesFrame
  <2>8. QED
    BY <2>2, <2>4, <2>5, <2>6, <2>7 DEF ListInv
<1>3. QED
  BY <1>1, <1>2

LEMMA SavedMoves ==
  ASSUME ListInv, \/ \E m \in Messages, shelf \in L!Shelves : L!MoveItem(m, shelf)
                  \/ \E to \in L!Shelves : L!SetTab(to)
  PROVE  ListInv'
<1>1. UNCHANGED <<stored, calls, made, starred, roster, doubted>>
  BY DEF L!MoveItem, L!SetTab
<1>2. ListTypes' /\ later'.items = later.items
  <2>1. ASSUME NEW m \in Messages, NEW shelf \in L!Shelves, L!MoveItem(m, shelf)
        PROVE  ListTypes' /\ later'.items = later.items
    BY <2>1 DEF L!MoveItem, ListInv, ListTypes
  <2>2. ASSUME NEW to \in L!Shelves, L!SetTab(to) PROVE ListTypes' /\ later'.items = later.items
    BY <2>2 DEF L!SetTab, ListInv, ListTypes
  <2>3. QED
    BY <2>1, <2>2
<1>3. QED
  BY <1>1, <1>2 DEF ListInv, CallInv, SavedInv, StarredInv, RolesInv

\* What a call does to the lists of the server, and what it is told.
LEMMA ServedList ==
  ASSUME ListInv, NEW p \in calls, L!Serve(p)
  PROVE  \E q \in ListCall :
           /\ q.op = p.op /\ q.of = p.of /\ q.arg = p.arg /\ q.n = p.n /\ q.alone = p.alone /\ q.done
           /\ FitCall(q) /\ calls' = (calls \ {p}) \cup {q}
           /\ p.op \in {"listSaved", "relistSaved"} => q.answer = stored.saved
           /\ p.op \in {"listStars", "relistStars"} => q.answer = stored.starred
           /\ p.op = "members" => q.answer = stored.roles
<1> DEFINE ans == CASE p.op \in {"listSaved", "relistSaved"} -> stored.saved
                    [] p.op \in {"listStars", "relistStars"} -> stored.starred
                    [] p.op = "members" -> stored.roles
                    [] OTHER -> none
           q == [p EXCEPT !.done = TRUE, !.answer = ans]
<1>1. p \in ListCall /\ FitCall(p) /\ ListTypes
  BY DEF ListInv, CallInv
<1>2. /\ p.op \in {"listSaved", "relistSaved"} => ans = stored.saved
      /\ p.op \in {"listStars", "relistStars"} => ans = stored.starred
      /\ p.op = "members" => ans = stored.roles
      /\ p.op \notin {"listSaved", "relistSaved", "listStars", "relistStars", "members"} => ans = none
  OBVIOUS
<1>3. calls' = (calls \ {p}) \cup {q}
  BY DEF L!Serve
<1> HIDE DEF ans
<1>4. /\ stored.saved \in SUBSET Messages /\ stored.starred \in SUBSET Conversations
      /\ stored.roles \in RoleMaps
  BY <1>1 DEF ListTypes
<1>5. ans \in (SUBSET Messages) \cup (SUBSET Conversations) \cup RoleMaps \cup {none}
  BY <1>2, <1>4
<1>6. /\ q \in ListCall /\ q.op = p.op /\ q.of = p.of /\ q.arg = p.arg /\ q.n = p.n /\ q.alone = p.alone /\ q.done
      /\ q.answer = ans
  BY <1>1, <1>5 DEF ListCall
<1> HIDE DEF q
<1>7. FitCall(q)
  BY <1>1, <1>2, <1>4, <1>6 DEF FitCall
<1>8. QED
  BY <1>2, <1>3, <1>6, <1>7

LEMMA ServedLists ==
  ASSUME ListInv, NEW p \in calls, L!Serve(p)
  PROVE  /\ stored' \in [saved: SUBSET Messages, starred: SUBSET Conversations, roles: RoleMaps]
         /\ p.op \notin {"unsave", "unsaveLeft"} => stored'.saved = stored.saved
         /\ p.op \in {"unsave", "unsaveLeft"} => stored'.saved = stored.saved \ {p.of}
         /\ p.op \notin {"star", "unstar"} => stored'.starred = stored.starred
         /\ ~Write(p) => stored'.roles = stored.roles
         /\ Write(p) => /\ \A u \in Members : u # p.of => stored'.roles[u] = stored.roles[u]
                        /\ stored'.roles[p.of] = Rewritten(p, stored.roles[p.of])
         /\ UNCHANGED <<made, later, starred, roster, doubted>> /\ ~p.done
<1>1. /\ p \in ListCall /\ FitCall(p) /\ ~p.done
      /\ stored \in [saved: SUBSET Messages, starred: SUBSET Conversations, roles: RoleMaps]
      /\ stored' = L!Served(p.op, p.of, p.arg) /\ UNCHANGED <<made, later, starred, roster, doubted>>
  BY DEF ListInv, CallInv, ListTypes, L!Serve
<1>2. CASE p.op \in {"unsave", "unsaveLeft"}
  BY <1>1, <1>2 DEF L!Served, Write
<1>3. CASE p.op = "star"
  <2>1. p.of \in Conversations /\ stored' = [stored EXCEPT !.starred = @ \cup {p.of}]
    BY <1>1, <1>3 DEF L!Served, FitCall
  <2>2. QED
    BY <1>1, <1>3, <2>1 DEF Write
<1>4. CASE p.op = "unstar"
  <2>1. stored' = [stored EXCEPT !.starred = @ \ {p.of}]
    BY <1>1, <1>4 DEF L!Served
  <2>2. QED
    BY <1>1, <1>4, <2>1 DEF Write
<1>5. CASE Write(p)
  <2> DEFINE to == IF p.op = "remove" THEN "gone" ELSE IF stored.roles[p.of] = "gone" THEN "gone" ELSE p.arg
  <2>1. p.of \in Members /\ (p.op = "role" => p.arg \in L!Roles)
    BY <1>1, <1>5 DEF FitCall, Write
  <2>2. stored' = [stored EXCEPT !.roles[p.of] = to]
    BY <1>1, <1>5 DEF L!Served, Write
  <2>3. to = Rewritten(p, stored.roles[p.of]) /\ to \in L!Roles \cup {"gone"}
    BY <1>5, <2>1 DEF Rewritten, Write
  <2> HIDE DEF to
  <2>4. /\ stored'.saved = stored.saved /\ stored'.starred = stored.starred
        /\ stored'.roles = [stored.roles EXCEPT ![p.of] = to]
        /\ stored' = [saved |-> stored.saved, starred |-> stored.starred,
                      roles |-> [stored.roles EXCEPT ![p.of] = to]]
    BY <1>1, <2>2
  <2>5. /\ [stored.roles EXCEPT ![p.of] = to] \in RoleMaps
        /\ [stored.roles EXCEPT ![p.of] = to][p.of] = to
        /\ \A u \in Members : u # p.of => [stored.roles EXCEPT ![p.of] = to][u] = stored.roles[u]
    BY <1>1, <2>1, <2>3 DEF RoleMaps
  <2>6. QED
    BY <1>1, <1>5, <2>3, <2>4, <2>5 DEF Write
<1>6. CASE p.op \notin {"unsave", "unsaveLeft", "star", "unstar"} /\ ~Write(p)
  BY <1>1, <1>6 DEF L!Served, Write
<1>7. QED
  BY <1>2, <1>3, <1>4, <1>5, <1>6

LEMMA ServeListSafe ==
  ASSUME ListInv, NEW p \in calls, L!Serve(p) PROVE ListInv'
<1>1. PICK q \in ListCall :
        /\ q.op = p.op /\ q.of = p.of /\ q.arg = p.arg /\ q.n = p.n /\ q.alone = p.alone /\ q.done
        /\ FitCall(q) /\ calls' = (calls \ {p}) \cup {q}
        /\ p.op \in {"listSaved", "relistSaved"} => q.answer = stored.saved
        /\ p.op \in {"listStars", "relistStars"} => q.answer = stored.starred
        /\ p.op = "members" => q.answer = stored.roles
  BY ServedList
<1>2. /\ stored' \in [saved: SUBSET Messages, starred: SUBSET Conversations, roles: RoleMaps]
      /\ p.op \notin {"unsave", "unsaveLeft"} => stored'.saved = stored.saved
      /\ p.op \in {"unsave", "unsaveLeft"} => stored'.saved = stored.saved \ {p.of}
      /\ p.op \notin {"star", "unstar"} => stored'.starred = stored.starred
      /\ ~Write(p) => stored'.roles = stored.roles
      /\ Write(p) => /\ \A u \in Members : u # p.of => stored'.roles[u] = stored.roles[u]
                     /\ stored'.roles[p.of] = Rewritten(p, stored.roles[p.of])
      /\ UNCHANGED <<made, later, starred, roster, doubted>> /\ ~p.done
  BY ServedLists
<1>3. CallInv' /\ q \notin calls \ {p}
  BY <1>1, <1>2, SwapSafe
<1>4. ListTypes'
  BY <1>2 DEF ListInv, ListTypes
<1>5. \A r \in calls : r.n \in Nat /\ r.n < made /\ made \in Nat
  BY DEF ListInv, CallInv, ListTypes, ListCall
<1>6. \A r \in calls : r # p /\ r.n = made - 1 => p.n < r.n
  BY <1>5 DEF ListInv, CallInv
<1>7. SavedInv'
  <2>1. CASE p.op \in {"unsave", "unsaveLeft"}
    <3>1. \A r \in calls : r # p /\ r.op \in SavedOps => "saved" \in doubted /\ ~(r.alone /\ r.n = made - 1)
      BY <1>6, <2>1 DEF ListInv, CallInv, SavedInv, SavedOps
    <3>2. QED
      BY <1>1, <1>2, <2>1, <3>1 DEF ListInv, SavedInv, SavedOps
  <2>2. CASE p.op \notin {"unsave", "unsaveLeft"}
    BY <1>1, <1>2, <2>2 DEF ListInv, SavedInv, SavedOps
  <2>3. QED
    BY <2>1, <2>2
<1>8. StarredInv'
  <2>1. CASE p.op \in {"star", "unstar"}
    <3>1. \A r \in calls : r # p /\ r.op \in StarOps => "starred" \in doubted /\ ~(r.alone /\ r.n = made - 1)
      BY <1>6, <2>1 DEF ListInv, CallInv, StarredInv, StarOps
    <3>2. QED
      BY <1>1, <1>2, <2>1, <3>1 DEF ListInv, StarredInv, StarOps
  <2>2. CASE p.op \notin {"star", "unstar"}
    BY <1>1, <1>2, <2>2 DEF ListInv, StarredInv, StarOps
  <2>3. QED
    BY <2>1, <2>2
<1>9. RolesInv'
  <2>1. CASE Write(p)
    <3>1. roster.mine # none /\ Write(q) /\ p.of \in Members
      BY <1>1, <2>1 DEF ListInv, CallInv, RolesInv, Write, FitCall
    <3>2. \A r \in calls : r.op # "members"
      BY <3>1 DEF ListInv, RolesInv
    <3>3. ASSUME "roles" \notin doubted
          PROVE  /\ \A u \in Members :
                      (\A r \in calls' : Write(r) /\ r.done => r.of # u) => roster.roles[u] = stored'.roles[u]
                 /\ \A r \in calls' : Write(r) /\ r.done =>
                      stored'.roles[r.of] = Rewritten(r, roster.roles[r.of])
      <4>1. \A r \in calls \ {p} : Write(r) => r.of # p.of /\ r.of \in Members
        BY <2>1, <3>3 DEF ListInv, RolesInv, CallInv, FitCall, Write
      <4>2. roster.roles[p.of] = stored.roles[p.of]
        BY <1>2, <3>1, <3>3, <4>1 DEF ListInv, RolesInv
      <4>3. Rewritten(q, roster.roles[p.of]) = Rewritten(p, roster.roles[p.of])
        BY <1>1 DEF Rewritten
      <4>4. ASSUME NEW u \in Members, \A r \in calls' : Write(r) /\ r.done => r.of # u
            PROVE  roster.roles[u] = stored'.roles[u]
        <5>1. u # p.of /\ \A r \in calls : Write(r) /\ r.done => r.of # u
          BY <1>1, <1>2, <3>1, <4>4
        <5>2. QED
          BY <1>2, <2>1, <3>3, <5>1 DEF ListInv, RolesInv
      <4>5. ASSUME NEW r \in calls', Write(r), r.done
            PROVE  stored'.roles[r.of] = Rewritten(r, roster.roles[r.of])
        <5>1. CASE r = q
          BY <1>1, <1>2, <2>1, <4>2, <4>3, <5>1
        <5>2. CASE r # q
          <6>1. r \in calls \ {p}
            BY <1>1, <5>2
          <6>2. r.of # p.of /\ r.of \in Members
            BY <4>1, <4>5, <6>1
          <6>3. stored.roles[r.of] = Rewritten(r, roster.roles[r.of])
            BY <3>3, <4>5, <6>1 DEF ListInv, RolesInv
          <6>4. QED
            BY <1>2, <2>1, <6>2, <6>3
        <5>3. QED
          BY <5>1, <5>2
      <4>6. QED
        BY <4>4, <4>5
    <3>4. /\ \A r, t \in calls' : r.op = "members" /\ t.op = "members" => r = t
          /\ \A r \in calls' : r.op # "members"
      BY <1>1, <2>1, <3>2 DEF Write
    <3>5. "roles" \notin doubted =>
            \A r, t \in calls' : Write(r) /\ Write(t) /\ r.of = t.of => r = t
      BY <1>1, <2>1 DEF ListInv, RolesInv, Write
    <3>6. QED
      BY <1>2, <3>1, <3>3, <3>4, <3>5 DEF ListInv, RolesInv
  <2>2. CASE ~Write(p)
    BY <1>1, <1>2, <2>2 DEF ListInv, RolesInv, Write
  <2>3. QED
    BY <2>1, <2>2
<1>10. QED
  BY <1>3, <1>4, <1>7, <1>8, <1>9 DEF ListInv

\* A call follows the one that was answered.
LEMMA ListsFollow ==
  ASSUME ListInv, NEW p \in calls, NEW op \in {"relistSaved", "relistStars"},
         p.op \in SavedOps <=> op \in SavedOps, p.op \in StarOps <=> op \in StarOps, L!Follow(p, op)
  PROVE  /\ CallInv' /\ made' = made /\ made' \in Nat
         /\ \E q \in ListCall : q.op = op /\ ~q.done /\ calls' = (calls \ {p}) \cup {q}
<1> DEFINE q == [p EXCEPT !.op = op, !.done = FALSE, !.answer = none]
<1>1. p \in ListCall /\ op \in SavedOps \cup StarOps \cup RoleOps
  BY DEF ListInv, CallInv, SavedOps, StarOps
<1>2. /\ q \in ListCall /\ q.op = op /\ q.n = p.n /\ q.alone = p.alone /\ ~q.done
  BY <1>1 DEF ListCall
<1>3. calls' = (calls \ {p}) \cup {q} /\ made' = made
  BY DEF L!Follow
<1> HIDE DEF q
<1>4. FitCall(q)
  BY <1>2 DEF FitCall
<1>5. CallInv' /\ made' \in Nat
  BY <1>2, <1>3, <1>4, SwapSafe
<1>6. QED
  BY <1>2, <1>3, <1>5

LEMMA SavedAnswers ==
  ASSUME ListInv, NEW p \in calls, NEW ok \in BOOLEAN,
         L!UnsaveAnswered(p) \/ L!UnsaveFailed(p) \/ L!UnsaveEnded(p) \/ L!ListSavedAnswered(p, ok)
  PROVE  ListInv'
<1>0. /\ ListTypes /\ CallInv /\ SavedInv
      /\ p \in ListCall /\ FitCall(p) /\ made \in Nat
  BY DEF ListInv, CallInv, ListTypes
<1>1. /\ p.op \in SavedOps /\ UNCHANGED <<stored, starred, roster>> /\ made' = made
      /\ \A r : r.op \notin SavedOps => (r \in calls <=> r \in calls')
      /\ CallInv' /\ made' \in Nat
  <2>1. CASE L!UnsaveFailed(p)
    <3>1. p.op = "unsave" /\ L!Follow(p, "relistSaved") /\ UNCHANGED <<stored, starred, roster>>
      BY <2>1 DEF L!UnsaveFailed
    <3>2. /\ p.op \in SavedOps <=> "relistSaved" \in SavedOps
          /\ p.op \in StarOps <=> "relistSaved" \in StarOps
      BY <3>1 DEF SavedOps, StarOps
    <3>3. /\ CallInv' /\ made' = made /\ made' \in Nat
          /\ \E q \in ListCall : q.op = "relistSaved" /\ ~q.done /\ calls' = (calls \ {p}) \cup {q}
      BY <3>1, <3>2, ListsFollow
    <3>4. QED
      BY <3>1, <3>3 DEF SavedOps
  <2>2. CASE ~L!UnsaveFailed(p)
    <3>1. p.op \in SavedOps /\ L!Drop(p) /\ UNCHANGED <<stored, starred, roster>>
      BY <2>2 DEF L!UnsaveAnswered, L!UnsaveEnded, L!ListSavedAnswered, SavedOps
    <3>2. QED
      BY <3>1, DropSafe
  <2>3. QED
    BY <2>1, <2>2
<1>2. \A r \in calls : r.n \in Nat /\ r.n < made
  BY DEF ListInv, CallInv, ListCall
<1>3. ListTypes' /\ SavedInv' /\ \A l \in {"starred", "roles"} : l \in doubted => l \in doubted'
  <2>1. CASE L!UnsaveAnswered(p)
    <3>1. /\ p.op = "unsave" /\ p.done /\ calls' = calls \ {p} /\ doubted' = doubted
          /\ later' = [later EXCEPT !.removing = none]
      BY <2>1 DEF L!UnsaveAnswered, L!Drop
    <3>2. ListTypes' /\ later'.items = later.items
      BY <1>0, <1>1, <3>1 DEF ListTypes
    <3>3. QED
      BY <1>0, <1>1, <3>1, <3>2 DEF SavedInv, SavedOps
  <2>2. CASE L!UnsaveFailed(p)
    <3>1. p.op = "unsave" /\ L!Follow(p, "relistSaved") /\ UNCHANGED <<stored, later, starred, roster, doubted>>
      BY <2>2 DEF L!UnsaveFailed
    <3>2. /\ p.op \in SavedOps <=> "relistSaved" \in SavedOps
          /\ p.op \in StarOps <=> "relistSaved" \in StarOps
      BY <3>1 DEF SavedOps, StarOps
    <3>3. \E q \in ListCall : q.op = "relistSaved" /\ ~q.done /\ calls' = (calls \ {p}) \cup {q}
      BY <3>1, <3>2, ListsFollow
    <3>4. ListTypes'
      BY <1>0, <1>1, <3>1 DEF ListTypes
    <3>5. SavedInv'
      BY <1>0, <1>1, <3>1, <3>3 DEF SavedInv, SavedOps
    <3>6. QED
      BY <3>1, <3>4, <3>5
  <2>3. CASE L!UnsaveEnded(p)
    <3>1. /\ p.op = "unsaveLeft" /\ calls' = calls \ {p} /\ UNCHANGED <<later, doubted>>
      BY <2>3 DEF L!UnsaveEnded, L!Drop
    <3>2. ListTypes'
      BY <1>0, <1>1, <3>1 DEF ListTypes
    <3>3. QED
      BY <1>0, <1>1, <3>1, <3>2 DEF SavedInv, SavedOps
  <2>4. CASE L!ListSavedAnswered(p, ok)
    <3>1. /\ p.op \in {"listSaved", "relistSaved"} /\ (ok => p.done) /\ calls' = calls \ {p}
          /\ later' = [later EXCEPT !.items = IF ok THEN p.answer ELSE {},
                                    !.removing = IF p.op = "relistSaved" THEN none ELSE @]
          /\ doubted' = L!Settled(p, ok) /\ L!ListOf(p.op) = "saved"
      BY <2>4, OfList DEF L!ListSavedAnswered, L!Drop, SavedOps
    <3>2. doubted' = IF ~ok THEN doubted \cup {"saved"}
                     ELSE IF p.alone /\ p.n = made - 1 THEN doubted \ {"saved"} ELSE doubted
      BY <3>1 DEF L!Settled
    <3>3. ListTypes' /\ later'.items = IF ok THEN p.answer ELSE {}
      <4>1. ok => p.answer \in SUBSET Messages
        BY <1>0, <3>1 DEF FitCall
      <4>2. (IF ok THEN p.answer ELSE {}) \in SUBSET Messages
        BY <4>1
      <4>3. (IF p.op = "relistSaved" THEN none ELSE later.removing) \in Messages \cup {none}
        BY <1>0 DEF ListTypes
      <4>4. /\ later'.items = IF ok THEN p.answer ELSE {}
            /\ later' \in [items: SUBSET Messages, removing: Messages \cup {none},
                           shelf: [Messages -> L!Shelves], tab: L!Shelves]
        BY <1>0, <3>1, <4>2, <4>3 DEF ListTypes
      <4>5. doubted' \subseteq {"saved", "starred", "roles"}
        BY <1>0, <3>2 DEF ListTypes
      <4>6. QED
        BY <1>0, <1>1, <4>4, <4>5 DEF ListTypes
    <3>4. "saved" \notin doubted' => ok /\ p.answer = stored.saved /\ \A r \in calls' : r.op \notin SavedOps
      <4>1. CASE ok /\ p.alone /\ p.n = made - 1
        <5>1. p.answer = stored.saved
          BY <1>0, <3>1, <4>1 DEF SavedInv
        <5>2. \A r \in calls : r # p => r.n < p.n
          BY <1>0, <1>2, <4>1 DEF CallInv
        <5>3. \A r \in calls : r # p => r.op \notin SavedOps
          BY <1>0, <1>1, <4>1, <5>2 DEF CallInv
        <5>4. QED
          BY <3>1, <4>1, <5>1, <5>3
      <4>2. CASE ~(ok /\ p.alone /\ p.n = made - 1)
        BY <1>0, <1>1, <3>1, <3>2, <4>2 DEF SavedInv
      <4>3. QED
        BY <4>1, <4>2
    <3>5. SavedInv'
      BY <1>0, <1>1, <3>1, <3>2, <3>3, <3>4 DEF SavedInv, SavedOps
    <3>6. QED
      BY <3>2, <3>3, <3>5
  <2>5. QED
    BY <2>1, <2>2, <2>3, <2>4
<1>4. StarredInv'
  <2>1. {r \in calls : r.op \in StarOps} = {r \in calls' : r.op \in StarOps}
    BY <1>1 DEF StarOps, SavedOps
  <2>2. QED
    BY <1>0, <1>1, <1>3, <2>1, StarredFrame
<1>5. RolesInv'
  <2>1. {r \in calls : r.op \in RoleOps \ {"invite"}} = {r \in calls' : r.op \in RoleOps \ {"invite"}}
    BY <1>1 DEF RoleOps, SavedOps
  <2>2. QED
    BY <1>1, <1>3, <2>1, RolesFrame
<1>6. QED
  BY <1>1, <1>3, <1>4, <1>5 DEF ListInv

\* The starred conversations.
LEMMA StarAsks ==
  ASSUME ListInv, L!OpenSidebar \/ \E e \in Conversations : L!ToggleStar(e) PROVE ListInv'
<1>0. ListTypes /\ CallInv /\ StarredInv
  BY DEF ListInv
<1>1. PICK op \in {"listStars", "star", "unstar"}, of \in Conversations \cup {none} :
        L!Post(op, of, none) /\ (op \in {"star", "unstar"} => of \in Conversations)
  BY DEF L!OpenSidebar, L!ToggleStar
<1>2. UNCHANGED <<stored, later, starred, roster>>
  BY DEF L!OpenSidebar, L!ToggleStar
<1>3. op \in StarOps /\ op \notin SavedOps \cup RoleOps
  BY DEF StarOps, SavedOps, RoleOps
<1>4. /\ CallInv' /\ made' = made + 1 /\ made' \in Nat
      /\ doubted' \subseteq {"saved", "starred", "roles"} /\ doubted \subseteq doubted'
      /\ L!Overlaps(op, of) => doubted' = doubted \cup {L!ListOf(op)}
      /\ \E p \in ListCall : /\ calls' = calls \cup {p} /\ p \notin calls
                             /\ p.op = op /\ p.of = of /\ p.arg = none /\ ~p.done
  BY <1>1, <1>3, PostSafe DEF SavedOps, RoleOps
<1>5. PICK p \in ListCall : calls' = calls \cup {p} /\ p \notin calls /\ p.op = op /\ ~p.done
  BY <1>4
<1>6. ListTypes'
  BY <1>0, <1>2, <1>4 DEF ListTypes
<1>7. StarredInv'
  <2>1. (\E q \in calls : q.op \in StarOps) => "starred" \in doubted'
    BY <1>3, <1>4, ListOverlaps, OfList
  <2>2. \A q \in calls : q.n # made' - 1
    BY <1>0, <1>4 DEF ListTypes, CallInv
  <2>3. QED
    BY <1>0, <1>2, <1>3, <1>4, <1>5, <2>1, <2>2 DEF StarredInv, StarOps
<1>8. SavedInv'
  <2>1. {q \in calls : q.op \in SavedOps} = {q \in calls' : q.op \in SavedOps}
    BY <1>3, <1>5
  <2>2. made' >= made
    BY <1>0, <1>4 DEF ListTypes
  <2>3. QED
    BY <1>2, <1>4, <2>1, <2>2, SavedFrame
<1>9. RolesInv'
  <2>1. {q \in calls : q.op \in RoleOps \ {"invite"}} = {q \in calls' : q.op \in RoleOps \ {"invite"}}
    BY <1>3, <1>5
  <2>2. QED
    BY <1>2, <1>4, <2>1, RolesFrame
<1>10. QED
  BY <1>4, <1>6, <1>7, <1>8, <1>9 DEF ListInv

LEMMA StarAnswers ==
  ASSUME ListInv, NEW p \in calls, NEW ok \in BOOLEAN,
         L!StarAnswered(p) \/ L!StarFailed(p) \/ L!ListStarsAnswered(p, ok)
  PROVE  ListInv'
<1>0. /\ ListTypes /\ CallInv /\ StarredInv
      /\ p \in ListCall /\ FitCall(p) /\ made \in Nat
  BY DEF ListInv, CallInv, ListTypes
<1>1. /\ p.op \in StarOps /\ UNCHANGED <<stored, later, roster>> /\ made' = made
      /\ \A r : r.op \notin StarOps => (r \in calls <=> r \in calls')
      /\ CallInv' /\ made' \in Nat
  <2>1. CASE L!StarAnswered(p)
    <3>1. p.op \in {"star", "unstar"} /\ L!Follow(p, "relistStars") /\ UNCHANGED <<stored, later, roster>>
      BY <2>1 DEF L!StarAnswered
    <3>2. /\ p.op \in SavedOps <=> "relistStars" \in SavedOps
          /\ p.op \in StarOps <=> "relistStars" \in StarOps
      BY <3>1 DEF SavedOps, StarOps
    <3>3. /\ CallInv' /\ made' = made /\ made' \in Nat
          /\ \E q \in ListCall : q.op = "relistStars" /\ ~q.done /\ calls' = (calls \ {p}) \cup {q}
      BY <3>1, <3>2, ListsFollow
    <3>4. QED
      BY <3>1, <3>3 DEF StarOps
  <2>2. CASE ~L!StarAnswered(p)
    <3>1. p.op \in StarOps /\ L!Drop(p) /\ UNCHANGED <<stored, later, roster>>
      BY <2>2 DEF L!StarFailed, L!ListStarsAnswered, StarOps
    <3>2. QED
      BY <3>1, DropSafe
  <2>3. QED
    BY <2>1, <2>2
<1>2. \A r \in calls : r.n \in Nat /\ r.n < made
  BY DEF ListInv, CallInv, ListCall
<1>3. ListTypes' /\ StarredInv' /\ \A l \in {"saved", "roles"} : l \in doubted => l \in doubted'
  <2>1. CASE L!StarAnswered(p)
    <3>1. /\ p.op \in {"star", "unstar"} /\ L!Follow(p, "relistStars")
          /\ UNCHANGED <<starred, doubted>>
      BY <2>1 DEF L!StarAnswered
    <3>2. /\ p.op \in SavedOps <=> "relistStars" \in SavedOps
          /\ p.op \in StarOps <=> "relistStars" \in StarOps
      BY <3>1 DEF SavedOps, StarOps
    <3>3. \E q \in ListCall : q.op = "relistStars" /\ ~q.done /\ calls' = (calls \ {p}) \cup {q}
      BY <3>1, <3>2, ListsFollow
    <3>4. ListTypes'
      BY <1>0, <1>1, <3>1 DEF ListTypes
    <3>5. StarredInv'
      BY <1>0, <1>1, <3>1, <3>3 DEF StarredInv, StarOps
    <3>6. QED
      BY <3>1, <3>4, <3>5
  <2>2. CASE L!StarFailed(p)
    <3>1. calls' = calls \ {p} /\ doubted' = doubted \cup {"starred"} /\ starred' = starred
      BY <2>2 DEF L!StarFailed, L!Drop
    <3>2. ListTypes'
      BY <1>0, <1>1, <3>1 DEF ListTypes
    <3>3. QED
      BY <1>0, <1>1, <3>1, <3>2 DEF StarredInv
  <2>3. CASE L!ListStarsAnswered(p, ok)
    <3>1. /\ p.op \in {"listStars", "relistStars"} /\ (ok => p.done) /\ calls' = calls \ {p}
          /\ starred' = IF ok THEN p.answer ELSE {}
          /\ doubted' = L!Settled(p, ok) /\ L!ListOf(p.op) = "starred"
      BY <2>3, OfList DEF L!ListStarsAnswered, L!Drop, StarOps
    <3>2. doubted' = IF ~ok THEN doubted \cup {"starred"}
                     ELSE IF p.alone /\ p.n = made - 1 THEN doubted \ {"starred"} ELSE doubted
      BY <3>1 DEF L!Settled
    <3>3. ListTypes'
      <4>1. ok => p.answer \in SUBSET Conversations
        BY <1>0, <3>1 DEF FitCall
      <4>2. QED
        BY <1>0, <1>1, <3>1, <3>2, <4>1 DEF ListTypes
    <3>4. "starred" \notin doubted' => ok /\ p.answer = stored.starred /\ \A r \in calls' : r.op \notin StarOps
      <4>1. CASE ok /\ p.alone /\ p.n = made - 1
        <5>1. p.answer = stored.starred
          BY <1>0, <3>1, <4>1 DEF StarredInv
        <5>2. \A r \in calls : r # p => r.n < p.n
          BY <1>0, <1>2, <4>1 DEF CallInv
        <5>3. \A r \in calls : r # p => r.op \notin StarOps
          BY <1>0, <1>1, <4>1, <5>2 DEF CallInv
        <5>4. QED
          BY <3>1, <4>1, <5>1, <5>3
      <4>2. CASE ~(ok /\ p.alone /\ p.n = made - 1)
        BY <1>0, <1>1, <3>1, <3>2, <4>2 DEF StarredInv
      <4>3. QED
        BY <4>1, <4>2
    <3>5. StarredInv'
      BY <1>0, <1>1, <3>1, <3>2, <3>4 DEF StarredInv, StarOps
    <3>6. QED
      BY <3>2, <3>3, <3>5
  <2>4. QED
    BY <2>1, <2>2, <2>3
<1>4. SavedInv'
  <2>1. {r \in calls : r.op \in SavedOps} = {r \in calls' : r.op \in SavedOps}
    BY <1>1 DEF StarOps, SavedOps
  <2>2. QED
    BY <1>0, <1>1, <1>3, <2>1, SavedFrame
<1>5. RolesInv'
  <2>1. {r \in calls : r.op \in RoleOps \ {"invite"}} = {r \in calls' : r.op \in RoleOps \ {"invite"}}
    BY <1>1 DEF RoleOps, StarOps
  <2>2. QED
    BY <1>1, <1>3, <2>1, RolesFrame
<1>6. QED
  BY <1>1, <1>3, <1>4, <1>5 DEF ListInv

\* What the calls of the members leave alone.
LEMMA RolesOnly ==
  ASSUME ListInv, \A p : p.op \notin RoleOps => (p \in calls <=> p \in calls'),
         stored' = stored, later' = later, starred' = starred,
         \A l \in {"saved", "starred"} : l \in doubted => l \in doubted',
         made' \in Nat, made' >= made
  PROVE  SavedInv' /\ StarredInv'
<1>1. {r \in calls : r.op \in SavedOps} = {r \in calls' : r.op \in SavedOps}
  BY DEF RoleOps, SavedOps
<1>2. {r \in calls : r.op \in StarOps} = {r \in calls' : r.op \in StarOps}
  BY DEF RoleOps, StarOps
<1>3. QED
  BY <1>1, <1>2, SavedFrame, StarredFrame

LEMMA RoleAsks ==
  ASSUME ListInv, \/ \E mine \in L!Roles : L!OpenAdmin(mine)
                  \/ \E u \in Members : L!RemoveMember(u) \/ \E role \in L!Roles : L!ChangeRole(u, role)
                  \/ L!CreateInvite
  PROVE  ListInv'
<1>0. /\ ListTypes /\ CallInv /\ RolesInv /\ none \notin Members \cup L!Roles
  BY PageConstants DEF ListInv, L!ListsAssumption
<1>1. PICK op \in RoleOps, of \in Members \cup {none}, arg \in L!Roles \cup {none} :
        /\ L!Post(op, of, arg) /\ UNCHANGED <<stored, later, starred>>
        /\ op \in {"role", "remove"} => of \in Members
        /\ op \in {"role", "members"} => arg \in L!Roles
        /\ \/ op = "members" /\ ~roster.open /\ roster' = [roster EXCEPT !.open = TRUE]
           \/ op \in {"role", "remove"} /\ L!CanEdit(of) /\ roster' = [roster EXCEPT !.busy = of]
           \/ op = "invite" /\ roster.open /\ roster' = [roster EXCEPT !.creating = TRUE]
  <2>1. ASSUME NEW mine \in L!Roles, L!OpenAdmin(mine)
        PROVE  /\ L!Post("members", none, mine) /\ UNCHANGED <<stored, later, starred>>
               /\ ~roster.open /\ roster' = [roster EXCEPT !.open = TRUE]
    BY <2>1 DEF L!OpenAdmin
  <2>2. ASSUME NEW u \in Members, NEW role \in L!Roles, L!ChangeRole(u, role)
        PROVE  /\ L!Post("role", u, role) /\ UNCHANGED <<stored, later, starred>>
               /\ L!CanEdit(u) /\ roster' = [roster EXCEPT !.busy = u]
    BY <2>2 DEF L!ChangeRole
  <2>3. ASSUME NEW u \in Members, L!RemoveMember(u)
        PROVE  /\ L!Post("remove", u, none) /\ UNCHANGED <<stored, later, starred>>
               /\ L!CanEdit(u) /\ roster' = [roster EXCEPT !.busy = u]
    BY <2>3 DEF L!RemoveMember
  <2>4. ASSUME L!CreateInvite
        PROVE  /\ L!Post("invite", none, none) /\ UNCHANGED <<stored, later, starred>>
               /\ roster.open /\ roster' = [roster EXCEPT !.creating = TRUE]
    BY <2>4 DEF L!CreateInvite
  <2>5. QED
    BY <2>1, <2>2, <2>3, <2>4 DEF RoleOps
<1>2. op \notin SavedOps \cup StarOps
  BY DEF StarOps, SavedOps, RoleOps
<1>3. /\ CallInv' /\ made' = made + 1 /\ made' \in Nat
      /\ doubted' \subseteq {"saved", "starred", "roles"} /\ doubted \subseteq doubted'
      /\ L!Overlaps(op, of) => doubted' = doubted \cup {L!ListOf(op)}
      /\ \E p \in ListCall : /\ calls' = calls \cup {p} /\ p \notin calls
                             /\ p.op = op /\ p.of = of /\ p.arg = arg /\ ~p.done
  BY <1>1, <1>2, PostSafe
<1>4. PICK p \in ListCall : calls' = calls \cup {p} /\ p \notin calls /\ p.op = op /\ p.of = of /\ ~p.done
  BY <1>3
<1>5. ListTypes'
  <2>1. roster' \in [open: BOOLEAN, mine: L!Roles \cup {none}, roles: RoleMaps,
                    busy: Members \cup {none}, link: BOOLEAN, creating: BOOLEAN]
    BY <1>0, <1>1 DEF ListTypes
  <2>2. QED
    BY <1>0, <1>1, <1>3, <2>1 DEF ListTypes
<1>6. SavedInv' /\ StarredInv'
  <2>1. made' >= made
    BY <1>0, <1>3 DEF ListTypes
  <2>2. QED
    BY <1>1, <1>2, <1>3, <1>4, <2>1, RolesOnly
<1>7. (\E q \in calls : q.op \in RoleOps /\ q.of = of) => "roles" \in doubted'
  BY <1>3, ListOverlaps, OfList
<1>8. RolesInv'
  <2>1. CASE op = "members"
    <3>1. roster.mine = none /\ ~roster.open /\ roster'.open /\ UNCHANGED <<roster.mine, roster.roles>>
      BY <1>0, <1>1, <2>1 DEF ListTypes, RolesInv
    <3>2. "roles" \in doubted' /\ (\A q \in calls' : ~Write(q)) /\ \A q \in calls : q.op # "members"
      BY <1>0, <1>3, <1>4, <2>1, <3>1 DEF RolesInv, Write
    <3>3. QED
      BY <1>4, <2>1, <3>1, <3>2 DEF RolesInv
  <2>2. CASE op \in {"role", "remove"}
    <3>1. roster.mine \in L!Roles /\ roster.mine # none /\ roster.open /\ UNCHANGED <<roster.mine, roster.roles, roster.open>>
      BY <1>0, <1>1, <2>2 DEF ListTypes, RolesInv, L!CanEdit, L!Roles
    <3>2. "roles" \notin doubted' =>
            /\ "roles" \notin doubted
            /\ \A q \in calls : Write(q) => q.of # of
      BY <1>3, <1>7 DEF Write, RoleOps
    <3>3. UNCHANGED stored /\ \A q \in calls' : q \in calls \/ q = p
      BY <1>1, <1>4
    <3>4. "roles" \notin doubted' =>
            /\ \A q, r \in calls' : Write(q) /\ Write(r) /\ q.of = r.of => q = r
            /\ \A u \in Members :
                 (\A q \in calls' : Write(q) /\ q.done => q.of # u) => roster'.roles[u] = stored'.roles[u]
            /\ \A q \in calls' : Write(q) /\ q.done =>
                 stored'.roles[q.of] = Rewritten(q, roster'.roles[q.of])
      BY <1>0, <1>4, <3>1, <3>2, <3>3 DEF RolesInv
    <3>5. (\A q, r \in calls' : q.op = "members" /\ r.op = "members" => q = r) /\ \A q \in calls' : q.op # "members"
      BY <1>0, <1>4, <2>2, <3>1 DEF RolesInv
    <3>6. QED
      BY <3>1, <3>4, <3>5 DEF RolesInv
  <2>3. CASE op = "invite"
    <3>1. {q \in calls : q.op \in RoleOps \ {"invite"}} = {q \in calls' : q.op \in RoleOps \ {"invite"}}
      BY <1>4, <2>3
    <3>2. UNCHANGED <<roster.mine, roster.roles, roster.open>>
      BY <1>0, <1>1, <2>3 DEF ListTypes
    <3>3. QED
      BY <1>1, <1>3, <3>1, <3>2, RolesFrame
  <2>4. QED
    BY <1>1, <2>1, <2>2, <2>3
<1>9. QED
  BY <1>3, <1>5, <1>6, <1>8 DEF ListInv

LEMMA RoleAnswers ==
  ASSUME ListInv, NEW p \in calls, NEW ok \in BOOLEAN,
         L!MembersAnswered(p) \/ L!MembersFailed(p) \/ L!WriteAnswered(p) \/ L!WriteFailed(p)
           \/ L!InviteAnswered(p, ok)
  PROVE  ListInv'
<1>0. /\ ListTypes /\ CallInv /\ RolesInv /\ none \notin Members \cup L!Roles
      /\ p \in ListCall /\ FitCall(p)
  BY PageConstants DEF ListInv, CallInv, L!ListsAssumption
<1>1. /\ p.op \in RoleOps /\ L!Drop(p) /\ UNCHANGED <<stored, later, starred>>
      /\ \A l \in {"saved", "starred"} : l \in doubted => l \in doubted'
      /\ doubted' \subseteq doubted \cup {"roles"}
  BY DEF L!MembersAnswered, L!MembersFailed, L!WriteAnswered, L!WriteFailed, L!InviteAnswered, RoleOps
<1>2. CallInv' /\ made' = made /\ made' \in Nat /\ calls' = calls \ {p}
  BY <1>1, DropSafe
<1>3. SavedInv' /\ StarredInv'
  <2>1. made' >= made
    BY <1>0, <1>2 DEF ListTypes
  <2>2. QED
    BY <1>1, <1>2, <2>1, RolesOnly
<1>4. roster' \in [open: BOOLEAN, mine: L!Roles \cup {none}, roles: RoleMaps,
                   busy: Members \cup {none}, link: BOOLEAN, creating: BOOLEAN]
      /\ RolesInv'
  <2>1. CASE L!MembersAnswered(p)
    <3>1. /\ p.op = "members" /\ p.done /\ p.arg \in L!Roles /\ p.answer = stored.roles
          /\ roster' = [roster EXCEPT !.mine = p.arg, !.roles = stored.roles]
          /\ roster.mine = none
      BY <1>0, <2>1 DEF L!MembersAnswered, RolesInv, FitCall
    <3>2. /\ \A q \in calls : ~Write(q)
          /\ \A q \in calls' : q.op # "members"
          /\ roster.open
      BY <1>0, <1>2, <3>1 DEF RolesInv
    <3>3. roster' \in [open: BOOLEAN, mine: L!Roles \cup {none}, roles: RoleMaps,
                       busy: Members \cup {none}, link: BOOLEAN, creating: BOOLEAN]
          /\ roster'.mine = p.arg /\ roster'.roles = stored.roles /\ roster'.open
      BY <1>0, <3>1, <3>2 DEF ListTypes
    <3>4. QED
      BY <1>0, <1>1, <1>2, <3>1, <3>2, <3>3 DEF RolesInv
  <2>2. CASE L!MembersFailed(p)
    <3>1. p.op = "members" /\ UNCHANGED <<roster, doubted>>
      BY <2>2 DEF L!MembersFailed
    <3>2. RolesInv'
      BY <1>0, <1>1, <1>2, <3>1 DEF RolesInv, Write
    <3>3. QED
      BY <1>0, <3>1, <3>2 DEF ListTypes
  <2>3. CASE L!WriteAnswered(p)
    <3> DEFINE was == roster.roles[p.of]
               to == IF p.op = "remove" THEN "gone" ELSE IF was = "gone" THEN was ELSE p.arg
    <3>1. Write(p) /\ p.done /\ doubted' = doubted /\ p.of \in Members
      BY <1>0, <2>3 DEF L!WriteAnswered, Write, FitCall
    <3>2. roster' = [roster EXCEPT !.busy = none, !.roles[p.of] = to]
      BY <2>3 DEF L!WriteAnswered
    <3>3. to = Rewritten(p, was) /\ to \in L!Roles \cup {"gone"}
      BY <1>0, <3>1 DEF Rewritten, Write, FitCall
    <3> HIDE DEF to
    <3>4. [roster.roles EXCEPT ![p.of] = to] \in RoleMaps
      BY <1>0, <3>1, <3>3 DEF ListTypes, RoleMaps
    <3>5. /\ \A u \in Members : u # p.of => [roster.roles EXCEPT ![p.of] = to][u] = roster.roles[u]
          /\ [roster.roles EXCEPT ![p.of] = to][p.of] = to
      BY <1>0, <3>1 DEF ListTypes, RoleMaps
    <3>6. /\ roster' \in [open: BOOLEAN, mine: L!Roles \cup {none}, roles: RoleMaps,
                          busy: Members \cup {none}, link: BOOLEAN, creating: BOOLEAN]
          /\ roster'.roles = [roster.roles EXCEPT ![p.of] = to]
          /\ roster'.open = roster.open /\ roster'.mine = roster.mine
      BY <1>0, <3>2, <3>4 DEF ListTypes
    <3>7. "roles" \notin doubted =>
            /\ \A u \in Members :
                 (\A q \in calls' : Write(q) /\ q.done => q.of # u) => roster'.roles[u] = stored.roles[u]
            /\ \A q \in calls' : Write(q) /\ q.done =>
                 stored.roles[q.of] = Rewritten(q, roster'.roles[q.of])
      <4>1. SUFFICES ASSUME "roles" \notin doubted
                     PROVE  /\ \A u \in Members :
                                 (\A q \in calls' : Write(q) /\ q.done => q.of # u) => roster'.roles[u] = stored.roles[u]
                            /\ \A q \in calls' : Write(q) /\ q.done =>
                                 stored.roles[q.of] = Rewritten(q, roster'.roles[q.of])
        OBVIOUS
      <4>2. stored.roles[p.of] = to
        BY <1>0, <3>1, <3>3, <4>1 DEF RolesInv
      <4>3. \A q \in calls' : Write(q) => q.of # p.of /\ q.of \in Members
        BY <1>0, <1>2, <3>1, <4>1 DEF RolesInv, CallInv, FitCall, Write
      <4>4. \A u \in Members : u # p.of =>
              ((\A q \in calls' : Write(q) /\ q.done => q.of # u) => roster.roles[u] = stored.roles[u])
        BY <1>0, <1>2, <4>1 DEF RolesInv
      <4>5. \A q \in calls' : Write(q) /\ q.done => stored.roles[q.of] = Rewritten(q, roster.roles[q.of])
        BY <1>0, <1>2, <4>1 DEF RolesInv
      <4>6. QED
        BY <3>5, <3>6, <4>2, <4>3, <4>4, <4>5
    <3>8. RolesInv'
      BY <1>0, <1>1, <1>2, <3>1, <3>6, <3>7 DEF RolesInv
    <3>9. QED
      BY <3>6, <3>8
  <2>4. CASE L!WriteFailed(p)
    <3>1. /\ Write(p) /\ roster' = [roster EXCEPT !.busy = none]
          /\ doubted' = IF p.done THEN doubted \cup {"roles"} ELSE doubted
      BY <2>4 DEF L!WriteFailed, Write
    <3>2. roster' \in [open: BOOLEAN, mine: L!Roles \cup {none}, roles: RoleMaps,
                       busy: Members \cup {none}, link: BOOLEAN, creating: BOOLEAN]
          /\ roster'.roles = roster.roles
          /\ roster'.open = roster.open /\ roster'.mine = roster.mine
      BY <1>0, <3>1 DEF ListTypes
    <3>3. RolesInv'
      BY <1>0, <1>1, <1>2, <3>1, <3>2 DEF RolesInv
    <3>4. QED
      BY <3>2, <3>3
  <2>5. CASE L!InviteAnswered(p, ok)
    <3>1. /\ p.op = "invite" /\ doubted' = doubted
          /\ roster' = [roster EXCEPT !.creating = FALSE, !.link = @ \/ ok]
      BY <2>5 DEF L!InviteAnswered
    <3>2. (roster.link \/ ok) \in BOOLEAN
      OBVIOUS
    <3>3. roster' \in [open: BOOLEAN, mine: L!Roles \cup {none}, roles: RoleMaps,
                       busy: Members \cup {none}, link: BOOLEAN, creating: BOOLEAN]
          /\ roster'.roles = roster.roles
          /\ roster'.open = roster.open /\ roster'.mine = roster.mine
      BY <1>0, <3>1, <3>2 DEF ListTypes
    <3>4. {q \in calls : q.op \in RoleOps \ {"invite"}} = {q \in calls' : q.op \in RoleOps \ {"invite"}}
      BY <1>2, <3>1
    <3>5. QED
      BY <1>1, <3>1, <3>3, <3>4, RolesFrame
  <2>6. QED
    BY <2>1, <2>2, <2>3, <2>4, <2>5
<1>5. ListTypes'
  BY <1>0, <1>1, <1>2, <1>4 DEF ListTypes
<1>6. QED
  BY <1>2, <1>3, <1>4, <1>5 DEF ListInv

LEMMA ListsStep ==
  ASSUME ListInv, [Next]_AllVars PROVE ListInv'
<1>1. CASE UNCHANGED listVars
  BY <1>1 DEF listVars, ListInv, ListTypes, CallInv, SavedInv, StarredInv, RolesInv
<1>2. CASE L!Next
  <2>1. ASSUME NEW p \in calls, NEW ok \in BOOLEAN,
               \/ L!Serve(p) \/ L!UnsaveAnswered(p) \/ L!UnsaveFailed(p) \/ L!UnsaveEnded(p)
               \/ L!StarAnswered(p) \/ L!StarFailed(p)
               \/ L!MembersAnswered(p) \/ L!MembersFailed(p) \/ L!WriteAnswered(p) \/ L!WriteFailed(p)
               \/ L!ListSavedAnswered(p, ok) \/ L!ListStarsAnswered(p, ok) \/ L!InviteAnswered(p, ok)
        PROVE  ListInv'
    BY <2>1, ServeListSafe, SavedAnswers, StarAnswers, RoleAnswers
  <2>2. QED
    BY <1>2, <2>1, SavedAsks, SavedMoves, StarAsks, RoleAsks DEF L!Next
<1>3. UNCHANGED listVars \/ L!Next
  BY DEF Next, AllVars
<1>4. QED
  BY <1>1, <1>2, <1>3

\* A list of the client with no call in flight is what the server holds, unless
\* two of its calls overlapped or one failed (saved/page.tsx, unsave;
\* conversation-list.tsx, toggleStar; admin/page.tsx, changeRole).
THEOREM ListsShown == Spec => [](L!TypeOK /\ L!ListsAgree)
<1>1. ListInv => L!TypeOK
  BY DEF ListInv, ListTypes, RoleMaps, L!TypeOK
<1>2. ListInv => L!ListsAgree
  <2>1. SUFFICES ASSUME ListInv PROVE L!ListsAgree
    OBVIOUS
  <2>2. \A p \in calls : p.op \in SavedOps \cup StarOps \cup RoleOps
    BY <2>1 DEF ListInv, CallInv, ListCall
  <2>3. "saved" \notin doubted /\ (\A p \in calls : L!ListOf(p.op) # "saved") => later.items = stored.saved
    BY <2>1, OfList DEF ListInv, SavedInv
  <2>4. "starred" \notin doubted /\ (\A p \in calls : L!ListOf(p.op) # "starred") => starred = stored.starred
    BY <2>1, OfList DEF ListInv, StarredInv
  <2>5. "roles" \notin doubted /\ (\A p \in calls : L!ListOf(p.op) # "roles") => roster.roles = stored.roles
    <3>1. SUFFICES ASSUME "roles" \notin doubted, \A p \in calls : L!ListOf(p.op) # "roles"
                   PROVE  roster.roles = stored.roles
      OBVIOUS
    <3>2. \A p \in calls : ~Write(p)
      BY <3>1, OfList DEF Write, RoleOps
    <3>3. \A u \in Members : roster.roles[u] = stored.roles[u]
      BY <2>1, <3>1, <3>2 DEF ListInv, RolesInv
    <3>4. roster.roles \in RoleMaps /\ stored.roles \in RoleMaps
      BY <2>1 DEF ListInv, ListTypes
    <3>5. QED
      BY <3>3, <3>4 DEF RoleMaps
  <2>6. QED
    BY <2>3, <2>4, <2>5 DEF L!ListsAgree
<1>3. Init => ListInv
  BY ListsInit DEF Init
<1>4. ListInv /\ [Next]_AllVars => ListInv'
  BY ListsStep
<1>5. QED
  BY <1>1, <1>2, <1>3, <1>4, PTL DEF Spec

-----------------------------------------------------------------------------
(* The hub.  Its calls are made while it is open; a listing that nothing   *)
(* of the hub was asked after finds no other call, and what it lists is    *)
(* what the user has.                                                      *)

Slots == (Names \X Nat) \cup {<<"invited", 0>>, U!NoWorkspace}

HubCall == [op: {"login", "register", "accept", "create", "join", "channel", "list", "open"},
            name: Names \cup U!Dialogs \cup {none}, ws: Slots, n: Nat, attempt: Nat, done: BOOLEAN,
            answer: SUBSET Slots]
HubPage == [listed: SUBSET Slots, loading: BOOLEAN, error: BOOLEAN, opening: Slots]

HubTypes ==
  /\ doorway \in {"sign-in", "invite", "hub", "home"} /\ signedIn \in BOOLEAN
  /\ invite \in {"open", "pending", "used"} /\ mode \in {"sign-in", "sign-up"}
  /\ taken \in [slugs: SUBSET Slots, mine: SUBSET Slots] /\ taken.mine \subseteq taken.slugs
  /\ requests \subseteq HubCall /\ sent \in Nat
  /\ dialog \in U!Dialogs \cup {none} /\ busy \subseteq U!Dialogs
  /\ typed \in [U!Dialogs -> Names \cup {none}]
  /\ hub \in HubPage /\ hub.listed \subseteq taken.mine /\ lost \in BOOLEAN

Making(q) == q.op \in {"create", "join"}
Listing(q) == q.op = "list"
Alone(q) == \A r \in requests : ~Making(r) /\ (Listing(r) => r = q)

HubInv ==
  /\ HubTypes
  /\ \A q \in requests : q.n < sent /\ (q.op \in {"create", "join", "channel"} => q.name \in Names)
  /\ doorway # "hub" => /\ lost /\ hub.listed = {} /\ dialog \in {none, "channel"} /\ busy \subseteq {"channel"}
                        /\ \A q \in requests : ~Making(q) /\ ~Listing(q)
  /\ \A q \in requests : q.op = "accept" =>
       doorway = "invite" /\ signedIn /\ \A r \in requests : r.op = "accept" => r = q
  /\ \A q \in requests : Listing(q) =>
       /\ q.done => q.answer \subseteq taken.mine
       /\ q.name = none /\ q.n = sent - 1 => Alone(q) /\ (q.done => q.answer = taken.mine)
  /\ ~lost =>
       /\ \A q, r \in requests : Listing(q) /\ Listing(r) => q = r
       /\ (\A q \in requests : Making(q) => ~q.done) =>
            /\ \A q \in requests : Listing(q) /\ q.done => q.answer = taken.mine
            /\ (\A q \in requests : ~Listing(q)) => hub.listed = taken.mine
  /\ \A d \in busy : \E q \in requests : q.op = d \/ (Listing(q) /\ q.name = d)

LEMMA HubInit == ASSUME U!Init PROVE HubInv
<1>1. none \notin Names \cup U!Dialogs
  BY PageConstants DEF U!HubAssumption
<1>2. /\ doorway \in {"sign-in", "invite", "home"} /\ signedIn \in BOOLEAN /\ invite = "open" /\ mode = "sign-in"
      /\ requests = {} /\ sent = 0 /\ dialog = none /\ busy = {} /\ lost = TRUE
      /\ typed = [d \in U!Dialogs |-> none]
      /\ hub = [listed |-> {}, loading |-> FALSE, error |-> FALSE, opening |-> U!NoWorkspace]
  BY DEF U!Init
<1>3. PICK s \in SUBSET Names : taken = [slugs |-> {<<n, 0>> : n \in s}, mine |-> {}]
  BY DEF U!Init
<1>4. /\ taken \in [slugs: SUBSET Slots, mine: SUBSET Slots] /\ taken.mine \subseteq taken.slugs
  BY <1>3 DEF Slots
<1>5. hub \in HubPage /\ hub.listed = {}
  BY <1>2 DEF HubPage, Slots
<1>6. HubTypes
  BY <1>2, <1>4, <1>5 DEF HubTypes
<1>7. QED
  BY <1>2, <1>5, <1>6 DEF HubInv

\* A call that begins.
LEMMA NewHubCall ==
  ASSUME HubInv, NEW op \in {"login", "register", "accept", "create", "join", "channel", "list", "open"},
         NEW name \in Names \cup U!Dialogs \cup {none}
  PROVE  LET q == U!Call(op, name)
         IN q \in HubCall /\ q.op = op /\ q.name = name /\ q.n = sent /\ ~q.done
BY DEF HubInv, HubTypes, U!Call, HubCall, Slots

\* A step that leaves the list, its calls and the server alone: calls are made,
\* but no listing, and calls that did nothing yet, or whose answer is lost, end.
LEMMA OtherCall ==
  ASSUME HubInv, UNCHANGED taken, lost' \in BOOLEAN, lost => lost',
         hub' \in HubPage, hub'.listed = hub.listed,
         signedIn' \in BOOLEAN, invite' \in {"open", "pending", "used"}, mode' \in {"sign-in", "sign-up"},
         doorway' \in {"sign-in", "invite", "hub", "home"},
         doorway' = doorway \/ (doorway # "hub" /\ doorway' # "hub" /\ \A q \in requests' : q.op # "accept"),
         signedIn' = signedIn \/ \A q \in requests' : q.op # "accept",
         dialog' \in U!Dialogs \cup {none}, dialog' \in {dialog, none} \/ dialog' = "channel" \/ doorway = "hub",
         typed' \in [U!Dialogs -> Names \cup {none}],
         sent' \in Nat, sent' >= sent,
         NEW new \in SUBSET HubCall, NEW old \in SUBSET requests,
         requests' = (requests \ old) \cup new,
         \A q \in new :
           /\ ~Listing(q) /\ (Making(q) => ~q.done /\ doorway = "hub" /\ sent' > sent)
           /\ q.n < sent' /\ (q.op \in U!Dialogs => q.name \in Names)
           /\ q.op = "accept" => doorway' = "invite" /\ signedIn' /\ \A r \in requests' : r.op = "accept" => r = q,
         \A q \in old : ~Listing(q) /\ (Making(q) /\ q.done => lost') /\ q.op \notin busy',
         busy' \subseteq U!Dialogs, \A d \in busy' : d \in busy \/ \E q \in new : q.op = d
  PROVE  HubInv'
<1>1. HubTypes'
  BY DEF HubInv, HubTypes
<1>2. \A q \in requests : q.n \in Nat /\ q.n < sent /\ sent \in Nat
  BY DEF HubInv, HubTypes, HubCall
<1>3. \A q \in requests' : q \in requests \/ q \in new
  OBVIOUS
<1>4. \A q \in requests : Listing(q) => q \in requests'
  OBVIOUS
<1>5. \A q \in requests' : Listing(q) => q \in requests
  BY <1>3
<1>6. \A q \in requests' : q.n < sent' /\ (q.op \in {"create", "join", "channel"} => q.name \in Names)
  BY <1>2, <1>3 DEF HubInv, U!Dialogs
<1>7. doorway' # "hub" => /\ lost' /\ hub'.listed = {} /\ dialog' \in {none, "channel"} /\ busy' \subseteq {"channel"}
                          /\ \A q \in requests' : ~Making(q) /\ ~Listing(q)
  <2>1. SUFFICES ASSUME doorway' # "hub" PROVE /\ lost' /\ hub'.listed = {} /\ dialog' \in {none, "channel"}
                                              /\ busy' \subseteq {"channel"}
                                              /\ \A q \in requests' : ~Making(q) /\ ~Listing(q)
    OBVIOUS
  <2>2. doorway # "hub"
    BY <2>1
  <2>3. /\ lost /\ hub.listed = {} /\ dialog \in {none, "channel"} /\ busy \subseteq {"channel"}
        /\ \A q \in requests : ~Making(q) /\ ~Listing(q)
    BY <2>2 DEF HubInv
  <2>4. \A q \in requests' : ~Making(q) /\ ~Listing(q)
    BY <1>3, <2>2, <2>3
  <2>5. busy' \subseteq {"channel"}
    <3>1. ASSUME NEW d \in busy' PROVE d = "channel"
      <4>1. CASE d \in busy
        BY <2>3, <4>1
      <4>2. CASE \E q \in new : q.op = d
        BY <2>4, <3>1, <4>2 DEF Making, U!Dialogs
      <4>3. QED
        BY <3>1, <4>1, <4>2
    <3>2. QED
      BY <3>1
  <2>6. QED
    BY <2>2, <2>3, <2>4, <2>5
<1>8. \A q \in requests' : q.op = "accept" => doorway' = "invite" /\ signedIn' /\ \A r \in requests' : r.op = "accept" => r = q
  <2>1. ASSUME NEW q \in requests', q.op = "accept"
        PROVE  doorway' = "invite" /\ signedIn' /\ \A r \in requests' : r.op = "accept" => r = q
    <3>1. CASE \E r \in new : r.op = "accept"
      BY <2>1, <3>1
    <3>2. CASE \A r \in new : r.op # "accept"
      BY <1>3, <2>1, <3>2 DEF HubInv
    <3>3. QED
      BY <3>1, <3>2
  <2>2. QED
    BY <2>1
<1>9. \A q \in requests' : Listing(q) =>
        /\ q.done => q.answer \subseteq taken'.mine
        /\ q.name = none /\ q.n = sent' - 1 => Alone(q)' /\ (q.done => q.answer = taken'.mine)
  <2>1. ASSUME NEW q \in requests', Listing(q)
        PROVE  /\ q.done => q.answer \subseteq taken'.mine
               /\ q.name = none /\ q.n = sent' - 1 => Alone(q)' /\ (q.done => q.answer = taken'.mine)
    <3>1. q \in requests
      BY <1>5, <2>1
    <3>2. q.n = sent' - 1 => q.n = sent - 1 /\ ~(sent' > sent)
      BY <1>2, <3>1
    <3>3. q.name = none /\ q.n = sent - 1 => Alone(q) /\ (q.done => q.answer = taken.mine)
      BY <2>1, <3>1 DEF HubInv
    <3>4. Alone(q) /\ ~(sent' > sent) => Alone(q)'
      BY <1>3, <1>5 DEF Alone
    <3>5. QED
      BY <2>1, <3>1, <3>2, <3>3, <3>4 DEF HubInv
  <2>2. QED
    BY <2>1
<1>10. ~lost' =>
         /\ \A q, r \in requests' : Listing(q) /\ Listing(r) => q = r
         /\ (\A q \in requests' : Making(q) => ~q.done) =>
              /\ \A q \in requests' : Listing(q) /\ q.done => q.answer = taken'.mine
              /\ (\A q \in requests' : ~Listing(q)) => hub'.listed = taken'.mine
  <2>1. ~lost' /\ (\A q \in requests' : Making(q) => ~q.done) => \A q \in requests : Making(q) => ~q.done
    OBVIOUS
  <2>2. QED
    BY <1>4, <1>5, <2>1 DEF HubInv
<1>11. \A d \in busy' : \E q \in requests' : q.op = d \/ (Listing(q) /\ q.name = d)
  <2>1. ASSUME NEW d \in busy' PROVE \E q \in requests' : q.op = d \/ (Listing(q) /\ q.name = d)
    <3>1. CASE \E q \in new : q.op = d
      BY <3>1
    <3>2. CASE d \in busy
      <4>1. PICK q \in requests : q.op = d \/ (Listing(q) /\ q.name = d)
        BY <3>2 DEF HubInv
      <4>2. q \in requests'
        BY <2>1, <4>1
      <4>3. QED
        BY <4>1, <4>2
    <3>3. QED
      BY <2>1, <3>1, <3>2
  <2>2. QED
    BY <2>1
<1>12. QED
  BY <1>1, <1>6, <1>7, <1>8, <1>9, <1>10, <1>11 DEF HubInv

\* A step without a call, a call that ends, and a call that begins.
LEMMA NoCall ==
  ASSUME HubInv, UNCHANGED taken, lost' \in BOOLEAN, lost => lost',
         hub' \in HubPage, hub'.listed = hub.listed,
         signedIn' \in BOOLEAN, invite' \in {"open", "pending", "used"}, mode' \in {"sign-in", "sign-up"},
         doorway' \in {"sign-in", "invite", "hub", "home"},
         doorway' = doorway \/ (doorway # "hub" /\ doorway' # "hub" /\ \A q \in requests' : q.op # "accept"),
         signedIn' = signedIn \/ \A q \in requests' : q.op # "accept",
         dialog' \in U!Dialogs \cup {none}, dialog' \in {dialog, none} \/ dialog' = "channel" \/ doorway = "hub",
         typed' \in [U!Dialogs -> Names \cup {none}],
         UNCHANGED <<requests, sent>>, busy' \subseteq busy
  PROVE  HubInv'
<1>1. requests' = (requests \ {}) \cup {} /\ {} \in SUBSET HubCall /\ {} \in SUBSET requests
  OBVIOUS
<1>2. sent' \in Nat /\ sent' >= sent /\ busy' \subseteq U!Dialogs
  BY DEF HubInv, HubTypes
<1>3. QED
  BY <1>1, <1>2, OtherCall

LEMMA CallEnds ==
  ASSUME HubInv, UNCHANGED taken, lost' \in BOOLEAN, lost => lost',
         hub' \in HubPage, hub'.listed = hub.listed,
         signedIn' \in BOOLEAN, invite' \in {"open", "pending", "used"}, mode' \in {"sign-in", "sign-up"},
         doorway' \in {"sign-in", "invite", "hub", "home"},
         doorway' = doorway \/ (doorway # "hub" /\ doorway' # "hub" /\ \A q \in requests' : q.op # "accept"),
         signedIn' = signedIn \/ \A q \in requests' : q.op # "accept",
         dialog' \in U!Dialogs \cup {none}, dialog' \in {dialog, none} \/ dialog' = "channel" \/ doorway = "hub",
         typed' \in [U!Dialogs -> Names \cup {none}],
         NEW q \in requests, requests' = requests \ {q}, sent' = sent, ~Listing(q), Making(q) /\ q.done => lost',
         q.op \notin busy', busy' \subseteq busy
  PROVE  HubInv'
<1>1. requests' = (requests \ {q}) \cup {} /\ {} \in SUBSET HubCall /\ {q} \in SUBSET requests
  OBVIOUS
<1>2. sent' \in Nat /\ sent' >= sent /\ busy' \subseteq U!Dialogs
  BY DEF HubInv, HubTypes
<1>3. \A r \in {q} : ~Listing(r) /\ (Making(r) /\ r.done => lost') /\ r.op \notin busy'
  OBVIOUS
<1>4. QED
  BY <1>1, <1>2, <1>3, OtherCall

LEMMA CallBegins ==
  ASSUME HubInv, UNCHANGED taken, lost' \in BOOLEAN, lost => lost',
         hub' \in HubPage, hub'.listed = hub.listed,
         signedIn' \in BOOLEAN, invite' \in {"open", "pending", "used"}, mode' \in {"sign-in", "sign-up"},
         doorway' \in {"sign-in", "invite", "hub", "home"},
         doorway' = doorway \/ (doorway # "hub" /\ doorway' # "hub" /\ \A q \in requests' : q.op # "accept"),
         signedIn' = signedIn \/ \A q \in requests' : q.op # "accept",
         dialog' \in U!Dialogs \cup {none}, dialog' \in {dialog, none} \/ dialog' = "channel" \/ doorway = "hub",
         typed' \in [U!Dialogs -> Names \cup {none}],
         NEW q \in HubCall, requests' = requests \cup {q}, sent' = sent + 1, ~Listing(q), q.n = sent,
         Making(q) => ~q.done /\ doorway = "hub", q.op \in U!Dialogs => q.name \in Names,
         q.op = "accept" => doorway' = "invite" /\ signedIn' /\ \A r \in requests : r.op # "accept",
         busy' \subseteq U!Dialogs, busy' \subseteq busy \cup {q.op}
  PROVE  HubInv'
<1> DEFINE new == {q}
<1>1. requests' = (requests \ {}) \cup new /\ new \in SUBSET HubCall /\ {} \in SUBSET requests
  OBVIOUS
<1>2. sent' \in Nat /\ sent' > sent /\ sent' >= sent /\ q.n < sent'
  BY DEF HubInv, HubTypes
<1>3. q.op = "accept" => \A r \in requests' : r.op = "accept" => r = q
  OBVIOUS
<1>4. \A r \in new :
        /\ ~Listing(r) /\ (Making(r) => ~r.done /\ doorway = "hub" /\ sent' > sent)
        /\ r.n < sent' /\ (r.op \in U!Dialogs => r.name \in Names)
        /\ r.op = "accept" => doorway' = "invite" /\ signedIn' /\ \A p \in requests' : p.op = "accept" => p = r
  BY <1>2, <1>3
<1>5. \A d \in busy' : d \in busy \/ \E r \in new : r.op = d
  OBVIOUS
<1> HIDE DEF new
<1>6. QED
  BY <1>1, <1>2, <1>4, <1>5, OtherCall

\* Getting in: the forms, and the calls that leave the list alone.
LEMMA GetInStep ==
  ASSUME HubInv,
         U!SetMode \/ U!Submit \/ U!SignOut \/ U!Verify
           \/ \E q \in requests : U!Registered(q) \/ U!SubmitFailed(q) \/ U!LoggedInAgain(q)
  PROVE  HubInv'
<1>0. HubTypes
  BY DEF HubInv
<1>1. /\ UNCHANGED <<taken, lost, hub, dialog, busy, typed>> /\ hub' \in HubPage /\ lost' \in BOOLEAN
      /\ dialog' \in U!Dialogs \cup {none} /\ busy' \subseteq U!Dialogs /\ typed' \in [U!Dialogs -> Names \cup {none}]
  BY <1>0 DEF HubTypes, U!SetMode, U!Submit, U!SignOut, U!Verify, U!Registered, U!SubmitFailed, U!LoggedInAgain,
              U!inHub, U!getIn
<1>2. CASE U!SetMode \/ U!SignOut
  <2>1. /\ requests' = requests /\ sent' = sent /\ sent' \in Nat
        /\ signedIn' \in BOOLEAN /\ invite' \in {"open", "pending", "used"} /\ mode' \in {"sign-in", "sign-up"}
    BY <1>0, <1>2 DEF HubTypes, U!SetMode, U!SignOut, U!inHub, U!getIn
  <2>2. /\ doorway' = doorway \/ (doorway = "home" /\ doorway' = "sign-in" /\ \A q \in requests' : q.op # "accept")
        /\ signedIn' = signedIn \/ \A q \in requests' : q.op # "accept"
    BY <1>2, <2>1 DEF HubInv, U!SetMode, U!SignOut
  <2>3. QED
    BY <1>0, <1>1, <2>1, <2>2, NoCall DEF HubTypes
<1>3. CASE U!Submit
  <2>1. PICK op \in {"login", "register"} : requests' = requests \cup {U!Call(op, none)} /\ sent' = sent + 1
    BY <1>3 DEF U!Submit, U!Post
  <2>2. UNCHANGED <<doorway, signedIn, invite, mode>>
    BY <1>3 DEF U!Submit, U!getIn
  <2> DEFINE q == U!Call(op, none)
  <2>3. q \in HubCall /\ q.n = sent /\ q.op = op
    BY <1>0, <2>1, NewHubCall DEF HubTypes
  <2>4. requests' = requests \cup {q}
    BY <2>1
  <2> HIDE DEF q
  <2>5. ~Listing(q) /\ ~Making(q) /\ q.op # "accept" /\ q.op \notin U!Dialogs
    BY <2>3 DEF Making, Listing, U!Dialogs
  <2>6. QED
    BY <1>0, <1>1, <2>1, <2>2, <2>3, <2>4, <2>5, CallBegins DEF HubTypes
<1>4. CASE U!Verify
  <2>1. CASE signedIn
    <3>1. /\ requests' = requests \cup {U!Call("accept", none)} /\ sent' = sent + 1 /\ doorway = "invite"
          /\ UNCHANGED <<doorway, signedIn, invite, mode>> /\ \A q \in requests : q.op # "accept"
      BY <1>4, <2>1 DEF U!Verify, U!Post, U!Waiting
    <3> DEFINE q == U!Call("accept", none)
    <3>2. q \in HubCall /\ q.n = sent /\ q.op = "accept"
      BY <1>0, <3>1, NewHubCall DEF HubTypes
    <3>3. requests' = requests \cup {q}
      BY <3>1
    <3> HIDE DEF q
    <3>4. ~Listing(q) /\ ~Making(q) /\ q.op \notin U!Dialogs
      BY <3>2 DEF Making, Listing, U!Dialogs
    <3>5. QED
      BY <1>0, <1>1, <2>1, <3>1, <3>2, <3>3, <3>4, CallBegins DEF HubTypes
  <2>2. CASE ~signedIn
    <3>1. /\ requests' = requests /\ sent' = sent /\ doorway = "invite" /\ doorway' = "sign-in"
          /\ mode' = "sign-in" /\ invite' \in {invite, "pending"} /\ signedIn' = signedIn
      BY <1>4, <2>2 DEF U!Verify
    <3>2. \A q \in requests' : q.op # "accept"
      BY <2>2, <3>1 DEF HubInv
    <3>3. QED
      BY <1>0, <1>1, <3>1, <3>2, NoCall DEF HubTypes
  <2>3. QED
    BY <2>1, <2>2
<1>5. ASSUME NEW q \in requests, U!Registered(q) \/ U!SubmitFailed(q) \/ U!LoggedInAgain(q) PROVE HubInv'
  <2>1. /\ requests' = requests \ {q} /\ sent' = sent /\ UNCHANGED <<doorway, signedIn, invite>>
        /\ mode' \in {mode, "sign-in"} /\ q.op \in {"login", "register"}
    BY <1>5 DEF U!Registered, U!SubmitFailed, U!LoggedInAgain, U!Drop, U!getIn
  <2>2. q.op \notin busy' /\ ~Making(q) /\ ~Listing(q)
    BY <1>1, <2>1 DEF Making, Listing, U!Dialogs
  <2>3. QED
    BY <1>0, <1>1, <2>1, <2>2, CallEnds DEF HubTypes
<1>6. QED
  BY <1>2, <1>3, <1>4, <1>5

\* The dialogs, and a workspace that opens.
LEMMA DialogStep ==
  ASSUME HubInv,
         \/ U!CloseDialog \/ U!SubmitDialog
         \/ \E d \in U!Dialogs : U!OpenDialog(d)
         \/ \E n \in Names : U!Type(n)
         \/ \E s \in hub.listed : U!OpenWorkspace(s)
         \/ \E q \in requests : \/ U!OutOfAttempts(q) \/ U!DialogFailed(q)
                                \/ \E ok \in BOOLEAN : U!ChannelAnswered(q, ok) \/ U!Opened(q, ok)
  PROVE  HubInv'
<1>0. HubTypes /\ none \notin U!Dialogs /\ U!NoWorkspace \in Slots
  BY PageConstants DEF HubInv, U!HubAssumption, Slots
<1>1. CASE U!CloseDialog
  BY <1>0, <1>1, NoCall DEF HubTypes, U!CloseDialog, U!getIn
<1>2. ASSUME NEW d \in U!Dialogs, U!OpenDialog(d) PROVE HubInv'
  <2>1. /\ UNCHANGED <<doorway, signedIn, invite, mode, taken, requests, sent, typed, busy, lost>>
        /\ dialog' = d /\ (d = "channel" \/ doorway = "hub")
    BY <1>2 DEF U!OpenDialog, U!getIn
  <2>2. hub' \in HubPage /\ hub'.listed = hub.listed
    BY <1>0, <1>2 DEF U!OpenDialog, HubTypes, HubPage
  <2>3. QED
    BY <1>0, <2>1, <2>2, NoCall DEF HubTypes
<1>3. ASSUME NEW n \in Names, U!Type(n) PROVE HubInv'
  BY <1>0, <1>3, NoCall DEF HubTypes, U!Type, U!getIn
<1>4. CASE U!SubmitDialog
  <2>1. /\ dialog \in U!Dialogs /\ typed[dialog] \in Names /\ busy' = busy \cup {dialog}
        /\ requests' = requests \cup {U!Call(dialog, typed[dialog])} /\ sent' = sent + 1
        /\ UNCHANGED <<doorway, signedIn, invite, mode, taken, dialog, typed, lost>>
    BY <1>0, <1>4 DEF HubTypes, U!SubmitDialog, U!Post, U!getIn
  <2>2. hub' \in HubPage /\ hub'.listed = hub.listed
    BY <1>0, <1>4 DEF U!SubmitDialog, HubTypes, HubPage
  <2> DEFINE q == U!Call(dialog, typed[dialog])
  <2>3. q \in HubCall /\ q.op = dialog /\ q.name = typed[dialog] /\ q.n = sent /\ ~q.done
    BY <2>1, NewHubCall DEF U!Dialogs
  <2>4. requests' = requests \cup {q}
    BY <2>1
  <2> HIDE DEF q
  <2>5. dialog # "channel" => doorway = "hub"
    BY <1>0, <2>1 DEF HubInv
  <2>6. ~Listing(q) /\ (Making(q) => doorway = "hub") /\ q.op # "accept"
    BY <2>1, <2>3, <2>5 DEF Making, Listing, U!Dialogs
  <2>7. QED
    BY <1>0, <2>1, <2>2, <2>3, <2>4, <2>6, CallBegins DEF HubTypes
<1>5. ASSUME NEW s \in hub.listed, U!OpenWorkspace(s) PROVE HubInv'
  <2> DEFINE q == [U!Call("open", none) EXCEPT !.ws = s]
  <2>1. /\ requests' = requests \cup {q} /\ sent' = sent + 1
        /\ UNCHANGED <<doorway, signedIn, invite, mode, taken, dialog, typed, busy, lost>>
    BY <1>5 DEF U!OpenWorkspace, U!getIn
  <2>2. s \in Slots
    BY <1>0, <1>5 DEF HubTypes, HubPage
  <2>3. hub' \in HubPage /\ hub'.listed = hub.listed
    BY <1>0, <1>5, <2>2 DEF U!OpenWorkspace, HubTypes, HubPage
  <2>4. q \in HubCall /\ q.op = "open" /\ q.n = sent
    BY <1>0, <2>2 DEF HubTypes, U!Call, HubCall
  <2> HIDE DEF q
  <2>5. ~Listing(q) /\ ~Making(q) /\ q.op \notin U!Dialogs
    BY <2>4 DEF Making, Listing, U!Dialogs
  <2>6. QED
    BY <1>0, <2>1, <2>3, <2>4, <2>5, CallBegins DEF HubTypes
<1>6. ASSUME NEW q \in requests, U!OutOfAttempts(q) \/ U!DialogFailed(q) PROVE HubInv'
  <2>1. /\ requests' = requests \ {q} /\ sent' = sent /\ q.op \in {"create", "join"} /\ busy' = busy \ {q.op}
        /\ lost' = (lost \/ q.done) /\ UNCHANGED <<doorway, signedIn, invite, mode, taken, dialog, typed>>
    BY <1>0, <1>6 DEF U!OutOfAttempts, U!DialogFailed, U!Drop, U!getIn, HubTypes, HubCall
  <2>2. hub' \in HubPage /\ hub'.listed = hub.listed
    BY <1>0, <1>6 DEF U!OutOfAttempts, U!DialogFailed, HubTypes, HubPage
  <2>3. q.done \in BOOLEAN /\ ~Listing(q) /\ q.op \notin busy'
    BY <1>0, <2>1 DEF HubTypes, HubCall, Listing
  <2>4. QED
    BY <1>0, <2>1, <2>2, <2>3, CallEnds DEF HubTypes
<1>7. ASSUME NEW q \in requests, NEW ok \in BOOLEAN, U!ChannelAnswered(q, ok) PROVE HubInv'
  <2>1. /\ requests' = requests \ {q} /\ sent' = sent /\ q.op = "channel" /\ busy' = busy \ {q.op}
        /\ UNCHANGED <<doorway, signedIn, invite, mode, taken, hub, lost>> /\ dialog' \in {dialog, none}
        /\ typed' \in [U!Dialogs -> Names \cup {none}]
    BY <1>0, <1>7 DEF U!ChannelAnswered, U!Drop, U!getIn, HubTypes
  <2>2. ~Listing(q) /\ ~Making(q) /\ q.op \notin busy'
    BY <2>1 DEF Making, Listing
  <2>3. QED
    BY <1>0, <2>1, <2>2, CallEnds DEF HubTypes
<1>8. ASSUME NEW q \in requests, NEW ok \in BOOLEAN, U!Opened(q, ok) PROVE HubInv'
  <2>1. /\ requests' = requests \ {q} /\ sent' = sent /\ q.op = "open"
        /\ UNCHANGED <<doorway, signedIn, invite, mode, taken, dialog, typed, busy, lost>>
    BY <1>8 DEF U!Opened, U!Drop, U!getIn
  <2>2. hub' \in HubPage /\ hub'.listed = hub.listed
    BY <1>0, <1>8 DEF U!Opened, HubTypes, HubPage
  <2>3. ~Listing(q) /\ ~Making(q) /\ q.op \notin busy'
    BY <1>0, <2>1 DEF Making, Listing, HubTypes, U!Dialogs
  <2>4. QED
    BY <1>0, <2>1, <2>2, <2>3, CallEnds DEF HubTypes
<1>9. QED
  BY <1>1, <1>2, <1>3, <1>4, <1>5, <1>6, <1>7, <1>8

\* The server makes a workspace, or takes the user into one: the call that asked
\* for it is still to be answered.
LEMMA ServedCall ==
  ASSUME HubInv, NEW q \in requests, U!ServeCreate(q) \/ U!ServeJoin(q)
  PROVE  HubInv'
<1>0. HubTypes
  BY DEF HubInv
<1>1. /\ Making(q) /\ ~q.done
      /\ UNCHANGED <<doorway, signedIn, invite, mode, sent, dialog, typed, busy, hub, lost>>
  BY DEF U!ServeCreate, U!ServeJoin, U!getIn, Making
<1>2. q.name \in Names /\ q \in HubCall
  BY <1>0, <1>1 DEF HubInv, HubTypes, Making
<1>3. U!Slug(q) \in Slots /\ <<q.name, 0>> \in Slots
  BY <1>2 DEF U!Slug, Slots, HubCall
<1>4. /\ taken' \in [slugs: SUBSET Slots, mine: SUBSET Slots] /\ taken'.mine \subseteq taken'.slugs
      /\ taken.mine \subseteq taken'.mine
  <2>1. \/ taken' = taken
        \/ taken' = [taken EXCEPT !.slugs = @ \cup {U!Slug(q)}, !.mine = @ \cup {U!Slug(q)}]
        \/ <<q.name, 0>> \in taken.slugs /\ taken' = [taken EXCEPT !.mine = @ \cup {<<q.name, 0>>}]
    BY DEF U!ServeCreate, U!ServeJoin
  <2> DEFINE s == U!Slug(q)
             t == <<q.name, 0>>
  <2>2. \/ taken' = taken
        \/ taken' = [taken EXCEPT !.slugs = @ \cup {s}, !.mine = @ \cup {s}]
        \/ t \in taken.slugs /\ taken' = [taken EXCEPT !.mine = @ \cup {t}]
    BY <2>1
  <2>3. s \in Slots /\ t \in Slots
    BY <1>3
  <2> HIDE DEF s, t
  <2>4. taken \in [slugs: SUBSET Slots, mine: SUBSET Slots] /\ taken.mine \subseteq taken.slugs
    BY <1>0 DEF HubTypes
  <2>5. CASE taken' = taken
    BY <2>4, <2>5
  <2>6. CASE taken' = [taken EXCEPT !.slugs = @ \cup {s}, !.mine = @ \cup {s}]
    <3>1. taken' = [slugs |-> taken.slugs \cup {s}, mine |-> taken.mine \cup {s}]
      BY <2>4, <2>6
    <3>2. QED
      BY <2>3, <2>4, <3>1
  <2>7. CASE t \in taken.slugs /\ taken' = [taken EXCEPT !.mine = @ \cup {t}]
    <3>1. taken' = [slugs |-> taken.slugs, mine |-> taken.mine \cup {t}]
      BY <2>4, <2>7
    <3>2. QED
      BY <2>3, <2>4, <2>7, <3>1
  <2>8. QED
    BY <2>2, <2>5, <2>6, <2>7
<1>5. PICK r : /\ requests' = (requests \ {q}) \cup {r} /\ r \in HubCall
               /\ r.op = q.op /\ r.name = q.name /\ r.n = q.n /\ (~r.done => taken' = taken)
  <2> DEFINE done == [q EXCEPT !.done = TRUE]
             again == [q EXCEPT !.attempt = @ + 1]
  <2>1. done \in HubCall /\ done.op = q.op /\ done.name = q.name /\ done.n = q.n /\ done.done = TRUE
    BY <1>2 DEF HubCall
  <2>2. again \in HubCall /\ again.op = q.op /\ again.name = q.name /\ again.n = q.n
    BY <1>2 DEF HubCall
  <2>3. requests' = (requests \ {q}) \cup {done} \/ (requests' = (requests \ {q}) \cup {again} /\ taken' = taken)
    BY DEF U!ServeCreate, U!ServeJoin
  <2> HIDE DEF done, again
  <2>4. QED
    BY <2>1, <2>2, <2>3
<1>6. Making(r) /\ ~Listing(r) /\ ~Listing(q) /\ r.op # "accept"
  BY <1>1, <1>5 DEF Making, Listing
<1>7. HubTypes'
  BY <1>0, <1>1, <1>4, <1>5 DEF HubTypes
<1>8. \A p \in requests' : p.n < sent' /\ (p.op \in {"create", "join", "channel"} => p.name \in Names)
  BY <1>1, <1>5 DEF HubInv
<1>9. doorway = "hub"
  BY <1>1 DEF HubInv
<1>10. \A p \in requests' : p.op # "accept"
  BY <1>5, <1>6, <1>9 DEF HubInv
<1>11. \A p \in requests' : Listing(p) => p \in requests /\ ~(p.name = none /\ p.n = sent - 1)
  <2>1. ASSUME NEW p \in requests', Listing(p) PROVE p \in requests /\ ~Alone(p)
    BY <1>1, <1>5, <1>6, <2>1 DEF Alone
  <2>2. QED
    BY <2>1 DEF HubInv
<1>12. \A p \in requests : Listing(p) => p \in requests'
  BY <1>5, <1>6
<1>13. ~lost /\ (\A p \in requests' : Making(p) => ~p.done) =>
         /\ taken' = taken /\ \A p \in requests : Making(p) => ~p.done
  BY <1>1, <1>5, <1>6
<1>14. \A p \in requests' : Listing(p) /\ p.done => p.answer \subseteq taken'.mine
  BY <1>4, <1>11 DEF HubInv
<1>15. \A d \in busy' : \E p \in requests' : p.op = d \/ (Listing(p) /\ p.name = d)
  <2>1. ASSUME NEW d \in busy PROVE \E p \in requests' : p.op = d \/ (Listing(p) /\ p.name = d)
    <3>1. PICK p \in requests : p.op = d \/ (Listing(p) /\ p.name = d)
      BY <2>1 DEF HubInv
    <3>2. r \in requests' /\ (p = q \/ p \in requests')
      BY <1>5
    <3>3. QED
      BY <1>5, <1>6, <3>1, <3>2
  <2>2. QED
    BY <1>1, <2>1
<1>16. ~lost' =>
         /\ \A p, t \in requests' : Listing(p) /\ Listing(t) => p = t
         /\ (\A p \in requests' : Making(p) => ~p.done) =>
              /\ \A p \in requests' : Listing(p) /\ p.done => p.answer = taken'.mine
              /\ (\A p \in requests' : ~Listing(p)) => hub'.listed = taken'.mine
  BY <1>1, <1>11, <1>12, <1>13 DEF HubInv
<1>17. \A p \in requests' : Listing(p) /\ p.name = none => p.n # sent' - 1
  BY <1>1, <1>11
<1>18. QED
  BY <1>1, <1>7, <1>8, <1>9, <1>10, <1>14, <1>15, <1>16, <1>17 DEF HubInv

\* An invitation that is taken up leads home; nothing of the hub is under way.
LEMMA AcceptedSafe ==
  ASSUME HubInv, NEW q \in requests, NEW ok \in BOOLEAN, U!Accepted(q, ok)
  PROVE  HubInv'
<1>0. HubTypes
  BY DEF HubInv
<1>1. /\ q.op = "accept" /\ requests' = requests \ {q} /\ sent' = sent
      /\ UNCHANGED <<signedIn, mode, dialog, typed, busy, hub, lost>>
  BY DEF U!Accepted, U!Drop
<1>2. /\ doorway = "invite" /\ lost /\ hub.listed = {} /\ dialog \in {none, "channel"} /\ busy \subseteq {"channel"}
      /\ \A p \in requests : ~Making(p) /\ ~Listing(p)
  BY <1>1 DEF HubInv
<1>3. CASE ok /\ invite # "used"
  <2>1. /\ invite' = "used" /\ doorway' = "home"
        /\ taken' = [taken EXCEPT !.slugs = @ \cup {<<"invited", 0>>}, !.mine = @ \cup {<<"invited", 0>>}]
    BY <1>2, <1>3 DEF U!Accepted
  <2>2. taken \in [slugs: SUBSET Slots, mine: SUBSET Slots] /\ taken.mine \subseteq taken.slugs
    BY <1>0 DEF HubTypes
  <2>3. taken' = [slugs |-> taken.slugs \cup {<<"invited", 0>>}, mine |-> taken.mine \cup {<<"invited", 0>>}]
    BY <2>1, <2>2
  <2>4. /\ taken' \in [slugs: SUBSET Slots, mine: SUBSET Slots] /\ taken'.mine \subseteq taken'.slugs
        /\ hub.listed \subseteq taken'.mine
    BY <1>2, <2>2, <2>3 DEF Slots
  <2>5. HubTypes'
    BY <1>0, <1>1, <2>1, <2>4 DEF HubTypes
  <2>6. \A p \in requests' : p.op # "accept" /\ ~Making(p) /\ ~Listing(p) /\ p \in requests
    BY <1>1, <1>2 DEF HubInv
  <2>7. \A d \in busy' : \E p \in requests' : p.op = d \/ (Listing(p) /\ p.name = d)
    <3>1. ASSUME NEW d \in busy PROVE \E p \in requests' : p.op = d \/ (Listing(p) /\ p.name = d)
      <4>1. PICK p \in requests : p.op = d \/ (Listing(p) /\ p.name = d)
        BY <3>1 DEF HubInv
      <4>2. p.op = "channel" /\ p # q
        BY <1>1, <1>2, <3>1, <4>1
      <4>3. QED
        BY <1>1, <4>1, <4>2
    <3>2. QED
      BY <1>1, <3>1
  <2>8. QED
    BY <1>1, <1>2, <2>1, <2>5, <2>6, <2>7 DEF HubInv
<1>4. CASE ~(ok /\ invite # "used")
  <2>1. UNCHANGED <<invite, taken, doorway>>
    BY <1>4 DEF U!Accepted
  <2>2. q.op \notin busy /\ ~Listing(q) /\ ~Making(q)
    BY <1>0, <1>1 DEF HubTypes, U!Dialogs, Listing, Making
  <2>3. QED
    BY <1>0, <1>1, <2>1, <2>2, CallEnds DEF HubTypes
<1>5. QED
  BY <1>3, <1>4

\* The list opens: the listing it begins with is the only call of the hub.
LEMMA ListOpens ==
  ASSUME HubInv, U!OpenHub \/ \E q \in requests : U!LoggedIn(q)
  PROVE  HubInv'
<1>0. HubTypes
  BY DEF HubInv
<1>1. /\ doorway # "hub" /\ doorway # "invite" /\ doorway' = "hub" /\ signedIn' \in BOOLEAN
      /\ dialog' = none /\ busy' = {} /\ typed' = [d \in U!Dialogs |-> none]
      /\ hub' = [hub EXCEPT !.loading = TRUE, !.error = FALSE, !.listed = {}, !.opening = U!NoWorkspace]
      /\ UNCHANGED <<invite, mode, taken, lost>>
  BY <1>0 DEF U!OpenHub, U!LoggedIn, HubTypes
<1>2. lost /\ \A p \in requests : ~Making(p) /\ ~Listing(p) /\ p.op # "accept"
  BY <1>1 DEF HubInv
<1>3. hub' \in HubPage /\ hub'.listed = {}
  BY <1>0, <1>1 DEF HubTypes, HubPage, Slots
<1>4. \E l \in HubCall : \E old \in SUBSET requests :
        /\ requests' = (requests \ old) \cup {l} /\ sent' \in Nat /\ sent' >= sent
        /\ Listing(l) /\ l.name = none /\ l.n = sent' - 1 /\ l.n < sent' /\ ~l.done
  <2>1. CASE U!OpenHub
    <3> DEFINE l == U!Call("list", none)
    <3>1. l \in HubCall /\ l.op = "list" /\ l.name = none /\ l.n = sent /\ ~l.done
      BY NewHubCall
    <3>2. requests' = requests \cup {l} /\ sent' = sent + 1
      BY <2>1 DEF U!OpenHub, U!Post
    <3> HIDE DEF l
    <3>3. requests' = (requests \ {}) \cup {l} /\ {} \in SUBSET requests /\ sent' - 1 = sent
        /\ sent' \in Nat /\ sent' >= sent /\ sent < sent'
      BY <1>0, <3>2 DEF HubTypes
    <3>4. QED
      BY <3>1, <3>3 DEF Listing
  <2>2. ASSUME NEW q \in requests, U!LoggedIn(q)
        PROVE  \E l \in HubCall : \E old \in SUBSET requests :
                 /\ requests' = (requests \ old) \cup {l} /\ sent' \in Nat /\ sent' >= sent
                 /\ Listing(l) /\ l.name = none /\ l.n = sent' - 1 /\ l.n < sent' /\ ~l.done
    <3> DEFINE l == [U!Call("list", none) EXCEPT !.n = sent - 1]
    <3>1. q.n \in Nat /\ q.n < sent /\ sent \in Nat
      BY DEF HubInv, HubTypes, HubCall
    <3>2. U!Call("list", none) \in HubCall /\ U!Call("list", none).op = "list" /\ U!Call("list", none).name = none
          /\ ~U!Call("list", none).done
      BY NewHubCall
    <3>3. l \in HubCall /\ l.op = "list" /\ l.name = none /\ l.n = sent - 1 /\ ~l.done
      BY <3>1, <3>2 DEF HubCall
    <3>4. requests' = (requests \ {q}) \cup {l} /\ sent' = sent
      BY <2>2 DEF U!LoggedIn
    <3> HIDE DEF l
    <3>5. {q} \in SUBSET requests /\ sent' \in Nat /\ sent' >= sent /\ sent - 1 < sent'
      BY <3>1, <3>4
    <3>6. QED
      BY <3>3, <3>4, <3>5 DEF Listing
  <2>3. QED
    BY <2>1, <2>2
<1>5. PICK l \in HubCall, old \in SUBSET requests :
        /\ requests' = (requests \ old) \cup {l} /\ sent' \in Nat /\ sent' >= sent
        /\ Listing(l) /\ l.name = none /\ l.n = sent' - 1 /\ l.n < sent' /\ ~l.done
  BY <1>4
<1>6. \A p \in requests' : p = l \/ (p \in requests /\ ~Making(p) /\ ~Listing(p) /\ p.op # "accept")
  BY <1>2, <1>5
<1>7. ~Making(l) /\ l.op # "accept" /\ l.op \notin {"create", "join", "channel"}
  BY <1>5 DEF Making, Listing
<1>8. HubTypes'
  <2>1. typed' \in [U!Dialogs -> Names \cup {none}]
    BY <1>1
  <2>2. QED
    BY <1>0, <1>1, <1>3, <1>5, <2>1 DEF HubTypes
<1>9. \A p \in requests' : p.n < sent' /\ (p.op \in {"create", "join", "channel"} => p.name \in Names)
  <2>1. ASSUME NEW p \in requests PROVE p.n < sent' /\ (p.op \in {"create", "join", "channel"} => p.name \in Names)
    <3>1. p.n < sent /\ p.n \in Nat /\ sent \in Nat
      BY DEF HubInv, HubTypes, HubCall
    <3>2. QED
      BY <1>5, <3>1 DEF HubInv
  <2>2. l.n < sent'
    BY <1>5
  <2>3. QED
    BY <1>6, <1>7, <2>1, <2>2
<1>10. \A p \in requests' : p.op # "accept" /\ ~Making(p) /\ (Listing(p) => p = l)
  BY <1>6, <1>7
<1>11. Alone(l)'
  BY <1>10 DEF Alone
<1>12. QED
  BY <1>1, <1>2, <1>3, <1>5, <1>8, <1>9, <1>10, <1>11 DEF HubInv

\* A workspace was made or joined: the list is asked for what there is now.
LEMMA AnsweredSafe ==
  ASSUME HubInv, NEW q \in requests, U!DialogAnswered(q)
  PROVE  HubInv'
<1>0. HubTypes /\ none \notin U!Dialogs
  BY PageConstants DEF HubInv, U!HubAssumption
<1>1. /\ Making(q) /\ q.done /\ ~Listing(q) /\ q.op \in U!Dialogs /\ q.op # "channel" /\ dialog' = none
      /\ typed' = [typed EXCEPT ![q.op] = none]
      /\ hub' = [hub EXCEPT !.loading = TRUE] /\ lost' = (lost \/ \E p \in requests : p.op = "list")
      /\ UNCHANGED <<doorway, signedIn, invite, mode, taken, sent, busy>>
  BY DEF U!DialogAnswered, U!Waiting, U!getIn, Making, Listing, U!Dialogs
<1>2. PICK l \in HubCall : /\ requests' = (requests \ {q}) \cup {l} /\ l.op = "list" /\ l.name = q.op /\ l.n = q.n
                           /\ ~l.done
  <2> DEFINE t == U!Call("list", q.op)
             l == [t EXCEPT !.n = q.n]
  <2>1. t \in HubCall /\ t.op = "list" /\ t.name = q.op /\ ~t.done
    BY <1>1, NewHubCall
  <2>2. q.n \in Nat
    BY <1>0 DEF HubTypes, HubCall
  <2>3. requests' = (requests \ {q}) \cup {l}
    BY DEF U!DialogAnswered
  <2> HIDE DEF t
  <2>4. l \in HubCall /\ l.op = "list" /\ l.name = q.op /\ l.n = q.n /\ ~l.done
    BY <2>1, <2>2 DEF HubCall
  <2>5. QED
    BY <2>3, <2>4
<1>3. Listing(l) /\ ~Making(l) /\ l.op # "accept" /\ l.name # none
  BY <1>0, <1>1, <1>2 DEF Listing, Making
<1>4. \A p \in requests' : p = l \/ p \in requests
  BY <1>2
<1>5. HubTypes'
  <2>1. hub' \in HubPage /\ hub'.listed = hub.listed
    BY <1>0, <1>1 DEF HubTypes, HubPage
  <2>2. typed' \in [U!Dialogs -> Names \cup {none}]
    BY <1>0, <1>1 DEF HubTypes
  <2>3. lost' \in BOOLEAN
    BY <1>1
  <2>4. QED
    BY <1>0, <1>1, <1>2, <2>1, <2>2, <2>3 DEF HubTypes
<1>6. doorway = "hub"
  BY <1>1 DEF HubInv
<1>7. \A p \in requests' : p.n < sent' /\ (p.op \in {"create", "join", "channel"} => p.name \in Names)
  BY <1>1, <1>2, <1>4 DEF HubInv
<1>8. \A p \in requests' : p.op # "accept"
  BY <1>3, <1>4, <1>6 DEF HubInv
<1>9. \A p \in requests : Listing(p) => ~(p.name = none /\ p.n = sent - 1) /\ (p.done => p.answer \subseteq taken.mine)
  BY <1>1 DEF HubInv, Alone
<1>10. ~lost' => ~lost /\ \A p \in requests' : Listing(p) => p = l
  BY <1>0, <1>1, <1>4 DEF HubTypes, Listing
<1>11. l \in requests'
  BY <1>2
<1>12. \A d \in busy' : \E p \in requests' : p.op = d \/ (Listing(p) /\ p.name = d)
  <2>1. ASSUME NEW d \in busy PROVE \E p \in requests' : p.op = d \/ (Listing(p) /\ p.name = d)
    <3>1. PICK p \in requests : p.op = d \/ (Listing(p) /\ p.name = d)
      BY <2>1 DEF HubInv
    <3>2. CASE p = q
      BY <1>1, <1>2, <1>3, <1>11, <3>1, <3>2
    <3>3. CASE p # q
      BY <1>2, <3>1, <3>3
    <3>4. QED
      BY <3>2, <3>3
  <2>2. QED
    BY <1>1, <2>1
<1>13. ~lost' =>
         /\ \A p, r \in requests' : Listing(p) /\ Listing(r) => p = r
         /\ (\A p \in requests' : Making(p) => ~p.done) =>
              /\ \A p \in requests' : Listing(p) /\ p.done => p.answer = taken'.mine
              /\ (\A p \in requests' : ~Listing(p)) => hub'.listed = taken'.mine
  <2>1. ASSUME ~lost' PROVE \A p, r \in requests' : Listing(p) /\ Listing(r) => p = r
    BY <1>10, <2>1
  <2>2. ASSUME ~lost' PROVE \A p \in requests' : Listing(p) /\ p.done => p.answer = taken'.mine
    BY <1>2, <1>10, <2>2
  <2>3. ~\A p \in requests' : ~Listing(p)
    BY <1>3, <1>11
  <2>4. QED
    BY <2>1, <2>2, <2>3
<1>14. \A p \in requests' : Listing(p) =>
         /\ p.done => p.answer \subseteq taken'.mine
         /\ p.name = none => p.n # sent' - 1
  BY <1>1, <1>2, <1>3, <1>4, <1>9
<1>15. QED
  BY <1>1, <1>5, <1>6, <1>7, <1>8, <1>12, <1>13, <1>14 DEF HubInv

\* The server lists what the user has.
LEMMA ServeHubList ==
  ASSUME HubInv, NEW q \in requests, U!ServeList(q)
  PROVE  HubInv'
<1>0. HubTypes
  BY DEF HubInv
<1>1. /\ Listing(q) /\ ~q.done
      /\ UNCHANGED <<doorway, signedIn, invite, mode, taken, sent, dialog, typed, busy, hub, lost>>
  BY DEF U!ServeList, U!getIn, U!inHub, Listing
<1>2. PICK l \in HubCall : /\ requests' = (requests \ {q}) \cup {l} /\ l.op = q.op /\ l.name = q.name /\ l.n = q.n
                           /\ l.done /\ l.answer = taken.mine
  <2> DEFINE l == [q EXCEPT !.done = TRUE, !.answer = taken.mine]
  <2>1. q \in HubCall /\ taken.mine \in SUBSET Slots
    BY <1>0 DEF HubTypes
  <2>2. l \in HubCall /\ l.op = q.op /\ l.name = q.name /\ l.n = q.n /\ l.done /\ l.answer = taken.mine
    BY <2>1 DEF HubCall
  <2>3. requests' = (requests \ {q}) \cup {l}
    BY DEF U!ServeList
  <2>4. QED
    BY <2>2, <2>3
<1>3. Listing(l) /\ ~Making(l) /\ ~Making(q) /\ l.op # "accept" /\ l \in requests'
  BY <1>1, <1>2 DEF Listing, Making
<1>4. \A p \in requests' : p = l \/ (p \in requests /\ p # q)
  BY <1>2
<1>5. doorway = "hub"
  BY <1>1 DEF HubInv
<1>6. HubTypes'
  BY <1>0, <1>1, <1>2 DEF HubTypes
<1>7. \A p \in requests' : p.n < sent' /\ (p.op \in {"create", "join", "channel"} => p.name \in Names)
  BY <1>1, <1>2, <1>4 DEF HubInv
<1>8. \A p \in requests' : p.op # "accept"
  BY <1>3, <1>4, <1>5 DEF HubInv
<1>9. \A p \in requests' : Listing(p) =>
        /\ p.done => p.answer \subseteq taken'.mine
        /\ p.name = none /\ p.n = sent' - 1 => Alone(p)' /\ (p.done => p.answer = taken'.mine)
  <2>1. Alone(q) => Alone(l)'
    BY <1>3, <1>4 DEF Alone
  <2>2. q.name = none /\ q.n = sent - 1 => Alone(q)
    BY <1>1 DEF HubInv
  <2>3. ASSUME NEW p \in requests, p # q, Listing(p) PROVE ~(p.name = none /\ p.n = sent - 1) /\ (p.done => p.answer \subseteq taken.mine)
    BY <1>1, <2>3 DEF HubInv, Alone
  <2>4. l.name = none /\ l.n = sent' - 1 => Alone(l)'
    BY <1>1, <1>2, <2>1, <2>2
  <2>5. ASSUME NEW p \in requests', Listing(p), p # l
        PROVE  ~(p.name = none /\ p.n = sent' - 1) /\ (p.done => p.answer \subseteq taken'.mine)
    BY <1>1, <1>4, <2>3, <2>5
  <2>6. l.answer = taken'.mine /\ l.answer \subseteq taken'.mine
    BY <1>1, <1>2
  <2>7. QED
    BY <2>4, <2>5, <2>6
<1>10. ~lost' =>
         /\ \A p, r \in requests' : Listing(p) /\ Listing(r) => p = r
         /\ (\A p \in requests' : Making(p) => ~p.done) =>
              /\ \A p \in requests' : Listing(p) /\ p.done => p.answer = taken'.mine
              /\ (\A p \in requests' : ~Listing(p)) => hub'.listed = taken'.mine
  <2>1. ASSUME ~lost PROVE \A p \in requests : Listing(p) => p = q
    BY <1>1, <2>1 DEF HubInv
  <2>2. ASSUME ~lost' PROVE \A p \in requests' : Listing(p) => p = l
    BY <1>1, <1>4, <2>1, <2>2
  <2>3. ~\A p \in requests' : ~Listing(p)
    BY <1>3
  <2>4. l.answer = taken'.mine
    BY <1>1, <1>2
  <2>5. QED
    BY <2>2, <2>3, <2>4
<1>11. \A d \in busy' : \E p \in requests' : p.op = d \/ (Listing(p) /\ p.name = d)
  <2>1. ASSUME NEW d \in busy PROVE \E p \in requests' : p.op = d \/ (Listing(p) /\ p.name = d)
    <3>1. PICK p \in requests : p.op = d \/ (Listing(p) /\ p.name = d)
      BY <2>1 DEF HubInv
    <3>2. CASE p = q
      BY <1>2, <1>3, <3>1, <3>2
    <3>3. CASE p # q
      BY <1>2, <3>1, <3>3
    <3>4. QED
      BY <3>2, <3>3
  <2>2. QED
    BY <1>1, <2>1
<1>12. QED
  BY <1>1, <1>5, <1>6, <1>7, <1>8, <1>9, <1>10, <1>11 DEF HubInv

\* The list is shown, or could not be had.
LEMMA ListedSafe ==
  ASSUME HubInv, NEW q \in requests, NEW ok \in BOOLEAN, U!Listed(q, ok)
  PROVE  HubInv'
<1>0. HubTypes
  BY DEF HubInv
<1>1. /\ Listing(q) /\ (ok => q.done) /\ requests' = requests \ {q} /\ sent' = sent /\ busy' = busy \ {q.name}
      /\ lost' = (IF ok /\ q.name = none /\ q.n = sent - 1 THEN FALSE ELSE lost \/ ~ok)
      /\ UNCHANGED <<doorway, signedIn, invite, mode, taken, dialog, typed>>
  BY DEF U!Listed, U!Drop, U!getIn, Listing
<1>2. doorway = "hub" /\ ~Making(q)
  BY <1>1 DEF HubInv, Making, Listing
<1>3. q.done => q.answer \subseteq taken.mine
  BY <1>1 DEF HubInv
<1>4. hub' \in HubPage /\ hub'.listed = (IF ok THEN q.answer ELSE hub.listed)
  <2>1. q.answer \subseteq Slots
    BY <1>0 DEF HubTypes, HubCall
  <2>2. hub \in HubPage
    BY <1>0 DEF HubTypes
  <2>3. hub' = [hub EXCEPT !.listed = IF ok THEN q.answer ELSE @, !.loading = FALSE, !.error = @ \/ ~ok]
    BY DEF U!Listed
  <2>4. (hub.error \/ ~ok) \in BOOLEAN
    OBVIOUS
  <2>5. QED
    BY <2>1, <2>2, <2>3, <2>4 DEF HubPage
<1>5. HubTypes'
  <2>1. lost' \in BOOLEAN
    BY <1>0, <1>1 DEF HubTypes
  <2>2. hub'.listed \subseteq taken'.mine
    BY <1>0, <1>1, <1>3, <1>4 DEF HubTypes
  <2>3. QED
    BY <1>0, <1>1, <1>4, <2>1, <2>2 DEF HubTypes
<1>6. \A p \in requests' : p.n < sent' /\ (p.op \in {"create", "join", "channel"} => p.name \in Names)
  BY <1>1 DEF HubInv
<1>7. \A p \in requests' : p.op # "accept"
  BY <1>1, <1>2 DEF HubInv
<1>8. \A p \in requests' : Listing(p) =>
        /\ p.done => p.answer \subseteq taken'.mine
        /\ p.name = none /\ p.n = sent' - 1 => Alone(p)' /\ (p.done => p.answer = taken'.mine)
  <2>1. ASSUME NEW p \in requests', Listing(p) PROVE ~Alone(p) /\ p \in requests
    BY <1>1, <2>1 DEF Alone
  <2>2. QED
    BY <1>1, <2>1 DEF HubInv
<1>9. \A d \in busy' : \E p \in requests' : p.op = d \/ (Listing(p) /\ p.name = d)
  <2>1. ASSUME NEW d \in busy' PROVE \E p \in requests' : p.op = d \/ (Listing(p) /\ p.name = d)
    <3>1. d \in busy /\ d # q.name /\ d # q.op
      BY <1>0, <1>1, <2>1 DEF HubTypes, U!Dialogs, Listing
    <3>2. PICK p \in requests : p.op = d \/ (Listing(p) /\ p.name = d)
      BY <3>1 DEF HubInv
    <3>3. QED
      BY <1>1, <3>1, <3>2
  <2>2. QED
    BY <2>1
<1>10. ~lost' =>
         /\ \A p \in requests' : ~Listing(p)
         /\ (\A p \in requests' : Making(p) => ~p.done) => hub'.listed = taken'.mine
  <2>1. CASE ok /\ q.name = none /\ q.n = sent - 1
    <3>1. Alone(q) /\ q.answer = taken.mine
      BY <1>1, <2>1 DEF HubInv
    <3>2. QED
      BY <1>1, <1>4, <2>1, <3>1 DEF Alone
  <2>2. CASE ~(ok /\ q.name = none /\ q.n = sent - 1)
    <3>1. ASSUME ~lost' PROVE ~lost /\ ok
      BY <1>0, <1>1, <2>2, <3>1 DEF HubTypes
    <3>2. ASSUME ~lost, ok PROVE \A p \in requests' : ~Listing(p)
      BY <1>1, <3>2 DEF HubInv
    <3>3. ASSUME ~lost, ok, \A p \in requests' : Making(p) => ~p.done PROVE hub'.listed = taken'.mine
      <4>1. \A p \in requests : Making(p) => ~p.done
        BY <1>1, <1>2, <3>3
      <4>2. q.answer = taken.mine
        BY <1>1, <3>3, <4>1 DEF HubInv
      <4>3. QED
        BY <1>1, <1>4, <3>3, <4>2
    <3>4. QED
      BY <3>1, <3>2, <3>3
  <2>3. QED
    BY <2>1, <2>2
<1>11. QED
  BY <1>1, <1>2, <1>5, <1>6, <1>7, <1>8, <1>9, <1>10 DEF HubInv

LEMMA HubStep == ASSUME HubInv, [Next]_AllVars PROVE HubInv'
<1>1. CASE UNCHANGED hubVars
  BY <1>1 DEF hubVars, HubInv, HubTypes, Alone
<1>2. CASE U!Next
  <2>1. CASE U!SetMode \/ U!Submit \/ U!SignOut \/ U!Verify
    BY <2>1, GetInStep
  <2>2. CASE \/ U!CloseDialog \/ U!SubmitDialog \/ \E d \in U!Dialogs : U!OpenDialog(d)
             \/ \E n \in Names : U!Type(n)
             \/ \E s \in hub.listed : U!OpenWorkspace(s)
    BY <2>2, DialogStep
  <2>3. CASE U!OpenHub
    BY <2>3, ListOpens
  <2>4. ASSUME NEW q \in requests, U!Registered(q) \/ U!SubmitFailed(q) \/ U!LoggedInAgain(q) PROVE HubInv'
    BY <2>4, GetInStep
  <2>5. ASSUME NEW q \in requests, U!OutOfAttempts(q) \/ U!DialogFailed(q) PROVE HubInv'
    BY <2>5, DialogStep
  <2>6. ASSUME NEW q \in requests, NEW ok \in BOOLEAN, U!ChannelAnswered(q, ok) \/ U!Opened(q, ok) PROVE HubInv'
    BY <2>6, DialogStep
  <2>7. ASSUME NEW q \in requests, U!LoggedIn(q) PROVE HubInv'
    BY <2>7, ListOpens
  <2>8. QED
    BY <1>2, <2>1, <2>2, <2>3, <2>4, <2>5, <2>6, <2>7, ServedCall, AcceptedSafe, AnsweredSafe, ServeHubList, ListedSafe
    DEF U!Next
<1>3. UNCHANGED hubVars \/ U!Next
  BY DEF Next, AllVars
<1>4. QED
  BY <1>1, <1>2, <1>3

\* With nothing of it in flight the page lists every workspace of the user,
\* unless two listings overlapped, the last one failed or the answer of a call
\* that made or joined one was lost; and a dialog is busy only while its call,
\* or the listing after it, is in flight (workspaces/page.tsx).
THEOREM HubShown == Spec => [](U!TypeOK /\ U!HubAgrees /\ U!BusyEnds)
<1>1. HubInv => U!TypeOK /\ U!HubAgrees /\ U!BusyEnds
  <2>1. SUFFICES ASSUME HubInv PROVE U!TypeOK /\ U!HubAgrees /\ U!BusyEnds
    OBVIOUS
  <2>2. U!TypeOK
    BY <2>1 DEF HubInv, HubTypes, HubPage, U!TypeOK
  <2>3. U!HubAgrees
    <3>1. ASSUME doorway = "hub", ~lost, \A q \in requests : q.op \notin {"list", "create", "join"}
          PROVE  hub.listed = taken.mine
      <4>1. \A q \in requests : ~Making(q) /\ ~Listing(q)
        BY <3>1 DEF Making, Listing
      <4>2. QED
        BY <2>1, <3>1, <4>1 DEF HubInv
    <3>2. QED
      BY <3>1 DEF U!HubAgrees
  <2>4. U!BusyEnds
    BY <2>1 DEF HubInv, U!BusyEnds, Listing
  <2>5. QED
    BY <2>2, <2>3, <2>4
<1>2. Init => HubInv
  BY HubInit DEF Init
<1>3. HubInv /\ [Next]_AllVars => HubInv'
  BY HubStep
<1>4. QED
  BY <1>1, <1>2, <1>3, PTL DEF Spec

-----------------------------------------------------------------------------
(* The search.  The search in flight, if any, is for what is searched for; *)
(* a further page in flight is the one after the last shown.               *)

SearchPages == [scope: Scopes, n: Nat \ {0}]
Current(e) == e.round = round

SearchTypes ==
  /\ place \in {"area", "page"}
  /\ scope \in Scopes \cup {none} /\ round \in 0..SearchChanges
  /\ first \subseteq [round: 1..SearchChanges, scope: Scopes]
  /\ results \in Seq(SearchPages)
  /\ cursor \in SearchPages \cup {S!NoPage} /\ more \in SearchPages \cup {S!NoPage}
  /\ hasMore \in BOOLEAN /\ searchError \in BOOLEAN
  /\ tab \in S!Tabs /\ opening \in BOOLEAN /\ stray \in BOOLEAN

InOrder ==
  /\ \A i \in 1..Len(results) : results[i] = S!Page(scope, i)
  /\ hasMore => cursor = S!Page(scope, Len(results) + 1)

SearchInv ==
  /\ SearchTypes
  /\ \A e \in first : e.round <= round /\ (Current(e) => e.scope = scope)
  /\ ~stray /\ more # S!NoPage => (\A e \in first : ~Current(e)) /\ more = S!Page(scope, Len(results) + 1)
  /\ ~stray /\ (\A e \in first : ~Current(e)) => InOrder
  /\ ~stray /\ place = "page" /\ (\E e \in first : Current(e)) => results = <<>> /\ ~hasMore

\* The lists an answer may begin.
LEMMA FirstPages ==
  /\ <<>> \in Seq(SearchPages) /\ Len(<<>>) = 0
  /\ \A p \in SearchPages : <<p>> \in Seq(SearchPages) /\ Len(<<p>>) = 1 /\ <<p>>[1] = p
OBVIOUS

LEMMA SearchInit == ASSUME S!Init PROVE SearchInv
<1>1. /\ scope = none /\ round = 0 /\ first = {} /\ results = <<>> /\ hasMore = FALSE
      /\ cursor = S!NoPage /\ more = S!NoPage /\ SearchChanges \in Nat
  BY PageConstants DEF S!SearchAssumption, S!Init
<1>2. results \in Seq(SearchPages) /\ Len(results) = 0 /\ round \in 0..SearchChanges
  BY <1>1, FirstPages
<1>3. SearchTypes
  BY <1>1, <1>2 DEF S!Init, SearchTypes, S!Tabs
<1>4. InOrder
  BY <1>1, <1>2 DEF InOrder
<1>5. QED
  BY <1>1, <1>3, <1>4 DEF SearchInv

\* A page is of a scope, so it is none of the empty one.
LEMMA SomePage ==
  /\ \A p \in SearchPages : p # S!NoPage /\ p.scope \in Scopes /\ p.n \in Nat \ {0} /\ p = S!Page(p.scope, p.n)
  /\ \A s \in Scopes, n \in Nat \ {0} :
       /\ S!Page(s, n) \in SearchPages /\ S!Page(s, n).scope = s /\ S!Page(s, n).n = n
       /\ S!NextCursor(s, n) \in SearchPages \cup {S!NoPage}
       /\ n < PagesOf[s] => S!NextCursor(s, n) = S!Page(s, n + 1)
BY PageConstants DEF S!SearchAssumption, SearchPages, S!NoPage, S!Page, S!NextCursor

\* The scope changes.
LEMMA ScopeSafe ==
  ASSUME SearchInv, NEW s \in Scopes \cup {none}, S!ChangeScope(s) PROVE SearchInv'
<1> DEFINE new == [round |-> round + 1, scope |-> s]
<1>1. /\ SearchTypes /\ round \in Nat /\ SearchChanges \in Nat /\ round < SearchChanges
      /\ none \notin Scopes /\ scope' = s /\ round' = round + 1
      /\ first' = IF s = none THEN first ELSE first \cup {new}
      /\ stray' = (IF more # S!NoPage THEN TRUE ELSE stray)
      /\ UNCHANGED <<place, more, tab, opening>>
      /\ IF place = "page" \/ s = none THEN S!Clear ELSE UNCHANGED <<results, cursor, hasMore, searchError>>
  BY PageConstants DEF SearchInv, SearchTypes, S!SearchAssumption, S!ChangeScope, S!people, S!shownPages
<1>2. SearchTypes'
  <2>1. /\ results' \in Seq(SearchPages) /\ cursor' \in SearchPages \cup {S!NoPage}
        /\ hasMore' \in BOOLEAN /\ searchError' \in BOOLEAN
    <3>1. CASE place = "page" \/ s = none
      <4>1. results' = <<>> /\ cursor' = S!NoPage /\ hasMore' = FALSE /\ searchError' = FALSE
        BY <1>1, <3>1 DEF S!Clear
      <4>2. QED
        BY <4>1, FirstPages
    <3>2. CASE ~(place = "page" \/ s = none)
      BY <1>1, <3>2 DEF SearchTypes
    <3>3. QED
      BY <3>1, <3>2
  <2>2. first' \subseteq [round: 1..SearchChanges, scope: Scopes]
    <3>1. s # none => new \in [round: 1..SearchChanges, scope: Scopes]
      BY <1>1
    <3>2. QED
      BY <1>1, <3>1 DEF SearchTypes
  <2>3. stray' \in BOOLEAN
    BY <1>1 DEF SearchTypes
  <2>4. round' \in 0..SearchChanges
    BY <1>1
  <2>5. QED
    BY <1>1, <2>1, <2>2, <2>3, <2>4 DEF SearchTypes
<1>3. \A e \in first : e.round <= round /\ e.round \in Nat
  BY <1>1 DEF SearchInv, SearchTypes
<1>4. \A e \in first : e.round <= round' /\ e.round # round'
  BY <1>1, <1>3
<1>5. \A e \in first' : e.round <= round' /\ (e.round = round' => e.scope = scope' /\ s # none)
  BY <1>1, <1>4
<1>6. CASE s = none
  <2>1. results' = <<>> /\ ~hasMore' /\ \A e \in first' : e.round # round'
    BY <1>1, <1>4, <1>6 DEF S!Clear
  <2>2. Len(results') = 0 /\ InOrder'
    BY <2>1, FirstPages DEF InOrder
  <2>3. QED
    BY <1>1, <1>2, <1>5, <2>1, <2>2 DEF SearchInv, Current
<1>7. CASE s # none
  <2>1. new \in first' /\ new.round = round'
    BY <1>1, <1>7
  <2>2. place = "page" => results' = <<>> /\ ~hasMore'
    BY <1>1 DEF S!Clear
  <2>3. QED
    BY <1>1, <1>2, <1>5, <2>1, <2>2 DEF SearchInv, Current
<1>8. QED
  BY <1>6, <1>7

\* The answer of a search, or none.
LEMMA FoundSafe ==
  ASSUME SearchInv, NEW e \in first, S!Found(e) \/ S!NotFound(e) PROVE SearchInv'
<1>1. /\ SearchTypes /\ first' = first \ {e} /\ UNCHANGED <<place, scope, round, more, tab, opening, stray>>
      /\ e \in [round: 1..SearchChanges, scope: Scopes] /\ PagesOf[e.scope] \in Nat
  BY PageConstants DEF SearchInv, SearchTypes, S!SearchAssumption, S!Found, S!NotFound, S!people
<1>2. CASE ~Current(e)
  <2>1. UNCHANGED <<results, cursor, hasMore, searchError>>
    BY <1>2 DEF S!Found, S!NotFound, Current, S!shownPages
  <2>2. QED
    BY <1>1, <1>2, <2>1 DEF SearchInv, SearchTypes, InOrder, Current
<1>3. CASE Current(e) /\ S!Found(e)
  <2>1. /\ results' = IF PagesOf[e.scope] = 0 THEN <<>> ELSE <<S!Page(e.scope, 1)>>
        /\ cursor' = S!NextCursor(e.scope, 1) /\ hasMore' \in BOOLEAN
        /\ hasMore' => 1 < PagesOf[e.scope]
        /\ searchError' = FALSE
    <3>1. hasMore' = (PagesOf[e.scope] > 1)
      BY <1>3 DEF S!Found, Current
    <3>2. hasMore' => PagesOf[e.scope] > 1
      BY <3>1
    <3>3. hasMore' \in BOOLEAN
      BY <3>1
    <3>4. QED
      BY <1>1, <1>3, <3>2, <3>3 DEF S!Found, Current
  <2>2. e.scope = scope /\ scope \in Scopes /\ S!Page(scope, 1) \in SearchPages
        /\ S!NextCursor(scope, 1) \in SearchPages \cup {S!NoPage}
        /\ (1 < PagesOf[scope] => S!NextCursor(scope, 1) = S!Page(scope, 2))
    <3>1. e.scope = scope /\ scope \in Scopes
      BY <1>1, <1>3 DEF SearchInv
    <3>2. QED
      BY <3>1, SomePage
  <2>3. results' \in Seq(SearchPages) /\ hasMore' \in BOOLEAN
    BY <2>1, <2>2, FirstPages
  <2>4. SearchTypes'
    BY <1>1, <2>1, <2>2, <2>3 DEF SearchTypes
  <2>5. InOrder'
    <3>1. CASE PagesOf[scope] = 0
      <4>1. Len(results') = 0 /\ ~hasMore'
        BY <1>1, <2>1, <2>2, <3>1, FirstPages
      <4>2. QED
        BY <4>1 DEF InOrder
    <3>2. CASE PagesOf[scope] # 0
      <4>1. Len(results') = 1 /\ results'[1] = S!Page(scope, 1)
        BY <2>1, <2>2, <3>2, FirstPages
      <4>2. scope' = scope /\ (hasMore' => cursor' = S!Page(scope, Len(results') + 1))
        BY <1>1, <2>1, <2>2, <4>1
      <4>3. QED
        BY <4>1, <4>2 DEF InOrder
    <3>3. QED
      BY <3>1, <3>2
  <2>6. ~stray => more = S!NoPage
    BY <1>3 DEF SearchInv
  <2>7. \A d \in first : Current(d) => d = e
    BY <1>1, <1>3, <2>2 DEF SearchInv, SearchTypes, Current
  <2>8. \A d \in first' : ~Current(d)'
    BY <1>1, <2>7 DEF Current
  <2>9. QED
    BY <1>1, <2>4, <2>5, <2>6, <2>8 DEF SearchInv
<1>4. CASE Current(e) /\ S!NotFound(e)
  <2>1. /\ searchError' = TRUE
        /\ IF place = "area" THEN results' = <<>> /\ cursor' = S!NoPage /\ hasMore' = FALSE
           ELSE UNCHANGED <<results, cursor, hasMore>>
    BY <1>4 DEF S!NotFound, Current
  <2>2. SearchTypes'
    <3>1. results' \in Seq(SearchPages) /\ cursor' \in SearchPages \cup {S!NoPage} /\ hasMore' \in BOOLEAN
      BY <1>1, <2>1, FirstPages DEF SearchTypes
    <3>2. QED
      BY <1>1, <2>1, <3>1 DEF SearchTypes
  <2>3. ~stray => results' = <<>> /\ ~hasMore' /\ more = S!NoPage
    BY <1>1, <1>4, <2>1 DEF SearchInv, SearchTypes
  <2>4. ~stray => InOrder'
    BY <2>3, FirstPages DEF InOrder
  <2>5. QED
    <3>1. \A d \in first' : ~Current(d)'
      <4>1. \A d \in first : Current(d) => d.scope = scope /\ d.round = round
        BY DEF SearchInv, Current
      <4>2. \A d \in first : Current(d) => d = e
        BY <1>1, <1>4, <4>1 DEF SearchTypes
      <4>3. QED
        BY <1>1, <4>2 DEF Current
    <3>2. QED
      BY <1>1, <2>2, <2>3, <2>4, <3>1 DEF SearchInv
<1>5. QED
  BY <1>2, <1>3, <1>4

\* A further page is asked for, and comes or does not.
LEMMA MoreSafe ==
  ASSUME SearchInv, S!LoadMore \/ S!MoreFound \/ S!MoreFailed PROVE SearchInv'
<1>0. SearchTypes /\ UNCHANGED <<place, scope, round, first, tab, opening>>
  BY DEF SearchInv, S!LoadMore, S!MoreFound, S!MoreFailed, S!search, S!people
<1>1. CASE S!LoadMore
  <2>1. /\ more' = cursor /\ cursor # S!NoPage /\ hasMore /\ UNCHANGED <<results, cursor, hasMore, searchError>>
        /\ stray' = IF cursor.scope # scope \/ \E e \in first : e.round = round THEN TRUE ELSE stray
    BY <1>1 DEF S!LoadMore, S!shownPages
  <2>2. stray' \in BOOLEAN /\ (~stray' => ~stray /\ \A e \in first : ~Current(e))
    BY <1>0, <2>1 DEF Current, SearchTypes
  <2>3. SearchTypes'
    BY <1>0, <2>1, <2>2 DEF SearchTypes
  <2>4. QED
    BY <1>0, <2>1, <2>2, <2>3 DEF SearchInv, InOrder, Current
<1>2. CASE S!MoreFound
  <2>1. /\ more # S!NoPage /\ more' = S!NoPage /\ results' = Append(results, more)
        /\ cursor' = S!NextCursor(more.scope, more.n) /\ hasMore' = (more.n < PagesOf[more.scope])
        /\ UNCHANGED <<searchError, stray>>
    BY <1>2 DEF S!MoreFound
  <2>2. /\ more \in SearchPages /\ more.scope \in Scopes /\ more.n \in Nat \ {0}
        /\ cursor' \in SearchPages \cup {S!NoPage}
        /\ more.n < PagesOf[more.scope] => cursor' = S!Page(more.scope, more.n + 1)
    BY <1>0, <2>1, SomePage DEF SearchTypes
  <2>3. /\ results' \in Seq(SearchPages) /\ Len(results') = Len(results) + 1 /\ Len(results) \in Nat
        /\ \A i \in 1..Len(results) : results'[i] = results[i]
        /\ results'[Len(results) + 1] = more
    BY <1>0, <2>1, <2>2 DEF SearchTypes
  <2>4. hasMore' \in BOOLEAN
    BY <2>1
  <2>5. SearchTypes'
    BY <1>0, <2>1, <2>2, <2>3, <2>4 DEF SearchTypes
  <2>6. ASSUME ~stray PROVE InOrder' /\ \A e \in first : ~Current(e)
    <3>1. (\A e \in first : ~Current(e)) /\ more = S!Page(scope, Len(results) + 1) /\ InOrder
      BY <2>1, <2>6 DEF SearchInv
    <3>2. more.scope = scope /\ more.n = Len(results) + 1
      BY <3>1 DEF S!Page
    <3>3. \A i \in 1..Len(results') : results'[i] = S!Page(scope, i)
      BY <2>3, <3>1 DEF InOrder
    <3>4. hasMore' => cursor' = S!Page(scope, Len(results') + 1)
      BY <2>1, <2>2, <2>3, <3>2
    <3>5. QED
      BY <1>0, <3>1, <3>3, <3>4 DEF InOrder
  <2>7. QED
    BY <1>0, <2>1, <2>5, <2>6 DEF SearchInv, Current
<1>3. CASE S!MoreFailed
  <2>1. /\ more # S!NoPage /\ more' = S!NoPage /\ UNCHANGED <<results, cursor, hasMore, stray>>
        /\ searchError' = IF place = "area" THEN TRUE ELSE searchError
    BY <1>3 DEF S!MoreFailed
  <2>2. SearchTypes'
    BY <1>0, <2>1 DEF SearchTypes
  <2>3. QED
    BY <1>0, <2>1, <2>2 DEF SearchInv, InOrder, Current
<1>4. QED
  BY <1>1, <1>2, <1>3

LEMMA SearchStep == ASSUME SearchInv, [Next]_AllVars PROVE SearchInv'
<1>1. CASE UNCHANGED searchVars
  BY <1>1 DEF searchVars, SearchInv, SearchTypes, InOrder, Current
<1>2. CASE S!Next
  <2>1. ASSUME (\E t \in S!Tabs : S!ChooseTab(t)) \/ S!OpenPerson \/ S!PersonOpened PROVE SearchInv'
    <3>1. /\ UNCHANGED <<place, scope, round, first, results, cursor, hasMore, searchError, more, stray>>
          /\ tab' \in S!Tabs /\ opening' \in BOOLEAN
      BY <2>1 DEF S!ChooseTab, S!OpenPerson, S!PersonOpened, S!search, S!shownPages, SearchInv, SearchTypes
    <3>2. QED
      BY <3>1 DEF SearchInv, SearchTypes, InOrder, Current
  <2>2. none \in Scopes \cup {none}
    OBVIOUS
  <2>3. QED
    BY <1>2, <2>1, <2>2, ScopeSafe, FoundSafe, MoreSafe DEF S!Next, S!JumpToMessage
<1>3. UNCHANGED searchVars \/ S!Next
  BY DEF Next, AllVars
<1>4. QED
  BY <1>1, <1>2, <1>3

\* Unless a further page was on its way while the search changed, an answered
\* search lists the first pages of what is searched for, in order and without a
\* gap, and the button loads the next (chat-area.tsx, search/page.tsx).
THEOREM SearchShown == Spec => [](S!TypeOK /\ S!SearchIsCurrent)
<1>1. SearchInv => S!TypeOK
  <2>1. S!Pages \ {S!NoPage} = SearchPages /\ S!Pages = SearchPages \cup {S!NoPage}
    BY SomePage DEF S!Pages, SearchPages
  <2>2. \A s \in Seq(SearchPages) : \A i \in DOMAIN s : s[i] \in SearchPages
    OBVIOUS
  <2>3. QED
    BY <2>1, <2>2 DEF SearchInv, SearchTypes, S!TypeOK
<1>2. SearchInv => S!SearchIsCurrent
  BY DEF SearchInv, SearchTypes, InOrder, Current, S!SearchIsCurrent
<1>3. Init => SearchInv
  BY SearchInit DEF Init
<1>4. SearchInv /\ [Next]_AllVars => SearchInv'
  BY SearchStep
<1>5. QED
  BY <1>1, <1>2, <1>3, <1>4, PTL DEF Spec

-----------------------------------------------------------------------------
(* The frame of the pages. *)

LayoutInv ==
  /\ Y!TypeOK
  /\ window = "phone" => (wished <=> info.sheet) /\ (info.open <=> info.sheet)
  /\ window # "phone" => (wished <=> info.open)
  /\ columns.panel = IF window = "desktop" THEN columns.width ELSE 0
  /\ storage /\ "width" \notin elsewhere =>
       columns.width = 0 \/ columns.width = IF saved = 0 THEN DefaultWidth ELSE saved
  /\ "cookie" \notin elsewhere => (rail.open <=> cookie)

LEMMA LayoutStep == ASSUME LayoutInv, [Next]_AllVars PROVE LayoutInv'
<1>0. Y!TypeOK /\ 0 \in Widths /\ DefaultWidth \in Widths \ {0}
  BY PageConstants DEF LayoutInv, Y!LayoutAssumption
<1>1. CASE UNCHANGED layoutVars
  BY <1>1 DEF layoutVars, LayoutInv, Y!TypeOK
<1>2. ASSUME NEW u \in Y!Windows, Y!Resize(u) PROVE LayoutInv'
  <2>1. /\ window' = u /\ UNCHANGED <<rail, cookie, saved, storage, mobileOpen, wished, elsewhere>>
        /\ info' = IF (u = "phone") = (window = "phone") THEN info
                   ELSE IF u = "phone" THEN [info EXCEPT !.sheet = info.open] ELSE [info EXCEPT !.open = info.sheet]
        /\ columns' = [columns EXCEPT !.panel =
             IF (u = "desktop") = (window = "desktop") THEN @ ELSE IF u = "desktop" THEN columns.width ELSE 0]
    BY <1>2 DEF Y!Resize, Y!Reconcile, Y!IsMobile, Y!Panel
  <2>2. /\ info' \in [open: BOOLEAN, sheet: BOOLEAN]
        /\ u = "phone" => (wished <=> info'.sheet) /\ (info'.open <=> info'.sheet)
        /\ u # "phone" => (wished <=> info'.open)
    BY <1>0, <2>1 DEF LayoutInv, Y!TypeOK
  <2>3. /\ columns' \in [width: Widths, panel: Widths] /\ columns'.width = columns.width
        /\ columns'.panel = IF u = "desktop" THEN columns.width ELSE 0
    BY <1>0, <2>1 DEF LayoutInv, Y!TypeOK
  <2>4. QED
    BY <1>0, <1>2, <2>1, <2>2, <2>3 DEF LayoutInv, Y!TypeOK
<1>3. CASE Y!Reload
  BY <1>0, <1>3 DEF LayoutInv, Y!TypeOK, Y!Panel, Y!StoredWidth, Y!Reload, Y!Load
<1>4. CASE Y!ToggleSidebar
  <2>1. CASE window = "phone"
    <3>1. rail' = [rail EXCEPT !.sheet = ~@] /\ UNCHANGED <<window, info, columns, saved, storage, mobileOpen, wished, cookie, elsewhere>>
      BY <1>4, <2>1 DEF Y!ToggleSidebar, Y!IsMobile
    <3>2. rail' \in [open: BOOLEAN, sheet: BOOLEAN] /\ rail'.open = rail.open
      BY <1>0, <3>1 DEF Y!TypeOK
    <3>3. QED
      BY <1>0, <3>1, <3>2 DEF LayoutInv, Y!TypeOK
  <2>2. CASE window # "phone"
    <3>1. /\ rail' = [rail EXCEPT !.open = ~@] /\ cookie' = ~rail.open /\ elsewhere' = elsewhere \ {"cookie"}
          /\ UNCHANGED <<window, info, columns, saved, storage, mobileOpen, wished>>
      BY <1>4, <2>2 DEF Y!ToggleSidebar, Y!IsMobile
    <3>2. rail' \in [open: BOOLEAN, sheet: BOOLEAN] /\ cookie' \in BOOLEAN /\ (rail'.open <=> cookie')
      BY <1>0, <3>1 DEF Y!TypeOK
    <3>3. QED
      BY <1>0, <3>1, <3>2 DEF LayoutInv, Y!TypeOK
  <2>3. QED
    BY <2>1, <2>2
<1>5. CASE Y!ToggleInfobar \/ Y!CloseSheet
  <2>1. /\ UNCHANGED <<window, rail, cookie, columns, saved, storage, mobileOpen, elsewhere>>
        /\ \E to \in BOOLEAN :
             /\ info' = [open |-> to, sheet |-> IF window = "phone" THEN to ELSE info.sheet]
             /\ wished' \in BOOLEAN /\ (wished' <=> to)
    <3>1. CASE Y!ToggleInfobar
      <4>1. /\ info' = [open |-> ~info.open, sheet |-> IF window = "phone" THEN ~info.open ELSE info.sheet]
            /\ wished' = ~wished /\ UNCHANGED <<window, rail, cookie, columns, saved, storage, mobileOpen, elsewhere>>
        BY <3>1 DEF Y!ToggleInfobar, Y!SetOpen, Y!IsMobile
      <4>2. (~info.open) \in BOOLEAN /\ wished' \in BOOLEAN /\ (wished' <=> ~info.open)
        BY <1>0, <4>1 DEF LayoutInv, Y!TypeOK, Y!Windows
      <4>3. QED
        BY <4>1, <4>2
    <3>2. CASE Y!CloseSheet
      BY <3>2 DEF Y!CloseSheet, Y!SetOpen, Y!IsMobile
    <3>3. QED
      BY <1>5, <3>1, <3>2
  <2>2. PICK to \in BOOLEAN :
          /\ info' = [open |-> to, sheet |-> IF window = "phone" THEN to ELSE info.sheet]
          /\ wished' \in BOOLEAN /\ (wished' <=> to)
    BY <2>1
  <2>3. info' \in [open: BOOLEAN, sheet: BOOLEAN] /\ info'.open = to /\ (window = "phone" => info'.sheet = to)
    BY <1>0, <2>2 DEF Y!TypeOK
  <2>4. QED
    BY <1>0, <2>1, <2>2, <2>3 DEF LayoutInv, Y!TypeOK
<1>6. ASSUME NEW width \in Widths, Y!DragList(width) PROVE LayoutInv'
  BY <1>0, <1>6 DEF LayoutInv, Y!TypeOK, Y!DragList
<1>7. CASE Y!OpenNavigation \/ Y!CloseNavigation
  <2>1. mobileOpen' \in BOOLEAN /\ UNCHANGED <<window, rail, cookie, info, columns, saved, storage, wished, elsewhere>>
    BY <1>7 DEF Y!OpenNavigation, Y!CloseNavigation
  <2>2. QED
    BY <1>0, <2>1 DEF LayoutInv, Y!TypeOK
<1>8. CASE Y!OtherTab
  <2>1. /\ cookie' \in BOOLEAN /\ saved' \in Widths
        /\ elsewhere' \subseteq {"cookie", "width"} /\ elsewhere \subseteq elsewhere'
        /\ "cookie" \notin elsewhere' => cookie' = cookie
        /\ "width" \notin elsewhere' => saved' = saved
        /\ UNCHANGED <<window, rail, info, columns, storage, mobileOpen, wished>>
    BY <1>0, <1>8 DEF Y!TypeOK, Y!OtherTab
  <2>2. QED
    BY <1>0, <2>1 DEF LayoutInv, Y!TypeOK
<1>9. UNCHANGED layoutVars \/ Y!Next
  BY DEF Next, AllVars
<1>10. QED
  BY <1>1, <1>2, <1>3, <1>4, <1>5, <1>6, <1>7, <1>8, <1>9 DEF Y!Next

\* The infobar is on screen if and only if the user last asked for it, however
\* the window was resized; the list and the rail are what the next load finds
\* (infobar.tsx, WorkspaceShell.tsx, sidebar.tsx).
THEOREM FrameKept == Spec => [](Y!TypeOK /\ Y!LayoutKept)
<1>1. LayoutInv => Y!TypeOK /\ Y!LayoutKept
  <2>1. SUFFICES ASSUME LayoutInv PROVE Y!LayoutKept
    BY DEF LayoutInv
  <2>2. wished = IF window = "phone" THEN info.sheet ELSE info.open
    BY <2>1 DEF LayoutInv, Y!TypeOK
  <2>3. "cookie" \notin elsewhere => rail.open = cookie
    BY <2>1 DEF LayoutInv, Y!TypeOK
  <2>4. QED
    BY <2>1, <2>2, <2>3 DEF LayoutInv, Y!LayoutKept, Y!IsMobile, Y!Panel, Y!StoredWidth
<1>2. Init => LayoutInv
  <2>1. SUFFICES ASSUME Y!Init PROVE LayoutInv
    BY DEF Init
  <2>2. /\ window \in Y!Windows /\ storage \in BOOLEAN /\ cookie = FALSE /\ saved = 0
        /\ rail = [open |-> FALSE, sheet |-> FALSE] /\ info = [open |-> FALSE, sheet |-> FALSE]
        /\ columns = [width |-> DefaultWidth, panel |-> IF window = "desktop" THEN DefaultWidth ELSE 0]
        /\ mobileOpen = FALSE /\ wished = FALSE /\ elsewhere = {}
    BY <2>1 DEF Y!Init, Y!Panel
  <2>3. 0 \in Widths /\ DefaultWidth \in Widths
    BY PageConstants DEF Y!LayoutAssumption
  <2>4. QED
    BY <2>2, <2>3 DEF LayoutInv, Y!TypeOK
<1>3. LayoutInv /\ [Next]_AllVars => LayoutInv'
  BY LayoutStep
<1>4. QED
  BY <1>1, <1>2, <1>3, PTL DEF Spec

-----------------------------------------------------------------------------
(* The rows of the sidebar. *)

RowInv == C!TypeOK /\ unread \subseteq present /\ (row.from => row.to)

LEMMA RowsStep == ASSUME RowInv, [Next]_AllVars PROVE RowInv'
<1>0. /\ C!TypeOK /\ unread \subseteq present /\ (row.from => row.to)
      /\ Channels \cap DMs = {}
  BY PageConstants DEF RowInv, C!ListAssumption
<1>1. CASE UNCHANGED sidebarVars
  BY <1>1 DEF sidebarVars, RowInv, C!TypeOK
<1>2. ASSUME NEW r \in C!Convs, C!Select(r) PROVE RowInv'
  <2>1. /\ r \in C!Rows /\ picked' = r /\ dmOnly' = (dmOnly /\ r \in DMs)
        /\ row' = [from |-> dmOnly, to |-> dmOnly']
        /\ UNCHANGED <<present, unread, found, unreadsOnly, open, hint, stars, starsLoaded>>
    BY <1>2 DEF C!Select, C!store, C!view, C!stars
  <2>2. dmOnly => r \in DMs
    BY <2>1 DEF C!Rows, C!ChannelRows, C!DMRows, C!StarredRows, C!VisibleDirectMessages
  <2>3. dmOnly' \in BOOLEAN
    BY <1>0, <2>1 DEF C!TypeOK
  <2>4. dmOnly => dmOnly'
    BY <2>1, <2>2
  <2>5. row' \in [from: BOOLEAN, to: BOOLEAN] /\ (row'.from => row'.to)
    BY <1>0, <2>1, <2>3, <2>4 DEF C!TypeOK
  <2>6. QED
    BY <1>0, <1>2, <2>1, <2>3, <2>5 DEF RowInv, C!TypeOK
<1>3. ASSUME NEW r \in C!Convs, C!Arrive(r) \/ C!Join(r) \/ C!Remove(r) PROVE RowInv'
  <2>1. /\ UNCHANGED <<dmOnly, found, unreadsOnly, open, hint, stars, starsLoaded, row>>
        /\ picked' \in {picked, none} /\ unread' \subseteq present' /\ present' \subseteq present \cup {r}
    BY <1>0, <1>3 DEF C!Arrive, C!Join, C!Remove, C!view, C!stars
  <2>2. QED
    BY <1>0, <1>3, <2>1 DEF RowInv, C!TypeOK
<1>4. CASE C!MarkRead
  BY <1>0, <1>4 DEF RowInv, C!TypeOK, C!MarkRead, C!view, C!stars
<1>5. CASE \/ \E dms \in BOOLEAN : C!SetView(dms)
           \/ \E s \in C!Sections : C!ToggleSection(s)
           \/ \E m \in SUBSET C!Convs : C!SetSearch(m) \/ C!StarsListed(m)
           \/ C!HideHint
  <2>1. /\ dmOnly' \in BOOLEAN /\ found' \subseteq C!Convs /\ open' \subseteq C!Sections
        /\ hint' \in BOOLEAN /\ stars' \subseteq C!Convs /\ starsLoaded' \in BOOLEAN
        /\ UNCHANGED <<present, unread, picked, unreadsOnly, row>>
    <3>1. ASSUME NEW s \in C!Sections, C!ToggleSection(s)
          PROVE  open' \subseteq C!Sections /\ UNCHANGED <<dmOnly, found, hint, stars, starsLoaded>>
                 /\ UNCHANGED <<present, unread, picked, unreadsOnly, row>>
      BY <1>0, <3>1 DEF C!TypeOK, C!ToggleSection, C!store, C!stars
    <3>2. QED
      BY <1>0, <1>5, <3>1 DEF C!TypeOK, C!SetView, C!SetSearch, C!StarsListed, C!HideHint, C!store, C!view, C!stars
  <2>2. QED
    BY <1>0, <2>1 DEF RowInv, C!TypeOK
<1>6. CASE C!ToggleUnreads
  <2>1. unreadsOnly' = ~unreadsOnly /\ UNCHANGED <<present, unread, picked, dmOnly, found, open, hint, stars, starsLoaded, row>>
    BY <1>6 DEF C!ToggleUnreads, C!store, C!stars
  <2>2. unreadsOnly' \in BOOLEAN
    BY <1>0, <2>1 DEF C!TypeOK
  <2>3. QED
    BY <1>0, <2>1, <2>2 DEF RowInv, C!TypeOK
<1>7. UNCHANGED sidebarVars \/ C!Next
  BY DEF Next, AllVars
<1>8. QED
  BY <1>1, <1>2, <1>3, <1>4, <1>5, <1>6, <1>7 DEF C!Next

\* Whatever stars, filters and conversations do meanwhile: the view of direct
\* messages is never left by a row it offers, no row outlives its conversation,
\* the switch for unread ones hides no unread DM, and the hint to star something
\* is not shown beside a star (conversation-list.tsx).
THEOREM RowsShown == Spec => [](C!TypeOK /\ C!RowsAgree)
<1>1. RowInv => C!TypeOK /\ C!RowsAgree
  <2>1. SUFFICES ASSUME RowInv PROVE C!RowsAgree
    BY DEF RowInv
  <2>2. C!TypeOK /\ unread \subseteq present /\ (row.from => row.to)
    BY <2>1 DEF RowInv
  <2>3. C!Rows \subseteq present
    BY DEF C!Rows, C!ChannelRows, C!DMRows, C!StarredRows, C!VisibleDirectMessages, C!VisibleStarred, C!Filtered
  <2>4. \A r \in unread \cap DMs \cap found : r \in C!DMRows \/ (~dmOnly /\ "dms" \notin open)
    <3>1. ASSUME NEW r \in unread \cap DMs \cap found PROVE r \in C!VisibleDirectMessages
      BY <2>2, <3>1 DEF C!VisibleDirectMessages, C!Filtered
    <3>2. QED
      BY <3>1 DEF C!DMRows
  <2>5. C!Hint => C!StarredRows = {}
    BY DEF C!Hint, C!StarredRows
  <2>6. QED
    BY <2>2, <2>3, <2>4, <2>5 DEF C!RowsAgree
<1>2. Init => RowInv
  <2>1. SUFFICES ASSUME C!Init PROVE RowInv
    BY DEF Init
  <2>2. row \in [from: BOOLEAN, to: BOOLEAN] /\ ~row.from
    BY <2>1 DEF C!Init
  <2>3. QED
    BY <2>1, <2>2 DEF C!Init, RowInv, C!TypeOK
<1>3. RowInv /\ [Next]_AllVars => RowInv'
  BY RowsStep
<1>4. QED
  BY <1>1, <1>2, <1>3, PTL DEF Spec

-----------------------------------------------------------------------------
(* The pages of what happened. *)

ActivityInv ==
  /\ A!TypeOK
  /\ \A n \in items : A!Real(n)
  /\ listed.threads \subseteq threads /\ \A l \in listings : l.reply \subseteq threads
  /\ clicked.by = "server" => led = [to |-> clicked.conv, at |-> IF clicked.conv \in DMs THEN "dms" ELSE "channels"]

LEMMA FirstTab == \A p \in A!Pages : "all" \in A!Tabs[p]
BY DEF A!Pages, A!Tabs

LEMMA ActivityInit == ASSUME A!Init PROVE ActivityInv
<1>1. /\ items = {} /\ threads = {} /\ where = "notifications" /\ visit = 0 /\ listings = {}
      /\ listed = [threads |-> {}, ended |-> FALSE] /\ topTab = "all" /\ unreadOnly = FALSE /\ query = A!Convs
      /\ led = [to |-> none, at |-> "home"] /\ clicked = [conv |-> none, by |-> "client"] /\ MaxVisits \in Nat
  BY PageConstants DEF A!ActivityAssumption, A!Init
<1>2. where \in A!Pages /\ topTab \in A!Tabs[where]
  BY <1>1, FirstTab DEF A!Pages
<1>3. A!TypeOK
  <2>1. /\ led \in [to: A!Convs \cup {none}, at: {"dms", "channels", "home"}]
        /\ clicked \in [conv: A!Convs \cup {none}, by: {"server", "client"}]
    BY <1>1
  <2>2. listed \in [threads: SUBSET A!Convs, ended: BOOLEAN]
    BY <1>1
  <2>3. visit \in 0..MaxVisits /\ listings \subseteq [visit: 1..MaxVisits, done: BOOLEAN, reply: SUBSET A!Convs]
    BY <1>1
  <2>4. QED
    BY <1>1, <1>2, <2>1, <2>2, <2>3 DEF A!TypeOK
<1>4. QED
  BY <1>1, <1>3 DEF ActivityInv

\* What leads from a notification.
LEMMA NotificationSafe ==
  ASSUME ActivityInv, NEW n \in items, A!OpenNotification(n) PROVE ActivityInv'
<1>1. /\ A!TypeOK /\ n \in A!Items /\ A!Real(n) /\ none \notin A!Convs /\ Channels \cap DMs = {}
  BY PageConstants DEF ActivityInv, A!TypeOK, A!ActivityAssumption, A!Convs
<1>2. /\ items' = items \ {n} /\ clicked' = [conv |-> n.conv, by |-> n.by]
      /\ led' = IF where = "activity" /\ A!EntityOf(n) = none THEN led ELSE A!NotificationRoute(n)
      /\ UNCHANGED <<threads, where, visit, listings, listed, topTab, unreadOnly, query>>
  BY DEF A!OpenNotification, A!filters
<1>3. /\ n.conv \in A!Convs /\ n.by \in {"server", "client"} /\ n.about \in {"message", "reply", "reaction"}
      /\ A!EntityOf(n) \in A!Convs \cup {none}
  BY <1>1 DEF A!Items, A!EntityOf
<1>4. A!NotificationRoute(n) \in [to: A!Convs \cup {none}, at: {"dms", "channels", "home"}]
  BY <1>3 DEF A!NotificationRoute
<1>5. A!TypeOK'
  BY <1>1, <1>2, <1>3, <1>4 DEF A!TypeOK
<1>6. n.by = "server" =>
        A!NotificationRoute(n) = [to |-> n.conv, at |-> IF n.conv \in DMs THEN "dms" ELSE "channels"]
        /\ A!EntityOf(n) # none
  <2>1. SUFFICES ASSUME n.by = "server"
                 PROVE  /\ A!NotificationRoute(n) = [to |-> n.conv, at |-> IF n.conv \in DMs THEN "dms" ELSE "channels"]
                        /\ A!EntityOf(n) # none
    OBVIOUS
  <2>2. A!EntityOf(n) = n.conv /\ n.conv # none
    BY <1>1, <1>3, <2>1 DEF A!EntityOf
  <2>3. n.about = "message" \/ n.conv \in Channels
    BY <1>1, <2>1 DEF A!Real
  <2>4. A!SaysDirect(n) <=> n.conv \in DMs
    BY <1>1, <2>1, <2>3 DEF A!SaysDirect
  <2>5. QED
    BY <2>2, <2>4 DEF A!NotificationRoute
<1>7. QED
  BY <1>2, <1>5, <1>6 DEF ActivityInv

LEMMA ActivityStep == ASSUME ActivityInv, [Next]_AllVars PROVE ActivityInv'
<1>0. A!TypeOK /\ MaxVisits \in Nat
  BY PageConstants DEF ActivityInv, A!ActivityAssumption
<1>1. CASE UNCHANGED activityVars
  BY <1>1 DEF activityVars, ActivityInv, A!TypeOK, A!Real
<1>2. ASSUME NEW p \in A!Pages, A!Visit(p) PROVE ActivityInv'
  <2>1. /\ visit' = visit + 1 /\ visit < MaxVisits /\ where' = p /\ topTab' = "all" /\ unreadOnly' = FALSE /\ query' = A!Convs
        /\ listed' = [threads |-> {}, ended |-> FALSE]
        /\ listings' = listings \cup
             (IF p = "notifications" THEN {} ELSE {[visit |-> visit + 1, done |-> FALSE, reply |-> {}]})
        /\ UNCHANGED <<items, threads, led, clicked>>
    BY <1>2 DEF A!Visit
  <2>2. A!TypeOK'
    <3> DEFINE new == [visit |-> visit + 1, done |-> FALSE, reply |-> {}]
    <3>1. visit' \in 0..MaxVisits /\ visit + 1 \in 1..MaxVisits
      BY <1>0, <2>1 DEF A!TypeOK
    <3>2. new \in [visit: 1..MaxVisits, done: BOOLEAN, reply: SUBSET A!Convs]
      BY <3>1
    <3>3. listings' \subseteq [visit: 1..MaxVisits, done: BOOLEAN, reply: SUBSET A!Convs]
      BY <1>0, <2>1, <3>2 DEF A!TypeOK
    <3>4. where' \in A!Pages /\ topTab' \in A!Tabs[where']
      BY <1>2, <2>1, FirstTab
    <3>5. listed' \in [threads: SUBSET A!Convs, ended: BOOLEAN]
      BY <2>1
    <3>6. QED
      BY <1>0, <2>1, <3>1, <3>3, <3>4, <3>5 DEF A!TypeOK
  <2>3. QED
    BY <2>1, <2>2 DEF ActivityInv, A!Real
<1>3. CASE \/ \E t \in A!Tabs[where] : A!SetTab(t)
           \/ \E un \in BOOLEAN, matching \in SUBSET A!Convs : A!SetFilter(un, matching)
  <2>1. /\ topTab' \in A!Tabs[where] /\ unreadOnly' \in BOOLEAN /\ query' \subseteq A!Convs
        /\ UNCHANGED <<items, threads, where, visit, listings, listed, led, clicked>>
    BY <1>0, <1>3 DEF A!TypeOK, A!SetTab, A!SetFilter
  <2>2. QED
    BY <1>0, <2>1 DEF ActivityInv, A!TypeOK, A!Real
<1>4. ASSUME NEW r \in A!Convs, A!OpenThread(r) PROVE ActivityInv'
  <2>1. /\ led' = [to |-> r, at |-> IF r \in DMs THEN "dms" ELSE "channels"]
        /\ clicked' = [conv |-> r, by |-> "server"]
        /\ UNCHANGED <<items, threads, where, visit, listings, listed, topTab, unreadOnly, query>>
    BY <1>4 DEF A!OpenThread, A!filters
  <2>2. A!TypeOK'
    BY <1>0, <2>1 DEF A!TypeOK
  <2>3. QED
    BY <2>1, <2>2 DEF ActivityInv, A!Real
<1>5. ASSUME NEW r \in A!Convs, A!Follow(r) PROVE ActivityInv'
  <2>1. threads' = threads \cup {r}
        /\ UNCHANGED <<items, where, visit, listings, listed, topTab, unreadOnly, query, led, clicked>>
    BY <1>5 DEF A!Follow, A!filters
  <2>2. QED
    BY <1>0, <2>1 DEF ActivityInv, A!TypeOK, A!Real
<1>6. ASSUME NEW n \in {m \in A!Items : A!Real(m)}, A!SetItems(items \cup {n}) \/ A!SetItems(items \ {n})
      PROVE  ActivityInv'
  <2>1. items' \subseteq items \cup {n}
        /\ UNCHANGED <<threads, where, visit, listings, listed, topTab, unreadOnly, query, led, clicked>>
    BY <1>6 DEF A!SetItems, A!filters
  <2>2. \A m \in items' : m \in A!Items /\ A!Real(m)
    BY <1>0, <2>1 DEF ActivityInv, A!TypeOK
  <2>3. QED
    BY <1>0, <2>1, <2>2 DEF ActivityInv, A!TypeOK
<1>7. ASSUME NEW l \in listings, A!Serve(l) PROVE ActivityInv'
  <2> DEFINE q == [l EXCEPT !.done = TRUE, !.reply = threads]
  <2>1. listings' = (listings \ {l}) \cup {q}
        /\ UNCHANGED <<items, threads, where, visit, listed, topTab, unreadOnly, query, led, clicked>>
    BY <1>7 DEF A!Serve, A!filters
  <2>2. q \in [visit: 1..MaxVisits, done: BOOLEAN, reply: SUBSET A!Convs] /\ q.reply = threads
    BY <1>0 DEF A!TypeOK
  <2> HIDE DEF q
  <2>3. A!TypeOK'
    BY <1>0, <2>1, <2>2 DEF A!TypeOK
  <2>4. QED
    BY <2>1, <2>2, <2>3 DEF ActivityInv, A!Real
<1>8. ASSUME NEW l \in listings, NEW ok \in BOOLEAN, A!Listed(l, ok) PROVE ActivityInv'
  <2>1. /\ listings' = listings \ {l}
        /\ listed' = IF l.visit = visit THEN [threads |-> IF ok THEN l.reply ELSE {}, ended |-> TRUE] ELSE listed
        /\ UNCHANGED <<items, threads, where, visit, topTab, unreadOnly, query, led, clicked>>
    BY <1>8 DEF A!Listed, A!filters
  <2>2. l.reply \subseteq threads
    BY DEF ActivityInv
  <2>3. listed' \in [threads: SUBSET A!Convs, ended: BOOLEAN] /\ listed'.threads \subseteq threads
    BY <1>0, <2>1, <2>2 DEF A!TypeOK, ActivityInv
  <2>4. A!TypeOK'
    BY <1>0, <2>1, <2>3 DEF A!TypeOK
  <2>5. QED
    BY <2>1, <2>3, <2>4 DEF ActivityInv, A!Real
<1>9. UNCHANGED activityVars \/ A!Next
  BY DEF Next, AllVars
<1>10. QED
  BY <1>1, <1>2, <1>3, <1>4, <1>5, <1>6, <1>7, <1>8, <1>9, NotificationSafe DEF A!Next

\* What the server listed leads to the conversation it is about, at the address
\* of its kind; threads shown are followed ones; and a page with an unread
\* notification whose filters leave everything never says that there is nothing
\* new (activity/page.tsx, threads/page.tsx, notifications-page.tsx).
THEOREM ActivityShown == Spec => [](A!TypeOK /\ A!ActivityAgrees)
<1>1. ActivityInv => A!TypeOK /\ A!ActivityAgrees
  <2>1. SUFFICES ASSUME ActivityInv PROVE A!ActivityAgrees
    BY DEF ActivityInv
  <2>2. A!ThreadRows \subseteq threads
    BY <2>1 DEF ActivityInv, A!ThreadRows
  <2>3. ASSUME NEW n \in items, ~n.read, topTab = "all", query = A!Convs, where # "threads"
        PROVE  ~A!SaysNothingThere
    <3>1. n.conv \in query
      BY <2>1, <2>3 DEF ActivityInv, A!TypeOK, A!Items
    <3>2. A!InTab(n)
      BY <2>3 DEF A!InTab
    <3>3. n \in A!FilteredNotifications
      BY <2>3, <3>1, <3>2 DEF A!FilteredNotifications
    <3>4. A!HasItems
      BY <2>3, <3>3 DEF A!HasItems
    <3>5. QED
      BY <2>3, <3>3, <3>4 DEF A!SaysNothingThere
  <2>4. QED
    BY <2>1, <2>2, <2>3 DEF ActivityInv, A!ActivityAgrees
<1>2. Init => ActivityInv
  BY ActivityInit DEF Init
<1>3. ActivityInv /\ [Next]_AllVars => ActivityInv'
  BY ActivityStep
<1>4. QED
  BY <1>1, <1>2, <1>3, PTL DEF Spec

-----------------------------------------------------------------------------
(* The board.  A list in which nothing comes twice is known by what it has  *)
(* and by the places these take: to move one of them is to take it off      *)
(* (Cut) and to put it back elsewhere (Put).                                *)

Cut(s, i) == SubSeq(s, 1, i - 1) \o SubSeq(s, i + 1, Len(s))
Put(s, i, e) == SubSeq(s, 1, i - 1) \o <<e>> \o SubSeq(s, i, Len(s))
Has(s, d) == \E i \in DOMAIN s : s[i] = d
Once(s) == \A i, j \in DOMAIN s : s[i] = s[j] => i = j

\* What an insertion leaves.
LEMMA Inserted ==
  ASSUME NEW T, NEW s \in Seq(T), NEW p \in 1..(Len(s) + 1), NEW e \in T
  PROVE  /\ Put(s, p, e) \in Seq(T) /\ Len(Put(s, p, e)) = Len(s) + 1 /\ Put(s, p, e)[p] = e
         /\ \A i \in 1..(Len(s) + 1) :
              (i < p => Put(s, p, e)[i] = s[i]) /\ (i > p => Put(s, p, e)[i] = s[i - 1])
<1> DEFINE n == Len(s)
           front == SubSeq(s, 1, p - 1)
           back == SubSeq(s, p, n)
           mid == front \o <<e>>
           r == Put(s, p, e)
<1>0. r = mid \o back
  BY DEF Put
<1> HIDE DEF r
<1>1. n \in Nat /\ p \in Nat /\ p >= 1 /\ p <= n + 1 /\ \A i \in 1..n : s[i] \in T
  OBVIOUS
<1>2. /\ front \in Seq(T) /\ Len(front) = p - 1
      /\ \A i \in 1..(p - 1) : front[i] = s[i]
  <2>1. \A i \in 1..(p - 1) : s[i] \in T
    BY <1>1
  <2>2. /\ front \in Seq(T) /\ Len(front) = (IF 1 <= p - 1 THEN (p - 1) - 1 + 1 ELSE 0)
        /\ \A i \in 1..((p - 1) - 1 + 1) : front[i] = s[1 + i - 1]
    <3> HIDE DEF n
    <3>1. 1 \in Int /\ p - 1 \in Int
      BY <1>1
    <3>2. QED
      BY <2>1, <3>1, SubSeqProperties
  <2> HIDE DEF front, n
  <2>3. QED
    BY <1>1, <2>2
<1>3. /\ back \in Seq(T) /\ Len(back) = n - p + 1
      /\ \A i \in 1..(n - p + 1) : back[i] = s[p + i - 1]
  <2>1. \A i \in p..n : s[i] \in T
    BY <1>1
  <2>2. /\ back \in Seq(T) /\ Len(back) = (IF p <= n THEN n - p + 1 ELSE 0)
        /\ \A i \in 1..(n - p + 1) : back[i] = s[p + i - 1]
    <3> HIDE DEF n
    <3>1. p \in Int /\ n \in Int
      BY <1>1
    <3>2. QED
      BY <2>1, <3>1, SubSeqProperties
  <2> HIDE DEF back, n
  <2>3. QED
    BY <1>1, <2>2
<1>4. <<e>> \in Seq(T) /\ Len(<<e>>) = 1 /\ <<e>>[1] = e
  OBVIOUS
<1> HIDE DEF front, back, n
<1>5. /\ mid \in Seq(T) /\ Len(mid) = p /\ mid[p] = e
      /\ \A i \in 1..(p - 1) : mid[i] = s[i]
  <2>1. /\ mid \in Seq(T) /\ Len(mid) = (p - 1) + 1
        /\ \A i \in 1..((p - 1) + 1) : mid[i] = IF i <= p - 1 THEN front[i] ELSE <<e>>[i - (p - 1)]
    BY <1>2, <1>4, ConcatProperties
  <2> HIDE DEF mid
  <2>2. Len(mid) = p
    BY <1>1, <2>1
  <2>3. mid[p] = e
    <3>1. p \in 1..((p - 1) + 1) /\ ~(p <= p - 1) /\ p - (p - 1) = 1
      BY <1>1
    <3>2. mid[p] = <<e>>[p - (p - 1)]
      BY <2>1, <3>1
    <3>3. QED
      BY <1>4, <3>1, <3>2
  <2>4. ASSUME NEW i \in 1..(p - 1) PROVE mid[i] = s[i]
    <3>1. i \in 1..((p - 1) + 1) /\ i <= p - 1
      BY <1>1
    <3>2. QED
      BY <1>2, <2>1, <3>1
  <2>5. QED
    BY <2>1, <2>2, <2>3, <2>4
<1> HIDE DEF mid
<1>6. /\ r \in Seq(T) /\ Len(r) = p + (n - p + 1)
      /\ \A i \in 1..(p + (n - p + 1)) : r[i] = IF i <= p THEN mid[i] ELSE back[i - p]
  <2>1. mid \in Seq(T) /\ back \in Seq(T) /\ Len(mid) = p /\ Len(back) = n - p + 1
    BY <1>3, <1>5
  <2>2. /\ r \in Seq(T) /\ Len(r) = Len(mid) + Len(back)
        /\ \A i \in 1..(Len(mid) + Len(back)) : r[i] = IF i <= Len(mid) THEN mid[i] ELSE back[i - Len(mid)]
    BY <1>0, <2>1, ConcatProperties
  <2>3. QED
    BY <2>1, <2>2
<1>7. r \in Seq(T) /\ Len(r) = n + 1 /\ r[p] = e
  BY <1>1, <1>5, <1>6
<1>8. ASSUME NEW i \in 1..(n + 1) PROVE (i < p => r[i] = s[i]) /\ (i > p => r[i] = s[i - 1])
  <2>1. CASE i < p
    <3>1. i \in 1..(p - 1) /\ i <= p /\ i \in 1..(p + (n - p + 1)) /\ ~(i > p)
      BY <1>1, <2>1
    <3>2. QED
      BY <1>5, <1>6, <3>1
  <2>2. CASE i > p
    <3>1. i - p \in 1..(n - p + 1) /\ p + (i - p) - 1 = i - 1 /\ i \in 1..(p + (n - p + 1))
      BY <1>1, <2>2
    <3>2. QED
      <4>1. r[i] = back[i - p] /\ ~(i < p)
        BY <1>1, <1>6, <2>2, <3>1
      <4>2. back[i - p] = s[i - 1]
        BY <1>3, <3>1
      <4>3. QED
        BY <4>1, <4>2
  <2>3. QED
    BY <1>1, <2>1, <2>2
<1>9. QED
  BY <1>7, <1>8 DEF n, r

\* What is put at a place and taken from it again.
LEMMA PutCut ==
  ASSUME NEW T, NEW s \in Seq(T), NEW p \in 1..(Len(s) + 1), NEW e \in T
  PROVE  Cut(Put(s, p, e), p) = s
<1> DEFINE r == Put(s, p, e)
           t == Cut(r, p)
<1>1. /\ r \in Seq(T) /\ Len(r) = Len(s) + 1
      /\ \A i \in 1..(Len(s) + 1) : (i < p => r[i] = s[i]) /\ (i > p => r[i] = s[i - 1])
  <2>1. r \in Seq(T) /\ Len(r) = Len(s) + 1 /\ r[p] = e
    BY Inserted
  <2>2. \A i \in 1..(Len(s) + 1) : i < p => r[i] = s[i]
    BY Inserted
  <2>3. \A i \in 1..(Len(s) + 1) : i > p => r[i] = s[i - 1]
    BY Inserted
  <2>4. QED
    BY <2>1, <2>2, <2>3
<1> HIDE DEF r
<1>2. Len(s) \in Nat /\ p \in Nat /\ p \in 1..Len(r)
  BY <1>1
<1>3. /\ t \in Seq(T) /\ Len(t) = Len(r) - 1
      /\ \A i \in 1..(Len(r) - 1) : t[i] = r[IF i < p THEN i ELSE i + 1]
  BY <1>1, <1>2, Removed DEF Cut
<1> HIDE DEF t
<1>4. Len(t) = Len(s)
  BY <1>1, <1>2, <1>3
<1>5. ASSUME NEW i \in 1..Len(t) PROVE t[i] = s[i]
  <2>1. CASE i < p
    <3>1. i \in 1..(Len(r) - 1) /\ i \in 1..(Len(s) + 1)
      BY <1>1, <1>2, <1>4
    <3>2. QED
      BY <1>1, <1>3, <2>1, <3>1
  <2>2. CASE ~(i < p)
    <3>1. i \in 1..(Len(r) - 1) /\ i + 1 \in 1..(Len(s) + 1) /\ i + 1 > p /\ (i + 1) - 1 = i
      BY <1>1, <1>2, <1>4, <2>2
    <3>2. t[i] = r[i + 1] /\ r[i + 1] = s[(i + 1) - 1]
      BY <1>1, <1>3, <2>2, <3>1
    <3>3. QED
      BY <3>1, <3>2
  <2>3. QED
    BY <2>1, <2>2
<1>6. t = s
  BY <1>3, <1>4, <1>5, SeqEqual
<1>7. QED
  BY <1>6 DEF t, r

\* What taking a place out of a list without repetitions leaves in it.
LEMMA CutHas ==
  ASSUME NEW T, NEW s \in Seq(T), Once(s), NEW p \in 1..Len(s)
  PROVE  LET r == Cut(s, p)
         IN  /\ r \in Seq(T) /\ Len(r) = Len(s) - 1 /\ Once(r)
             /\ \A d : Has(r, d) <=> Has(s, d) /\ d # s[p]
<1> DEFINE r == Cut(s, p)
           from(i) == IF i < p THEN i ELSE i + 1
<1>1. /\ r \in Seq(T) /\ Len(r) = Len(s) - 1 /\ DOMAIN r = 1..(Len(s) - 1)
      /\ \A i \in 1..(Len(s) - 1) : r[i] = s[from(i)]
  BY Removed DEF Cut
<1> HIDE DEF r
<1>2. Len(s) \in Nat /\ DOMAIN s = 1..Len(s) /\ p \in Nat
  OBVIOUS
<1>3. \A i \in DOMAIN r : from(i) \in DOMAIN s /\ from(i) # p
  BY <1>1, <1>2
<1>4. \A i, j \in DOMAIN r : from(i) = from(j) => i = j
  BY <1>1, <1>2
<1>5. \A j \in DOMAIN s : j # p => \E i \in DOMAIN r : from(i) = j
  <2>1. ASSUME NEW j \in DOMAIN s, j # p PROVE \E i \in DOMAIN r : from(i) = j
    <3>1. CASE j < p
      BY <1>1, <1>2, <2>1, <3>1
    <3>2. CASE ~(j < p)
      <4>1. j - 1 \in DOMAIN r /\ ~(j - 1 < p) /\ (j - 1) + 1 = j
        BY <1>1, <1>2, <2>1, <3>2
      <4>2. QED
        BY <4>1
    <3>3. QED
      BY <3>1, <3>2
  <2>2. QED
    BY <2>1
<1> HIDE DEF from
<1>6. Once(r)
  <2>1. \A i \in DOMAIN r : r[i] = s[from(i)]
    BY <1>1
  <2>2. QED
    BY <1>3, <1>4, <2>1 DEF Once
<1>7. ASSUME NEW d PROVE Has(r, d) <=> Has(s, d) /\ d # s[p]
  <2>1. \A i \in DOMAIN r : r[i] = s[from(i)]
    BY <1>1
  <2>2. Has(r, d) => Has(s, d) /\ d # s[p]
    BY <1>2, <1>3, <2>1 DEF Has, Once
  <2>3. Has(s, d) /\ d # s[p] => Has(r, d)
    BY <1>5, <2>1 DEF Has
  <2>4. QED
    BY <2>2, <2>3
<1>8. QED
  BY <1>1, <1>6, <1>7 DEF r

\* What is inserted comes beside what was there.
LEMMA PutHas ==
  ASSUME NEW T, NEW s \in Seq(T), Once(s), NEW p \in 1..(Len(s) + 1), NEW e \in T, ~Has(s, e)
  PROVE  LET r == Put(s, p, e)
         IN  /\ r \in Seq(T) /\ Len(r) = Len(s) + 1 /\ Once(r) /\ r[p] = e
             /\ \A d : Has(r, d) <=> Has(s, d) \/ d = e
<1> DEFINE r == Put(s, p, e)
           to(i) == IF i < p THEN i ELSE i + 1
<1>1. /\ r \in Seq(T) /\ Len(r) = Len(s) + 1 /\ r[p] = e
      /\ \A i \in 1..(Len(s) + 1) : (i < p => r[i] = s[i]) /\ (i > p => r[i] = s[i - 1])
  <2>1. r \in Seq(T) /\ Len(r) = Len(s) + 1 /\ r[p] = e
    BY Inserted
  <2>2. \A i \in 1..(Len(s) + 1) : i < p => r[i] = s[i]
    BY Inserted
  <2>3. \A i \in 1..(Len(s) + 1) : i > p => r[i] = s[i - 1]
    BY Inserted
  <2>4. QED
    BY <2>1, <2>2, <2>3
<1> HIDE DEF r
<1>2. Len(s) \in Nat /\ DOMAIN s = 1..Len(s) /\ p \in Nat /\ DOMAIN r = 1..(Len(s) + 1)
  BY <1>1
<1>3. \A i \in DOMAIN s : to(i) \in DOMAIN r /\ to(i) # p /\ r[to(i)] = s[i]
  <2>1. ASSUME NEW i \in DOMAIN s PROVE to(i) \in DOMAIN r /\ to(i) # p /\ r[to(i)] = s[i]
    <3>1. CASE i < p
      BY <1>1, <1>2, <3>1
    <3>2. CASE ~(i < p)
      <4>1. i + 1 \in 1..(Len(s) + 1) /\ i + 1 > p /\ (i + 1) - 1 = i
        BY <1>2, <3>2
      <4>2. r[i + 1] = s[(i + 1) - 1]
        BY <1>1, <4>1
      <4>3. QED
        BY <1>2, <3>2, <4>1, <4>2
    <3>3. QED
      BY <3>1, <3>2
  <2>2. QED
    BY <2>1
<1>4. \A j \in DOMAIN r : j # p => \E i \in DOMAIN s : to(i) = j
  <2>1. ASSUME NEW j \in DOMAIN r, j # p PROVE \E i \in DOMAIN s : to(i) = j
    <3>1. CASE j < p
      BY <1>2, <3>1
    <3>2. CASE ~(j < p)
      <4>1. j - 1 \in DOMAIN s /\ ~(j - 1 < p) /\ (j - 1) + 1 = j
        BY <1>2, <2>1, <3>2
      <4>2. QED
        BY <4>1
    <3>3. QED
      BY <3>1, <3>2
  <2>2. QED
    BY <2>1
<1> HIDE DEF to
<1>5. p \in DOMAIN r
  BY <1>2
<1>6. \A j \in DOMAIN r : r[j] = e => j = p
  BY <1>3, <1>4 DEF Has
<1>7. Once(r)
  <2>1. ASSUME NEW j \in DOMAIN r, NEW k \in DOMAIN r, r[j] = r[k] PROVE j = k
    <3>1. CASE j = p \/ k = p
      BY <1>1, <1>6, <2>1, <3>1
    <3>2. CASE j # p /\ k # p
      BY <1>3, <1>4, <2>1, <3>2 DEF Once
    <3>3. QED
      BY <3>1, <3>2
  <2>2. QED
    BY <2>1 DEF Once
<1>8. ASSUME NEW d PROVE Has(r, d) <=> Has(s, d) \/ d = e
  <2>1. Has(r, d) => Has(s, d) \/ d = e
    BY <1>1, <1>3, <1>4 DEF Has
  <2>2. Has(s, d) \/ d = e => Has(r, d)
    BY <1>1, <1>3, <1>5 DEF Has
  <2>3. QED
    BY <2>1, <2>2
<1>9. QED
  BY <1>1, <1>7, <1>8 DEF r

\* The place of what is on a list, and 0 for what is not.
LEMMA IndexAt ==
  ASSUME NEW T, NEW s \in Seq(T), NEW d
  PROVE  /\ K!Contains(s, d) <=> Has(s, d)
         /\ Has(s, d) => K!IndexIn(s, d) \in 1..Len(s) /\ s[K!IndexIn(s, d)] = d
         /\ K!IndexIn(s, d) \in 0..Len(s)
<1>1. DOMAIN s = 1..Len(s) /\ Len(s) \in Nat
  OBVIOUS
<1>2. K!Contains(s, d) <=> Has(s, d)
  BY <1>1 DEF K!Contains, Has
<1>3. ASSUME Has(s, d) PROVE K!IndexIn(s, d) \in 1..Len(s) /\ s[K!IndexIn(s, d)] = d
  <2>1. K!IndexIn(s, d) = CHOOSE i \in DOMAIN s : s[i] = d
    BY <1>2, <1>3 DEF K!IndexIn
  <2>2. \E i \in DOMAIN s : s[i] = d
    BY <1>3 DEF Has
  <2>3. QED
    BY <1>1, <2>1, <2>2
<1>4. ~Has(s, d) => K!IndexIn(s, d) = 0
  BY <1>2 DEF K!IndexIn
<1>5. QED
  BY <1>1, <1>2, <1>3, <1>4

\* What is taken off a list.
LEMMA WithoutHas ==
  ASSUME NEW T, NEW s \in Seq(T), Once(s), NEW d
  PROVE  LET r == K!Without(s, d)
         IN  /\ r \in Seq(T) /\ Once(r)
             /\ \A q : Has(r, q) <=> Has(s, q) /\ q # d
             /\ ~Has(s, d) => r = s
<1> DEFINE r == K!Without(s, d)
<1>1. CASE Has(s, d)
  <2>1. K!IndexIn(s, d) \in 1..Len(s) /\ s[K!IndexIn(s, d)] = d /\ K!Contains(s, d)
    BY <1>1, IndexAt
  <2>2. r = Cut(s, K!IndexIn(s, d))
    BY <2>1 DEF K!Without, K!RemoveAt, Cut
  <2>3. QED
    BY <1>1, <2>1, <2>2, CutHas
<1>2. CASE ~Has(s, d)
  <2>1. ~K!Contains(s, d)
    BY <1>2, IndexAt
  <2>2. r = s
    BY <2>1 DEF K!Without
  <2>3. QED
    BY <1>2, <2>2
<1>3. QED
  BY <1>1, <1>2

\* To take a place off a list is to take off what has it.
LEMMA WithoutAt ==
  ASSUME NEW T, NEW s \in Seq(T), Once(s), NEW p \in 1..Len(s)
  PROVE  K!Without(s, s[p]) = Cut(s, p)
<1>1. p \in DOMAIN s /\ DOMAIN s = 1..Len(s)
  OBVIOUS
<1>2. Has(s, s[p])
  BY <1>1 DEF Has
<1>3. /\ K!IndexIn(s, s[p]) \in DOMAIN s /\ s[K!IndexIn(s, s[p])] = s[p]
      /\ K!Contains(s, s[p])
  BY <1>1, <1>2, IndexAt
<1>4. K!IndexIn(s, s[p]) = p
  BY <1>1, <1>3 DEF Once
<1>5. QED
  BY <1>3, <1>4 DEF K!Without, K!RemoveAt, Cut

\* What is put somewhere on a list it was not on, and taken off again.
LEMMA PutWithout ==
  ASSUME NEW T, NEW s \in Seq(T), Once(s), NEW p \in 1..(Len(s) + 1), NEW d \in T, ~Has(s, d)
  PROVE  LET r == Put(s, p, d)
         IN  /\ r \in Seq(T) /\ Once(r) /\ K!Without(r, d) = s
             /\ \A q : Has(r, q) <=> Has(s, q) \/ q = d
<1> DEFINE r == Put(s, p, d)
<1>1. /\ r \in Seq(T) /\ Len(r) = Len(s) + 1 /\ Once(r) /\ r[p] = d
      /\ \A q : Has(r, q) <=> Has(s, q) \/ q = d
  BY PutHas
<1>2. Cut(r, p) = s
  BY PutCut
<1> HIDE DEF r
<1>3. p \in 1..Len(r)
  BY <1>1
<1>4. K!Without(r, r[p]) = Cut(r, p)
  BY <1>1, <1>3, WithoutAt
<1>5. QED
  BY <1>1, <1>2, <1>4 DEF r

\* A move within a list: what is on it stays, and the others stay in order.
LEMMA MoveKeeps ==
  ASSUME NEW T, NEW s \in Seq(T), Once(s), NEW d \in T, Has(s, d), NEW to \in 0..Len(s)
  PROVE  LET r == K!ArrayMove(s, K!IndexIn(s, d), to)
         IN  /\ r \in Seq(T) /\ Once(r) /\ K!Without(r, d) = K!Without(s, d)
             /\ \A q : Has(r, q) <=> Has(s, q)
<1> DEFINE p == K!IndexIn(s, d)
           t == Cut(s, p)
           at == IF to = 0 THEN Len(s) ELSE to
<1>1. p \in 1..Len(s) /\ s[p] = d
  BY IndexAt
<1> HIDE DEF p
<1>2. /\ t \in Seq(T) /\ Len(t) = Len(s) - 1 /\ Once(t)
      /\ \A q : Has(t, q) <=> Has(s, q) /\ q # d
  BY <1>1, CutHas
<1>3. t = K!Without(s, d)
  BY <1>1, WithoutAt
<1> HIDE DEF t
<1>4. at \in 1..(Len(t) + 1)
  <2>1. Len(s) \in Nat
    OBVIOUS
  <2>2. QED
    BY <1>1, <1>2, <2>1
<1>5. K!ArrayMove(s, p, to) = Put(t, at, d)
  BY <1>1 DEF K!ArrayMove, K!InsertAt, K!RemoveAt, Put, Cut, t
<1> HIDE DEF at
<1>6. LET r == Put(t, at, d)
      IN  /\ r \in Seq(T) /\ Once(r) /\ K!Without(r, d) = t
          /\ \A q : Has(r, q) <=> Has(t, q) \/ q = d
  <2>1. ~Has(t, d)
    BY <1>2
  <2>2. QED
    BY <1>2, <1>4, <2>1, PutWithout
<1>7. QED
  BY <1>2, <1>3, <1>5, <1>6 DEF p

\* What comes last on a list it was not on.
LEMMA AppendHas ==
  ASSUME NEW T, NEW s \in Seq(T), Once(s), NEW d \in T, ~Has(s, d)
  PROVE  LET r == Append(s, d)
         IN  /\ r \in Seq(T) /\ Once(r) /\ K!Without(r, d) = s
             /\ \A q : Has(r, q) <=> Has(s, q) \/ q = d
<1> DEFINE n == Len(s)
           r == Append(s, d)
           t == Put(s, n + 1, d)
<1>1. n \in Nat /\ n + 1 \in 1..(n + 1)
  OBVIOUS
<1>2. r \in Seq(T) /\ Len(r) = n + 1 /\ r[n + 1] = d /\ \A i \in 1..n : r[i] = s[i]
  OBVIOUS
<1>3. /\ t \in Seq(T) /\ Len(t) = n + 1 /\ t[n + 1] = d
      /\ \A i \in 1..n : t[i] = s[i]
  <2>1. PICK p \in 1..(Len(s) + 1) : p = n + 1
    BY <1>1
  <2>2. Put(s, p, d) \in Seq(T) /\ Len(Put(s, p, d)) = Len(s) + 1 /\ Put(s, p, d)[p] = d
    BY Inserted
  <2>3. \A i \in 1..(Len(s) + 1) : i < p => Put(s, p, d)[i] = s[i]
    BY Inserted
  <2>4. Put(s, p, d) = t
    BY <2>1
  <2> HIDE DEF t
  <2>5. \A i \in 1..n : i \in 1..(Len(s) + 1) /\ i < p
    BY <1>1, <2>1
  <2>6. QED
    BY <2>1, <2>2, <2>3, <2>4, <2>5
<1> HIDE DEF r, t
<1>4. \A i \in 1..Len(r) : r[i] = t[i]
  <2> HIDE DEF n
  <2>1. ASSUME NEW i \in 1..(n + 1) PROVE r[i] = t[i]
    <3>1. i = n + 1 \/ i \in 1..n
      BY <1>1
    <3>2. QED
      BY <1>2, <1>3, <3>1
  <2>2. QED
    BY <1>2, <2>1
<1>5. r = t
  BY <1>2, <1>3, <1>4, SeqEqual
<1>6. QED
  BY <1>1, <1>5, PutWithout DEF r, t

\* The elements of a finite set in one order.
LEMMA SetInOrder ==
  ASSUME NEW T, IsFiniteSet(T)
  PROVE  /\ K!SetToSeq(T) \in Seq(T) /\ Once(K!SetToSeq(T))
         /\ \A q \in T : Has(K!SetToSeq(T), q)
<1> DEFINE n == Cardinality(T)
           s == K!SetToSeq(T)
<1>1. n \in Nat /\ ExistsBijection(1..n, T)
  BY FS_CardinalityType
<1>2. K!Cardinality(T) = n
  BY DEF K!Cardinality, Cardinality
<1> HIDE DEF n
<1>3. \E fn \in [1..n -> T] : K!IsInjective(fn)
  BY <1>1 DEF ExistsBijection, Bijection, Injection, IsInjective, K!IsInjective
<1>4. s \in [1..n -> T] /\ K!IsInjective(s)
  BY <1>2, <1>3 DEF K!SetToSeq
<1> HIDE DEF s
<1>5. s \in Injection(1..n, T)
  BY <1>4 DEF Injection, IsInjective, K!IsInjective
<1>6. Cardinality(1..n) = n
  BY <1>1, FS_Interval
<1>7. s \in Surjection(1..n, T)
  <2>1. IsFiniteSet(T) /\ Cardinality(T) = n
    BY DEF n
  <2>2. Cardinality(1..n) = Cardinality(T) => s \in Surjection(1..n, T)
    BY <1>5, <2>1, FS_Injection
  <2>3. QED
    BY <1>6, <2>1, <2>2
<1>8. s \in Seq(T)
  BY <1>1, <1>4
<1>9. Once(s)
  BY <1>4 DEF Once, K!IsInjective
<1>10. \A q \in T : Has(s, q)
  BY <1>4, <1>7 DEF Has, Surjection
<1>11. QED
  BY <1>8, <1>9, <1>10 DEF s

-----------------------------------------------------------------------------
(* A board on which each column and each task comes once (Arranged), and   *)
(* what of it a drag of d may have changed (Moved).                         *)

BoardType == [order: Seq(Columns), items: [Columns -> Seq(Tasks)]]

Arranged(bd) ==
  /\ bd \in BoardType
  /\ Once(bd.order) /\ \A col \in Columns : Has(bd.order, col) /\ Once(bd.items[col])
  /\ \A task \in Tasks : \E col \in Columns : Has(bd.items[col], task)
  /\ \A task \in Tasks, col, other \in Columns :
       Has(bd.items[col], task) /\ Has(bd.items[other], task) => col = other

Moved(bd, new, d) ==
  /\ K!Without(new.order, d) = K!Without(bd.order, d)
  /\ \A col \in Columns : K!Without(new.items[col], d) = K!Without(bd.items[col], d)
  /\ d \notin Columns => new.order = bd.order

LEMMA MovedOn ==
  ASSUME NEW bd, NEW mid, NEW new, NEW d, Moved(bd, mid, d), Moved(mid, new, d)
  PROVE  Moved(bd, new, d)
  BY DEF Moved

\* What is in a column is a task.
LEMMA ColumnHas ==
  ASSUME NEW bd, Arranged(bd), NEW col \in Columns
  PROVE  /\ bd.items[col] \in Seq(Tasks) /\ Once(bd.items[col])
         /\ \A q : Has(bd.items[col], q) => q \in Tasks
<1>1. bd.items[col] \in Seq(Tasks) /\ Once(bd.items[col])
  BY DEF Arranged, BoardType
<1> DEFINE s == bd.items[col]
<1> HIDE DEF s
<1>2. \A q : Has(s, q) => q \in Tasks
  BY <1>1 DEF Has, s
<1>3. QED
  BY <1>1, <1>2 DEF s

\* A board with another list in one column.
LEMMA OneColumn ==
  ASSUME NEW bd \in BoardType, NEW col \in Columns, NEW s \in Seq(Tasks)
  PROVE  LET new == [bd EXCEPT !.items[col] = s]
         IN  /\ new \in BoardType /\ new.order = bd.order /\ new.items[col] = s
             /\ \A other \in Columns : other # col => new.items[other] = bd.items[other]
  BY DEF BoardType

\* A board with another order.
LEMMA OtherOrder ==
  ASSUME NEW bd \in BoardType, NEW s \in Seq(Columns)
  PROVE  LET new == [bd EXCEPT !.order = s]
         IN  new \in BoardType /\ new.order = s /\ new.items = bd.items
  BY DEF BoardType

\* The column of a task, and of a column.
GetIn(bd, q) ==
  IF q \in Columns THEN q ELSE CHOOSE col \in Columns : K!Contains(bd.items[col], q)

LEMMA ColumnOf ==
  ASSUME NEW bd, Arranged(bd), NEW q \in Columns \cup Tasks
  PROVE  /\ GetIn(bd, q) \in Columns
         /\ q \in Columns => GetIn(bd, q) = q
         /\ q \notin Columns => Has(bd.items[GetIn(bd, q)], q)
<1>1. CASE q \in Columns
  BY <1>1 DEF GetIn
<1>2. CASE q \notin Columns
  <2>1. \E col \in Columns : Has(bd.items[col], q)
    BY <1>2 DEF Arranged
  <2>2. \A col \in Columns : K!Contains(bd.items[col], q) <=> Has(bd.items[col], q)
    BY ColumnHas, IndexAt
  <2>3. GetIn(bd, q) = CHOOSE col \in Columns : K!Contains(bd.items[col], q)
    BY <1>2 DEF GetIn
  <2>4. QED
    BY <1>2, <2>1, <2>2, <2>3
<1>3. QED
  BY <1>1, <1>2

LEMMA ColumnNow == \A q : K!GetColumn(q) = GetIn(board, q) /\ K!GetColumn(q)' = GetIn(board', q)
  BY DEF K!GetColumn, GetIn

\* A task that moves within its column.
LEMMA SameKeeps ==
  ASSUME Arranged(board), NEW col \in Columns, NEW d \in Tasks, Has(board.items[col], d), NEW q
  PROVE  LET new == K!SameColumn(col, d, q)
         IN  /\ Arranged(new) /\ Moved(board, new, d)
             /\ \A other \in Columns : \A e : Has(new.items[other], e) <=> Has(board.items[other], e)
<1> DEFINE s == board.items[col]
           r == K!ArrayMove(s, K!IndexIn(s, d), K!IndexIn(s, q))
           new == [board EXCEPT !.items[col] = r]
<1>1. s \in Seq(Tasks) /\ Once(s) /\ Has(s, d)
  BY ColumnHas
<1>2. CASE K!IndexIn(s, d) = K!IndexIn(s, q)
  <2>1. K!SameColumn(col, d, q) = board
    BY <1>2 DEF K!SameColumn
  <2>2. QED
    BY <2>1 DEF Moved
<1>3. CASE K!IndexIn(s, d) # K!IndexIn(s, q)
  <2>1. K!SameColumn(col, d, q) = new
    BY <1>3 DEF K!SameColumn
  <2>2. K!IndexIn(s, q) \in 0..Len(s)
    BY <1>1, IndexAt
  <2>3. /\ r \in Seq(Tasks) /\ Once(r) /\ K!Without(r, d) = K!Without(s, d)
        /\ \A e : Has(r, e) <=> Has(s, e)
    <3> HIDE DEF s
    <3>1. QED
      BY <1>1, <2>2, MoveKeeps
  <2> HIDE DEF r
  <2>4. board \in BoardType
    BY DEF Arranged
  <2>5. /\ new \in BoardType /\ new.order = board.order /\ new.items[col] = r
        /\ \A other \in Columns : other # col => new.items[other] = board.items[other]
    BY <2>3, <2>4, OneColumn
  <2> HIDE DEF new
  <2>6. \A other \in Columns : \A e : Has(new.items[other], e) <=> Has(board.items[other], e)
    BY <2>3, <2>5
  <2>7. Moved(board, new, d)
    BY <2>3, <2>5 DEF Moved
  <2>8. \A other \in Columns : Once(new.items[other])
    BY <2>3, <2>5 DEF Arranged
  <2>9. Arranged(new)
    BY <2>5, <2>6, <2>8 DEF Arranged
  <2>10. QED
    BY <2>1, <2>6, <2>7, <2>9
<1>4. QED
  BY <1>2, <1>3

\* A task that moves to another column.
LEMMA OtherKeeps ==
  ASSUME Arranged(board), NEW col \in Columns, NEW to \in Columns, col # to,
         NEW d \in Tasks, Has(board.items[col], d)
  PROVE  LET new == K!OtherColumn(col, to, d)
         IN  /\ Arranged(new) /\ Moved(board, new, d)
             /\ Has(new.items[to], d)
             /\ \A other \in Columns : \A e : e # d =>
                  (Has(new.items[other], e) <=> Has(board.items[other], e))
<1> DEFINE s == K!Without(board.items[col], d)
           t == Append(board.items[to], d)
           new == [board EXCEPT !.items[col] = s, !.items[to] = t]
<1>1. K!OtherColumn(col, to, d) = new
  BY DEF K!OtherColumn
<1>2. /\ board.items[col] \in Seq(Tasks) /\ Once(board.items[col])
      /\ board.items[to] \in Seq(Tasks) /\ Once(board.items[to])
  BY ColumnHas
<1>3. \A other \in Columns : Has(board.items[other], d) => other = col
  BY DEF Arranged
<1>4. /\ s \in Seq(Tasks) /\ Once(s)
      /\ \A e : Has(s, e) <=> Has(board.items[col], e) /\ e # d
  BY <1>2, WithoutHas
<1>5. /\ t \in Seq(Tasks) /\ Once(t) /\ K!Without(t, d) = board.items[to]
      /\ \A e : Has(t, e) <=> Has(board.items[to], e) \/ e = d
  BY <1>2, <1>3, AppendHas
<1>6. K!Without(s, d) = s
  BY <1>4, WithoutHas
<1>7. K!Without(board.items[to], d) = board.items[to]
  BY <1>2, <1>3, WithoutHas
<1>8. board \in BoardType
  BY DEF Arranged
<1> HIDE DEF t
<1>9. K!Without(s, d) = K!Without(board.items[col], d)
  BY <1>6
<1> HIDE DEF s
<1>10. /\ new \in BoardType /\ new.order = board.order
       /\ new.items[col] = s /\ new.items[to] = t
       /\ \A other \in Columns : other # col /\ other # to => new.items[other] = board.items[other]
  BY <1>4, <1>5, <1>8 DEF BoardType
<1> HIDE DEF new
<1>11. \A other \in Columns : \A e : e # d =>
         (Has(new.items[other], e) <=> Has(board.items[other], e))
  BY <1>4, <1>5, <1>10
<1>12. \A other \in Columns : Has(new.items[other], d) <=> other = to
  BY <1>3, <1>4, <1>5, <1>10
<1>13. \A other \in Columns : Once(new.items[other])
  BY <1>4, <1>5, <1>10 DEF Arranged
<1>14. Arranged(new)
  <2>1. \A task \in Tasks : \E other \in Columns : Has(new.items[other], task)
    BY <1>11, <1>12 DEF Arranged
  <2>2. \A task \in Tasks, one, two \in Columns :
          Has(new.items[one], task) /\ Has(new.items[two], task) => one = two
    BY <1>11, <1>12 DEF Arranged
  <2>3. QED
    BY <1>10, <1>13, <2>1, <2>2 DEF Arranged
<1>15. Moved(board, new, d)
  BY <1>5, <1>7, <1>9, <1>10 DEF Moved
<1>16. QED
  BY <1>1, <1>11, <1>12, <1>14, <1>15

\* A column that is dropped.
LEMMA OrderKeeps ==
  ASSUME Arranged(board), NEW d \in Columns, NEW q
  PROVE  LET new == [board EXCEPT !.order = K!ArrayMove(@, K!IndexIn(@, d), K!IndexIn(@, q))]
         IN  Arranged(new) /\ Moved(board, new, d)
<1> DEFINE s == board.order
           r == K!ArrayMove(s, K!IndexIn(s, d), K!IndexIn(s, q))
           new == [board EXCEPT !.order = r]
<1>1. s \in Seq(Columns) /\ Once(s) /\ Has(s, d) /\ board \in BoardType
  BY DEF Arranged, BoardType
<1>2. /\ r \in Seq(Columns) /\ Once(r) /\ K!Without(r, d) = K!Without(s, d)
      /\ \A e : Has(r, e) <=> Has(s, e)
  <2> HIDE DEF s
  <2>1. K!IndexIn(s, q) \in 0..Len(s)
    BY <1>1, IndexAt
  <2>2. QED
    BY <1>1, <2>1, MoveKeeps
<1> HIDE DEF r
<1>3. new \in BoardType /\ new.order = r /\ new.items = board.items
  BY <1>1, <1>2, OtherOrder
<1> HIDE DEF new
<1>4. Arranged(new)
  BY <1>2, <1>3 DEF Arranged
<1>5. Moved(board, new, d)
  BY <1>2, <1>3 DEF Moved
<1>6. QED
  BY <1>4, <1>5 DEF new, r, s

-----------------------------------------------------------------------------
(* The invariant of the board: only what is dragged has moved, and while a *)
(* task is over something it is in the column of that.                     *)

BoardIds == Columns \cup Tasks

BoardTypes ==
  /\ Arranged(board)
  /\ lifted \in BoardIds \cup {none} /\ activeId \in {none, lifted}
  /\ over \in BoardIds \cup {none} /\ lastOver \in BoardIds \cup {none}
  /\ hasMoved \in BOOLEAN

SaidInv == said \in [position: Nat, total: Nat] /\ said.position <= said.total

DragInv ==
  /\ Moved(before.board, board, before.dragged)
  /\ lifted # none => before.dragged = lifted

OverInv == activeId \in Tasks /\ over # none => GetIn(board, activeId) = GetIn(board, over)

BoardInv == BoardTypes /\ SaidInv /\ DragInv /\ OverInv

LEMMA BoardConstants ==
  /\ none \notin BoardIds /\ Columns \cap Tasks = {}
  /\ IsFiniteSet(Columns) /\ IsFiniteSet(Tasks)
  BY PageConstants DEF K!KanbanAssumption, K!IsFiniteSet, IsFiniteSet, BoardIds

LEMMA BoardInit == ASSUME K!Init PROVE BoardInv
<1>1. PICK fn \in [Tasks -> Columns] :
        board = [order |-> K!SetToSeq(Columns),
                 items |-> [col \in Columns |-> K!SetToSeq({i \in Tasks : fn[i] = col})]]
  BY DEF K!Init, K!Boards
<1> DEFINE of(col) == {i \in Tasks : fn[i] = col}
<1>2. /\ K!SetToSeq(Columns) \in Seq(Columns) /\ Once(K!SetToSeq(Columns))
      /\ \A q \in Columns : Has(K!SetToSeq(Columns), q)
  BY BoardConstants, SetInOrder
<1>3. ASSUME NEW col \in Columns
      PROVE  /\ K!SetToSeq(of(col)) \in Seq(Tasks) /\ Once(K!SetToSeq(of(col)))
             /\ \A q : Has(K!SetToSeq(of(col)), q) <=> q \in of(col)
  <2>1. of(col) \in SUBSET Tasks
    OBVIOUS
  <2>2. IsFiniteSet(of(col))
    BY <2>1, BoardConstants, FS_Subset
  <2> DEFINE s == K!SetToSeq(of(col))
             part == of(col)
  <2>3. s \in Seq(part) /\ Once(s) /\ \A q \in part : Has(s, q)
    BY <2>2, SetInOrder
  <2> HIDE DEF s, part
  <2>4. \A i \in DOMAIN s : s[i] \in part
    BY <2>3
  <2>5. \A q : Has(s, q) => q \in part
    BY <2>4 DEF Has
  <2>6. part \subseteq Tasks
    BY DEF part
  <2>7. s \in Seq(Tasks)
    BY <2>3, <2>6
  <2>8. QED
    BY <2>3, <2>5, <2>7 DEF s, part
<1>4. Arranged(board)
  <2>1. /\ board.order = K!SetToSeq(Columns)
        /\ \A col \in Columns : board.items[col] = K!SetToSeq(of(col))
        /\ board = [order |-> board.order, items |-> board.items]
        /\ board.items = [col \in Columns |-> board.items[col]]
    BY <1>1
  <2> HIDE DEF of
  <2>2. board \in BoardType
    BY <1>2, <1>3, <2>1 DEF BoardType
  <2>3. \A col \in Columns : \A q : Has(board.items[col], q) <=> q \in of(col)
    BY <1>3, <2>1
  <2>4. \A task \in Tasks : \A col \in Columns : task \in of(col) <=> fn[task] = col
    BY DEF of
  <2>5. \A task \in Tasks : \E col \in Columns : Has(board.items[col], task)
    BY <2>3, <2>4
  <2>6. \A task \in Tasks, col, other \in Columns :
          Has(board.items[col], task) /\ Has(board.items[other], task) => col = other
    BY <2>3, <2>4
  <2>7. \A col \in Columns : Has(board.order, col) /\ Once(board.items[col])
    BY <1>2, <1>3, <2>1
  <2>8. Once(board.order)
    BY <1>2, <2>1
  <2>9. QED
    BY <2>2, <2>5, <2>6, <2>7, <2>8 DEF Arranged
<1>5. QED
  <2>1. SaidInv
    BY DEF K!Init, SaidInv
  <2>2. DragInv
    BY DEF K!Init, DragInv, Moved
  <2>3. QED
    BY <1>4, <2>1, <2>2 DEF K!Init, BoardInv, BoardTypes, OverInv

LEMMA Announced ==
  ASSUME Arranged(board), NEW q \in BoardIds, NEW col \in BOOLEAN, K!Announce(q, col)
  PROVE  SaidInv'
<1>1. PICK s \in Seq(BoardIds) : K!Position(q, col) = K!IndexIn(s, q) /\ K!Total(q, col) = Len(s)
  <2>1. CASE col
    <3>1. board.order \in Seq(BoardIds)
      BY DEF Arranged, BoardType, BoardIds
    <3>2. QED
      BY <2>1, <3>1 DEF K!Position, K!Total
  <2>2. CASE ~col
    <3>1. K!GetColumn(q) \in Columns
      BY ColumnOf, ColumnNow DEF BoardIds
    <3>2. board.items[K!GetColumn(q)] \in Seq(BoardIds)
      BY <3>1, ColumnHas DEF BoardIds
    <3>3. QED
      BY <2>2, <3>2 DEF K!Position, K!Total
  <2>3. QED
    BY <2>1, <2>2
<1>2. Len(s) \in Nat /\ K!IndexIn(s, q) \in 0..Len(s)
  BY IndexAt
<1>3. said' = [position |-> K!IndexIn(s, q), total |-> Len(s)]
  BY <1>1 DEF K!Announce
<1>4. QED
  BY <1>2, <1>3 DEF SaidInv

\* A drag that begins.
LEMMA StartKeeps ==
  ASSUME BoardInv, NEW q \in BoardIds, K!OnDragStart(q)
  PROVE  BoardInv'
<1>1. /\ board' = board /\ lifted' = q /\ activeId' \in {q, none} /\ over' = none
      /\ lastOver' = lastOver /\ hasMoved' = hasMoved
      /\ before' = [board |-> board, dragged |-> q] /\ K!Announce(q, q \in Columns)
  BY DEF K!OnDragStart
<1>2. BoardTypes'
  BY <1>1 DEF BoardInv, BoardTypes
<1>3. SaidInv'
  <2>1. (q \in Columns) \in BOOLEAN /\ Arranged(board)
    BY DEF BoardInv, BoardTypes
  <2>2. QED
    BY <1>1, <2>1, Announced
<1>4. DragInv'
  <2>1. before'.board = board /\ before'.dragged = q
    BY <1>1
  <2>2. QED
    BY <1>1, <2>1 DEF DragInv, Moved
<1>5. OverInv'
  BY <1>1 DEF OverInv
<1>6. QED
  BY <1>2, <1>3, <1>4, <1>5 DEF BoardInv

\* What moves a task to the column of what it is over, and nothing else.
LEMMA MoveSafe ==
  ASSUME BoardInv, NEW q \in BoardIds, activeId # none, K!MoveOver(activeId, q)
  PROVE  /\ Arranged(board') /\ Moved(before.board, board', before.dragged)
         /\ activeId \in Tasks => GetIn(board', activeId) = GetIn(board', q)
         /\ hasMoved' \in BOOLEAN
<1>1. /\ Arranged(board) /\ activeId \in BoardIds /\ before.dragged = activeId
      /\ Moved(before.board, board, before.dragged) /\ hasMoved \in BOOLEAN
  BY DEF BoardInv, BoardTypes, DragInv
<1>2. CASE activeId \in Columns
  <2>1. board' = board /\ hasMoved' = hasMoved /\ activeId \notin Tasks
    BY <1>2, BoardConstants DEF K!MoveOver
  <2>2. QED
    BY <1>1, <2>1
<1>3. CASE activeId \notin Columns
  <2> DEFINE from == GetIn(board, activeId)
             to == GetIn(board, q)
             d == activeId
  <2>1. d \in Tasks /\ d \notin Columns
    BY <1>1, <1>3 DEF BoardIds
  <2>2. from \in Columns /\ to \in Columns /\ Has(board.items[from], d)
    BY <1>1, <2>1, ColumnOf DEF BoardIds
  <2>3. (q \in Columns => to = q) /\ (q \notin Columns => q \in Tasks /\ Has(board.items[to], q))
    BY <1>1, ColumnOf DEF BoardIds
  <2>4. K!GetColumn(d) = from /\ K!GetColumn(q) = to
    BY ColumnNow
  <2>5. CASE from = to
    <3>1. board' = K!SameColumn(from, d, q) /\ hasMoved' = hasMoved
      BY <1>3, <2>4, <2>5 DEF K!MoveOver
    <3> HIDE DEF from, to, d
    <3>2. /\ Arranged(board') /\ Moved(board, board', d)
          /\ \A other \in Columns : \A e : Has(board'.items[other], e) <=> Has(board.items[other], e)
      BY <1>1, <2>1, <2>2, <3>1, SameKeeps
    <3>3. Moved(before.board, board', before.dragged)
      BY <1>1, <3>2, MovedOn DEF d
    <3>4. GetIn(board', d) \in Columns /\ Has(board'.items[GetIn(board', d)], d)
      BY <2>1, <3>2, ColumnOf DEF BoardIds
    <3>5. GetIn(board', d) = from
      BY <1>1, <2>1, <2>2, <3>2, <3>4 DEF Arranged
    <3>6. GetIn(board', q) \in Columns /\ (q \in Columns => GetIn(board', q) = q)
          /\ (q \notin Columns => Has(board'.items[GetIn(board', q)], q))
      BY <3>2, ColumnOf DEF BoardIds
    <3>7. GetIn(board', q) = to
      BY <1>1, <2>2, <2>3, <3>2, <3>6 DEF Arranged
    <3>8. QED
      BY <1>1, <2>5, <3>1, <3>2, <3>3, <3>5, <3>7 DEF d
  <2>6. CASE from # to
    <3>1. board' = K!OtherColumn(from, to, d) /\ hasMoved' = TRUE
      BY <1>3, <2>4, <2>6 DEF K!MoveOver
    <3>2. d # q
      BY <2>6
    <3> HIDE DEF from, to, d
    <3>3. /\ Arranged(board') /\ Moved(board, board', d) /\ Has(board'.items[to], d)
          /\ \A other \in Columns : \A e : e # d =>
               (Has(board'.items[other], e) <=> Has(board.items[other], e))
      BY <1>1, <2>1, <2>2, <2>6, <3>1, OtherKeeps
    <3>4. Moved(before.board, board', before.dragged)
      BY <1>1, <3>3, MovedOn DEF d
    <3>5. GetIn(board', d) \in Columns /\ Has(board'.items[GetIn(board', d)], d)
      BY <2>1, <3>3, ColumnOf DEF BoardIds
    <3>6. GetIn(board', d) = to
      BY <2>1, <2>2, <3>3, <3>5 DEF Arranged
    <3>7. GetIn(board', q) \in Columns /\ (q \in Columns => GetIn(board', q) = q)
          /\ (q \notin Columns => Has(board'.items[GetIn(board', q)], q))
      BY <3>3, ColumnOf DEF BoardIds
    <3>8. GetIn(board', q) = to
      BY <1>1, <2>2, <2>3, <3>2, <3>3, <3>7 DEF Arranged
    <3>9. QED
      BY <3>1, <3>3, <3>4, <3>6, <3>8 DEF d
  <2>7. QED
    BY <2>5, <2>6
<1>4. QED
  BY <1>2, <1>3

\* What is reported under the drag.
LEMMA OverKeeps ==
  ASSUME BoardInv, NEW q \in BoardIds \cup {none}, K!OnDragOver(q),
         lastOver' \in BoardIds \cup {none}, UNCHANGED <<activeId, lifted, before>>
  PROVE  BoardInv'
<1>1. over' = q
  BY DEF K!OnDragOver
<1>2. SaidInv'
  <2>1. CASE q \in {none, over}
    <3>1. said' = said
      BY <2>1 DEF K!OnDragOver
    <3>2. QED
      BY <3>1 DEF BoardInv, SaidInv
  <2>2. CASE q \notin {none, over}
    <3>1. K!Announce(q, lifted \in Columns) /\ q \in BoardIds
      BY <2>2 DEF K!OnDragOver
    <3>2. (lifted \in Columns) \in BOOLEAN /\ Arranged(board)
      BY DEF BoardInv, BoardTypes
    <3>3. QED
      BY <3>1, <3>2, Announced
  <2>3. QED
    BY <2>1, <2>2
<1>3. CASE q \in {none, over} \/ activeId = none
  <2>1. board' = board /\ hasMoved' = hasMoved
    BY <1>3 DEF K!OnDragOver
  <2>2. BoardTypes' /\ DragInv'
    BY <1>1, <2>1 DEF BoardInv, BoardTypes, DragInv
  <2>3. OverInv'
    <3>1. none \notin Tasks
      BY BoardConstants DEF BoardIds
    <3>2. QED
      BY <1>1, <1>3, <2>1, <3>1 DEF BoardInv, OverInv
  <2>4. QED
    BY <1>2, <2>2, <2>3 DEF BoardInv
<1>4. CASE q \notin {none, over} /\ activeId # none
  <2>1. K!MoveOver(activeId, q) /\ q \in BoardIds
    BY <1>4 DEF K!OnDragOver
  <2>2. /\ Arranged(board') /\ Moved(before.board, board', before.dragged)
        /\ activeId \in Tasks => GetIn(board', activeId) = GetIn(board', q)
        /\ hasMoved' \in BOOLEAN
    BY <1>4, <2>1, MoveSafe
  <2>3. BoardTypes' /\ DragInv' /\ OverInv'
    BY <1>1, <2>2 DEF BoardInv, BoardTypes, DragInv, OverInv
  <2>4. QED
    BY <1>2, <2>3 DEF BoardInv
<1>5. QED
  BY <1>3, <1>4

LEMMA CollisionKeeps == ASSUME BoardInv, K!CollisionDetection PROVE BoardInv'
<1>1. UNCHANGED <<activeId, lifted, before>>
  BY DEF K!CollisionDetection
<1>2. BoardTypes
  BY DEF BoardInv
<1>3. CASE K!HitColumn
  BY <1>1, <1>2, <1>3, OverKeeps DEF K!HitColumn, BoardTypes, BoardIds
<1>4. CASE K!Hit
  <2>1. PICK q \in BoardIds : \E target \in K!Targets(q) : K!OnDragOver(target) /\ lastOver' = target
    BY <1>4 DEF K!Hit, K!Ids, BoardIds
  <2>2. K!Targets(q) \subseteq BoardIds
    <3>1. ASSUME q \in Columns PROVE K!ToSet(board.items[q]) \subseteq BoardIds
      <4>1. board.items[q] \in Seq(Tasks)
        BY <1>2, <3>1, ColumnHas DEF BoardTypes
      <4>2. \A i \in DOMAIN board.items[q] : board.items[q][i] \in Tasks
        BY <4>1
      <4>3. QED
        BY <4>2 DEF K!ToSet, BoardIds
    <3>2. QED
      BY <3>1 DEF K!Targets
  <2>3. QED
    BY <1>1, <2>1, <2>2, OverKeeps
<1>5. CASE K!Miss
  <2>1. lastOver' \in BoardIds \cup {none} /\ K!OnDragOver(lastOver')
    BY <1>2, <1>5 DEF K!Miss, BoardTypes
  <2>2. QED
    BY <1>1, <2>1, OverKeeps
<1>6. QED
  BY <1>3, <1>4, <1>5 DEF K!CollisionDetection

\* What is dropped.
LEMMA DropKept ==
  ASSUME BoardInv, activeId # none
  PROVE  Arranged(K!Dropped) /\ Moved(before.board, K!Dropped, before.dragged)
<1>1. /\ Arranged(board) /\ activeId \in BoardIds /\ before.dragged = activeId
      /\ over \in BoardIds \cup {none} /\ Moved(before.board, board, activeId)
  BY DEF BoardInv, BoardTypes, DragInv
<1>2. CASE over \in {none, activeId}
  BY <1>1, <1>2 DEF K!Dropped
<1>3. CASE over \notin {none, activeId} /\ activeId \in Tasks
  <2>1. CASE K!GetColumn(activeId) # K!GetColumn(over)
    BY <1>1, <1>3, <2>1 DEF K!Dropped
  <2>2. CASE K!GetColumn(activeId) = K!GetColumn(over)
    <3> DEFINE col == GetIn(board, activeId)
    <3>1. activeId \notin Columns
      BY <1>3, BoardConstants
    <3>2. col \in Columns /\ Has(board.items[col], activeId)
      BY <1>1, <3>1, ColumnOf DEF BoardIds
    <3>3. K!Dropped = K!SameColumn(col, activeId, over)
      BY <1>3, <2>2, ColumnNow DEF K!Dropped
    <3> HIDE DEF col
    <3>4. Arranged(K!Dropped) /\ Moved(board, K!Dropped, activeId)
      BY <1>1, <1>3, <3>2, <3>3, SameKeeps
    <3>5. QED
      BY <1>1, <3>4, MovedOn
  <2>3. QED
    BY <2>1, <2>2
<1>4. CASE over \notin {none, activeId} /\ activeId \notin Tasks
  <2>1. activeId \in Columns
    BY <1>1, <1>4 DEF BoardIds
  <2>2. K!Dropped = [board EXCEPT !.order = K!ArrayMove(@, K!IndexIn(@, activeId), K!IndexIn(@, over))]
    BY <1>4 DEF K!Dropped
  <2>3. Arranged(K!Dropped) /\ Moved(board, K!Dropped, activeId)
    BY <1>1, <2>1, <2>2, OrderKeeps
  <2>4. QED
    BY <1>1, <2>3, MovedOn
<1>5. QED
  BY <1>2, <1>3, <1>4

LEMMA EndKeeps == ASSUME BoardInv, K!OnDragEnd PROVE BoardInv'
<1>1. /\ lifted' = none /\ activeId' = none /\ over' = none
      /\ lastOver' = lastOver /\ before' = before
  BY DEF K!OnDragEnd
<1>2. SaidInv'
  <2>1. CASE over = none
    <3>1. said' = said
      BY <2>1 DEF K!OnDragEnd
    <3>2. QED
      BY <3>1 DEF BoardInv, SaidInv
  <2>2. CASE over # none
    <3>1. K!Announce(over, lifted \in Columns) /\ over \in BoardIds
      BY <2>2 DEF K!OnDragEnd, BoardInv, BoardTypes
    <3>2. (lifted \in Columns) \in BOOLEAN /\ Arranged(board)
      BY DEF BoardInv, BoardTypes
    <3>3. QED
      BY <3>1, <3>2, Announced
  <2>3. QED
    BY <2>1, <2>2
<1>3. Arranged(board') /\ Moved(before.board, board', before.dragged) /\ hasMoved' \in BOOLEAN
  <2>1. CASE activeId = none
    <3>1. board' = board /\ hasMoved' = hasMoved
      BY <2>1 DEF K!OnDragEnd
    <3>2. QED
      BY <3>1 DEF BoardInv, BoardTypes, DragInv
  <2>2. CASE activeId # none
    <3>1. board' = K!Dropped /\ hasMoved' \in BOOLEAN
      BY <2>2 DEF K!OnDragEnd, BoardInv, BoardTypes
    <3>2. QED
      BY <2>2, <3>1, DropKept
  <2>3. QED
    BY <2>1, <2>2
<1>4. BoardTypes' /\ DragInv' /\ OverInv'
  <2>1. none \notin Tasks
    BY BoardConstants DEF BoardIds
  <2>2. QED
    BY <1>1, <1>3, <2>1 DEF BoardInv, BoardTypes, DragInv, OverInv
<1>5. QED
  BY <1>2, <1>4 DEF BoardInv

LEMMA CancelKeeps == ASSUME BoardInv, K!OnDragCancel PROVE BoardInv'
<1>1. /\ lifted' = none /\ activeId' = none /\ over' = none /\ hasMoved' \in BOOLEAN
      /\ UNCHANGED <<board, lastOver, said, before>>
  BY DEF K!OnDragCancel, BoardInv, BoardTypes
<1>2. none \notin Tasks
  BY BoardConstants DEF BoardIds
<1>3. QED
  BY <1>1, <1>2 DEF BoardInv, BoardTypes, SaidInv, DragInv, OverInv

LEMMA BoardStep == ASSUME BoardInv, [K!Next]_boardVars PROVE BoardInv'
<1>1. CASE K!Next
  <2>1. ASSUME NEW q \in K!Ids, K!OnDragStart(q) PROVE BoardInv'
    BY <2>1, StartKeeps DEF K!Ids, BoardIds
  <2>2. QED
    BY <1>1, <2>1, CollisionKeeps, EndKeeps, CancelKeeps DEF K!Next
<1>2. CASE UNCHANGED boardVars
  BY <1>2 DEF boardVars, BoardInv, BoardTypes, SaidInv, DragInv, OverInv
<1>3. QED
  BY <1>1, <1>2

\* A list without repetitions has at most as many places as there are elements.
LEMMA OncePlaces ==
  ASSUME NEW T, IsFiniteSet(T), NEW s \in Seq(T), Once(s)
  PROVE  /\ Len(s) \in Nat /\ Cardinality(T) \in Nat /\ Len(s) <= Cardinality(T)
         /\ (\A q \in T : Has(s, q)) => Len(s) = Cardinality(T)
<1> DEFINE n == Len(s)
<1>1. n \in Nat /\ s \in [1..n -> T]
  OBVIOUS
<1> HIDE DEF n
<1>2. s \in Injection(1..n, T)
  BY <1>1 DEF Injection, IsInjective, Once
<1>3. Cardinality(1..n) = n
  BY <1>1, FS_Interval
<1>4. Cardinality(1..n) <= Cardinality(T)
  BY <1>2, FS_Injection
<1>5. s \in Surjection(1..n, T) => Cardinality(1..n) = Cardinality(T)
  BY <1>2, FS_Injection
<1>6. (\A q \in T : Has(s, q)) => s \in Surjection(1..n, T)
  BY <1>1 DEF Has, Surjection
<1>7. Cardinality(T) \in Nat
  BY FS_CardinalityType
<1>8. QED
  BY <1>1, <1>3, <1>4, <1>5, <1>6, <1>7 DEF n

\* A task has one place on a board.
LEMMA OnePlace ==
  ASSUME NEW bd, Arranged(bd), NEW i \in Tasks
  PROVE  Cardinality({p \in Columns \X (1..Cardinality(Tasks)) :
                        p[2] <= Len(bd.items[p[1]]) /\ bd.items[p[1]][p[2]] = i}) = 1
<1> DEFINE size == Cardinality(Tasks)
           places == {p \in Columns \X (1..size) :
                        p[2] <= Len(bd.items[p[1]]) /\ bd.items[p[1]][p[2]] = i}
<1>1. PICK col \in Columns : Has(bd.items[col], i)
  BY DEF Arranged
<1>2. \A other \in Columns : Has(bd.items[other], i) => other = col
  BY <1>1 DEF Arranged
<1>3. \A other \in Columns : DOMAIN bd.items[other] = 1..Len(bd.items[other])
                             /\ Len(bd.items[other]) \in Nat /\ Once(bd.items[other])
  BY ColumnHas
<1>4. PICK k \in DOMAIN bd.items[col] : bd.items[col][k] = i
  BY <1>1 DEF Has
<1>5. size \in Nat /\ Len(bd.items[col]) <= size
  BY ColumnHas, BoardConstants, OncePlaces
<1> HIDE DEF size
<1>6. <<col, k>> \in places
  BY <1>3, <1>4, <1>5
<1>7. ASSUME NEW p \in places PROVE p = <<col, k>>
  <2>1. PICK other \in Columns, j \in 1..size : p = <<other, j>>
    OBVIOUS
  <2>2. j <= Len(bd.items[other]) /\ bd.items[other][j] = i
    BY <2>1
  <2>3. j \in DOMAIN bd.items[other]
    BY <1>3, <2>2
  <2>4. other = col
    BY <1>2, <2>2, <2>3 DEF Has
  <2>5. j = k
    BY <1>3, <1>4, <2>2, <2>3, <2>4 DEF Once
  <2>6. QED
    BY <2>1, <2>4, <2>5
<1> HIDE DEF places
<1>8. places = {<<col, k>>}
  BY <1>6, <1>7
<1>9. QED
  BY <1>8, FS_Singleton DEF places, size

LEMMA BoardAgrees == ASSUME BoardInv PROVE K!TypeOK /\ K!BoardKept
<1>1. Arranged(board)
  BY DEF BoardInv, BoardTypes
<1>2. \A q : K!Cardinality(q) = Cardinality(q)
  BY DEF K!Cardinality, Cardinality
<1>3. board.order \in K!SetToSeqs(Columns)
  <2>1. board.order \in Seq(Columns) /\ Once(board.order) /\ \A q \in Columns : Has(board.order, q)
    BY <1>1 DEF Arranged, BoardType
  <2>2. Len(board.order) = Cardinality(Columns)
    BY <2>1, BoardConstants, OncePlaces
  <2>3. board.order \in [1..Cardinality(Columns) -> Columns]
    BY <2>1, <2>2
  <2>4. \A i, j \in 1..Cardinality(Columns) : i # j => board.order[i] # board.order[j]
    BY <2>1, <2>3 DEF Once
  <2>5. QED
    BY <1>2, <2>3, <2>4 DEF K!SetToSeqs
<1>4. ASSUME NEW col \in Columns PROVE K!ToSet(board.items[col]) \subseteq Tasks
  <2>1. board.items[col] \in Seq(Tasks)
    BY <1>1, ColumnHas
  <2>2. QED
    BY <2>1 DEF K!ToSet
<1>5. K!TypeOK
  <2>1. DOMAIN board.items = Columns
    BY <1>1 DEF Arranged, BoardType
  <2>2. QED
    BY <1>3, <1>4, <2>1 DEF BoardInv, BoardTypes, SaidInv, K!TypeOK, K!Ids, BoardIds
<1>6. \A i \in Tasks :
        K!Cardinality({p \in Columns \X (1..K!Cardinality(Tasks)) :
                         p[2] <= Len(board.items[p[1]]) /\ board.items[p[1]][p[2]] = i}) = 1
  BY <1>1, <1>2, OnePlace
<1>7. K!BoardKept
  <2>1. activeId \in Tasks /\ over # none => K!GetColumn(activeId) = K!GetColumn(over)
    BY ColumnNow DEF BoardInv, OverInv
  <2>2. QED
    BY <1>6, <2>1 DEF BoardInv, SaidInv, DragInv, Moved, K!BoardKept
<1>8. QED
  BY <1>5, <1>7

\* After any drags, however each ended, every task is on the board once, only
\* what was dragged last has changed its place, and a task that is dragged is
\* in the column it is over (kanban.tsx, onDragOver and onDragEnd).
THEOREM BoardShown == Spec => [](K!TypeOK /\ K!BoardKept)
<1>1. Init => BoardInv
  BY BoardInit DEF Init
<1>2. BoardInv /\ [Next]_AllVars => BoardInv'
  <2>1. ASSUME BoardInv, Next PROVE BoardInv'
    BY <2>1, BoardStep DEF Next
  <2>2. ASSUME BoardInv, UNCHANGED AllVars PROVE BoardInv'
    BY <2>2, BoardStep DEF AllVars
  <2>3. QED
    BY <2>1, <2>2
<1>3. BoardInv => K!TypeOK /\ K!BoardKept
  BY BoardAgrees
<1>4. QED
  BY <1>1, <1>2, <1>3, PTL DEF Spec

-----------------------------------------------------------------------------
(* The pages together. *)

\* What a page shows, once its calls were answered, is what the server has, and
\* what the user made of the page is kept: the property of the run, in every
\* reachable state, for any values of the constants.
THEOREM PagesAreAgreed == Spec => []PagesAgree
<1>1. WorkspaceInv => M!FilesAreCurrent
  BY MediaSafe DEF WorkspaceInv
<1>2. (P!TypeOK /\ P!ProfileAgrees) /\ (L!TypeOK /\ L!ListsAgree)
      /\ (U!TypeOK /\ U!HubAgrees /\ U!BusyEnds) /\ (S!TypeOK /\ S!SearchIsCurrent)
      /\ M!FilesAreCurrent /\ (A!TypeOK /\ A!ActivityAgrees) /\ B!HistoryIsRecent
      /\ (Y!TypeOK /\ Y!LayoutKept) /\ (C!TypeOK /\ C!RowsAgree)
      /\ (K!TypeOK /\ K!BoardKept) => PagesAgree
  BY DEF PagesAgree
<1>3. QED
  BY <1>1, <1>2, WorkspaceInvariance, ProfileShown, ListsShown, HubShown, SearchShown,
     ActivityShown, HistoryShown, FrameKept, RowsShown, BoardShown, PTL

=============================================================================
