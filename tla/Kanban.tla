------------------------------- MODULE Kanban -------------------------------
(***************************************************************************)
(* The board of components/ui/kanban.tsx, which apps/web ships with its    *)
(* other components.  The component does not wait for the drop: whenever   *)
(* the target under the pointer changes it moves the item there, so that a *)
(* drag is a sequence of partial moves, and a drop or a cancellation finds *)
(* the board as the last of them left it.  Which target is hit depends on  *)
(* geometry and is left open.  onMove is not given: the component reports  *)
(* every new board to onValueChange, whose owner takes it over.            *)
(***************************************************************************)
EXTENDS Integers, Sequences, FiniteSets, SequencesExt

CONSTANTS Columns, Items, None

KanbanAssumption ==
  /\ IsFiniteSet(Columns) /\ Columns # {} /\ IsFiniteSet(Items)
  /\ Columns \cap Items = {} /\ None \notin Columns \cup Items

VARIABLES
  board,      \* the order of the columns, and the items of each, in order
  activeId,   \* what is dragged
  lifted,     \* what dnd-kit drags: also a drag this component ignores
  over,       \* the target dnd-kit last reported
  lastOver,   \* lastOverIdRef, which outlives the drag
  hasMoved,   \* hasMovedRef
  said,       \* the position and the total last announced
  before      \* history: the board when the last drag started, and what was dragged

vars == <<board, activeId, lifted, over, lastOver, hasMoved, said, before>>

Ids == Columns \cup Items

-----------------------------------------------------------------------------

\* findIndex and indexOf, from 1, and 0 for -1.
IndexIn(s, x) == IF Contains(s, x) THEN CHOOSE i \in DOMAIN s: s[i] = x ELSE 0

\* The filter takes off the place x has, for there is one at most.
Without(s, x) == IF Contains(s, x) THEN RemoveAt(s, IndexIn(s, x)) ELSE s

\* arrayMove of dnd-kit: a negative target counts from the end.
ArrayMove(s, from, to) ==
  InsertAt(RemoveAt(s, from), IF to = 0 THEN Len(s) ELSE to, s[from])

GetColumn(x) ==
  IF x \in Columns THEN x ELSE CHOOSE c \in Columns: Contains(board.items[c], x)

Position(x, isColumn) ==
  IF isColumn THEN IndexIn(board.order, x) ELSE IndexIn(board.items[GetColumn(x)], x)
Total(x, isColumn) ==
  IF isColumn THEN Len(board.order) ELSE Len(board.items[GetColumn(x)])

\* The announcement for a screen reader, from the board before the change.
Announce(x, isColumn) ==
  said' = [position |-> Position(x, isColumn), total |-> Total(x, isColumn)]

\* What a board may start from: the items in any columns, in one order.
Boards == {[order |-> SetToSeq(Columns),
            items |-> [c \in Columns |-> SetToSeq({i \in Items: f[i] = c})]]: f \in [Items -> Columns]}

Init ==
  /\ board \in Boards
  /\ activeId = None /\ lifted = None /\ over = None /\ lastOver = None
  /\ hasMoved = FALSE /\ said = [position |-> 0, total |-> 0]
  /\ before = [board |-> board, dragged |-> None]

-----------------------------------------------------------------------------
(* onDragStart: an activating event that was prevented is ignored, which   *)
(* dnd-kit does to the keys that lift an item; its drag goes on.           *)

OnDragStart(x) ==
  /\ lifted = None /\ lifted' = x
  /\ activeId' \in {x, None}
  /\ over' = None
  /\ Announce(x, x \in Columns)
  /\ before' = [board |-> board, dragged |-> x]
  /\ UNCHANGED <<board, lastOver, hasMoved>>

-----------------------------------------------------------------------------
(* onDragOver *)

SameColumn(c, x, target) ==
  LET items == board.items[c]
      from == IndexIn(items, x)
      to == IndexIn(items, target)
  IN  IF from = to THEN board
      ELSE [board EXCEPT !.items[c] = ArrayMove(items, from, to)]

OtherColumn(c, d, x) ==
  [board EXCEPT !.items[c] = Without(@, x), !.items[d] = Append(@, x)]

\* A column that is dragged only moves when it is dropped.
MoveOver(x, target) ==
  LET from == GetColumn(x)  to == GetColumn(target)
  IN  IF x \in Columns THEN UNCHANGED <<board, hasMoved>>
      ELSE IF from = to THEN board' = SameColumn(from, x, target) /\ UNCHANGED hasMoved
      ELSE board' = OtherColumn(from, to, x) /\ hasMoved' = TRUE

OnDragOver(target) ==
  /\ over' = target
  /\ IF target \in {None, over} THEN UNCHANGED said ELSE Announce(target, lifted \in Columns)
  /\ IF target \in {None, over} \/ activeId = None THEN UNCHANGED <<board, hasMoved>>
     ELSE MoveOver(activeId, target)

-----------------------------------------------------------------------------
(* collisionDetection: what the pointer, or the box an arrow key moved, is *)
(* over.                                                                   *)

\* A column is only compared with columns.
HitColumn ==
  /\ activeId \in Columns
  /\ \E c \in Columns: OnDragOver(c)
  /\ UNCHANGED lastOver

\* In a column that has items the closest of them is taken, once measured.
Targets(x) ==
  IF x \in Columns /\ board.items[x] # <<>> THEN {x} \cup ToSet(board.items[x]) ELSE {x}

Hit ==
  /\ activeId \notin Columns
  /\ \E x \in Ids: \E target \in Targets(x): OnDragOver(target) /\ lastOver' = target

\* Nothing is hit: the last target stands, be it one of an earlier drag.
Miss ==
  /\ activeId \notin Columns
  /\ lastOver' = IF hasMoved THEN activeId ELSE lastOver
  /\ OnDragOver(lastOver')

CollisionDetection ==
  /\ lifted # None
  /\ HitColumn \/ Hit \/ Miss
  /\ UNCHANGED <<activeId, lifted, before>>

-----------------------------------------------------------------------------
(* onDragEnd and onDragCancel; the latter does not take the moves back. *)

Dropped ==
  IF over \in {None, activeId} THEN board
  ELSE IF activeId \in Items
  THEN IF GetColumn(activeId) = GetColumn(over)
       THEN SameColumn(GetColumn(activeId), activeId, over) ELSE board
  ELSE [board EXCEPT !.order = ArrayMove(@, IndexIn(@, activeId), IndexIn(@, over))]

OnDragEnd ==
  /\ lifted # None /\ lifted' = None
  /\ IF over = None THEN UNCHANGED said ELSE Announce(over, lifted \in Columns)
  /\ IF activeId = None THEN UNCHANGED <<board, hasMoved>>
     ELSE /\ board' = Dropped
          /\ hasMoved' = IF over = None THEN hasMoved ELSE FALSE
  /\ activeId' = None /\ over' = None
  /\ UNCHANGED <<lastOver, before>>

OnDragCancel ==
  /\ lifted # None /\ lifted' = None
  /\ hasMoved' = IF activeId = None THEN hasMoved ELSE FALSE
  /\ activeId' = None /\ over' = None
  /\ UNCHANGED <<board, lastOver, said, before>>

Next ==
  \/ \E x \in Ids: OnDragStart(x)
  \/ CollisionDetection
  \/ OnDragEnd \/ OnDragCancel

Spec == Init /\ [][Next]_vars

-----------------------------------------------------------------------------
(* Properties *)

TypeOK ==
  /\ board.order \in SetToSeqs(Columns)
  /\ DOMAIN board.items = Columns
  /\ \A c \in Columns: ToSet(board.items[c]) \subseteq Items
  /\ activeId \in Ids \cup {None} /\ lifted \in Ids \cup {None} /\ activeId \in {None, lifted}
  /\ over \in Ids \cup {None} /\ lastOver \in Ids \cup {None}
  /\ hasMoved \in BOOLEAN /\ said \in [position: Nat, total: Nat]

\* After any sequence of partial moves, however the drag ends, each item is on
\* the board once; only what is dragged has changed its place among the
\* others; and an item that is dragged is in the column it is over.
BoardKept ==
  /\ \A i \in Items:
       Cardinality({p \in Columns \X (1..Cardinality(Items)):
                      p[2] <= Len(board.items[p[1]]) /\ board.items[p[1]][p[2]] = i}) = 1
  /\ LET dragged == before.dragged
     IN  /\ Without(board.order, dragged) = Without(before.board.order, dragged)
         /\ \A c \in Columns: Without(board.items[c], dragged) = Without(before.board.items[c], dragged)
         /\ dragged \notin Columns => board.order = before.board.order
  /\ activeId \in Items /\ over # None => GetColumn(activeId) = GetColumn(over)
  /\ said.position <= said.total
=============================================================================
