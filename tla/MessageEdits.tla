---------------------------- MODULE MessageEdits ----------------------------
(***************************************************************************)
(* One message of the signed-in user, its bubble (message-bubble.tsx) and  *)
(* the editor in it (RichMessageEditor.tsx).  An edit is shown at once and *)
(* undone to the text before it if the call fails (chat/utils/store.ts,    *)
(* editMessage); the server tells every client by an event it broadcasts   *)
(* after it has committed, which may be lost or repeated.  A listing of    *)
(* the conversation brings the text it had when it was served.  The user   *)
(* may have the message open in another tab.  The bubble also marks the    *)
(* message as saved for later.                                             *)
(***************************************************************************)
EXTENDS Naturals, Sequences, FiniteSets

CONSTANTS
  Texts, First,   \* texts, and the one the message was sent with
  MaxEdits,       \* bound: edits made here or in another tab
  MaxNews,        \* bound: events on the socket when one is repeated
  MaxListings,    \* bound: listings of the conversation
  MaxSaves        \* bound: calls about saving for later

EditsAssumption == First \in Texts /\ {MaxEdits, MaxNews, MaxListings, MaxSaves} \subseteq Nat

VARIABLES
  stored,     \* the text the server has
  unsaid,     \* edits committed whose broadcasting has not ended, oldest first
  news,       \* events on the socket, in order
  text,       \* the text shown
  editing,    \* the editor is open
  editor,     \* what the editor shows
  editDraft,  \* what Save would send
  menu,       \* the menu of the bubble: "none", "open" or "delete" (its question)
  edits,      \* edits in flight: [n, to, from, served]
  made,       \* history: edits made
  listings,   \* listings served and not answered: [n, said]
  listed,     \* history: listings served
  disturbed,  \* history: the text met one of the causes below
  keeps,      \* [stored, shown]: whether the message is saved for later
  keepCalls,  \* calls about that: [n, op, served, answer]
  keepMade,   \* history: such calls
  keepDisturbed \* history: one failed, or two overlapped

editVars == <<stored, unsaid, news, text, editing, editor, editDraft, menu, edits, made, listings, listed, disturbed>>
keepVars == <<keeps, keepCalls, keepMade, keepDisturbed>>
vars == <<stored, unsaid, news, text, editing, editor, editDraft, menu, edits, made, listings, listed, disturbed,
          keeps, keepCalls, keepMade, keepDisturbed>>

KeepCall(op, n) == [n |-> n, op |-> op, served |-> FALSE, answer |-> FALSE]

\* The bubble appears and lists what is saved.
Init ==
  /\ stored = First /\ unsaid = <<>> /\ news = <<>> /\ text = First
  /\ editing = FALSE /\ editor = First /\ editDraft = First /\ menu = "none"
  /\ edits = {} /\ made = 0 /\ listings = {} /\ listed = 0 /\ disturbed = FALSE
  /\ keeps \in [stored: BOOLEAN, shown: {FALSE}]
  /\ keepCalls = {KeepCall("list", 0)} /\ keepMade = 1 /\ keepDisturbed = FALSE

-----------------------------------------------------------------------------
(* The editor. *)

\* The shown text changes: Save's text is reset to it, and an open editor is
\* rendered again.
ShowText(t) ==
  /\ text' = t
  /\ editDraft' = IF t = text THEN editDraft ELSE t
  /\ editor' = IF t = text THEN editor ELSE t

OpenMenu ==
  /\ menu' = IF menu = "open" THEN "none" ELSE "open"
  /\ menu # "delete"
  /\ UNCHANGED <<stored, unsaid, news, text, editing, editor, editDraft, edits, made, listings,
                 listed, disturbed, keepVars>>

\* The editor opens with the shown text.
StartEdit ==
  /\ menu = "open" /\ menu' = "none" /\ editing' = TRUE
  /\ editor' = IF editing THEN editor ELSE text
  /\ UNCHANGED <<stored, unsaid, news, text, editDraft, edits, made, listings, listed, disturbed,
                 keepVars>>

Type(t) ==
  /\ editing /\ editor' = t /\ editDraft' = t
  /\ UNCHANGED <<stored, unsaid, news, text, editing, menu, edits, made, listings, listed,
                 disturbed, keepVars>>

CancelEdit ==
  /\ editing /\ editing' = FALSE /\ editDraft' = text
  /\ UNCHANGED <<stored, unsaid, news, text, editor, menu, edits, made, listings, listed,
                 disturbed, keepVars>>

\* The question before a message is deleted; the deletion is ChatHistory's.
AskDelete ==
  /\ \/ menu = "open" /\ menu' = "delete"
     \/ menu = "delete" /\ menu' = "none"
  /\ UNCHANGED <<stored, unsaid, news, text, editing, editor, editDraft, edits, made, listings,
                 listed, disturbed, keepVars>>

\* saveEdit, editMessage: the text is shown, the one before it kept for an undo.
SaveEdit ==
  /\ editing /\ editing' = FALSE
  /\ made < MaxEdits /\ made' = made + 1
  /\ edits' = edits \cup {[n |-> made, to |-> editDraft, from |-> text, served |-> FALSE]}
  /\ ShowText(editDraft)
  /\ UNCHANGED <<stored, unsaid, news, menu, listings, listed, disturbed, keepVars>>

-----------------------------------------------------------------------------
(* The server, and the answers. *)

Serve(e) ==
  /\ ~e.served
  /\ stored' = e.to /\ unsaid' = Append(unsaid, e.to)
  /\ edits' = (edits \ {e}) \cup {[e EXCEPT !.served = TRUE]}
  /\ UNCHANGED <<news, text, editing, editor, editDraft, menu, made, listings, listed, disturbed,
                 keepVars>>

\* The user edits the message in another tab.
EditElsewhere(t) ==
  /\ made < MaxEdits /\ made' = made + 1
  /\ stored' = t /\ unsaid' = Append(unsaid, t)
  /\ UNCHANGED <<news, text, editing, editor, editDraft, menu, edits, listings, listed,
                 disturbed, keepVars>>

BroadcastEnds(i) == unsaid' = SubSeq(unsaid, 1, i - 1) \o SubSeq(unsaid, i + 1, Len(unsaid))

\* Handlers broadcast after their transaction, in any order; when the answer
\* to an attempt is late, another attempt follows.
Broadcast(i, again) ==
  /\ i \in DOMAIN unsaid
  /\ again => Len(news) < MaxNews
  /\ news' = Append(news, unsaid[i])
  /\ IF again THEN UNCHANGED unsaid ELSE BroadcastEnds(i)
  /\ disturbed' = (disturbed \/ i > 1)
  /\ UNCHANGED <<stored, text, editing, editor, editDraft, menu, edits, made, listings, listed,
                 keepVars>>

\* All attempts fail, or the gateway reaches no socket of the browser.
Lose(i) ==
  /\ i \in DOMAIN unsaid /\ BroadcastEnds(i)
  /\ disturbed' = (disturbed \/ (i = Len(unsaid) /\ (i > 1 \/ news # <<>> \/ unsaid[i] # text)))
  /\ UNCHANGED <<stored, news, text, editing, editor, editDraft, menu, edits, made, listings,
                 listed, keepVars>>

\* updateIncomingMessage.
UpdateIncoming ==
  /\ news # <<>> /\ news' = Tail(news) /\ ShowText(Head(news))
  /\ UNCHANGED <<stored, unsaid, editing, menu, edits, made, listings, listed, disturbed, keepVars>>

\* A resync after a reconnection, or the first load when the message came by
\* an event before it: the server answers with the text it has.
ServeListing ==
  /\ listed < MaxListings /\ listed' = listed + 1
  /\ listings' = listings \cup {[n |-> listed, said |-> stored]}
  /\ UNCHANGED <<stored, unsaid, news, text, editing, editor, editDraft, menu, edits, made,
                 disturbed, keepVars>>

\* mergeMessages: the listed message takes the place of the one shown, which
\* the event of an edit made since corrects if it is still to come.
Listed(l) ==
  /\ listings' = listings \ {l} /\ ShowText(l.said)
  /\ disturbed' = (disturbed \/ (/\ l.said # stored /\ unsaid = <<>> /\ news = <<>>
                                 /\ \A e \in edits: e.served))
  /\ UNCHANGED <<stored, unsaid, news, editing, menu, edits, made, listed, keepVars>>

EditAnswered(e) ==
  /\ e.served /\ edits' = edits \ {e}
  /\ UNCHANGED <<stored, unsaid, news, text, editing, editor, editDraft, menu, made, listings,
                 listed, disturbed, keepVars>>

\* The text before this edit is shown again, whatever was shown since.
EditFailed(e) ==
  /\ edits' = edits \ {e} /\ ShowText(e.from)
  /\ disturbed' = (disturbed \/ e.served \/ text # e.to \/ e.from # stored)
  /\ UNCHANGED <<stored, unsaid, news, editing, menu, made, listings, listed, keepVars>>

-----------------------------------------------------------------------------
(* Saved for later. *)

Keep(op) ==
  /\ keepMade < MaxSaves /\ keepMade' = keepMade + 1
  /\ keepCalls' = keepCalls \cup {KeepCall(op, keepMade)}
  /\ keepDisturbed' = (keepDisturbed \/ keepCalls # {})

\* The mark changes at once and nobody looks at the answer.
ToggleSaved ==
  /\ menu = "open" /\ menu' = "none"
  /\ Keep(IF keeps.shown THEN "unsave" ELSE "save")
  /\ keeps' = [keeps EXCEPT !.shown = ~@]
  /\ UNCHANGED <<stored, unsaid, news, text, editing, editor, editDraft, edits, made, listings,
                 listed, disturbed>>

ServeKeep(k) ==
  /\ ~k.served
  /\ keeps' = IF k.op = "list" THEN keeps ELSE [keeps EXCEPT !.stored = (k.op = "save")]
  /\ keepCalls' = (keepCalls \ {k}) \cup
       (IF k.op = "list" THEN {[k EXCEPT !.served = TRUE, !.answer = keeps.stored]} ELSE {})
  /\ UNCHANGED <<keepMade, keepDisturbed, editVars>>

SavedListed(k) ==
  /\ k.op = "list" /\ k.served
  /\ keeps' = [keeps EXCEPT !.shown = k.answer] /\ keepCalls' = keepCalls \ {k}
  /\ UNCHANGED <<keepMade, keepDisturbed, editVars>>

\* A listing that fails falls back on what this browser once stored.
KeepFailed(k) ==
  /\ keepCalls' = keepCalls \ {k} /\ keepDisturbed' = TRUE
  /\ keeps' \in (IF k.op = "list" THEN {[keeps EXCEPT !.shown = b]: b \in BOOLEAN} ELSE {keeps})
  /\ UNCHANGED <<keepMade, editVars>>

Next ==
  \/ OpenMenu \/ StartEdit \/ CancelEdit \/ AskDelete \/ SaveEdit \/ ToggleSaved
  \/ UpdateIncoming \/ ServeListing
  \/ \E t \in Texts: Type(t) \/ EditElsewhere(t)
  \/ \E i \in DOMAIN unsaid, again \in BOOLEAN: Broadcast(i, again)
  \/ \E i \in DOMAIN unsaid: Lose(i)
  \/ \E l \in listings: Listed(l)
  \/ \E e \in edits: Serve(e) \/ EditAnswered(e) \/ EditFailed(e)
  \/ \E k \in keepCalls: ServeKeep(k) \/ SavedListed(k) \/ KeepFailed(k)

Spec == Init /\ [][Next]_vars

-----------------------------------------------------------------------------
\* The state of the bubble and of the message (message-bubble.tsx, store.ts).
TypeOK ==
  /\ stored \in Texts /\ text \in Texts /\ editor \in Texts /\ editDraft \in Texts
  /\ editing \in BOOLEAN /\ menu \in {"none", "open", "delete"} /\ disturbed \in BOOLEAN
  /\ keeps \in [stored: BOOLEAN, shown: BOOLEAN]

\* An open editor shows what Save would send, even when the message changes
\* under it (message-bubble.tsx, RichMessageEditor.tsx, the effects on the text).
EditorIsDraft == editing => editor = editDraft

\* With no edit or event in flight the message shows the text the server has,
\* and the mark whether it is saved (store.ts, editMessage; message-bubble.tsx,
\* toggleSaved), unless an undo met an edit, a listing or a text the server had
\* taken, the events of two edits changed order, the last event was lost with
\* another text or an event before it on its way to the screen, a listing
\* brought a text older than the last event, or calls about the mark failed or
\* overlapped.
EditsAgree ==
  /\ (edits = {} /\ unsaid = <<>> /\ news = <<>> /\ ~disturbed) => text = stored
  /\ (keepCalls = {} /\ ~keepDisturbed) => keeps.shown = keeps.stored
=============================================================================
