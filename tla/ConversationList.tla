-------------------------- MODULE ConversationList --------------------------
(***************************************************************************)
(* What of the conversations the sidebar of apps/web shows (features/chat/ *)
(* components/conversation-list.tsx, mounted once per workspace by         *)
(* WorkspaceConversationSidebar.tsx).  The same list serves the home view  *)
(* and, with ?dmOnly=1, the view of the direct messages; its search, its   *)
(* switches and its sections are kept when the view changes, while         *)
(* messages arrive, conversations come and go, and stars are listed late.  *)
(* The calls that list and change stars are in WorkspaceLists.             *)
(***************************************************************************)
EXTENDS Naturals, FiniteSets

CONSTANTS
  Channels, DMs,
  None         \* no conversation

ListAssumption == Channels \cap DMs = {} /\ None \notin Channels \cup DMs

Convs == Channels \cup DMs
Sections == {"channels", "dms", "starred"}

VARIABLES
  present,     \* the conversations of the store
  unread,      \* those with unread messages
  selected,    \* selectedConversationId
  dmOnly,      \* the view, from the address
  found,       \* what the search matches, everything while it is empty
  unreadsOnly, \* the switch of the DM view
  open,        \* the sections that are open
  hint,        \* starredHintVisible
  starred,     \* starredConversations
  starsLoaded,
  chosen       \* history: the view the last row was chosen in, and the next view

vars == <<present, unread, selected, dmOnly, found, unreadsOnly, open, hint, starred,
          starsLoaded, chosen>>
store == <<present, unread>>
view == <<found, unreadsOnly, open, hint>>
stars == <<starred, starsLoaded>>

Init ==
  /\ present = Convs /\ unread = {} /\ selected = None
  /\ dmOnly = FALSE /\ found = Convs /\ unreadsOnly = FALSE
  /\ open = Sections /\ hint = TRUE
  /\ starred = {} /\ starsLoaded = FALSE
  /\ chosen = [from |-> FALSE, to |-> FALSE]

-----------------------------------------------------------------------------
(* What is on screen. *)

Filtered == present \cap found

\* The switch goes on filtering in the home view, which does not have it.
VisibleDirectMessages == (Filtered \cap DMs) \cap (IF unreadsOnly THEN unread ELSE DMs)

ChannelRows == IF dmOnly \/ "channels" \notin open THEN {} ELSE Filtered \cap Channels
DMRows == IF dmOnly \/ "dms" \in open THEN VisibleDirectMessages ELSE {}

\* Stars of conversations the store does not have are skipped.
VisibleStarred == present \cap starred
StarredRows ==
  IF "starred" \notin open THEN {} ELSE VisibleStarred \cap (IF dmOnly THEN DMs ELSE Convs)

Hint == ~dmOnly /\ "starred" \in open /\ starsLoaded /\ VisibleStarred = {} /\ hint

Rows == ChannelRows \cup DMRows \cup StarredRows

-----------------------------------------------------------------------------
(* The user. *)

\* openConversation keeps the DM view for a DM.
Select(c) ==
  /\ c \in Rows
  /\ selected' = c
  /\ dmOnly' = (dmOnly /\ c \in DMs)
  /\ chosen' = [from |-> dmOnly, to |-> dmOnly']
  /\ UNCHANGED <<store, view, stars>>

\* Home, Direct messages, or a page that has neither.
SetView(dms) ==
  /\ dmOnly' = dms
  /\ UNCHANGED <<store, view, stars, selected, chosen>>

ToggleSection(s) ==
  /\ dmOnly => s = "starred"
  /\ open' = IF s \in open THEN open \ {s} ELSE open \cup {s}
  /\ UNCHANGED <<store, stars, selected, dmOnly, found, unreadsOnly, hint, chosen>>

ToggleUnreads ==
  /\ dmOnly
  /\ unreadsOnly' = ~unreadsOnly
  /\ UNCHANGED <<store, stars, selected, dmOnly, found, open, hint, chosen>>

\* Names and titles are matched; an empty search matches all.
SetSearch(matching) ==
  /\ found' = matching
  /\ UNCHANGED <<store, stars, selected, dmOnly, unreadsOnly, open, hint, chosen>>

HideHint ==
  /\ Hint /\ hint' = FALSE
  /\ UNCHANGED <<store, stars, selected, dmOnly, found, unreadsOnly, open, chosen>>

-----------------------------------------------------------------------------
(* What changes under the list. *)

\* A message arrives, or the conversation on screen is marked read.
Arrive(c) ==
  /\ c \in present /\ c # selected
  /\ unread' = unread \cup {c}
  /\ UNCHANGED <<present, selected, dmOnly, view, stars, chosen>>

MarkRead ==
  /\ selected \in unread
  /\ unread' = unread \ {selected}
  /\ UNCHANGED <<present, selected, dmOnly, view, stars, chosen>>

Join(c) ==
  /\ c \notin present /\ present' = present \cup {c}
  /\ UNCHANGED <<unread, selected, dmOnly, view, stars, chosen>>

Remove(c) ==
  /\ c \in present /\ present' = present \ {c} /\ unread' = unread \ {c}
  /\ selected' = IF selected = c THEN None ELSE selected
  /\ UNCHANGED <<dmOnly, view, stars, chosen>>

\* The answer of a listing, of any conversation of the user, or its failure.
StarsListed(S) ==
  /\ starred' = S /\ starsLoaded' = TRUE
  /\ UNCHANGED <<store, view, selected, dmOnly, chosen>>

Next ==
  \/ \E c \in Convs: Select(c) \/ Arrive(c) \/ Join(c) \/ Remove(c)
  \/ \E dms \in BOOLEAN: SetView(dms)
  \/ \E s \in Sections: ToggleSection(s)
  \/ \E S \in SUBSET Convs: SetSearch(S) \/ StarsListed(S)
  \/ ToggleUnreads \/ HideHint \/ MarkRead

Spec == Init /\ [][Next]_vars

-----------------------------------------------------------------------------
(* Properties *)

TypeOK ==
  /\ present \subseteq Convs /\ unread \subseteq Convs /\ selected \in Convs \cup {None}
  /\ dmOnly \in BOOLEAN /\ found \subseteq Convs /\ unreadsOnly \in BOOLEAN
  /\ open \subseteq Sections /\ hint \in BOOLEAN
  /\ starred \subseteq Convs /\ starsLoaded \in BOOLEAN
  /\ chosen \in [from: BOOLEAN, to: BOOLEAN]

\* Whatever stars, filters and conversations do meanwhile: the DM view is never
\* left by a row it offers; no row outlives its conversation; an unread DM is
\* only hidden by the search or by its closed section, never by the switch for
\* unread ones; and the hint to star something is not shown beside a star.
RowsAgree ==
  /\ chosen.from => chosen.to
  /\ Rows \subseteq present
  /\ \A c \in unread \cap DMs \cap found: c \in DMRows \/ (~dmOnly /\ "dms" \notin open)
  /\ Hint => StarredRows = {}
=============================================================================
