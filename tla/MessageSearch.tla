---------------------------- MODULE MessageSearch ----------------------------
(***************************************************************************)
(* Searching messages, a page at a time.  The same machine is written      *)
(* twice: in chat-area.tsx, over the conversation on screen, and in the    *)
(* page search/page.tsx, over the workspace, which also finds people and   *)
(* settings.  A search is cancelled when what is searched for changes;     *)
(* loading a further page is not.                                          *)
(***************************************************************************)
EXTENDS Naturals, Sequences, FiniteSets

CONSTANTS
  Scopes,       \* what may be searched for: a query in a conversation
  NoScope,      \* an empty query (shorter than two letters on the page)
  PagesOf,      \* PagesOf[s]: the pages of results of scope s
  MaxChanges    \* bound: changes of the query or the conversation

SearchAssumption ==
  /\ NoScope \notin Scopes
  /\ PagesOf \in [Scopes -> Nat]
  /\ MaxChanges \in Nat

VARIABLES
  place,        \* "area" or "page": which of the two
  scope,        \* what is searched for
  round,        \* the effect that searches for it
  first,        \* the searches in flight: their round and scope
  results,      \* the pages shown, [scope, n]
  cursor,       \* the page to load next: [scope, n], n = 0 for none
  hasMore,      \* searchHasMore
  searchError,  \* searchError, error
  more,         \* the further page in flight: [scope, n], n = 0 for none
  tab,          \* the tab of the page
  opening,      \* openingUserId: a DM is being created from the list of people
  stray         \* history: further pages that arrived after a change or not at all

search == <<scope, round, first>>
shownPages == <<results, cursor, hasMore, searchError>>
people == <<tab, opening>>
vars == <<place, scope, round, first, results, cursor, hasMore, searchError, more, tab,
          opening, stray>>

Tabs == {"Messages", "People", "Settings"}
NoPage == [scope |-> NoScope, n |-> 0]
Page(s, n) == [scope |-> s, n |-> n]

\* The server's answer names the next page if there is one.
NextCursor(s, n) == IF n < PagesOf[s] THEN Page(s, n + 1) ELSE NoPage

Init ==
  /\ place \in {"area", "page"}
  /\ scope = NoScope /\ round = 0 /\ first = {}
  /\ results = <<>> /\ cursor = NoPage /\ hasMore = FALSE /\ searchError = FALSE
  /\ more = NoPage
  /\ tab = "Messages" /\ opening = FALSE
  /\ stray = FALSE

-----------------------------------------------------------------------------

Clear == results' = <<>> /\ cursor' = NoPage /\ hasMore' = FALSE /\ searchError' = FALSE

\* The effect of a new scope.  The page clears at once; the chat area leaves
\* the old results until the answer comes, unless the query is empty.
ChangeScope(s) ==
  /\ s # scope /\ round < MaxChanges
  /\ scope' = s /\ round' = round + 1
  /\ IF place = "page" \/ s = NoScope THEN Clear ELSE UNCHANGED shownPages
  /\ first' = IF s = NoScope THEN first ELSE first \cup {[round |-> round + 1, scope |-> s]}
  /\ stray' = IF more # NoPage THEN TRUE ELSE stray
  /\ UNCHANGED <<place, more, people>>

\* A cancelled search is ignored.
Found(f) ==
  /\ first' = first \ {f}
  /\ IF f.round = round
     THEN /\ results' = IF PagesOf[f.scope] = 0 THEN <<>> ELSE <<Page(f.scope, 1)>>
          /\ cursor' = NextCursor(f.scope, 1)
          /\ hasMore' = (PagesOf[f.scope] > 1)
          /\ searchError' = FALSE
     ELSE UNCHANGED shownPages
  /\ UNCHANGED <<place, scope, round, more, people, stray>>

NotFound(f) ==
  /\ first' = first \ {f}
  /\ IF f.round = round
     THEN /\ searchError' = TRUE
          /\ IF place = "area" THEN results' = <<>> /\ cursor' = NoPage /\ hasMore' = FALSE
                               ELSE UNCHANGED <<results, cursor, hasMore>>
     ELSE UNCHANGED shownPages
  /\ UNCHANGED <<place, scope, round, more, people, stray>>

\* Both ask for the current query from the cursor of whatever they show; the
\* page hides the button while it searches.
LoadMore ==
  /\ hasMore /\ tab = "Messages"
  /\ place = "area" => ~searchError /\ results # <<>>
  /\ place = "page" => {f \in first: f.round = round} = {}
  /\ cursor # NoPage /\ more = NoPage /\ scope # NoScope
  /\ more' = cursor
  /\ stray' = IF cursor.scope # scope \/ \E f \in first: f.round = round THEN TRUE ELSE stray
  /\ UNCHANGED <<place, search, shownPages, people>>

MoreFound ==
  /\ more # NoPage /\ more' = NoPage
  /\ results' = Append(results, more)
  /\ cursor' = NextCursor(more.scope, more.n)
  /\ hasMore' = (more.n < PagesOf[more.scope])
  /\ UNCHANGED <<place, search, searchError, people, stray>>

\* The chat area reports the failure in place of the results.
MoreFailed ==
  /\ more # NoPage /\ more' = NoPage
  /\ searchError' = IF place = "area" THEN TRUE ELSE searchError
  /\ UNCHANGED <<place, search, results, cursor, hasMore, people, stray>>

\* jumpToMessage clears the query, and so does Escape.
JumpToMessage ==
  /\ place = "area" /\ results # <<>> /\ ~searchError
  /\ ChangeScope(NoScope)

ChooseTab(t) ==
  /\ place = "page" /\ t # tab /\ tab' = t
  /\ UNCHANGED <<place, search, shownPages, more, opening, stray>>

OpenPerson ==
  /\ place = "page" /\ tab = "People" /\ ~opening
  /\ opening' = TRUE
  /\ UNCHANGED <<place, search, shownPages, more, tab, stray>>

PersonOpened ==
  /\ opening /\ opening' = FALSE
  /\ UNCHANGED <<place, search, shownPages, more, tab, stray>>

Next ==
  \/ \E s \in Scopes \cup {NoScope}: ChangeScope(s)
  \/ \E f \in first: Found(f) \/ NotFound(f)
  \/ LoadMore \/ MoreFound \/ MoreFailed
  \/ JumpToMessage
  \/ \E t \in Tabs: ChooseTab(t)
  \/ OpenPerson \/ PersonOpened

Spec == Init /\ [][Next]_vars

-----------------------------------------------------------------------------
(* Properties *)

Pages == [scope: Scopes, n: Nat \ {0}] \cup {NoPage}

TypeOK ==
  /\ place \in {"area", "page"}
  /\ scope \in Scopes \cup {NoScope} /\ round \in 0..MaxChanges
  /\ first \subseteq [round: 1..MaxChanges, scope: Scopes]
  /\ \A i \in DOMAIN results: results[i] \in Pages \ {NoPage}
  /\ cursor \in Pages /\ more \in Pages
  /\ hasMore \in BOOLEAN /\ searchError \in BOOLEAN
  /\ tab \in Tabs /\ opening \in BOOLEAN /\ stray \in BOOLEAN

\* Unless a further page was on its way while the search changed, what is
\* listed once the search has been answered are the first pages of what is
\* searched for, in order and without a gap, and the button loads the next.
SearchIsCurrent ==
  (~stray /\ ~\E f \in first: f.round = round) =>
    /\ \A i \in DOMAIN results: results[i] = Page(scope, i)
    /\ hasMore => cursor = Page(scope, Len(results) + 1)
=============================================================================
