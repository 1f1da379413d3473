---------------------------- MODULE WorkspaceBoot ----------------------------
(***************************************************************************)
(* How a tab enters a workspace and moves about in it.  The provider of a  *)
(* workspace (WorkspaceChatProvider.tsx) boots the chat store, one for the *)
(* whole tab, and shows the workspace when the boot ended; the boot of a   *)
(* workspace that was left goes on (chat/utils/store.ts, init).  The rail, *)
(* the sidebar, the header and the shell navigate by what localStorage     *)
(* remembers: the active workspace, the last conversation of every         *)
(* workspace, and the conversations opened lately.  The pages of threads,  *)
(* of saved messages and of the activity, and the toast of a message, open *)
(* conversations of every workspace under the path of one.                 *)
(***************************************************************************)
EXTENDS Naturals, Sequences, FiniteSets

CONSTANTS
  Workspaces, Convs,
  HomeOf,          \* the workspace of each conversation: channels, for a DM is in
                   \* every workspace
  None,            \* null, ""
  HistorySize,     \* conversations remembered as opened lately (12)
  MaxBoots,        \* bound: boots in flight
  MaxMoves         \* bound: entries into workspaces, conversations and links opened

BootAssumption ==
  /\ HomeOf \in [Convs -> Workspaces] /\ None \notin Convs \cup Workspaces
  /\ {"home", "page"} \cap Convs = {}
  /\ HistorySize \in Nat \ {0} /\ MaxBoots \in Nat /\ MaxMoves \in Nat

Places == Convs \cup {"home", "page"}

VARIABLES
  route,      \* the workspace of the path, None outside
  place,      \* what the path shows of it
  ready,      \* workspaceReady
  boots,      \* running inits: [ws, mine], mine: its provider is mounted
  store,      \* workspace of the chat store, with its conversations
  selected,   \* selectedConversationId
  active,     \* active_workspace_id
  last,       \* slack_last_conversation_id of every workspace
  lately,     \* slack_navigation_history of every workspace
  recent,     \* what the header lists of it
  newMessage, \* newMessagePath
  searching,  \* the search field is about to navigate
  menus,      \* popovers of the rail: [activity, more, pinned, timers, current]
  posting,    \* the new message being sent: [ws, to, chosen], chosen: to is selected
  moves, opened, confused, \* history: moves; conversations opened from the sidebar;
                           \* a boot failed or ran beside another
  foreign     \* history: what was opened under another workspace, by what led there

tab == <<route, place, ready, boots, store, selected, active, last, recent, newMessage>>
vars == <<route, place, ready, boots, store, selected, active, last, lately, recent,
          newMessage, searching, menus, posting, moves, opened, confused, foreign>>

NoMenus == [activity |-> FALSE, more |-> FALSE, pinned |-> FALSE, timers |-> {}, current |-> "none"]

Init ==
  /\ route = None /\ place = "page" /\ ready = FALSE /\ boots = {}
  /\ store = None /\ selected = None /\ active = None
  /\ last = [w \in Workspaces |-> None] /\ lately = [w \in Workspaces |-> <<>>]
  /\ recent = <<>> /\ newMessage = FALSE /\ searching = FALSE
  /\ menus = NoMenus /\ posting = None
  /\ moves = 0 /\ opened = [w \in Workspaces |-> <<>>] /\ confused = FALSE /\ foreign = {}

\* A conversation that is opened where another workspace is.
Stray(w, p) == IF p \in Convs /\ w # None /\ HomeOf[p] # w THEN {<<w, p>>} ELSE {}
\* What a way in leads to that knows the workspace of its conversations.
Proper(w) == {"home"} \cup {c \in Convs: HomeOf[c] = w \/ <<w, c>> \in foreign}

-----------------------------------------------------------------------------
(* Entering a workspace. *)

\* The path changes within the workspace: the header reads the history again,
\* the new message closes.
Show(p) ==
  /\ place' = p
  /\ recent' = IF p = place THEN recent ELSE lately'[route]
  /\ newMessage' = IF p = place THEN newMessage ELSE FALSE

\* mutant: the workspace entered counts as ready while it boots.
EnterStillReady(w, p) ==
  /\ w # route /\ moves < MaxMoves /\ Cardinality(boots) < MaxBoots
  /\ route' = w /\ place' = p /\ newMessage' = FALSE
  /\ boots' = {[b EXCEPT !.mine = FALSE]: b \in boots} \cup {[ws |-> w, mine |-> TRUE]}
  /\ active' = w /\ recent' = lately[w] /\ moves' = moves + 1
  /\ confused' = (confused \/ boots # {})
  /\ UNCHANGED <<ready, store, selected, last, lately, searching, menus, posting, opened>>

\* Another workspace: its provider mounts and starts a boot.
Enter(w, p) ==
  /\ w # route /\ moves < MaxMoves /\ Cardinality(boots) < MaxBoots
  /\ route' = w /\ place' = p /\ ready' = FALSE /\ newMessage' = FALSE
  /\ boots' = {[b EXCEPT !.mine = FALSE]: b \in boots} \cup {[ws |-> w, mine |-> TRUE]}
  /\ active' = w /\ recent' = lately[w] /\ moves' = moves + 1
  /\ confused' = (confused \/ boots # {})
  /\ UNCHANGED <<store, selected, last, lately, searching, menus, opened>>

\* The rail, the list of workspaces, the way back of the browser.
EnterProperly(w, p) == p \in Proper(w) /\ Enter(w, p) /\ UNCHANGED <<posting, foreign>>

\* The tab is loaded anew, at any address: by hand, or by Open chat of the toast
\* of a message and of the notifications, which know no workspace but the active.
Load(w, p) ==
  /\ moves < MaxMoves /\ moves' = moves + 1
  /\ route' = w /\ place' = p /\ ready' = FALSE /\ newMessage' = FALSE
  /\ boots' = IF w = None THEN {} ELSE {[ws |-> w, mine |-> TRUE]}
  /\ store' = None /\ selected' = None
  /\ active' = IF w = None THEN active ELSE w
  /\ recent' = IF w = None THEN <<>> ELSE lately[w]
  /\ searching' = FALSE /\ menus' = NoMenus /\ posting' = None
  /\ foreign' = foreign \cup Stray(w, p)
  /\ UNCHANGED <<last, lately, opened, confused>>

\* Out of all workspaces: the list of workspaces.
LeaveAll ==
  /\ route # None
  /\ route' = None /\ place' = "page" /\ ready' = FALSE /\ newMessage' = FALSE
  /\ boots' = {[b EXCEPT !.mine = FALSE]: b \in boots}
  /\ UNCHANGED <<store, selected, active, last, lately, recent, searching, menus, posting,
                 moves, opened, confused, foreign>>

BootAnswered(b) ==
  /\ boots' = boots \ {b}
  /\ store' = b.ws /\ selected' = None
  /\ ready' = (ready \/ b.mine)
  /\ UNCHANGED <<route, place, active, last, lately, recent, newMessage, searching, menus,
                 posting, moves, opened, confused, foreign>>

\* A call of init fails, or the workspace is not one of the user's.
BootFailed(b, unknown) ==
  /\ boots' = boots \ {b}
  /\ IF unknown THEN store' = None /\ selected' = None ELSE UNCHANGED <<store, selected>>
  /\ ready' = (ready \/ b.mine) /\ confused' = TRUE
  /\ UNCHANGED <<route, place, active, last, lately, recent, newMessage, searching, menus,
                 posting, moves, opened, foreign>>

-----------------------------------------------------------------------------
(* Selecting conversations. *)

\* selectConversation; "" is remembered like any other.
Select(c) ==
  /\ selected' = c
  /\ last' = IF store = None THEN last ELSE [last EXCEPT ![store] = c]

\* WorkspaceChatView follows the path, to whichever conversation it names.
FollowRoute ==
  /\ ready /\ place \in Convs /\ ~newMessage /\ selected # place
  /\ Select(place)
  /\ UNCHANGED <<route, place, ready, boots, store, active, lately, recent, newMessage,
                 searching, menus, posting, moves, opened, confused, foreign>>

\* Open chat of the toast, of the conversation the path shows already.
Reselect ==
  /\ place \in Convs /\ route = active /\ Select(place)
  /\ foreign' = foreign \cup Stray(store, place)
  /\ UNCHANGED <<route, place, ready, boots, store, active, lately, recent, newMessage,
                 searching, menus, posting, moves, opened, confused>>

\* The filter takes off the place c had, for there is one at most.
Lately(s, c) ==
  LET places == {i \in DOMAIN s: s[i] = c}
      p == CHOOSE i \in places: TRUE
      others == IF places = {} THEN s ELSE SubSeq(s, 1, p - 1) \o SubSeq(s, p + 1, Len(s))
      next == <<c>> \o others
  IN IF Len(next) > HistorySize THEN SubSeq(next, 1, HistorySize) ELSE next

\* A conversation of the sidebar.
OpenConversation(c) ==
  /\ ready /\ HomeOf[c] = store /\ moves < MaxMoves
  /\ Select(c)
  /\ lately' = [lately EXCEPT ![route] = Lately(@, c)]
  /\ place' = c /\ newMessage' = FALSE
  /\ recent' = IF c = place THEN recent ELSE lately'[route]
  /\ moves' = moves + 1 /\ opened' = [opened EXCEPT ![route] = Append(@, c)]
  /\ UNCHANGED <<route, ready, boots, store, active, searching, menus, posting, confused, foreign>>

\* The close button of a page, or of a conversation.
ClosePanel ==
  /\ ready /\ place # "home" /\ ~newMessage
  /\ Select(None) /\ UNCHANGED lately /\ Show("home")
  /\ UNCHANGED <<route, ready, boots, store, active, searching, menus, posting, moves, opened,
                 confused, foreign>>

-----------------------------------------------------------------------------
(* Navigation that selects nothing itself. *)

Within ==
  UNCHANGED <<route, ready, boots, store, selected, active, last, lately, menus, opened, confused>>

\* The shortcuts of the shell close the new message as well.
Shortcut(p) ==
  /\ route # None /\ p \in {"home", "page"} /\ UNCHANGED lately
  /\ place' = p /\ newMessage' = FALSE
  /\ recent' = IF p = place THEN recent ELSE lately[route]
  /\ Within /\ UNCHANGED <<searching, posting, moves, foreign>>

\* The rail, the history of the header, the directory, the way back.
Visit(p) ==
  /\ route # None
  /\ p \in {"page"} \cup Proper(route) \cup {recent[i]: i \in DOMAIN recent}
          \cup {c \in Convs: ready /\ HomeOf[c] = store}
  /\ Within /\ Show(p) /\ UNCHANGED <<searching, posting, moves, foreign>>

\* A thread, a saved message or a notification, of any workspace: the page of
\* threads stays in the workspace of the path, the others go to the active one.
FollowLink(w, c) ==
  /\ route # None /\ w \in {route, active} \ {None} /\ moves < MaxMoves
  /\ IF w = route THEN Within /\ Show(c) /\ moves' = moves + 1 /\ UNCHANGED searching
     ELSE Enter(w, c)
  /\ foreign' = foreign \cup Stray(w, c) /\ UNCHANGED posting

\* The rail's Home: the last conversation of the active workspace.
Home ==
  /\ route # None /\ active # None /\ last[active] # None
  /\ IF active = route
     THEN Within /\ Show(last[active]) /\ UNCHANGED <<searching, moves>>
     ELSE Enter(active, last[active])
  /\ UNCHANGED <<posting, foreign>>

\* Nothing to go back to: the list of workspaces.
HomeNowhere == (IF active = None THEN TRUE ELSE last[active] = None) /\ LeaveAll

\* The search field waits 350 ms, wherever the user goes meanwhile.
TypeSearch ==
  /\ route # None /\ ~searching /\ searching' = TRUE
  /\ UNCHANGED <<tab, lately, menus, posting, moves, opened, confused, foreign>>
SearchNavigates ==
  /\ searching /\ searching' = FALSE
  /\ IF route = None THEN UNCHANGED <<place, recent, newMessage>> ELSE UNCHANGED lately /\ Show("page")
  /\ Within /\ UNCHANGED <<posting, moves, foreign>>

OpenNewMessage ==
  /\ ready /\ newMessage' = TRUE
  /\ UNCHANGED <<route, place, ready, boots, store, selected, active, last, recent,
                 lately, searching, menus, posting, moves, opened, confused, foreign>>
CloseNewMessage ==
  /\ newMessage /\ newMessage' = FALSE
  /\ UNCHANGED <<route, place, ready, boots, store, selected, active, last, recent,
                 lately, searching, menus, posting, moves, opened, confused, foreign>>

\* The new message is uploaded, then its conversation selected, then it is sent and
\* shown, wherever the user went meanwhile.
Post(c) ==
  /\ ready /\ newMessage /\ posting = None /\ HomeOf[c] = store
  /\ posting' = [ws |-> route, to |-> c, chosen |-> FALSE]
  /\ UNCHANGED <<tab, lately, searching, menus, moves, opened, confused, foreign>>
PostUploaded ==
  /\ posting # None /\ ~posting.chosen /\ posting' = [posting EXCEPT !.chosen = TRUE]
  /\ Select(posting.to) /\ foreign' = foreign \cup Stray(store, posting.to)
  /\ UNCHANGED <<route, place, ready, boots, store, active, lately, recent, newMessage,
                 searching, menus, moves, opened, confused>>
PostSent ==
  /\ posting # None /\ posting.chosen /\ posting' = None
  /\ IF posting.ws # route THEN Enter(posting.ws, posting.to)
     ELSE /\ Within /\ UNCHANGED <<searching, moves>>
          /\ place' = posting.to /\ newMessage' = FALSE
          /\ recent' = IF posting.to = place THEN recent ELSE lately[route]
  /\ UNCHANGED foreign
PostFailed ==
  /\ posting # None /\ posting' = None
  /\ UNCHANGED <<tab, lately, searching, menus, moves, opened, confused, foreign>>

\* Another tab enters a workspace, or signs out of it.
OtherTab(w) ==
  /\ active' = w /\ active # w
  /\ UNCHANGED <<route, place, ready, boots, store, selected, last, lately, recent,
                 newMessage, searching, menus, posting, moves, opened, confused, foreign>>

-----------------------------------------------------------------------------
(* The popovers of the rail share one reference to a timeout: starting one  *)
(* forgets the one before, entering a popover stops the one remembered.     *)

Start(m, which) == [m EXCEPT !.timers = @ \cup {which}, !.current = which]
Stop(m) == [m EXCEPT !.timers = @ \ {m.current}]

Hover ==
  /\ route # None
  /\ \/ menus' = [menus EXCEPT !.activity = TRUE]
     \/ menus' = Start(menus, "activity")
     \/ menus' = Stop(menus)
     \/ menus' = [Stop(menus) EXCEPT !.more = TRUE]
     \/ ~menus.pinned /\ menus' = Start(menus, "more")
     \/ menus' = [menus EXCEPT !.pinned = ~menus.pinned, !.more = ~menus.pinned]
     \/ menus' = [menus EXCEPT !.pinned = FALSE, !.more = FALSE]
     \/ menus.more /\ menus' = [menus EXCEPT !.pinned = FALSE, !.more = FALSE]
     \/ \E t \in menus.timers:
          menus' = IF t = "more" THEN [menus EXCEPT !.timers = @ \ {t}, !.more = FALSE]
                   ELSE [menus EXCEPT !.timers = @ \ {t}, !.activity = FALSE]
  /\ UNCHANGED <<tab, lately, searching, posting, moves, opened, confused, foreign>>

Next ==
  \/ \E w \in Workspaces: \E p \in Places: EnterProperly(w, p) \/ Load(w, p)
  \/ Load(None, "page") \/ LeaveAll \/ HomeNowhere \/ Home
  \/ ClosePanel \/ FollowRoute \/ Reselect
  \/ \E w \in Workspaces: \E c \in Convs: FollowLink(w, c)
  \/ \E b \in boots: BootAnswered(b) \/ \E unknown \in BOOLEAN: BootFailed(b, unknown)
  \/ \E c \in Convs: OpenConversation(c)
  \/ \E p \in Places: Shortcut(p) \/ Visit(p)
  \/ TypeSearch \/ SearchNavigates \/ OpenNewMessage \/ CloseNewMessage
  \/ (\E c \in Convs: Post(c)) \/ PostUploaded \/ PostSent \/ PostFailed
  \/ \E w \in Workspaces \cup {None}: OtherTab(w)
  \/ Hover

Spec == Init /\ [][Next]_vars

-----------------------------------------------------------------------------
\* The state of the provider, of the store and of localStorage
\* (WorkspaceChatProvider.tsx, chat/utils/store.ts).
TypeOK ==
  /\ route \in Workspaces \cup {None} /\ place \in Places
  /\ ready \in BOOLEAN /\ boots \subseteq [ws: Workspaces, mine: BOOLEAN]
  /\ store \in Workspaces \cup {None} /\ selected \in Convs \cup {None}
  /\ active \in Workspaces \cup {None} /\ last \in [Workspaces -> Convs \cup {None}]
  /\ lately \in [Workspaces -> Seq(Convs)] /\ recent \in Seq(Convs)
  /\ \A w \in Workspaces: \A i, j \in DOMAIN lately[w]: lately[w][i] = lately[w][j] => i = j
  /\ newMessage \in BOOLEAN /\ searching \in BOOLEAN /\ confused \in BOOLEAN
  /\ posting \in {None} \cup [ws: Workspaces, to: Convs, chosen: BOOLEAN]
  /\ foreign \subseteq Workspaces \X Convs

\* While no boot fails and no two run at once, a workspace that is shown is the
\* one the store holds, and one is remembered by a conversation of another only
\* where that was opened in it: by a link or an address that names no workspace
\* but its own (threads/page.tsx, saved/page.tsx), or by a toast or a new message
\* that selected it in the store of another (use-realtime-connection.ts,
\* new-message-composer.tsx).  Boots at once: the last to answer fills the store
\* of the tab (WorkspaceChatProvider.tsx, cancelled guards only workspaceReady).
BootAgrees ==
  ~confused =>
    /\ (ready /\ route # None) => store = route
    /\ \A w \in Workspaces:
         last[w] # None => HomeOf[last[w]] = w \/ <<w, last[w]>> \in foreign

\* The history of a workspace holds the conversations opened last, each once,
\* the latest first (WorkspaceConversationSidebar.tsx, openConversation).
HistoryIsRecent ==
  \A w \in Workspaces:
    LET Latest(i) == ~\E j \in DOMAIN opened[w]: j > i /\ opened[w][j] = opened[w][i]
        distinct == {i \in DOMAIN opened[w]: Latest(i)}
        After(i) == Cardinality({j \in distinct: j > i})
    IN /\ {lately[w][p]: p \in DOMAIN lately[w]} = {opened[w][i]: i \in {k \in distinct: After(k) < HistorySize}}
       /\ \A i \in distinct: After(i) < HistorySize => lately[w][After(i) + 1] = opened[w][i]
=============================================================================
