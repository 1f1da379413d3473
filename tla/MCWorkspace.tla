----------------------------- MODULE MCWorkspace -----------------------------
(***************************************************************************)
(* The search, the notifications, the media, the pages of the workspace    *)
(* and what leads to them.  They share no variable, so each is explored by *)
(* itself, the others keeping their initial state; focus names the part    *)
(* and what of it is explored together.                                    *)
(***************************************************************************)
EXTENDS Naturals, Sequences, FiniteSets

CONSTANTS
  Events, Sources, ConvOf, Replies, ReadCalls,                     \* Notifications
  Files, Buttons, FileOf, PanelSize, Pictures, MaxZoom, MaxDownloads, MediaChanges,  \* MediaViewer
  Workspaces, Rooms, HomeOf, HistorySize, MaxBoots, MaxMoves,      \* WorkspaceBoot; Rooms: conversations
  Scopes, PagesOf, SearchChanges,                                  \* MessageSearch
  Photos, Names, UserName, Presences, Cards, Kinds, ProfileCalls,  \* ProfileSettings, and names for WorkspaceHub
  Messages, Conversations, Members, ListCalls,                     \* WorkspaceLists
  TopAttempt, HubCalls,                                            \* WorkspaceHub
  Widths, DefaultWidth,                                            \* PageLayout
  Columns, Tasks,                                                  \* Kanban
  Channels, DMs, MaxVisits, MaxItems,                              \* ConversationList, ActivityPages
  a, b, c, none, v, w, f, g, x, y, z                               \* what these are of, for TLC

\* for TLC
EventConv == [e \in {x, y} |-> IF e = x THEN a ELSE b]
ButtonFile == [p \in {x, y, z} |-> IF p = z THEN g ELSE f]
ConvHome == [d \in {a, b, c} |-> IF d = c THEN v ELSE w]
ScopePages == [p \in {x, y} |-> IF p = x THEN 3 ELSE 1]

VARIABLE focus

VARIABLES place, scope, round, first, results, cursor, hasMore, searchError, more, tab,
          opening, stray
searchVars == <<place, scope, round, first, results, cursor, hasMore, searchError, more, tab,
                opening, stray>>
S == INSTANCE MessageSearch WITH NoScope <- none, MaxChanges <- SearchChanges

VARIABLES profile, prefs, cache, page, form, fieldEdited, shownPrefs, session, profileCalls,
          crossed
profileVars == <<profile, prefs, cache, page, form, fieldEdited, shownPrefs, session,
                 profileCalls, crossed>>
P == INSTANCE ProfileSettings WITH NoPhoto <- none, NoName <- none, Unknown <- none,
       MaxCalls <- ProfileCalls, editing <- fieldEdited, asked <- profileCalls

VARIABLES rows, pushed, known, list, posts, notified, missed, returned
notificationVars == <<rows, pushed, known, list, posts, notified, missed, returned>>
N == INSTANCE Notifications WITH Convs <- Sources, NoEvent <- none, MaxCalls <- ReadCalls,
       selected <- notified

VARIABLES button, orphans, downloads, hidden, hideTimers, remembered, clicks, gallery, preview,
          filesDialog
mediaVars == <<button, orphans, downloads, hidden, hideTimers, remembered, clicks, gallery,
               preview, filesDialog>>
M == INSTANCE MediaViewer WITH Items <- Pictures, MaxChanges <- MediaChanges, panel <- downloads,
       timers <- hideTimers, dialog <- filesDialog

VARIABLES route, shown, ready, boots, store, selected, active, last, lately, recent,
          newMessage, searching, menus, posting, entered, opened, confused, foreign
bootVars == <<route, shown, ready, boots, store, selected, active, last, lately, recent,
              newMessage, searching, menus, posting, entered, opened, confused, foreign>>
B == INSTANCE WorkspaceBoot WITH Convs <- Rooms, None <- none, place <- shown, moves <- entered

VARIABLES stored, calls, made, later, starred, roster, doubted
listVars == <<stored, calls, made, later, starred, roster, doubted>>
L == INSTANCE WorkspaceLists WITH None <- none, MaxCalls <- ListCalls, server <- stored, confused <- doubted

VARIABLES doorway, signedIn, invite, mode, taken, requests, sent, dialog, typed, busy, hub,
          chosen, lost
hubVars == <<doorway, signedIn, invite, mode, taken, requests, sent, dialog, typed, busy, hub,
             chosen, lost>>
U == INSTANCE WorkspaceHub WITH None <- none, MaxCalls <- HubCalls,
       page <- doorway, session <- signedIn, server <- taken, calls <- requests, made <- sent,
       active <- chosen

VARIABLES window, rail, cookie, info, columns, saved, storage, mobileOpen, wished, elsewhere
layoutVars == <<window, rail, cookie, info, columns, saved, storage, mobileOpen, wished,
                elsewhere>>
Y == INSTANCE PageLayout WITH list <- columns

VARIABLES board, activeId, lifted, over, lastOver, hasMoved, said, before
boardVars == <<board, activeId, lifted, over, lastOver, hasMoved, said, before>>
K == INSTANCE Kanban WITH Items <- Tasks, None <- none

VARIABLES present, unread, picked, dmOnly, found, unreadsOnly, open, hint, stars,
          starsLoaded, row
sidebarVars == <<present, unread, picked, dmOnly, found, unreadsOnly, open, hint, stars,
                 starsLoaded, row>>
C == INSTANCE ConversationList WITH None <- none, selected <- picked, starred <- stars, chosen <- row

VARIABLES items, threads, where, visit, listings, listed, topTab, unreadOnly, query, led, clicked
activityVars == <<items, threads, where, visit, listings, listed, topTab, unreadOnly, query,
                  led, clicked>>
A == INSTANCE ActivityPages WITH Nowhere <- none, page <- where, tab <- topTab, route <- led, opened <- clicked

ASSUME PageConstants ==
  /\ N!NotificationsAssumption /\ M!MediaAssumption /\ B!BootAssumption
  /\ Y!LayoutAssumption /\ K!KanbanAssumption /\ C!ListAssumption /\ A!ActivityAssumption
  /\ S!SearchAssumption /\ P!ProfileAssumption /\ L!ListsAssumption /\ U!HubAssumption

-----------------------------------------------------------------------------
(* The foci. *)

Focus(part, topic) == [part |-> part, topic |-> topic]

Foci ==
  {Focus("search", ""), Focus("notifications", ""),
   Focus("profile", "photo"), Focus("profile", "name"), Focus("profile", "presence"),
   Focus("profile", "prefs"),
   Focus("media", "downloads"), Focus("media", "gallery"), Focus("media", "files"),
   Focus("boot", "routes"), Focus("boot", "links"), Focus("boot", "posting"), Focus("boot", "menus"),
   Focus("lists", "saved"), Focus("lists", "starred"), Focus("lists", "roles"),
   Focus("hub", ""), Focus("layout", ""), Focus("board", ""), Focus("sidebar", ""),
   Focus("activity", "notifications"), Focus("activity", "threads")}

ProfileWithin ==
  /\ \A p \in profileCalls': p.op \in {"load", "loadPrefs", focus.topic}
                                    \cup (IF focus.topic = "prefs" THEN {"logout"} ELSE {})
  /\ focus.topic = "name" \/ fieldEdited' = fieldEdited

MediaWithin ==
  /\ focus.topic = "downloads" \/ (button' = button /\ hidden' = hidden)
  /\ focus.topic = "gallery" \/ (gallery' = gallery /\ preview' = preview)
  /\ focus.topic = "files" \/ filesDialog' = filesDialog

\* The menus of the rail do not depend on the routes.
BootWithin ==
  /\ focus.topic = "menus" \/ menus' = menus
  /\ focus.topic = "routes" => posting' = none /\ foreign' = {}
  /\ focus.topic = "links" => posting' = none /\ ~searching' /\ ~newMessage'
  /\ focus.topic = "posting" => ~searching' /\ entered' <= 2
  /\ focus.topic = "menus" =>
       /\ entered' <= 1 /\ active' \in {none, w} /\ selected' = none
       /\ ~searching' /\ ~newMessage' /\ foreign' = {}

ListsWithin ==
  /\ \A p \in calls': L!ListOf(p.op) = focus.topic
  /\ focus.topic = "saved" \/ later'.tab = later.tab

\* The filters do not touch the threads that are listed.
ActivityWithin ==
  IF focus.topic = "threads" THEN items' = {} /\ query' = A!Convs /\ ~unreadOnly'
  ELSE threads' = {} /\ visit' <= 1

-----------------------------------------------------------------------------

AllVars == <<focus, searchVars, profileVars, notificationVars, mediaVars, bootVars,
             listVars, hubVars, layoutVars, boardVars, sidebarVars, activityVars>>

Init ==
  /\ focus \in Foci
  /\ S!Init /\ P!Init /\ N!Init /\ M!Init /\ B!Init /\ L!Init /\ U!Init
  /\ Y!Init /\ K!Init /\ C!Init /\ A!Init
  \* what another part, or topic, started from does not matter
  /\ focus.part # "search" => place = "area"
  /\ focus.topic # "saved" => stored.saved = {}
  /\ focus.topic # "roles" => stored.roles = [u \in Members |-> "MEMBER"]
  /\ focus.part # "layout" => window = "phone" /\ storage
  /\ focus.part # "board" => board = CHOOSE s \in K!Boards: TRUE
  /\ focus.part # "hub" => doorway = "home" /\ signedIn /\ taken.slugs = {}

Next ==
  /\ UNCHANGED focus
  /\ IF focus.part = "search" THEN S!Next ELSE UNCHANGED searchVars
  /\ IF focus.part = "profile" THEN P!Next /\ ProfileWithin ELSE UNCHANGED profileVars
  /\ IF focus.part = "notifications" THEN N!Next ELSE UNCHANGED notificationVars
  /\ IF focus.part = "media" THEN M!Next /\ MediaWithin ELSE UNCHANGED mediaVars
  /\ IF focus.part = "boot" THEN B!Next /\ BootWithin ELSE UNCHANGED bootVars
  /\ IF focus.part = "lists" THEN L!Next /\ ListsWithin ELSE UNCHANGED listVars
  /\ IF focus.part = "hub" THEN U!Next ELSE UNCHANGED hubVars
  /\ IF focus.part = "layout" THEN Y!Next ELSE UNCHANGED layoutVars
  /\ IF focus.part = "board" THEN K!Next ELSE UNCHANGED boardVars
  /\ IF focus.part = "sidebar" THEN C!Next ELSE UNCHANGED sidebarVars
  /\ IF focus.part = "activity" THEN A!Next /\ ActivityWithin ELSE UNCHANGED activityVars

Spec == Init /\ [][Next]_AllVars

-----------------------------------------------------------------------------
(* The properties, each stated in the module of its part, with its types,   *)
(* and of the part in focus: the others stay as they began.                 *)

\* Notifications: with nothing under way, the list has the unread rows.
NotificationsAgree == focus.part = "notifications" => N!TypeOK /\ N!NotificationsAgree
\* MediaViewer: a download the panel shows is running or about to be taken off.
DownloadsLeave == focus.part = "media" => M!TypeOK /\ M!DownloadsLeave
\* WorkspaceBoot: a ready tab shows the conversations of the workspace it is in.
TabAgrees == focus.part = "boot" => B!TypeOK /\ B!BootAgrees
\* What a page shows, once its calls were answered, is what the server has:
\* the profile and its settings, the lists of saved messages, of stars and of
\* roles, the hub, the results of a search, the files, the activity; and the
\* conversations opened lately, the frame of the pages, the rows of the sidebar
\* and a board are what the user made of them.
PagesAgree ==
  /\ focus.part = "profile" => P!TypeOK /\ P!ProfileAgrees
  /\ focus.part = "lists" => L!TypeOK /\ L!ListsAgree
  /\ focus.part = "hub" => U!TypeOK /\ U!HubAgrees /\ U!BusyEnds
  /\ focus.part = "search" => S!TypeOK /\ S!SearchIsCurrent
  /\ focus.part = "media" => M!FilesAreCurrent
  /\ focus.part = "activity" => A!TypeOK /\ A!ActivityAgrees
  /\ focus.part = "boot" => B!HistoryIsRecent
  /\ focus.part = "layout" => Y!TypeOK /\ Y!LayoutKept
  /\ focus.part = "sidebar" => C!TypeOK /\ C!RowsAgree
  /\ focus.part = "board" => K!TypeOK /\ K!BoardKept
=============================================================================
