----------------------------- MODULE PageLayout -----------------------------
(***************************************************************************)
(* The frame around every page of apps/web: the rail (components/ui/       *)
(* sidebar.tsx, whose state is a cookie that app-shell.tsx reads when the  *)
(* page is served), the infobar (components/ui/infobar.tsx) and the list   *)
(* of conversations, a panel whose width WorkspaceShell.tsx keeps in       *)
(* localStorage.  Each has one state for a wide window and another for a   *)
(* phone, where a sheet takes its place, and the window may be resized at  *)
(* any moment; cookie and localStorage are shared with the other tabs.     *)
(*                                                                         *)
(* No page gives the infobar a content (info-button.tsx is not used), so   *)
(* the effect that closes it with a content's page never runs.             *)
(***************************************************************************)
EXTENDS Naturals

CONSTANTS
  Widths,        \* widths of the list, in percent, 0 when it is collapsed
  DefaultWidth   \* 24 in the code

LayoutAssumption == 0 \in Widths /\ Widths \subseteq {0} \cup 18..35 /\ DefaultWidth \in Widths \ {0}

VARIABLES
  window,      \* "phone" (below 768px), "tablet", or "desktop" (from 1024px)
  rail,        \* open, and openMobile for the sheet of a phone
  cookie,      \* sidebar_state, FALSE also where it is missing
  info,        \* the same of the infobar
  list,        \* chatListWidth, and the panel on screen
  saved,       \* its width in localStorage, 0 also where it is missing
  storage,     \* whether localStorage can be written
  mobileOpen,  \* the sheet of conversations of a narrow window
  wished,      \* history: whether the user last asked for the infobar
  elsewhere    \* history: what other tabs wrote since this one read it

vars == <<window, rail, cookie, info, list, saved, storage, mobileOpen, wished, elsewhere>>

Windows == {"phone", "tablet", "desktop"}
IsMobile(w) == w = "phone"

-----------------------------------------------------------------------------
(* Serving the page and the first effects: what is stored is read once. *)

Panel(width, w) == IF w = "desktop" THEN width ELSE 0

\* A width below the minimum, as that of a collapsed list, is not taken over.
StoredWidth == IF saved = 0 THEN DefaultWidth ELSE saved

Load ==
  /\ rail' = [open |-> cookie, sheet |-> FALSE]
  /\ info' = [open |-> FALSE, sheet |-> FALSE]
  /\ list' = [width |-> StoredWidth, panel |-> Panel(StoredWidth, window)]
  /\ mobileOpen' = FALSE
  /\ wished' = FALSE /\ elsewhere' = {}

Init ==
  /\ window \in Windows /\ storage \in BOOLEAN
  /\ cookie = FALSE /\ saved = 0
  /\ rail = [open |-> FALSE, sheet |-> FALSE]
  /\ info = [open |-> FALSE, sheet |-> FALSE]
  /\ list = [width |-> DefaultWidth, panel |-> Panel(DefaultWidth, window)]
  /\ mobileOpen = FALSE /\ wished = FALSE /\ elsewhere = {}

Reload == Load /\ UNCHANGED <<window, cookie, saved, storage>>

-----------------------------------------------------------------------------
(* Resizing the window. *)

\* The infobar is handed over when the breakpoint of a phone is crossed.
Reconcile(w) ==
  IF IsMobile(w) = IsMobile(window) THEN UNCHANGED info
  ELSE info' = IF IsMobile(w) THEN [info EXCEPT !.sheet = info.open]
                              ELSE [info EXCEPT !.open = info.sheet]

\* The panels are mounted anew on the other side of the breakpoint of a desktop.
Resize(w) ==
  /\ w # window
  /\ window' = w
  /\ Reconcile(w)
  /\ list' = [list EXCEPT !.panel =
                IF (w = "desktop") = (window = "desktop") THEN @ ELSE Panel(list.width, w)]
  /\ UNCHANGED <<rail, cookie, saved, storage, mobileOpen, wished, elsewhere>>

-----------------------------------------------------------------------------
(* The rail. *)

\* toggleSidebar, from the trigger, the rail and Ctrl+B.  The rail of this
\* application is not collapsible: neither state changes what is on screen.
ToggleSidebar ==
  /\ IF IsMobile(window)
     THEN rail' = [rail EXCEPT !.sheet = ~@] /\ UNCHANGED <<cookie, elsewhere>>
     ELSE /\ rail' = [rail EXCEPT !.open = ~@]
          /\ cookie' = ~rail.open
          /\ elsewhere' = elsewhere \ {"cookie"}
  /\ UNCHANGED <<window, info, list, saved, storage, mobileOpen, wished>>

-----------------------------------------------------------------------------
(* The infobar. *)

SetOpen(open) ==
  info' = [open |-> open, sheet |-> IF IsMobile(window) THEN open ELSE info.sheet]

\* toggleInfobar, from the trigger, the rail and the shortcut.
ToggleInfobar ==
  /\ SetOpen(~info.open)
  /\ wished' = ~wished
  /\ UNCHANGED <<window, rail, cookie, list, saved, storage, mobileOpen, elsewhere>>

\* The sheet of a phone is closed by its overlay or the Escape key.
CloseSheet ==
  /\ IsMobile(window) /\ info.sheet
  /\ SetOpen(FALSE)
  /\ wished' = FALSE
  /\ UNCHANGED <<window, rail, cookie, list, saved, storage, mobileOpen, elsewhere>>

-----------------------------------------------------------------------------
(* The list of conversations. *)

\* onLayoutChanged after a drag; there is no handle but on a desktop.
DragList(width) ==
  /\ window = "desktop" /\ width # list.panel
  /\ list' = [width |-> width, panel |-> width]
  /\ saved' = IF storage THEN width ELSE saved
  /\ elsewhere' = IF storage THEN elsewhere \ {"width"} ELSE elsewhere
  /\ UNCHANGED <<window, rail, cookie, info, storage, mobileOpen, wished>>

\* The menu button of a narrow window, and the ways out of its sheet; picking
\* a conversation is none of them.
OpenNavigation ==
  /\ window # "desktop" /\ ~mobileOpen
  /\ mobileOpen' = TRUE
  /\ UNCHANGED <<window, rail, cookie, info, list, saved, storage, wished, elsewhere>>

CloseNavigation ==
  /\ mobileOpen /\ mobileOpen' = FALSE
  /\ UNCHANGED <<window, rail, cookie, info, list, saved, storage, wished, elsewhere>>

-----------------------------------------------------------------------------
(* Another tab of the same browser. *)

OtherTab ==
  /\ \/ /\ \E open \in BOOLEAN: cookie' = open
        /\ elsewhere' = elsewhere \cup {"cookie"}
        /\ UNCHANGED saved
     \/ /\ storage /\ \E width \in Widths: saved' = width
        /\ elsewhere' = elsewhere \cup {"width"}
        /\ UNCHANGED cookie
  /\ UNCHANGED <<window, rail, info, list, storage, mobileOpen, wished>>

Next ==
  \/ \E w \in Windows: Resize(w)
  \/ Reload \/ OtherTab
  \/ ToggleSidebar \/ ToggleInfobar \/ CloseSheet
  \/ \E width \in Widths: DragList(width)
  \/ OpenNavigation \/ CloseNavigation

Spec == Init /\ [][Next]_vars

-----------------------------------------------------------------------------
(* Properties *)

TypeOK ==
  /\ window \in Windows /\ storage \in BOOLEAN
  /\ rail \in [open: BOOLEAN, sheet: BOOLEAN] /\ cookie \in BOOLEAN
  /\ info \in [open: BOOLEAN, sheet: BOOLEAN]
  /\ list \in [width: Widths, panel: Widths] /\ saved \in Widths
  /\ mobileOpen \in BOOLEAN /\ wished \in BOOLEAN /\ elsewhere \subseteq {"cookie", "width"}

\* However the window was resized in between, the infobar is on screen if and
\* only if the user last asked for it ("Preserve the current infobar state
\* when switching between mobile and desktop"); the list has the width it was
\* last given, which the next load finds again unless another tab changed it
\* or the list was collapsed; and the next load opens the rail as it is now.
LayoutKept ==
  /\ wished = IF IsMobile(window) THEN info.sheet ELSE info.open
  /\ list.panel = Panel(list.width, window)
  /\ storage /\ "width" \notin elsewhere => StoredWidth = list.width \/ list.width = 0
  /\ "cookie" \notin elsewhere => rail.open = cookie
=============================================================================
