---------------------------- MODULE ActivityPages ----------------------------
(***************************************************************************)
(* The pages that list what happened and lead to it: the activity page     *)
(* (activity/page.tsx), the threads page (threads/page.tsx) and the page   *)
(* of notifications (notifications-page.tsx).  They sort the notifications *)
(* of the store by words of their titles, which the server and the client  *)
(* choose differently, and each visit lists the threads once.  How the     *)
(* store gets and loses notifications is in Notifications.                 *)
(***************************************************************************)
EXTENDS Naturals, FiniteSets

CONSTANTS
  Channels, DMs,
  Nowhere,     \* no route was taken
  MaxVisits,   \* bound: visits of a page
  MaxItems     \* bound: notifications in the store

ActivityAssumption ==
  Channels \cap DMs = {} /\ Nowhere \notin Channels \cup DMs /\ MaxVisits \in Nat /\ MaxItems \in Nat

Convs == Channels \cup DMs

VARIABLES
  items,       \* the notifications of the store
  threads,     \* the server: conversations in which the user follows a thread
  page,        \* "activity", "threads" or "notifications"
  visit,       \* how often a page was opened
  listings,    \* listThreads calls: [visit, done, reply]
  listed,      \* threads of the page, and whether their listing has ended
  tab, unreadOnly, query,
  route,       \* where the last click led: [to, at], at "dms", "channels" or "home"
  opened       \* history: what it was made on: [conv, by]

vars == <<items, threads, page, visit, listings, listed, tab, unreadOnly, query, route, opened>>
filters == <<tab, unreadOnly, query>>

Pages == {"activity", "threads", "notifications"}
Tabs == [activity |-> {"all", "dms", "channels", "threads"}, threads |-> {"all"},
         notifications |-> {"all", "unread", "read"}]

-----------------------------------------------------------------------------
(* A notification is about a message, a reply or a reaction, and was made  *)
(* by the server or from a realtime event.                                 *)

Items == [conv: Convs, about: {"message", "reply", "reaction"}, by: {"server", "client"}, read: BOOLEAN]

\* "New direct message", "New message in a channel", "New message" if it comes
\* from an event, "New thread reply", "New reaction".
SaysDirect(n) == n.about = "message" /\ n.by = "server" /\ n.conv \in DMs
SaysThread(n) == n.about = "reply"

\* The notification of a message made from an event names no conversation.
EntityOf(n) == IF n.about = "message" /\ n.by = "client" THEN Nowhere ELSE n.conv

\* The server tells of replies in channels and of no reaction; only its rows
\* may be read already.
Real(n) ==
  IF n.by = "client" THEN ~n.read
  ELSE n.about = "message" \/ (n.about = "reply" /\ n.conv \in Channels)

Init ==
  /\ items = {} /\ threads = {}
  /\ page = "notifications" /\ visit = 0
  /\ listings = {} /\ listed = [threads |-> {}, ended |-> FALSE]
  /\ tab = "all" /\ unreadOnly = FALSE /\ query = Convs
  /\ route = [to |-> Nowhere, at |-> "home"] /\ opened = [conv |-> Nowhere, by |-> "client"]

-----------------------------------------------------------------------------
(* What is on screen. *)

InTab(n) ==
  CASE tab = "dms" -> SaysDirect(n)
    [] tab = "channels" -> ~SaysDirect(n) /\ ~SaysThread(n)
    [] tab = "unread" -> ~n.read
    [] tab = "read" -> n.read
    [] OTHER -> TRUE

FilteredNotifications ==
  IF page = "threads" THEN {}
  ELSE {n \in items: InTab(n) /\ (unreadOnly => ~n.read) /\ n.conv \in query}

ThreadRows ==
  IF page = "threads" \/ tab = "threads" \/ (page = "activity" /\ tab = "all") THEN listed.threads ELSE {}

HasItems == IF tab = "threads" THEN listed.threads # {}
            ELSE FilteredNotifications # {} \/ (tab = "all" /\ listed.threads # {})

\* "All caught up", "No notifications", or "No threads yet".
SaysNothingThere ==
  IF page = "threads" THEN listed.ended /\ listed.threads = {}
  ELSE IF page = "activity" THEN ~HasItems ELSE FilteredNotifications = {}

-----------------------------------------------------------------------------
(* The user. *)

\* A visit starts with the first tab and lists the threads.
Visit(p) ==
  /\ visit < MaxVisits /\ visit' = visit + 1
  /\ page' = p /\ tab' = "all" /\ unreadOnly' = FALSE /\ query' = Convs
  /\ listed' = [threads |-> {}, ended |-> FALSE]
  /\ listings' = listings \cup
       (IF p = "notifications" THEN {} ELSE {[visit |-> visit + 1, done |-> FALSE, reply |-> {}]})
  /\ UNCHANGED <<items, threads, route, opened>>

SetTab(t) ==
  /\ tab' = t
  /\ UNCHANGED <<items, threads, page, visit, listings, listed, unreadOnly, query, route, opened>>

\* The switch and the search of the activity page, over titles and bodies.
SetFilter(unread, matching) ==
  /\ page = "activity"
  /\ unreadOnly' = unread /\ query' = matching
  /\ UNCHANGED <<items, threads, page, visit, listings, listed, tab, route, opened>>

\* Notifications about a DM are told by their title.
NotificationRoute(n) ==
  [to |-> EntityOf(n), at |-> IF EntityOf(n) = Nowhere THEN "home"
                              ELSE IF SaysDirect(n) THEN "dms" ELSE "channels"]

\* Opening one marks it read, which takes it off the list; without an entity
\* the activity page stays, and the other one leads home.
OpenNotification(n) ==
  /\ n \in FilteredNotifications /\ tab # "threads"
  /\ items' = items \ {n}
  /\ route' = IF page = "activity" /\ EntityOf(n) = Nowhere THEN route ELSE NotificationRoute(n)
  /\ opened' = [conv |-> n.conv, by |-> n.by]
  /\ UNCHANGED <<threads, page, visit, listings, listed, filters>>

OpenThread(c) ==
  /\ c \in ThreadRows
  /\ route' = [to |-> c, at |-> IF c \in DMs THEN "dms" ELSE "channels"]
  /\ opened' = [conv |-> c, by |-> "server"]
  /\ UNCHANGED <<items, threads, page, visit, listings, listed, filters>>

-----------------------------------------------------------------------------
(* The store, the server and the listing. *)

SetItems(S) ==
  /\ Cardinality(S) <= MaxItems /\ items' = S
  /\ UNCHANGED <<threads, page, visit, listings, listed, filters, route, opened>>

Follow(c) ==
  /\ threads' = threads \cup {c}
  /\ UNCHANGED <<items, page, visit, listings, listed, filters, route, opened>>

Serve(l) ==
  /\ ~l.done
  /\ listings' = (listings \ {l}) \cup {[l EXCEPT !.done = TRUE, !.reply = threads]}
  /\ UNCHANGED <<items, threads, page, visit, listed, filters, route, opened>>

\* The answer, or the failure, of a visit that is over is not shown.
Listed(l, ok) ==
  /\ ok => l.done
  /\ listings' = listings \ {l}
  /\ listed' = IF l.visit = visit THEN [threads |-> IF ok THEN l.reply ELSE {}, ended |-> TRUE]
               ELSE listed
  /\ UNCHANGED <<items, threads, page, visit, filters, route, opened>>

Next ==
  \/ \E p \in Pages: Visit(p)
  \/ \E t \in Tabs[page]: SetTab(t)
  \/ \E unread \in BOOLEAN, matching \in SUBSET Convs: SetFilter(unread, matching)
  \/ \E n \in items: OpenNotification(n)
  \/ \E c \in Convs: OpenThread(c) \/ Follow(c)
  \/ \E n \in {m \in Items: Real(m)}: SetItems(items \cup {n}) \/ SetItems(items \ {n})
  \/ \E l \in listings: Serve(l) \/ \E ok \in BOOLEAN: Listed(l, ok)

Spec == Init /\ [][Next]_vars

-----------------------------------------------------------------------------
(* Properties *)

TypeOK ==
  /\ items \subseteq Items /\ threads \subseteq Convs
  /\ page \in Pages /\ visit \in 0..MaxVisits
  /\ listings \subseteq [visit: 1..MaxVisits, done: BOOLEAN, reply: SUBSET Convs]
  /\ listed \in [threads: SUBSET Convs, ended: BOOLEAN]
  /\ tab \in Tabs[page] /\ unreadOnly \in BOOLEAN /\ query \subseteq Convs
  /\ route \in [to: Convs \cup {Nowhere}, at: {"dms", "channels", "home"}]
  /\ opened \in [conv: Convs \cup {Nowhere}, by: {"server", "client"}]

\* However notifications and listings come and go: what the server listed
\* leads to the conversation it is about, at the address of its kind; threads
\* shown are followed ones; and a page that has an unread notification and
\* whose filters leave everything never says that there is nothing new.
ActivityAgrees ==
  /\ opened.by = "server" =>
       route = [to |-> opened.conv, at |-> IF opened.conv \in DMs THEN "dms" ELSE "channels"]
  /\ ThreadRows \subseteq threads
  /\ (\E n \in items: ~n.read) /\ tab = "all" /\ query = Convs /\ page # "threads" =>
       ~SaysNothingThere
=============================================================================
