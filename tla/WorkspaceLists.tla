---------------------------- MODULE WorkspaceLists ----------------------------
(***************************************************************************)
(* Lists of the server that the client shows and edits in three ways.  The *)
(* saved messages (saved/page.tsx) change at once and are listed again if  *)
(* the call fails.  The starred conversations (conversation-list.tsx) are  *)
(* listed again after every call.  The members of the workspace            *)
(* (admin/page.tsx) change by what each call answers.  No call waits for   *)
(* another, so listings and answers may come in any order.                 *)
(***************************************************************************)
EXTENDS Naturals, FiniteSets

CONSTANTS
  Messages,       \* messages that may be saved
  Conversations,  \* conversations that may be starred
  Members,        \* other members of the workspace
  None,           \* null
  MaxCalls        \* bound: calls ever made

Roles == {"OWNER", "ADMIN", "MEMBER"}

ListsAssumption == MaxCalls \in Nat /\ None \notin Messages \cup Members \cup Roles

Shelves == {"in-progress", "archived", "completed"}

VARIABLES
  server,     \* [saved, starred, roles]: roles gives "gone" to who left
  calls,      \* calls in flight: [op, of, arg, n, alone, done, answer]
  made,       \* history: calls made
  later,      \* the saved page: [items, removing, shelf, tab]
  starred,    \* starredConversations
  roster,     \* the admin page: [open, mine, roles, busy, link, creating]
  confused    \* history: lists an answer may have left behind the server

vars == <<server, calls, made, later, starred, roster, confused>>

Init ==
  /\ server \in [saved: SUBSET Messages, starred: {{}},
                 roles: [Members -> {"MEMBER", "ADMIN"}]]
  /\ calls = {} /\ made = 0
  /\ later = [items |-> {}, removing |-> None, shelf |-> [m \in Messages |-> "in-progress"],
              tab |-> "in-progress"]
  /\ starred = {}
  /\ roster = [open |-> FALSE, mine |-> None, roles |-> [u \in Members |-> "gone"], busy |-> None,
               link |-> FALSE, creating |-> FALSE]
  /\ confused = {"saved", "starred", "roles"}

-----------------------------------------------------------------------------
(* Calls. *)

ListOf(op) ==
  CASE op \in {"listSaved", "unsave", "unsaveLeft", "relistSaved"} -> "saved"
    [] op \in {"listStars", "star", "unstar", "relistStars"} -> "starred"
    [] OTHER -> "roles"

\* Writes a list may miss, or bring back: those of the same list, of the same
\* member on the admin page.
Overlaps(op, of) ==
  \E c \in calls: ListOf(c.op) = ListOf(op) /\ (ListOf(op) # "roles" \/ c.of = of)

Call(op, of, arg) == [op |-> op, of |-> of, arg |-> arg, n |-> made, alone |-> ~Overlaps(op, of),
                      done |-> FALSE, answer |-> None]
Post(op, of, arg) ==
  /\ made < MaxCalls /\ made' = made + 1
  /\ calls' = calls \cup {Call(op, of, arg)}
  /\ confused' = IF Overlaps(op, of) THEN confused \cup {ListOf(op)} ELSE confused

\* An answer of call c is followed by another call at once.
Follow(c, op) ==
  /\ made' = made
  /\ calls' = (calls \ {c}) \cup {[c EXCEPT !.op = op, !.done = FALSE, !.answer = None]}
Drop(c) == calls' = calls \ {c} /\ made' = made

\* A listing with no other call of its list beside it puts the list right.
Settled(c, ok) ==
  IF ~ok THEN confused \cup {ListOf(c.op)}
  ELSE IF c.alone /\ c.n = made - 1 THEN confused \ {ListOf(c.op)} ELSE confused

Served(op, of, arg) ==
  CASE op \in {"unsave", "unsaveLeft"} -> [server EXCEPT !.saved = @ \ {of}]
    [] op = "star" -> [server EXCEPT !.starred = @ \cup {of}]
    [] op = "unstar" -> [server EXCEPT !.starred = @ \ {of}]
    [] op = "role" -> [server EXCEPT !.roles[of] = IF @ = "gone" THEN @ ELSE arg]
    [] op = "remove" -> [server EXCEPT !.roles[of] = "gone"]
    [] OTHER -> server

Serve(c) ==
  /\ ~c.done
  /\ server' = Served(c.op, c.of, c.arg)
  /\ calls' = (calls \ {c}) \cup
       {[c EXCEPT !.done = TRUE,
                  !.answer = CASE c.op \in {"listSaved", "relistSaved"} -> server.saved
                               [] c.op \in {"listStars", "relistStars"} -> server.starred
                               [] c.op = "members" -> server.roles
                               [] OTHER -> None]}
  /\ UNCHANGED <<made, later, starred, roster, confused>>

-----------------------------------------------------------------------------
(* The saved messages. *)

\* The page opens.  Of the page that was open before only the writes go on.
Left(c) == IF c.op = "unsave" THEN [c EXCEPT !.op = "unsaveLeft"] ELSE c

OpenSaved ==
  /\ made < MaxCalls /\ made' = made + 1
  /\ calls' = {Left(c): c \in {d \in calls: d.op \notin {"listSaved", "relistSaved"}}}
               \cup {Call("listSaved", None, None)}
  /\ confused' = IF Overlaps("listSaved", None) THEN confused \cup {"saved"} ELSE confused
  /\ later' = [later EXCEPT !.items = {}, !.removing = None, !.tab = "in-progress"]
  /\ UNCHANGED <<server, starred, roster>>

\* A message moves between the shelves of the page, which only this browser knows.
MoveItem(m, shelf) ==
  /\ m \in later.items /\ later.shelf[m] = later.tab
  /\ (later.tab = "in-progress") # (shelf = "in-progress")
  /\ later' = [later EXCEPT !.shelf[m] = shelf]
  /\ UNCHANGED <<server, calls, made, starred, roster, confused>>
SetTab(tab) ==
  /\ later' = [later EXCEPT !.tab = tab]
  /\ UNCHANGED <<server, calls, made, starred, roster, confused>>

Unsave(m) ==
  /\ m \in later.items /\ later.shelf[m] = later.tab /\ later.removing # m
  /\ Post("unsave", m, None)
  /\ later' = [later EXCEPT !.items = @ \ {m}, !.removing = m]
  /\ UNCHANGED <<server, starred, roster>>

UnsaveAnswered(c) ==
  /\ c.op = "unsave" /\ c.done
  /\ Drop(c) /\ later' = [later EXCEPT !.removing = None]
  /\ UNCHANGED <<server, starred, roster, confused>>

\* The call may have been served all the same.
UnsaveFailed(c) ==
  /\ c.op = "unsave" /\ Follow(c, "relistSaved")
  /\ UNCHANGED <<server, later, starred, roster, confused>>

\* The page that asked for it is gone.
UnsaveEnded(c) ==
  /\ c.op = "unsaveLeft" /\ Drop(c)
  /\ UNCHANGED <<server, later, starred, roster, confused>>

ListSavedAnswered(c, ok) ==
  /\ c.op \in {"listSaved", "relistSaved"} /\ (ok => c.done)
  /\ Drop(c)
  /\ later' = [later EXCEPT !.items = IF ok THEN c.answer ELSE {},
                            !.removing = IF c.op = "relistSaved" THEN None ELSE @]
  /\ confused' = Settled(c, ok)
  /\ UNCHANGED <<server, starred, roster>>

-----------------------------------------------------------------------------
(* The starred conversations. *)

OpenSidebar ==
  /\ \A c \in calls: c.op # "listStars"
  /\ Post("listStars", None, None)
  /\ UNCHANGED <<server, later, starred, roster>>

ToggleStar(x) ==
  /\ Post(IF x \in starred THEN "unstar" ELSE "star", x, None)
  /\ UNCHANGED <<server, later, starred, roster>>

StarAnswered(c) ==
  /\ c.op \in {"star", "unstar"} /\ c.done
  /\ Follow(c, "relistStars")
  /\ UNCHANGED <<server, later, starred, roster, confused>>

\* The list stays as it is, whether or not the call was served.
StarFailed(c) ==
  /\ c.op \in {"star", "unstar", "relistStars"}
  /\ Drop(c) /\ confused' = confused \cup {"starred"}
  /\ UNCHANGED <<server, later, starred, roster>>

ListStarsAnswered(c, ok) ==
  /\ c.op \in {"listStars", "relistStars"} /\ (ok => c.done) /\ (ok \/ c.op = "listStars")
  /\ Drop(c)
  /\ starred' = IF ok THEN c.answer ELSE {}
  /\ confused' = Settled(c, ok)
  /\ UNCHANGED <<server, later, roster>>

-----------------------------------------------------------------------------
(* The members. *)

OpenAdmin(mine) ==
  /\ ~roster.open /\ roster' = [roster EXCEPT !.open = TRUE]
  /\ Post("members", None, mine)
  /\ UNCHANGED <<server, later, starred>>
MembersAnswered(c) ==
  /\ c.op = "members" /\ c.done /\ Drop(c)
  /\ roster' = [roster EXCEPT !.mine = c.arg, !.roles = c.answer]
  /\ confused' = confused \ {"roles"}
  /\ UNCHANGED <<server, later, starred>>
MembersFailed(c) ==
  /\ c.op = "members" /\ Drop(c)
  /\ UNCHANGED <<server, later, starred, roster, confused>>

CanEdit(u) ==
  /\ roster.roles[u] # "gone" /\ roster.busy # u
  /\ \/ roster.mine = "OWNER"
     \/ roster.mine = "ADMIN" /\ roster.roles[u] = "MEMBER"

\* Only one member is marked busy, the latest.
ChangeRole(u, role) ==
  /\ CanEdit(u) /\ role # roster.roles[u] /\ (role = "OWNER" => roster.mine = "OWNER")
  /\ Post("role", u, role)
  /\ roster' = [roster EXCEPT !.busy = u]
  /\ UNCHANGED <<server, later, starred>>
RemoveMember(u) ==
  /\ CanEdit(u)
  /\ Post("remove", u, None)
  /\ roster' = [roster EXCEPT !.busy = u]
  /\ UNCHANGED <<server, later, starred>>

WriteAnswered(c) ==
  /\ c.op \in {"role", "remove"} /\ c.done /\ Drop(c)
  /\ LET shown == roster.roles[c.of]
     IN roster' = [roster EXCEPT !.busy = None,
          !.roles[c.of] = IF c.op = "remove" THEN "gone" ELSE IF shown = "gone" THEN shown ELSE c.arg]
  /\ UNCHANGED <<server, later, starred, confused>>
WriteFailed(c) ==
  /\ c.op \in {"role", "remove"} /\ Drop(c)
  /\ roster' = [roster EXCEPT !.busy = None]
  /\ confused' = IF c.done THEN confused \cup {"roles"} ELSE confused
  /\ UNCHANGED <<server, later, starred>>

\* Before the members are listed, and when they cannot be, as well.
CreateInvite ==
  /\ roster.open /\ roster.mine # "MEMBER" /\ ~roster.creating
  /\ Post("invite", None, None)
  /\ roster' = [roster EXCEPT !.creating = TRUE]
  /\ UNCHANGED <<server, later, starred>>
InviteAnswered(c, ok) ==
  /\ c.op = "invite" /\ Drop(c)
  /\ roster' = [roster EXCEPT !.creating = FALSE, !.link = @ \/ ok]
  /\ UNCHANGED <<server, later, starred, confused>>

-----------------------------------------------------------------------------
Next ==
  \/ OpenSaved \/ OpenSidebar \/ CreateInvite
  \/ \E mine \in Roles: OpenAdmin(mine)
  \/ \E m \in Messages: Unsave(m) \/ \E shelf \in Shelves: MoveItem(m, shelf)
  \/ \E tab \in Shelves: SetTab(tab)
  \/ \E x \in Conversations: ToggleStar(x)
  \/ \E u \in Members: RemoveMember(u) \/ \E role \in Roles: ChangeRole(u, role)
  \/ \E c \in calls:
       \/ Serve(c) \/ UnsaveAnswered(c) \/ UnsaveFailed(c) \/ UnsaveEnded(c) \/ StarAnswered(c) \/ StarFailed(c)
       \/ MembersAnswered(c) \/ MembersFailed(c) \/ WriteAnswered(c) \/ WriteFailed(c)
       \/ \E ok \in BOOLEAN: ListSavedAnswered(c, ok) \/ ListStarsAnswered(c, ok) \/ InviteAnswered(c, ok)

Spec == Init /\ [][Next]_vars

-----------------------------------------------------------------------------
\* The state of the three lists (saved/page.tsx, conversation-list.tsx, admin/page.tsx).
TypeOK ==
  /\ server \in [saved: SUBSET Messages, starred: SUBSET Conversations,
                 roles: [Members -> Roles \cup {"gone"}]]
  /\ later.items \subseteq Messages /\ later.removing \in Messages \cup {None}
  /\ later.shelf \in [Messages -> Shelves] /\ later.tab \in Shelves
  /\ starred \subseteq Conversations
  /\ roster.roles \in [Members -> Roles \cup {"gone"}] /\ roster.mine \in Roles \cup {None}
  /\ roster.busy \in Members \cup {None}
  /\ confused \subseteq {"saved", "starred", "roles"}

\* A list with no call in flight shows what the server holds, unless two calls
\* of it (of the same member, on the admin page) overlapped or one failed:
\* answers are then taken in any order, and a listing served before a write may
\* come after it (saved/page.tsx, unsave; conversation-list.tsx, toggleStar;
\* admin/page.tsx, changeRole).
ListsAgree ==
  LET Quiet(l) == l \notin confused /\ \A c \in calls: ListOf(c.op) # l
  IN /\ Quiet("saved") => later.items = server.saved
     /\ Quiet("starred") => starred = server.starred
     /\ Quiet("roles") => roster.roles = server.roles
=============================================================================
