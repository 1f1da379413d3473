----------------------------- MODULE WorkspaceHub -----------------------------
(***************************************************************************)
(* How a user gets in: signing in (sign-in/page.tsx, lib/auth.ts), the page *)
(* that accepts an invitation (workspace/join/[token]/page.tsx) and the    *)
(* list of workspaces with its dialogs (dashboard/(workspace-hub)).  The   *)
(* dialog that creates a channel (create-channel-dialog.tsx) treats a late *)
(* answer in the same way and is modelled here as well.                    *)
(***************************************************************************)
EXTENDS Naturals, FiniteSets

CONSTANTS
  Names,       \* names typed for a workspace, a channel or a slug
  None,        \* null, ""
  TopAttempt,  \* attempts to find a free slug (5)
  MaxCalls     \* bound: calls made

Dialogs == {"create", "join", "channel"}

HubAssumption == None \notin Names \cup Dialogs /\ TopAttempt \in Nat \ {0} /\ MaxCalls \in Nat

NoWorkspace == <<None, 0>>

VARIABLES
  page,       \* "sign-in", "invite", "hub" or "home"
  session,    \* the browser holds a session
  invite,     \* the invitation: "open", "pending" (its page sent the user to sign in) or "used"
  mode,       \* the form of the sign-in page: "sign-in" or "sign-up"
  server,     \* [slugs, mine]: taken slugs <<name, attempt>>, the workspaces of the user
  calls,      \* calls in flight: [op, name, ws, n, attempt, done, answer]
  made,       \* history: calls made
  dialog,     \* the open dialog, or None
  typed,      \* what each dialog has typed in it
  busy,       \* dialogs that wait for their call
  hub,        \* [listed, loading, error, opening]
  active,     \* active_workspace_id
  lost        \* history: a workspace was made or joined and its answer was lost,
              \* or two listings overlapped, or the last one failed

vars == <<page, session, invite, mode, server, calls, made, dialog, typed, busy, hub,
          active, lost>>

Init ==
  /\ page \in {"sign-in", "invite", "home"} /\ session \in BOOLEAN /\ invite = "open" /\ mode = "sign-in"
  /\ server \in [slugs: {{<<n, 0>>: n \in S}: S \in SUBSET Names}, mine: {{}}]
  /\ calls = {} /\ made = 0
  /\ dialog = None /\ typed = [d \in Dialogs |-> None] /\ busy = {}
  /\ hub = [listed |-> {}, loading |-> FALSE, error |-> FALSE, opening |-> NoWorkspace]
  /\ active = NoWorkspace /\ lost = TRUE

Call(op, name) ==
  [op |-> op, name |-> name, ws |-> NoWorkspace, n |-> made, attempt |-> 0, done |-> FALSE, answer |-> {}]
Post(op, name) ==
  /\ made < MaxCalls /\ made' = made + 1
  /\ calls' = calls \cup {Call(op, name)}
Drop(c) == calls' = calls \ {c} /\ made' = made
Waiting(op) == \E c \in calls: c.op = op

-----------------------------------------------------------------------------
(* Signing in and out; the invitation. *)

getIn == <<page, session, invite, mode>>
inHub == <<server, dialog, typed, busy, hub, active, lost>>

SetMode ==
  /\ page = "sign-in" /\ mode' = IF mode = "sign-in" THEN "sign-up" ELSE "sign-in"
  /\ UNCHANGED <<page, session, invite, calls, made, inHub>>

\* register keeps the page and goes back to signing in; login leaves for the
\* list of workspaces, wherever the user came from.  The form may be sent again
\* before it is answered.
Submit ==
  /\ page = "sign-in"
  /\ Post(IF mode = "sign-in" THEN "login" ELSE "register", None)
  /\ UNCHANGED <<getIn, inHub>>
Registered(c) ==
  /\ c.op = "register" /\ Drop(c) /\ mode' = "sign-in"
  /\ UNCHANGED <<page, session, invite, inHub>>
SubmitFailed(c) ==
  /\ c.op \in {"login", "register"} /\ Drop(c) /\ UNCHANGED <<getIn, inHub>>

\* The page lists the workspaces when it opens; a second login finds it open.
LoggedIn(c) ==
  /\ c.op = "login" /\ page = "sign-in"
  /\ session' = TRUE /\ page' = "hub"
  /\ calls' = (calls \ {c}) \cup {[Call("list", None) EXCEPT !.n = made - 1]} /\ made' = made
  /\ hub' = [hub EXCEPT !.loading = TRUE, !.error = FALSE, !.listed = {}, !.opening = NoWorkspace]
  /\ dialog' = None /\ busy' = {} /\ typed' = [d \in Dialogs |-> None]
  /\ UNCHANGED <<invite, mode, server, active, lost>>

LoggedInAgain(c) ==
  /\ c.op = "login" /\ page # "sign-in" /\ Drop(c)
  /\ UNCHANGED <<getIn, inHub>>

\* The rail signs out whatever the server answers.
SignOut ==
  /\ page = "home" /\ page' = "sign-in" /\ mode' = "sign-in"
  /\ session' \in {session, FALSE}
  /\ UNCHANGED <<invite, calls, made, inHub>>

\* Without a session the user is sent to sign in, with the way back in the
\* address; any other failure ends there.
Verify ==
  /\ page = "invite"
  /\ \/ session /\ Post("accept", None) /\ ~Waiting("accept") /\ UNCHANGED <<page, mode, invite>>
     \/ ~session /\ page' = "sign-in" /\ mode' = "sign-in" /\ UNCHANGED <<calls, made>>
        /\ invite' = IF invite = "open" THEN "pending" ELSE invite
  /\ UNCHANGED <<session, inHub>>
Accepted(c, ok) ==
  /\ c.op = "accept" /\ Drop(c)
  /\ IF ok /\ invite # "used"
     THEN /\ invite' = "used"
          /\ server' = [server EXCEPT !.slugs = @ \cup {<<"invited", 0>>}, !.mine = @ \cup {<<"invited", 0>>}]
          /\ page' = IF page = "invite" THEN "home" ELSE page
     ELSE UNCHANGED <<invite, server, page>>
  /\ UNCHANGED <<session, mode, dialog, typed, busy, hub, active, lost>>

-----------------------------------------------------------------------------
(* The dialogs. *)

OpenDialog(d) ==
  /\ page = (IF d = "channel" THEN "home" ELSE "hub") /\ dialog = None
  /\ dialog' = d
  /\ hub' = [hub EXCEPT !.error = FALSE]
  /\ UNCHANGED <<getIn, server, calls, made, typed, busy, active, lost>>

\* Closing keeps what the hub's dialogs have typed in them; the channel's forgets.
CloseDialog ==
  /\ dialog # None /\ dialog' = None
  /\ IF dialog = "channel" THEN typed' = [typed EXCEPT ![dialog] = None] /\ busy' = busy \ {dialog}
     ELSE UNCHANGED <<typed, busy>>
  /\ UNCHANGED <<getIn, server, calls, made, hub, active, lost>>

Type(n) ==
  /\ dialog # None /\ typed' = [typed EXCEPT ![dialog] = n]
  /\ UNCHANGED <<getIn, server, calls, made, dialog, busy, hub, active, lost>>

SubmitDialog ==
  /\ dialog # None /\ typed[dialog] # None /\ dialog \notin busy
  /\ Post(dialog, typed[dialog]) /\ busy' = busy \cup {dialog}
  /\ hub' = [hub EXCEPT !.error = FALSE]
  /\ UNCHANGED <<getIn, server, dialog, typed, active, lost>>

\* The server takes the slug, or says it is taken; later attempts add the time,
\* so that only another client at the same moment can have taken theirs.
Slug(c) == <<c.name, IF c.attempt = 0 THEN 0 ELSE c.n + 1>>

Conflicts(c) == Slug(c) \in server.slugs \/ c.attempt > 0

ServeCreate(c) ==
  /\ c.op = "create" /\ ~c.done
  /\ \/ /\ Conflicts(c) /\ c.attempt + 1 < TopAttempt
        /\ calls' = (calls \ {c}) \cup {[c EXCEPT !.attempt = @ + 1]} /\ UNCHANGED server
     \/ /\ Slug(c) \notin server.slugs
        /\ server' = [server EXCEPT !.slugs = @ \cup {Slug(c)}, !.mine = @ \cup {Slug(c)}]
        /\ calls' = (calls \ {c}) \cup {[c EXCEPT !.done = TRUE]}
  /\ UNCHANGED <<getIn, made, dialog, typed, busy, hub, active, lost>>

\* The last attempt met a taken slug too.
OutOfAttempts(c) ==
  /\ c.op = "create" /\ ~c.done /\ Conflicts(c) /\ c.attempt + 1 = TopAttempt
  /\ Drop(c) /\ busy' = busy \ {c.op} /\ hub' = [hub EXCEPT !.error = TRUE]
  /\ UNCHANGED <<getIn, server, dialog, typed, active, lost>>

ServeJoin(c) ==
  /\ c.op = "join" /\ ~c.done /\ <<c.name, 0>> \in server.slugs
  /\ server' = [server EXCEPT !.mine = @ \cup {<<c.name, 0>>}]
  /\ calls' = (calls \ {c}) \cup {[c EXCEPT !.done = TRUE]}
  /\ UNCHANGED <<getIn, made, dialog, typed, busy, hub, active, lost>>

\* An answer empties the field and closes the dialog, whichever is open by
\* then, and lists the workspaces again while the dialog stays busy.
DialogAnswered(c) ==
  /\ c.op \in {"create", "join"} /\ c.done
  /\ typed' = [typed EXCEPT ![c.op] = None] /\ dialog' = None
  /\ calls' = (calls \ {c}) \cup {[Call("list", c.op) EXCEPT !.n = c.n]} /\ made' = made
  /\ hub' = [hub EXCEPT !.loading = TRUE]
  /\ lost' = (lost \/ Waiting("list"))
  /\ UNCHANGED <<getIn, server, busy, active>>

DialogFailed(c) ==
  /\ c.op \in {"create", "join"} /\ Drop(c)
  /\ busy' = busy \ {c.op} /\ hub' = [hub EXCEPT !.error = TRUE]
  /\ lost' = (lost \/ c.done)
  /\ UNCHANGED <<getIn, server, dialog, typed, active>>

\* The channel's dialog: an answer closes and empties the one open by then.
ChannelAnswered(c, ok) ==
  /\ c.op = "channel" /\ Drop(c)
  /\ IF ok
     THEN /\ dialog' = IF dialog = "channel" THEN None ELSE dialog
          /\ typed' = [typed EXCEPT !["channel"] = None]
     ELSE UNCHANGED <<dialog, typed>>
  /\ busy' = busy \ {"channel"}
  /\ UNCHANGED <<getIn, server, hub, active, lost>>

-----------------------------------------------------------------------------
(* The list of workspaces. *)

\* The page opens, or is loaded again.
OpenHub ==
  /\ page = "home" /\ page' = "hub"
  /\ Post("list", None)
  /\ hub' = [hub EXCEPT !.listed = {}, !.loading = TRUE, !.error = FALSE, !.opening = NoWorkspace]
  /\ dialog' = None /\ busy' = {} /\ typed' = [d \in Dialogs |-> None]
  /\ UNCHANGED <<session, invite, mode, server, active, lost>>

\* The count of members of a workspace that cannot be had is left out.
ServeList(c) ==
  /\ c.op = "list" /\ ~c.done
  /\ calls' = (calls \ {c}) \cup {[c EXCEPT !.done = TRUE, !.answer = server.mine]}
  /\ UNCHANGED <<getIn, made, inHub>>

Listed(c, ok) ==
  /\ c.op = "list" /\ (ok => c.done) /\ Drop(c)
  /\ busy' = busy \ {c.name}
  /\ hub' = [hub EXCEPT !.listed = IF ok THEN c.answer ELSE @, !.loading = FALSE, !.error = @ \/ ~ok]
  /\ lost' = IF ok /\ c.name = None /\ c.n = made - 1 THEN FALSE ELSE lost \/ ~ok
  /\ UNCHANGED <<getIn, server, dialog, typed, active>>

\* openWorkspace: a workspace opens in a tab of its own.
OpenWorkspace(w) ==
  /\ page = "hub" /\ dialog = None /\ w \in hub.listed /\ hub.opening # w
  /\ made < MaxCalls /\ made' = made + 1
  /\ calls' = calls \cup {[Call("open", None) EXCEPT !.ws = w]}
  /\ hub' = [hub EXCEPT !.opening = w, !.error = FALSE]
  /\ UNCHANGED <<getIn, server, dialog, typed, busy, active, lost>>
Opened(c, ok) ==
  /\ c.op = "open" /\ Drop(c)
  /\ active' = IF ok THEN c.ws ELSE active
  /\ hub' = [hub EXCEPT !.opening = NoWorkspace, !.error = @ \/ ~ok]
  /\ UNCHANGED <<getIn, server, dialog, typed, busy, lost>>

Next ==
  \/ SetMode \/ Submit \/ SignOut \/ Verify \/ CloseDialog \/ SubmitDialog \/ OpenHub
  \/ \E d \in Dialogs: OpenDialog(d)
  \/ \E n \in Names: Type(n)
  \/ \E w \in hub.listed: OpenWorkspace(w)
  \/ \E c \in calls:
       \/ Registered(c) \/ SubmitFailed(c) \/ LoggedIn(c) \/ LoggedInAgain(c) \/ ServeCreate(c) \/ OutOfAttempts(c)
       \/ ServeJoin(c) \/ DialogAnswered(c) \/ DialogFailed(c) \/ ServeList(c)
       \/ \E ok \in BOOLEAN: Accepted(c, ok) \/ ChannelAnswered(c, ok) \/ Listed(c, ok) \/ Opened(c, ok)

Spec == Init /\ [][Next]_vars

-----------------------------------------------------------------------------
\* The state of the pages (sign-in, join, dashboard/(workspace-hub)/workspaces).
TypeOK ==
  /\ page \in {"sign-in", "invite", "hub", "home"} /\ session \in BOOLEAN
  /\ invite \in {"open", "pending", "used"} /\ mode \in {"sign-in", "sign-up"}
  /\ server.mine \subseteq server.slugs /\ hub.listed \subseteq server.mine
  /\ dialog \in Dialogs \cup {None} /\ busy \subseteq Dialogs
  /\ typed \in [Dialogs -> Names \cup {None}]
  /\ hub.loading \in BOOLEAN /\ hub.error \in BOOLEAN /\ lost \in BOOLEAN

\* With nothing in flight the page lists every workspace of the user, unless two
\* listings overlapped, the last one failed, or a workspace was made or joined
\* by a call whose answer was lost (workspaces/page.tsx, createWorkspace,
\* joinWorkspace, load).
HubAgrees ==
  (page = "hub" /\ ~lost /\ \A c \in calls: c.op \notin {"list", "create", "join"}) =>
    hub.listed = server.mine

\* A dialog is busy only while its call, or the listing after it, is in flight.
BusyEnds == \A d \in busy: \E c \in calls: c.op = d \/ (c.op = "list" /\ c.name = d)
=============================================================================
