--------------------------- MODULE ProfileSettings ---------------------------
(***************************************************************************)
(* The two pages on which a user edits the profile: the one of a workspace *)
(* (app/home/[workspaceId]/profile/page.tsx) and the one of the account    *)
(* (features/profile/components/profile-view-page.tsx).  Both show at once *)
(* what was chosen, copy it to the local storage and tell the server; they *)
(* differ in what they do when it refuses.  The server's update takes the  *)
(* photo of a request that names none for the empty one                    *)
(* (internal/productivity/handler.go).                                     *)
(***************************************************************************)
EXTENDS Naturals, FiniteSets

CONSTANTS
  Photos, NoPhoto,  \* avatar_url and ""
  Names, NoName,    \* display_name and ""
  UserName,         \* user.name, the name of the account
  Presences,        \* presence_status
  Cards,            \* title, phone and status, which only the browser keeps
  Kinds,            \* kinds of notification
  Unknown,          \* notificationPreferences = null
  MaxCalls          \* bound: calls in flight

ProfileAssumption ==
  /\ NoPhoto \notin Photos /\ NoName \notin Names /\ UserName \in Names
  /\ "active" \in Presences /\ Cards # {}
  /\ MaxCalls \in Nat

VARIABLES
  profile,   \* the server: [photo, name, presence]
  prefs,     \* the server: the kinds that are switched on
  cache,     \* the local storage: [photo, name, card]
  page,      \* the page on screen
  form,      \* what it shows: [photo, name, presence, card]
  editing,   \* editingField, editingName, statusDialogOpen
  shownPrefs,\* notificationPreferences
  session,   \* signed in, signing out, out
  asked,     \* calls in flight
  crossed    \* history: fields whose writes failed, overlapped or, as for the
             \* photo, were overwritten by the update of another field

vars == <<profile, prefs, cache, page, form, editing, shownPrefs, session, asked, crossed>>

Fields == {"photo", "name", "presence"}
Pages == {"workspace", "account"}
Edits == {"nothing", "name", "card"}
Blank == [photo |-> NoPhoto, name |-> NoName, presence |-> "active", card |-> CHOOSE c \in Cards: TRUE]

\* A call: what it writes, if anything, what it would restore, and the page
\* ("" or "gone" once left) that waits for it.
Call(op, x, old) == [op |-> op, to |-> x, old |-> old, page |-> page, done |-> FALSE, reply |-> Unknown]
Saving == \E c \in asked: c.op = "prefs" /\ c.page = page
Room(n) == Cardinality(asked) + n <= MaxCalls

Init ==
  /\ profile = [photo |-> NoPhoto, name |-> UserName, presence |-> "active"]
  /\ prefs = Kinds
  /\ cache = [photo |-> NoPhoto, name |-> NoName, card |-> Blank.card]
  /\ page = "" /\ form = Blank /\ editing = "nothing" /\ shownPrefs = Unknown
  /\ session = "in" /\ asked = {} /\ crossed = {}

-----------------------------------------------------------------------------
(* The user. *)

\* A page mounts and loads the profile and the preferences.
Open(p) ==
  /\ page = "" /\ session = "in" /\ Room(2)
  /\ page' = p /\ editing' = "nothing" /\ shownPrefs' = Unknown
  /\ form' = IF p = "account" THEN Blank
             ELSE [Blank EXCEPT !.name = IF cache.name # NoName THEN cache.name ELSE UserName,
                                !.card = cache.card]
  /\ asked' = asked \cup {[Call(op, Unknown, Unknown) EXCEPT !.page = p]: op \in {"load", "loadPrefs"}}
  /\ crossed' = IF asked = {} THEN {} ELSE Fields \cup {"prefs"}
  /\ UNCHANGED <<profile, prefs, cache, session>>

\* Its listings are forgotten, its writes are not; of the account's page the
\* writing of a photo still has a cache to put back.
Left(calls) ==
  {[c EXCEPT !.page = IF c.op = "photo" /\ c.page \in {"account", "gone"} THEN "gone" ELSE ""]:
     c \in {d \in calls: d.op \notin {"load", "loadPrefs"}}}

GoBack ==
  /\ page # ""
  /\ page' = "" /\ form' = Blank /\ editing' = "nothing" /\ shownPrefs' = Unknown
  /\ asked' = Left(asked)
  /\ UNCHANGED <<profile, prefs, cache, session, crossed>>

\* An update in flight with the loading, or with another of the same field, may
\* be served in either order; and any update without a photo empties it.
Write(f, x) ==
  /\ Room(1)
  /\ asked' = asked \cup {Call(f, x, form[f])}
  /\ crossed' = crossed
       \cup (IF \E c \in asked: c.op \in {"load", f} THEN {f} ELSE {})
       \cup (IF f # "photo" \/ \E c \in asked: c.op \in Fields \cup {"load"} THEN {"photo"} ELSE {})

\* A picture uploaded or picked, or, on the workspace's page, removed.
ChoosePhoto(x) ==
  /\ page # "" /\ (x = NoPhoto => page = "workspace" /\ form.photo # NoPhoto)
  /\ form' = [form EXCEPT !.photo = x]
  /\ cache' = [cache EXCEPT !.photo = x]
  /\ Write("photo", x)
  /\ UNCHANGED <<profile, prefs, page, editing, shownPrefs, session>>

Edit(e) ==
  /\ page # "" /\ (e = "card" => page = "workspace") /\ editing # e
  /\ editing' = e
  /\ UNCHANGED <<profile, prefs, cache, page, form, shownPrefs, session, asked, crossed>>

\* The account's page keeps asking for a name; the other one saves an empty
\* one, which the server ignores.
SaveName(n) ==
  /\ editing = "name" /\ (n = NoName => page = "workspace")
  /\ form' = [form EXCEPT !.name = n]
  /\ cache' = [cache EXCEPT !.name = n]
  /\ editing' = "nothing"
  /\ Write("name", n)
  /\ UNCHANGED <<profile, prefs, page, shownPrefs, session>>

\* The title, the phone and the status stay in this browser.
SaveCard(c) ==
  /\ editing = "card"
  /\ form' = [form EXCEPT !.card = c] /\ cache' = [cache EXCEPT !.card = c]
  /\ editing' = "nothing"
  /\ UNCHANGED <<profile, prefs, page, shownPrefs, session, asked, crossed>>

\* The workspace's page knows two presences.
SavePresence(s) ==
  /\ page # "" /\ s # form.presence /\ (page = "workspace" => s \in {"active", "away"})
  /\ form' = [form EXCEPT !.presence = s]
  /\ Write("presence", s)
  /\ UNCHANGED <<profile, prefs, cache, page, editing, shownPrefs, session>>

\* The whole of the preferences is sent; meanwhile the boxes are disabled.
UpdateNotification(k) ==
  /\ page # "" /\ shownPrefs # Unknown /\ ~Saving /\ Room(1)
  /\ LET next == IF k \in shownPrefs THEN shownPrefs \ {k} ELSE shownPrefs \cup {k}
     IN /\ shownPrefs' = next
        /\ asked' = asked \cup {Call("prefs", next, shownPrefs)}
  /\ UNCHANGED <<profile, prefs, cache, page, form, editing, session, crossed>>

SignOut ==
  /\ page # "" /\ session = "in" /\ Room(1)
  /\ session' = "leaving"
  /\ asked' = asked \cup {Call("logout", Unknown, Unknown)}
  /\ UNCHANGED <<profile, prefs, cache, page, form, editing, shownPrefs, crossed>>

-----------------------------------------------------------------------------
(* The server and its answers. *)

\* UpdateProfileSettings: an empty name is no name, an absent photo is an empty one.
Updated(c) ==
  CASE c.op = "photo" -> [profile EXCEPT !.photo = c.to]
    [] c.op = "name" -> [profile EXCEPT !.photo = NoPhoto, !.name = IF c.to = NoName THEN @ ELSE c.to]
    [] c.op = "presence" -> [profile EXCEPT !.photo = NoPhoto, !.presence = c.to]
    [] OTHER -> profile

Serve(c) ==
  /\ ~c.done
  /\ profile' = Updated(c)
  /\ prefs' = IF c.op = "prefs" THEN c.to ELSE prefs
  /\ asked' = (asked \ {c}) \cup
       {[c EXCEPT !.done = TRUE,
                  !.reply = IF c.op = "load" THEN {profile} ELSE IF c.op \in {"prefs", "loadPrefs"} THEN prefs' ELSE Unknown]}
  /\ UNCHANGED <<cache, page, form, editing, shownPrefs, session, crossed>>

Mine(c) == c.page = page /\ page # ""
Take(c, op) == c.op = op /\ asked' = asked \ {c}

\* What the server has replaces what is shown, where it has something; the
\* account's page falls back on the local copies and renews them.
ProfileAnswered(c) ==
  /\ c.done /\ Take(c, "load")
  /\ LET found == CHOOSE p \in c.reply: TRUE
         photo == IF found.photo # NoPhoto THEN found.photo
                  ELSE IF page = "account" THEN cache.photo ELSE form.photo
     IN /\ form' = [form EXCEPT !.photo = photo, !.name = found.name, !.presence = found.presence]
        /\ cache' = IF page = "account" /\ photo # NoPhoto THEN [cache EXCEPT !.photo = photo] ELSE cache
        /\ crossed' = IF photo # found.photo THEN crossed \cup {"photo"} ELSE crossed
  /\ UNCHANGED <<profile, prefs, page, editing, shownPrefs, session>>

ProfileFailed(c) ==
  /\ Take(c, "load")
  /\ form' = [form EXCEPT !.photo = cache.photo,
                          !.name = IF page = "workspace" THEN @
                                   ELSE IF cache.name # NoName THEN cache.name ELSE UserName]
  /\ crossed' = crossed \cup Fields
  /\ UNCHANGED <<profile, prefs, cache, page, editing, shownPrefs, session>>

PrefsLoaded(c) ==
  /\ Take(c, "loadPrefs")
  /\ shownPrefs' = c.reply       \* still Unknown when it failed
  /\ UNCHANGED <<profile, prefs, cache, page, form, editing, session, crossed>>

WriteAnswered(c) ==
  /\ c.done /\ c.op \in Fields /\ Take(c, c.op)
  /\ UNCHANGED <<profile, prefs, cache, page, form, editing, shownPrefs, session, crossed>>

\* Only the photo of the account's page is put back, to what it was when it was
\* changed: in the local storage even once the page is left.
WriteFailed(c) ==
  /\ c.op \in Fields /\ Take(c, c.op)
  /\ IF c.op = "photo" /\ c.page \in {"account", "gone"}
       THEN /\ form' = IF Mine(c) THEN [form EXCEPT !.photo = c.old] ELSE form
            /\ cache' = [cache EXCEPT !.photo = c.old]
       ELSE UNCHANGED <<form, cache>>
  /\ crossed' = crossed \cup {c.op, "photo"}
  /\ UNCHANGED <<profile, prefs, page, editing, shownPrefs, session>>

\* The account's page takes what the server answers, the other keeps its own.
PrefsAnswered(c) ==
  /\ c.done /\ Take(c, "prefs")
  /\ shownPrefs' = IF Mine(c) /\ page = "account" THEN c.reply ELSE shownPrefs
  /\ UNCHANGED <<profile, prefs, cache, page, form, editing, session, crossed>>

\* mutant: the switches stay as the failing call wanted them.
PrefsFailedSilently(c) ==
  /\ Take(c, "prefs")
  /\ crossed' = IF c.done THEN crossed \cup {"prefs"} ELSE crossed
  /\ UNCHANGED <<profile, prefs, cache, page, form, editing, shownPrefs, session>>

PrefsFailed(c) ==
  /\ Take(c, "prefs")
  /\ shownPrefs' = IF Mine(c) THEN c.old ELSE shownPrefs
  /\ crossed' = IF c.done THEN crossed \cup {"prefs"} ELSE crossed
  /\ UNCHANGED <<profile, prefs, cache, page, form, editing, session>>

\* Whatever the server says, the page goes to the sign-in.
SignedOut(c) ==
  /\ c.op = "logout" /\ asked' = Left(asked \ {c})
  /\ session' = IF c.done THEN "out" ELSE "in"
  /\ page' = "" /\ form' = Blank /\ editing' = "nothing" /\ shownPrefs' = Unknown
  /\ UNCHANGED <<profile, prefs, cache, crossed>>

User ==
  \/ \E p \in Pages: Open(p)
  \/ \E x \in Photos \cup {NoPhoto}: ChoosePhoto(x)
  \/ \E e \in Edits: Edit(e)
  \/ \E n \in Names \cup {NoName}: SaveName(n)
  \/ \E c \in Cards: SaveCard(c)
  \/ \E s \in Presences: SavePresence(s)
  \/ \E k \in Kinds: UpdateNotification(k)
  \/ GoBack \/ SignOut

Network(c) ==
  \/ Serve(c) \/ ProfileAnswered(c) \/ ProfileFailed(c) \/ PrefsLoaded(c)
  \/ WriteAnswered(c) \/ WriteFailed(c) \/ PrefsAnswered(c) \/ PrefsFailed(c) \/ SignedOut(c)

Next == User \/ \E c \in asked: Network(c)

Spec == Init /\ [][Next]_vars

-----------------------------------------------------------------------------
\* The state of the two profile pages, the local storage and the server's rows.
TypeOK ==
  /\ profile \in [photo: Photos \cup {NoPhoto}, name: Names, presence: Presences]
  /\ prefs \subseteq Kinds
  /\ cache \in [photo: Photos \cup {NoPhoto}, name: Names \cup {NoName}, card: Cards]
  /\ page \in Pages \cup {""}
  /\ form \in [photo: Photos \cup {NoPhoto}, name: Names \cup {NoName}, presence: Presences, card: Cards]
  /\ editing \in Edits /\ session \in {"in", "leaving", "out"}
  /\ shownPrefs = Unknown \/ shownPrefs \subseteq Kinds
  /\ crossed \subseteq Fields \cup {"prefs"}

Quiet(ops) == \A c \in asked: c.op \notin ops

\* Once its calls are answered, a profile page shows what the server holds, in
\* each field none of whose updates failed or overlapped; the preferences even
\* when an update is refused (both pages' updateNotification, saveAvatar,
\* savePresence and saveProfileField).
ProfileAgrees ==
  page # "" =>
    /\ \A f \in Fields: (f \notin crossed /\ Quiet({"load", f})) =>
         form[f] = profile[f] \/ (f = "name" /\ form.name = NoName)
    /\ (shownPrefs # Unknown /\ "prefs" \notin crossed /\ Quiet({"prefs", "loadPrefs"})) =>
         shownPrefs = prefs
=============================================================================
