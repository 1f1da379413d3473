-------------------------- MODULE ConversationPanels --------------------------
(***************************************************************************)
(* What surrounds the history of the conversation on screen: the pinned    *)
(* messages and their banner (chat-area.tsx), the menu, the panels of      *)
(* pinned messages and of channel members and the dialog to leave          *)
(* (chat-header.tsx, PinnedMessagesPanel.tsx, ChannelMembersPanel.tsx).    *)
(* The chat area lives through a change of conversation; the header and    *)
(* its panels are made anew.                                               *)
(***************************************************************************)
EXTENDS Naturals, FiniteSets

CONSTANTS
  Convs,       \* conversations
  Channels,    \* those that are channels
  NoConv,      \* no conversation on screen
  Messages,    \* messages of each of them
  Users, Me,   \* members of the workspace, and this user
  NoUser,      \* selectedUser = ""
  MaxCalls,    \* bound: calls in flight
  MaxMoves     \* bound: changes of conversation

PanelsAssumption ==
  /\ Channels \subseteq Convs /\ NoConv \notin Convs
  /\ Me \in Users /\ NoUser \notin Users
  /\ MaxCalls \in Nat /\ MaxMoves \in Nat

VARIABLES
  pinned,         \* the server: the pinned messages of each conversation
  joined,         \* and the members of each channel
  viewed,         \* the conversation on screen
  visit,          \* how many conversations were on screen before
  pinnedMessages, \* the pins the chat area knows
  bannerDismissed,\* pinnedBannerDismissed
  open,           \* which of the menu, the panels and the dialog are open
  items,          \* the pinned panel
  members,        \* the members panel
  chosen,         \* its selectedUser
  flags,          \* starred, muted
  pending,        \* calls in flight
  stalePins,      \* history: this visit's pins met a listing of another visit, an
                  \* overlap, a change by others or by the panel
  staleMembers    \* history: an overlap or a change by others in the members panel

remote == <<pinned, joined>>
area == <<pinnedMessages, bannerDismissed>>
header == <<open, items, members, chosen, flags>>
ghosts == <<stalePins, staleMembers>>
vars == <<remote, viewed, visit, area, header, pending, ghosts>>

Widgets == {"menu", "members", "pinned", "leave"}
Buttons == {"starred", "muted"}
PinWrites == {"pin", "unpin", "panelUnpin"}
MemberWrites == {"addMember", "removeMember"}
Gone == MaxMoves + 1

\* A call carries the conversation and the visit it was made from.
Call(op, c, v, x) == [op |-> op, conv |-> c, visit |-> v, arg |-> x, done |-> FALSE, reply |-> {}]
Here(op, x) == Call(op, viewed, visit, x)
Calling(op) == \E p \in pending: p.op = op /\ p.visit = visit

Start(call) ==
  /\ Cardinality(pending) < MaxCalls
  /\ pending' = pending \cup {call}

\* What is unmounted no longer hears of its calls: its listings are cancelled,
\* its writes are still served.
Detached(ops) ==
  {IF p.op \in ops THEN [p EXCEPT !.visit = Gone] ELSE p : p \in pending}

Init ==
  /\ pinned \in [Convs -> {{}, Messages}]
  /\ joined = [c \in Channels |-> {Me}]
  /\ viewed \in Channels /\ visit = 0
  /\ pinnedMessages = {} /\ bannerDismissed = FALSE
  /\ open = {} /\ items = {} /\ members = {} /\ chosen = NoUser /\ flags = {}
  /\ pending = {Here("pins", {})}
  /\ stalePins = FALSE /\ staleMembers = FALSE

-----------------------------------------------------------------------------
(* The user. *)

\* The chat area forgets the pins and lists them; the header starts afresh.
\* What a late togglePin will list is put under the conversation now shown.
Show(c) ==
  /\ viewed' = c /\ visit' = visit + 1
  /\ pinnedMessages' = {} /\ bannerDismissed' = FALSE
  /\ open' = {} /\ items' = {} /\ members' = {} /\ chosen' = NoUser /\ flags' = {}
  /\ stalePins' = \E p \in pending: p.op \in PinWrites \cup {"relist"}
  /\ staleMembers' = FALSE

SelectConversation(c) ==
  /\ c # viewed /\ visit < MaxMoves
  /\ c \in Channels => Me \in joined[c]
  /\ Show(c)
  /\ pending' = Detached({"pins", "items", "members"} \cup MemberWrites)
                \cup {Call("pins", c, visit + 1, {})}
  /\ UNCHANGED remote

\* handleClose.
Close ==
  /\ viewed # NoConv /\ visit < MaxMoves
  /\ Show(NoConv)
  /\ pending' = Detached({"pins", "items", "members"} \cup MemberWrites)
  /\ UNCHANGED remote

\* togglePin: whether it pins or unpins is decided by the list of this moment.
TogglePin(m) ==
  /\ viewed # NoConv
  /\ Start(Here(IF m \in pinnedMessages THEN "unpin" ELSE "pin", {m}))
  /\ stalePins' = (stalePins \/ \E p \in pending: p.op \in PinWrites \cup {"pins", "relist"})
  /\ UNCHANGED <<remote, viewed, visit, area, header, staleMembers>>

DismissBanner ==
  /\ pinnedMessages # {} /\ ~bannerDismissed
  /\ bannerDismissed' = TRUE
  /\ UNCHANGED <<remote, viewed, visit, pinnedMessages, header, pending, ghosts>>

ToggleButton(b) ==
  /\ viewed # NoConv
  /\ flags' = IF b \in flags THEN flags \ {b} ELSE flags \cup {b}
  /\ UNCHANGED <<remote, viewed, visit, area, open, items, members, chosen, pending, ghosts>>

ToggleMenu ==
  /\ viewed # NoConv
  /\ open' = IF "menu" \in open THEN open \ {"menu"} ELSE open \cup {"menu"}
  /\ UNCHANGED <<remote, viewed, visit, area, items, members, chosen, flags, pending, ghosts>>

\* A choice of the menu closes it; a panel mounts and lists.
Choose(w, op) ==
  /\ "menu" \in open
  /\ open' = (open \ {"menu"}) \cup {w}
  /\ IF w \in open \/ op = "none" THEN UNCHANGED pending ELSE Start(Here(op, {}))
  /\ UNCHANGED <<remote, viewed, visit, area, items, members, chosen, flags>>

OpenPinned == Choose("pinned", "items") /\ UNCHANGED ghosts

OpenMembers ==
  /\ viewed \in Channels
  /\ Choose("members", "members")
  /\ staleMembers' = IF "members" \in open THEN staleMembers ELSE \E p \in pending: p.op \in MemberWrites
  /\ UNCHANGED stalePins

OpenLeave == viewed \in Channels /\ Choose("leave", "none") /\ UNCHANGED ghosts

\* Its button, or a jump to a pinned message.
ClosePinned ==
  /\ "pinned" \in open
  /\ open' = open \ {"pinned"} /\ items' = {}
  /\ pending' = Detached({"items"})
  /\ UNCHANGED <<remote, viewed, visit, area, members, chosen, flags, ghosts>>

CloseMembers ==
  /\ "members" \in open
  /\ open' = open \ {"members"} /\ members' = {} /\ chosen' = NoUser
  /\ pending' = Detached({"members"} \cup MemberWrites)
  /\ UNCHANGED <<remote, viewed, visit, area, items, flags, ghosts>>

\* Not while the channel is being left.
CloseLeave ==
  /\ "leave" \in open /\ ~Calling("leave")
  /\ open' = open \ {"leave"}
  /\ UNCHANGED <<remote, viewed, visit, area, items, members, chosen, flags, pending, ghosts>>

\* The pinned panel unpins; the banner hears nothing of it.
PanelUnpin(m) ==
  /\ "pinned" \in open /\ m \in items
  /\ Start(Here("panelUnpin", {m}))
  /\ stalePins' = TRUE
  /\ UNCHANGED <<remote, viewed, visit, area, header, staleMembers>>

ChooseUser(u) ==
  /\ "members" \in open /\ u \notin members /\ u # chosen
  /\ chosen' = u
  /\ UNCHANGED <<remote, viewed, visit, area, open, items, members, flags, pending, ghosts>>

MemberWrite(op, u) ==
  /\ "members" \in open
  /\ Start(Here(op, {u}))
  /\ staleMembers' = (staleMembers \/ \E p \in pending: p.op \in MemberWrites \cup {"members"})
  /\ UNCHANGED <<remote, viewed, visit, area, header, stalePins>>

AddMember == chosen # NoUser /\ MemberWrite("addMember", chosen)
RemoveMember(u) == u \in members \ {Me} /\ MemberWrite("removeMember", u)

Leave ==
  /\ "leave" \in open /\ ~Calling("leave")
  /\ Start(Here("leave", {Me}))
  /\ staleMembers' = (staleMembers \/ \E p \in pending: p.op = "members")
  /\ UNCHANGED <<remote, viewed, visit, area, header, stalePins>>

-----------------------------------------------------------------------------
(* The server and its answers. *)

\* Other users pin and join.
Others ==
  /\ viewed # NoConv
  /\ \/ /\ \E m \in Messages: pinned' = [pinned EXCEPT ![viewed] = @ \cup {m}]
        /\ stalePins' = TRUE
        /\ UNCHANGED <<joined, staleMembers>>
     \/ /\ viewed \in Channels
        /\ \E u \in Users: joined' = [joined EXCEPT ![viewed] = @ \cup {u}]
        /\ staleMembers' = TRUE
        /\ UNCHANGED <<pinned, stalePins>>
  /\ remote' # remote
  /\ UNCHANGED <<viewed, visit, area, header, pending>>

Serve(p) ==
  /\ ~p.done
  /\ pinned' = CASE p.op = "pin" -> [pinned EXCEPT ![p.conv] = @ \cup p.arg]
                 [] p.op \in {"unpin", "panelUnpin"} -> [pinned EXCEPT ![p.conv] = @ \ p.arg]
                 [] OTHER -> pinned
  /\ joined' = CASE p.op = "addMember" -> [joined EXCEPT ![p.conv] = @ \cup p.arg]
                 [] p.op \in {"removeMember", "leave"} -> [joined EXCEPT ![p.conv] = @ \ p.arg]
                 [] OTHER -> joined
  /\ pending' = (pending \ {p}) \cup
       {[p EXCEPT !.done = TRUE,
                  !.reply = IF p.op = "members" THEN joined[p.conv] ELSE pinned[p.conv]]}
  /\ UNCHANGED <<viewed, visit, area, header, ghosts>>

Answer(p, op) == p.done /\ p.op = op /\ pending' = pending \ {p}

\* mutant: the listing of a conversation left meanwhile is not cancelled.
PinsAnsweredLate(p) ==
  /\ Answer(p, "pins")
  /\ pinnedMessages' = p.reply
  /\ UNCHANGED <<remote, viewed, visit, bannerDismissed, header, ghosts>>

PinsAnswered(p) ==
  /\ Answer(p, "pins")
  /\ pinnedMessages' = IF p.visit = visit THEN p.reply ELSE pinnedMessages
  /\ UNCHANGED <<remote, viewed, visit, bannerDismissed, header, ghosts>>

\* togglePin lists the pins of its own conversation.
PinToggled(p) ==
  /\ p.done /\ p.op \in {"pin", "unpin"}
  /\ pending' = (pending \ {p}) \cup {Call("relist", p.conv, p.visit, {})}
  /\ UNCHANGED <<remote, viewed, visit, area, header, ghosts>>

\* Nothing asks whether that conversation is still shown.
PinsRelisted(p) ==
  /\ Answer(p, "relist")
  /\ pinnedMessages' = p.reply
  /\ UNCHANGED <<remote, viewed, visit, bannerDismissed, header, ghosts>>

ItemsAnswered(p) ==
  /\ Answer(p, "items")
  /\ items' = IF p.visit = visit THEN p.reply ELSE items
  /\ UNCHANGED <<remote, viewed, visit, area, open, members, chosen, flags, ghosts>>

PanelUnpinned(p) ==
  /\ Answer(p, "panelUnpin")
  /\ items' = IF p.visit = visit THEN items \ p.arg ELSE items
  /\ UNCHANGED <<remote, viewed, visit, area, open, members, chosen, flags, ghosts>>

MembersAnswered(p) ==
  /\ Answer(p, "members")
  /\ members' = IF p.visit = visit THEN p.reply ELSE members
  /\ UNCHANGED <<remote, viewed, visit, area, open, items, chosen, flags, ghosts>>

\* The panel chooses nobody and loads its members again.
MemberAdded(p) ==
  /\ p.done /\ p.op = "addMember"
  /\ chosen' = IF p.visit = visit THEN NoUser ELSE chosen
  /\ pending' = (pending \ {p}) \cup {Call("members", p.conv, p.visit, {})}
  /\ UNCHANGED <<remote, viewed, visit, area, open, items, members, flags, ghosts>>

MemberRemoved(p) ==
  /\ Answer(p, "removeMember")
  /\ members' = IF p.visit = visit THEN members \ p.arg ELSE members
  /\ UNCHANGED <<remote, viewed, visit, area, open, items, chosen, flags, ghosts>>

\* removeConversation: the selection is dropped if it is this channel.
Left(p) ==
  /\ p.done /\ p.op = "leave"
  /\ IF viewed # p.conv THEN pending' = pending \ {p} /\ UNCHANGED <<viewed, visit, area, header, ghosts>>
     ELSE /\ Show(NoConv)
          /\ pending' = Detached({"pins", "items", "members"} \cup MemberWrites) \ {p}
  /\ UNCHANGED remote

\* A failing call: the first listing leaves no pins; a failing write, served or
\* not, changes nothing on screen.
Failed(p) ==
  /\ pending' = pending \ {p}
  /\ pinnedMessages' = IF p.op = "pins" /\ p.visit = visit THEN {} ELSE pinnedMessages
  /\ stalePins' = (stalePins \/ p.op \in PinWrites \cup {"pins", "relist"})
  /\ staleMembers' = (staleMembers \/ p.op \in MemberWrites \cup {"members", "leave"})
  /\ UNCHANGED <<remote, viewed, visit, bannerDismissed, header>>

User ==
  \/ \E c \in Convs: SelectConversation(c)
  \/ \E m \in Messages: TogglePin(m) \/ PanelUnpin(m)
  \/ \E u \in Users: ChooseUser(u) \/ RemoveMember(u)
  \/ \E b \in Buttons: ToggleButton(b)
  \/ Close \/ DismissBanner \/ ToggleMenu
  \/ OpenPinned \/ OpenMembers \/ OpenLeave \/ ClosePinned \/ CloseMembers \/ CloseLeave
  \/ AddMember \/ Leave

Answered(p) ==
  \/ PinsAnswered(p) \/ PinToggled(p) \/ PinsRelisted(p)
  \/ ItemsAnswered(p) \/ PanelUnpinned(p)
  \/ MembersAnswered(p) \/ MemberAdded(p) \/ MemberRemoved(p) \/ Left(p)

Next ==
  \/ User \/ Others
  \/ \E p \in pending: Serve(p) \/ Answered(p) \/ Failed(p)

Spec == Init /\ [][Next]_vars

-----------------------------------------------------------------------------
\* The state of the chat area, the header and its panels (chat-area.tsx,
\* chat-header.tsx, PinnedMessagesPanel.tsx, ChannelMembersPanel.tsx).
TypeOK ==
  /\ pinned \in [Convs -> SUBSET Messages] /\ joined \in [Channels -> SUBSET Users]
  /\ viewed \in Convs \cup {NoConv} /\ visit \in 0..Gone
  /\ pinnedMessages \subseteq Messages /\ bannerDismissed \in BOOLEAN
  /\ open \subseteq Widgets /\ items \subseteq Messages
  /\ members \subseteq Users /\ chosen \in Users \cup {NoUser} /\ flags \subseteq Buttons
  /\ \A p \in pending: p.conv \in Convs /\ p.visit \in 0..Gone
  /\ stalePins \in BOOLEAN /\ staleMembers \in BOOLEAN

\* Once its calls are answered, the banner shows the pins of the conversation
\* on screen, and never those of the one before, unless a togglePin made there
\* came back late, two overlapped, one failed, or somebody else (or the pinned
\* panel) changed them (chat-area.tsx, the effect and togglePin).
PinsAgree ==
  (viewed # NoConv /\ ~stalePins /\ ~\E p \in pending: p.visit = visit /\ p.op \in PinWrites \cup {"pins", "relist"})
    => pinnedMessages = pinned[viewed]

\* The same of the members panel, whose additions load the members again and
\* whose removals only take out the member removed (ChannelMembersPanel.tsx).
\* A channel being left, since this visit or an earlier one, is no such case.
MembersAgree ==
  ("members" \in open /\ ~staleMembers
   /\ ~\E p \in pending: \/ p.visit = visit /\ p.op \in MemberWrites \cup {"members"}
                         \/ p.conv = viewed /\ p.op = "leave")
    => members = joined[viewed]

PanelsAgree == PinsAgree /\ MembersAgree
=============================================================================
