---------------------------- MODULE ChatHistory ----------------------------
(***************************************************************************)
(* The message history a browser keeps of each conversation: the zustand   *)
(* store of apps/web/src/features/chat/utils/store.ts and the events that  *)
(* use-realtime-connection.ts feeds it.  A history is built from three     *)
(* sources that nothing orders against each other: the answers of REST     *)
(* calls, whose contents are fixed when the server replies and which may   *)
(* be applied much later; the events of the WebSocket, which the server    *)
(* broadcasts as well as it can after it has committed; and optimistic     *)
(* changes that a failing call undoes.                                     *)
(*                                                                         *)
(* A message is its position in the server's log, which is also the order  *)
(* of created_at.  Drafts, reactions and threads have modules of their own.*)
(***************************************************************************)
EXTENDS Naturals, Sequences, FiniteSets, SequencesExt

CONSTANTS
  Channels, DMs,   \* the conversations of this user
  PageSize,        \* messages in a page of a channel (50 in the code)
  NoConv,          \* selectedConversationId = ""
  MaxMessages,     \* bound: messages ever posted
  MaxCalls,        \* bound: REST calls in flight at once
  MaxDrops,        \* bound: times the WebSocket goes down
  MaxEvents        \* bound: events on the WebSocket when one is repeated

HistoryAssumption ==
  /\ Channels \cap DMs = {}
  /\ NoConv \notin Channels \cup DMs
  /\ PageSize \in Nat \ {0}
  /\ MaxMessages \in Nat /\ MaxCalls \in Nat /\ MaxDrops \in Nat /\ MaxEvents \in Nat

Convs == Channels \cup DMs
Ids == 1..MaxMessages
NotSynced == [conv |-> NoConv, from |-> 0, upto |-> 0]

VARIABLES
  log,            \* the server: [conv, mine, live] of message i at position i
  sending,        \* the server: events whose broadcasting has not ended
  link,           \* whether the WebSocket is open
  listening,      \* the gateway: conversations whose events it puts on it
  drops,          \* times it went down
  wire,           \* events sent on it and not yet handled, in order
  calls,          \* REST calls in flight
  present,        \* the conversations in the store's list
  selected,       \* selectedConversationId
  shown,          \* the messages of each conversation of the store
  unread,         \* its unread counters
  loadingOlder,   \* loadingOlderMessages
  hasOlder,       \* hasOlderMessages, TRUE where it is undefined
  synced,         \* history: the conversation resynced on this connection, if any,
                  \* and the first and the last message the resync fetched
  replaced,       \* history: those whose messages were replaced since it opened
  handled,        \* history: messages read, or arrived while selected
  missed,         \* history: messages whose creation was not broadcast to the
                  \* open connection
  told,           \* history: messages an event of which was handled
  belated         \* history: messages created anew by an event that came after
                  \* another event of theirs, since their unread counter began

server == <<log, sending>>
network == <<link, listening, drops, wire>>
history == <<synced, replaced, handled, missed, told, belated>>
vars == <<log, sending, link, listening, drops, wire, calls, present, selected, shown, unread,
          loadingOlder, hasOlder, synced, replaced, handled, missed, told, belated>>

-----------------------------------------------------------------------------
(* Sequences of messages. *)

\* Numbers in increasing order, each once.
Increasing(S) == CHOOSE s \in SetToSeqs(S): \A i, j \in DOMAIN s: i < j => s[i] < s[j]

\* sortMessages of uniqueMessages.
SortMessages(ms) == Increasing(ToSet(ms))

MergeMessages(existing, incoming) == SortMessages(existing \o incoming)

\* What a filter leaves.
Without(ms, id) ==
  LET kept == Increasing({i \in DOMAIN ms: ms[i] # id}) IN [k \in DOMAIN kept |-> ms[kept[k]]]

LiveIds(c) == {i \in DOMAIN log: log[i].conv = c /\ log[i].live}

Newest(S, n) == {i \in S: Cardinality({j \in S: j > i}) < n}

\* What the list endpoints return: a page of a channel, all of a DM.
Listing(c, before) ==
  LET older == {i \in LiveIds(c): i < before}
  IN  Increasing(IF c \in DMs THEN LiveIds(c) ELSE Newest(older, PageSize))

FirstPage(c) == Listing(c, Len(log) + 1)

-----------------------------------------------------------------------------
(* Calls.  reply is what the server answered, once done holds. *)

Call(op, c, id) == [op |-> op, conv |-> c, id |-> id, done |-> FALSE, reply |-> <<>>]

\* Two equal calls in flight are taken as one.
Issue(call) ==
  /\ Cardinality(calls) < MaxCalls
  /\ calls' = calls \cup {call}

Finish(call) == calls' = calls \ {call}

\* The messages of c were not extended but replaced.
Replaced(c) ==
  /\ replaced' = replaced \cup {c}
  /\ synced' = IF synced.conv = c THEN NotSynced ELSE synced
  /\ handled' = {id \in handled: log[id].conv # c}

\* The unread counter of c begins anew.
ClearUnread(c) ==
  /\ unread' = [unread EXCEPT ![c] = 0]
  /\ belated' = {id \in belated: log[id].conv # c}

Init ==
  /\ log = <<>> /\ sending = {}
  /\ link = TRUE /\ listening = {} /\ drops = 0 /\ wire = <<>>
  /\ calls = {}
  /\ present = Convs /\ selected = NoConv
  /\ shown = [c \in Convs |-> <<>>]
  /\ unread = [c \in Convs |-> 0]
  /\ loadingOlder = FALSE
  /\ hasOlder = [c \in Convs |-> TRUE]
  /\ synced = NotSynced /\ replaced = {}
  /\ handled = {} /\ missed = {} /\ told = {} /\ belated = {}

-----------------------------------------------------------------------------
(* What the user does. *)

\* A conversation that already has messages is taken as loaded.
SelectConversation(c) ==
  /\ selected' = c
  /\ IF c \in present /\ shown[c] = <<>> THEN Issue(Call("load", c, 0)) ELSE UNCHANGED calls
  /\ UNCHANGED <<server, network, history, present, shown, unread, loadingOlder, hasOlder>>

LoadOlderMessages ==
  /\ selected \in present
  /\ ~loadingOlder
  /\ shown[selected] # <<>>
  /\ hasOlder[selected]
  /\ loadingOlder' = TRUE
  /\ Issue(Call("older", selected, Head(shown[selected])))
  /\ UNCHANGED <<server, network, history, present, selected, shown, unread, hasOlder>>

MarkConversationRead(c) ==
  /\ ClearUnread(c)
  /\ handled' = handled \cup ToSet(shown[c])
  /\ UNCHANGED <<server, network, synced, replaced, missed, told, calls, present, selected, shown,
                 loadingOlder, hasOlder>>

\* Scrolling: close to the top asks for older messages, at the end of a
\* conversation with unread ones marks it read.
HandleMessagesScroll ==
  \/ LoadOlderMessages
  \/ /\ selected \in present /\ unread[selected] > 0
     /\ MarkConversationRead(selected)

RemoveConversation(c) ==
  /\ c \in present
  /\ present' = present \ {c}
  /\ selected' = IF selected = c THEN NoConv ELSE selected
  /\ shown' = [shown EXCEPT ![c] = <<>>]
  /\ ClearUnread(c)
  /\ Replaced(c)
  /\ UNCHANGED <<server, network, missed, told, calls, loadingOlder, hasOlder>>

CreateDM(c) ==
  /\ c \in DMs
  /\ Issue(Call("createDM", c, 0))
  /\ UNCHANGED <<server, network, history, present, selected, shown, unread, loadingOlder,
                 hasOlder>>

SendMessage ==
  /\ selected # NoConv
  /\ Issue(Call("send", selected, 0))
  /\ UNCHANGED <<server, network, history, present, selected, shown, unread, loadingOlder,
                 hasOlder>>

\* removeIncomingMessage, then the call; only for the user's own message.
DeleteMessage(id) ==
  /\ selected \in present
  /\ id \in ToSet(shown[selected]) /\ log[id].mine
  /\ shown' = [shown EXCEPT ![selected] = Without(@, id)]
  /\ Issue(Call("delete", selected, id))
  /\ UNCHANGED <<server, network, history, present, selected, unread, loadingOlder, hasOlder>>

User ==
  \/ \E c \in Convs \cup {NoConv}: SelectConversation(c)
  \/ HandleMessagesScroll
  \/ \E c \in Convs: RemoveConversation(c) \/ CreateDM(c)
  \/ SendMessage
  \/ \E id \in Ids: DeleteMessage(id)

-----------------------------------------------------------------------------
(* The server: it executes a call, and others post and delete. *)

Event(type, id) == [type |-> type, id |-> id]

Post(c, mine) ==
  /\ Len(log) < MaxMessages
  /\ log' = Append(log, [conv |-> c, mine |-> mine, live |-> TRUE])
  /\ sending' = sending \cup {Event("message_created", Len(log) + 1)}

Erase(id) ==
  /\ log' = [log EXCEPT ![id].live = FALSE]
  /\ sending' = IF log[id].live THEN sending \cup {Event("message_deleted", id)} ELSE sending

Serve(call) ==
  /\ ~call.done
  /\ LET Answer(reply) == calls' = (calls \ {call}) \cup {[call EXCEPT !.done = TRUE, !.reply = reply]}
     IN  \/ /\ call.op \in {"load", "sync"}
            /\ Answer(FirstPage(call.conv))
            /\ UNCHANGED <<log, sending>>
         \/ /\ call.op = "older"
            /\ Answer(Reverse(Listing(call.conv, call.id)))
            /\ UNCHANGED <<log, sending>>
         \/ /\ call.op \in {"createDM", "refresh"}
            /\ Answer(<<>>)
            /\ UNCHANGED <<log, sending>>
         \/ /\ call.op = "send"
            /\ Post(call.conv, TRUE)
            /\ Answer(<<Len(log) + 1>>)
         \/ /\ call.op = "delete"
            /\ Erase(call.id)
            /\ Answer(<<>>)
  /\ UNCHANGED <<network, history, present, selected, shown, unread, loadingOlder, hasOlder>>

OthersPost(c) ==
  /\ Post(c, FALSE)
  /\ UNCHANGED <<network, history, calls, present, selected, shown, unread, loadingOlder,
                 hasOlder>>

OthersDelete(id) ==
  /\ id \in DOMAIN log /\ log[id].live /\ ~log[id].mine
  /\ Erase(id)
  /\ UNCHANGED <<network, history, calls, present, selected, shown, unread, loadingOlder,
                 hasOlder>>

\* An attempt to broadcast reaches the gateway, in any order of the handlers;
\* when its answer is late, another attempt follows.
Broadcast(ev, again) ==
  /\ link /\ log[ev.id].conv \in listening
  /\ again => Len(wire) < MaxEvents
  /\ wire' = Append(wire, ev)
  /\ sending' = IF again THEN sending ELSE sending \ {ev}
  /\ UNCHANGED <<log, link, listening, drops, history, calls, present, selected, shown, unread,
                 loadingOlder, hasOlder>>

\* The attempts fail, or the gateway does not get it to this browser: it does
\* not listen (yet, or any more), its subscribers cannot be read, or its
\* buffer is full.
Lose(ev) ==
  /\ sending' = sending \ {ev}
  /\ missed' = IF ev.type = "message_created" THEN missed \cup {ev.id} ELSE missed
  /\ UNCHANGED <<log, network, synced, replaced, handled, told, belated, calls, present, selected,
                 shown, unread, loadingOlder, hasOlder>>

-----------------------------------------------------------------------------
(* The store applies the answer of a call, or its failure. *)

Apply(call, history2) == shown' = [shown EXCEPT ![call.conv] = IF call.conv \in present THEN history2 ELSE @]

\* The answer of the first load replaces the history.
LoadAnswered(call) ==
  /\ call.op = "load"
  /\ Apply(call, SortMessages(call.reply))
  /\ Replaced(call.conv)
  /\ UNCHANGED <<missed, told, belated, present, selected, unread, loadingOlder, hasOlder>>

SyncAnswered(call) ==
  /\ call.op = "sync"
  /\ Apply(call, MergeMessages(shown[call.conv], call.reply))
  \* call.id is the connection it was sent on
  /\ synced' = IF link /\ call.id = drops /\ call.conv \in present \ replaced
               THEN [conv |-> call.conv,
                     from |-> IF call.reply = <<>> THEN 1 ELSE Head(call.reply),
                     upto |-> IF call.reply = <<>> THEN 0 ELSE Last(call.reply)]
               ELSE synced
  /\ UNCHANGED <<replaced, handled, missed, told, belated, present, selected, unread,
                 loadingOlder, hasOlder>>

\* mutant: the page is put in front as it came, newest message first.
OlderAnsweredUnsorted(call) ==
  /\ call.op = "older"
  /\ Apply(call, call.reply \o shown[call.conv])
  /\ hasOlder' = [hasOlder EXCEPT ![call.conv] = Len(call.reply) >= PageSize]
  /\ loadingOlder' = FALSE
  /\ UNCHANGED <<history, present, selected, unread>>

\* mutant: the page takes the place of the newer messages.
OlderAnsweredAlone(call) ==
  /\ call.op = "older"
  /\ Apply(call, SortMessages(Reverse(call.reply)))
  /\ hasOlder' = [hasOlder EXCEPT ![call.conv] = Len(call.reply) >= PageSize]
  /\ loadingOlder' = FALSE
  /\ UNCHANGED <<history, present, selected, unread>>

OlderAnswered(call) ==
  /\ call.op = "older"
  /\ Apply(call, SortMessages(Reverse(call.reply) \o shown[call.conv]))
  /\ hasOlder' = [hasOlder EXCEPT ![call.conv] = Len(call.reply) >= PageSize]
  /\ loadingOlder' = FALSE
  /\ UNCHANGED <<history, present, selected, unread>>

\* The entry of the list is replaced by a fresh one, without messages.
CreateDMAnswered(call) ==
  /\ call.op = "createDM"
  /\ present' = present \cup {call.conv}
  /\ selected' = call.conv
  /\ shown' = [shown EXCEPT ![call.conv] = <<>>]
  /\ ClearUnread(call.conv)
  /\ Replaced(call.conv)
  /\ UNCHANGED <<missed, told, loadingOlder, hasOlder>>

\* The DMs are listed anew; those the store had keep messages and unread.
RefreshAnswered(call) ==
  /\ call.op = "refresh"
  /\ present' = present \cup DMs
  /\ UNCHANGED <<history, selected, shown, unread, loadingOlder, hasOlder>>

\* mutant: a message that is already shown counts again.
AddIncomingCounted(id) ==
  LET c == log[id].conv
  IN  IF c \in present
      THEN /\ shown' = [shown EXCEPT ![c] = MergeMessages(@, <<id>>)]
           /\ unread' = [unread EXCEPT ![c] = IF log[id].mine \/ selected = c THEN @ ELSE @ + 1]
           /\ handled' = IF selected = c /\ id \notin told THEN handled \cup {id} ELSE handled
      ELSE UNCHANGED <<shown, unread, handled>>

\* addIncomingMessage
AddIncoming(id) ==
  LET c == log[id].conv
      isNew == ~Contains(shown[c], id)
  IN  IF c \in present
      THEN /\ shown' = [shown EXCEPT ![c] = MergeMessages(@, <<id>>)]
           /\ unread' = [unread EXCEPT ![c] =
                           IF ~isNew \/ log[id].mine \/ selected = c THEN @ ELSE @ + 1]
           /\ handled' = IF selected = c /\ id \notin told THEN handled \cup {id} ELSE handled
      ELSE UNCHANGED <<shown, unread, handled>>

\* A message sent to a channel comes back on the WebSocket only.
SendAnswered(call) ==
  /\ call.op = "send"
  /\ IF call.conv \in DMs THEN AddIncoming(call.reply[1]) ELSE UNCHANGED <<shown, unread, handled>>
  /\ UNCHANGED <<synced, replaced, missed, told, belated, present, selected, loadingOlder, hasOlder>>

DeleteAnswered(call) ==
  /\ call.op = "delete"
  /\ UNCHANGED <<history, present, selected, shown, unread, loadingOlder, hasOlder>>

Answered(call) ==
  /\ call.done
  /\ Finish(call)
  /\ \/ LoadAnswered(call) \/ SyncAnswered(call) \/ OlderAnswered(call)
     \/ CreateDMAnswered(call) \/ RefreshAnswered(call)
     \/ SendAnswered(call) \/ DeleteAnswered(call)
  /\ UNCHANGED <<server, network>>

\* A call fails, whether the server executed it or not; a failing delete puts
\* the message back.
Failed(call) ==
  /\ Finish(call)
  /\ IF call.op = "delete" THEN Apply(call, SortMessages(shown[call.conv] \o <<call.id>>))
     ELSE UNCHANGED shown
  /\ loadingOlder' = IF call.op = "older" THEN FALSE ELSE loadingOlder
  /\ UNCHANGED <<server, network, history, present, selected, unread, hasOlder>>

-----------------------------------------------------------------------------
(* The WebSocket. *)

\* A new message of a DM also refreshes the list of DMs.
MessageCreated(id) ==
  /\ AddIncoming(id)
  /\ told' = told \cup {id}
  /\ belated' = IF id \in told /\ ~Contains(shown[log[id].conv], id) THEN belated \cup {id} ELSE belated
  /\ calls' = IF log[id].conv \in DMs THEN calls \cup {Call("refresh", log[id].conv, 0)} ELSE calls
  /\ UNCHANGED <<server, link, listening, drops, synced, replaced, missed, present, selected,
                 loadingOlder, hasOlder>>

\* removeIncomingMessage
MessageDeleted(id) ==
  /\ shown' = [shown EXCEPT ![log[id].conv] = Without(@, id)]
  /\ told' = told \cup {id}
  /\ UNCHANGED <<server, link, listening, drops, synced, replaced, handled, missed, belated, calls,
                 present, selected, unread, loadingOlder, hasOlder>>

Receive ==
  /\ link /\ wire # <<>>
  /\ wire' = Tail(wire)
  /\ \/ Head(wire).type = "message_created" /\ MessageCreated(Head(wire).id)
     \/ Head(wire).type = "message_deleted" /\ MessageDeleted(Head(wire).id)

\* onopen: the selected conversation is fetched again. The gateway has not
\* registered the connection yet.
Open ==
  /\ ~link
  /\ link' = TRUE /\ listening' = {} /\ missed' = {}
  /\ calls' = IF selected \in present THEN calls \cup {Call("sync", selected, drops)} ELSE calls
  /\ UNCHANGED <<server, drops, wire, synced, replaced, handled, told, belated, present, selected,
                 shown, unread, loadingOlder, hasOlder>>

\* The gateway has registered the connection, and the user is among the
\* subscribers of c: since an earlier connection, or from now on.
Subscribe(c) ==
  /\ link /\ listening' = listening \cup {c}
  /\ UNCHANGED <<server, link, drops, wire, history, calls, present, selected, shown, unread,
                 loadingOlder, hasOlder>>

Drop ==
  /\ link /\ drops < MaxDrops
  /\ link' = FALSE /\ drops' = drops + 1 /\ wire' = <<>> /\ listening' = {}
  /\ synced' = NotSynced /\ replaced' = {}
  /\ UNCHANGED <<server, handled, missed, told, belated, calls, present, selected, shown, unread,
                 loadingOlder, hasOlder>>

Next ==
  \/ User
  \/ \E call \in calls: Serve(call) \/ Answered(call) \/ Failed(call)
  \/ \E c \in Convs: OthersPost(c) \/ Subscribe(c)
  \/ \E id \in Ids: OthersDelete(id)
  \/ \E ev \in sending, again \in BOOLEAN: Broadcast(ev, again)
  \/ \E ev \in sending: Lose(ev)
  \/ Receive \/ Open \/ Drop

Spec == Init /\ [][Next]_vars

-----------------------------------------------------------------------------
(* Properties *)

TypeOK ==
  /\ \A i \in DOMAIN log: log[i] \in [conv: Convs, mine: BOOLEAN, live: BOOLEAN]
  /\ link \in BOOLEAN /\ drops \in 0..MaxDrops /\ listening \subseteq Convs
  /\ sending \subseteq [type: {"message_created", "message_deleted"}, id: DOMAIN log]
  /\ \A i \in DOMAIN wire: wire[i] \in [type: {"message_created", "message_deleted"},
                                        id: DOMAIN log]
  /\ present \subseteq Convs /\ selected \in Convs \cup {NoConv}
  /\ \A c \in Convs: ToSet(shown[c]) \subseteq {i \in DOMAIN log: log[i].conv = c}
  /\ unread \in [Convs -> Nat]
  /\ loadingOlder \in BOOLEAN /\ hasOlder \in [Convs -> BOOLEAN]
  /\ synced \in [conv: Convs \cup {NoConv}, from: Nat, upto: Nat] /\ replaced \subseteq Convs
  /\ handled \subseteq Ids /\ missed \subseteq Ids /\ told \subseteq Ids /\ belated \subseteq Ids

\* However answers, events and rollbacks interleave, a history shows no
\* message twice and in the order of their creation.
HistoryInOrder ==
  \A c \in Convs: \A i, j \in DOMAIN shown[c]: i < j => shown[c][i] < shown[c][j]

BeingDeleted(id) == \E call \in calls: call.op = "delete" /\ call.id = id

\* Once the selected conversation was resynced on the open connection, each
\* message from the first fetched one on is shown, but for one the user is
\* deleting, and for one created after the server had answered: its event is on
\* its way, or was not broadcast to this connection, which may listen to the
\* conversation only after the resync was answered.
ResyncComplete ==
  synced # NotSynced =>
    \A id \in {i \in LiveIds(synced.conv): i >= synced.from}:
      \/ id \in ToSet(shown[synced.conv])
      \/ BeingDeleted(id)
      \/ /\ id > synced.upto
         /\ \/ \E i \in DOMAIN wire: wire[i] = Event("message_created", id)
            \/ Event("message_created", id) \in sending
            \/ id \in missed

\* A conversation counts as unread only messages of others that were neither
\* read nor seen arriving since the history was last replaced, each once,
\* unless an event that created a message anew came after another of its events:
\* repeated, or overtaken by the deletion.
UnreadIsUnseen ==
  \A c \in Convs:
    (\A id \in belated: log[id].conv # c) =>
      unread[c] <= Cardinality({id \in DOMAIN log:
                                  log[id].conv = c /\ ~log[id].mine /\ id \notin handled})

\* What a history shows disappears only when it is deleted, when the
\* conversation leaves the list, or when the list gets a fresh entry or the
\* first load's answer replaces it: never because of a resync, an older page
\* or a refresh of the DMs.
KeepsShown ==
  [][\A c \in Convs: \A id \in ToSet(shown[c]) \ ToSet(shown'[c]):
       \/ BeingDeleted(id)'
       \/ ~log[id].live /\ wire # <<>> /\ Head(wire).id = id
       \/ \E call \in calls \ calls': call.op \in {"load", "createDM"} /\ call.conv = c
       \/ c \notin present']_vars
=============================================================================
