------------------------------ MODULE MCClient ------------------------------
(***************************************************************************)
(* What the chat page keeps of conversations: the history, the drafts, the *)
(* reactions, the panels around a conversation, the edits, the emoji       *)
(* picker and formatted text. They share no variable, so each is explored  *)
(* by itself: the others keep their initial state. focus names the part    *)
(* and the operations explored with each other; a part's variables are     *)
(* bounded by it and nothing else.                                         *)
(***************************************************************************)
EXTENDS Naturals, Sequences, FiniteSets

CONSTANTS
  Channels, DMs, PageSize, MaxMessages, HistoryCalls, MaxDrops,  \* ChatHistory
  MaxEvents,
  Rooms, Phrases, Blank, Files, ValidFiles, MaxSends,            \* ChatDrafts; Rooms: conversations
  Users, Me, Messages, Emojis, MaxChanges, ReactionCalls,        \* ChatReactions
  MaxNews,                                                       \* ... and MessageEdits
  PanelCalls, MaxMoves,                                          \* ConversationPanels
  Texts, FirstText, MaxEdits, MaxListings, MaxSaves,             \* MessageEdits
  a, b, none, words, e1, e2, e3, w1, w2                          \* what the other parts are of

VARIABLE focus

VARIABLES log, sending, link, listening, drops, wire, calls, present, selected, shown, unread,
          loadingOlder, hasOlder, synced, replaced, handled, missed, told, belated
historyVars == <<log, sending, link, listening, drops, wire, calls, present, selected, shown, unread,
                 loadingOlder, hasOlder, synced, replaced, handled, missed, told, belated>>
H == INSTANCE ChatHistory WITH NoConv <- none, MaxCalls <- HistoryCalls

VARIABLES composing, draft, drafts, attached, home, sends, recording, scheduling,
          newMessage, creating, typed, mixed, wiped
draftVars == <<composing, draft, drafts, attached, home, sends, recording, scheduling,
               newMessage, creating, typed, mixed, wiped>>
D == INSTANCE ChatDrafts WITH Convs <- Rooms, NoConv <- none, Texts <- Phrases,
       selected <- composing

VARIABLES stored, unsaid, news, reacting, reactions, fetching, deleting, gone, changes, disturbed
reactionVars == <<stored, unsaid, news, reacting, reactions, fetching, deleting, gone, changes,
                  disturbed>>
R == INSTANCE ChatReactions WITH NoEmoji <- none, MaxCalls <- ReactionCalls

VARIABLES pinned, joined, viewed, visit, pinnedMessages, bannerDismissed, open, items,
          members, chosen, flags, pending, stalePins, staleMembers
panelVars == <<pinned, joined, viewed, visit, pinnedMessages, bannerDismissed, open, items,
               members, chosen, flags, pending, stalePins, staleMembers>>
P == INSTANCE ConversationPanels WITH Convs <- Rooms, NoConv <- none, NoUser <- none,
       MaxCalls <- PanelCalls

VARIABLES storedText, unsaidTexts, newsTexts, text, editing, editor, editDraft, menu, edits,
          made, listings, listed, crossed, keeps, keepCalls, keepMade, keepDisturbed
editVars == <<storedText, unsaidTexts, newsTexts, text, editing, editor, editDraft, menu, edits,
              made, listings, listed, crossed, keeps, keepCalls, keepMade, keepDisturbed>>
E == INSTANCE MessageEdits WITH First <- FirstText, stored <- storedText, unsaid <- unsaidTexts, news <- newsTexts, disturbed <- crossed

VARIABLES uses, quick, mounted, frequent, search, results, behind
pickerVars == <<uses, quick, mounted, frequent, search, results, behind>>
Found(way, surplus) == [by |-> way, off |-> surplus]
\* One use moves an emoji past another kind of match, two reach the limit.
Matches ==
  [q \in {w1, w2} |-> [e \in {e1, e2, e3} |->
     IF q = w2 /\ e = e1 THEN Found("none", 0)
     ELSE IF q = w2 \/ e = e3 THEN Found("keyword", 0)
     ELSE IF e = e1 THEN Found("name", 0) ELSE Found("prefix", 3)]]
K == INSTANCE EmojiPicker WITH Emojis <- <<e1, e2, e3>>, Defaults <- <<e2, e1>>, MaxUses <- 3,
       Queries <- {w1, w2}, Match <- Matches, Blank <- none, FrequentSize <- 2, QuickCount <- 1, SearchLimit <- 2,
       Weight <- 150, TopBonus <- 300, freqs <- uses, open <- mounted

VARIABLE doc
X == INSTANCE RichText WITH Words <- {words}, Break <- none, Marks <- {"strong", "em", "s", "code"},
       MaxRuns <- 3, MaxDepth <- 2

ASSUME ClientConstants ==
  /\ H!HistoryAssumption /\ D!DraftsAssumption /\ R!ReactionsAssumption
  /\ P!PanelsAssumption /\ E!EditsAssumption
ASSUME K!PickerAssumption /\ X!TextAssumption

-----------------------------------------------------------------------------
(* The foci. *)

\* A history is explored one conversation and a few operations at a time; what
\* the network does to events is explored with some of them.
HistoryFocus(c, ops, hazards) == [part |-> "history", conv |-> c, ops |-> ops, hazards |-> hazards]

HistoryFoci ==
  {HistoryFocus(a, {"load", "sync"}, {"drop", "alive"}),
   HistoryFocus(a, {"sync"}, {"drop", "lose", "late"}),
   HistoryFocus(a, {"load", "older"}, {"alive"}),
   HistoryFocus(b, {"load", "createDM", "refresh"}, {"alive"}),
   HistoryFocus(b, {"refresh", "send"}, {}),
   HistoryFocus(a, {"delete", "send"}, {}),
   HistoryFocus(a, {"load", "delete"}, {"again"}),
   HistoryFocus(a, {"load", "send"}, {"remove"})}

HistoryWithin ==
  /\ \A call \in calls': call.conv = focus.conv /\ call.op \in focus.ops
  /\ \A i \in DOMAIN log': log'[i].conv = focus.conv
  /\ selected' \in {focus.conv, none}
  /\ present \ {focus.conv} \subseteq present'
  /\ listening' \subseteq {focus.conv}
  /\ "drop" \in focus.hazards \/ link'
  /\ "remove" \in focus.hazards \/ present \subseteq present'
  /\ "lose" \in focus.hazards \/ (wire' = wire => sending \subseteq sending')
  /\ "late" \in focus.hazards \/ (link /\ listening = {} => listening' # {})
  /\ "again" \in focus.hazards => Len(log') < 2 /\ unread'[focus.conv] < 3
  /\ "alive" \in focus.hazards => \A i \in DOMAIN log': log'[i].live
  /\ "again" \in focus.hazards \/ (Len(wire') > Len(wire) => sending' # sending)

Focus(part, topic) == [part |-> part, topic |-> topic]

OtherFoci ==
  {Focus("drafts", "composer"), Focus("drafts", "newMessage"),
   Focus("reactions", ""),
   Focus("panels", "pins"), Focus("panels", "members"), Focus("panels", "leave"),
   Focus("edits", "edits"), Focus("edits", "keeps"), Focus("picker", ""), Focus("text", "")}

DraftsWithin ==
  IF focus.topic = "composer" THEN newMessage' = newMessage
  ELSE scheduling' = {} /\ recording' = FALSE

PanelOps == [pins |-> {"pin", "unpin", "panelUnpin", "pins", "relist", "items"},
             members |-> {"addMember", "removeMember", "pins", "members"},
             leave |-> {"pins", "leave"}]
Opened == [pins |-> "pinned", members |-> "members", leave |-> "leave"]

PanelsWithin ==
  /\ open' \subseteq {"menu", Opened[focus.topic]}
  /\ \A p \in pending': p.op \in PanelOps[focus.topic]
  /\ IF focus.topic = "pins" THEN joined' = joined /\ (visit' = visit => flags' = flags)
     ELSE pinned' = pinned /\ bannerDismissed' = FALSE
  /\ focus.topic = "members" => flags' = {}

EditsWithin ==
  IF focus.topic = "edits" THEN keeps' = keeps /\ keepCalls' = keepCalls
  ELSE made' = 0 /\ editing' = FALSE /\ listed' = 0

-----------------------------------------------------------------------------

AllVars == <<focus, historyVars, draftVars, reactionVars, panelVars, editVars, pickerVars, doc>>

Init ==
  /\ focus \in HistoryFoci \cup OtherFoci
  /\ H!Init /\ D!Init /\ R!Init /\ P!Init /\ E!Init /\ K!Init /\ X!Init
  \* what another part started from does not matter
  /\ focus.part # "reactions" => stored = [p \in DOMAIN stored |-> none]
  /\ \A p \in DOMAIN stored: stored[p] # e2  \* the emoji are alike
  /\ focus.part # "panels" => pinned = [c \in Rooms |-> {}]
  /\ focus.part # "edits" => ~keeps.stored

Next ==
  /\ UNCHANGED focus
  /\ IF focus.part = "history" THEN H!Next /\ HistoryWithin ELSE UNCHANGED historyVars
  /\ IF focus.part = "drafts" THEN D!Next /\ DraftsWithin ELSE UNCHANGED draftVars
  /\ IF focus.part = "reactions" THEN R!Next ELSE UNCHANGED reactionVars
  /\ IF focus.part = "panels" THEN P!Next /\ PanelsWithin ELSE UNCHANGED panelVars
  /\ IF focus.part = "edits" THEN E!Next /\ EditsWithin ELSE UNCHANGED editVars
  /\ IF focus.part = "picker" THEN K!Next ELSE UNCHANGED pickerVars
  /\ IF focus.part = "text" THEN X!Next ELSE UNCHANGED doc

Spec == Init /\ [][Next]_AllVars

-----------------------------------------------------------------------------
(* The properties, each stated in the module of its part, with its types,   *)
(* and of the part in focus: the others stay as they began.                 *)

\* ChatHistory: a history is in order and shows no message twice, and after a
\* resync nothing is missing but what was not broadcast to the connection.
HistoryAgrees ==
  focus.part = "history" => H!TypeOK /\ H!HistoryInOrder /\ H!ResyncComplete
\* ChatHistory: an unread counter counts each unseen message at most once, but
\* for those created anew.
UnreadIsUnseen == focus.part = "history" => H!UnreadIsUnseen
\* ChatHistory: a resync, an older page or a refresh loses no message.
KeepsShown == H!KeepsShown
\* ChatDrafts: a draft survives any move between conversations and late answers
\* other than the stated ones, and a file is sent to the conversation it was
\* attached in.
ComposerAgrees ==
  focus.part = "drafts" => D!TypeOK /\ D!DraftKept /\ D!AttachmentsStayHome
\* ConversationPanels: pins and members are those of the conversation shown.
PanelsAgree == focus.part = "panels" => P!TypeOK /\ P!PanelsAgree
\* ChatReactions: with nothing under way, the screen shows what is stored, but
\* for the causes stated there; MessageEdits: so does the text, and the editor
\* shows what Save would send.
BubbleAgrees ==
  /\ focus.part = "reactions" => R!TypeOK /\ R!ReactionsAgree
  /\ focus.part = "edits" => E!TypeOK /\ E!EditsAgree /\ E!EditorIsDraft
\* EmojiPicker: the lists it offers are ranked by match and by use;
\* RichText: formats survive being saved as a draft and sent.
WritingAgrees ==
  /\ focus.part = "picker" => K!TypeOK /\ K!PickerAgrees
  /\ focus.part = "text" => X!TypeOK /\ X!FormatKept
=============================================================================
