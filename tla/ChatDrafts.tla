----------------------------- MODULE ChatDrafts -----------------------------
(***************************************************************************)
(* What the user is writing: the composer of the conversation on screen,   *)
(* the drafts of the others, the files attached and the messages being     *)
(* sent.  The drafts live in the zustand store (features/chat/utils/       *)
(* store.ts), the attachments in WorkspaceChatView.tsx, the recording of a *)
(* voice clip in message-composer.tsx and a message to a new recipient in  *)
(* new-message-composer.tsx.  Uploads, sends and created conversations     *)
(* come back after the user may have gone elsewhere.                       *)
(***************************************************************************)
EXTENDS Naturals, FiniteSets

CONSTANTS
  Convs,       \* conversations
  NoConv,      \* selectedConversationId = ""
  Texts,       \* what may be typed, not blank
  Blank,       \* the empty text
  Files,       \* files that may be attached
  ValidFiles,  \* those validateFiles accepts
  MaxSends     \* bound: sends in flight at once

DraftsAssumption ==
  /\ NoConv \notin Convs /\ Blank \notin Texts
  /\ ValidFiles \subseteq Files
  /\ MaxSends \in Nat

VARIABLES
  selected,     \* selectedConversationId
  draft,        \* the text in the composer
  drafts,       \* the saved texts, Blank where undefined
  attached,     \* attachments of the composer: file -> "none", "uploading", "ready"
  home,         \* history: where each file was attached
  sends,        \* messages being sent
  recording,    \* whether a voice clip is recorded
  scheduling,   \* texts being scheduled
  newMessage,   \* the new-message composer: [to, text, files, stage]
  creating,     \* conversations being created
  typed,        \* history: the last text typed in each conversation and not sent
  mixed,        \* history: those where text of another origin was put
  wiped         \* history: those whose text was cleared unsent, or not cleared
                \* when it was scheduled

composer == <<selected, draft, drafts>>
ghosts == <<typed, mixed, wiped>>
vars == <<selected, draft, drafts, attached, home, sends, recording, scheduling,
          newMessage, creating, typed, mixed, wiped>>

Closed == [to |-> NoConv, text |-> Blank, files |-> {}, stage |-> "closed"]
Attachments == {f \in Files: attached[f] # "none"}
NoFiles == [f \in Files |-> "none"]

Init ==
  /\ selected = NoConv /\ draft = Blank
  /\ drafts = [c \in Convs |-> Blank]
  /\ attached = NoFiles /\ home = [f \in Files |-> NoConv]
  /\ sends = {} /\ recording = FALSE /\ scheduling = {}
  /\ newMessage = Closed /\ creating = {}
  /\ typed = [c \in Convs |-> Blank] /\ mixed = {} /\ wiped = {}

-----------------------------------------------------------------------------
(* Moving between conversations. *)

\* An effect drops the attachments when the selection changes, and the
\* composer unmounts, which abandons a recording.
Leave(c) ==
  IF c # selected THEN attached' = NoFiles /\ recording' = FALSE
                  ELSE UNCHANGED <<attached, recording>>

\* mutant: the text is saved under the conversation that is opened.
SavedDraftsMoved(c) ==
  IF selected # NoConv /\ selected # c /\ c # NoConv THEN [drafts EXCEPT ![c] = draft] ELSE drafts

SavedDrafts(c) ==
  IF selected # NoConv /\ selected # c THEN [drafts EXCEPT ![selected] = draft] ELSE drafts

Show(c) ==
  /\ selected' = c
  /\ draft' = IF c = NoConv THEN Blank ELSE drafts[c]
  /\ drafts' = SavedDrafts(c)

SelectConversation(c) ==
  /\ Show(c) /\ Leave(c)
  /\ UNCHANGED <<home, sends, scheduling, newMessage, creating, ghosts>>

\* The draft of a conversation that is left is dropped.
RemoveConversation(c) ==
  /\ drafts' = [drafts EXCEPT ![c] = Blank]
  /\ IF selected = c THEN selected' = NoConv /\ draft' = Blank /\ Leave(NoConv)
                     ELSE UNCHANGED <<selected, draft, attached, recording>>
  /\ typed' = [typed EXCEPT ![c] = Blank] /\ mixed' = mixed \ {c} /\ wiped' = wiped \ {c}
  /\ UNCHANGED <<home, sends, scheduling, newMessage, creating>>

\* createChannel and createDM: a call, and a new selection when it returns.
CreateConversation(c) ==
  /\ creating = {}
  /\ creating' = {c}
  /\ UNCHANGED <<composer, attached, home, sends, recording, scheduling, newMessage, ghosts>>

\* The selection moves and the composer keeps its text.
Land(c) == selected' = c /\ mixed' = IF c = selected THEN mixed ELSE mixed \cup {c}

ConversationCreated(c) ==
  /\ c \in creating /\ creating' = creating \ {c}
  /\ Land(c) /\ Leave(c)
  /\ UNCHANGED <<draft, drafts, home, sends, scheduling, newMessage, typed, wiped>>

CreateFailed(c) ==
  /\ c \in creating /\ creating' = creating \ {c}
  /\ UNCHANGED <<composer, attached, home, sends, recording, scheduling, newMessage, ghosts>>

-----------------------------------------------------------------------------
(* Writing. *)

\* setDraft, called by the editor on every change.
SetDraft(text) ==
  /\ draft' = text
  /\ drafts' = IF selected # NoConv THEN [drafts EXCEPT ![selected] = text] ELSE drafts

Type(text) ==
  /\ selected # NoConv
  /\ SetDraft(text)
  /\ typed' = [typed EXCEPT ![selected] = text]
  /\ mixed' = mixed \ {selected} /\ wiped' = wiped \ {selected}
  /\ UNCHANGED <<selected, attached, home, sends, recording, scheduling, newMessage, creating>>

Attach(S) ==
  /\ attached' = [f \in Files |-> IF f \in S THEN "uploading" ELSE attached[f]]
  /\ home' = [f \in Files |-> IF f \in S THEN selected ELSE home[f]]

\* The file input hands on all it was given once one file is valid.
ChooseFiles(S) ==
  /\ selected # NoConv
  /\ S \cap ValidFiles # {} /\ \A f \in S: home[f] = NoConv
  /\ Attach(S)
  /\ UNCHANGED <<composer, sends, recording, scheduling, newMessage, creating, ghosts>>

StartAudioRecording ==
  /\ selected # NoConv /\ ~recording
  /\ recording' = TRUE
  /\ UNCHANGED <<composer, attached, home, sends, scheduling, newMessage, creating, ghosts>>

\* onstop turns the chunks into a file, if there are any.
StopAudioRecording ==
  /\ recording /\ recording' = FALSE
  /\ \/ \E f \in ValidFiles: home[f] = NoConv /\ Attach({f})
     \/ UNCHANGED <<attached, home>>
  /\ UNCHANGED <<composer, sends, scheduling, newMessage, creating, ghosts>>

\* The end of an upload only matters to an attachment that is still there.
UploadDone(f) ==
  /\ home[f] # NoConv /\ attached[f] = "uploading"
  /\ attached' = [attached EXCEPT ![f] = "ready"]
  /\ UNCHANGED <<composer, home, sends, recording, scheduling, newMessage, creating, ghosts>>

\* A failing upload and the button of the preview drop the attachment.
DropAttachment(f) ==
  /\ attached[f] # "none"
  /\ attached' = [attached EXCEPT ![f] = "none"]
  /\ UNCHANGED <<composer, home, sends, recording, scheduling, newMessage, creating, ghosts>>

-----------------------------------------------------------------------------
(* Sending. *)

\* The text is no draft of the conversation any more, if it was its.
Spent(c, text) == typed' = IF typed[c] = text THEN [typed EXCEPT ![c] = Blank] ELSE typed

\* sendMessage: the texts are cleared before the call is made.
SendMessage(c, text, files) ==
  /\ Cardinality(sends) < MaxSends
  /\ sends' = sends \cup {[conv |-> c, text |-> text, files |-> files]}
  /\ draft' = Blank
  /\ drafts' = [SavedDrafts(c) EXCEPT ![c] = Blank]

\* handleSubmit sends the draft on screen, to the selected conversation, once
\* every attachment is uploaded.
HandleSubmit ==
  /\ selected # NoConv
  /\ draft # Blank \/ Attachments # {}
  /\ \A f \in Attachments: attached[f] = "ready"
  /\ SendMessage(selected, draft, Attachments)
  /\ Spent(selected, draft)
  /\ UNCHANGED <<selected, attached, home, recording, scheduling, newMessage, creating, mixed, wiped>>

\* sendMessage puts the text of a failing send back, on screen too, whatever
\* conversation is there by now, and swallows the error.
PutBack(s) ==
  /\ draft' = s.text
  /\ drafts' = [drafts EXCEPT ![s.conv] = s.text]
  /\ mixed' = mixed \cup ({selected, s.conv} \ {NoConv})

\* Either way handleSubmit clears the attachments afterwards.
SendEnded(s, failed) ==
  /\ s \in sends /\ sends' = sends \ {s}
  /\ attached' = NoFiles
  /\ IF failed THEN PutBack(s) ELSE UNCHANGED <<draft, drafts, mixed>>
  /\ UNCHANGED <<selected, home, recording, scheduling, newMessage, creating, typed, wiped>>

\* onSchedule: the draft is scheduled, then whatever is on screen is cleared.
Schedule ==
  /\ selected # NoConv /\ draft # Blank /\ scheduling = {}
  /\ scheduling' = {[conv |-> selected, text |-> draft]}
  /\ UNCHANGED <<composer, attached, home, sends, recording, newMessage, creating, ghosts>>

Scheduled(s) ==
  /\ s \in scheduling /\ scheduling' = scheduling \ {s}
  /\ SetDraft(Blank)
  /\ Spent(s.conv, s.text)
  /\ wiped' = IF selected = s.conv /\ draft = s.text THEN wiped
              ELSE wiped \cup ({selected, s.conv} \ {NoConv})
  /\ UNCHANGED <<selected, attached, home, sends, recording, newMessage, creating, mixed>>

ScheduleFailed(s) ==
  /\ s \in scheduling /\ scheduling' = scheduling \ {s}
  /\ UNCHANGED <<composer, attached, home, sends, recording, newMessage, creating, ghosts>>

-----------------------------------------------------------------------------
(* The new-message composer. *)

WriteNew(c, text, files) ==
  /\ newMessage.stage = "closed"
  /\ \A f \in files: home[f] = NoConv
  /\ newMessage' = [to |-> c, text |-> text, files |-> files, stage |-> "create"]
  /\ home' = [f \in Files |-> IF f \in files THEN c ELSE home[f]]
  /\ UNCHANGED <<composer, attached, sends, recording, scheduling, creating, ghosts>>

\* An existing conversation is used; for a person without one createDM makes
\* it, which moves the selection.
NewOpened ==
  /\ newMessage.stage = "create"
  /\ newMessage' = [newMessage EXCEPT !.stage = "upload"]
  /\ \/ Land(newMessage.to) /\ Leave(newMessage.to)
     \/ UNCHANGED <<selected, attached, recording, mixed>>
  /\ UNCHANGED <<draft, drafts, home, sends, scheduling, creating, typed, wiped>>

\* Once all files are uploaded: selectConversation and sendMessage, at once.
\* What the user was writing to the recipient is cleared.
NewSent ==
  /\ newMessage.stage = "upload"
  /\ selected' = newMessage.to
  /\ Leave(newMessage.to)
  /\ SendMessage(newMessage.to, newMessage.text, newMessage.files)
  /\ newMessage' = Closed
  /\ wiped' = IF typed[newMessage.to] = Blank THEN wiped ELSE wiped \cup {newMessage.to}
  /\ UNCHANGED <<home, scheduling, creating, typed, mixed>>

\* createDM or an upload failed: the composer stays, or the user closes it.
NewClosed ==
  /\ newMessage.stage # "closed"
  /\ newMessage' = Closed
  /\ UNCHANGED <<composer, attached, home, sends, recording, scheduling, creating, ghosts>>

Next ==
  \/ \E c \in Convs \cup {NoConv}: SelectConversation(c)
  \/ \E c \in Convs: RemoveConversation(c) \/ CreateConversation(c)
                     \/ ConversationCreated(c) \/ CreateFailed(c)
  \/ \E text \in Texts \cup {Blank}: Type(text)
  \/ \E S \in SUBSET Files: ChooseFiles(S)
  \/ StartAudioRecording \/ StopAudioRecording
  \/ \E f \in Files: UploadDone(f) \/ DropAttachment(f)
  \/ HandleSubmit
  \/ \E s \in sends, failed \in BOOLEAN: SendEnded(s, failed)
  \/ Schedule \/ \E s \in scheduling: Scheduled(s) \/ ScheduleFailed(s)
  \/ \E c \in Convs, text \in Texts, files \in SUBSET ValidFiles: WriteNew(c, text, files)
  \/ NewOpened \/ NewSent \/ NewClosed

Spec == Init /\ [][Next]_vars

-----------------------------------------------------------------------------
(* Properties *)

TypeOK ==
  /\ selected \in Convs \cup {NoConv} /\ draft \in Texts \cup {Blank}
  /\ drafts \in [Convs -> Texts \cup {Blank}]
  /\ attached \in [Files -> {"none", "uploading", "ready"}]
  /\ home \in [Files -> Convs \cup {NoConv}]
  /\ sends \subseteq [conv: Convs, text: Texts \cup {Blank}, files: SUBSET Files]
  /\ recording \in BOOLEAN
  /\ scheduling \subseteq [conv: Convs, text: Texts]
  /\ newMessage \in [to: Convs \cup {NoConv}, text: Texts \cup {Blank},
                     files: SUBSET Files, stage: {"closed", "create", "upload"}]
  /\ creating \subseteq Convs
  /\ typed \in [Convs -> Texts \cup {Blank}] /\ mixed \subseteq Convs /\ wiped \subseteq Convs

\* A text typed in a conversation is kept, wherever the user goes meanwhile,
\* until it is sent or scheduled or the conversation is left.  Another text
\* takes its place only when a send fails or a conversation is created (mixed);
\* it is lost only to a schedule that is answered elsewhere or over a later
\* text, which also keeps the scheduled one (WorkspaceChatView.tsx, 265-275),
\* and to a new message to the conversation (wiped).
DraftKept ==
  \A c \in Convs \ (mixed \cup wiped): /\ drafts[c] = typed[c]
                                       /\ c = selected => draft = typed[c]

\* A file is sent to the conversation it was attached in, however late its
\* upload ends and whatever is on screen then.
AttachmentsStayHome ==
  /\ \A s \in sends: \A f \in s.files: home[f] = s.conv
  /\ \A f \in Attachments: home[f] = selected
=============================================================================
