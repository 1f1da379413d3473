---------------------------- MODULE ClientProofs ----------------------------
(***************************************************************************)
(* Proofs about MCClient: what the chat page shows, for every number of    *)
(* conversations, messages, users, emoji, texts and calls in flight.  Each *)
(* part has an inductive invariant of its own: DraftInv, PanelInv, EditInv *)
(* and ReactionInv here, HistoryInv in HistoryProofs.  They relate what    *)
(* the server has, the calls under way and the screen; the page's is their *)
(* conjunction, since the parts share no variable.                         *)
(***************************************************************************)
EXTENDS HistoryProofs

-----------------------------------------------------------------------------
(* Drafts.  What is attached is so in the conversation on screen, and the  *)
(* new-message composer has files of its own (PlaceInv).                   *)

PlaceInv ==
  /\ D!Attachments # {} \/ recording => composing # none
  /\ newMessage.stage # "closed" =>
       newMessage.to \in Rooms /\ \A f \in newMessage.files : home[f] = newMessage.to

DraftInv == D!TypeOK /\ D!DraftKept /\ D!AttachmentsStayHome /\ PlaceInv

LEMMA DraftInit == ASSUME D!Init PROVE DraftInv
<1>1. D!TypeOK /\ D!Attachments = {}
  BY DEF D!Init, D!TypeOK, D!NoFiles, D!Closed, D!Attachments
<1>2. QED
  BY <1>1 DEF D!Init, D!Closed, DraftInv, PlaceInv, D!DraftKept, D!AttachmentsStayHome

\* Texts do not matter to the files, nor files to the texts.
TextTypes ==
  /\ composing \in Rooms \cup {none} /\ draft \in Phrases \cup {Blank}
  /\ drafts \in [Rooms -> Phrases \cup {Blank}] /\ scheduling \subseteq [conv: Rooms, text: Phrases]
  /\ typed \in [Rooms -> Phrases \cup {Blank}] /\ mixed \subseteq Rooms /\ wiped \subseteq Rooms
FileTypes ==
  /\ attached \in [Files -> {"none", "uploading", "ready"}]
  /\ home \in [Files -> Rooms \cup {none}]
  /\ sends \subseteq [conv: Rooms, text: Phrases \cup {Blank}, files: SUBSET Files]
  /\ recording \in BOOLEAN /\ creating \subseteq Rooms
  /\ newMessage \in [to: Rooms \cup {none}, text: Phrases \cup {Blank},
                     files: SUBSET Files, stage: {"closed", "create", "upload"}]

LEMMA DraftTypes == D!TypeOK <=> TextTypes /\ FileTypes
  BY DEF D!TypeOK, TextTypes, FileTypes

LEMMA LeaveTypes == ASSUME D!TypeOK, NEW c, D!Leave(c)
                    PROVE attached' \in [Files -> {"none", "uploading", "ready"}] /\ recording' \in BOOLEAN
<1>1. D!NoFiles \in [Files -> {"none", "uploading", "ready"}]
  BY DEF D!NoFiles
<1>2. CASE c # composing
  BY <1>1, <1>2 DEF D!Leave
<1>3. CASE c = composing
  BY <1>3 DEF D!Leave, D!TypeOK
<1>4. QED
  BY <1>2, <1>3

LEMMA SelectConversationSafe == ASSUME DraftInv, NEW c \in Rooms \cup {none},
                                       D!SelectConversation(c)
                                PROVE  DraftInv'
<1> USE DEF D!SelectConversation, D!composer, D!ghosts
<1>1. TextTypes'
  BY ClientConstants, DraftTypes DEF D!DraftsAssumption, DraftInv, TextTypes, FileTypes, D!Show,
     D!SavedDrafts
<1>2. FileTypes'
  <2>1. attached' \in [Files -> {"none", "uploading", "ready"}] /\ recording' \in BOOLEAN
    BY LeaveTypes DEF DraftInv, D!TypeOK
  <2>2. QED
    BY <2>1, ClientConstants, DraftTypes DEF D!DraftsAssumption, DraftInv, FileTypes, TextTypes
<1>3. D!DraftKept'
  BY ClientConstants, DraftTypes DEF D!DraftsAssumption, DraftInv, TextTypes, FileTypes,
     D!DraftKept, D!Show, D!SavedDrafts
<1>4. D!AttachmentsStayHome' /\ PlaceInv'
  BY ClientConstants, DraftTypes DEF D!DraftsAssumption, DraftInv, FileTypes, D!AttachmentsStayHome,
     PlaceInv, D!Attachments, D!Show, D!Leave, D!NoFiles
<1>5. QED
  BY <1>1, <1>2, <1>3, <1>4, DraftTypes DEF DraftInv, D!TypeOK, TextTypes, FileTypes

LEMMA RemoveConversationSafe == ASSUME DraftInv, NEW c \in Rooms, D!RemoveConversation(c)
                                PROVE  DraftInv'
<1> USE DEF D!RemoveConversation, D!composer, D!ghosts
<1>1. TextTypes'
  BY ClientConstants, DraftTypes DEF D!DraftsAssumption, DraftInv, TextTypes, FileTypes, D!Leave
<1>2. FileTypes'
  <2>1. CASE D!Leave(none)
    <3>1. attached' \in [Files -> {"none", "uploading", "ready"}] /\ recording' \in BOOLEAN
      BY <2>1, LeaveTypes DEF DraftInv, D!TypeOK
    <3>2. QED
      BY <3>1, DraftTypes DEF DraftInv, FileTypes
  <2>2. CASE UNCHANGED <<attached, recording>>
    BY <2>2, DraftTypes DEF DraftInv, FileTypes
  <2>3. QED
    BY <2>1, <2>2
<1>3. D!DraftKept'
  BY ClientConstants, DraftTypes DEF D!DraftsAssumption, DraftInv, TextTypes, FileTypes,
     D!DraftKept, D!Leave
<1>4. D!AttachmentsStayHome' /\ PlaceInv'
  BY ClientConstants, DraftTypes DEF D!DraftsAssumption, DraftInv, FileTypes, D!AttachmentsStayHome,
     PlaceInv, D!Attachments, D!Leave, D!NoFiles
<1>5. QED
  BY <1>1, <1>2, <1>3, <1>4, DraftTypes DEF DraftInv, D!TypeOK, TextTypes, FileTypes

LEMMA CreateConversationSafe == ASSUME DraftInv, NEW c \in Rooms, D!CreateConversation(c)
                                PROVE  DraftInv'
<1> USE DEF D!CreateConversation, D!composer, D!ghosts
<1>1. TextTypes'
  BY ClientConstants, DraftTypes DEF D!DraftsAssumption, DraftInv, TextTypes, FileTypes
<1>2. FileTypes'
  BY ClientConstants, DraftTypes DEF D!DraftsAssumption, DraftInv, FileTypes, TextTypes
<1>3. D!DraftKept'
  BY ClientConstants, DraftTypes DEF D!DraftsAssumption, DraftInv, TextTypes, FileTypes, D!DraftKept
<1>4. D!AttachmentsStayHome' /\ PlaceInv'
  BY ClientConstants, DraftTypes DEF D!DraftsAssumption, DraftInv, FileTypes, D!AttachmentsStayHome,
     PlaceInv, D!Attachments
<1>5. QED
  BY <1>1, <1>2, <1>3, <1>4, DraftTypes DEF DraftInv, D!TypeOK, TextTypes, FileTypes

LEMMA ConversationCreatedSafe == ASSUME DraftInv, NEW c \in Rooms, D!ConversationCreated(c)
                                 PROVE  DraftInv'
<1> USE DEF D!ConversationCreated, D!composer, D!ghosts
<1>1. TextTypes'
  BY ClientConstants, DraftTypes DEF D!DraftsAssumption, DraftInv, TextTypes, FileTypes, D!Land
<1>2. FileTypes'
  <2>1. attached' \in [Files -> {"none", "uploading", "ready"}] /\ recording' \in BOOLEAN
    BY LeaveTypes DEF DraftInv, D!TypeOK
  <2>2. QED
    BY <2>1, ClientConstants, DraftTypes DEF D!DraftsAssumption, DraftInv, FileTypes, TextTypes, D!Land
<1>3. D!DraftKept'
  BY ClientConstants, DraftTypes DEF D!DraftsAssumption, DraftInv, TextTypes, FileTypes,
     D!DraftKept, D!Land
<1>4. D!AttachmentsStayHome' /\ PlaceInv'
  BY ClientConstants, DraftTypes DEF D!DraftsAssumption, DraftInv, FileTypes, D!AttachmentsStayHome,
     PlaceInv, D!Attachments, D!Land, D!Leave, D!NoFiles
<1>5. QED
  BY <1>1, <1>2, <1>3, <1>4, DraftTypes DEF DraftInv, D!TypeOK, TextTypes, FileTypes

LEMMA CreateFailedSafe == ASSUME DraftInv, NEW c \in Rooms, D!CreateFailed(c) PROVE DraftInv'
<1> USE DEF D!CreateFailed, D!composer, D!ghosts
<1>1. TextTypes'
  BY ClientConstants, DraftTypes DEF D!DraftsAssumption, DraftInv, TextTypes, FileTypes
<1>2. FileTypes'
  BY ClientConstants, DraftTypes DEF D!DraftsAssumption, DraftInv, FileTypes, TextTypes
<1>3. D!DraftKept'
  BY ClientConstants, DraftTypes DEF D!DraftsAssumption, DraftInv, TextTypes, FileTypes, D!DraftKept
<1>4. D!AttachmentsStayHome' /\ PlaceInv'
  BY ClientConstants, DraftTypes DEF D!DraftsAssumption, DraftInv, FileTypes, D!AttachmentsStayHome,
     PlaceInv, D!Attachments
<1>5. QED
  BY <1>1, <1>2, <1>3, <1>4, DraftTypes DEF DraftInv, D!TypeOK, TextTypes, FileTypes

LEMMA TypeSafe == ASSUME DraftInv, NEW text1 \in Phrases \cup {Blank}, D!Type(text1) PROVE DraftInv'
<1> USE DEF D!Type, D!composer, D!ghosts
<1>1. TextTypes'
  BY ClientConstants, DraftTypes DEF D!DraftsAssumption, DraftInv, TextTypes, FileTypes, D!SetDraft
<1>2. FileTypes'
  BY ClientConstants, DraftTypes DEF D!DraftsAssumption, DraftInv, FileTypes, TextTypes
<1>3. D!DraftKept'
  BY ClientConstants, DraftTypes DEF D!DraftsAssumption, DraftInv, TextTypes, FileTypes,
     D!DraftKept, D!SetDraft
<1>4. D!AttachmentsStayHome' /\ PlaceInv'
  BY ClientConstants, DraftTypes DEF D!DraftsAssumption, DraftInv, FileTypes, D!AttachmentsStayHome,
     PlaceInv, D!Attachments
<1>5. QED
  BY <1>1, <1>2, <1>3, <1>4, DraftTypes DEF DraftInv, D!TypeOK, TextTypes, FileTypes

LEMMA ChooseFilesSafe == ASSUME DraftInv, NEW S \in SUBSET Files, D!ChooseFiles(S) PROVE DraftInv'
<1> USE DEF D!ChooseFiles, D!composer, D!ghosts
<1>1. TextTypes'
  BY ClientConstants, DraftTypes DEF D!DraftsAssumption, DraftInv, TextTypes, FileTypes
<1>2. FileTypes'
  BY ClientConstants, DraftTypes DEF D!DraftsAssumption, DraftInv, FileTypes, TextTypes, D!Attach
<1>3. D!DraftKept'
  BY ClientConstants, DraftTypes DEF D!DraftsAssumption, DraftInv, TextTypes, FileTypes, D!DraftKept
<1>4. D!AttachmentsStayHome' /\ PlaceInv'
  BY ClientConstants, DraftTypes DEF D!DraftsAssumption, DraftInv, FileTypes, D!AttachmentsStayHome,
     PlaceInv, D!Attachments, D!Attach
<1>5. QED
  BY <1>1, <1>2, <1>3, <1>4, DraftTypes DEF DraftInv, D!TypeOK, TextTypes, FileTypes

LEMMA StartAudioRecordingSafe == ASSUME DraftInv, D!StartAudioRecording PROVE DraftInv'
<1> USE DEF D!StartAudioRecording, D!composer, D!ghosts
<1>1. TextTypes'
  BY ClientConstants, DraftTypes DEF D!DraftsAssumption, DraftInv, TextTypes, FileTypes
<1>2. FileTypes'
  BY ClientConstants, DraftTypes DEF D!DraftsAssumption, DraftInv, FileTypes, TextTypes
<1>3. D!DraftKept'
  BY ClientConstants, DraftTypes DEF D!DraftsAssumption, DraftInv, TextTypes, FileTypes, D!DraftKept
<1>4. D!AttachmentsStayHome' /\ PlaceInv'
  BY ClientConstants, DraftTypes DEF D!DraftsAssumption, DraftInv, FileTypes, D!AttachmentsStayHome,
     PlaceInv, D!Attachments
<1>5. QED
  BY <1>1, <1>2, <1>3, <1>4, DraftTypes DEF DraftInv, D!TypeOK, TextTypes, FileTypes

LEMMA StopAudioRecordingSafe == ASSUME DraftInv, D!StopAudioRecording PROVE DraftInv'
<1> USE DEF D!StopAudioRecording, D!composer, D!ghosts
<1>1. TextTypes'
  BY ClientConstants, DraftTypes DEF D!DraftsAssumption, DraftInv, TextTypes, FileTypes
<1>2. FileTypes'
  <2>1. CASE \E f \in ValidFiles : home[f] = none /\ D!Attach({f})
    <3>1. PICK f \in ValidFiles : D!Attach({f})
      BY <2>1
    <3>2. attached' \in [Files -> {"none", "uploading", "ready"}]
      BY <3>1, ClientConstants, DraftTypes DEF D!DraftsAssumption, DraftInv, FileTypes, TextTypes,
         D!Attach
    <3>3. home' \in [Files -> Rooms \cup {none}]
      BY <3>1, ClientConstants, DraftTypes DEF D!DraftsAssumption, DraftInv, FileTypes, TextTypes,
         D!Attach
    <3>4. QED
      BY <3>2, <3>3, ClientConstants, DraftTypes DEF D!DraftsAssumption, DraftInv, FileTypes,
         TextTypes
  <2>2. CASE UNCHANGED <<attached, home>>
    BY <2>2, ClientConstants, DraftTypes DEF D!DraftsAssumption, DraftInv, FileTypes, TextTypes
  <2>3. QED
    BY <2>1, <2>2
<1>3. D!DraftKept'
  BY ClientConstants, DraftTypes DEF D!DraftsAssumption, DraftInv, TextTypes, FileTypes, D!DraftKept
<1>4. D!AttachmentsStayHome' /\ PlaceInv'
  BY ClientConstants, DraftTypes DEF D!DraftsAssumption, DraftInv, FileTypes, D!AttachmentsStayHome,
     PlaceInv, D!Attachments, D!Attach
<1>5. QED
  BY <1>1, <1>2, <1>3, <1>4, DraftTypes DEF DraftInv, D!TypeOK, TextTypes, FileTypes

LEMMA UploadDoneSafe == ASSUME DraftInv, NEW f \in Files, D!UploadDone(f) PROVE DraftInv'
<1> USE DEF D!UploadDone, D!composer, D!ghosts
<1>1. TextTypes'
  BY ClientConstants, DraftTypes DEF D!DraftsAssumption, DraftInv, TextTypes, FileTypes
<1>2. FileTypes'
  BY ClientConstants, DraftTypes DEF D!DraftsAssumption, DraftInv, FileTypes, TextTypes
<1>3. D!DraftKept'
  BY ClientConstants, DraftTypes DEF D!DraftsAssumption, DraftInv, TextTypes, FileTypes, D!DraftKept
<1>4. D!AttachmentsStayHome' /\ PlaceInv'
  BY ClientConstants, DraftTypes DEF D!DraftsAssumption, DraftInv, FileTypes, D!AttachmentsStayHome,
     PlaceInv, D!Attachments
<1>5. QED
  BY <1>1, <1>2, <1>3, <1>4, DraftTypes DEF DraftInv, D!TypeOK, TextTypes, FileTypes

LEMMA DropAttachmentSafe == ASSUME DraftInv, NEW f \in Files, D!DropAttachment(f) PROVE DraftInv'
<1> USE DEF D!DropAttachment, D!composer, D!ghosts
<1>1. TextTypes'
  BY ClientConstants, DraftTypes DEF D!DraftsAssumption, DraftInv, TextTypes, FileTypes
<1>2. FileTypes'
  BY ClientConstants, DraftTypes DEF D!DraftsAssumption, DraftInv, FileTypes, TextTypes
<1>3. D!DraftKept'
  BY ClientConstants, DraftTypes DEF D!DraftsAssumption, DraftInv, TextTypes, FileTypes, D!DraftKept
<1>4. D!AttachmentsStayHome' /\ PlaceInv'
  BY ClientConstants, DraftTypes DEF D!DraftsAssumption, DraftInv, FileTypes, D!AttachmentsStayHome,
     PlaceInv, D!Attachments
<1>5. QED
  BY <1>1, <1>2, <1>3, <1>4, DraftTypes DEF DraftInv, D!TypeOK, TextTypes, FileTypes

LEMMA HandleSubmitSafe == ASSUME DraftInv, D!HandleSubmit PROVE DraftInv'
<1> USE DEF D!Spent, D!HandleSubmit, D!composer, D!ghosts
<1>1. TextTypes'
  BY ClientConstants, DraftTypes DEF D!DraftsAssumption, DraftInv, TextTypes, FileTypes,
     D!SendMessage, D!SavedDrafts
<1>2. FileTypes'
  BY ClientConstants, DraftTypes DEF D!DraftsAssumption, DraftInv, FileTypes, TextTypes,
     D!SendMessage, D!Attachments
<1>3. D!DraftKept'
  BY ClientConstants, DraftTypes DEF D!DraftsAssumption, DraftInv, TextTypes, FileTypes,
     D!DraftKept, D!SendMessage, D!SavedDrafts
<1>4. D!AttachmentsStayHome' /\ PlaceInv'
  BY ClientConstants, DraftTypes DEF D!DraftsAssumption, DraftInv, FileTypes, D!AttachmentsStayHome,
     PlaceInv, D!Attachments, D!SendMessage
<1>5. QED
  BY <1>1, <1>2, <1>3, <1>4, DraftTypes DEF DraftInv, D!TypeOK, TextTypes, FileTypes

LEMMA SendEndedSafe == ASSUME DraftInv, NEW s1 \in sends, NEW failed \in BOOLEAN,
                              D!SendEnded(s1, failed)
                       PROVE  DraftInv'
<1> USE DEF D!SendEnded, D!composer, D!ghosts
<1>1. TextTypes'
  BY ClientConstants, DraftTypes DEF D!DraftsAssumption, DraftInv, TextTypes, FileTypes, D!PutBack
<1>2. FileTypes'
  BY ClientConstants, DraftTypes DEF D!DraftsAssumption, DraftInv, FileTypes, TextTypes, D!NoFiles
<1>3. D!DraftKept'
  BY ClientConstants, DraftTypes DEF D!DraftsAssumption, DraftInv, TextTypes, FileTypes,
     D!DraftKept, D!PutBack
<1>4. D!AttachmentsStayHome' /\ PlaceInv'
  BY ClientConstants, DraftTypes DEF D!DraftsAssumption, DraftInv, FileTypes, D!AttachmentsStayHome,
     PlaceInv, D!Attachments, D!NoFiles
<1>5. QED
  BY <1>1, <1>2, <1>3, <1>4, DraftTypes DEF DraftInv, D!TypeOK, TextTypes, FileTypes

LEMMA ScheduleSafe == ASSUME DraftInv, D!Schedule PROVE DraftInv'
<1> USE DEF D!Schedule, D!composer, D!ghosts
<1>1. TextTypes'
  BY ClientConstants, DraftTypes DEF D!DraftsAssumption, DraftInv, TextTypes, FileTypes
<1>2. FileTypes'
  BY ClientConstants, DraftTypes DEF D!DraftsAssumption, DraftInv, FileTypes, TextTypes
<1>3. D!DraftKept'
  BY ClientConstants, DraftTypes DEF D!DraftsAssumption, DraftInv, TextTypes, FileTypes, D!DraftKept
<1>4. D!AttachmentsStayHome' /\ PlaceInv'
  BY ClientConstants, DraftTypes DEF D!DraftsAssumption, DraftInv, FileTypes, D!AttachmentsStayHome,
     PlaceInv, D!Attachments
<1>5. QED
  BY <1>1, <1>2, <1>3, <1>4, DraftTypes DEF DraftInv, D!TypeOK, TextTypes, FileTypes

LEMMA ScheduledSafe == ASSUME DraftInv, NEW s1 \in scheduling, D!Scheduled(s1) PROVE DraftInv'
<1> USE DEF D!Spent, D!Scheduled, D!composer, D!ghosts
<1>1. TextTypes'
  BY ClientConstants, DraftTypes DEF D!DraftsAssumption, DraftInv, TextTypes, FileTypes, D!SetDraft
<1>2. FileTypes'
  BY ClientConstants, DraftTypes DEF D!DraftsAssumption, DraftInv, FileTypes, TextTypes, D!SetDraft
<1>3. D!DraftKept'
  BY ClientConstants, DraftTypes DEF D!DraftsAssumption, DraftInv, TextTypes, FileTypes,
     D!DraftKept, D!SetDraft
<1>4. D!AttachmentsStayHome' /\ PlaceInv'
  BY ClientConstants, DraftTypes DEF D!DraftsAssumption, DraftInv, FileTypes, D!AttachmentsStayHome,
     PlaceInv, D!Attachments, D!SetDraft
<1>5. QED
  BY <1>1, <1>2, <1>3, <1>4, DraftTypes DEF DraftInv, D!TypeOK, TextTypes, FileTypes

LEMMA ScheduleFailedSafe == ASSUME DraftInv, NEW s1 \in scheduling, D!ScheduleFailed(s1)
                            PROVE  DraftInv'
<1> USE DEF D!ScheduleFailed, D!composer, D!ghosts
<1>1. TextTypes'
  BY ClientConstants, DraftTypes DEF D!DraftsAssumption, DraftInv, TextTypes, FileTypes
<1>2. FileTypes'
  BY ClientConstants, DraftTypes DEF D!DraftsAssumption, DraftInv, FileTypes, TextTypes
<1>3. D!DraftKept'
  BY ClientConstants, DraftTypes DEF D!DraftsAssumption, DraftInv, TextTypes, FileTypes, D!DraftKept
<1>4. D!AttachmentsStayHome' /\ PlaceInv'
  BY ClientConstants, DraftTypes DEF D!DraftsAssumption, DraftInv, FileTypes, D!AttachmentsStayHome,
     PlaceInv, D!Attachments
<1>5. QED
  BY <1>1, <1>2, <1>3, <1>4, DraftTypes DEF DraftInv, D!TypeOK, TextTypes, FileTypes

LEMMA WriteNewSafe == ASSUME DraftInv, NEW c \in Rooms, NEW text1 \in Phrases,
                             NEW files1 \in SUBSET ValidFiles, D!WriteNew(c, text1, files1)
                      PROVE  DraftInv'
<1> USE DEF D!WriteNew, D!composer, D!ghosts
<1>1. TextTypes'
  BY ClientConstants, DraftTypes DEF D!DraftsAssumption, DraftInv, TextTypes, FileTypes
<1>2. FileTypes'
  BY ClientConstants, DraftTypes DEF D!DraftsAssumption, DraftInv, FileTypes, TextTypes
<1>3. D!DraftKept'
  BY ClientConstants, DraftTypes DEF D!DraftsAssumption, DraftInv, TextTypes, FileTypes, D!DraftKept
<1>4. D!AttachmentsStayHome' /\ PlaceInv'
  BY ClientConstants, DraftTypes DEF D!DraftsAssumption, DraftInv, FileTypes, D!AttachmentsStayHome,
     PlaceInv, D!Attachments
<1>5. QED
  BY <1>1, <1>2, <1>3, <1>4, DraftTypes DEF DraftInv, D!TypeOK, TextTypes, FileTypes

LEMMA NewOpenedSafe == ASSUME DraftInv, D!NewOpened PROVE DraftInv'
<1> USE DEF D!NewOpened, D!composer, D!ghosts
<1>1. TextTypes'
  BY ClientConstants, DraftTypes DEF D!DraftsAssumption, DraftInv, FileTypes, TextTypes, D!Land,
     PlaceInv
<1>2. FileTypes'
  <2>1. newMessage' \in [to: Rooms \cup {none}, text: Phrases \cup {Blank},
                         files: SUBSET Files, stage: {"closed", "create", "upload"}]
    BY ClientConstants, DraftTypes DEF D!DraftsAssumption, DraftInv, FileTypes, TextTypes
  <2>2. attached' \in [Files -> {"none", "uploading", "ready"}] /\ recording' \in BOOLEAN
    BY LeaveTypes DEF DraftInv, D!TypeOK
  <2>3. QED
    BY <2>1, <2>2, ClientConstants, DraftTypes DEF D!DraftsAssumption, DraftInv, FileTypes,
       TextTypes
<1>3. D!DraftKept'
  BY ClientConstants, DraftTypes DEF D!DraftsAssumption, DraftInv, TextTypes, FileTypes,
     D!DraftKept, D!Land
<1>4. D!AttachmentsStayHome' /\ PlaceInv'
  BY ClientConstants, DraftTypes DEF D!DraftsAssumption, DraftInv, FileTypes, D!AttachmentsStayHome,
     PlaceInv, D!Attachments, D!Land, D!Leave, D!NoFiles
<1>5. QED
  BY <1>1, <1>2, <1>3, <1>4, DraftTypes DEF DraftInv, D!TypeOK, TextTypes, FileTypes

LEMMA NewSentSafe == ASSUME DraftInv, D!NewSent PROVE DraftInv'
<1> USE DEF D!NewSent, D!composer, D!ghosts
<1>1. TextTypes'
  <2>1. newMessage.to \in Rooms
    BY ClientConstants, DraftTypes DEF D!DraftsAssumption, DraftInv, FileTypes, TextTypes, PlaceInv
  <2>2. D!SavedDrafts(newMessage.to) \in [Rooms -> Phrases \cup {Blank}]
    BY DraftTypes DEF DraftInv, TextTypes, D!SavedDrafts
  <2>3. drafts' \in [Rooms -> Phrases \cup {Blank}]
    BY <2>2 DEF D!SendMessage
  <2>4. composing' \in Rooms \cup {none} /\ draft' \in Phrases \cup {Blank} /\ wiped' \subseteq Rooms
    BY <2>1, DraftTypes DEF DraftInv, TextTypes, D!SendMessage
  <2>5. QED
    BY <2>3, <2>4, DraftTypes DEF DraftInv, TextTypes
<1>2. FileTypes'
  <2>1. newMessage.to \in Rooms /\ newMessage.text \in Phrases \cup {Blank}
        /\ newMessage.files \in SUBSET Files /\ newMessage' = D!Closed
    BY ClientConstants, DraftTypes DEF D!DraftsAssumption, DraftInv, FileTypes, TextTypes, PlaceInv
  <2>2. sends' \subseteq [conv: Rooms, text: Phrases \cup {Blank}, files: SUBSET Files]
    BY <2>1, ClientConstants, DraftTypes DEF D!DraftsAssumption, DraftInv, FileTypes, TextTypes,
       D!SendMessage
  <2>3. attached' \in [Files -> {"none", "uploading", "ready"}] /\ recording' \in BOOLEAN
    BY LeaveTypes DEF DraftInv, D!TypeOK
  <2>4. QED
    BY <2>1, <2>2, <2>3, ClientConstants, DraftTypes DEF D!DraftsAssumption, DraftInv, FileTypes,
       TextTypes, D!Closed
<1>3. D!DraftKept'
  BY ClientConstants, DraftTypes DEF D!DraftsAssumption, DraftInv, TextTypes, FileTypes,
     D!DraftKept, D!SendMessage, D!SavedDrafts
<1>4. D!AttachmentsStayHome' /\ PlaceInv'
  BY ClientConstants, DraftTypes DEF D!DraftsAssumption, DraftInv, FileTypes, D!AttachmentsStayHome,
     PlaceInv, D!Attachments, D!SendMessage, D!Leave, D!NoFiles, D!Closed
<1>5. QED
  BY <1>1, <1>2, <1>3, <1>4, DraftTypes DEF DraftInv, D!TypeOK, TextTypes, FileTypes

LEMMA NewClosedSafe == ASSUME DraftInv, D!NewClosed PROVE DraftInv'
<1> USE DEF D!NewClosed, D!composer, D!ghosts
<1>1. TextTypes'
  BY ClientConstants, DraftTypes DEF D!DraftsAssumption, DraftInv, TextTypes, FileTypes
<1>2. FileTypes'
  BY ClientConstants, DraftTypes DEF D!DraftsAssumption, DraftInv, FileTypes, TextTypes, D!Closed
<1>3. D!DraftKept'
  BY ClientConstants, DraftTypes DEF D!DraftsAssumption, DraftInv, TextTypes, FileTypes, D!DraftKept
<1>4. D!AttachmentsStayHome' /\ PlaceInv'
  BY ClientConstants, DraftTypes DEF D!DraftsAssumption, DraftInv, FileTypes, D!AttachmentsStayHome,
     PlaceInv, D!Attachments, D!Closed
<1>5. QED
  BY <1>1, <1>2, <1>3, <1>4, DraftTypes DEF DraftInv, D!TypeOK, TextTypes, FileTypes

LEMMA DraftStep == DraftInv /\ [D!Next]_draftVars => DraftInv'
<1> SUFFICES ASSUME DraftInv, [D!Next]_draftVars PROVE DraftInv'
  OBVIOUS
<1>1. CASE UNCHANGED draftVars
  BY <1>1 DEF draftVars, DraftInv, D!TypeOK, D!DraftKept, D!AttachmentsStayHome, D!Attachments,
     PlaceInv
<1>2. CASE D!Next
  BY <1>2, SelectConversationSafe, RemoveConversationSafe, CreateConversationSafe,
     ConversationCreatedSafe, CreateFailedSafe, TypeSafe, ChooseFilesSafe, StartAudioRecordingSafe,
     StopAudioRecordingSafe, UploadDoneSafe, DropAttachmentSafe, HandleSubmitSafe, SendEndedSafe,
     ScheduleSafe, ScheduledSafe, ScheduleFailedSafe, WriteNewSafe, NewOpenedSafe, NewSentSafe,
     NewClosedSafe DEF D!Next
<1>3. QED
  BY <1>1, <1>2

-----------------------------------------------------------------------------
(* Panels.  While no cause of disagreement has occurred, one call about the *)
(* pins of the conversation on screen is under way at most, and one about   *)
(* its members: what it will answer is the server's, or what it will take   *)
(* out of the panel leaves the server's.                                    *)

PanelCall(p) ==
  /\ p \in [op: P!PinWrites \cup P!MemberWrites \cup {"pins", "relist", "items", "members", "leave"},
            conv: Rooms, visit: 0..P!Gone, arg: SUBSET (Messages \cup Users), done: BOOLEAN,
            reply: SUBSET (Messages \cup Users)]
  /\ p.op \in P!MemberWrites \cup {"members", "leave"} => p.conv \in Channels /\ p.arg \subseteq Users
  /\ p.op = "members" => p.reply \subseteq Users
  /\ p.op \in P!PinWrites \cup {"pins", "relist", "items"} =>
       p.arg \subseteq Messages /\ p.reply \subseteq Messages

\* A call is of this visit or an earlier one, or of nobody any more.
CallsInv == \A p \in pending : PanelCall(p)
VisitInv ==
  /\ \A p \in pending : (p.visit <= visit \/ p.visit = P!Gone)
  /\ viewed # none => visit <= MaxMoves /\ \A p \in pending : p.visit = visit => p.conv = viewed
  /\ viewed = none => open = {}
  /\ "members" \in open \/ "leave" \in open => viewed \in Channels

PinCall(p) == p \in pending /\ p.visit = visit /\ p.op \in P!PinWrites \cup {"pins", "relist"}
MemberCall(p) == p \in pending /\ p.visit = visit /\ p.op \in P!MemberWrites \cup {"members"}
BeingLeft == \E p \in pending : p.op = "leave" /\ p.conv = viewed

PinsInv ==
  viewed # none /\ ~stalePins =>
    /\ \A p \in pending : p.op \in P!PinWrites \cup {"relist"} => p.visit = visit /\ p.op # "panelUnpin"
    /\ \A p, q \in pending : PinCall(p) /\ PinCall(q) => p = q
    /\ \A p \in pending : PinCall(p) /\ p.op \in {"pins", "relist"} /\ p.done => p.reply = pinned[viewed]
    /\ (\A p \in pending : ~PinCall(p)) => pinnedMessages = pinned[viewed]

MembersInv ==
  /\ viewed # none /\ "members" \notin open => \A p \in pending : ~MemberCall(p)
  /\ "members" \in open /\ ~staleMembers =>
       /\ \A p \in pending : p.op \in P!MemberWrites => p.visit = visit
       /\ \A p, q \in pending : MemberCall(p) /\ MemberCall(q) => p = q
       /\ \/ BeingLeft
          \/ /\ \A p \in pending : MemberCall(p) =>
                  /\ p.op = "members" /\ p.done => p.reply = joined[viewed]
                  /\ p.op = "removeMember" /\ p.done => members \ p.arg = joined[viewed]
                  /\ p.op = "removeMember" /\ ~p.done => members = joined[viewed]
             /\ (\A p \in pending : ~MemberCall(p)) => members = joined[viewed]

PanelInv == P!TypeOK /\ CallsInv /\ VisitInv /\ PinsInv /\ MembersInv

LEMMA PanelSafe == PanelInv => P!TypeOK /\ P!PanelsAgree
<1> SUFFICES ASSUME PanelInv PROVE P!PinsAgree /\ P!MembersAgree
  BY DEF PanelInv, P!PanelsAgree
<1>1. P!PinsAgree
  BY DEF PanelInv, PinsInv, PinCall, P!PinsAgree
<1>2. "members" \in open => viewed # none
  BY ClientConstants DEF PanelInv, VisitInv, P!PanelsAssumption
<1>3. P!MembersAgree
  BY <1>2 DEF PanelInv, MembersInv, MemberCall, BeingLeft, P!MembersAgree
<1>4. QED
  BY <1>1, <1>3

LEMMA CallIs == ASSUME NEW op, NEW c, NEW v, NEW x
                PROVE  /\ P!Call(op, c, v, x).op = op /\ P!Call(op, c, v, x).conv = c
                       /\ P!Call(op, c, v, x).visit = v /\ P!Call(op, c, v, x).arg = x
                       /\ ~P!Call(op, c, v, x).done
  BY DEF P!Call

LEMMA CallTyped == ASSUME NEW op, NEW c \in Rooms, NEW v \in 0..P!Gone, NEW x,
                          \/ op \in P!PinWrites \cup {"pins", "relist", "items"} /\ x \in SUBSET Messages
                          \/ /\ op \in P!MemberWrites \cup {"members", "leave"} /\ c \in Channels
                             /\ x \in SUBSET Users
                   PROVE  PanelCall(P!Call(op, c, v, x))
<1>1. op \in P!PinWrites \cup P!MemberWrites \cup {"pins", "relist", "items", "members", "leave"}
      /\ x \in SUBSET (Messages \cup Users)
  BY DEF P!PinWrites, P!MemberWrites
<1>2. QED
  BY <1>1 DEF P!Call, PanelCall, P!PinWrites, P!MemberWrites

LEMMA PanelInit == ASSUME P!Init PROVE PanelInv
<1>1. P!Gone \in Nat /\ 0 \in 0..P!Gone /\ 0 <= MaxMoves /\ viewed \in Channels /\ viewed \in Rooms /\ viewed # none
  BY ClientConstants DEF P!Init, P!PanelsAssumption, P!Gone
<1>2. pending = {P!Call("pins", viewed, 0, {})} /\ visit = 0
  BY DEF P!Init, P!Here
<1>3. CallsInv
  BY <1>1, <1>2, CallTyped DEF CallsInv
<1>4. P!TypeOK
  BY <1>1, <1>3, ClientConstants DEF P!Init, P!TypeOK, P!PanelsAssumption, CallsInv, PanelCall
<1>5. VisitInv
  BY <1>1, <1>2 DEF P!Init, VisitInv, P!Call
<1>6. PinsInv /\ MembersInv
  BY <1>2 DEF P!Init, PinsInv, MembersInv, PinCall, MemberCall, P!Call, P!MemberWrites, P!PinWrites
<1>7. QED
  BY <1>3, <1>4, <1>5, <1>6 DEF PanelInv

\* A call that is made, and those that are left to nobody.
LEMMA Started == ASSUME PanelInv, viewed # none, NEW op, NEW x, P!Start(P!Here(op, x)),
                        \/ op \in P!PinWrites \cup {"items"} /\ x \in SUBSET Messages
                        \/ /\ op \in P!MemberWrites \cup {"members", "leave"} /\ viewed \in Channels
                           /\ x \in SUBSET Users
                 PROVE  \E h : /\ pending' = pending \cup {h} /\ PanelCall(h)
                               /\ h.op = op /\ h.visit = visit /\ h.conv = viewed /\ h.arg = x /\ ~h.done
<1>1. visit \in 0..P!Gone /\ viewed \in Rooms
  BY DEF PanelInv, P!TypeOK
<1>2. PanelCall(P!Here(op, x))
  BY <1>1, CallTyped DEF P!Here
<1>3. /\ P!Here(op, x).op = op /\ P!Here(op, x).visit = visit /\ P!Here(op, x).conv = viewed
      /\ P!Here(op, x).arg = x /\ ~P!Here(op, x).done
  BY CallIs DEF P!Here
<1>4. pending' = pending \cup {P!Here(op, x)}
  BY DEF P!Start
<1>5. QED
  BY <1>2, <1>3, <1>4

\* Leaving a conversation cancels what its panels wait for.
LEMMA Cancelled == ASSUME CallsInv,
                          NEW q \in P!Detached({"pins", "items", "members"} \cup P!MemberWrites)
                   PROVE  /\ PanelCall(q)
                          /\ q.visit = P!Gone \/ (q \in pending /\ q.op \in P!PinWrites \cup {"relist", "leave"})
                          /\ \E p \in pending : p.op = q.op /\ p.conv = q.conv
<1>1. PICK p \in pending : q = IF p.op \in {"pins", "items", "members"} \cup P!MemberWrites
                               THEN [p EXCEPT !.visit = P!Gone] ELSE p
  BY DEF P!Detached
<1>2. PanelCall(p) /\ P!Gone \in 0..P!Gone
  BY ClientConstants DEF CallsInv, P!PanelsAssumption, P!Gone
<1>3. CASE p.op \in {"pins", "items", "members"} \cup P!MemberWrites
  <2>1. q = [p EXCEPT !.visit = P!Gone]
    BY <1>1, <1>3
  <2>2. q.op = p.op /\ q.conv = p.conv /\ q.visit = P!Gone /\ q.arg = p.arg /\ q.reply = p.reply
        /\ q \in [op: P!PinWrites \cup P!MemberWrites \cup {"pins", "relist", "items", "members", "leave"},
                 conv: Rooms, visit: 0..P!Gone, arg: SUBSET (Messages \cup Users), done: BOOLEAN,
                 reply: SUBSET (Messages \cup Users)]
    BY <1>2, <2>1 DEF PanelCall
  <2>3. PanelCall(q)
    BY <1>2, <2>2 DEF PanelCall
  <2>4. q.op = p.op /\ q.conv = p.conv /\ q.visit = P!Gone
    BY <2>2
  <2>5. \E p2 \in pending : p2.op = q.op /\ p2.conv = q.conv
    BY <2>4
  <2>6. q.visit = P!Gone \/ (q \in pending /\ q.op \in P!PinWrites \cup {"relist", "leave"})
    BY <2>4
  <2>7. QED
    BY <2>3, <2>5, <2>6
<1>4. CASE p.op \notin {"pins", "items", "members"} \cup P!MemberWrites
  BY <1>1, <1>2, <1>4 DEF PanelCall
<1>5. QED
  BY <1>3, <1>4

LEMMA SelectConversationAgrees == ASSUME PanelInv, NEW c \in Rooms, P!SelectConversation(c)
                                  PROVE  PanelInv'
<1>a. /\ pending' = P!Detached({"pins", "items", "members"} \cup P!MemberWrites)
                     \cup {P!Call("pins", c, visit + 1, {})}
      /\ PanelCall(P!Call("pins", c, visit + 1, {}))
  <2>1. visit + 1 \in 0..P!Gone /\ c \in Rooms
    BY ClientConstants DEF P!SelectConversation, PanelInv, P!TypeOK, P!Gone, P!PanelsAssumption
  <2>2. QED
    BY <2>1, CallTyped DEF P!SelectConversation
<1>0. \A q \in P!Detached({"pins", "items", "members"} \cup P!MemberWrites) :
        /\ PanelCall(q)
        /\ q.visit = P!Gone \/ (q \in pending /\ q.op \in P!PinWrites \cup {"relist", "leave"})
        /\ \E p \in pending : p.op = q.op /\ p.conv = q.conv
  <2>1. CallsInv
    BY DEF PanelInv
  <2>2. QED
    BY <2>1, Cancelled
<1>1. CallsInv'
  BY <1>a, CallIs, <1>0, ClientConstants DEF P!PanelsAssumption, P!SelectConversation, P!remote,
     P!area, P!header, P!ghosts, P!Show, PanelInv, CallsInv, PanelCall, P!TypeOK, P!Gone,
     P!MemberWrites, P!PinWrites
<1>2. P!TypeOK'
  <2>1. visit' \in 0..P!Gone /\ viewed' \in Rooms \cup {none}
    BY ClientConstants DEF P!PanelsAssumption, P!SelectConversation, P!Show, PanelInv, P!TypeOK,
       P!Gone
  <2>2. \A p \in pending' : p.conv \in Rooms /\ p.visit \in 0..P!Gone
    BY <1>1 DEF CallsInv, PanelCall
  <2>3. QED
    BY <2>1, <2>2 DEF P!SelectConversation, P!Show, P!remote, PanelInv, P!TypeOK
<1>3. VisitInv'
  BY <1>a, CallIs, <1>0, ClientConstants DEF P!PanelsAssumption, P!SelectConversation, P!remote,
     P!area, P!header, P!ghosts, P!Show, PanelInv, P!TypeOK, VisitInv, CallsInv, PanelCall, P!Gone,
     P!MemberWrites, P!PinWrites
<1>4. PinsInv'
  BY <1>a, CallIs, <1>0, ClientConstants DEF P!PanelsAssumption, P!SelectConversation, P!remote,
     P!area, P!header, P!ghosts, P!Show, PanelInv, P!TypeOK, VisitInv, CallsInv, PanelCall, P!Gone,
     PinsInv, PinCall, P!MemberWrites, P!PinWrites
<1>5. MembersInv'
  BY <1>a, CallIs, <1>0, ClientConstants DEF P!PanelsAssumption, P!SelectConversation, P!remote,
     P!area, P!header, P!ghosts, P!Show, PanelInv, P!TypeOK, VisitInv, CallsInv, PanelCall, P!Gone,
     MembersInv, MemberCall, BeingLeft, P!MemberWrites, P!PinWrites
<1>6. QED
  BY <1>1, <1>2, <1>3, <1>4, <1>5 DEF PanelInv

LEMMA CloseAgrees == ASSUME PanelInv, P!Close PROVE PanelInv'
<1>0. \A q \in P!Detached({"pins", "items", "members"} \cup P!MemberWrites) :
        /\ PanelCall(q)
        /\ q.visit = P!Gone \/ (q \in pending /\ q.op \in P!PinWrites \cup {"relist", "leave"})
        /\ \E p \in pending : p.op = q.op /\ p.conv = q.conv
  <2>1. CallsInv
    BY DEF PanelInv
  <2>2. QED
    BY <2>1, Cancelled
<1>1. CallsInv'
  BY <1>0, ClientConstants DEF P!PanelsAssumption, P!Close, P!remote, P!area, P!header, P!ghosts,
     P!Show, PanelInv, CallsInv, PanelCall, P!TypeOK, P!Gone, P!MemberWrites, P!PinWrites
<1>2. P!TypeOK'
  <2>1. visit' \in 0..P!Gone /\ viewed' \in Rooms \cup {none}
    BY ClientConstants DEF P!PanelsAssumption, P!Close, P!Show, PanelInv, P!TypeOK, P!Gone
  <2>2. \A p \in pending' : p.conv \in Rooms /\ p.visit \in 0..P!Gone
    BY <1>1 DEF CallsInv, PanelCall
  <2>3. QED
    BY <2>1, <2>2 DEF P!Close, P!Show, P!remote, PanelInv, P!TypeOK
<1>3. VisitInv'
  BY <1>0, ClientConstants DEF P!PanelsAssumption, P!Close, P!remote, P!area, P!header, P!ghosts,
     P!Show, PanelInv, P!TypeOK, VisitInv, CallsInv, PanelCall, P!Gone, P!MemberWrites, P!PinWrites
<1>4. PinsInv'
  BY <1>0, ClientConstants DEF P!PanelsAssumption, P!Close, P!remote, P!area, P!header, P!ghosts,
     P!Show, PanelInv, P!TypeOK, VisitInv, CallsInv, PanelCall, P!Gone, PinsInv, PinCall,
     P!MemberWrites, P!PinWrites
<1>5. MembersInv'
  BY <1>0, ClientConstants DEF P!PanelsAssumption, P!Close, P!remote, P!area, P!header, P!ghosts,
     P!Show, PanelInv, P!TypeOK, VisitInv, CallsInv, PanelCall, P!Gone, MembersInv, MemberCall,
     BeingLeft, P!MemberWrites, P!PinWrites
<1>6. QED
  BY <1>1, <1>2, <1>3, <1>4, <1>5 DEF PanelInv

LEMMA TogglePinAgrees == ASSUME PanelInv, NEW m1 \in Messages, P!TogglePin(m1) PROVE PanelInv'
<1>0. PICK h : /\ pending' = pending \cup {h} /\ PanelCall(h) /\ h.op \in {"pin", "unpin"}
               /\ h.visit = visit /\ h.conv = viewed /\ ~h.done
  BY Started DEF P!TogglePin, P!PinWrites
<1>1. CallsInv'
  BY <1>0, ClientConstants DEF P!PanelsAssumption, P!TogglePin, P!remote, P!area, P!header,
     P!ghosts, PanelInv, CallsInv, PanelCall, P!TypeOK, P!Gone, P!MemberWrites, P!PinWrites
<1>2. P!TypeOK'
  BY <1>1, <1>0, ClientConstants DEF P!PanelsAssumption, P!TogglePin, P!remote, P!area, P!header,
     P!ghosts, PanelInv, P!TypeOK, CallsInv, PanelCall, P!Widgets, P!Buttons, P!Gone,
     P!MemberWrites, P!PinWrites
<1>3. VisitInv'
  BY <1>0, ClientConstants DEF P!PanelsAssumption, P!TogglePin, P!remote, P!area, P!header,
     P!ghosts, PanelInv, P!TypeOK, VisitInv, CallsInv, PanelCall, P!Gone, P!MemberWrites,
     P!PinWrites
<1>4. PinsInv'
  BY <1>0, ClientConstants DEF P!PanelsAssumption, P!TogglePin, P!remote, P!area, P!header,
     P!ghosts, PanelInv, P!TypeOK, VisitInv, CallsInv, PanelCall, P!Gone, PinsInv, PinCall,
     P!MemberWrites, P!PinWrites
<1>5. MembersInv'
  BY <1>0, ClientConstants DEF P!PanelsAssumption, P!TogglePin, P!remote, P!area, P!header,
     P!ghosts, PanelInv, P!TypeOK, VisitInv, CallsInv, PanelCall, P!Gone, MembersInv, MemberCall,
     BeingLeft, P!MemberWrites, P!PinWrites
<1>6. QED
  BY <1>1, <1>2, <1>3, <1>4, <1>5 DEF PanelInv

LEMMA DismissBannerAgrees == ASSUME PanelInv, P!DismissBanner PROVE PanelInv'
<1>1. CallsInv'
  BY ClientConstants DEF P!PanelsAssumption, P!DismissBanner, P!remote, P!area, P!header, P!ghosts,
     PanelInv, CallsInv, PanelCall, P!TypeOK, P!Gone, P!MemberWrites, P!PinWrites
<1>2. P!TypeOK'
  BY <1>1, ClientConstants DEF P!PanelsAssumption, P!DismissBanner, P!remote, P!area, P!header,
     P!ghosts, PanelInv, P!TypeOK, CallsInv, PanelCall, P!Widgets, P!Buttons, P!Gone,
     P!MemberWrites, P!PinWrites
<1>3. VisitInv'
  BY ClientConstants DEF P!PanelsAssumption, P!DismissBanner, P!remote, P!area, P!header, P!ghosts,
     PanelInv, P!TypeOK, VisitInv, CallsInv, PanelCall, P!Gone, P!MemberWrites, P!PinWrites
<1>4. PinsInv'
  BY ClientConstants DEF P!PanelsAssumption, P!DismissBanner, P!remote, P!area, P!header, P!ghosts,
     PanelInv, P!TypeOK, VisitInv, CallsInv, PanelCall, P!Gone, PinsInv, PinCall, P!MemberWrites,
     P!PinWrites
<1>5. MembersInv'
  BY ClientConstants DEF P!PanelsAssumption, P!DismissBanner, P!remote, P!area, P!header, P!ghosts,
     PanelInv, P!TypeOK, VisitInv, CallsInv, PanelCall, P!Gone, MembersInv, MemberCall, BeingLeft,
     P!MemberWrites, P!PinWrites
<1>6. QED
  BY <1>1, <1>2, <1>3, <1>4, <1>5 DEF PanelInv

LEMMA ToggleButtonAgrees == ASSUME PanelInv, NEW w \in P!Buttons, P!ToggleButton(w) PROVE PanelInv'
<1>1. CallsInv'
  BY ClientConstants DEF P!PanelsAssumption, P!ToggleButton, P!remote, P!area, P!header, P!ghosts,
     PanelInv, CallsInv, PanelCall, P!TypeOK, P!Gone, P!MemberWrites, P!PinWrites
<1>2. P!TypeOK'
  BY <1>1, ClientConstants DEF P!PanelsAssumption, P!ToggleButton, P!remote, P!area, P!header,
     P!ghosts, PanelInv, P!TypeOK, CallsInv, PanelCall, P!Widgets, P!Buttons, P!Gone,
     P!MemberWrites, P!PinWrites
<1>3. VisitInv'
  BY ClientConstants DEF P!PanelsAssumption, P!ToggleButton, P!remote, P!area, P!header, P!ghosts,
     PanelInv, P!TypeOK, VisitInv, CallsInv, PanelCall, P!Gone, P!MemberWrites, P!PinWrites
<1>4. PinsInv'
  BY ClientConstants DEF P!PanelsAssumption, P!ToggleButton, P!remote, P!area, P!header, P!ghosts,
     PanelInv, P!TypeOK, VisitInv, CallsInv, PanelCall, P!Gone, PinsInv, PinCall, P!MemberWrites,
     P!PinWrites
<1>5. MembersInv'
  BY ClientConstants DEF P!PanelsAssumption, P!ToggleButton, P!remote, P!area, P!header, P!ghosts,
     PanelInv, P!TypeOK, VisitInv, CallsInv, PanelCall, P!Gone, MembersInv, MemberCall, BeingLeft,
     P!MemberWrites, P!PinWrites
<1>6. QED
  BY <1>1, <1>2, <1>3, <1>4, <1>5 DEF PanelInv

LEMMA ToggleMenuAgrees == ASSUME PanelInv, P!ToggleMenu PROVE PanelInv'
<1>1. CallsInv'
  BY ClientConstants DEF P!PanelsAssumption, P!ToggleMenu, P!remote, P!area, P!header, P!ghosts,
     PanelInv, CallsInv, PanelCall, P!TypeOK, P!Gone, P!MemberWrites, P!PinWrites
<1>2. P!TypeOK'
  BY <1>1, ClientConstants DEF P!PanelsAssumption, P!ToggleMenu, P!remote, P!area, P!header,
     P!ghosts, PanelInv, P!TypeOK, CallsInv, PanelCall, P!Widgets, P!Buttons, P!Gone,
     P!MemberWrites, P!PinWrites
<1>3. VisitInv'
  BY ClientConstants DEF P!PanelsAssumption, P!ToggleMenu, P!remote, P!area, P!header, P!ghosts,
     PanelInv, P!TypeOK, VisitInv, CallsInv, PanelCall, P!Gone, P!MemberWrites, P!PinWrites
<1>4. PinsInv'
  BY ClientConstants DEF P!PanelsAssumption, P!ToggleMenu, P!remote, P!area, P!header, P!ghosts,
     PanelInv, P!TypeOK, VisitInv, CallsInv, PanelCall, P!Gone, PinsInv, PinCall, P!MemberWrites,
     P!PinWrites
<1>5. MembersInv'
  BY ClientConstants DEF P!PanelsAssumption, P!ToggleMenu, P!remote, P!area, P!header, P!ghosts,
     PanelInv, P!TypeOK, VisitInv, CallsInv, PanelCall, P!Gone, MembersInv, MemberCall, BeingLeft,
     P!MemberWrites, P!PinWrites
<1>6. QED
  BY <1>1, <1>2, <1>3, <1>4, <1>5 DEF PanelInv

LEMMA OpenPinnedAgrees == ASSUME PanelInv, P!OpenPinned PROVE PanelInv'
<1>0. \/ pending' = pending
      \/ \E h : /\ pending' = pending \cup {h} /\ PanelCall(h) /\ h.op = "items"
                /\ h.visit = visit /\ h.conv = viewed
  BY Started DEF P!OpenPinned, P!Choose, PanelInv, VisitInv
<1>1. CallsInv'
  BY <1>0, ClientConstants DEF P!PanelsAssumption, P!OpenPinned, P!remote, P!area, P!header,
     P!ghosts, P!Choose, PanelInv, CallsInv, PanelCall, P!TypeOK, P!Gone, P!MemberWrites,
     P!PinWrites
<1>2. P!TypeOK'
  BY <1>1, <1>0, ClientConstants DEF P!PanelsAssumption, P!OpenPinned, P!remote, P!area, P!header,
     P!ghosts, P!Choose, PanelInv, P!TypeOK, CallsInv, PanelCall, P!Widgets, P!Buttons, P!Gone,
     P!MemberWrites, P!PinWrites
<1>3. VisitInv'
  BY <1>0, ClientConstants DEF P!PanelsAssumption, P!OpenPinned, P!remote, P!area, P!header,
     P!ghosts, P!Choose, PanelInv, P!TypeOK, VisitInv, CallsInv, PanelCall, P!Gone, P!MemberWrites,
     P!PinWrites
<1>4. PinsInv'
  BY <1>0, ClientConstants DEF P!PanelsAssumption, P!OpenPinned, P!remote, P!area, P!header,
     P!ghosts, P!Choose, PanelInv, P!TypeOK, VisitInv, CallsInv, PanelCall, P!Gone, PinsInv,
     PinCall, P!MemberWrites, P!PinWrites
<1>5. MembersInv'
  BY <1>0, ClientConstants DEF P!PanelsAssumption, P!OpenPinned, P!remote, P!area, P!header,
     P!ghosts, P!Choose, PanelInv, P!TypeOK, VisitInv, CallsInv, PanelCall, P!Gone, MembersInv,
     MemberCall, BeingLeft, P!MemberWrites, P!PinWrites
<1>6. QED
  BY <1>1, <1>2, <1>3, <1>4, <1>5 DEF PanelInv

LEMMA OpenMembersAgrees == ASSUME PanelInv, P!OpenMembers PROVE PanelInv'
<1>0. \/ pending' = pending /\ "members" \in open
      \/ \E h : /\ pending' = pending \cup {h} /\ PanelCall(h) /\ h.op = "members" /\ "members" \notin open
                /\ h.visit = visit /\ h.conv = viewed /\ ~h.done /\ viewed # none
  BY Started DEF P!OpenMembers, P!Choose, PanelInv, VisitInv
<1>1. CallsInv'
  BY <1>0, ClientConstants DEF P!PanelsAssumption, P!OpenMembers, P!remote, P!area, P!header,
     P!ghosts, P!Choose, PanelInv, CallsInv, PanelCall, P!TypeOK, P!Gone, P!MemberWrites,
     P!PinWrites
<1>2. P!TypeOK'
  BY <1>1, <1>0, ClientConstants DEF P!PanelsAssumption, P!OpenMembers, P!remote, P!area, P!header,
     P!ghosts, P!Choose, PanelInv, P!TypeOK, CallsInv, PanelCall, P!Widgets, P!Buttons, P!Gone,
     P!MemberWrites, P!PinWrites
<1>3. VisitInv'
  BY <1>0, ClientConstants DEF P!PanelsAssumption, P!OpenMembers, P!remote, P!area, P!header,
     P!ghosts, P!Choose, PanelInv, P!TypeOK, VisitInv, CallsInv, PanelCall, P!Gone, P!MemberWrites,
     P!PinWrites
<1>4. PinsInv'
  BY <1>0, ClientConstants DEF P!PanelsAssumption, P!OpenMembers, P!remote, P!area, P!header,
     P!ghosts, P!Choose, PanelInv, P!TypeOK, VisitInv, CallsInv, PanelCall, P!Gone, PinsInv,
     PinCall, P!MemberWrites, P!PinWrites
<1>5. MembersInv'
  BY <1>0, ClientConstants DEF P!PanelsAssumption, P!OpenMembers, P!remote, P!area, P!header,
     P!ghosts, P!Choose, PanelInv, P!TypeOK, VisitInv, CallsInv, PanelCall, P!Gone, MembersInv,
     MemberCall, BeingLeft, P!MemberWrites, P!PinWrites
<1>6. QED
  BY <1>1, <1>2, <1>3, <1>4, <1>5 DEF PanelInv

LEMMA OpenLeaveAgrees == ASSUME PanelInv, P!OpenLeave PROVE PanelInv'
<1>1. CallsInv'
  BY ClientConstants DEF P!PanelsAssumption, P!OpenLeave, P!remote, P!area, P!header, P!ghosts,
     P!Choose, P!Start, P!Here, P!Call, PanelInv, CallsInv, PanelCall, P!TypeOK, P!Gone,
     P!MemberWrites, P!PinWrites
<1>2. P!TypeOK'
  BY <1>1, ClientConstants DEF P!PanelsAssumption, P!OpenLeave, P!remote, P!area, P!header,
     P!ghosts, P!Choose, P!Start, P!Here, P!Call, PanelInv, P!TypeOK, CallsInv, PanelCall,
     P!Widgets, P!Buttons, P!Gone, P!MemberWrites, P!PinWrites
<1>3. VisitInv'
  BY ClientConstants DEF P!PanelsAssumption, P!OpenLeave, P!remote, P!area, P!header, P!ghosts,
     P!Choose, P!Start, P!Here, P!Call, PanelInv, P!TypeOK, VisitInv, CallsInv, PanelCall, P!Gone,
     P!MemberWrites, P!PinWrites
<1>4. PinsInv'
  BY ClientConstants DEF P!PanelsAssumption, P!OpenLeave, P!remote, P!area, P!header, P!ghosts,
     P!Choose, P!Start, P!Here, P!Call, PanelInv, P!TypeOK, VisitInv, CallsInv, PanelCall, P!Gone,
     PinsInv, PinCall, P!MemberWrites, P!PinWrites
<1>5. MembersInv'
  BY ClientConstants DEF P!PanelsAssumption, P!OpenLeave, P!remote, P!area, P!header, P!ghosts,
     P!Choose, P!Start, P!Here, P!Call, PanelInv, P!TypeOK, VisitInv, CallsInv, PanelCall, P!Gone,
     MembersInv, MemberCall, BeingLeft, P!MemberWrites, P!PinWrites
<1>6. QED
  BY <1>1, <1>2, <1>3, <1>4, <1>5 DEF PanelInv

LEMMA ClosePinnedAgrees == ASSUME PanelInv, P!ClosePinned PROVE PanelInv'
<1>1. CallsInv'
  BY ClientConstants DEF P!PanelsAssumption, P!ClosePinned, P!remote, P!area, P!header, P!ghosts,
     P!Detached, PanelInv, CallsInv, PanelCall, P!TypeOK, P!Gone, P!MemberWrites, P!PinWrites
<1>2. P!TypeOK'
  BY <1>1, ClientConstants DEF P!PanelsAssumption, P!ClosePinned, P!remote, P!area, P!header,
     P!ghosts, P!Detached, PanelInv, P!TypeOK, CallsInv, PanelCall, P!Widgets, P!Buttons, P!Gone,
     P!MemberWrites, P!PinWrites
<1>3. VisitInv'
  BY ClientConstants DEF P!PanelsAssumption, P!ClosePinned, P!remote, P!area, P!header, P!ghosts,
     P!Detached, PanelInv, P!TypeOK, VisitInv, CallsInv, PanelCall, P!Gone, P!MemberWrites,
     P!PinWrites
<1>4. PinsInv'
  BY ClientConstants DEF P!PanelsAssumption, P!ClosePinned, P!remote, P!area, P!header, P!ghosts,
     P!Detached, PanelInv, P!TypeOK, VisitInv, CallsInv, PanelCall, P!Gone, PinsInv, PinCall,
     P!MemberWrites, P!PinWrites
<1>5. MembersInv'
  BY ClientConstants DEF P!PanelsAssumption, P!ClosePinned, P!remote, P!area, P!header, P!ghosts,
     P!Detached, PanelInv, P!TypeOK, VisitInv, CallsInv, PanelCall, P!Gone, MembersInv, MemberCall,
     BeingLeft, P!MemberWrites, P!PinWrites
<1>6. QED
  BY <1>1, <1>2, <1>3, <1>4, <1>5 DEF PanelInv

LEMMA CloseMembersAgrees == ASSUME PanelInv, P!CloseMembers PROVE PanelInv'
<1>1. CallsInv'
  BY ClientConstants DEF P!PanelsAssumption, P!CloseMembers, P!remote, P!area, P!header, P!ghosts,
     P!Detached, PanelInv, CallsInv, PanelCall, P!TypeOK, P!Gone, P!MemberWrites, P!PinWrites
<1>2. P!TypeOK'
  BY <1>1, ClientConstants DEF P!PanelsAssumption, P!CloseMembers, P!remote, P!area, P!header,
     P!ghosts, P!Detached, PanelInv, P!TypeOK, CallsInv, PanelCall, P!Widgets, P!Buttons, P!Gone,
     P!MemberWrites, P!PinWrites
<1>3. VisitInv'
  BY ClientConstants DEF P!PanelsAssumption, P!CloseMembers, P!remote, P!area, P!header, P!ghosts,
     P!Detached, PanelInv, P!TypeOK, VisitInv, CallsInv, PanelCall, P!Gone, P!MemberWrites,
     P!PinWrites
<1>4. PinsInv'
  BY ClientConstants DEF P!PanelsAssumption, P!CloseMembers, P!remote, P!area, P!header, P!ghosts,
     P!Detached, PanelInv, P!TypeOK, VisitInv, CallsInv, PanelCall, P!Gone, PinsInv, PinCall,
     P!MemberWrites, P!PinWrites
<1>5. MembersInv'
  BY ClientConstants DEF P!PanelsAssumption, P!CloseMembers, P!remote, P!area, P!header, P!ghosts,
     P!Detached, PanelInv, P!TypeOK, VisitInv, CallsInv, PanelCall, P!Gone, MembersInv, MemberCall,
     BeingLeft, P!MemberWrites, P!PinWrites
<1>6. QED
  BY <1>1, <1>2, <1>3, <1>4, <1>5 DEF PanelInv

LEMMA CloseLeaveAgrees == ASSUME PanelInv, P!CloseLeave PROVE PanelInv'
<1>1. CallsInv'
  BY ClientConstants DEF P!PanelsAssumption, P!CloseLeave, P!remote, P!area, P!header, P!ghosts,
     PanelInv, CallsInv, PanelCall, P!TypeOK, P!Gone, P!MemberWrites, P!PinWrites
<1>2. P!TypeOK'
  BY <1>1, ClientConstants DEF P!PanelsAssumption, P!CloseLeave, P!remote, P!area, P!header,
     P!ghosts, PanelInv, P!TypeOK, CallsInv, PanelCall, P!Widgets, P!Buttons, P!Gone,
     P!MemberWrites, P!PinWrites
<1>3. VisitInv'
  BY ClientConstants DEF P!PanelsAssumption, P!CloseLeave, P!remote, P!area, P!header, P!ghosts,
     PanelInv, P!TypeOK, VisitInv, CallsInv, PanelCall, P!Gone, P!MemberWrites, P!PinWrites
<1>4. PinsInv'
  BY ClientConstants DEF P!PanelsAssumption, P!CloseLeave, P!remote, P!area, P!header, P!ghosts,
     PanelInv, P!TypeOK, VisitInv, CallsInv, PanelCall, P!Gone, PinsInv, PinCall, P!MemberWrites,
     P!PinWrites
<1>5. MembersInv'
  BY ClientConstants DEF P!PanelsAssumption, P!CloseLeave, P!remote, P!area, P!header, P!ghosts,
     PanelInv, P!TypeOK, VisitInv, CallsInv, PanelCall, P!Gone, MembersInv, MemberCall, BeingLeft,
     P!MemberWrites, P!PinWrites
<1>6. QED
  BY <1>1, <1>2, <1>3, <1>4, <1>5 DEF PanelInv

LEMMA PanelUnpinAgrees == ASSUME PanelInv, NEW m1 \in Messages, P!PanelUnpin(m1) PROVE PanelInv'
<1>0. PICK h : /\ pending' = pending \cup {h} /\ PanelCall(h) /\ h.op = "panelUnpin"
               /\ h.visit = visit /\ h.conv = viewed /\ viewed # none
  BY Started DEF P!PanelUnpin, P!PinWrites, PanelInv, VisitInv
<1>1. CallsInv'
  BY <1>0, ClientConstants DEF P!PanelsAssumption, P!PanelUnpin, P!remote, P!area, P!header,
     P!ghosts, PanelInv, CallsInv, PanelCall, P!TypeOK, P!Gone, P!MemberWrites, P!PinWrites
<1>2. P!TypeOK'
  BY <1>1, <1>0, ClientConstants DEF P!PanelsAssumption, P!PanelUnpin, P!remote, P!area, P!header,
     P!ghosts, PanelInv, P!TypeOK, CallsInv, PanelCall, P!Widgets, P!Buttons, P!Gone,
     P!MemberWrites, P!PinWrites
<1>3. VisitInv'
  BY <1>0, ClientConstants DEF P!PanelsAssumption, P!PanelUnpin, P!remote, P!area, P!header,
     P!ghosts, PanelInv, P!TypeOK, VisitInv, CallsInv, PanelCall, P!Gone, P!MemberWrites,
     P!PinWrites
<1>4. PinsInv'
  BY <1>0, ClientConstants DEF P!PanelsAssumption, P!PanelUnpin, P!remote, P!area, P!header,
     P!ghosts, PanelInv, P!TypeOK, VisitInv, CallsInv, PanelCall, P!Gone, PinsInv, PinCall,
     P!MemberWrites, P!PinWrites
<1>5. MembersInv'
  BY <1>0, ClientConstants DEF P!PanelsAssumption, P!PanelUnpin, P!remote, P!area, P!header,
     P!ghosts, PanelInv, P!TypeOK, VisitInv, CallsInv, PanelCall, P!Gone, MembersInv, MemberCall,
     BeingLeft, P!MemberWrites, P!PinWrites
<1>6. QED
  BY <1>1, <1>2, <1>3, <1>4, <1>5 DEF PanelInv

LEMMA ChooseUserAgrees == ASSUME PanelInv, NEW u \in Users, P!ChooseUser(u) PROVE PanelInv'
<1>1. CallsInv'
  BY ClientConstants DEF P!PanelsAssumption, P!ChooseUser, P!remote, P!area, P!header, P!ghosts,
     PanelInv, CallsInv, PanelCall, P!TypeOK, P!Gone, P!MemberWrites, P!PinWrites
<1>2. P!TypeOK'
  BY <1>1, ClientConstants DEF P!PanelsAssumption, P!ChooseUser, P!remote, P!area, P!header,
     P!ghosts, PanelInv, P!TypeOK, CallsInv, PanelCall, P!Widgets, P!Buttons, P!Gone,
     P!MemberWrites, P!PinWrites
<1>3. VisitInv'
  BY ClientConstants DEF P!PanelsAssumption, P!ChooseUser, P!remote, P!area, P!header, P!ghosts,
     PanelInv, P!TypeOK, VisitInv, CallsInv, PanelCall, P!Gone, P!MemberWrites, P!PinWrites
<1>4. PinsInv'
  BY ClientConstants DEF P!PanelsAssumption, P!ChooseUser, P!remote, P!area, P!header, P!ghosts,
     PanelInv, P!TypeOK, VisitInv, CallsInv, PanelCall, P!Gone, PinsInv, PinCall, P!MemberWrites,
     P!PinWrites
<1>5. MembersInv'
  BY ClientConstants DEF P!PanelsAssumption, P!ChooseUser, P!remote, P!area, P!header, P!ghosts,
     PanelInv, P!TypeOK, VisitInv, CallsInv, PanelCall, P!Gone, MembersInv, MemberCall, BeingLeft,
     P!MemberWrites, P!PinWrites
<1>6. QED
  BY <1>1, <1>2, <1>3, <1>4, <1>5 DEF PanelInv

LEMMA AddMemberAgrees == ASSUME PanelInv, P!AddMember PROVE PanelInv'
<1>0. PICK h : /\ pending' = pending \cup {h} /\ PanelCall(h) /\ h.op = "addMember"
               /\ h.visit = visit /\ h.conv = viewed /\ ~h.done /\ viewed \in Channels /\ viewed # none
  BY Started, ClientConstants DEF P!AddMember, P!MemberWrite, P!MemberWrites, PanelInv, VisitInv,
     P!TypeOK, P!PanelsAssumption
<1>1. CallsInv'
  BY <1>0, ClientConstants DEF P!PanelsAssumption, P!AddMember, P!remote, P!area, P!header,
     P!ghosts, P!MemberWrite, PanelInv, CallsInv, PanelCall, P!TypeOK, P!Gone, P!MemberWrites,
     P!PinWrites
<1>2. P!TypeOK'
  BY <1>1, <1>0, ClientConstants DEF P!PanelsAssumption, P!AddMember, P!remote, P!area, P!header,
     P!ghosts, P!MemberWrite, PanelInv, P!TypeOK, CallsInv, PanelCall, P!Widgets, P!Buttons, P!Gone,
     P!MemberWrites, P!PinWrites
<1>3. VisitInv'
  BY <1>0, ClientConstants DEF P!PanelsAssumption, P!AddMember, P!remote, P!area, P!header,
     P!ghosts, P!MemberWrite, PanelInv, P!TypeOK, VisitInv, CallsInv, PanelCall, P!Gone,
     P!MemberWrites, P!PinWrites
<1>4. PinsInv'
  BY <1>0, ClientConstants DEF P!PanelsAssumption, P!AddMember, P!remote, P!area, P!header,
     P!ghosts, P!MemberWrite, PanelInv, P!TypeOK, VisitInv, CallsInv, PanelCall, P!Gone, PinsInv,
     PinCall, P!MemberWrites, P!PinWrites
<1>5. MembersInv'
  BY <1>0, ClientConstants DEF P!PanelsAssumption, P!AddMember, P!remote, P!area, P!header,
     P!ghosts, P!MemberWrite, PanelInv, P!TypeOK, VisitInv, CallsInv, PanelCall, P!Gone, MembersInv,
     MemberCall, BeingLeft, P!MemberWrites, P!PinWrites
<1>6. QED
  BY <1>1, <1>2, <1>3, <1>4, <1>5 DEF PanelInv

LEMMA RemoveMemberAgrees == ASSUME PanelInv, NEW u \in Users, P!RemoveMember(u) PROVE PanelInv'
<1>0. PICK h : /\ pending' = pending \cup {h} /\ PanelCall(h) /\ h.op = "removeMember"
               /\ h.visit = visit /\ h.conv = viewed /\ ~h.done /\ viewed \in Channels /\ viewed # none
  BY Started, ClientConstants DEF P!RemoveMember, P!MemberWrite, P!MemberWrites, PanelInv, VisitInv,
     P!TypeOK, P!PanelsAssumption
<1>1. CallsInv'
  BY <1>0, ClientConstants DEF P!PanelsAssumption, P!RemoveMember, P!remote, P!area, P!header,
     P!ghosts, P!MemberWrite, PanelInv, CallsInv, PanelCall, P!TypeOK, P!Gone, P!MemberWrites,
     P!PinWrites
<1>2. P!TypeOK'
  BY <1>1, <1>0, ClientConstants DEF P!PanelsAssumption, P!RemoveMember, P!remote, P!area, P!header,
     P!ghosts, P!MemberWrite, PanelInv, P!TypeOK, CallsInv, PanelCall, P!Widgets, P!Buttons, P!Gone,
     P!MemberWrites, P!PinWrites
<1>3. VisitInv'
  BY <1>0, ClientConstants DEF P!PanelsAssumption, P!RemoveMember, P!remote, P!area, P!header,
     P!ghosts, P!MemberWrite, PanelInv, P!TypeOK, VisitInv, CallsInv, PanelCall, P!Gone,
     P!MemberWrites, P!PinWrites
<1>4. PinsInv'
  BY <1>0, ClientConstants DEF P!PanelsAssumption, P!RemoveMember, P!remote, P!area, P!header,
     P!ghosts, P!MemberWrite, PanelInv, P!TypeOK, VisitInv, CallsInv, PanelCall, P!Gone, PinsInv,
     PinCall, P!MemberWrites, P!PinWrites
<1>5. MembersInv'
  BY <1>0, ClientConstants DEF P!PanelsAssumption, P!RemoveMember, P!remote, P!area, P!header,
     P!ghosts, P!MemberWrite, PanelInv, P!TypeOK, VisitInv, CallsInv, PanelCall, P!Gone, MembersInv,
     MemberCall, BeingLeft, P!MemberWrites, P!PinWrites
<1>6. QED
  BY <1>1, <1>2, <1>3, <1>4, <1>5 DEF PanelInv

LEMMA LeaveAgrees == ASSUME PanelInv, P!Leave PROVE PanelInv'
<1>0. PICK h : /\ pending' = pending \cup {h} /\ PanelCall(h) /\ h.op = "leave"
               /\ h.visit = visit /\ h.conv = viewed /\ viewed \in Channels /\ viewed # none
  BY Started, ClientConstants DEF P!Leave, PanelInv, VisitInv, P!PanelsAssumption
<1>1. CallsInv'
  BY <1>0, ClientConstants DEF P!PanelsAssumption, P!Leave, P!remote, P!area, P!header, P!ghosts,
     PanelInv, CallsInv, PanelCall, P!TypeOK, P!Gone, P!MemberWrites, P!PinWrites
<1>2. P!TypeOK'
  BY <1>1, <1>0, ClientConstants DEF P!PanelsAssumption, P!Leave, P!remote, P!area, P!header,
     P!ghosts, PanelInv, P!TypeOK, CallsInv, PanelCall, P!Widgets, P!Buttons, P!Gone,
     P!MemberWrites, P!PinWrites
<1>3. VisitInv'
  BY <1>0, ClientConstants DEF P!PanelsAssumption, P!Leave, P!remote, P!area, P!header, P!ghosts,
     PanelInv, P!TypeOK, VisitInv, CallsInv, PanelCall, P!Gone, P!MemberWrites, P!PinWrites
<1>4. PinsInv'
  BY <1>0, ClientConstants DEF P!PanelsAssumption, P!Leave, P!remote, P!area, P!header, P!ghosts,
     PanelInv, P!TypeOK, VisitInv, CallsInv, PanelCall, P!Gone, PinsInv, PinCall, P!MemberWrites,
     P!PinWrites
<1>5. MembersInv'
  BY <1>0, ClientConstants DEF P!PanelsAssumption, P!Leave, P!remote, P!area, P!header, P!ghosts,
     PanelInv, P!TypeOK, VisitInv, CallsInv, PanelCall, P!Gone, MembersInv, MemberCall, BeingLeft,
     P!MemberWrites, P!PinWrites
<1>6. QED
  BY <1>1, <1>2, <1>3, <1>4, <1>5 DEF PanelInv

LEMMA OthersAgrees == ASSUME PanelInv, P!Others PROVE PanelInv'
<1>1. CallsInv'
  BY ClientConstants DEF P!PanelsAssumption, P!Others, P!remote, P!area, P!header, P!ghosts,
     PanelInv, CallsInv, PanelCall, P!TypeOK, P!Gone, P!MemberWrites, P!PinWrites
<1>2. P!TypeOK'
  <2>1. pinned' \in [Rooms -> SUBSET Messages] /\ stalePins' \in BOOLEAN
    BY DEF P!Others, PanelInv, P!TypeOK
  <2>2. joined' \in [Channels -> SUBSET Users] /\ staleMembers' \in BOOLEAN
    BY DEF P!Others, PanelInv, P!TypeOK
  <2>3. QED
    BY <2>1, <2>2 DEF P!Others, P!area, P!header, PanelInv, P!TypeOK
<1>3. VisitInv'
  BY ClientConstants DEF P!PanelsAssumption, P!Others, P!remote, P!area, P!header, P!ghosts,
     PanelInv, P!TypeOK, VisitInv, CallsInv, PanelCall, P!Gone, P!MemberWrites, P!PinWrites
<1>4. PinsInv'
  BY ClientConstants DEF P!PanelsAssumption, P!Others, P!remote, P!area, P!header, P!ghosts,
     PanelInv, P!TypeOK, VisitInv, CallsInv, PanelCall, P!Gone, PinsInv, PinCall, P!MemberWrites,
     P!PinWrites
<1>5. MembersInv'
  BY ClientConstants DEF P!PanelsAssumption, P!Others, P!remote, P!area, P!header, P!ghosts,
     PanelInv, P!TypeOK, VisitInv, CallsInv, PanelCall, P!Gone, MembersInv, MemberCall, BeingLeft,
     P!MemberWrites, P!PinWrites
<1>6. QED
  BY <1>1, <1>2, <1>3, <1>4, <1>5 DEF PanelInv

LEMMA ServeAgrees == ASSUME PanelInv, NEW p1 \in pending, P!Serve(p1) PROVE PanelInv'
<1>0. PICK h : /\ pending' = (pending \ {p1}) \cup {h} /\ PanelCall(h) /\ h.op = p1.op
               /\ h.conv = p1.conv /\ h.visit = p1.visit /\ h.arg = p1.arg /\ h.done
               /\ h.reply = IF p1.op = "members" THEN joined[p1.conv] ELSE pinned[p1.conv]
  <2> DEFINE r == IF p1.op = "members" THEN joined[p1.conv] ELSE pinned[p1.conv]
             h == [p1 EXCEPT !.done = TRUE, !.reply = r]
  <2>1. PanelCall(p1)
    BY DEF PanelInv, CallsInv
  <2>2. /\ r \in SUBSET (Messages \cup Users)
        /\ p1.op = "members" => r \subseteq Users
        /\ p1.op # "members" => r \subseteq Messages
    BY <2>1 DEF PanelInv, P!TypeOK, PanelCall
  <2>3. PanelCall(h) /\ h.op = p1.op /\ h.conv = p1.conv /\ h.visit = p1.visit /\ h.arg = p1.arg /\ h.done /\ h.reply = r
    BY <2>1, <2>2 DEF PanelCall, P!PinWrites, P!MemberWrites
  <2>4. pending' = (pending \ {p1}) \cup {h}
    BY DEF P!Serve
  <2>5. QED
    BY <2>3, <2>4
<1>1. CallsInv'
  BY <1>0, ClientConstants DEF P!PanelsAssumption, P!Serve, P!remote, P!area, P!header, P!ghosts,
     PanelInv, CallsInv, PanelCall, P!TypeOK, P!Gone, P!MemberWrites, P!PinWrites
<1>2. P!TypeOK'
  BY <1>1, <1>0, ClientConstants DEF P!PanelsAssumption, P!Serve, P!remote, P!area, P!header,
     P!ghosts, PanelInv, P!TypeOK, CallsInv, PanelCall, P!Widgets, P!Buttons, P!Gone,
     P!MemberWrites, P!PinWrites
<1>3. VisitInv'
  BY <1>0, ClientConstants DEF P!PanelsAssumption, P!Serve, P!remote, P!area, P!header, P!ghosts,
     PanelInv, P!TypeOK, VisitInv, CallsInv, PanelCall, P!Gone, P!MemberWrites, P!PinWrites
<1>4. PinsInv'
  BY <1>0, ClientConstants DEF P!PanelsAssumption, P!Serve, P!remote, P!area, P!header, P!ghosts,
     PanelInv, P!TypeOK, VisitInv, CallsInv, PanelCall, P!Gone, PinsInv, PinCall, P!MemberWrites,
     P!PinWrites
<1>5. MembersInv'
  BY <1>0, ClientConstants DEF P!PanelsAssumption, P!Serve, P!remote, P!area, P!header, P!ghosts,
     PanelInv, P!TypeOK, VisitInv, CallsInv, PanelCall, P!Gone, MembersInv, MemberCall, BeingLeft,
     P!MemberWrites, P!PinWrites
<1>6. QED
  BY <1>1, <1>2, <1>3, <1>4, <1>5 DEF PanelInv

LEMMA PinsAnsweredAgrees == ASSUME PanelInv, NEW p1 \in pending, P!PinsAnswered(p1) PROVE PanelInv'
<1>1. CallsInv'
  BY ClientConstants DEF P!PanelsAssumption, P!PinsAnswered, P!remote, P!area, P!header, P!ghosts,
     P!Answer, PanelInv, CallsInv, PanelCall, P!TypeOK, P!Gone, P!MemberWrites, P!PinWrites
<1>2. P!TypeOK'
  BY <1>1, ClientConstants DEF P!PanelsAssumption, P!PinsAnswered, P!remote, P!area, P!header,
     P!ghosts, P!Answer, PanelInv, P!TypeOK, CallsInv, PanelCall, P!Widgets, P!Buttons, P!Gone,
     P!MemberWrites, P!PinWrites
<1>3. VisitInv'
  BY ClientConstants DEF P!PanelsAssumption, P!PinsAnswered, P!remote, P!area, P!header, P!ghosts,
     P!Answer, PanelInv, P!TypeOK, VisitInv, CallsInv, PanelCall, P!Gone, P!MemberWrites,
     P!PinWrites
<1>4. PinsInv'
  BY ClientConstants DEF P!PanelsAssumption, P!PinsAnswered, P!remote, P!area, P!header, P!ghosts,
     P!Answer, PanelInv, P!TypeOK, VisitInv, CallsInv, PanelCall, P!Gone, PinsInv, PinCall,
     P!MemberWrites, P!PinWrites
<1>5. MembersInv'
  BY ClientConstants DEF P!PanelsAssumption, P!PinsAnswered, P!remote, P!area, P!header, P!ghosts,
     P!Answer, PanelInv, P!TypeOK, VisitInv, CallsInv, PanelCall, P!Gone, MembersInv, MemberCall,
     BeingLeft, P!MemberWrites, P!PinWrites
<1>6. QED
  BY <1>1, <1>2, <1>3, <1>4, <1>5 DEF PanelInv

LEMMA PinToggledAgrees == ASSUME PanelInv, NEW p1 \in pending, P!PinToggled(p1) PROVE PanelInv'
<1>0. PICK h : /\ pending' = (pending \ {p1}) \cup {h} /\ PanelCall(h) /\ h.op = "relist"
               /\ h.conv = p1.conv /\ h.visit = p1.visit /\ ~h.done
  <2>1. p1.conv \in Rooms /\ p1.visit \in 0..P!Gone /\ pending' = (pending \ {p1}) \cup {P!Call("relist", p1.conv, p1.visit, {})}
    BY DEF P!PinToggled, PanelInv, CallsInv, PanelCall
  <2>2. QED
    BY <2>1, CallTyped, CallIs
<1>1. CallsInv'
  BY <1>0, ClientConstants DEF P!PanelsAssumption, P!PinToggled, P!remote, P!area, P!header,
     P!ghosts, PanelInv, CallsInv, PanelCall, P!TypeOK, P!Gone, P!MemberWrites, P!PinWrites
<1>2. P!TypeOK'
  BY <1>1, <1>0, ClientConstants DEF P!PanelsAssumption, P!PinToggled, P!remote, P!area, P!header,
     P!ghosts, PanelInv, P!TypeOK, CallsInv, PanelCall, P!Widgets, P!Buttons, P!Gone,
     P!MemberWrites, P!PinWrites
<1>3. VisitInv'
  BY <1>0, ClientConstants DEF P!PanelsAssumption, P!PinToggled, P!remote, P!area, P!header,
     P!ghosts, PanelInv, P!TypeOK, VisitInv, CallsInv, PanelCall, P!Gone, P!MemberWrites,
     P!PinWrites
<1>4. PinsInv'
  BY <1>0, ClientConstants DEF P!PanelsAssumption, P!PinToggled, P!remote, P!area, P!header,
     P!ghosts, PanelInv, P!TypeOK, VisitInv, CallsInv, PanelCall, P!Gone, PinsInv, PinCall,
     P!MemberWrites, P!PinWrites
<1>5. MembersInv'
  BY <1>0, ClientConstants DEF P!PanelsAssumption, P!PinToggled, P!remote, P!area, P!header,
     P!ghosts, PanelInv, P!TypeOK, VisitInv, CallsInv, PanelCall, P!Gone, MembersInv, MemberCall,
     BeingLeft, P!MemberWrites, P!PinWrites
<1>6. QED
  BY <1>1, <1>2, <1>3, <1>4, <1>5 DEF PanelInv

LEMMA PinsRelistedAgrees == ASSUME PanelInv, NEW p1 \in pending, P!PinsRelisted(p1) PROVE PanelInv'
<1>1. CallsInv'
  BY ClientConstants DEF P!PanelsAssumption, P!PinsRelisted, P!remote, P!area, P!header, P!ghosts,
     P!Answer, PanelInv, CallsInv, PanelCall, P!TypeOK, P!Gone, P!MemberWrites, P!PinWrites
<1>2. P!TypeOK'
  BY <1>1, ClientConstants DEF P!PanelsAssumption, P!PinsRelisted, P!remote, P!area, P!header,
     P!ghosts, P!Answer, PanelInv, P!TypeOK, CallsInv, PanelCall, P!Widgets, P!Buttons, P!Gone,
     P!MemberWrites, P!PinWrites
<1>3. VisitInv'
  BY ClientConstants DEF P!PanelsAssumption, P!PinsRelisted, P!remote, P!area, P!header, P!ghosts,
     P!Answer, PanelInv, P!TypeOK, VisitInv, CallsInv, PanelCall, P!Gone, P!MemberWrites,
     P!PinWrites
<1>4. PinsInv'
  BY ClientConstants DEF P!PanelsAssumption, P!PinsRelisted, P!remote, P!area, P!header, P!ghosts,
     P!Answer, PanelInv, P!TypeOK, VisitInv, CallsInv, PanelCall, P!Gone, PinsInv, PinCall,
     P!MemberWrites, P!PinWrites
<1>5. MembersInv'
  BY ClientConstants DEF P!PanelsAssumption, P!PinsRelisted, P!remote, P!area, P!header, P!ghosts,
     P!Answer, PanelInv, P!TypeOK, VisitInv, CallsInv, PanelCall, P!Gone, MembersInv, MemberCall,
     BeingLeft, P!MemberWrites, P!PinWrites
<1>6. QED
  BY <1>1, <1>2, <1>3, <1>4, <1>5 DEF PanelInv

LEMMA ItemsAnsweredAgrees == ASSUME PanelInv, NEW p1 \in pending, P!ItemsAnswered(p1)
                             PROVE  PanelInv'
<1>1. CallsInv'
  BY ClientConstants DEF P!PanelsAssumption, P!ItemsAnswered, P!remote, P!area, P!header, P!ghosts,
     P!Answer, PanelInv, CallsInv, PanelCall, P!TypeOK, P!Gone, P!MemberWrites, P!PinWrites
<1>2. P!TypeOK'
  BY <1>1, ClientConstants DEF P!PanelsAssumption, P!ItemsAnswered, P!remote, P!area, P!header,
     P!ghosts, P!Answer, PanelInv, P!TypeOK, CallsInv, PanelCall, P!Widgets, P!Buttons, P!Gone,
     P!MemberWrites, P!PinWrites
<1>3. VisitInv'
  BY ClientConstants DEF P!PanelsAssumption, P!ItemsAnswered, P!remote, P!area, P!header, P!ghosts,
     P!Answer, PanelInv, P!TypeOK, VisitInv, CallsInv, PanelCall, P!Gone, P!MemberWrites,
     P!PinWrites
<1>4. PinsInv'
  BY ClientConstants DEF P!PanelsAssumption, P!ItemsAnswered, P!remote, P!area, P!header, P!ghosts,
     P!Answer, PanelInv, P!TypeOK, VisitInv, CallsInv, PanelCall, P!Gone, PinsInv, PinCall,
     P!MemberWrites, P!PinWrites
<1>5. MembersInv'
  BY ClientConstants DEF P!PanelsAssumption, P!ItemsAnswered, P!remote, P!area, P!header, P!ghosts,
     P!Answer, PanelInv, P!TypeOK, VisitInv, CallsInv, PanelCall, P!Gone, MembersInv, MemberCall,
     BeingLeft, P!MemberWrites, P!PinWrites
<1>6. QED
  BY <1>1, <1>2, <1>3, <1>4, <1>5 DEF PanelInv

LEMMA PanelUnpinnedAgrees == ASSUME PanelInv, NEW p1 \in pending, P!PanelUnpinned(p1)
                             PROVE  PanelInv'
<1>1. CallsInv'
  BY ClientConstants DEF P!PanelsAssumption, P!PanelUnpinned, P!remote, P!area, P!header, P!ghosts,
     P!Answer, PanelInv, CallsInv, PanelCall, P!TypeOK, P!Gone, P!MemberWrites, P!PinWrites
<1>2. P!TypeOK'
  BY <1>1, ClientConstants DEF P!PanelsAssumption, P!PanelUnpinned, P!remote, P!area, P!header,
     P!ghosts, P!Answer, PanelInv, P!TypeOK, CallsInv, PanelCall, P!Widgets, P!Buttons, P!Gone,
     P!MemberWrites, P!PinWrites
<1>3. VisitInv'
  BY ClientConstants DEF P!PanelsAssumption, P!PanelUnpinned, P!remote, P!area, P!header, P!ghosts,
     P!Answer, PanelInv, P!TypeOK, VisitInv, CallsInv, PanelCall, P!Gone, P!MemberWrites,
     P!PinWrites
<1>4. PinsInv'
  BY ClientConstants DEF P!PanelsAssumption, P!PanelUnpinned, P!remote, P!area, P!header, P!ghosts,
     P!Answer, PanelInv, P!TypeOK, VisitInv, CallsInv, PanelCall, P!Gone, PinsInv, PinCall,
     P!MemberWrites, P!PinWrites
<1>5. MembersInv'
  BY ClientConstants DEF P!PanelsAssumption, P!PanelUnpinned, P!remote, P!area, P!header, P!ghosts,
     P!Answer, PanelInv, P!TypeOK, VisitInv, CallsInv, PanelCall, P!Gone, MembersInv, MemberCall,
     BeingLeft, P!MemberWrites, P!PinWrites
<1>6. QED
  BY <1>1, <1>2, <1>3, <1>4, <1>5 DEF PanelInv

LEMMA MembersAnsweredAgrees == ASSUME PanelInv, NEW p1 \in pending, P!MembersAnswered(p1)
                               PROVE  PanelInv'
<1>1. CallsInv'
  BY ClientConstants DEF P!PanelsAssumption, P!MembersAnswered, P!remote, P!area, P!header,
     P!ghosts, P!Answer, PanelInv, CallsInv, PanelCall, P!TypeOK, P!Gone, P!MemberWrites,
     P!PinWrites
<1>2. P!TypeOK'
  BY <1>1, ClientConstants DEF P!PanelsAssumption, P!MembersAnswered, P!remote, P!area, P!header,
     P!ghosts, P!Answer, PanelInv, P!TypeOK, CallsInv, PanelCall, P!Widgets, P!Buttons, P!Gone,
     P!MemberWrites, P!PinWrites
<1>3. VisitInv'
  BY ClientConstants DEF P!PanelsAssumption, P!MembersAnswered, P!remote, P!area, P!header,
     P!ghosts, P!Answer, PanelInv, P!TypeOK, VisitInv, CallsInv, PanelCall, P!Gone, P!MemberWrites,
     P!PinWrites
<1>4. PinsInv'
  BY ClientConstants DEF P!PanelsAssumption, P!MembersAnswered, P!remote, P!area, P!header,
     P!ghosts, P!Answer, PanelInv, P!TypeOK, VisitInv, CallsInv, PanelCall, P!Gone, PinsInv,
     PinCall, P!MemberWrites, P!PinWrites
<1>5. MembersInv'
  BY ClientConstants DEF P!PanelsAssumption, P!MembersAnswered, P!remote, P!area, P!header,
     P!ghosts, P!Answer, PanelInv, P!TypeOK, VisitInv, CallsInv, PanelCall, P!Gone, MembersInv,
     MemberCall, BeingLeft, P!MemberWrites, P!PinWrites
<1>6. QED
  BY <1>1, <1>2, <1>3, <1>4, <1>5 DEF PanelInv

LEMMA MemberAddedAgrees == ASSUME PanelInv, NEW p1 \in pending, P!MemberAdded(p1) PROVE PanelInv'
<1>0. PICK h : /\ pending' = (pending \ {p1}) \cup {h} /\ PanelCall(h) /\ h.op = "members"
               /\ h.conv = p1.conv /\ h.visit = p1.visit /\ ~h.done
  <2>1. p1.conv \in Rooms /\ p1.visit \in 0..P!Gone /\ pending' = (pending \ {p1}) \cup {P!Call("members", p1.conv, p1.visit, {})}
    BY DEF P!MemberAdded, PanelInv, CallsInv, PanelCall, P!MemberWrites
  <2>3. p1.conv \in Channels
    BY DEF P!MemberAdded, PanelInv, CallsInv, PanelCall, P!MemberWrites
  <2>2. QED
    BY <2>1, <2>3, CallTyped, CallIs
<1>1. CallsInv'
  BY <1>0, ClientConstants DEF P!PanelsAssumption, P!MemberAdded, P!remote, P!area, P!header,
     P!ghosts, PanelInv, CallsInv, PanelCall, P!TypeOK, P!Gone, P!MemberWrites, P!PinWrites
<1>2. P!TypeOK'
  BY <1>1, <1>0, ClientConstants DEF P!PanelsAssumption, P!MemberAdded, P!remote, P!area, P!header,
     P!ghosts, PanelInv, P!TypeOK, CallsInv, PanelCall, P!Widgets, P!Buttons, P!Gone,
     P!MemberWrites, P!PinWrites
<1>3. VisitInv'
  BY <1>0, ClientConstants DEF P!PanelsAssumption, P!MemberAdded, P!remote, P!area, P!header,
     P!ghosts, PanelInv, P!TypeOK, VisitInv, CallsInv, PanelCall, P!Gone, P!MemberWrites,
     P!PinWrites
<1>4. PinsInv'
  BY <1>0, ClientConstants DEF P!PanelsAssumption, P!MemberAdded, P!remote, P!area, P!header,
     P!ghosts, PanelInv, P!TypeOK, VisitInv, CallsInv, PanelCall, P!Gone, PinsInv, PinCall,
     P!MemberWrites, P!PinWrites
<1>5. MembersInv'
  BY <1>0, ClientConstants DEF P!PanelsAssumption, P!MemberAdded, P!remote, P!area, P!header,
     P!ghosts, PanelInv, P!TypeOK, VisitInv, CallsInv, PanelCall, P!Gone, MembersInv, MemberCall,
     BeingLeft, P!MemberWrites, P!PinWrites
<1>6. QED
  BY <1>1, <1>2, <1>3, <1>4, <1>5 DEF PanelInv

LEMMA MemberRemovedAgrees == ASSUME PanelInv, NEW p1 \in pending, P!MemberRemoved(p1)
                             PROVE  PanelInv'
<1>1. CallsInv'
  BY ClientConstants DEF P!PanelsAssumption, P!MemberRemoved, P!remote, P!area, P!header, P!ghosts,
     P!Answer, PanelInv, CallsInv, PanelCall, P!TypeOK, P!Gone, P!MemberWrites, P!PinWrites
<1>2. P!TypeOK'
  BY <1>1, ClientConstants DEF P!PanelsAssumption, P!MemberRemoved, P!remote, P!area, P!header,
     P!ghosts, P!Answer, PanelInv, P!TypeOK, CallsInv, PanelCall, P!Widgets, P!Buttons, P!Gone,
     P!MemberWrites, P!PinWrites
<1>3. VisitInv'
  BY ClientConstants DEF P!PanelsAssumption, P!MemberRemoved, P!remote, P!area, P!header, P!ghosts,
     P!Answer, PanelInv, P!TypeOK, VisitInv, CallsInv, PanelCall, P!Gone, P!MemberWrites,
     P!PinWrites
<1>4. PinsInv'
  BY ClientConstants DEF P!PanelsAssumption, P!MemberRemoved, P!remote, P!area, P!header, P!ghosts,
     P!Answer, PanelInv, P!TypeOK, VisitInv, CallsInv, PanelCall, P!Gone, PinsInv, PinCall,
     P!MemberWrites, P!PinWrites
<1>5. MembersInv'
  BY ClientConstants DEF P!PanelsAssumption, P!MemberRemoved, P!remote, P!area, P!header, P!ghosts,
     P!Answer, PanelInv, P!TypeOK, VisitInv, CallsInv, PanelCall, P!Gone, MembersInv, MemberCall,
     BeingLeft, P!MemberWrites, P!PinWrites
<1>6. QED
  BY <1>1, <1>2, <1>3, <1>4, <1>5 DEF PanelInv

LEMMA LeftAgrees == ASSUME PanelInv, NEW p1 \in pending, P!Left(p1) PROVE PanelInv'
<1>1. CASE viewed # p1.conv
  <2>1. pending' = pending \ {p1} /\ P!remote' = P!remote /\ UNCHANGED <<viewed, visit, P!area, P!header, P!ghosts>>
        /\ p1.op = "leave"
    BY <1>1 DEF P!Left, P!remote
  <2>2. CallsInv' /\ P!TypeOK' /\ VisitInv'
    BY <2>1 DEF PanelInv, CallsInv, P!TypeOK, VisitInv, P!remote, P!area, P!header, P!ghosts
  <2>3. PinsInv'
    BY <2>1 DEF PanelInv, PinsInv, PinCall, P!PinWrites, P!remote, P!area, P!header, P!ghosts
  <2>4. MembersInv'
    BY <1>1, <2>1 DEF PanelInv, MembersInv, MemberCall, BeingLeft, P!MemberWrites, P!remote, P!area,
       P!header, P!ghosts
  <2>5. QED
    BY <2>2, <2>3, <2>4 DEF PanelInv
<1>2. CASE viewed = p1.conv
  <2>1. /\ pending' = P!Detached({"pins", "items", "members"} \cup P!MemberWrites) \ {p1}
        /\ P!Show(none) /\ UNCHANGED P!remote
    BY <1>2 DEF P!Left
  <2>2. viewed # none /\ visit <= MaxMoves /\ visit \in Nat
    BY <1>2, ClientConstants DEF PanelInv, CallsInv, PanelCall, VisitInv, P!TypeOK,
       P!PanelsAssumption, P!Gone
  <2>3. CallsInv
    BY DEF PanelInv
  <2>4. CallsInv'
    BY <2>1, <2>3, Cancelled DEF CallsInv
  <2>5. visit' \in 0..P!Gone /\ visit' = visit + 1 /\ viewed' = none
    BY <2>1, <2>2, ClientConstants DEF P!Show, P!Gone, P!PanelsAssumption
  <2>6. P!TypeOK'
    <3>1. \A p \in pending' : p.conv \in Rooms /\ p.visit \in 0..P!Gone
      BY <2>4 DEF CallsInv, PanelCall
    <3>2. QED
      BY <2>1, <2>5, <3>1 DEF P!Show, P!remote, PanelInv, P!TypeOK
  <2>7. VisitInv'
    <3>1. \A p \in pending' : p.visit = P!Gone \/ p \in pending
      BY <2>1, <2>3, Cancelled
    <3>2. open' = {}
      BY <2>1 DEF P!Show
    <3>3. \A p \in pending' : p.visit <= visit + 1 \/ p.visit = P!Gone
      BY <2>2, <2>3, <3>1 DEF PanelInv, VisitInv, CallsInv, PanelCall, P!Gone
    <3>4. QED
      BY <2>5, <3>2, <3>3 DEF VisitInv
  <2>8. PinsInv' /\ MembersInv'
    BY <2>1, <2>5 DEF P!Show, PinsInv, MembersInv
  <2>9. QED
    BY <2>4, <2>6, <2>7, <2>8 DEF PanelInv
<1>3. QED
  BY <1>1, <1>2

LEMMA FailedAgrees == ASSUME PanelInv, NEW p1 \in pending, P!Failed(p1) PROVE PanelInv'
<1>1. CallsInv'
  BY ClientConstants DEF P!PanelsAssumption, P!Failed, P!remote, P!area, P!header, P!ghosts,
     PanelInv, CallsInv, PanelCall, P!TypeOK, P!Gone, P!MemberWrites, P!PinWrites
<1>2. P!TypeOK'
  BY <1>1, ClientConstants DEF P!PanelsAssumption, P!Failed, P!remote, P!area, P!header, P!ghosts,
     PanelInv, P!TypeOK, CallsInv, PanelCall, P!Widgets, P!Buttons, P!Gone, P!MemberWrites,
     P!PinWrites
<1>3. VisitInv'
  BY ClientConstants DEF P!PanelsAssumption, P!Failed, P!remote, P!area, P!header, P!ghosts,
     PanelInv, P!TypeOK, VisitInv, CallsInv, PanelCall, P!Gone, P!MemberWrites, P!PinWrites
<1>4. PinsInv'
  BY ClientConstants DEF P!PanelsAssumption, P!Failed, P!remote, P!area, P!header, P!ghosts,
     PanelInv, P!TypeOK, VisitInv, CallsInv, PanelCall, P!Gone, PinsInv, PinCall, P!MemberWrites,
     P!PinWrites
<1>5. MembersInv'
  BY ClientConstants DEF P!PanelsAssumption, P!Failed, P!remote, P!area, P!header, P!ghosts,
     PanelInv, P!TypeOK, VisitInv, CallsInv, PanelCall, P!Gone, MembersInv, MemberCall, BeingLeft,
     P!MemberWrites, P!PinWrites
<1>6. QED
  BY <1>1, <1>2, <1>3, <1>4, <1>5 DEF PanelInv

LEMMA PanelStep == PanelInv /\ [P!Next]_panelVars => PanelInv'
<1> SUFFICES ASSUME PanelInv, [P!Next]_panelVars PROVE PanelInv'
  OBVIOUS
<1>1. CASE UNCHANGED panelVars
  BY <1>1 DEF panelVars, PanelInv, P!TypeOK, CallsInv, VisitInv, PinsInv, PinCall, MembersInv,
     MemberCall, BeingLeft
<1>2. CASE P!User
  BY <1>2, SelectConversationAgrees, CloseAgrees, TogglePinAgrees, DismissBannerAgrees,
     ToggleButtonAgrees, ToggleMenuAgrees, OpenPinnedAgrees, OpenMembersAgrees, OpenLeaveAgrees,
     ClosePinnedAgrees, CloseMembersAgrees, CloseLeaveAgrees, PanelUnpinAgrees, ChooseUserAgrees,
     AddMemberAgrees, RemoveMemberAgrees, LeaveAgrees DEF P!User
<1>3. CASE P!Others
  BY <1>3, OthersAgrees
<1>4. ASSUME NEW p \in pending, P!Serve(p) \/ P!Answered(p) \/ P!Failed(p) PROVE PanelInv'
  BY <1>4, ServeAgrees, PinsAnsweredAgrees, PinToggledAgrees, PinsRelistedAgrees,
     ItemsAnsweredAgrees, PanelUnpinnedAgrees, MembersAnsweredAgrees, MemberAddedAgrees,
     MemberRemovedAgrees, LeftAgrees, FailedAgrees DEF P!Answered
<1>5. QED
  BY <1>1, <1>2, <1>3, <1>4 DEF P!Next

-----------------------------------------------------------------------------
(* Editing.  The last event under way brings what the server has; with none *)
(* the text shown is the server's, unless an edit has not reached it.       *)

EditTypes ==
  /\ E!TypeOK /\ made \in Nat /\ keepMade \in Nat /\ listed \in Nat
  /\ listings \subseteq [n: Nat, said: Texts]
  /\ unsaidTexts \in Seq(Texts) /\ newsTexts \in Seq(Texts)
  /\ edits \subseteq [n: Nat, to: Texts, from: Texts, served: BOOLEAN]
  /\ keepCalls \subseteq [n: Nat, op: {"list", "save", "unsave"}, served: BOOLEAN, answer: BOOLEAN]

\* A closed editor holds nothing of its own.
EditorInv == E!EditorIsDraft /\ (~editing => editDraft = text)

ComesLast == ~crossed =>
  /\ unsaidTexts # <<>> => unsaidTexts[Len(unsaidTexts)] = storedText
  /\ unsaidTexts = <<>> /\ newsTexts # <<>> => newsTexts[Len(newsTexts)] = storedText
  /\ unsaidTexts = <<>> /\ newsTexts = <<>> =>
       text = storedText \/ \E e \in edits : ~e.served

OneKeepCall == ~keepDisturbed =>
  /\ \A k, l \in keepCalls : k = l
  /\ keepCalls = {} => keeps.shown = keeps.stored
  /\ \A k \in keepCalls : /\ k.op = "list" /\ k.served => k.answer = keeps.stored
                          /\ k.op # "list" => keeps.shown = (k.op = "save")

EditInv == EditTypes /\ EditorInv /\ ComesLast /\ OneKeepCall

LEMMA EditSafe == EditInv => E!TypeOK /\ E!EditsAgree /\ E!EditorIsDraft
<1> SUFFICES ASSUME EditInv PROVE E!EditsAgree
  BY DEF EditInv, EditTypes, EditorInv
<1>1. QED
  BY DEF EditInv, ComesLast, OneKeepCall, E!EditsAgree

LEMMA EditInit == ASSUME E!Init PROVE EditInv
<1>1. keeps \in [stored: BOOLEAN, shown: BOOLEAN] /\ FirstText \in Texts
  BY ClientConstants DEF E!Init, E!EditsAssumption
<1>2. keepCalls \subseteq [n: Nat, op: {"list", "save", "unsave"}, served: BOOLEAN, answer: BOOLEAN]
  BY DEF E!Init, E!KeepCall
<1>3. unsaidTexts \in Seq(Texts) /\ newsTexts \in Seq(Texts)
  BY DEF E!Init
<1>4. EditTypes
  BY <1>1, <1>2, <1>3 DEF E!Init, EditTypes, E!TypeOK
<1>5. OneKeepCall
  <2>1. keepCalls = {E!KeepCall("list", 0)} /\ E!KeepCall("list", 0).op = "list" /\ ~E!KeepCall("list", 0).served
    BY DEF E!Init, E!KeepCall
  <2>2. QED
    BY <2>1 DEF OneKeepCall
<1>6. EditorInv /\ ComesLast
  BY DEF E!Init, EditorInv, E!EditorIsDraft, ComesLast
<1>7. QED
  BY <1>4, <1>5, <1>6 DEF EditInv

LEMMA LastOfTail == ASSUME NEW S, NEW q \in Seq(S), q # <<>>
                    PROVE  /\ Tail(q) \in Seq(S) /\ Head(q) \in S
                           /\ Tail(q) = <<>> => Head(q) = q[Len(q)]
                           /\ Tail(q) # <<>> => Tail(q)[Len(Tail(q))] = q[Len(q)]
<1>1. Len(q) \in Nat \ {0} /\ Len(Tail(q)) = Len(q) - 1 /\ Head(q) = q[1] /\ Tail(q) \in Seq(S) /\ q[1] \in S
  BY HeadTailProperties, EmptySeq, LenProperties, ElementOfSeq
<1>2. Tail(q) = <<>> => Len(q) = 1
  BY <1>1, EmptySeq
<1>3. Tail(q) # <<>> => Len(Tail(q)) \in 1..(Len(q) - 1) /\ \A i \in 1..(Len(q) - 1) : Tail(q)[i] = q[i + 1]
  BY <1>1, EmptySeq
<1>4. QED
  BY <1>1, <1>2, <1>3

LEMMA OldestTaken == ASSUME NEW S, NEW q \in Seq(S), q # <<>>
                     PROVE  SubSeq(q, 1, 0) \o SubSeq(q, 2, Len(q)) = Tail(q)
<1>1. SubSeq(q, 1, 0) = <<>> /\ SubSeq(q, 2, Len(q)) = Tail(q) /\ Tail(q) \in Seq(S)
  BY HeadTailProperties, SubSeqProperties
<1>2. QED
  BY <1>1, ConcatProperties

\* One event taken out of those to be sent: the last stays the last, unless it
\* is the one taken.
LEMMA TakenOut == ASSUME NEW S, NEW q \in Seq(S), NEW i \in DOMAIN q
                  PROVE  LET r == SubSeq(q, 1, i - 1) \o SubSeq(q, i + 1, Len(q))
                         IN  /\ r \in Seq(S)
                             /\ r = <<>> <=> Len(q) = 1
                             /\ i # Len(q) => r # <<>> /\ r[Len(r)] = q[Len(q)]
<1> DEFINE a1 == SubSeq(q, 1, i - 1)
           b1 == SubSeq(q, i + 1, Len(q))
           r == a1 \o b1
<1>1. Len(q) \in Nat /\ i \in 1..Len(q)
  BY LenProperties
<1>2. a1 \in Seq(S) /\ Len(a1) = i - 1
  <2>1. i - 1 \in 0..Len(q) /\ 1 \in 1..(Len(q) + 1)
    BY <1>1
  <2>2. \A k \in 1..(i - 1) : k \in 1..Len(q) /\ k \in Nat
    BY <1>1
  <2>3. a1 \in Seq(S) /\ Len(a1) = IF 1 <= i - 1 THEN (i - 1) - 1 + 1 ELSE 0
    BY <1>1, <2>1, <2>2, SubSeqProperties
  <2> HIDE DEF a1
  <2>4. QED
    BY <1>1, <2>3
<1>3. /\ b1 \in Seq(S) /\ Len(b1) = Len(q) - i
      /\ i # Len(q) => b1[Len(q) - i] = q[Len(q)]
  <2>1. i + 1 \in 1..(Len(q) + 1) /\ Len(q) \in i..Len(q)
    BY <1>1
  <2>2. /\ b1 \in Seq(S)
        /\ Len(b1) = IF i + 1 <= Len(q) THEN Len(q) - (i + 1) + 1 ELSE 0
        /\ \A k \in 1..(Len(q) - (i + 1) + 1) : b1[k] = q[(i + 1) + k - 1]
    BY <1>1, <2>1, SubSeqProperties
  <2> HIDE DEF b1
  <2>3. Len(b1) = Len(q) - i
    BY <1>1, <2>2
  <2>4. ASSUME i # Len(q) PROVE b1[Len(q) - i] = q[Len(q)]
    <3>1. PICK d \in Nat : d = Len(q) - i
      BY <1>1
    <3>a. \A n, j, k \in Nat : j \in 1..n /\ j # n /\ k = n - j =>
            k \in 1..(n - (j + 1) + 1) /\ (j + 1) + k - 1 = n
      OBVIOUS
    <3>b. PICK n \in Nat : n = Len(q)
      BY <1>1
    <3>c. i \in Nat /\ i \in 1..n /\ i # n /\ d = n - i
      BY <1>1, <2>4, <3>1, <3>b
    <3>2. d \in 1..(Len(q) - (i + 1) + 1) /\ (i + 1) + d - 1 = Len(q)
      BY <3>a, <3>b, <3>c
    <3>3. b1[d] = q[(i + 1) + d - 1]
      BY <2>2, <3>2
    <3>4. QED
      BY <3>1, <3>2, <3>3
  <2>5. QED
    BY <2>2, <2>3, <2>4
<1> HIDE DEF a1, b1
<1>4. /\ r \in Seq(S) /\ Len(r) = Len(q) - 1
      /\ \A k \in 1..(Len(a1) + Len(b1)) : r[k] = IF k <= Len(a1) THEN a1[k] ELSE b1[k - Len(a1)]
  <2>1. r \in Seq(S) /\ Len(r) = Len(a1) + Len(b1)
        /\ \A k \in 1..(Len(a1) + Len(b1)) : r[k] = IF k <= Len(a1) THEN a1[k] ELSE b1[k - Len(a1)]
    BY <1>2, <1>3, ConcatProperties
  <2> HIDE DEF r
  <2>2. QED
    BY <1>1, <1>2, <1>3, <2>1
<1> HIDE DEF r
<1>5. r = <<>> <=> Len(q) = 1
  BY <1>1, <1>4, EmptySeq
<1>6. ASSUME i # Len(q) PROVE r # <<>> /\ r[Len(r)] = q[Len(q)]
  <2>1. Len(q) - 1 \in 1..(Len(a1) + Len(b1)) /\ ~(Len(q) - 1 <= Len(a1)) /\ (Len(q) - 1) - Len(a1) = Len(q) - i
    BY <1>1, <1>2, <1>3, <1>6
  <2>2. r[Len(q) - 1] = b1[Len(q) - i]
    BY <1>4, <2>1
  <2>3. QED
    BY <1>1, <1>3, <1>4, <1>5, <1>6, <2>2
<1>7. QED
  BY <1>4, <1>5, <1>6 DEF r, a1, b1

LEMMA OpenMenuAgreed == ASSUME EditInv, E!OpenMenu PROVE EditInv'
<1>1. EditTypes'
  BY DEF EditInv, E!OpenMenu, E!keepVars, E!editVars, EditTypes, E!TypeOK
<1>2. EditorInv'
  BY DEF EditInv, E!OpenMenu, E!keepVars, E!editVars, EditTypes, E!TypeOK, EditorInv,
     E!EditorIsDraft
<1>3. ComesLast'
  BY DEF EditInv, E!OpenMenu, E!keepVars, E!editVars, EditTypes, E!TypeOK, ComesLast
<1>4. OneKeepCall'
  BY DEF EditInv, E!OpenMenu, E!keepVars, E!editVars, EditTypes, E!TypeOK, OneKeepCall
<1>5. QED
  BY <1>1, <1>2, <1>3, <1>4 DEF EditInv

LEMMA StartEditAgreed == ASSUME EditInv, E!StartEdit PROVE EditInv'
<1>1. EditTypes'
  BY DEF EditInv, E!StartEdit, E!keepVars, E!editVars, EditTypes, E!TypeOK
<1>2. EditorInv'
  BY DEF EditInv, E!StartEdit, E!keepVars, E!editVars, EditTypes, E!TypeOK, EditorInv,
     E!EditorIsDraft
<1>3. ComesLast'
  BY DEF EditInv, E!StartEdit, E!keepVars, E!editVars, EditTypes, E!TypeOK, ComesLast
<1>4. OneKeepCall'
  BY DEF EditInv, E!StartEdit, E!keepVars, E!editVars, EditTypes, E!TypeOK, OneKeepCall
<1>5. QED
  BY <1>1, <1>2, <1>3, <1>4 DEF EditInv

LEMMA CancelEditAgreed == ASSUME EditInv, E!CancelEdit PROVE EditInv'
<1>1. EditTypes'
  BY DEF EditInv, E!CancelEdit, E!keepVars, E!editVars, EditTypes, E!TypeOK
<1>2. EditorInv'
  BY DEF EditInv, E!CancelEdit, E!keepVars, E!editVars, EditTypes, E!TypeOK, EditorInv,
     E!EditorIsDraft
<1>3. ComesLast'
  BY DEF EditInv, E!CancelEdit, E!keepVars, E!editVars, EditTypes, E!TypeOK, ComesLast
<1>4. OneKeepCall'
  BY DEF EditInv, E!CancelEdit, E!keepVars, E!editVars, EditTypes, E!TypeOK, OneKeepCall
<1>5. QED
  BY <1>1, <1>2, <1>3, <1>4 DEF EditInv

LEMMA AskDeleteAgreed == ASSUME EditInv, E!AskDelete PROVE EditInv'
<1>1. EditTypes'
  BY DEF EditInv, E!AskDelete, E!keepVars, E!editVars, EditTypes, E!TypeOK
<1>2. EditorInv'
  BY DEF EditInv, E!AskDelete, E!keepVars, E!editVars, EditTypes, E!TypeOK, EditorInv,
     E!EditorIsDraft
<1>3. ComesLast'
  BY DEF EditInv, E!AskDelete, E!keepVars, E!editVars, EditTypes, E!TypeOK, ComesLast
<1>4. OneKeepCall'
  BY DEF EditInv, E!AskDelete, E!keepVars, E!editVars, EditTypes, E!TypeOK, OneKeepCall
<1>5. QED
  BY <1>1, <1>2, <1>3, <1>4 DEF EditInv

LEMMA SaveEditAgreed == ASSUME EditInv, E!SaveEdit PROVE EditInv'
<1>1. EditTypes'
  <2> DEFINE Rec == [n: Nat, to: Texts, from: Texts, served: BOOLEAN]
             e == [n |-> made, to |-> editDraft, from |-> text, served |-> FALSE]
  <2>1. e \in Rec /\ edits \subseteq Rec /\ made \in Nat
    BY DEF EditInv, EditTypes, E!TypeOK
  <2>2. edits' = edits \cup {e} /\ made' = made + 1
    BY DEF E!SaveEdit
  <2>3. edits' \subseteq Rec /\ made' \in Nat
    <3> HIDE DEF e, Rec
    <3>1. QED
      BY <2>1, <2>2
  <2>4. QED
    BY <2>3 DEF EditInv, E!SaveEdit, E!keepVars, E!editVars, E!ShowText, EditTypes, E!TypeOK
<1>2. EditorInv'
  BY DEF EditInv, E!SaveEdit, E!keepVars, E!editVars, E!ShowText, EditTypes, E!TypeOK, EditorInv,
     E!EditorIsDraft
<1>3. ComesLast'
  <2> DEFINE e == [n |-> made, to |-> editDraft, from |-> text, served |-> FALSE]
  <2>1. e \in edits' /\ ~e.served
    BY DEF E!SaveEdit
  <2> HIDE DEF e
  <2>2. QED
    BY <2>1 DEF EditInv, E!SaveEdit, E!keepVars, E!editVars, E!ShowText, ComesLast
<1>4. OneKeepCall'
  BY DEF EditInv, E!SaveEdit, E!keepVars, E!editVars, E!ShowText, EditTypes, E!TypeOK, OneKeepCall
<1>5. QED
  BY <1>1, <1>2, <1>3, <1>4 DEF EditInv

LEMMA UpdateIncomingAgreed == ASSUME EditInv, E!UpdateIncoming PROVE EditInv'
<1>1. EditTypes'
  BY DEF EditInv, E!UpdateIncoming, E!keepVars, E!editVars, E!ShowText, EditTypes, E!TypeOK
<1>2. EditorInv'
  BY DEF EditInv, E!UpdateIncoming, E!keepVars, E!editVars, E!ShowText, EditTypes, E!TypeOK,
     EditorInv, E!EditorIsDraft
<1>3. ComesLast'
  <2>1. /\ Tail(newsTexts) = <<>> => Head(newsTexts) = newsTexts[Len(newsTexts)]
        /\ Tail(newsTexts) # <<>> => Tail(newsTexts)[Len(Tail(newsTexts))] = newsTexts[Len(newsTexts)]
    BY LastOfTail DEF EditInv, EditTypes, E!UpdateIncoming
  <2>2. QED
    BY <2>1 DEF EditInv, E!UpdateIncoming, E!keepVars, E!editVars, E!ShowText, ComesLast
<1>4. OneKeepCall'
  BY DEF EditInv, E!UpdateIncoming, E!keepVars, E!editVars, E!ShowText, EditTypes, E!TypeOK,
     OneKeepCall
<1>5. QED
  BY <1>1, <1>2, <1>3, <1>4 DEF EditInv

LEMMA ToggleSavedAgreed == ASSUME EditInv, E!ToggleSaved PROVE EditInv'
<1>1. EditTypes'
  <2>1. \E op \in {"save", "unsave"} : keepCalls' = keepCalls \cup {E!KeepCall(op, keepMade)}
    BY DEF E!ToggleSaved, E!Keep
  <2>2. keepCalls' \subseteq [n: Nat, op: {"list", "save", "unsave"}, served: BOOLEAN, answer: BOOLEAN]
    <3>1. \A op \in {"save", "unsave"} : E!KeepCall(op, keepMade) \in
            [n: Nat, op: {"list", "save", "unsave"}, served: BOOLEAN, answer: BOOLEAN]
      BY DEF EditInv, EditTypes, E!KeepCall
    <3>2. QED
      BY <2>1, <3>1 DEF EditInv, EditTypes
  <2>3. keeps' \in [stored: BOOLEAN, shown: BOOLEAN]
    BY DEF E!ToggleSaved, EditInv, EditTypes, E!TypeOK
  <2>4. QED
    BY <2>2, <2>3 DEF E!ToggleSaved, E!Keep, EditInv, EditTypes, E!TypeOK
<1>2. EditorInv'
  BY DEF EditInv, E!ToggleSaved, E!keepVars, E!editVars, E!Keep, E!KeepCall, EditTypes, E!TypeOK,
     EditorInv, E!EditorIsDraft
<1>3. ComesLast'
  BY DEF EditInv, E!ToggleSaved, E!keepVars, E!editVars, E!Keep, E!KeepCall, EditTypes, E!TypeOK,
     ComesLast
<1>4. OneKeepCall'
  <2> SUFFICES ASSUME ~keepDisturbed' PROVE OneKeepCall'
    BY DEF OneKeepCall
  <2> DEFINE c == E!KeepCall(IF keeps.shown THEN "unsave" ELSE "save", keepMade)
  <2>1. keepCalls' = {c}
    BY DEF E!ToggleSaved, E!Keep
  <2>2. c.op = IF keeps.shown THEN "unsave" ELSE "save"
    BY DEF E!KeepCall
  <2>3. keeps'.shown = ~keeps.shown /\ keeps.shown \in BOOLEAN
    BY DEF E!ToggleSaved, EditInv, EditTypes, E!TypeOK
  <2> HIDE DEF c
  <2>4. QED
    BY <2>1, <2>2, <2>3 DEF OneKeepCall
<1>5. QED
  BY <1>1, <1>2, <1>3, <1>4 DEF EditInv

LEMMA TypeAgreed == ASSUME EditInv, NEW x \in Texts, E!Type(x) PROVE EditInv'
<1>1. EditTypes'
  BY DEF EditInv, E!Type, E!keepVars, E!editVars, EditTypes, E!TypeOK
<1>2. EditorInv'
  BY DEF EditInv, E!Type, E!keepVars, E!editVars, EditTypes, E!TypeOK, EditorInv, E!EditorIsDraft
<1>3. ComesLast'
  BY DEF EditInv, E!Type, E!keepVars, E!editVars, EditTypes, E!TypeOK, ComesLast
<1>4. OneKeepCall'
  BY DEF EditInv, E!Type, E!keepVars, E!editVars, EditTypes, E!TypeOK, OneKeepCall
<1>5. QED
  BY <1>1, <1>2, <1>3, <1>4 DEF EditInv

LEMMA EditElsewhereAgreed == ASSUME EditInv, NEW x \in Texts, E!EditElsewhere(x) PROVE EditInv'
<1>1. EditTypes'
  BY DEF EditInv, E!EditElsewhere, E!keepVars, E!editVars, EditTypes, E!TypeOK
<1>2. EditorInv'
  BY DEF EditInv, E!EditElsewhere, E!keepVars, E!editVars, EditTypes, E!TypeOK, EditorInv,
     E!EditorIsDraft
<1>3. ComesLast'
  BY DEF EditInv, E!EditElsewhere, E!keepVars, E!editVars, EditTypes, E!TypeOK, ComesLast
<1>4. OneKeepCall'
  BY DEF EditInv, E!EditElsewhere, E!keepVars, E!editVars, EditTypes, E!TypeOK, OneKeepCall
<1>5. QED
  BY <1>1, <1>2, <1>3, <1>4 DEF EditInv

LEMMA BroadcastAgreed == ASSUME EditInv, NEW i \in DOMAIN unsaidTexts, NEW again \in BOOLEAN,
                                E!Broadcast(i, again)
                         PROVE  EditInv'
<1>1. /\ newsTexts' = Append(newsTexts, unsaidTexts[i])
      /\ IF again THEN unsaidTexts' = unsaidTexts
         ELSE unsaidTexts' = SubSeq(unsaidTexts, 1, i - 1) \o SubSeq(unsaidTexts, i + 1, Len(unsaidTexts))
      /\ crossed' = (crossed \/ i > 1)
      /\ UNCHANGED <<storedText, text, editing, editor, editDraft, menu, edits, made, listings, listed,
                     keeps, keepCalls, keepMade, keepDisturbed>>
  BY DEF E!Broadcast, E!BroadcastEnds, E!keepVars
<1>2. unsaidTexts \in Seq(Texts) /\ newsTexts \in Seq(Texts) /\ unsaidTexts[i] \in Texts
  BY ElementOfSeq, LenProperties DEF EditInv, EditTypes
<1>3. EditTypes'
  <2>0. SubSeq(unsaidTexts, 1, i - 1) \o SubSeq(unsaidTexts, i + 1, Len(unsaidTexts)) \in Seq(Texts)
    BY <1>2, TakenOut
  <2>1. unsaidTexts' \in Seq(Texts) /\ newsTexts' \in Seq(Texts)
    BY <1>1, <1>2, <2>0, AppendProperties
  <2>2. crossed' \in BOOLEAN
    BY <1>1
  <2>3. QED
    BY <1>1, <2>1, <2>2 DEF EditInv, EditTypes, E!TypeOK
<1>4. EditorInv'
  BY <1>1 DEF EditInv, EditorInv, E!EditorIsDraft
<1>5. ComesLast'
  <2> SUFFICES ASSUME ~crossed' PROVE ComesLast'
    BY DEF ComesLast
  <2>1. i = 1 /\ unsaidTexts # <<>> /\ ~crossed
    <3>1. i \in 1..Len(unsaidTexts) /\ Len(unsaidTexts) \in Nat
      BY <1>2, LenProperties
    <3>2. ~crossed /\ ~(i > 1)
      BY <1>1
    <3>3. QED
      BY <1>2, <3>1, <3>2, EmptySeq
  <2>2. newsTexts' # <<>> /\ newsTexts'[Len(newsTexts')] = unsaidTexts[1]
    BY <1>1, <1>2, <2>1, AppendProperties
  <2>3. CASE again
    BY <1>1, <2>1, <2>3 DEF EditInv, ComesLast
  <2>4. CASE ~again
    <3>1. unsaidTexts' = Tail(unsaidTexts)
      BY <1>1, <1>2, <2>1, <2>4, OldestTaken
    <3>2. /\ Tail(unsaidTexts) = <<>> => unsaidTexts[1] = storedText
          /\ Tail(unsaidTexts) # <<>> => Tail(unsaidTexts)[Len(Tail(unsaidTexts))] = storedText
      BY <2>1, LastOfTail DEF EditInv, EditTypes, ComesLast
    <3>3. QED
      BY <1>1, <2>2, <3>1, <3>2 DEF ComesLast
  <2>5. QED
    BY <2>3, <2>4
<1>6. OneKeepCall'
  BY <1>1 DEF EditInv, OneKeepCall
<1>7. QED
  BY <1>3, <1>4, <1>5, <1>6 DEF EditInv

LEMMA LoseAgreed == ASSUME EditInv, NEW i \in DOMAIN unsaidTexts, E!Lose(i) PROVE EditInv'
<1>1. /\ unsaidTexts' = SubSeq(unsaidTexts, 1, i - 1) \o SubSeq(unsaidTexts, i + 1, Len(unsaidTexts))
      /\ crossed' = (crossed \/ (i = Len(unsaidTexts) /\ (i > 1 \/ newsTexts # <<>> \/ unsaidTexts[i] # text)))
      /\ UNCHANGED <<storedText, newsTexts, text, editing, editor, editDraft, menu, edits, made, listings,
                     listed, keeps, keepCalls, keepMade, keepDisturbed>>
  BY DEF E!Lose, E!BroadcastEnds, E!keepVars
<1>2. /\ unsaidTexts' \in Seq(Texts) /\ (unsaidTexts' = <<>> <=> Len(unsaidTexts) = 1)
      /\ i # Len(unsaidTexts) => unsaidTexts' # <<>>
                                 /\ unsaidTexts'[Len(unsaidTexts')] = unsaidTexts[Len(unsaidTexts)]
  BY <1>1, TakenOut DEF EditInv, EditTypes
<1>3. i \in 1..Len(unsaidTexts) /\ Len(unsaidTexts) \in Nat /\ unsaidTexts # <<>>
  BY LenProperties, EmptySeq DEF EditInv, EditTypes
<1>4. EditTypes'
  <2>1. crossed' \in BOOLEAN
    BY <1>1 DEF EditInv, EditTypes, E!TypeOK
  <2>2. QED
    BY <1>1, <1>2, <2>1 DEF EditInv, EditTypes, E!TypeOK
<1>5. EditorInv'
  BY <1>1 DEF EditInv, EditorInv, E!EditorIsDraft
<1>6. ComesLast'
  <2> SUFFICES ASSUME ~crossed' PROVE ComesLast'
    BY DEF ComesLast
  <2>1. ~crossed /\ unsaidTexts[Len(unsaidTexts)] = storedText
    BY <1>1, <1>3 DEF EditInv, ComesLast
  <2>2. CASE i = Len(unsaidTexts)
    <3>1. ~(i > 1) /\ newsTexts = <<>> /\ unsaidTexts[i] = text
      BY <1>1, <2>2
    <3>2. unsaidTexts' = <<>> /\ text = storedText
      BY <1>2, <1>3, <2>1, <2>2, <3>1
    <3>3. QED
      BY <1>1, <3>1, <3>2 DEF ComesLast
  <2>3. CASE i # Len(unsaidTexts)
    BY <1>1, <1>2, <2>1, <2>3 DEF ComesLast
  <2>4. QED
    BY <2>2, <2>3
<1>7. OneKeepCall'
  BY <1>1 DEF EditInv, OneKeepCall
<1>8. QED
  BY <1>4, <1>5, <1>6, <1>7 DEF EditInv

LEMMA ServeListingAgreed == ASSUME EditInv, E!ServeListing PROVE EditInv'
<1>1. EditTypes'
  <2> DEFINE l == [n |-> listed, said |-> storedText]
  <2>1. listings' = listings \cup {l} /\ listed' = listed + 1
    BY DEF E!ServeListing
  <2>2. l \in [n: Nat, said: Texts]
    BY DEF EditInv, EditTypes, E!TypeOK
  <2> HIDE DEF l
  <2>3. listings' \subseteq [n: Nat, said: Texts] /\ listed' \in Nat
    BY <2>1, <2>2 DEF EditInv, EditTypes
  <2>4. QED
    BY <2>3 DEF E!ServeListing, E!keepVars, EditInv, EditTypes, E!TypeOK
<1>2. EditorInv'
  BY DEF EditInv, E!ServeListing, E!keepVars, EditorInv, E!EditorIsDraft
<1>3. ComesLast'
  BY DEF EditInv, E!ServeListing, E!keepVars, ComesLast
<1>4. OneKeepCall'
  BY DEF EditInv, E!ServeListing, E!keepVars, OneKeepCall
<1>5. QED
  BY <1>1, <1>2, <1>3, <1>4 DEF EditInv

LEMMA ListedAgreed == ASSUME EditInv, NEW l \in listings, E!Listed(l) PROVE EditInv'
<1>1. /\ listings' = listings \ {l} /\ E!ShowText(l.said)
      /\ crossed' = (crossed \/ (/\ l.said # storedText /\ unsaidTexts = <<>> /\ newsTexts = <<>>
                                 /\ \A e \in edits : e.served))
      /\ UNCHANGED <<storedText, unsaidTexts, newsTexts, editing, menu, edits, made, listed,
                     keeps, keepCalls, keepMade, keepDisturbed>>
  BY DEF E!Listed, E!keepVars
<1>2. l.said \in Texts /\ text' = l.said
  BY <1>1 DEF EditInv, EditTypes, E!ShowText
<1>3. EditTypes'
  BY <1>1, <1>2 DEF EditInv, EditTypes, E!TypeOK, E!ShowText
<1>4. EditorInv'
  BY <1>1 DEF EditInv, EditorInv, E!EditorIsDraft, E!ShowText
<1>5. ComesLast'
  BY <1>1, <1>2 DEF EditInv, ComesLast
<1>6. OneKeepCall'
  BY <1>1 DEF EditInv, OneKeepCall
<1>7. QED
  BY <1>3, <1>4, <1>5, <1>6 DEF EditInv

LEMMA ServeAgreed == ASSUME EditInv, NEW e \in edits, E!Serve(e) PROVE EditInv'
<1>1. EditTypes'
  <2>1. [e EXCEPT !.served = TRUE] \in [n: Nat, to: Texts, from: Texts, served: BOOLEAN] /\ e.to \in Texts
    BY DEF EditInv, EditTypes
  <2>2. unsaidTexts' \in Seq(Texts) /\ storedText' \in Texts
    BY <2>1, AppendProperties DEF E!Serve, EditInv, EditTypes
  <2>3. edits' \subseteq [n: Nat, to: Texts, from: Texts, served: BOOLEAN]
    BY <2>1 DEF E!Serve, EditInv, EditTypes
  <2>4. QED
    BY <2>2, <2>3 DEF EditInv, E!Serve, E!keepVars, E!editVars, EditTypes, E!TypeOK
<1>2. EditorInv'
  BY DEF EditInv, E!Serve, E!keepVars, E!editVars, EditTypes, E!TypeOK, EditorInv, E!EditorIsDraft
<1>3. ComesLast'
  BY DEF EditInv, E!Serve, E!keepVars, E!editVars, EditTypes, E!TypeOK, ComesLast
<1>4. OneKeepCall'
  BY DEF EditInv, E!Serve, E!keepVars, E!editVars, EditTypes, E!TypeOK, OneKeepCall
<1>5. QED
  BY <1>1, <1>2, <1>3, <1>4 DEF EditInv

LEMMA EditAnsweredAgreed == ASSUME EditInv, NEW e \in edits, E!EditAnswered(e) PROVE EditInv'
<1>1. EditTypes'
  BY DEF EditInv, E!EditAnswered, E!keepVars, E!editVars, EditTypes, E!TypeOK
<1>2. EditorInv'
  BY DEF EditInv, E!EditAnswered, E!keepVars, E!editVars, EditTypes, E!TypeOK, EditorInv,
     E!EditorIsDraft
<1>3. ComesLast'
  BY DEF EditInv, E!EditAnswered, E!keepVars, E!editVars, EditTypes, E!TypeOK, ComesLast
<1>4. OneKeepCall'
  BY DEF EditInv, E!EditAnswered, E!keepVars, E!editVars, EditTypes, E!TypeOK, OneKeepCall
<1>5. QED
  BY <1>1, <1>2, <1>3, <1>4 DEF EditInv

LEMMA EditFailedAgreed == ASSUME EditInv, NEW e \in edits, E!EditFailed(e) PROVE EditInv'
<1>1. EditTypes'
  BY DEF EditInv, E!EditFailed, E!keepVars, E!editVars, E!ShowText, EditTypes, E!TypeOK
<1>2. EditorInv'
  BY DEF EditInv, E!EditFailed, E!keepVars, E!editVars, E!ShowText, EditTypes, E!TypeOK, EditorInv,
     E!EditorIsDraft
<1>3. ComesLast'
  BY DEF EditInv, E!EditFailed, E!keepVars, E!editVars, E!ShowText, EditTypes, E!TypeOK, ComesLast
<1>4. OneKeepCall'
  BY DEF EditInv, E!EditFailed, E!keepVars, E!editVars, E!ShowText, EditTypes, E!TypeOK, OneKeepCall
<1>5. QED
  BY <1>1, <1>2, <1>3, <1>4 DEF EditInv

LEMMA ServeKeepAgreed == ASSUME EditInv, NEW k \in keepCalls, E!ServeKeep(k) PROVE EditInv'
<1>1. EditTypes'
  BY DEF EditInv, E!ServeKeep, E!keepVars, E!editVars, EditTypes, E!TypeOK
<1>2. EditorInv'
  BY DEF EditInv, E!ServeKeep, E!keepVars, E!editVars, EditTypes, E!TypeOK, EditorInv,
     E!EditorIsDraft
<1>3. ComesLast'
  BY DEF EditInv, E!ServeKeep, E!keepVars, E!editVars, EditTypes, E!TypeOK, ComesLast
<1>4. OneKeepCall'
  <2> SUFFICES ASSUME ~keepDisturbed' PROVE OneKeepCall'
    BY DEF OneKeepCall
  <2>1. keepCalls = {k} /\ ~keepDisturbed /\ ~k.served /\ k.op \in {"list", "save", "unsave"}
    BY DEF E!ServeKeep, EditInv, OneKeepCall, EditTypes
  <2>2. CASE k.op = "list"
    <3> DEFINE c == [k EXCEPT !.served = TRUE, !.answer = keeps.stored]
    <3>1. c.op = "list" /\ c.answer = keeps.stored
      BY <2>2 DEF EditInv, EditTypes
    <3>2. keepCalls' = {c} /\ keeps' = keeps
      BY <2>1, <2>2 DEF E!ServeKeep
    <3> HIDE DEF c
    <3>3. QED
      BY <3>1, <3>2 DEF OneKeepCall
  <2>3. CASE k.op # "list"
    <3>1. keepCalls' = {} /\ keeps' = [keeps EXCEPT !.stored = (k.op = "save")] /\ keeps.shown = (k.op = "save")
      BY <2>1, <2>3 DEF E!ServeKeep, EditInv, OneKeepCall
    <3>2. keeps'.shown = keeps'.stored
      BY <3>1 DEF EditInv, EditTypes, E!TypeOK
    <3>3. QED
      BY <3>1, <3>2 DEF OneKeepCall
  <2>4. QED
    BY <2>2, <2>3
<1>5. QED
  BY <1>1, <1>2, <1>3, <1>4 DEF EditInv

LEMMA SavedListedAgreed == ASSUME EditInv, NEW k \in keepCalls, E!SavedListed(k) PROVE EditInv'
<1>1. EditTypes'
  BY DEF EditInv, E!SavedListed, E!keepVars, E!editVars, EditTypes, E!TypeOK
<1>2. EditorInv'
  BY DEF EditInv, E!SavedListed, E!keepVars, E!editVars, EditTypes, E!TypeOK, EditorInv,
     E!EditorIsDraft
<1>3. ComesLast'
  BY DEF EditInv, E!SavedListed, E!keepVars, E!editVars, EditTypes, E!TypeOK, ComesLast
<1>4. OneKeepCall'
  BY DEF EditInv, E!SavedListed, E!keepVars, E!editVars, EditTypes, E!TypeOK, OneKeepCall
<1>5. QED
  BY <1>1, <1>2, <1>3, <1>4 DEF EditInv

LEMMA KeepFailedAgreed == ASSUME EditInv, NEW k \in keepCalls, E!KeepFailed(k) PROVE EditInv'
<1>1. EditTypes'
  BY DEF EditInv, E!KeepFailed, E!keepVars, E!editVars, EditTypes, E!TypeOK
<1>2. EditorInv'
  BY DEF EditInv, E!KeepFailed, E!keepVars, E!editVars, EditTypes, E!TypeOK, EditorInv,
     E!EditorIsDraft
<1>3. ComesLast'
  BY DEF EditInv, E!KeepFailed, E!keepVars, E!editVars, EditTypes, E!TypeOK, ComesLast
<1>4. OneKeepCall'
  BY DEF EditInv, E!KeepFailed, E!keepVars, E!editVars, EditTypes, E!TypeOK, OneKeepCall
<1>5. QED
  BY <1>1, <1>2, <1>3, <1>4 DEF EditInv

LEMMA EditStep == EditInv /\ [E!Next]_editVars => EditInv'
<1> SUFFICES ASSUME EditInv, [E!Next]_editVars PROVE EditInv'
  OBVIOUS
<1>1. CASE UNCHANGED editVars
  BY <1>1 DEF editVars, EditInv, EditTypes, E!TypeOK, EditorInv, E!EditorIsDraft, ComesLast,
     OneKeepCall
<1>2. CASE E!Next
  BY <1>2, OpenMenuAgreed, StartEditAgreed, CancelEditAgreed, AskDeleteAgreed, SaveEditAgreed,
     UpdateIncomingAgreed, ToggleSavedAgreed, TypeAgreed, EditElsewhereAgreed, BroadcastAgreed,
     LoseAgreed, ServeListingAgreed, ListedAgreed, ServeAgreed, EditAnsweredAgreed, EditFailedAgreed, ServeKeepAgreed, SavedListedAgreed,
     KeepFailedAgreed DEF E!Next
<1>3. QED
  BY <1>1, <1>2

-----------------------------------------------------------------------------
(* Reactions.  What the screen has of one user's reaction to one message.   *)

Entry == [user: Users, emoji: Emojis]
Change == [msg: Messages, user: Users, emoji: Emojis \cup {none}, n: Nat]

ShowsIn(rs, u, e) ==
  LET of == {i \in DOMAIN rs : rs[i].user = u}
  IN  IF e = none THEN of = {} ELSE \E i \in of : of = {i} /\ rs[i].emoji = e

LEMMA FilterUser == ASSUME NEW rs \in Seq(Entry), NEW u
                    PROVE  /\ R!WithoutUser(rs, u) \in Seq(Entry)
                           /\ \A k \in DOMAIN R!WithoutUser(rs, u) : R!WithoutUser(rs, u)[k].user # u
                           /\ \A v, e : v # u /\ ShowsIn(rs, v, e) => ShowsIn(R!WithoutUser(rs, u), v, e)
<1> DEFINE S == {i \in DOMAIN rs : rs[i].user # u}
           f == R!Increasing(S)
           w == [k \in DOMAIN f |-> rs[f[k]]]
<1>1. DOMAIN rs = 1..Len(rs) /\ Len(rs) \in Nat /\ \A i \in DOMAIN rs : rs[i] \in Entry
  BY LenProperties, ElementOfSeq
<1>2. S \in SUBSET Nat /\ IsFiniteSet(S)
  <2>1. IsFiniteSet(1..Len(rs))
    BY <1>1, FS_Interval
  <2>2. S \in SUBSET (1..Len(rs)) /\ 1..Len(rs) \subseteq Nat
    BY <1>1
  <2>3. QED
    BY <2>1, <2>2, FS_Subset
<1>3. Cardinality(S) \in Nat
  BY <1>2, FS_CardinalityType
<1>4. EnumeratesUp(f, S)
  BY <1>2, IncreasingIs
<1>5. DOMAIN f = 1..Cardinality(S) /\ \A k \in DOMAIN f : f[k] \in S
  BY <1>4 DEF EnumeratesUp
<1>6. \A k, l \in DOMAIN f : f[k] = f[l] => k = l
  <2> TAKE k, l \in DOMAIN f
  <2>1. k \in Nat /\ l \in Nat /\ f[k] \in Nat /\ f[l] \in Nat
    <3> HIDE DEF f, S
    <3>1. \A n \in Nat : \A i \in 1..n : i \in Nat
      OBVIOUS
    <3>2. f[k] \in Nat /\ f[l] \in Nat
      BY <1>2, <1>5
    <3>3. QED
      BY <1>3, <1>5, <3>1, <3>2
  <2>2. (k < l => f[k] < f[l]) /\ (l < k => f[l] < f[k])
    BY <1>4 DEF EnumeratesUp
  <2> HIDE DEF f
  <2>3. QED
    BY <2>1, <2>2
<1>7. R!WithoutUser(rs, u) = w
  BY DEF R!WithoutUser
<1>8. DOMAIN w = DOMAIN f /\ \A k \in DOMAIN w : w[k] = rs[f[k]]
  OBVIOUS
<1>9. w \in Seq(Entry)
  <2>1. w \in [1..Cardinality(S) -> Entry]
    <3> HIDE DEF f
    <3>1. QED
      BY <1>1, <1>5
  <2> HIDE DEF w, S
  <2>2. QED
    BY <1>3, <2>1, SeqDef
<1>10. \A k \in DOMAIN w : w[k].user # u
  <2> HIDE DEF f
  <2>1. QED
    BY <1>5, <1>8
<1>11. ASSUME NEW v, NEW e, v # u, ShowsIn(rs, v, e) PROVE ShowsIn(w, v, e)
  <2> DEFINE ofRs == {i \in DOMAIN rs : rs[i].user = v}
             ofW == {k \in DOMAIN w : w[k].user = v}
  <2>1. \A k \in ofW : f[k] \in ofRs
    <3> HIDE DEF f
    <3>1. QED
      BY <1>5, <1>8
  <2>2. CASE e = none
    <3>1. ofRs = {}
      BY <1>11, <2>2 DEF ShowsIn
    <3>2. ofW = {}
      BY <2>1, <3>1
    <3> HIDE DEF w
    <3>3. QED
      BY <2>2, <3>2 DEF ShowsIn
  <2>3. CASE e # none
    <3>1. PICK i \in ofRs : ofRs = {i} /\ rs[i].emoji = e
      BY <1>11, <2>3 DEF ShowsIn
    <3>2. i \in S
      BY <1>11, <3>1
    <3>3. PICK k \in DOMAIN f : f[k] = i
      BY <1>4, <3>2 DEF EnumeratesUp
    <3>4. k \in ofW /\ w[k].emoji = e
      BY <1>8, <3>1, <3>3
    <3>5. \A l \in ofW : l = k
      <4> HIDE DEF f
      <4>1. QED
        BY <1>6, <1>8, <2>1, <3>1, <3>3
    <3>6. ofW = {k}
      BY <3>4, <3>5
    <3> HIDE DEF w
    <3>7. QED
      BY <2>3, <3>4, <3>6 DEF ShowsIn
  <2>4. QED
    BY <2>2, <2>3
<1>12. QED
  BY <1>7, <1>9, <1>10, <1>11

LEMMA AppendUser == ASSUME NEW rs \in Seq(Entry), NEW u \in Users, NEW x \in Emojis
                    PROVE  LET ap == Append(rs, [user |-> u, emoji |-> x])
                           IN  /\ ap \in Seq(Entry)
                               /\ \A v, e : v # u /\ ShowsIn(rs, v, e) => ShowsIn(ap, v, e)
                               /\ (\A k \in DOMAIN rs : rs[k].user # u) => ShowsIn(ap, u, x)
<1> DEFINE r == [user |-> u, emoji |-> x]
           ap == Append(rs, r)
           n == Len(rs) + 1
<1>1. r \in Entry /\ r.user = u /\ r.emoji = x
  BY DEF Entry
<1>2. DOMAIN rs = 1..Len(rs) /\ Len(rs) \in Nat
  BY LenProperties
<1>3. ap \in Seq(Entry) /\ DOMAIN ap = 1..n /\ ap[n] = r /\ \A i \in DOMAIN rs : ap[i] = rs[i]
  <2> HIDE DEF r
  <2>1. ap \in Seq(Entry) /\ Len(ap) = n /\ ap[n] = r /\ \A i \in 1..Len(rs) : ap[i] = rs[i]
    BY <1>1, AppendProperties
  <2>2. DOMAIN ap = 1..Len(ap)
    BY <2>1, LenProperties
  <2> HIDE DEF ap
  <2>3. QED
    BY <1>2, <2>1, <2>2
<1>4. DOMAIN ap = DOMAIN rs \cup {n} /\ n \notin DOMAIN rs
  <2> HIDE DEF ap
  <2>1. QED
    BY <1>2, <1>3
<1> HIDE DEF r, ap, n
<1>5. ASSUME NEW v, NEW e, v # u, ShowsIn(rs, v, e) PROVE ShowsIn(ap, v, e)
  <2>1. {i \in DOMAIN ap : ap[i].user = v} = {i \in DOMAIN rs : rs[i].user = v}
    BY <1>1, <1>3, <1>4, <1>5
  <2>2. \A i \in DOMAIN rs : ap[i].emoji = rs[i].emoji
    BY <1>3
  <2>3. QED
    BY <1>5, <2>1, <2>2 DEF ShowsIn
<1>6. ASSUME \A k \in DOMAIN rs : rs[k].user # u PROVE ShowsIn(ap, u, x)
  <2>1. {i \in DOMAIN ap : ap[i].user = u} = {n}
    BY <1>1, <1>3, <1>4, <1>6
  <2>2. x # none
    BY ClientConstants DEF R!ReactionsAssumption
  <2>3. QED
    BY <1>1, <1>3, <2>1, <2>2 DEF ShowsIn
<1>7. QED
  BY <1>3, <1>5, <1>6 DEF ap, r

Fetching == [n: Nat, got: SUBSET Messages, said: [R!Pairs -> Emojis \cup {none}],
             touched: SUBSET R!Pairs]

\* The pair q changed on screen: every listing under way has to know.
Noted(q) ==
  /\ fetching' \subseteq Fetching
  /\ \A k \in fetching' : \E l \in fetching : /\ k.n = l.n /\ k.got = l.got /\ k.said = l.said
                                              /\ k.touched = l.touched \cup {q}
  /\ \A l \in fetching : \E k \in fetching' : k.n = l.n

ReactionTypes ==
  /\ stored \in [R!Pairs -> Emojis \cup {none}]
  /\ unsaid \subseteq Change /\ news \in Seq(Change)
  /\ reacting \subseteq [msg: Messages, emoji: Emojis \cup {none}, n: Nat, served: BOOLEAN]
  /\ reactions \in [Messages -> Seq(Entry)]
  /\ fetching \subseteq Fetching
  /\ deleting \subseteq Messages /\ gone \subseteq Messages
  /\ changes \in 0..MaxChanges /\ disturbed \subseteq R!Pairs

\* A change on screen: the user's reaction is the one said, the others stay.
LEMMA Updated == ASSUME ReactionTypes, NEW m \in Messages, NEW u \in Users,
                        NEW e \in Emojis \cup {none},
                        R!UpdateReactionUI(m, u, e)
                 PROVE  /\ reactions' \in [Messages -> Seq(Entry)]
                        /\ ShowsIn(reactions'[m], u, e)
                        /\ \A p \in R!Pairs : \A x :
                             (p.msg # m \/ p.user # u) /\ ShowsIn(reactions[p.msg], p.user, x)
                               => ShowsIn(reactions'[p.msg], p.user, x)
                        /\ Noted([msg |-> m, user |-> u])
<1> DEFINE rs == reactions[m]
           w == R!WithoutUser(rs, u)
           new == IF e = none THEN w ELSE Append(w, [user |-> u, emoji |-> e])
<1>1. rs \in Seq(Entry)
  BY DEF ReactionTypes
<1>2. /\ w \in Seq(Entry) /\ \A k \in DOMAIN w : w[k].user # u
      /\ \A v, x : v # u /\ ShowsIn(rs, v, x) => ShowsIn(w, v, x)
  BY <1>1, FilterUser
<1>3. reactions' = [reactions EXCEPT ![m] = new]
  BY DEF R!UpdateReactionUI
<1> HIDE DEF w, rs
<1>4. /\ new \in Seq(Entry) /\ ShowsIn(new, u, e)
      /\ \A v, x : v # u /\ ShowsIn(rs, v, x) => ShowsIn(new, v, x)
  <2>1. CASE e = none
    BY <1>2, <2>1 DEF ShowsIn
  <2>2. CASE e # none
    <3>1. e \in Emojis
      BY <2>2
    <3>2. QED
      BY <1>2, <2>2, <3>1, AppendUser
  <2>3. QED
    BY <2>1, <2>2
<1> HIDE DEF new
<1>5. /\ reactions' \in [Messages -> Seq(Entry)] /\ reactions'[m] = new
      /\ \A p \in R!Pairs : p.msg \in Messages /\ (p.msg # m => reactions'[p.msg] = reactions[p.msg])
  BY <1>3, <1>4 DEF ReactionTypes, R!Pairs
<1>6. Noted([msg |-> m, user |-> u])
  <2> DEFINE q == [msg |-> m, user |-> u]
             On(l) == [l EXCEPT !.touched = @ \cup {q}]
  <2>1. q \in R!Pairs
    BY DEF R!Pairs
  <2>2. fetching' = {On(l) : l \in fetching} /\ fetching \subseteq Fetching
    BY DEF R!UpdateReactionUI, R!Touch, ReactionTypes
  <2> HIDE DEF q
  <2>3. \A l \in Fetching : /\ On(l) \in Fetching /\ On(l).n = l.n /\ On(l).got = l.got
                            /\ On(l).said = l.said /\ On(l).touched = l.touched \cup {q}
    BY <2>1 DEF Fetching
  <2> HIDE DEF On
  <2>4. Noted(q)
    BY <2>2, <2>3 DEF Noted
  <2>5. QED
    BY <2>4 DEF q
<1>7. ASSUME NEW p \in R!Pairs, NEW x, p.msg # m \/ p.user # u, ShowsIn(reactions[p.msg], p.user, x)
      PROVE  ShowsIn(reactions'[p.msg], p.user, x)
  <2>1. CASE p.msg # m
    BY <1>5, <1>7, <2>1
  <2>2. CASE p.msg = m
    BY <1>4, <1>5, <1>7, <2>2 DEF rs
  <2>3. QED
    BY <2>1, <2>2
<1>8. QED
  BY <1>4, <1>5, <1>6, <1>7

-----------------------------------------------------------------------------
(* Reactions.  For each user and message, the last of what is under way    *)
(* brings what the server has, unless the pair is disturbed.                *)

\* What is under way about the reaction of a user to a message: p is a pair.
About(x, p) == x.msg = p.msg /\ x.user = p.user
Own(call, p) == p.user = Me /\ call.msg = p.msg
NoneSaid(p) == \A x \in unsaid : ~About(x, p)
NoNews(p) == \A i \in DOMAIN news : ~About(news[i], p)

SaidOnce(p) == \A x, y \in unsaid : About(x, p) /\ About(y, p) => x = y
SaidIsStored(p) == \A x \in unsaid : About(x, p) => x.emoji = stored[p]
CalledOnce(p) == \A x, y \in reacting : Own(x, p) /\ Own(y, p) => x = y
CalledFirst(p) == \A x \in reacting : Own(x, p) /\ ~x.served => NoneSaid(p)
LastNews(p) ==
  NoneSaid(p) =>
    \A i \in DOMAIN news :
      About(news[i], p) /\ (\A j \in DOMAIN news : About(news[j], p) => j <= i)
        => news[i].emoji = stored[p]
ListedLast(p) ==
  NoneSaid(p) /\ NoNews(p) /\ p.msg \notin gone \cup deleting =>
    \A l \in fetching : p.msg \in l.got /\ p \notin l.touched => l.said[p] = stored[p]
OnScreen(p) ==
  /\ NoneSaid(p) /\ NoNews(p) /\ \A l \in fetching : l.n # 0
  /\ \A x \in reacting : Own(x, p) => x.served
  => ShowsIn(reactions[p.msg], p.user, stored[p])

PairInv(p) ==
  /\ SaidOnce(p) /\ SaidIsStored(p) /\ CalledOnce(p) /\ CalledFirst(p)
  /\ LastNews(p) /\ ListedLast(p)
  /\ p.msg \notin gone \cup deleting => OnScreen(p)

ReactionInv == ReactionTypes /\ \A p \in R!Pairs \ disturbed : PairInv(p)

LEMMA ReactionSafe == ReactionInv => R!TypeOK /\ R!ReactionsAgree
<1> SUFFICES ASSUME ReactionInv PROVE R!TypeOK /\ R!ReactionsAgree
  OBVIOUS
<1>1. R!TypeOK
  <2>1. ASSUME NEW m \in Messages PROVE \A i \in DOMAIN reactions[m] : reactions[m][i] \in Entry
    <3>1. reactions[m] \in Seq(Entry)
      BY DEF ReactionInv, ReactionTypes
    <3>2. QED
      BY <3>1, LenProperties, ElementOfSeq
  <2>2. QED
    BY <2>1 DEF ReactionInv, ReactionTypes, R!TypeOK, Entry
<1>2. ASSUME unsaid = {}, news = <<>>, reacting = {}, fetching = {},
             NEW p \in R!Pairs \ disturbed, p.msg \notin gone \cup deleting
      PROVE  ShowsIn(reactions[p.msg], p.user, stored[p])
  <2>1. NoneSaid(p) /\ NoNews(p) /\ \A x \in reacting : Own(x, p) => x.served
    BY <1>2 DEF NoneSaid, NoNews
  <2>2. OnScreen(p)
    BY <1>2 DEF ReactionInv, PairInv
  <2>3. QED
    BY <1>2, <2>1, <2>2 DEF OnScreen
<1>3. R!ReactionsAgree
  BY <1>2 DEF R!ReactionsAgree, ShowsIn
<1>4. QED
  BY <1>1, <1>3

LEMMA ReactionInit == ASSUME R!Init PROVE ReactionInv
<1>1. R!None \in [R!Pairs -> Emojis \cup {none}]
  BY DEF R!None
<1>2. stored \in [R!Pairs -> Emojis \cup {none}]
  BY DEF R!Init
<1>3. reactions \in [Messages -> Seq(Entry)]
  BY DEF R!Init
<1>4. fetching = {[n |-> 0, got |-> {}, said |-> R!None, touched |-> {}]}
  BY DEF R!Init, R!Listing
<1>5. changes \in 0..MaxChanges
  BY ClientConstants DEF R!Init, R!ReactionsAssumption
<1> HIDE DEF R!None
<1>6. ReactionTypes
  <2>1. news \in Seq(Change)
    BY DEF R!Init
  <2>2. fetching \subseteq Fetching
    BY <1>1, <1>4 DEF Fetching
  <2>3. QED
    BY <1>2, <1>3, <1>5, <2>1, <2>2 DEF R!Init, ReactionTypes
<1>7. ASSUME NEW p \in R!Pairs PROVE PairInv(p)
  <2>1. \E l \in fetching : l.n = 0
    BY <1>4
  <2>2. \A l \in fetching : l.got = {}
    BY <1>4
  <2>3. QED
    BY <2>1, <2>2 DEF R!Init, PairInv, SaidOnce, SaidIsStored, CalledOnce, CalledFirst, LastNews,
              ListedLast, OnScreen
<1>8. QED
  BY <1>6, <1>7 DEF ReactionInv

\* A pair is its message and its user.
LEMMA PairIs == /\ \A m \in Messages : \A u \in Users : [msg |-> m, user |-> u] \in R!Pairs
                /\ \A p \in R!Pairs : /\ p.msg \in Messages /\ p.user \in Users
                                      /\ p = [msg |-> p.msg, user |-> p.user]
                                      /\ \A m, u : p = [msg |-> m, user |-> u] <=> p.msg = m /\ p.user = u
<1>1. \A m \in Messages : \A u \in Users : [msg |-> m, user |-> u] \in R!Pairs
  BY DEF R!Pairs
<1>2. ASSUME NEW p \in R!Pairs
      PROVE  /\ p.msg \in Messages /\ p.user \in Users /\ p = [msg |-> p.msg, user |-> p.user]
             /\ \A m, u : p = [msg |-> m, user |-> u] <=> p.msg = m /\ p.user = u
  BY DEF R!Pairs
<1>3. QED
  BY <1>1, <1>2

\* A listing of the pairs that did not change stays what it was.
LEMMA NotedOnly == ASSUME NEW q, Noted(q)
                   PROVE  /\ (\A k \in fetching' : k.n # 0) <=> (\A l \in fetching : l.n # 0)
                          /\ \A k \in fetching' : \E l \in fetching :
                               k.got = l.got /\ k.said = l.said /\ l.touched \subseteq k.touched /\ q \in k.touched
  BY DEF Noted

LEMMA ReactSafe == ASSUME ReactionInv, NEW m \in Messages, NEW e \in Emojis, R!React(m, e)
                   PROVE  ReactionInv'
<1> DEFINE mine == {i \in DOMAIN reactions[m] : reactions[m][i].user = Me}
           wanted == IF \E i \in mine : reactions[m][i].emoji = e /\ \A j \in mine : i <= j
                     THEN none ELSE e
           call == [msg |-> m, emoji |-> wanted, n |-> changes, served |-> FALSE]
           q == [msg |-> m, user |-> Me]
           busy == \/ \E x \in reacting : x.msg = m
                   \/ \E x \in unsaid : x.msg = m /\ x.user = Me
<1>1. ReactionTypes
  BY DEF ReactionInv
<1>2. wanted \in Emojis \cup {none}
  OBVIOUS
<1>3. /\ changes < MaxChanges /\ changes' = changes + 1
      /\ reacting' = reacting \cup {call} /\ R!UpdateReactionUI(m, Me, wanted)
      /\ UNCHANGED <<stored, unsaid, news, deleting, gone>>
      /\ disturbed' = IF busy THEN disturbed \cup {q} ELSE disturbed
  BY DEF R!React, R!Toggle, R!Overtaking, R!server
<1> HIDE DEF wanted
<1>4. Me \in Users /\ MaxChanges \in Nat
  BY ClientConstants DEF R!ReactionsAssumption
<1>5. /\ reactions' \in [Messages -> Seq(Entry)]
      /\ \A p \in R!Pairs : \A x :
           (p.msg # m \/ p.user # Me) /\ ShowsIn(reactions[p.msg], p.user, x)
             => ShowsIn(reactions'[p.msg], p.user, x)
      /\ Noted(q)
  BY <1>1, <1>2, <1>3, <1>4, Updated
<1>6. q \in R!Pairs
  BY <1>4, PairIs
<1>7. /\ fetching' \subseteq Fetching
      /\ (\A k \in fetching' : k.n # 0) <=> (\A l \in fetching : l.n # 0)
      /\ \A k \in fetching' : \E l \in fetching :
           k.got = l.got /\ k.said = l.said /\ l.touched \subseteq k.touched
  BY <1>5, NotedOnly DEF Noted
<1>8. ReactionTypes'
  <2>1. changes' \in 0..MaxChanges /\ changes \in Nat
    BY <1>1, <1>3, <1>4 DEF ReactionTypes
  <2>2. call \in [msg: Messages, emoji: Emojis \cup {none}, n: Nat, served: BOOLEAN]
    BY <1>2, <2>1
  <2>3. reacting' \subseteq [msg: Messages, emoji: Emojis \cup {none}, n: Nat, served: BOOLEAN]
    <3> HIDE DEF call
    <3>1. QED
      BY <1>1, <1>3, <2>2 DEF ReactionTypes
  <2>4. disturbed' \subseteq R!Pairs
    <3> HIDE DEF q, busy
    <3>1. QED
      BY <1>1, <1>3, <1>6 DEF ReactionTypes
  <2> HIDE DEF call, q, busy
  <2>5. QED
    BY <1>1, <1>3, <1>5, <1>7, <2>1, <2>3, <2>4 DEF ReactionTypes
<1>9. ASSUME NEW p \in R!Pairs \ disturbed' PROVE PairInv(p)'
  <2>1. PairInv(p)
    BY <1>3, <1>9 DEF ReactionInv
  <2>2. Own(call, p) => /\ \A x \in reacting : ~Own(x, p)
                        /\ NoneSaid(p)
    <3> SUFFICES ASSUME Own(call, p) PROVE (\A x \in reacting : ~Own(x, p)) /\ NoneSaid(p)
      OBVIOUS
    <3>1. p.msg = m /\ p.user = Me /\ p = q
      BY PairIs DEF Own
    <3>2. ~busy
      BY <1>3, <1>9, <3>1
    <3>3. QED
      BY <3>1, <3>2 DEF Own, NoneSaid, About
  <2>3. NoneSaid(p)' = NoneSaid(p) /\ NoNews(p)' = NoNews(p) /\ stored'[p] = stored[p]
    BY <1>3 DEF NoneSaid, NoNews
  <2>4. ~call.served
    OBVIOUS
  <2> HIDE DEF call, q, busy
  <2>5. SaidOnce(p)' /\ SaidIsStored(p)' /\ LastNews(p)'
    BY <1>3, <2>1, <2>3 DEF PairInv, SaidOnce, SaidIsStored, LastNews
  <2>6. CalledOnce(p)' /\ CalledFirst(p)'
    BY <1>3, <2>1, <2>2, <2>3 DEF PairInv, CalledOnce, CalledFirst
  <2>7. ListedLast(p)'
    BY <1>3, <1>7, <2>1, <2>3 DEF PairInv, ListedLast
  <2>8. ASSUME p.msg \notin gone' \cup deleting' PROVE OnScreen(p)'
    <3>1. SUFFICES ASSUME NoneSaid(p), NoNews(p), \A l \in fetching : l.n # 0,
                          \A x \in reacting' : Own(x, p) => x.served
                   PROVE  ShowsIn(reactions'[p.msg], p.user, stored[p])
      BY <1>7, <2>3 DEF OnScreen
    <3>2. ~Own(call, p)
      BY <1>3, <2>4, <3>1
    <3>3. p.msg # m \/ p.user # Me
      BY <3>2 DEF Own, call
    <3>4. ShowsIn(reactions[p.msg], p.user, stored[p])
      BY <1>3, <2>1, <2>8, <3>1 DEF PairInv, OnScreen
    <3>5. QED
      BY <1>5, <3>3, <3>4
  <2>9. QED
    BY <2>5, <2>6, <2>7, <2>8 DEF PairInv
<1>10. QED
  BY <1>8, <1>9 DEF ReactionInv

LEMMA DeleteMessageSafe == ASSUME ReactionInv, NEW m \in Messages, R!DeleteMessage(m)
                           PROVE  ReactionInv'
<1>1. /\ deleting' = deleting \cup {m} /\ reactions' = [reactions EXCEPT ![m] = <<>>]
      /\ UNCHANGED <<stored, unsaid, news, reacting, fetching, gone, changes, disturbed>>
  BY DEF R!DeleteMessage, R!server
<1>2. ReactionTypes'
  <2>1. reactions' \in [Messages -> Seq(Entry)]
    BY <1>1 DEF ReactionInv, ReactionTypes
  <2>2. QED
    BY <1>1, <2>1 DEF ReactionInv, ReactionTypes
<1>3. ASSUME NEW p \in R!Pairs \ disturbed' PROVE PairInv(p)'
  <2>1. PairInv(p)
    BY <1>1, <1>3 DEF ReactionInv
  <2>2. NoneSaid(p)' = NoneSaid(p) /\ NoNews(p)' = NoNews(p)
    BY <1>1 DEF NoneSaid, NoNews
  <2>3. SaidOnce(p)' /\ SaidIsStored(p)' /\ LastNews(p)' /\ CalledOnce(p)' /\ CalledFirst(p)' /\ ListedLast(p)'
    BY <1>1, <2>1, <2>2 DEF PairInv, SaidOnce, SaidIsStored, LastNews, CalledOnce, CalledFirst,
       ListedLast
  <2>4. ASSUME p.msg \notin gone' \cup deleting' PROVE OnScreen(p)'
    <3>1. p.msg # m /\ p.msg \notin gone \cup deleting
      BY <1>1, <2>4
    <3>2. reactions'[p.msg] = reactions[p.msg]
      BY <1>1, <3>1, PairIs DEF ReactionInv, ReactionTypes
    <3>3. QED
      BY <1>1, <2>1, <2>2, <3>1, <3>2 DEF PairInv, OnScreen
  <2>5. QED
    BY <2>3, <2>4 DEF PairInv
<1>4. QED
  BY <1>2, <1>3 DEF ReactionInv

LEMMA DeleteEndsSafe == ASSUME ReactionInv, NEW m \in Messages, NEW failed \in BOOLEAN,
                               R!DeleteEnds(m, failed)
                        PROVE  ReactionInv'
<1>1. /\ m \in deleting /\ deleting' = deleting \ {m}
      /\ IF failed THEN disturbed' = disturbed \cup {p \in R!Pairs : p.msg = m} /\ gone' = gone
                   ELSE gone' = gone \cup {m} /\ disturbed' = disturbed
      /\ UNCHANGED <<stored, unsaid, news, reacting, reactions, fetching, changes>>
  BY DEF R!DeleteEnds, R!server
<1>2. ReactionTypes'
  BY <1>1 DEF ReactionInv, ReactionTypes
<1>3. ASSUME NEW p \in R!Pairs \ disturbed' PROVE PairInv(p)'
  <2>1. PairInv(p)
    BY <1>1, <1>3 DEF ReactionInv
  <2>2. NoneSaid(p)' = NoneSaid(p) /\ NoNews(p)' = NoNews(p)
    BY <1>1 DEF NoneSaid, NoNews
  <2>3. SaidOnce(p)' /\ SaidIsStored(p)' /\ LastNews(p)' /\ CalledOnce(p)' /\ CalledFirst(p)' /\ ListedLast(p)'
    BY <1>1, <2>1, <2>2 DEF PairInv, SaidOnce, SaidIsStored, LastNews, CalledOnce, CalledFirst,
       ListedLast
  <2>4. OnScreen(p)' = OnScreen(p)
    BY <1>1, <2>2 DEF OnScreen
  <2>5. p.msg \notin gone' \cup deleting' => p.msg \notin gone \cup deleting
    BY <1>1, <1>3
  <2>6. QED
    BY <2>1, <2>3, <2>4, <2>5 DEF PairInv
<1>4. QED
  BY <1>2, <1>3 DEF ReactionInv

\* A change committed: of the pair q, with none said before.
Committed(q, e, x) ==
  /\ stored' = [stored EXCEPT ![q] = e]
  /\ unsaid' = unsaid \cup {x}
  /\ x \in Change /\ About(x, q) /\ x.emoji = e

LEMMA CommittedAlone == ASSUME ReactionInv, NEW q \in R!Pairs, NEW e \in Emojis \cup {none}, NEW x,
                               Committed(q, e, x), NEW p \in R!Pairs, PairInv(p), p = q => NoneSaid(p)
                        PROVE  /\ SaidOnce(p)' /\ SaidIsStored(p)'
                               /\ p = q => ~NoneSaid(p)'
                               /\ p # q => NoneSaid(p)' = NoneSaid(p) /\ stored'[p] = stored[p]
<1>1. stored'[q] = e /\ (p # q => stored'[p] = stored[p])
  BY DEF Committed, ReactionInv, ReactionTypes
<1>2. About(x, p) <=> p = q
  BY PairIs DEF Committed, About
<1>3. unsaid' = unsaid \cup {x} /\ x.emoji = e
  BY DEF Committed
<1>4. CASE p = q
  BY <1>1, <1>2, <1>3, <1>4 DEF NoneSaid, SaidOnce, SaidIsStored
<1>5. CASE p # q
  BY <1>1, <1>2, <1>3, <1>5 DEF PairInv, NoneSaid, SaidOnce, SaidIsStored
<1>6. QED
  BY <1>4, <1>5

LEMMA ServeSafe == ASSUME ReactionInv, NEW call \in reacting, R!Serve(call)
                   PROVE  ReactionInv'
<1> DEFINE q == [msg |-> call.msg, user |-> Me]
           x == [msg |-> call.msg, user |-> Me, emoji |-> call.emoji, n |-> call.n]
           done == [call EXCEPT !.served = TRUE]
<1>1. /\ ~call.served
      /\ stored' = [stored EXCEPT ![q] = call.emoji] /\ unsaid' = unsaid \cup {x}
      /\ reacting' = (reacting \ {call}) \cup {done}
      /\ UNCHANGED <<news, reactions, fetching, deleting, gone, changes, disturbed>>
  BY DEF R!Serve
<1>2. call \in [msg: Messages, emoji: Emojis \cup {none}, n: Nat, served: BOOLEAN] /\ Me \in Users
  BY ClientConstants DEF ReactionInv, ReactionTypes, R!ReactionsAssumption
<1>3. q \in R!Pairs /\ x \in Change
  BY <1>2, PairIs DEF Change
<1>4. done \in [msg: Messages, emoji: Emojis \cup {none}, n: Nat, served: BOOLEAN]
      /\ done.msg = call.msg /\ done.served
  BY <1>2
<1>5. call.emoji \in Emojis \cup {none} /\ Committed(q, call.emoji, x)
  BY <1>1, <1>2, <1>3 DEF Committed, About
<1>6. \A p \in R!Pairs : Own(call, p) <=> p = q
  BY PairIs DEF Own
<1> HIDE DEF q, x, done
<1>7. ReactionTypes'
  BY <1>1, <1>3, <1>4, <1>5 DEF ReactionInv, ReactionTypes
<1>8. ASSUME NEW p \in R!Pairs \ disturbed' PROVE PairInv(p)'
  <2>1. PairInv(p)
    BY <1>1, <1>8 DEF ReactionInv
  <2>2. p = q => NoneSaid(p)
    BY <1>1, <1>6, <2>1 DEF PairInv, CalledFirst
  <2>3. /\ SaidOnce(p)' /\ SaidIsStored(p)' /\ (p = q => ~NoneSaid(p)')
        /\ p # q => NoneSaid(p)' = NoneSaid(p) /\ stored'[p] = stored[p]
    BY <1>3, <1>5, <2>1, <2>2, CommittedAlone
  <2>4. NoNews(p)' = NoNews(p)
    BY <1>1 DEF NoNews
  <2>5. LastNews(p)' /\ ListedLast(p)'
    BY <1>1, <2>1, <2>3, <2>4 DEF PairInv, LastNews, ListedLast
  <2>6. \A d \in reacting' : d = done \/ d \in reacting
    BY <1>1
  <2>7. Own(done, p) <=> Own(call, p)
    BY <1>4 DEF Own
  <2>8. CASE p = q
    <3>1. \A d \in reacting' : Own(d, p) => d = done
      BY <1>1, <1>6, <2>1, <2>8 DEF PairInv, CalledOnce
    <3>2. CalledOnce(p)' /\ CalledFirst(p)'
      BY <1>4, <3>1 DEF CalledOnce, CalledFirst
    <3>3. OnScreen(p)'
      BY <2>3, <2>8 DEF OnScreen
    <3>4. QED
      BY <2>3, <2>5, <3>2, <3>3 DEF PairInv
  <2>9. CASE p # q
    <3>1. \A d \in reacting' : Own(d, p) => d \in reacting
      BY <1>6, <2>6, <2>7, <2>9
    <3>2. \A d \in reacting : Own(d, p) => d \in reacting'
      BY <1>1, <1>6, <2>9
    <3>3. CalledOnce(p)' /\ CalledFirst(p)'
      BY <2>1, <2>3, <2>9, <3>1 DEF PairInv, CalledOnce, CalledFirst
    <3>4. OnScreen(p) => OnScreen(p)'
      BY <1>1, <2>3, <2>4, <2>9, <3>2 DEF OnScreen
    <3>5. QED
      BY <1>1, <2>1, <2>3, <2>5, <3>3, <3>4 DEF PairInv
  <2>10. QED
    BY <2>8, <2>9
<1>9. QED
  BY <1>7, <1>8 DEF ReactionInv

LEMMA OthersReactSafe == ASSUME ReactionInv, NEW m \in Messages, NEW u \in Users,
                                NEW e \in Emojis \cup {none},
                                R!OthersReact(m, u, e)
                         PROVE  ReactionInv'
<1> DEFINE q == [msg |-> m, user |-> u]
           x == [msg |-> m, user |-> u, emoji |-> e, n |-> changes]
           busy == \E y \in unsaid : y.msg = m /\ y.user = u
<1>1. /\ u # Me /\ changes < MaxChanges /\ changes' = changes + 1
      /\ stored' = [stored EXCEPT ![q] = e] /\ unsaid' = unsaid \cup {x}
      /\ disturbed' = IF busy THEN disturbed \cup {q} ELSE disturbed
      /\ UNCHANGED <<news, reacting, reactions, fetching, deleting, gone>>
  BY DEF R!OthersReact, R!Commit, R!Overtaking
<1>2. changes \in Nat /\ changes' \in 0..MaxChanges
  BY <1>1, ClientConstants DEF ReactionInv, ReactionTypes, R!ReactionsAssumption
<1>3. q \in R!Pairs /\ x \in Change /\ q.user = u
  BY <1>2, PairIs DEF Change
<1>4. Committed(q, e, x)
  BY <1>1, <1>3 DEF Committed, About
<1>5. q \notin disturbed' => NoneSaid(q)
  BY <1>1 DEF NoneSaid, About
<1> HIDE DEF q, x, busy
<1>6. ReactionTypes'
  BY <1>1, <1>2, <1>3 DEF ReactionInv, ReactionTypes
<1>7. ASSUME NEW p \in R!Pairs \ disturbed' PROVE PairInv(p)'
  <2>1. PairInv(p)
    BY <1>1, <1>7 DEF ReactionInv
  <2>2. p = q => NoneSaid(p)
    BY <1>5, <1>7
  <2>3. /\ SaidOnce(p)' /\ SaidIsStored(p)' /\ (p = q => ~NoneSaid(p)')
        /\ p # q => NoneSaid(p)' = NoneSaid(p) /\ stored'[p] = stored[p]
    BY <1>3, <1>4, <2>1, <2>2, CommittedAlone
  <2>4. NoNews(p)' = NoNews(p)
    BY <1>1 DEF NoNews
  <2>5. LastNews(p)' /\ ListedLast(p)'
    BY <1>1, <2>1, <2>3, <2>4 DEF PairInv, LastNews, ListedLast
  <2>6. p = q => \A d \in reacting : ~Own(d, p)
    BY <1>1, <1>3 DEF Own
  <2>7. CalledOnce(p)' /\ CalledFirst(p)'
    BY <1>1, <2>1, <2>3, <2>6 DEF PairInv, CalledOnce, CalledFirst
  <2>8. OnScreen(p) => OnScreen(p)'
    BY <1>1, <2>3, <2>4 DEF OnScreen
  <2>9. QED
    BY <1>1, <2>1, <2>3, <2>5, <2>7, <2>8 DEF PairInv
<1>8. QED
  BY <1>6, <1>7 DEF ReactionInv

LEMMA BroadcastSafe == ASSUME ReactionInv, NEW x \in unsaid, NEW again \in BOOLEAN,
                             R!Broadcast(x, again)
                       PROVE  ReactionInv'
<1>1. /\ unsaid' = (IF again THEN unsaid ELSE unsaid \ {x}) /\ news' = Append(news, x)
      /\ UNCHANGED <<stored, reacting, reactions, fetching, deleting, gone, changes, disturbed>>
  BY DEF R!Broadcast
<1> DEFINE n == Len(news) + 1
<1>2. news \in Seq(Change) /\ x \in Change
  BY DEF ReactionInv, ReactionTypes
<1>3. /\ news' \in Seq(Change) /\ DOMAIN news = 1..Len(news) /\ DOMAIN news' = 1..n /\ Len(news) \in Nat
      /\ news'[n] = x /\ \A i \in DOMAIN news : news'[i] = news[i]
  <2>1. /\ Append(news, x) \in Seq(Change) /\ Len(Append(news, x)) = n /\ Append(news, x)[n] = x
        /\ \A i \in 1..Len(news) : Append(news, x)[i] = news[i]
    BY <1>2, AppendProperties
  <2>2. DOMAIN news = 1..Len(news) /\ Len(news) \in Nat /\ DOMAIN Append(news, x) = 1..Len(Append(news, x))
    BY <1>2, <2>1, LenProperties
  <2>3. QED
    BY <1>1, <2>1, <2>2
<1>4. /\ DOMAIN news' = DOMAIN news \cup {n} /\ n \notin DOMAIN news /\ n \in Nat
      /\ \A i \in DOMAIN news' : i \in Nat /\ i <= n
  <2>1. \A k \in Nat : \A i \in 1..k : i \in Nat /\ i <= k
    OBVIOUS
  <2>2. \A k \in Nat : 1..(k + 1) = (1..k) \cup {k + 1} /\ k + 1 \notin 1..k
    OBVIOUS
  <2>3. QED
    BY <1>3, <2>1, <2>2
<1> HIDE DEF n
<1>5. ReactionTypes'
  BY <1>1, <1>3 DEF ReactionInv, ReactionTypes
<1>6. ASSUME NEW p \in R!Pairs \ disturbed' PROVE PairInv(p)'
  <2>1. PairInv(p)
    BY <1>1, <1>6 DEF ReactionInv
  <2>2. SaidOnce(p)' /\ SaidIsStored(p)' /\ CalledOnce(p)'
    BY <1>1, <2>1 DEF PairInv, SaidOnce, SaidIsStored, CalledOnce
  <2>3. NoneSaid(p) => NoneSaid(p)'
    BY <1>1 DEF NoneSaid
  <2>4. CalledFirst(p)'
    BY <1>1, <2>1, <2>3 DEF PairInv, CalledFirst
  <2>5. CASE About(x, p)
    <3>1. ~NoNews(p)'
      BY <1>3, <1>4, <2>5 DEF NoNews
    <3>2. x.emoji = stored'[p]
      BY <1>1, <2>1, <2>5 DEF PairInv, SaidIsStored
    <3>3. ASSUME NEW i \in DOMAIN news', \A j \in DOMAIN news' : About(news'[j], p) => j <= i
          PROVE  i = n
      <4>1. n <= i /\ i <= n /\ i \in Nat
        BY <1>3, <1>4, <2>5, <3>3
      <4>2. QED
        BY <1>4, <4>1
    <3>4. LastNews(p)'
      BY <1>3, <3>2, <3>3 DEF LastNews
    <3>5. QED
      BY <2>2, <2>4, <3>1, <3>4 DEF PairInv, ListedLast, OnScreen
  <2>6. CASE ~About(x, p)
    <3>1. NoneSaid(p)' = NoneSaid(p)
      BY <1>1, <2>6 DEF NoneSaid
    <3>2. NoNews(p)' = NoNews(p)
      BY <1>3, <1>4, <2>6 DEF NoNews
    <3>3. LastNews(p)'
      BY <1>1, <1>3, <1>4, <2>1, <2>6, <3>1 DEF PairInv, LastNews
    <3>4. ListedLast(p)' /\ OnScreen(p)' = OnScreen(p)
      BY <1>1, <2>1, <3>1, <3>2 DEF PairInv, ListedLast, OnScreen
    <3>5. QED
      BY <1>1, <2>1, <2>2, <2>4, <3>3, <3>4 DEF PairInv
  <2>7. QED
    BY <2>5, <2>6
<1>7. QED
  BY <1>5, <1>6 DEF ReactionInv

LEMMA LoseSafe == ASSUME ReactionInv, NEW x \in unsaid, R!Lose(x) PROVE ReactionInv'
<1> DEFINE q == [msg |-> x.msg, user |-> x.user]
<1>1. /\ unsaid' = unsaid \ {x} /\ disturbed' = disturbed \cup {q}
      /\ UNCHANGED <<stored, news, reacting, reactions, fetching, deleting, gone, changes>>
  BY DEF R!Lose
<1>2. x \in Change /\ q \in R!Pairs
  BY PairIs DEF ReactionInv, ReactionTypes, Change
<1>3. \A p \in R!Pairs : About(x, p) => p = q
  BY PairIs DEF About
<1> HIDE DEF q
<1>4. ReactionTypes'
  BY <1>1, <1>2 DEF ReactionInv, ReactionTypes
<1>5. ASSUME NEW p \in R!Pairs \ disturbed' PROVE PairInv(p)'
  <2>1. PairInv(p) /\ ~About(x, p)
    BY <1>1, <1>3, <1>5 DEF ReactionInv
  <2>2. NoneSaid(p)' = NoneSaid(p) /\ NoNews(p)' = NoNews(p)
    BY <1>1, <2>1 DEF NoneSaid, NoNews
  <2>3. SaidOnce(p)' /\ SaidIsStored(p)' /\ CalledOnce(p)' /\ CalledFirst(p)'
    BY <1>1, <2>1, <2>2 DEF PairInv, SaidOnce, SaidIsStored, CalledOnce, CalledFirst
  <2>4. LastNews(p)' /\ ListedLast(p)' /\ OnScreen(p)' = OnScreen(p)
    BY <1>1, <2>1, <2>2 DEF PairInv, LastNews, ListedLast, OnScreen
  <2>5. QED
    BY <1>1, <2>1, <2>3, <2>4 DEF PairInv
<1>6. QED
  BY <1>4, <1>5 DEF ReactionInv

LEMMA AnsweredSafe == ASSUME ReactionInv, NEW call \in reacting, NEW failed \in BOOLEAN,
                             R!Answered(call, failed)
                      PROVE  ReactionInv'
<1> DEFINE q == [msg |-> call.msg, user |-> Me]
           undo == failed /\ call.emoji # none
<1>1. /\ failed \/ call.served
      /\ reacting' = reacting \ {call}
      /\ IF undo THEN R!UpdateReactionUI(call.msg, Me, none) ELSE reactions' = reactions /\ fetching' = fetching
      /\ disturbed' = IF failed THEN disturbed \cup {q} ELSE disturbed
      /\ UNCHANGED <<stored, unsaid, news, deleting, gone, changes>>
  BY DEF R!Answered, R!server
<1>2. ReactionTypes /\ call.msg \in Messages /\ Me \in Users
  BY ClientConstants DEF ReactionInv, ReactionTypes, R!ReactionsAssumption
<1>3. q \in R!Pairs /\ \A p \in R!Pairs : Own(call, p) <=> p = q
  BY <1>2, PairIs DEF Own
<1>4. /\ reactions' \in [Messages -> Seq(Entry)]
      /\ fetching' = fetching \/ Noted(q)
      /\ \A p \in R!Pairs : \A x : ~(failed /\ p = q) /\ ShowsIn(reactions[p.msg], p.user, x)
                                     => ShowsIn(reactions'[p.msg], p.user, x)
  <2>1. CASE undo
    <3>1. /\ reactions' \in [Messages -> Seq(Entry)]
          /\ Noted(q)
          /\ \A p \in R!Pairs : \A x :
               (p.msg # call.msg \/ p.user # Me) /\ ShowsIn(reactions[p.msg], p.user, x)
                 => ShowsIn(reactions'[p.msg], p.user, x)
      BY <1>1, <1>2, <2>1, Updated
    <3>2. \A p \in R!Pairs : p # q => p.msg # call.msg \/ p.user # Me
      BY PairIs
    <3> HIDE DEF q
    <3>3. QED
      BY <2>1, <3>1, <3>2
  <2>2. CASE ~undo
    BY <1>1, <1>2, <2>2 DEF ReactionTypes
  <2>3. QED
    BY <2>1, <2>2
<1> HIDE DEF q
<1>5. /\ fetching' \subseteq Fetching
      /\ (\A k \in fetching' : k.n # 0) <=> (\A l \in fetching : l.n # 0)
      /\ \A k \in fetching' : \E l \in fetching :
           k.got = l.got /\ k.said = l.said /\ l.touched \subseteq k.touched
  <2>1. CASE fetching' = fetching
    BY <1>2, <2>1 DEF ReactionTypes
  <2>2. CASE Noted(q)
    BY <2>2, NotedOnly DEF Noted
  <2>3. QED
    BY <1>4, <2>1, <2>2
<1>6. ReactionTypes'
  BY <1>1, <1>2, <1>3, <1>4, <1>5 DEF ReactionTypes
<1>7. ASSUME NEW p \in R!Pairs \ disturbed' PROVE PairInv(p)'
  <2>1. PairInv(p)
    BY <1>1, <1>7 DEF ReactionInv
  <2>2. ~(failed /\ p = q)
    BY <1>1, <1>7
  <2>3. NoneSaid(p)' = NoneSaid(p) /\ NoNews(p)' = NoNews(p)
    BY <1>1 DEF NoneSaid, NoNews
  <2>4. SaidOnce(p)' /\ SaidIsStored(p)' /\ LastNews(p)' /\ CalledOnce(p)' /\ CalledFirst(p)'
    BY <1>1, <2>1, <2>3 DEF PairInv, SaidOnce, SaidIsStored, LastNews, CalledOnce, CalledFirst
  <2>5. ListedLast(p)'
    <3>1. stored' = stored /\ gone' = gone /\ deleting' = deleting
      BY <1>1
    <3>2. QED
      BY <3>1, <1>5, <2>1, <2>3 DEF PairInv, ListedLast
  <2>6. ASSUME p.msg \notin gone' \cup deleting' PROVE OnScreen(p)'
    <3>1. SUFFICES ASSUME NoneSaid(p), NoNews(p), \A l \in fetching : l.n # 0,
                          \A x \in reacting' : Own(x, p) => x.served
                   PROVE  ShowsIn(reactions'[p.msg], p.user, stored[p])
      BY <1>1, <1>5, <2>3 DEF OnScreen
    <3>2. \A x \in reacting : Own(x, p) => x.served
      BY <1>1, <1>3, <2>2, <3>1
    <3>3. ShowsIn(reactions[p.msg], p.user, stored[p])
      BY <1>1, <2>1, <2>6, <3>1, <3>2 DEF PairInv, OnScreen
    <3>4. QED
      BY <1>4, <2>2, <3>3
  <2>7. QED
    BY <2>4, <2>5, <2>6 DEF PairInv
<1>8. QED
  BY <1>6, <1>7 DEF ReactionInv

LEMMA ReceiveSafe == ASSUME ReactionInv, R!Receive PROVE ReactionInv'
<1> DEFINE x == Head(news)
           q == [msg |-> x.msg, user |-> x.user]
<1>1. /\ news # <<>> /\ news' = Tail(news) /\ R!UpdateReactionUI(x.msg, x.user, x.emoji)
      /\ UNCHANGED <<stored, unsaid, reacting, deleting, gone, changes, disturbed>>
  BY DEF R!Receive, R!server
<1>2. ReactionTypes /\ news \in Seq(Change)
  BY DEF ReactionInv, ReactionTypes
<1>3. /\ x = news[1] /\ x \in Change /\ news' \in Seq(Change)
      /\ DOMAIN news = 1..Len(news) /\ Len(news) \in Nat \ {0}
      /\ DOMAIN news' = 1..(Len(news) - 1)
      /\ \A i \in 1..(Len(news) - 1) : news'[i] = news[i + 1]
  <2>1. /\ Len(news) \in Nat \ {0} /\ Len(Tail(news)) = Len(news) - 1 /\ Head(news) = news[1]
        /\ Tail(news) \in Seq(Change) /\ news[1] \in Change
    BY <1>1, <1>2, HeadTailProperties, EmptySeq, LenProperties, ElementOfSeq
  <2>2. DOMAIN news = 1..Len(news) /\ DOMAIN Tail(news) = 1..Len(Tail(news))
    BY <1>2, <2>1, LenProperties
  <2>3. \A i \in 1..(Len(news) - 1) : Tail(news)[i] = news[i + 1]
    BY <1>1, <1>2, <2>1
  <2>4. QED
    BY <1>1, <2>1, <2>2, <2>3
<1>4. /\ \A i \in DOMAIN news' : i + 1 \in DOMAIN news /\ news'[i] = news[i + 1] /\ i \in Nat
      /\ \A i \in DOMAIN news : i = 1 \/ (i \in Nat /\ i - 1 \in DOMAIN news' /\ news'[i - 1] = news[i])
      /\ 1 \in DOMAIN news /\ news[1] = x
  <2>1. \A k \in Nat \ {0} : \A i \in 1..(k - 1) : i + 1 \in 1..k /\ i \in Nat
    OBVIOUS
  <2>2. \A k \in Nat \ {0} : 1 \in 1..k /\ \A i \in 1..k : i = 1 \/ (i \in Nat /\ i - 1 \in 1..(k - 1) /\ (i - 1) + 1 = i)
    OBVIOUS
  <2> HIDE DEF x
  <2>3. QED
    BY <1>3, <2>1, <2>2
<1>5. x.msg \in Messages /\ x.user \in Users /\ x.emoji \in Emojis \cup {none}
  <2> HIDE DEF x
  <2>1. QED
    BY <1>3 DEF Change
<1>6. q \in R!Pairs /\ \A p \in R!Pairs : About(x, p) <=> p = q
  BY <1>5, PairIs DEF About
<1>7. /\ reactions' \in [Messages -> Seq(Entry)] /\ ShowsIn(reactions'[x.msg], x.user, x.emoji)
      /\ \A p \in R!Pairs : \A e :
           (p.msg # x.msg \/ p.user # x.user) /\ ShowsIn(reactions[p.msg], p.user, e)
             => ShowsIn(reactions'[p.msg], p.user, e)
      /\ Noted(q)
  <2> HIDE DEF x
  <2>1. QED
    BY <1>1, <1>2, <1>5, Updated
<1>8. q.msg = x.msg /\ q.user = x.user
  OBVIOUS
<1> HIDE DEF x, q
<1>9. /\ fetching' \subseteq Fetching
      /\ (\A k \in fetching' : k.n # 0) <=> (\A l \in fetching : l.n # 0)
      /\ \A k \in fetching' : \E l \in fetching :
           k.got = l.got /\ k.said = l.said /\ l.touched \subseteq k.touched /\ q \in k.touched
  BY <1>7, NotedOnly DEF Noted
<1>10. ReactionTypes'
  BY <1>1, <1>2, <1>3, <1>7, <1>9 DEF ReactionTypes
<1>11. ASSUME NEW p \in R!Pairs \ disturbed' PROVE PairInv(p)'
  <2>1. PairInv(p)
    BY <1>1, <1>11 DEF ReactionInv
  <2>2. NoneSaid(p)' = NoneSaid(p)
    BY <1>1 DEF NoneSaid
  <2>3. SaidOnce(p)' /\ SaidIsStored(p)' /\ CalledOnce(p)' /\ CalledFirst(p)'
    BY <1>1, <2>1, <2>2 DEF PairInv, SaidOnce, SaidIsStored, CalledOnce, CalledFirst
  <2>4. NoNews(p)' => \A i \in DOMAIN news : About(news[i], p) => i = 1
    BY <1>4 DEF NoNews
  <2>5. LastNews(p)'
    <3>1. SUFFICES ASSUME NoneSaid(p), NEW i \in DOMAIN news', About(news'[i], p),
                          \A j \in DOMAIN news' : About(news'[j], p) => j <= i
                   PROVE  news'[i].emoji = stored[p]
      BY <1>1, <2>2 DEF LastNews
    <3>2. i + 1 \in DOMAIN news /\ news'[i] = news[i + 1] /\ i \in Nat
      BY <1>4
    <3>3. ASSUME NEW j \in DOMAIN news, About(news[j], p) PROVE j <= i + 1
      <4>1. CASE j = 1
        BY <3>2, <4>1
      <4>2. CASE j # 1
        <5>1. j \in Nat /\ j - 1 \in DOMAIN news' /\ news'[j - 1] = news[j]
          BY <1>4, <4>2
        <5>2. j - 1 <= i
          BY <3>1, <3>3, <5>1
        <5>3. QED
          BY <3>2, <5>1, <5>2
      <4>3. QED
        BY <4>1, <4>2
    <3>4. QED
      BY <2>1, <3>1, <3>2, <3>3 DEF PairInv, LastNews
  <2>6. p # q => (NoNews(p)' => NoNews(p))
    BY <1>4, <1>6, <2>4 DEF NoNews
  <2>7. ListedLast(p)'
    BY <1>1, <1>9, <2>1, <2>2, <2>6 DEF PairInv, ListedLast
  <2>8. ASSUME p.msg \notin gone' \cup deleting' PROVE OnScreen(p)'
    <3>1. SUFFICES ASSUME NoneSaid(p), NoNews(p)', \A l \in fetching : l.n # 0,
                          \A d \in reacting : Own(d, p) => d.served
                   PROVE  ShowsIn(reactions'[p.msg], p.user, stored[p])
      BY <1>1, <1>9, <2>2 DEF OnScreen
    <3>2. CASE p = q
      <4>1. About(news[1], p) /\ \A j \in DOMAIN news : About(news[j], p) => j <= 1
        BY <1>4, <1>6, <2>4, <3>1, <3>2
      <4>2. x.emoji = stored[p]
        BY <1>4, <2>1, <3>1, <4>1 DEF PairInv, LastNews
      <4>3. QED
        BY <1>7, <1>8, <3>2, <4>2
    <3>3. CASE p # q
      <4>1. ShowsIn(reactions[p.msg], p.user, stored[p])
        BY <1>1, <2>1, <2>6, <2>8, <3>1, <3>3 DEF PairInv, OnScreen
      <4>2. p.msg # x.msg \/ p.user # x.user
        BY <3>3, PairIs DEF q
      <4>3. QED
        BY <1>7, <4>1, <4>2
    <3>4. QED
      BY <3>2, <3>3
  <2>9. QED
    BY <2>3, <2>5, <2>7, <2>8 DEF PairInv
<1>12. QED
  BY <1>10, <1>11 DEF ReactionInv

LEMMA LoadAgainSafe == ASSUME ReactionInv, R!LoadAgain PROVE ReactionInv'
<1>1. PICK S \in SUBSET deleting : fetching' = fetching \cup {R!Listing(changes + 1, gone \cup S)}
  BY DEF R!LoadAgain
<1>2. /\ changes < MaxChanges /\ changes' = changes + 1
      /\ UNCHANGED <<stored, unsaid, news, reacting, reactions, deleting, gone, disturbed>>
  BY DEF R!LoadAgain, R!server
<1> DEFINE l1 == R!Listing(changes + 1, gone \cup S)
<1>3. changes \in Nat /\ changes' \in 0..MaxChanges /\ gone \cup S \in SUBSET Messages
  BY <1>2, ClientConstants DEF ReactionInv, ReactionTypes, R!ReactionsAssumption
<1>4. l1.n = changes + 1 /\ l1.got = gone \cup S /\ l1 \in Fetching
  <2>1. R!None \in [R!Pairs -> Emojis \cup {none}]
    BY DEF R!None
  <2> HIDE DEF R!None
  <2>2. QED
    BY <1>3, <2>1 DEF R!Listing, Fetching
<1>5. l1.n # 0 /\ fetching' = fetching \cup {l1}
  BY <1>1, <1>3, <1>4
<1> HIDE DEF l1
<1>6. ReactionTypes'
  BY <1>2, <1>3, <1>4, <1>5 DEF ReactionInv, ReactionTypes
<1>7. ASSUME NEW p \in R!Pairs \ disturbed' PROVE PairInv(p)'
  <2>1. PairInv(p)
    BY <1>2, <1>7 DEF ReactionInv
  <2>2. NoneSaid(p)' = NoneSaid(p) /\ NoNews(p)' = NoNews(p)
    BY <1>2 DEF NoneSaid, NoNews
  <2>3. SaidOnce(p)' /\ SaidIsStored(p)' /\ LastNews(p)' /\ CalledOnce(p)' /\ CalledFirst(p)'
    BY <1>2, <2>1, <2>2 DEF PairInv, SaidOnce, SaidIsStored, LastNews, CalledOnce, CalledFirst
  <2>4. p.msg \notin gone \cup deleting => p.msg \notin l1.got
    BY <1>4
  <2>5. ListedLast(p)' /\ OnScreen(p)' = OnScreen(p)
    BY <1>2, <1>5, <2>1, <2>2, <2>4 DEF PairInv, ListedLast, OnScreen
  <2>6. QED
    BY <1>2, <2>1, <2>3, <2>5 DEF PairInv
<1>8. QED
  BY <1>6, <1>7 DEF ReactionInv

LEMMA ListReactionsSafe == ASSUME ReactionInv, NEW l \in fetching, NEW m \in Messages,
                                  R!ListReactions(l, m)
                           PROVE  ReactionInv'
<1> DEFINE saying == [p \in R!Pairs |-> IF p.msg = m THEN stored[p] ELSE l.said[p]]
           rest == {p \in l.touched : p.msg # m}
           k == [l EXCEPT !.got = @ \cup {m}, !.said = saying, !.touched = rest]
<1>1. /\ m \notin l.got /\ fetching' = (fetching \ {l}) \cup {k}
      /\ UNCHANGED <<stored, unsaid, news, reacting, reactions, deleting, gone, changes, disturbed>>
  BY DEF R!ListReactions, R!server
<1>2. l \in Fetching /\ stored \in [R!Pairs -> Emojis \cup {none}]
  BY DEF ReactionInv, ReactionTypes
<1>3. /\ saying \in [R!Pairs -> Emojis \cup {none}] /\ rest \in SUBSET R!Pairs
      /\ \A p \in R!Pairs : saying[p] = IF p.msg = m THEN stored[p] ELSE l.said[p]
      /\ \A p \in R!Pairs : p.msg # m /\ p \notin rest => p \notin l.touched
  BY <1>2 DEF Fetching
<1> HIDE DEF saying, rest
<1>4. /\ k \in Fetching /\ k.n = l.n /\ k.got = l.got \cup {m} /\ k.said = saying /\ k.touched = rest
  BY <1>2, <1>3 DEF Fetching
<1> HIDE DEF k
<1>5. ReactionTypes'
  BY <1>1, <1>4 DEF ReactionInv, ReactionTypes
<1>6. ASSUME NEW p \in R!Pairs \ disturbed' PROVE PairInv(p)'
  <2>1. PairInv(p)
    BY <1>1, <1>6 DEF ReactionInv
  <2>2. NoneSaid(p)' = NoneSaid(p) /\ NoNews(p)' = NoNews(p)
    BY <1>1 DEF NoneSaid, NoNews
  <2>3. SaidOnce(p)' /\ SaidIsStored(p)' /\ LastNews(p)' /\ CalledOnce(p)' /\ CalledFirst(p)'
    BY <1>1, <2>1, <2>2 DEF PairInv, SaidOnce, SaidIsStored, LastNews, CalledOnce, CalledFirst
  <2>4. ListedLast(p)'
    <3>1. SUFFICES ASSUME NoneSaid(p), NoNews(p), p.msg \notin gone \cup deleting, p.msg \in k.got,
                          p \notin k.touched
                   PROVE  k.said[p] = stored[p]
      BY <1>1, <2>1, <2>2 DEF PairInv, ListedLast
    <3>2. CASE p.msg = m
      BY <1>3, <1>4, <3>2
    <3>3. CASE p.msg # m
      <4>1. p.msg \in l.got /\ p \notin l.touched
        BY <1>3, <1>4, <3>1, <3>3
      <4>2. l.said[p] = stored[p]
        BY <2>1, <3>1, <4>1 DEF PairInv, ListedLast
      <4>3. QED
        BY <1>3, <1>4, <3>3, <4>2
    <3>4. QED
      BY <3>2, <3>3
  <2>5. (\A j \in fetching' : j.n # 0) => (\A j \in fetching : j.n # 0)
    BY <1>1, <1>4
  <2>6. OnScreen(p) => OnScreen(p)'
    BY <1>1, <2>2, <2>5 DEF OnScreen
  <2>7. QED
    BY <1>1, <2>1, <2>3, <2>4, <2>6 DEF PairInv
<1>7. QED
  BY <1>5, <1>6 DEF ReactionInv

\* The entries of a message name each user who reacted once.
LEMMA EntriesShow == ASSUME ReactionTypes, NEW l \in fetching, NEW m \in Messages
                     PROVE  /\ R!Entries(l, m) \in Seq(Entry)
                            /\ \A u \in Users : ShowsIn(R!Entries(l, m), u, l.said[[msg |-> m, user |-> u]])
<1> DEFINE said == l.said
           S == {[user |-> p.user, emoji |-> said[p]] : p \in {q \in R!Pairs : q.msg = m /\ said[q] # none}}
           f == R!SetToSeq(S)
           U == {x.user : x \in S}
           n == Cardinality(S)
<1>1. said \in [R!Pairs -> Emojis \cup {none}]
  BY DEF ReactionTypes, Fetching
<1> HIDE DEF said
<1>2. ASSUME NEW x PROVE x \in S <=> \E u \in Users : /\ said[[msg |-> m, user |-> u]] # none
                                                      /\ x = [user |-> u, emoji |-> said[[msg |-> m, user |-> u]]]
  <2>1. ASSUME NEW u \in Users, said[[msg |-> m, user |-> u]] # none
        PROVE  [user |-> u, emoji |-> said[[msg |-> m, user |-> u]]] \in S
    <3> DEFINE p == [msg |-> m, user |-> u]
    <3>1. p \in R!Pairs /\ p.msg = m /\ p.user = u
      BY PairIs
    <3>2. p \in {q \in R!Pairs : q.msg = m /\ said[q] # none}
      BY <2>1, <3>1
    <3>3. [user |-> p.user, emoji |-> said[p]] \in S
      <4> HIDE DEF p
      <4>1. QED
        BY <3>2
    <3>4. QED
      BY <3>1, <3>3
  <2>2. ASSUME x \in S
        PROVE  \E u \in Users : /\ said[[msg |-> m, user |-> u]] # none
                                /\ x = [user |-> u, emoji |-> said[[msg |-> m, user |-> u]]]
    <3>1. PICK p \in R!Pairs : p.msg = m /\ said[p] # none /\ x = [user |-> p.user, emoji |-> said[p]]
      BY <2>2
    <3>2. p = [msg |-> m, user |-> p.user] /\ p.user \in Users
      BY <3>1, PairIs
    <3>3. QED
      BY <3>1, <3>2
  <2>3. QED
    BY <2>1, <2>2
<1> HIDE DEF S
<1>3. S \subseteq Entry
  <2>1. ASSUME NEW x \in S PROVE x \in Entry
    <3>1. PICK u \in Users : /\ said[[msg |-> m, user |-> u]] # none
                             /\ x = [user |-> u, emoji |-> said[[msg |-> m, user |-> u]]]
      BY <1>2
    <3>2. said[[msg |-> m, user |-> u]] \in Emojis
      BY <1>1, <3>1, PairIs
    <3>3. QED
      BY <3>1, <3>2 DEF Entry
  <2>2. QED
    BY <2>1
<1>4. IsFiniteSet(S)
  <2> DEFINE g == [u \in Users |-> IF \E x \in S : x.user = u THEN CHOOSE x \in S : x.user = u ELSE u]
             T == {g[u] : u \in Users}
  <2>1. IsFiniteSet(Users)
    BY ClientConstants, SameFinite DEF R!ReactionsAssumption
  <2>2. \A x, y \in S : x.user = y.user => x = y
    <3> TAKE x, y \in S
    <3>1. PICK u \in Users : x = [user |-> u, emoji |-> said[[msg |-> m, user |-> u]]]
      BY <1>2
    <3>2. PICK v \in Users : y = [user |-> v, emoji |-> said[[msg |-> m, user |-> v]]]
      BY <1>2
    <3>3. QED
      BY <3>1, <3>2
  <2>3. S \subseteq T
    <3>1. ASSUME NEW x \in S PROVE x \in T
      <4>1. x.user \in Users
        BY <1>3 DEF Entry
      <4>2. g[x.user] = x
        BY <2>2, <4>1
      <4> HIDE DEF g
      <4>3. QED
        BY <4>1, <4>2
    <3>2. QED
      BY <3>1
  <2> HIDE DEF g
  <2>4. IsFiniteSet(T)
    <3>1. [u \in Users |-> g[u]] \in Surjection(Users, T)
      BY DEF Surjection
    <3>2. QED
      BY <2>1, <3>1, FS_Surjection DEF ExistsSurjection
  <2>5. QED
    BY <2>3, <2>4, FS_Subset
<1>5. n \in Nat
  BY <1>4, FS_CardinalityType
<1>6. PICK h \in [1..n -> S] : \A i, j \in 1..n : h[i] = h[j] => i = j
  <2>1. PICK h : h \in Bijection(1..n, S)
    BY <1>4, FS_CardinalityType DEF ExistsBijection
  <2>2. QED
    BY <2>1 DEF Bijection, Injection, IsInjective
<1>7. f \in [1..n -> S] /\ \A i, j \in 1..n : f[i] = f[j] => i = j
  <2>1. \E h0 \in [1..n -> S] : R!IsInjective(h0)
    BY <1>6 DEF R!IsInjective
  <2>2. f \in [1..n -> S] /\ R!IsInjective(f)
    BY <2>1, SameSize DEF R!SetToSeq
  <2> HIDE DEF f
  <2>3. QED
    BY <2>2 DEF R!IsInjective
<1>8. f \in Surjection(1..n, S)
  <2> HIDE DEF f
  <2>1. f \in Injection(1..n, S)
    BY <1>7 DEF Injection, IsInjective
  <2>2. IsFiniteSet(1..n) /\ Cardinality(1..n) = n
    BY <1>5, FS_Interval
  <2>3. QED
    BY <1>4, <2>1, <2>2, FS_Injection
<1>9. R!Entries(l, m) = f
  BY DEF R!Entries, S, said
<1> HIDE DEF f
<1>10. f \in Seq(Entry)
  <2>1. f \in [1..n -> Entry]
    BY <1>3, <1>7
  <2>2. QED
    BY <1>5, <2>1, SeqDef
<1>11. ASSUME NEW u \in Users PROVE ShowsIn(f, u, said[[msg |-> m, user |-> u]])
  <2> DEFINE e == said[[msg |-> m, user |-> u]]
             r == [user |-> u, emoji |-> e]
  <2>1. ASSUME NEW i \in DOMAIN f, f[i].user = u PROVE f[i] = r /\ e # none
    <3>1. f[i] \in S
      BY <1>7
    <3>2. PICK v \in Users : /\ said[[msg |-> m, user |-> v]] # none
                             /\ f[i] = [user |-> v, emoji |-> said[[msg |-> m, user |-> v]]]
      BY <1>2, <3>1
    <3>3. v = u
      BY <2>1, <3>2
    <3>4. QED
      BY <3>2, <3>3
  <2>2. CASE e = none
    BY <2>1, <2>2 DEF ShowsIn
  <2>3. CASE e # none
    <3>1. r \in S
      BY <1>2, <2>3
    <3>2. r.user = u /\ r.emoji = e
      OBVIOUS
    <3> HIDE DEF r
    <3>3. PICK i \in 1..n : f[i] = r
      BY <1>8, <3>1 DEF Surjection
    <3>4. DOMAIN f = 1..n
      BY <1>7
    <3>5. {j \in DOMAIN f : f[j].user = u} = {i}
      BY <1>7, <2>1, <3>2, <3>3, <3>4
    <3> HIDE DEF e
    <3>6. QED
      BY <2>3, <3>2, <3>3, <3>5 DEF ShowsIn, e
  <2>4. QED
    BY <2>2, <2>3
<1>12. QED
  BY <1>9, <1>10, <1>11 DEF said

\* Entries appended to a list without the user.
LEMMA AppendedShow == ASSUME NEW rs \in Seq(Entry), NEW es \in Seq(Entry), NEW u, NEW e,
                             ShowsIn(es, u, e),
                             \A i \in DOMAIN rs : rs[i].user # u
                      PROVE  rs \o es \in Seq(Entry) /\ ShowsIn(rs \o es, u, e)
<1> DEFINE cat == rs \o es
           n == Len(rs)
<1>1. /\ cat \in Seq(Entry) /\ Len(cat) = n + Len(es) /\ n \in Nat /\ Len(es) \in Nat
      /\ DOMAIN rs = 1..n /\ DOMAIN es = 1..Len(es)
      /\ DOMAIN cat = 1..(n + Len(es))
      /\ \A i \in 1..(n + Len(es)) : cat[i] = IF i <= n THEN rs[i] ELSE es[i - n]
  <2>1. cat \in Seq(Entry) /\ Len(cat) = n + Len(es)
        /\ \A i \in 1..(n + Len(es)) : cat[i] = IF i <= n THEN rs[i] ELSE es[i - n]
    BY ConcatProperties
  <2>2. n \in Nat /\ Len(es) \in Nat /\ DOMAIN rs = 1..n /\ DOMAIN es = 1..Len(es) /\ DOMAIN cat = 1..Len(cat)
    BY <2>1, LenProperties
  <2> HIDE DEF cat
  <2>3. QED
    BY <2>1, <2>2
<1>2. /\ \A i \in DOMAIN cat : \/ i \in DOMAIN rs /\ cat[i] = rs[i]
                               \/ i - n \in DOMAIN es /\ cat[i] = es[i - n] /\ i = (i - n) + n
      /\ \A i \in DOMAIN es : i + n \in DOMAIN cat /\ cat[i + n] = es[i]
  <2>1. \A k, l \in Nat : \A i \in 1..(k + l) : IF i <= k THEN i \in 1..k ELSE i - k \in 1..l /\ i = (i - k) + k
    OBVIOUS
  <2>2. \A k, l \in Nat : \A i \in 1..l : i + k \in 1..(k + l) /\ ~(i + k <= k) /\ (i + k) - k = i
    OBVIOUS
  <2> HIDE DEF cat, n
  <2>3. QED
    BY <1>1, <2>1, <2>2
<1>3. \A i \in DOMAIN cat : cat[i].user = u => i - n \in DOMAIN es /\ es[i - n].user = u /\ i = (i - n) + n
  <2> HIDE DEF cat, n
  <2>1. QED
    BY <1>2
<1> HIDE DEF cat, n
<1>4. e = none => ShowsIn(cat, u, e)
  BY <1>3 DEF ShowsIn
<1>5. ASSUME e # none PROVE ShowsIn(cat, u, e)
  <2>1. PICK i \in DOMAIN es : {j \in DOMAIN es : es[j].user = u} = {i} /\ es[i].emoji = e
    BY <1>5 DEF ShowsIn
  <2>2. i + n \in DOMAIN cat /\ cat[i + n].user = u /\ cat[i + n].emoji = e
    BY <1>2, <2>1
  <2>3. {j \in DOMAIN cat : cat[j].user = u} = {i + n}
    BY <1>3, <2>1, <2>2
  <2>4. \E j \in {i + n} : {i + n} = {j} /\ cat[j].emoji = e
    BY <2>2
  <2>5. QED
    BY <1>5, <2>3, <2>4 DEF ShowsIn
<1>6. QED
  BY <1>1, <1>4, <1>5 DEF cat

LEMMA ListedSafe == ASSUME ReactionInv, NEW l \in fetching, R!Listed(l) PROVE ReactionInv'
<1>1. /\ l.got = Messages /\ fetching' = fetching \ {l}
      /\ reactions' = [m \in Messages |-> reactions[m] \o R!Entries(l, m)]
      /\ disturbed' = disturbed \cup l.touched
                        \cup {p \in R!Pairs : \E i \in DOMAIN reactions[p.msg] : reactions[p.msg][i].user = p.user}
      /\ UNCHANGED <<stored, unsaid, news, reacting, deleting, gone, changes>>
  BY DEF R!Listed, R!server
<1>2. ReactionTypes
  BY DEF ReactionInv
<1>3. ASSUME NEW m \in Messages
      PROVE  /\ reactions[m] \in Seq(Entry) /\ R!Entries(l, m) \in Seq(Entry)
             /\ reactions'[m] = reactions[m] \o R!Entries(l, m)
             /\ \A u \in Users : ShowsIn(R!Entries(l, m), u, l.said[[msg |-> m, user |-> u]])
  BY <1>1, <1>2, EntriesShow DEF ReactionTypes
<1>4. reactions' \in [Messages -> Seq(Entry)]
  <2>1. \A m \in Messages : reactions[m] \o R!Entries(l, m) \in Seq(Entry)
    BY <1>3, ConcatProperties
  <2>2. QED
    BY <1>1, <2>1
<1>5. l \in Fetching
  BY <1>2 DEF ReactionTypes
<1>6. ReactionTypes'
  BY <1>1, <1>2, <1>4, <1>5 DEF ReactionTypes, Fetching
<1>7. ASSUME NEW p \in R!Pairs \ disturbed' PROVE PairInv(p)'
  <2>1. /\ PairInv(p) /\ p \notin l.touched
        /\ \A i \in DOMAIN reactions[p.msg] : reactions[p.msg][i].user # p.user
    BY <1>1, <1>7 DEF ReactionInv
  <2>2. NoneSaid(p)' = NoneSaid(p) /\ NoNews(p)' = NoNews(p)
    BY <1>1 DEF NoneSaid, NoNews
  <2>3. SaidOnce(p)' /\ SaidIsStored(p)' /\ LastNews(p)' /\ CalledOnce(p)' /\ CalledFirst(p)'
    BY <1>1, <2>1, <2>2 DEF PairInv, SaidOnce, SaidIsStored, LastNews, CalledOnce, CalledFirst
  <2>4. ListedLast(p)'
    BY <1>1, <2>1, <2>2 DEF PairInv, ListedLast
  <2>5. ASSUME NoneSaid(p), NoNews(p), p.msg \notin gone \cup deleting PROVE ShowsIn(reactions'[p.msg], p.user, stored[p])
    <3>1. p.msg \in Messages /\ p.user \in Users /\ p = [msg |-> p.msg, user |-> p.user]
      BY PairIs
    <3>2. l.said[p] = stored[p]
      BY <1>1, <2>1, <2>5, <3>1 DEF PairInv, ListedLast
    <3>3. ShowsIn(R!Entries(l, p.msg), p.user, stored[p])
      BY <1>3, <3>1, <3>2
    <3>4. ShowsIn(reactions[p.msg] \o R!Entries(l, p.msg), p.user, stored[p])
      BY <1>3, <2>1, <3>1, <3>3, AppendedShow
    <3>5. QED
      BY <1>3, <3>1, <3>4
  <2>6. p.msg \notin gone' \cup deleting' => OnScreen(p)'
    BY <1>1, <2>2, <2>5 DEF OnScreen
  <2>7. QED
    BY <2>3, <2>4, <2>6 DEF PairInv
<1>8. QED
  BY <1>6, <1>7 DEF ReactionInv

LEMMA ListingFailedSafe == ASSUME ReactionInv, NEW l \in fetching, R!ListingFailed(l)
                           PROVE  ReactionInv'
<1>1. /\ fetching' = fetching \ {l} /\ disturbed' = IF l.n = 0 THEN R!Pairs ELSE disturbed
      /\ UNCHANGED <<stored, unsaid, news, reacting, reactions, deleting, gone, changes>>
  BY DEF R!ListingFailed, R!server
<1>2. ReactionTypes'
  BY <1>1 DEF ReactionInv, ReactionTypes
<1>3. ASSUME NEW p \in R!Pairs \ disturbed' PROVE PairInv(p)'
  <2>1. PairInv(p) /\ l.n # 0
    BY <1>1, <1>3 DEF ReactionInv
  <2>2. NoneSaid(p)' = NoneSaid(p) /\ NoNews(p)' = NoNews(p)
    BY <1>1 DEF NoneSaid, NoNews
  <2>3. SaidOnce(p)' /\ SaidIsStored(p)' /\ LastNews(p)' /\ CalledOnce(p)' /\ CalledFirst(p)'
    BY <1>1, <2>1, <2>2 DEF PairInv, SaidOnce, SaidIsStored, LastNews, CalledOnce, CalledFirst
  <2>4. ListedLast(p)' /\ (OnScreen(p) => OnScreen(p)')
    BY <1>1, <2>1, <2>2 DEF PairInv, ListedLast, OnScreen
  <2>5. QED
    BY <1>1, <2>1, <2>3, <2>4 DEF PairInv
<1>4. QED
  BY <1>2, <1>3 DEF ReactionInv

LEMMA ReactionStep == ReactionInv /\ [R!Next]_reactionVars => ReactionInv'
<1> SUFFICES ASSUME ReactionInv, [R!Next]_reactionVars PROVE ReactionInv'
  OBVIOUS
<1>1. CASE UNCHANGED reactionVars
  <2>1. ReactionTypes'
    BY <1>1 DEF reactionVars, ReactionInv, ReactionTypes
  <2>2. ASSUME NEW p \in R!Pairs \ disturbed' PROVE PairInv(p)'
    <3>1. PairInv(p)
      BY <1>1, <2>2 DEF reactionVars, ReactionInv
    <3>2. QED
      BY <1>1, <3>1 DEF reactionVars, PairInv, SaidOnce, SaidIsStored, LastNews, CalledOnce,
         CalledFirst,
                        ListedLast, OnScreen, NoneSaid, NoNews
  <2>3. QED
    BY <2>1, <2>2 DEF ReactionInv
<1>2. CASE R!Next
  BY <1>2, ReactSafe, DeleteMessageSafe, ListReactionsSafe, DeleteEndsSafe, ServeSafe, AnsweredSafe,
     OthersReactSafe, BroadcastSafe, LoseSafe, ReceiveSafe, LoadAgainSafe, ListedSafe,
     ListingFailedSafe DEF R!Next
<1>3. QED
  BY <1>1, <1>2
-----------------------------------------------------------------------------
(* Each part by itself, free of the foci: whatever its own users, servers   *)
(* and calls do.                                                            *)

\* ChatDrafts: a draft survives any move between conversations, and a file is
\* sent to the conversation it was attached in.
THEOREM DraftsAgree == D!Spec => [](D!TypeOK /\ D!DraftKept /\ D!AttachmentsStayHome)
<1>1. [D!Next]_(D!vars) => [D!Next]_draftVars
  BY DEF D!vars, draftVars
<1>2. DraftInv /\ [D!Next]_(D!vars) => DraftInv'
  BY <1>1, DraftStep
<1>3. DraftInv => D!TypeOK /\ D!DraftKept /\ D!AttachmentsStayHome
  BY DEF DraftInv
<1>4. QED
  BY <1>2, <1>3, DraftInit, PTL DEF D!Spec

\* ConversationPanels: the panels show the pins and members of the
\* conversation viewed.
THEOREM PanelsFollow == P!Spec => [](P!TypeOK /\ P!PanelsAgree)
<1>1. [P!Next]_(P!vars) => [P!Next]_panelVars
  BY DEF P!vars, P!remote, P!area, P!header, P!ghosts, panelVars
<1>2. PanelInv /\ [P!Next]_(P!vars) => PanelInv'
  BY <1>1, PanelStep
<1>3. QED
  BY <1>2, PanelInit, PanelSafe, PTL DEF P!Spec

\* MessageEdits: with no edit under way a message shows the stored text, and
\* the editor shows what Save would send.
THEOREM EditsFollow == E!Spec => [](E!TypeOK /\ E!EditsAgree /\ E!EditorIsDraft)
<1>1. [E!Next]_(E!vars) => [E!Next]_editVars
  BY DEF E!vars, editVars
<1>2. EditInv /\ [E!Next]_(E!vars) => EditInv'
  BY <1>1, EditStep
<1>3. QED
  BY <1>2, EditInit, EditSafe, PTL DEF E!Spec

\* ChatReactions: with no change under way a message shows the stored
\* reactions, however events, answers and listings interleave.
THEOREM ReactionsFollow == R!Spec => [](R!TypeOK /\ R!ReactionsAgree)
<1>1. [R!Next]_(R!vars) => [R!Next]_reactionVars
  BY DEF R!vars, reactionVars
<1>2. ReactionInv /\ [R!Next]_(R!vars) => ReactionInv'
  BY <1>1, ReactionStep
<1>3. QED
  BY <1>2, ReactionInit, ReactionSafe, PTL DEF R!Spec

-----------------------------------------------------------------------------
(* The chat page: what the parts prove holds of their composition, whatever *)
(* part a behaviour moves.                                                  *)

ClientInv == DraftInv /\ PanelInv /\ EditInv /\ ReactionInv /\ HistoryInv

LEMMA ClientInit == Init => ClientInv
  BY DraftInit, PanelInit, EditInit, ReactionInit, HistoryInit DEF Init, ClientInv

LEMMA ClientMoves == [Next]_AllVars => /\ [H!Next]_historyVars /\ [D!Next]_draftVars /\ [R!Next]_reactionVars
                                       /\ [P!Next]_panelVars /\ [E!Next]_editVars
  BY DEF Next, AllVars

LEMMA ClientStep == ClientInv /\ [Next]_AllVars => ClientInv'
  BY ClientMoves, DraftStep, PanelStep, EditStep, ReactionStep, HistoryStep DEF ClientInv

\* The inductive invariant holds in every reachable state.
THEOREM ClientInvariance == Spec => []ClientInv
  BY ClientInit, ClientStep, PTL DEF Spec

\* Whatever answers, events and rollbacks interleave, a history is in order,
\* and a resync leaves no gap but what was not broadcast to the connection.
THEOREM HistoryIsComplete == Spec => []HistoryAgrees
<1>1. ClientInv => HistoryAgrees
  BY HistorySafe DEF ClientInv, HistoryAgrees
<1>2. QED
  BY <1>1, ClientInvariance, PTL

\* An unread counter is at most the number of messages of others that were
\* neither read nor seen arriving: none counts twice, or after it was seen,
\* unless an event created it anew.
THEOREM UnreadIsCounted == Spec => []UnreadIsUnseen
<1>1. ClientInv => UnreadIsUnseen
  BY HistorySafe DEF ClientInv, UnreadIsUnseen
<1>2. QED
  BY <1>1, ClientInvariance, PTL

\* A message disappears only when it is deleted, when its conversation leaves
\* the list, or when the history is replaced.
THEOREM ShownIsKept == Spec => KeepsShown
<1>1. ClientInv /\ [Next]_AllVars =>
        [\A c \in H!Convs : \A id \in H!ToSet(shown[c]) \ H!ToSet(shown'[c]) :
           \/ H!BeingDeleted(id)'
           \/ ~log[id].live /\ wire # <<>> /\ Head(wire).id = id
           \/ \E call \in calls \ calls' : call.op \in {"load", "createDM"} /\ call.conv = c
           \/ c \notin present']_(H!vars)
  BY ClientMoves, HistoryStep DEF ClientInv, Accounted
<1>2. QED
  BY <1>1, ClientInvariance, PTL DEF Spec, KeepsShown, H!KeepsShown

\* A draft stays with its conversation, and a file goes where it was attached.
THEOREM DraftsStayHome == Spec => []ComposerAgrees
<1>1. ClientInv => ComposerAgrees
  BY DEF ClientInv, DraftInv, ComposerAgrees
<1>2. QED
  BY <1>1, ClientInvariance, PTL

\* The panels show the pins and members of the conversation viewed.
THEOREM PanelsAreAgreed == Spec => []PanelsAgree
<1>1. ClientInv => PanelsAgree
  BY PanelSafe DEF ClientInv, PanelsAgree
<1>2. QED
  BY <1>1, ClientInvariance, PTL

\* A bubble shows the reactions and the text that are stored, once nothing is
\* under way.
THEOREM BubblesAgree == Spec => []BubbleAgrees
<1>1. ClientInv => BubbleAgrees
  BY ReactionSafe, EditSafe DEF ClientInv, BubbleAgrees
<1>2. QED
  BY <1>1, ClientInvariance, PTL
=============================================================================
