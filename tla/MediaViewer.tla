----------------------------- MODULE MediaViewer -----------------------------
(***************************************************************************)
(* The files of messages on screen: the download button every file has     *)
(* (AttachmentDownloadButton.tsx), the panel of the shell that lists the   *)
(* downloads (WorkspaceShell.tsx), the gallery that shows the images and   *)
(* videos of a message (file-preview.tsx, media-gallery.tsx) and the       *)
(* dialog that lists the files of all conversations                        *)
(* (WorkspaceFilesDialog.tsx).  A button that leaves the page does not     *)
(* stop its download.                                                      *)
(***************************************************************************)
EXTENDS Integers, Sequences, FiniteSets

CONSTANTS
  Files,         \* the files
  Buttons,       \* places a button may be in: a message, the dialog
  FileOf,        \* the file of each button
  PanelSize,     \* downloads the panel lists (6)
  Items,         \* images and videos of a message, in order: 0 .. Items - 1
  MaxZoom,       \* bound of the zoom, in quarters (12: 300%)
  MaxDownloads,  \* bound: clicks
  MaxChanges     \* bound: changes of the list of conversations, openings

MediaAssumption ==
  /\ FileOf \in [Buttons -> Files]
  /\ PanelSize \in Nat \ {0} /\ Items \in Nat \ {0}
  /\ MaxZoom \in Nat /\ MaxZoom >= 4
  /\ MaxDownloads \in Nat /\ MaxChanges \in Nat

VARIABLES
  button,        \* "gone" (not on the page), "idle", "downloading" or "complete"
  orphans,       \* downloads of each file whose button left the page
  panel,         \* downloadProgress: [file, status]
  hidden,        \* downloadPanelDismissed
  timers,        \* pending timeouts that take a file off the panel
  remembered,    \* slack_downloaded_files in localStorage
  clicks,        \* history: downloads started
  gallery,       \* [open, initial, index, zoom, turns]
  preview,       \* the preview of an attached image is open
  dialog         \* the files dialog: [open, loading, convs, listed, effect, loads]

downloadVars == <<button, orphans, panel, hidden, timers, remembered, clicks>>
vars == <<button, orphans, panel, hidden, timers, remembered, clicks, gallery, preview, dialog>>

Running(f) == orphans[f] > 0 \/ \E b \in Buttons: FileOf[b] = f /\ button[b] = "downloading"

Init ==
  /\ button = [b \in Buttons |-> "gone"] /\ orphans = [f \in Files |-> 0]
  /\ panel = <<>> /\ hidden = FALSE /\ timers = [f \in Files |-> 0]
  /\ remembered = {} /\ clicks = 0
  /\ gallery = [open |-> FALSE, initial |-> 0, index |-> 0, zoom |-> 4, turns |-> 0]
  /\ preview = FALSE
  /\ dialog = [open |-> FALSE, loading |-> FALSE, convs |-> 0, listed |-> 0,
               effect |-> 0, loads |-> {}]

-----------------------------------------------------------------------------
(* Downloads. *)

\* The filter takes off the line of f, for there is one at most.
LinesOf(f) == {i \in DOMAIN panel: panel[i].file = f}
Without(f) ==
  IF LinesOf(f) = {} THEN panel
  ELSE LET p == CHOOSE i \in LinesOf(f): TRUE
       IN SubSeq(panel, 1, p - 1) \o SubSeq(panel, p + 1, Len(panel))

\* mutant: only a download that completed gets a timeout.
ReportForgetful(f, status) ==
  /\ LET next == Append(Without(f), [file |-> f, status |-> status])
     IN panel' = IF Len(next) > PanelSize THEN Tail(next) ELSE next
  /\ hidden' = FALSE
  /\ timers' = IF status = "complete" THEN [timers EXCEPT ![f] = @ + 1] ELSE timers

\* The panel keeps the latest files; the end of a download starts a timeout.
Report(f, status) ==
  /\ LET next == Append(Without(f), [file |-> f, status |-> status])
     IN panel' = IF Len(next) > PanelSize THEN Tail(next) ELSE next
  /\ hidden' = FALSE
  /\ timers' = IF status = "downloading" THEN timers ELSE [timers EXCEPT ![f] = @ + 1]

Mount(b) ==
  /\ button[b] = "gone"
  /\ button' = [button EXCEPT ![b] = IF FileOf[b] \in remembered THEN "complete" ELSE "idle"]
  /\ UNCHANGED <<orphans, panel, hidden, timers, remembered, clicks>>

Unmount(b) ==
  /\ button[b] # "gone"
  /\ button' = [button EXCEPT ![b] = "gone"]
  /\ orphans' = IF button[b] = "downloading" THEN [orphans EXCEPT ![FileOf[b]] = @ + 1] ELSE orphans
  /\ UNCHANGED <<panel, hidden, timers, remembered, clicks>>

Download(b) ==
  /\ button[b] = "idle" /\ clicks < MaxDownloads /\ clicks' = clicks + 1
  /\ button' = [button EXCEPT ![b] = "downloading"]
  /\ Report(FileOf[b], "downloading")
  /\ UNCHANGED <<orphans, remembered>>

\* A chunk arrives.
Progress(f) ==
  /\ Running(f) /\ Report(f, "downloading")
  /\ UNCHANGED <<button, orphans, remembered, clicks>>

\* A download ends, of a button on the page or of one that left it; storage
\* may refuse to remember it.
EndOnPage(b, to) ==
  /\ button[b] = "downloading" /\ button' = [button EXCEPT ![b] = to]
  /\ UNCHANGED <<orphans, clicks>>
EndOrphan(f) ==
  /\ orphans[f] > 0 /\ orphans' = [orphans EXCEPT ![f] = @ - 1]
  /\ UNCHANGED <<button, clicks>>

Complete(f) ==
  /\ EndOrphan(f) \/ \E b \in Buttons: FileOf[b] = f /\ EndOnPage(b, "complete")
  /\ Report(f, "complete")
  /\ remembered' \in {remembered, remembered \cup {f}}
Fail(f) ==
  /\ EndOrphan(f) \/ \E b \in Buttons: FileOf[b] = f /\ EndOnPage(b, "idle")
  /\ Report(f, "failed")
  /\ UNCHANGED remembered

\* 2400 ms after an end, whatever the file does by then.
Expire(f) ==
  /\ timers[f] > 0 /\ timers' = [timers EXCEPT ![f] = @ - 1]
  /\ panel' = Without(f)
  /\ UNCHANGED <<button, orphans, hidden, remembered, clicks>>

Dismiss ==
  /\ panel # <<>> /\ ~hidden /\ hidden' = TRUE
  /\ UNCHANGED <<button, orphans, panel, timers, remembered, clicks>>

Downloads ==
  /\ \/ \E b \in Buttons: Mount(b) \/ Unmount(b) \/ Download(b)
     \/ \E f \in Files: Progress(f) \/ Complete(f) \/ Fail(f) \/ Expire(f)
     \/ Dismiss
  /\ UNCHANGED <<gallery, preview, dialog>>

-----------------------------------------------------------------------------
(* The gallery. *)

\* Another item is shown as it is.
At(g, i) == [g EXCEPT !.index = i, !.zoom = 4, !.turns = 0]

\* openGalleryForFile, and the effect of opening.
OpenGallery(i) ==
  /\ ~gallery.open
  /\ gallery' = At([gallery EXCEPT !.open = TRUE, !.initial = i], i)
CloseGallery ==
  /\ gallery.open /\ gallery' = [gallery EXCEPT !.open = FALSE]
HandleNext ==
  /\ gallery.open /\ gallery.index < Items - 1 /\ gallery' = At(gallery, gallery.index + 1)
HandlePrev ==
  /\ gallery.open /\ gallery.index > 0 /\ gallery' = At(gallery, gallery.index - 1)
HandleZoomIn ==
  /\ gallery.open /\ gallery.zoom < MaxZoom /\ gallery' = [gallery EXCEPT !.zoom = @ + 1]
HandleZoomOut ==
  /\ gallery.open /\ gallery.zoom > 2 /\ gallery' = [gallery EXCEPT !.zoom = @ - 1]
HandleRotate ==
  /\ gallery.open /\ gallery' = [gallery EXCEPT !.turns = (@ + 1) % 4]

\* The preview of an image in the composer.
TogglePreview == preview' = ~preview /\ UNCHANGED gallery

Viewing ==
  /\ \/ (\/ \E i \in 0 .. Items - 1: OpenGallery(i)
         \/ CloseGallery \/ HandleNext \/ HandlePrev
         \/ HandleZoomIn \/ HandleZoomOut \/ HandleRotate) /\ UNCHANGED preview
     \/ TogglePreview
  /\ UNCHANGED <<downloadVars, dialog>>

-----------------------------------------------------------------------------
(* The files dialog: its effect depends on whether it is open and on the    *)
(* conversations; running it again cancels the loads before.                *)

RunEffect(d) ==
  LET next == [d EXCEPT !.effect = @ + 1]
  IN IF d.open
     THEN [next EXCEPT !.loading = TRUE,
                       !.loads = @ \cup {[convs |-> d.convs, effect |-> next.effect]}]
     ELSE next

SetOpen ==
  /\ dialog.effect < MaxChanges
  /\ dialog' = RunEffect([dialog EXCEPT !.open = ~@])

\* The chat store replaces its conversations.
ConversationsChange ==
  /\ dialog.effect < MaxChanges
  /\ dialog' = RunEffect([dialog EXCEPT !.convs = @ + 1])

\* All pages of all conversations have come, or one call failed: -1 lists nothing.
FilesAnswered(load, ok) ==
  dialog' = IF load.effect = dialog.effect
            THEN [dialog EXCEPT !.loads = @ \ {load}, !.loading = FALSE,
                                !.listed = IF ok THEN load.convs ELSE -1]
            ELSE [dialog EXCEPT !.loads = @ \ {load}]

Browsing ==
  /\ \/ SetOpen \/ ConversationsChange
     \/ \E load \in dialog.loads, ok \in BOOLEAN: FilesAnswered(load, ok)
  /\ UNCHANGED <<downloadVars, gallery, preview>>

Next == Downloads \/ Viewing \/ Browsing

Spec == Init /\ [][Next]_vars

-----------------------------------------------------------------------------
\* The buttons, the panel, the gallery and the dialog
\* (AttachmentDownloadButton.tsx, WorkspaceShell.tsx, media-gallery.tsx).
TypeOK ==
  /\ button \in [Buttons -> {"gone", "idle", "downloading", "complete"}]
  /\ orphans \in [Files -> Nat] /\ timers \in [Files -> Nat]
  /\ \A i \in DOMAIN panel: panel[i] \in [file: Files, status: {"downloading", "complete", "failed"}]
  /\ \A f \in Files: \A i, j \in LinesOf(f): i = j
  /\ Len(panel) <= PanelSize /\ hidden \in BOOLEAN /\ remembered \subseteq Files
  /\ gallery \in [open: BOOLEAN, initial: 0 .. Items - 1, index: 0 .. Items - 1,
                  zoom: 2 .. MaxZoom, turns: 0 .. 3]
  /\ preview \in BOOLEAN /\ dialog.open \in BOOLEAN /\ dialog.loading \in BOOLEAN

\* No line stays on the panel for good: one that says a download runs has a
\* download running, one that says it ended has a timeout that takes it away
\* (WorkspaceShell.tsx, onProgress).
DownloadsLeave ==
  \A i \in DOMAIN panel:
    IF panel[i].status = "downloading" THEN Running(panel[i].file) ELSE timers[panel[i].file] > 0

\* The open dialog, when it does not load, lists the files of the conversations
\* there are, or none because a call failed; an answer for older ones never
\* replaces them (WorkspaceFilesDialog.tsx, cancelled).
FilesAreCurrent ==
  (dialog.open /\ ~dialog.loading) => dialog.listed \in {dialog.convs, -1}
=============================================================================
