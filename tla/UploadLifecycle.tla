-------------------------- MODULE UploadLifecycle --------------------------
(***************************************************************************)
(* A direct upload from presigning to thumbnail or cleanup: the rows of    *)
(* upload_sessions, the attachments made from them, the objects in the     *)
(* bucket, and the processes that race over them:                          *)
(*   - the browser, which puts the object through the presigned URL;       *)
(*   - the storage service (PresignUpload, CompleteUpload);                *)
(*   - the storage worker: one scheduler (RequeueStale at start, then      *)
(*     RequeueDue every 30 seconds), a bounded queue in memory and the     *)
(*     goroutines that make thumbnails;                                    *)
(*   - the cleaner of every core process (CleanupExpiredUploadSessions).   *)
(* Every database or bucket call is one step.  No row is locked between    *)
(* steps, so each process writes back what it read before.                 *)
(***************************************************************************)
EXTENDS Naturals, Sequences, FiniteSets
LOCAL INSTANCE TLC

CONSTANTS
  Sessions,      \* upload sessions
  Kinds,         \* content types: "image" (image/*) and "other"
  Completers,    \* CompleteUpload calls running at a time
  Goroutines,    \* thumbnail goroutines of the worker: 2
  Cleaners,      \* core processes
  QueueSize,     \* capacity of the worker's queue: 64
  MaxAttempts,   \* attempts at a thumbnail: 3
  MaxCompletes,  \* bound: CompleteUpload calls per session
  MaxTroubles,   \* bound: failing calls and stops of the storage worker
  Punctual,      \* a session outlives the calls and jobs that work on it (15
                 \* minutes against a scheduler that ticks every 30 seconds)
  None           \* no session

ASSUME UploadConstants ==
  /\ Kinds \subseteq {"image", "other"}
  /\ QueueSize \in Nat \ {0}
  /\ MaxAttempts \in Nat \ {0}
  /\ MaxCompletes \in Nat /\ MaxTroubles \in Nat
  /\ Punctual \in BOOLEAN
  /\ None \notin Sessions

VARIABLES
  (* the database *)
  images,       \* sessions whose content_type is image/*
  status,       \* per session: status, "none" before its row, "gone" after
  confirmed,    \* sessions with confirmed_at
  attempts,     \* per session: attempt_count
  due,          \* per session: next_attempt_at is "null", "later" or "now"
  expired,      \* sessions whose expires_at is past
  attachments,  \* per session: rows of attachments with its object key
  (* the bucket *)
  object,       \* per session: "absent", "good", "undecodable" or "mismatched"
  thumb,        \* sessions with a thumbnail object
  (* the browser and CompleteUpload *)
  urls,         \* sessions whose presigned URL was handed out and not used yet
  completes,    \* per session: CompleteUpload calls so far
  cpc, csess, catt,  \* per call: its next step, session and attempt count read
  (* the storage worker *)
  sched,        \* its scheduler: "down", "listStale", "stale", "listDue", "due", "sleep"
  batch, satt,  \* rows of the list in hand, and the attempt counts read with them
  pending,      \* the session the scheduler is enqueuing
  queue,        \* the channel of jobs
  wpc, job, jatt,    \* per goroutine: its next step, session and attempt number
  (* the cleaners *)
  kpc, kbatch, kcur, \* per cleaner: its next step, its list, the session in hand
  (* bounds and history *)
  troubles,
  unsure,       \* sessions a CompleteUpload call of which could miss the attachment of
                \* another: the two overlapped, or the lookup failed
  rescheduled   \* sessions a job of which was lost or given out once more

rowVars == <<status, confirmed, attempts, due>>
storeVars == <<object, thumb>>
callVars == <<cpc, csess, catt>>
schedVars == <<sched, batch, satt, pending>>
workVars == <<wpc, job, jatt>>
cleanVars == <<kpc, kbatch, kcur>>
vars == <<images, rowVars, expired, attachments, storeVars, urls, completes, callVars,
          schedVars, queue, workVars, cleanVars, troubles, unsure, rescheduled>>

Unfinished == {"UPLOADED", "PROCESSING", "FAILED"}

TypeOK ==
  /\ images \subseteq Sessions
  /\ status \in [Sessions -> {"none", "PENDING", "UPLOADED", "PROCESSING", "READY",
                              "FAILED", "EXPIRED", "gone"}]
  /\ confirmed \subseteq Sessions
  /\ attempts \in [Sessions -> Nat]
  /\ due \in [Sessions -> {"null", "later", "now"}]
  /\ expired \subseteq Sessions
  /\ attachments \in [Sessions -> 0..MaxCompletes]
  /\ object \in [Sessions -> {"absent", "good", "undecodable", "mismatched"}]
  /\ thumb \subseteq images
  /\ urls \subseteq Sessions
  /\ completes \in [Sessions -> 0..MaxCompletes]
  /\ cpc \in [Completers -> {"idle", "expire", "existing", "stat", "reject", "uploaded",
                             "lookup", "create", "finalize", "schedule"}]
  /\ csess \in [Completers -> Sessions \cup {None}]
  /\ catt \in [Completers -> Nat]
  /\ sched \in {"down", "listStale", "stale", "listDue", "due", "sleep"}
  /\ batch \subseteq Sessions /\ satt \in [Sessions -> Nat]
  /\ pending \in images \cup {None}
  /\ queue \in Seq(images) /\ Len(queue) <= QueueSize
  /\ wpc \in [Goroutines -> {"idle", "load", "mark", "fetch", "put", "succeed", "fail"}]
  /\ job \in [Goroutines -> images \cup {None}]
  /\ jatt \in [Goroutines -> Nat]
  /\ kpc \in [Cleaners -> {"idle", "next", "object", "thumb", "row"}]
  /\ kbatch \in [Cleaners -> SUBSET Sessions]
  /\ kcur \in [Cleaners -> Sessions \cup {None}]
  /\ troubles \in 0..MaxTroubles
  /\ unsure \subseteq Sessions /\ rescheduled \subseteq Sessions

Init ==
  /\ images = {}
  /\ status = [s \in Sessions |-> "none"]
  /\ confirmed = {} /\ expired = {}
  /\ attempts = [s \in Sessions |-> 0]
  /\ due = [s \in Sessions |-> "null"]
  /\ attachments = [s \in Sessions |-> 0]
  /\ object = [s \in Sessions |-> "absent"]
  /\ thumb = {} /\ urls = {}
  /\ completes = [s \in Sessions |-> 0]
  /\ cpc = [c \in Completers |-> "idle"]
  /\ csess = [c \in Completers |-> None]
  /\ catt = [c \in Completers |-> 0]
  /\ sched = "down" /\ batch = {} /\ satt = [s \in Sessions |-> 0]
  /\ pending = None /\ queue = <<>>
  /\ wpc = [g \in Goroutines |-> "idle"]
  /\ job = [g \in Goroutines |-> None]
  /\ jatt = [g \in Goroutines |-> 0]
  /\ kpc = [k \in Cleaners |-> "idle"]
  /\ kbatch = [k \in Cleaners |-> {}]
  /\ kcur = [k \in Cleaners |-> None]
  /\ troubles = 0
  /\ unsure = {} /\ rescheduled = {}

\* UpdateUploadSessionStatus: every column is overwritten, confirmed_at only by a
\* time; an UPDATE of a deleted row matches nothing
SetStatus(s, st, confirm, att, next) ==
  IF status[s] = "gone"
  THEN UNCHANGED rowVars
  ELSE /\ status' = [status EXCEPT ![s] = st]
       /\ confirmed' = IF confirm THEN confirmed \cup {s} ELSE confirmed
       /\ attempts' = [attempts EXCEPT ![s] = att]
       /\ due' = [due EXCEPT ![s] = next]

\* a call to the database or the bucket fails
Fault == troubles < MaxTroubles /\ troubles' = troubles + 1

-----------------------------------------------------------------------------
(* PresignUpload and the browser.                                          *)

presignRest == <<confirmed, attempts, due, expired, attachments, storeVars, completes,
                 callVars, schedVars, queue, workVars, cleanVars, troubles, unsure,
                 rescheduled>>

Presign(s) ==
  /\ status[s] = "none"
  /\ \/ status' = [status EXCEPT ![s] = "PENDING"] /\ urls' = urls \cup {s}
     \/ status' = [status EXCEPT ![s] = "FAILED"] /\ UNCHANGED urls
  /\ \E kind \in Kinds : images' = IF kind = "image" THEN images \cup {s} ELSE images
  /\ UNCHANGED presignRest

\* the browser's PUT ends; one that began in time may end after expires_at
Put(s) ==
  /\ s \in urls
  /\ urls' = urls \ {s}
  /\ \E o \in {"good", "mismatched"} \cup (IF s \in images THEN {"undecodable"} ELSE {}) :
       object' = [object EXCEPT ![s] = o]
  /\ UNCHANGED <<images, rowVars, expired, attachments, thumb, completes, callVars, schedVars, queue,
                 workVars, cleanVars, troubles, unsure, rescheduled>>

-----------------------------------------------------------------------------
(* CompleteUpload.                                                         *)

callRest == <<images, expired, storeVars, urls, schedVars, queue, workVars, cleanVars>>

Step(c, where) == cpc' = [cpc EXCEPT ![c] = where] /\ UNCHANGED <<csess, catt>>

\* the call returns to the client
Return(c) ==
  /\ cpc' = [cpc EXCEPT ![c] = "idle"]
  /\ csess' = [csess EXCEPT ![c] = None]
  /\ catt' = [catt EXCEPT ![c] = 0]

PastExpiry(s) == s \in expired

\* GetUploadSessionByID and the checks on the row read
Load(c, s) ==
  /\ cpc[c] = "idle"
  /\ status[s] \notin {"none", "gone"}
  /\ completes[s] < MaxCompletes
  /\ completes' = [completes EXCEPT ![s] = @ + 1]
  /\ csess' = [csess EXCEPT ![c] = s]
  /\ catt' = [catt EXCEPT ![c] = attempts[s]]
  /\ cpc' = [cpc EXCEPT ![c] =
               CASE PastExpiry(s) -> "expire"
                 [] ~PastExpiry(s) /\ status[s] = "READY" /\ s \in confirmed -> "existing"
                 [] OTHER -> "stat"]
  /\ unsure' = IF \E x \in Completers : csess[x] = s THEN unsure \cup {s} ELSE unsure
  /\ UNCHANGED <<rowVars, attachments, troubles, rescheduled, callRest>>

\* the attachment of a READY session is returned once more
Existing(c) ==
  /\ cpc[c] = "existing"
  /\ IF attachments[csess[c]] > 0 THEN Return(c) ELSE Step(c, "stat")
  /\ UNCHANGED <<rowVars, attachments, completes, troubles, unsure, rescheduled, callRest>>

\* StatObject, and the comparison of size and type
Stat(c) ==
  /\ cpc[c] = "stat"
  /\ Step(c, IF object[csess[c]] \in {"good", "undecodable"} THEN "uploaded" ELSE "reject")
  /\ UNCHANGED <<rowVars, attachments, completes, troubles, unsure, rescheduled, callRest>>

\* the writes with which a call gives up: EXPIRED or FAILED
GiveUp(c) ==
  /\ cpc[c] \in {"expire", "reject"}
  /\ SetStatus(csess[c], IF cpc[c] = "expire" THEN "EXPIRED" ELSE "FAILED", FALSE, catt[c], "null")
  /\ Return(c)
  /\ UNCHANGED <<attachments, completes, troubles, unsure, rescheduled, callRest>>

MarkUploaded(c) ==
  /\ cpc[c] = "uploaded"
  /\ SetStatus(csess[c], "UPLOADED", TRUE, catt[c], "null")
  /\ Step(c, "lookup")
  /\ UNCHANGED <<attachments, completes, troubles, unsure, rescheduled, callRest>>

\* mutant: the attachment of an earlier call is not looked for
HasAttachmentIgnored(s) == FALSE

HasAttachment(s) == attachments[s] > 0

\* an attachment is there: the call returns it, and the schedule it has just cleared
\* stays cleared
Lookup(c) ==
  /\ cpc[c] = "lookup"
  /\ IF HasAttachment(csess[c])
     THEN Return(c) /\ rescheduled' = rescheduled \cup {csess[c]}
     ELSE Step(c, "create") /\ UNCHANGED rescheduled
  /\ UNCHANGED <<rowVars, attachments, completes, troubles, unsure, callRest>>

CreateAttachment(c) ==
  /\ cpc[c] = "create"
  /\ attachments' = [attachments EXCEPT ![csess[c]] = @ + 1]
  /\ Step(c, "finalize")
  /\ UNCHANGED <<rowVars, completes, troubles, unsure, rescheduled, callRest>>

Finalize(c) ==
  /\ cpc[c] = "finalize"
  /\ SetStatus(csess[c], "UPLOADED", TRUE, catt[c], "null")
  /\ IF csess[c] \in images THEN Step(c, "schedule") ELSE Return(c)
  /\ UNCHANGED <<attachments, completes, troubles, unsure, rescheduled, callRest>>

\* mutant: the due time is not passed on
DueAtOnceForgotten == "null"

DueAtOnce == "now"

\* the row becomes the thumbnail queue
Schedule(c) ==
  /\ cpc[c] = "schedule"
  /\ SetStatus(csess[c], "UPLOADED", TRUE, catt[c], DueAtOnce)
  /\ Return(c)
  /\ UNCHANGED <<attachments, completes, troubles, unsure, rescheduled, callRest>>

\* a call to the database or the bucket fails; a lookup that fails passes for one
\* that found nothing
CallFault(c) ==
  /\ cpc[c] # "idle"
  /\ Fault
  /\ CASE cpc[c] \in {"expire", "reject", "uploaded", "schedule"} -> Return(c)
       [] cpc[c] \in {"stat", "create", "finalize"} -> Step(c, "reject")
       [] cpc[c] = "existing" -> Step(c, "stat")
       [] cpc[c] = "lookup" -> Step(c, "create")
  /\ unsure' = IF cpc[c] = "lookup" THEN unsure \cup {csess[c]} ELSE unsure
  /\ rescheduled' = rescheduled \cup {csess[c]}
  /\ UNCHANGED <<rowVars, attachments, completes, callRest>>

\* the deadline of the RPC, or a restart of the service, cuts the call off
CallCut(c) ==
  /\ cpc[c] # "idle"
  /\ Fault
  /\ Return(c)
  /\ rescheduled' = rescheduled \cup {csess[c]}
  /\ UNCHANGED <<rowVars, attachments, completes, unsure, callRest>>

-----------------------------------------------------------------------------
(* The storage worker's scheduler.                                         *)

workRest == <<images, expired, attachments, urls, completes, callVars, cleanVars, unsure>>

\* sessions of which the worker process holds a job
Scheduled(s) ==
  \/ pending = s
  \/ \E i \in 1..Len(queue) : queue[i] = s
  \/ \E g \in Goroutines : job[g] = s

StartWorker ==
  /\ sched = "down"
  /\ sched' = "listStale"
  /\ UNCHANGED <<rowVars, storeVars, batch, satt, pending, queue, workVars, troubles, rescheduled, workRest>>

\* a list is read with the attempt counts of its rows
Listed(S, where) ==
  /\ batch' = {s \in S : ~(status[s] = "FAILED" /\ attempts[s] >= MaxAttempts)}
  /\ satt' = [s \in Sessions |-> IF s \in batch' THEN attempts[s] ELSE 0]
  /\ sched' = where
  /\ UNCHANGED <<rowVars, storeVars, pending, queue, workVars, troubles, rescheduled, workRest>>

Strike(s) ==
  /\ batch' = batch \ {s}
  /\ satt' = [satt EXCEPT ![s] = 0]

\* RequeueUploadSessions, at the start only: rows last updated 5 minutes ago, and
\* any row may be that old
ListStale ==
  /\ sched = "listStale"
  /\ \E S \in SUBSET {s \in Sessions : status[s] \in Unfinished} : Listed(S, "stale")

\* mutant: jobs in PROCESSING are left to whoever set it
DueUnlessProcessing(s) == due[s] = "now" /\ status[s] \in Unfinished \ {"PROCESSING"}

\* DueThumbnailRetries
Due(s) == due[s] = "now" /\ status[s] \in Unfinished

ListDue == sched = "listDue" /\ Listed({s \in Sessions : Due(s)}, "due")

\* back to PROCESSING with the schedule cleared, then into the queue
Requeue(s) ==
  /\ SetStatus(s, "PROCESSING", FALSE, satt[s], "null")
  /\ pending' = s
  /\ Strike(s)
  /\ UNCHANGED <<storeVars, sched, queue, workVars, troubles, workRest>>

StaleImage(s) ==
  /\ sched = "stale" /\ pending = None
  /\ s \in batch \cap images
  /\ Requeue(s)
  /\ rescheduled' = rescheduled \cup {s}

StaleOther(s) ==
  /\ sched = "stale" /\ pending = None
  /\ s \in batch \ images
  /\ SetStatus(s, "READY", FALSE, satt[s], "null")
  /\ Strike(s)
  /\ UNCHANGED <<storeVars, sched, pending, queue, workVars, troubles, rescheduled, workRest>>

DueItem(s) ==
  /\ sched = "due" /\ pending = None
  /\ s \in batch
  /\ Requeue(s)
  /\ rescheduled' = IF Scheduled(s) THEN rescheduled \cup {s} ELSE rescheduled

\* the UPDATE fails: the row is left as it is
ItemFault(s) ==
  /\ s \in batch /\ pending = None
  /\ Fault
  /\ Strike(s)
  /\ UNCHANGED <<rowVars, storeVars, sched, pending, queue, workVars, rescheduled, workRest>>

\* mutant: one job more than the channel holds
FullOneLater == Len(queue) > QueueSize

Full == Len(queue) = QueueSize

\* the send blocks while the queue is full
Enqueue ==
  /\ pending # None
  /\ ~Full
  /\ queue' = Append(queue, pending)
  /\ pending' = None
  /\ UNCHANGED <<rowVars, storeVars, sched, batch, satt, workVars, troubles, rescheduled, workRest>>

\* RequeueStale is followed by RequeueDue, and this by the next tick
NextPass ==
  /\ \/ sched \in {"stale", "due"} /\ batch = {} /\ pending = None
     \/ sched = "sleep"
  /\ sched' = IF sched = "due" THEN "sleep" ELSE "listDue"
  /\ UNCHANGED <<rowVars, storeVars, batch, satt, pending, queue, workVars, troubles, rescheduled, workRest>>

\* the process stops, and what it held in memory with it
CrashWorker ==
  /\ sched # "down"
  /\ Fault
  /\ sched' = "down" /\ batch' = {} /\ pending' = None /\ queue' = <<>>
  /\ satt' = [s \in Sessions |-> 0]
  /\ wpc' = [g \in Goroutines |-> "idle"]
  /\ job' = [g \in Goroutines |-> None]
  /\ jatt' = [g \in Goroutines |-> 0]
  /\ rescheduled' = rescheduled \cup {s \in images : Scheduled(s)}
  /\ UNCHANGED <<rowVars, storeVars, workRest>>

-----------------------------------------------------------------------------
(* A thumbnail goroutine: process and handleResult.                        *)

jobRest == <<schedVars, workRest>>

JobStep(g, where) == wpc' = [wpc EXCEPT ![g] = where] /\ UNCHANGED <<job, jatt>>

JobDone(g) ==
  /\ wpc' = [wpc EXCEPT ![g] = "idle"]
  /\ job' = [job EXCEPT ![g] = None]
  /\ jatt' = [jatt EXCEPT ![g] = 0]

Take(g) ==
  /\ wpc[g] = "idle"
  /\ queue # <<>>
  /\ job' = [job EXCEPT ![g] = Head(queue)]
  /\ wpc' = [wpc EXCEPT ![g] = "load"]
  /\ queue' = Tail(queue)
  /\ UNCHANGED <<rowVars, storeVars, jatt, troubles, rescheduled, jobRest>>

\* GetUploadSessionByID; only images are ever enqueued
LoadJob(g) ==
  /\ wpc[g] = "load"
  /\ IF status[job[g]] = "gone"
     THEN JobDone(g)
     ELSE /\ jatt' = [jatt EXCEPT ![g] = attempts[job[g]] + 1]
          /\ wpc' = [wpc EXCEPT ![g] = "mark"]
          /\ UNCHANGED job
  /\ UNCHANGED <<rowVars, storeVars, queue, troubles, rescheduled, jobRest>>

MarkProcessing(g) ==
  /\ wpc[g] = "mark"
  /\ SetStatus(job[g], "PROCESSING", FALSE, jatt[g], "null")
  /\ JobStep(g, "fetch")
  /\ UNCHANGED <<storeVars, queue, troubles, rescheduled, jobRest>>

\* GetObject, ReadAll and makeThumbnail
Fetch(g) ==
  /\ wpc[g] = "fetch"
  /\ JobStep(g, IF object[job[g]] \in {"good", "mismatched"} THEN "put" ELSE "fail")
  /\ UNCHANGED <<rowVars, storeVars, queue, troubles, rescheduled, jobRest>>

\* PutObject; UpdateAttachmentThumbnailByStoragePath, which follows, sets a column
\* that attachments does not have, so it changes nothing and its error is logged
PutThumb(g) ==
  /\ wpc[g] = "put"
  /\ thumb' = thumb \cup {job[g]}
  /\ JobStep(g, "succeed")
  /\ UNCHANGED <<rowVars, object, queue, troubles, rescheduled, jobRest>>

BucketFault(g) ==
  /\ wpc[g] \in {"fetch", "put"}
  /\ Fault
  /\ JobStep(g, "fail")
  /\ UNCHANGED <<rowVars, storeVars, queue, rescheduled, jobRest>>

Succeed(g) ==
  /\ wpc[g] = "succeed"
  /\ SetStatus(job[g], "READY", TRUE, jatt[g], "null")
  /\ JobDone(g)
  /\ UNCHANGED <<storeVars, queue, troubles, rescheduled, jobRest>>

\* mutants of thumbnailResultState and handleResult
GivesUpLater(n) == n > MaxAttempts
ResultOfFailureReady(g) ==
  IF jatt[g] >= MaxAttempts
  THEN SetStatus(job[g], "READY", TRUE, jatt[g], "null")
  ELSE SetStatus(job[g], "PROCESSING", FALSE, jatt[g], "later")

GivesUp(n) == n >= MaxAttempts

\* the attempt failed: FAILED, or due again after the backoff
ResultOfFailure(g) ==
  IF GivesUp(jatt[g])
  THEN SetStatus(job[g], "FAILED", TRUE, jatt[g], "null")
  ELSE SetStatus(job[g], "PROCESSING", FALSE, jatt[g], "later")

Fail(g) ==
  /\ wpc[g] = "fail"
  /\ ResultOfFailure(g)
  /\ JobDone(g)
  /\ UNCHANGED <<storeVars, queue, troubles, rescheduled, jobRest>>

\* a database call of the job fails: the job ends, the error is logged
JobFault(g) ==
  /\ wpc[g] \in {"load", "mark", "succeed", "fail"}
  /\ Fault
  /\ JobDone(g)
  /\ rescheduled' = rescheduled \cup {job[g]}
  /\ UNCHANGED <<rowVars, storeVars, queue, jobRest>>

-----------------------------------------------------------------------------
(* CleanupExpiredUploadSessions.                                           *)

cleanRest == <<images, expired, attachments, urls, completes, callVars, schedVars, queue, workVars,
               troubles, unsure, rescheduled>>

Finished == {"READY", "FAILED", "EXPIRED"}

\* mutant: expires_at is not compared
CleanableAnyTime(s) == status[s] \notin Finished \cup {"none", "gone"}

\* ListExpiredUploadSessions
Cleanable(s) == s \in expired /\ status[s] \notin Finished \cup {"none", "gone"}

ListExpired(k) ==
  /\ kpc[k] = "idle"
  /\ \E s \in Sessions : Cleanable(s)
  /\ kbatch' = [kbatch EXCEPT ![k] = {s \in Sessions : Cleanable(s)}]
  /\ kpc' = [kpc EXCEPT ![k] = "next"]
  /\ UNCHANGED <<rowVars, storeVars, kcur, cleanRest>>

NextExpired(k) ==
  /\ kpc[k] = "next"
  /\ IF kbatch[k] = {}
     THEN kpc' = [kpc EXCEPT ![k] = "idle"] /\ UNCHANGED <<kbatch, kcur>>
     ELSE \E s \in kbatch[k] :
            /\ kcur' = [kcur EXCEPT ![k] = s]
            /\ kbatch' = [kbatch EXCEPT ![k] = @ \ {s}]
            /\ kpc' = [kpc EXCEPT ![k] = "object"]
  /\ UNCHANGED <<rowVars, storeVars, cleanRest>>

RemoveObject(k) ==
  /\ kpc[k] = "object"
  /\ object' = [object EXCEPT ![kcur[k]] = "absent"]
  /\ kpc' = [kpc EXCEPT ![k] = "thumb"]
  /\ UNCHANGED <<rowVars, thumb, kbatch, kcur, cleanRest>>

RemoveThumb(k) ==
  /\ kpc[k] = "thumb"
  /\ thumb' = thumb \ {kcur[k]}
  /\ kpc' = [kpc EXCEPT ![k] = "row"]
  /\ UNCHANGED <<rowVars, object, kbatch, kcur, cleanRest>>

\* DELETE WHERE id = $1, whatever the row says by now
DeleteRow(k) ==
  /\ kpc[k] = "row"
  /\ status' = [status EXCEPT ![kcur[k]] = "gone"]
  /\ due' = [due EXCEPT ![kcur[k]] = "null"]
  /\ kcur' = [kcur EXCEPT ![k] = None]
  /\ kpc' = [kpc EXCEPT ![k] = "next"]
  /\ UNCHANGED <<confirmed, attempts, storeVars, kbatch, cleanRest>>

\* an error ends the pass, a stop of the process too; the next pass lists anew
StopCleaning(k) ==
  /\ kpc[k] # "idle"
  /\ kpc' = [kpc EXCEPT ![k] = "idle"]
  /\ kbatch' = [kbatch EXCEPT ![k] = {}]
  /\ kcur' = [kcur EXCEPT ![k] = None]
  /\ UNCHANGED <<rowVars, storeVars, cleanRest>>

-----------------------------------------------------------------------------
(* Time.                                                                   *)

timeRest == <<images, status, confirmed, attempts, attachments, storeVars, urls, completes, callVars,
              schedVars, queue, workVars, cleanVars, troubles, unsure, rescheduled>>

\* 15 minutes since PresignUpload
Expire(s) ==
  /\ status[s] \notin {"none", "gone"} /\ s \notin expired
  /\ Punctual =>
       /\ due[s] = "null" /\ s \notin batch /\ ~Scheduled(s)
       /\ \A c \in Completers : csess[c] # s
  /\ expired' = expired \cup {s}
  /\ UNCHANGED <<due, timeRest>>

\* the backoff is over
BecomeDue(s) ==
  /\ due[s] = "later"
  /\ due' = [due EXCEPT ![s] = "now"]
  /\ UNCHANGED <<expired, timeRest>>

-----------------------------------------------------------------------------
Call(c) ==
  \/ Existing(c) \/ Stat(c) \/ GiveUp(c) \/ MarkUploaded(c) \/ Lookup(c)
  \/ CreateAttachment(c) \/ Finalize(c) \/ Schedule(c)

Scheduler ==
  \/ StartWorker \/ ListStale \/ ListDue \/ Enqueue \/ NextPass
  \/ \E s \in Sessions : StaleImage(s) \/ StaleOther(s) \/ DueItem(s)

Work(g) ==
  \/ Take(g) \/ LoadJob(g) \/ MarkProcessing(g) \/ Fetch(g) \/ PutThumb(g) \/ Succeed(g) \/ Fail(g)

Clean(k) == ListExpired(k) \/ NextExpired(k) \/ RemoveObject(k) \/ RemoveThumb(k) \/ DeleteRow(k)

Failure ==
  \/ \E c \in Completers : CallFault(c) \/ CallCut(c)
  \/ \E s \in Sessions : ItemFault(s)
  \/ \E g \in Goroutines : BucketFault(g) \/ JobFault(g)
  \/ \E k \in Cleaners : StopCleaning(k)
  \/ CrashWorker

Next ==
  \/ \E s \in Sessions : Presign(s) \/ Put(s) \/ Expire(s) \/ BecomeDue(s)
  \/ \E c \in Completers : Call(c) \/ \E s \in Sessions : Load(c, s)
  \/ Scheduler
  \/ \E g \in Goroutines : Work(g)
  \/ \E k \in Cleaners : Clean(k)
  \/ Failure

Spec == Init /\ [][Next]_vars

\* The goroutines of the worker run, its ticker fires and time passes.
FairSpec ==
  /\ Spec
  /\ WF_vars(Scheduler)
  /\ \A g \in Goroutines : WF_vars(Work(g))
  /\ \A s \in Sessions : WF_vars(BecomeDue(s)) /\ WF_vars(Expire(s))
  /\ \A c \in Completers : WF_vars(Call(c))

-----------------------------------------------------------------------------
(* Properties                                                              *)

\* Until it expires, a session that was completed keeps the object CompleteUpload
\* verified, and an image is READY only with its thumbnail in the bucket: cleanup,
\* retries and repeated completions take neither away.
IntactUntilExpiry ==
  \A s \in Sessions \ expired :
    /\ attachments[s] > 0 => object[s] \in {"good", "undecodable"}
    /\ s \in images /\ status[s] = "READY" => s \in thumb

\* CompleteUpload is idempotent unless two calls for one session overlap or a lookup
\* fails: a later call finds the attachment of the first.
OneAttachment == \A s \in Sessions : attachments[s] > 1 => s \in unsure

\* A completed image that has neither thumbnail nor failure yet is on its way: it is
\* due, or the worker holds it, or one of the recorded accidents lost it.
JobsAreAccounted ==
  \A s \in images :
    /\ attachments[s] > 0
    /\ status[s] \in {"UPLOADED", "PROCESSING"}
    /\ \A c \in Completers : csess[c] # s
    => due[s] # "null" \/ Scheduled(s) \/ s \in rescheduled

\* No thumbnail is tried more than MaxAttempts times, unless a job was lost or given
\* out twice on the way.
AttemptsBounded ==
  \A s \in Sessions : attempts[s] > MaxAttempts => s \in rescheduled \cup unsure

\* main.go 328: what the cleaner removes are orphans, objects nobody refers to.
CleansOnlyOrphans ==
  [][\A s \in Sessions :
       object[s] # "absent" /\ object'[s] = "absent" => attachments[s] = 0]_vars

\* server.go 152-153: the due time is a durable queue; a completed image that is due
\* ends with a thumbnail or, its attempts used up, as FAILED.
QueueIsDurable ==
  \A s \in Sessions :
    s \in images /\ attachments[s] > 0 /\ due[s] = "now" /\ s \notin expired ~> status[s] \in {"READY", "FAILED"}

\* for TLC: any CompleteUpload call may stand for any other.
CompleterSymmetry == Permutations(Completers)
=============================================================================
