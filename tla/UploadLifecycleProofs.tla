----------------------- MODULE UploadLifecycleProofs -----------------------
(***************************************************************************)
(* Theorems about UploadLifecycle for any number of sessions, calls,       *)
(* goroutines and core processes, and any amount of trouble.               *)
(***************************************************************************)
EXTENDS UploadLifecycle, FiniteSetTheorems, TLAPS

-----------------------------------------------------------------------------
(* TypeOK, one owner of variables at a time.                               *)

Statuses == {"none", "PENDING", "UPLOADED", "PROCESSING", "READY", "FAILED", "EXPIRED", "gone"}

RowTypes ==
  /\ images \subseteq Sessions
  /\ status \in [Sessions -> Statuses]
  /\ confirmed \subseteq Sessions
  /\ attempts \in [Sessions -> Nat]
  /\ due \in [Sessions -> {"null", "later", "now"}]

StoreTypes ==
  /\ expired \subseteq Sessions
  /\ object \in [Sessions -> {"absent", "good", "undecodable", "mismatched"}]
  /\ thumb \subseteq images
  /\ urls \subseteq Sessions

CallTypes ==
  /\ attachments \in [Sessions -> 0..MaxCompletes]
  /\ completes \in [Sessions -> 0..MaxCompletes]
  /\ cpc \in [Completers -> {"idle", "expire", "existing", "stat", "reject", "uploaded",
                             "lookup", "create", "finalize", "schedule"}]
  /\ csess \in [Completers -> Sessions \cup {None}]
  /\ catt \in [Completers -> Nat]
  /\ unsure \subseteq Sessions

ScheduleTypes ==
  /\ sched \in {"down", "listStale", "stale", "listDue", "due", "sleep"}
  /\ batch \subseteq Sessions
  /\ satt \in [Sessions -> Nat]
  /\ pending \in images \cup {None}
  /\ queue \in Seq(images)
  /\ Len(queue) <= QueueSize

WorkTypes ==
  /\ wpc \in [Goroutines -> {"idle", "load", "mark", "fetch", "put", "succeed", "fail"}]
  /\ job \in [Goroutines -> images \cup {None}]
  /\ jatt \in [Goroutines -> Nat]

CleanTypes ==
  /\ kpc \in [Cleaners -> {"idle", "next", "object", "thumb", "row"}]
  /\ kbatch \in [Cleaners -> SUBSET Sessions]
  /\ kcur \in [Cleaners -> Sessions \cup {None}]

BoundTypes == troubles \in 0..MaxTroubles /\ rescheduled \subseteq Sessions

-----------------------------------------------------------------------------
(* The inductive invariant.                                                *)

\* A call has a session in hand exactly while it runs.
CallHand ==
  \A c \in Completers :
    /\ cpc[c] = "idle" <=> csess[c] = None
    /\ cpc[c] = "schedule" => csess[c] \in images

\* So has a goroutine.
JobHand == \A g \in Goroutines : wpc[g] = "idle" <=> job[g] = None

\* So has a cleaner, while it removes what belongs to one row.
CleanHand == \A k \in Cleaners : kpc[k] \in {"object", "thumb", "row"} <=> kcur[k] # None

\* Only images are ever due.
DueHand ==
  /\ \A s \in Sessions : due[s] # "null" => s \in images
  /\ sched = "due" => batch \subseteq images

HandInv == CallHand /\ JobHand /\ CleanHand /\ DueHand

\* Calls that may still make an attachment of s.
Making(s) ==
  {c \in Completers : csess[c] = s /\ cpc[c] \in {"existing", "stat", "uploaded", "lookup", "create"}}

\* Every attachment is made by a call of its own.
Counted(s) ==
  /\ IsFiniteSet(Making(s))
  /\ attachments[s] + Cardinality(Making(s)) <= completes[s]

CountInv == \A s \in Sessions : Counted(s)

\* Cleaners work on expired sessions only.
CleanerInv == \A k \in Cleaners : kbatch[k] \subseteq expired /\ kcur[k] \in expired \cup {None}

\* There is no object before the URL was handed out and used.
UrlInv ==
  \A s \in Sessions :
    /\ s \in urls => status[s] # "none"
    /\ s \in urls \/ status[s] = "none" => object[s] = "absent"

\* Until then the object is as the call saw it that is about to use it.
SeenInv ==
  \A c \in Completers :
    csess[c] \notin expired /\ cpc[c] \in {"uploaded", "lookup", "create", "finalize", "schedule"}
      => object[csess[c]] \in {"good", "undecodable"}

\* A goroutine that is about to say READY has put the thumbnail.
ThumbInv == \A g \in Goroutines : wpc[g] = "succeed" => job[g] \in thumb \cup expired

ObjectInv == CleanerInv /\ UrlInv /\ SeenInv /\ ThumbInv /\ IntactUntilExpiry

\* Without an overlap or a failing lookup a session has one call at a time, which
\* makes an attachment only if there is none.
OnceInv ==
  \A s \in Sessions \ unsure :
    /\ attachments[s] <= 1
    /\ \A c, d \in Completers : csess[c] = s /\ csess[d] = s => c = d
    /\ \A c \in Completers : csess[c] = s /\ cpc[c] = "create" => attachments[s] = 0

\* A call that finalizes or schedules has made its attachment; a row that is gone is
\* never due again.
MadeInv ==
  /\ \A c \in Completers : cpc[c] \in {"finalize", "schedule"} => attachments[csess[c]] > 0
  /\ \A s \in Sessions : status[s] = "gone" => due[s] = "null"

InQueue(s) == \E i \in 1..Len(queue) : queue[i] = s

Kept(s) == due[s] # "null" \/ Scheduled(s) \/ s \in rescheduled

\* A thumbnail of s is owed to its attachment, and no call is about to say so.
Owed(s) ==
  /\ s \in images
  /\ attachments[s] > 0
  /\ status[s] \in {"UPLOADED", "PROCESSING"}
  /\ \A c \in Completers : csess[c] = s => cpc[c] \notin {"lookup", "create", "finalize", "schedule"}

JobsInv == \A s \in Sessions : Owed(s) => Kept(s)

\* Nothing happened that could give s a second job.
Sure(s) == s \notin rescheduled \cup unsure

\* s is in the list of due rows the scheduler works on.
Listing(s) == sched = "due" /\ s \in batch

\* A job of s has not read the attempt count yet.
Waiting(s) ==
  \/ pending = s
  \/ InQueue(s)
  \/ \E g \in Goroutines : job[g] = s /\ wpc[g] = "load"

\* s was not scheduled yet.
Unscheduled(s) ==
  \/ attachments[s] = 0
  \/ \E c \in Completers : csess[c] = s /\ cpc[c] \in {"finalize", "schedule"}

\* There is one job of s at most.
OneJob(s) ==
  /\ pending = s => ~InQueue(s)
  /\ pending = s => \A g \in Goroutines : job[g] # s
  /\ \A i, j \in 1..Len(queue) : queue[i] = s /\ queue[j] = s => i = j
  /\ InQueue(s) => \A g \in Goroutines : job[g] # s
  /\ \A g, h \in Goroutines : job[g] = s /\ job[h] = s => g = h

\* The attempts of s stay below MaxAttempts while one more is to come, ...
RowCount(s) ==
  /\ attempts[s] <= MaxAttempts
  /\ s \notin images => attempts[s] = 0 /\ satt[s] = 0
  /\ due[s] # "null" => attempts[s] < MaxAttempts /\ ~Scheduled(s)
  /\ Waiting(s) => attempts[s] < MaxAttempts
  /\ Unscheduled(s) => attempts[s] = 0 /\ due[s] = "null" /\ ~Scheduled(s) /\ ~Listing(s)

\* ... and so do the copies that calls, the scheduler and the goroutines hold: what
\* they write back never takes the row past the bound, nor below a newer count.
CallCopy(s) == \A c \in Completers : csess[c] = s => catt[c] <= attempts[s]

ListCopy(s) == Listing(s) => satt[s] < MaxAttempts /\ attempts[s] <= satt[s] /\ ~Scheduled(s)

JobCopy(s) ==
  \A g \in Goroutines :
    job[g] = s /\ wpc[g] \notin {"idle", "load"} => attempts[s] <= jatt[g] /\ jatt[g] <= MaxAttempts

Attempt(s) == OneJob(s) /\ RowCount(s) /\ CallCopy(s) /\ ListCopy(s) /\ JobCopy(s)

AttemptInv == \A s \in Sessions : Sure(s) => Attempt(s)

IInv ==
  TypeOK /\ HandInv /\ CountInv /\ ObjectInv /\ OnceInv /\ MadeInv /\ JobsInv /\ AttemptInv

-----------------------------------------------------------------------------
(* Who takes a step.                                                       *)

Outside(s) == Presign(s) \/ Put(s) \/ Expire(s) \/ BecomeDue(s)
CallStep(c) == Call(c) \/ CallFault(c) \/ CallCut(c) \/ \E s \in Sessions : Load(c, s)
ScheduleStep == Scheduler \/ CrashWorker \/ \E s \in Sessions : ItemFault(s)
WorkStep(g) == Work(g) \/ BucketFault(g) \/ JobFault(g)
CleanStep(k) == Clean(k) \/ StopCleaning(k)

LEMMA NextCases ==
  [Next]_vars => \/ \E s \in Sessions : Outside(s)
                 \/ \E c \in Completers : CallStep(c)
                 \/ ScheduleStep
                 \/ \E g \in Goroutines : WorkStep(g)
                 \/ \E k \in Cleaners : CleanStep(k)
                 \/ UNCHANGED vars
BY DEF Next, Outside, CallStep, ScheduleStep, WorkStep, CleanStep, Failure

\* What each of them leaves alone.
LEMMA OutsideFrame ==
  ASSUME NEW s \in Sessions, Outside(s)
  PROVE  UNCHANGED <<confirmed, attempts, attachments, thumb, completes, callVars, schedVars, queue,
                     workVars, cleanVars, troubles, unsure, rescheduled>>
BY DEF Outside, Presign, Put, Expire, BecomeDue, presignRest, timeRest, storeVars, rowVars

LEMMA CallFrame ==
  ASSUME NEW c \in Completers, CallStep(c) PROVE UNCHANGED callRest
BY DEF CallStep, Call, CallFault, CallCut, Load, Existing, Stat, GiveUp, MarkUploaded, Lookup,
       CreateAttachment, Finalize, Schedule

LEMMA ScheduleFrame ==
  ASSUME ScheduleStep PROVE UNCHANGED <<storeVars, workRest>>
BY DEF ScheduleStep, Scheduler, CrashWorker, ItemFault, StartWorker, ListStale, ListDue, Listed,
       Enqueue, NextPass, StaleImage, StaleOther, DueItem, Requeue

LEMMA WorkFrame ==
  ASSUME NEW g \in Goroutines, WorkStep(g) PROVE UNCHANGED <<object, jobRest>>
BY DEF WorkStep, Work, BucketFault, JobFault, Take, LoadJob, MarkProcessing, Fetch, PutThumb,
       Succeed, Fail, storeVars

LEMMA CleanFrame ==
  ASSUME NEW k \in Cleaners, CleanStep(k) PROVE UNCHANGED <<confirmed, attempts, cleanRest>>
BY DEF CleanStep, Clean, StopCleaning, ListExpired, NextExpired, RemoveObject, RemoveThumb,
       DeleteRow, rowVars

LEMMA TypeParts ==
  TypeOK <=> RowTypes /\ StoreTypes /\ CallTypes /\ ScheduleTypes /\ WorkTypes /\ CleanTypes /\ BoundTypes
BY DEF TypeOK, RowTypes, StoreTypes, CallTypes, ScheduleTypes, WorkTypes, CleanTypes, BoundTypes, Statuses

\* UpdateUploadSessionStatus writes one row, unless it is gone.
LEMMA SetStatusRow ==
  ASSUME RowTypes, NEW s \in Sessions, NEW st \in Statuses \ {"none", "gone"}, NEW confirm \in BOOLEAN,
         NEW att \in Nat, NEW next \in {"null", "later", "now"}, SetStatus(s, st, confirm, att, next)
  PROVE  /\ status' \in [Sessions -> Statuses] /\ confirmed' \subseteq Sessions
         /\ attempts' \in [Sessions -> Nat] /\ due' \in [Sessions -> {"null", "later", "now"}]
         /\ \A t \in Sessions \ {s} :
              status'[t] = status[t] /\ attempts'[t] = attempts[t] /\ due'[t] = due[t]
         /\ status[s] # "gone" => status'[s] = st /\ attempts'[s] = att /\ due'[s] = next
         /\ status[s] = "gone" =>
              status'[s] = "gone" /\ attempts'[s] = attempts[s] /\ due'[s] = due[s]
<1>1. CASE status[s] = "gone"
  BY <1>1 DEF RowTypes, SetStatus, rowVars
<1>2. CASE status[s] # "gone"
  BY <1>2 DEF RowTypes, SetStatus, Statuses
<1>3. QED
  BY <1>1, <1>2

-----------------------------------------------------------------------------
(* Hands.                                                                  *)

LEMMA CallHandStep ==
  ASSUME CallTypes, CallHand, RowTypes, UploadConstants, [Next]_vars PROVE CallHand'
<1> USE DEF CallHand, callRest, workRest, jobRest, cleanRest, callVars
<1>1. images \subseteq images' /\ (UNCHANGED callVars => CallHand')
  <2>1. images \subseteq images'
    BY NextCases, CallFrame, ScheduleFrame, WorkFrame, CleanFrame
       DEF Outside, Presign, Put, Expire, BecomeDue, timeRest, vars
  <2>2. QED
    BY <2>1
<1>2. ASSUME NEW c \in Completers, CallStep(c) PROVE CallHand'
  <2> USE <1>2 DEF CallTypes, UploadConstants
  <2>1. UNCHANGED images
    BY CallFrame
  <2>2. ASSUME NEW s \in Sessions, Load(c, s) PROVE CallHand'
    BY <2>1, <2>2 DEF Load
  <2>3. ASSUME Return(c) PROVE CallHand'
    BY <2>1, <2>3 DEF Return
  <2>4. ASSUME cpc[c] # "idle", NEW where \in {"stat", "uploaded", "reject", "lookup", "create", "finalize"},
               Step(c, where)
        PROVE  CallHand'
    BY <2>1, <2>4 DEF Step
  <2>5. CASE Existing(c) \/ Stat(c) \/ GiveUp(c) \/ MarkUploaded(c) \/ Lookup(c) \/ CreateAttachment(c)
    BY <2>3, <2>4, <2>5 DEF Existing, Stat, GiveUp, MarkUploaded, Lookup, CreateAttachment
  <2>6. CASE Finalize(c)
    <3>1. CASE csess[c] \in images
      BY <2>1, <2>6, <3>1 DEF Finalize, Step
    <3>2. QED
      BY <2>3, <2>6, <3>1 DEF Finalize
  <2>7. CASE Schedule(c) \/ CallCut(c)
    BY <2>3, <2>7 DEF Schedule, CallCut
  <2>8. CASE CallFault(c)
    BY <2>3, <2>4, <2>8 DEF CallFault
  <2>9. QED
    BY <1>2, <2>2, <2>5, <2>6, <2>7, <2>8 DEF CallStep, Call
<1>3. QED
  BY <1>1, <1>2, NextCases, OutsideFrame, ScheduleFrame, WorkFrame, CleanFrame DEF vars

LEMMA JobHandStep ==
  ASSUME WorkTypes, ScheduleTypes, JobHand, RowTypes, UploadConstants, [Next]_vars PROVE JobHand'
<1> USE DEF JobHand, callRest, workRest, jobRest, cleanRest, workVars, UploadConstants, WorkTypes, RowTypes
<1>1. ASSUME NEW g \in Goroutines, WorkStep(g) PROVE JobHand'
  <2> USE <1>1
  <2>1. CASE Take(g)
    <3>1. Head(queue) \in images
      BY <2>1 DEF Take, ScheduleTypes
    <3>2. QED
      BY <2>1, <3>1 DEF Take
  <2>2. ASSUME JobDone(g) PROVE JobHand'
    BY <2>2 DEF JobDone
  <2>3. ASSUME wpc[g] # "idle", NEW where \in {"mark", "fetch", "put", "succeed", "fail"}, JobStep(g, where)
        PROVE  JobHand'
    BY <2>3 DEF JobStep
  <2>4. CASE LoadJob(g)
    BY <2>2, <2>4 DEF LoadJob
  <2>5. CASE MarkProcessing(g) \/ Fetch(g) \/ PutThumb(g) \/ BucketFault(g)
    BY <2>3, <2>5 DEF MarkProcessing, Fetch, PutThumb, BucketFault
  <2>6. CASE Succeed(g) \/ Fail(g) \/ JobFault(g)
    BY <2>2, <2>6 DEF Succeed, Fail, JobFault
  <2>7. QED
    BY <2>1, <2>4, <2>5, <2>6 DEF WorkStep, Work
<1>2. CASE ScheduleStep
  <2>1. CASE CrashWorker
    BY <2>1 DEF CrashWorker
  <2>2. CASE ~CrashWorker
    BY <1>2, <2>2 DEF ScheduleStep, Scheduler, ItemFault, StartWorker, ListStale, ListDue, Listed,
       Enqueue, NextPass, StaleImage, StaleOther, DueItem, Requeue
  <2>3. QED
    BY <2>1, <2>2
<1>3. QED
  BY <1>1, <1>2, NextCases, OutsideFrame, CallFrame, CleanFrame DEF vars

LEMMA CleanHandStep ==
  ASSUME CleanTypes, CleanHand, UploadConstants, [Next]_vars PROVE CleanHand'
<1> USE DEF CleanHand, callRest, workRest, jobRest, cleanRest, cleanVars
<1>1. ASSUME NEW k \in Cleaners, CleanStep(k) PROVE CleanHand'
  <2> USE <1>1 DEF CleanTypes, UploadConstants
  <2>1. CASE ListExpired(k)
    BY <2>1 DEF ListExpired
  <2>2. CASE NextExpired(k)
    BY <2>2 DEF NextExpired
  <2>3. CASE RemoveObject(k) \/ RemoveThumb(k)
    BY <2>3 DEF RemoveObject, RemoveThumb
  <2>4. CASE DeleteRow(k) \/ StopCleaning(k)
    BY <2>4 DEF DeleteRow, StopCleaning
  <2>5. QED
    BY <2>1, <2>2, <2>3, <2>4 DEF CleanStep, Clean
<1>2. QED
  BY <1>1, NextCases, OutsideFrame, CallFrame, ScheduleFrame, WorkFrame DEF vars

-----------------------------------------------------------------------------
(* Rows.                                                                   *)

\* A step writes one row of upload_sessions at most, with these values.
Writes(s, att, next) ==
  \E st \in Statuses \ {"none", "gone"}, confirm \in BOOLEAN : SetStatus(s, st, confirm, att, next)

LEMMA WritesRow ==
  ASSUME RowTypes, NEW s \in Sessions, NEW att \in Nat, NEW next \in {"null", "later", "now"},
         Writes(s, att, next)
  PROVE  /\ status' \in [Sessions -> Statuses] /\ confirmed' \subseteq Sessions
         /\ attempts' \in [Sessions -> Nat] /\ due' \in [Sessions -> {"null", "later", "now"}]
         /\ \A t \in Sessions \ {s} :
              status'[t] = status[t] /\ attempts'[t] = attempts[t] /\ due'[t] = due[t]
         /\ \A t \in Sessions : status[t] = "gone" => status'[t] = "gone"
         /\ \A t \in Sessions : status'[t] = "none" => status[t] = "none"
         /\ \/ attempts'[s] = att /\ due'[s] = next
            \/ status[s] = "gone" /\ status'[s] = "gone" /\ attempts'[s] = attempts[s] /\ due'[s] = due[s]
<1>1. PICK st \in Statuses \ {"none", "gone"}, confirm \in BOOLEAN : SetStatus(s, st, confirm, att, next)
  BY DEF Writes
<1>2. /\ status' \in [Sessions -> Statuses] /\ confirmed' \subseteq Sessions
      /\ attempts' \in [Sessions -> Nat] /\ due' \in [Sessions -> {"null", "later", "now"}]
      /\ \A t \in Sessions \ {s} :
           status'[t] = status[t] /\ attempts'[t] = attempts[t] /\ due'[t] = due[t]
  BY <1>1, SetStatusRow
<1>3. \/ /\ status[s] # "gone" /\ status'[s] = st
         /\ attempts'[s] = att /\ due'[s] = next
      \/ status[s] = "gone" /\ status'[s] = "gone" /\ attempts'[s] = attempts[s] /\ due'[s] = due[s]
  BY <1>1, SetStatusRow
<1>4. QED
  BY <1>2, <1>3

LEMMA CallWrites ==
  ASSUME CallTypes, CallHand, UploadConstants, NEW c \in Completers, CallStep(c)
  PROVE  \/ UNCHANGED rowVars
         \/ csess[c] \in Sessions /\ Writes(csess[c], catt[c], "null")
         \/ cpc[c] = "schedule" /\ csess[c] \in Sessions /\ Writes(csess[c], catt[c], "now")
<1> USE DEF Writes, Statuses
<1>1. CASE cpc[c] # "idle" /\ (GiveUp(c) \/ MarkUploaded(c) \/ Finalize(c))
  BY <1>1 DEF CallHand, CallTypes, UploadConstants, GiveUp, MarkUploaded, Finalize
<1>2. CASE Schedule(c)
  BY <1>2 DEF CallHand, CallTypes, UploadConstants, Schedule, DueAtOnce
<1>3. QED
  BY <1>1, <1>2 DEF CallStep, Call, CallFault, CallCut, Load, Existing, Stat, Lookup, CreateAttachment,
                    GiveUp, MarkUploaded, Finalize

LEMMA ScheduleWrites ==
  ASSUME ScheduleStep
  PROVE  \/ UNCHANGED rowVars
         \/ \E s \in batch \cap Sessions : Writes(s, satt[s], "null")
<1> USE DEF Writes, Statuses
<1>1. ASSUME NEW s \in Sessions, StaleImage(s) \/ StaleOther(s) \/ DueItem(s)
      PROVE  s \in batch \cap Sessions /\ Writes(s, satt[s], "null")
  BY <1>1 DEF StaleImage, StaleOther, DueItem, Requeue
<1>2. QED
  BY <1>1 DEF ScheduleStep, Scheduler, CrashWorker, ItemFault, StartWorker, ListStale, ListDue, Listed,
              Enqueue, NextPass

LEMMA WorkWrites ==
  ASSUME WorkTypes, JobHand, RowTypes, UploadConstants, NEW g \in Goroutines, WorkStep(g)
  PROVE  \/ UNCHANGED rowVars
         \/ /\ wpc[g] \notin {"idle", "load"} /\ job[g] \in images
            /\ \E next \in {"null", "later"} :
                 /\ next = "later" => wpc[g] = "fail" /\ jatt[g] < MaxAttempts
                 /\ Writes(job[g], jatt[g], next)
<1>1. CASE MarkProcessing(g) \/ Succeed(g)
  BY <1>1 DEF JobHand, WorkTypes, UploadConstants, MarkProcessing, Succeed, Writes, Statuses
<1>2. CASE Fail(g)
  <2>1. wpc[g] = "fail" /\ job[g] \in images /\ jatt[g] \in Nat /\ MaxAttempts \in Nat
    BY <1>2 DEF Fail, JobHand, WorkTypes, UploadConstants
  <2>2. CASE GivesUp(jatt[g])
    BY <1>2, <2>1, <2>2 DEF Fail, ResultOfFailure, Writes, Statuses
  <2>3. CASE ~GivesUp(jatt[g])
    <3>1. jatt[g] < MaxAttempts
      BY <2>1, <2>3 DEF GivesUp
    <3>2. Writes(job[g], jatt[g], "later")
      BY <1>2, <2>3 DEF Fail, ResultOfFailure, Writes, Statuses
    <3>3. QED
      BY <2>1, <3>1, <3>2
  <2>4. QED
    BY <2>2, <2>3
<1>3. QED
  BY <1>1, <1>2 DEF WorkStep, Work, BucketFault, JobFault, Take, LoadJob, Fetch, PutThumb

LEMMA CleanWrites ==
  ASSUME CleanHand, CleanTypes, UploadConstants, NEW k \in Cleaners, CleanStep(k)
  PROVE  \/ UNCHANGED rowVars
         \/ /\ kcur[k] \in Sessions /\ kpc[k] = "row"
            /\ status' = [status EXCEPT ![kcur[k]] = "gone"]
            /\ due' = [due EXCEPT ![kcur[k]] = "null"]
BY DEF CleanHand, CleanTypes, UploadConstants, CleanStep, Clean, StopCleaning, ListExpired, NextExpired,
       RemoveObject, RemoveThumb, DeleteRow

LEMMA RowTypesStep ==
  ASSUME TypeOK, HandInv, [Next]_vars PROVE RowTypes'
<1> USE UploadConstants
<1>0. /\ RowTypes /\ CallTypes /\ ScheduleTypes /\ WorkTypes /\ CleanTypes
      /\ CallHand /\ JobHand /\ CleanHand
  BY TypeParts DEF HandInv
<1>1. ASSUME NEW s \in Sessions, Outside(s) PROVE RowTypes'
  BY <1>0, <1>1 DEF Outside, Presign, Put, Expire, BecomeDue, presignRest, timeRest, rowVars, RowTypes, Statuses
<1>2. UNCHANGED images /\ UNCHANGED rowVars => RowTypes'
  BY <1>0 DEF RowTypes, rowVars
<1>3. ASSUME UNCHANGED images, NEW s \in Sessions, NEW att \in Nat, NEW next \in {"null", "later", "now"},
             Writes(s, att, next)
      PROVE  RowTypes'
  <2>1. /\ status' \in [Sessions -> Statuses] /\ confirmed' \subseteq Sessions
        /\ attempts' \in [Sessions -> Nat] /\ due' \in [Sessions -> {"null", "later", "now"}]
    BY <1>0, <1>3, WritesRow
  <2>2. QED
    BY <1>0, <1>3, <2>1 DEF RowTypes
<1>4. ASSUME NEW c \in Completers, CallStep(c) PROVE RowTypes'
  <2>1. UNCHANGED images /\ catt[c] \in Nat
    BY <1>0, <1>4, CallFrame DEF callRest, CallTypes
  <2>2. QED
    BY <1>0, <1>2, <1>3, <1>4, <2>1, CallWrites
<1>5. CASE ScheduleStep
  BY <1>0, <1>2, <1>3, <1>5, ScheduleFrame, ScheduleWrites DEF workRest, ScheduleTypes
<1>6. ASSUME NEW g \in Goroutines, WorkStep(g) PROVE RowTypes'
  <2>1. UNCHANGED images /\ images \subseteq Sessions /\ jatt[g] \in Nat
    BY <1>0, <1>6, WorkFrame DEF jobRest, workRest, WorkTypes, RowTypes
  <2>2. QED
    BY <1>0, <1>2, <1>3, <1>6, <2>1, WorkWrites
<1>7. ASSUME NEW k \in Cleaners, CleanStep(k) PROVE RowTypes'
  <2>1. UNCHANGED <<images, confirmed, attempts>>
    BY <1>0, <1>7, CleanFrame DEF cleanRest
  <2>2. QED
    BY <1>0, <1>2, <1>7, <2>1, CleanWrites DEF RowTypes, Statuses
<1>8. QED
  BY <1>1, <1>2, <1>4, <1>5, <1>6, <1>7, NextCases DEF vars

LEMMA DueHandStep ==
  ASSUME TypeOK, HandInv, [Next]_vars PROVE DueHand'
<1> USE UploadConstants
<1>0. /\ RowTypes /\ CallTypes /\ ScheduleTypes /\ WorkTypes /\ CleanTypes
      /\ CallHand /\ JobHand /\ CleanHand /\ DueHand
  BY TypeParts DEF HandInv
<1> DEFINE DueImages == \A s \in Sessions : due[s] # "null" => s \in images
           DueBatch == sched = "due" => batch \subseteq images
<1>1. ASSUME UNCHANGED images, NEW s \in Sessions, NEW att \in Nat, NEW next \in {"null", "later", "now"},
             next # "null" => s \in images, Writes(s, att, next)
      PROVE  DueImages'
  BY <1>0, <1>1, WritesRow DEF DueHand
<1>2. UNCHANGED images /\ UNCHANGED rowVars => DueImages'
  BY <1>0 DEF DueHand, rowVars
<1>3. ASSUME NEW s \in Sessions, Outside(s) PROVE DueImages' /\ DueBatch'
  BY <1>0, <1>3 DEF Outside, Presign, Put, Expire, BecomeDue, presignRest, timeRest, rowVars, schedVars, RowTypes, DueHand
<1>4. ASSUME NEW c \in Completers, CallStep(c) PROVE DueImages' /\ DueBatch'
  <2>1. UNCHANGED <<images, sched, batch>>
    BY <1>0, <1>4, CallFrame DEF callRest, schedVars
  <2>2. QED
    BY <1>0, <1>1, <1>2, <1>4, <2>1, CallWrites DEF CallTypes, CallHand, DueHand
<1>5. CASE ScheduleStep
  <2>1. UNCHANGED images
    BY <1>0, <1>5, ScheduleFrame DEF workRest
  <2>2. DueImages'
    BY <1>0, <1>1, <1>2, <1>5, <2>1, ScheduleWrites DEF ScheduleTypes
  <2>3. DueBatch'
    BY <1>0, <1>5, <2>1 DEF ScheduleStep, Scheduler, CrashWorker, ItemFault, StartWorker, ListStale, ListDue,
       Listed, Enqueue, NextPass, StaleImage, StaleOther, DueItem, Requeue, Strike, Due, DueHand
  <2>4. QED
    BY <2>2, <2>3 DEF DueHand
<1>6. ASSUME NEW g \in Goroutines, WorkStep(g) PROVE DueImages' /\ DueBatch'
  <2>1. UNCHANGED <<images, sched, batch>>
    BY <1>0, <1>6, WorkFrame DEF jobRest, workRest, schedVars
  <2>2. QED
    BY <1>0, <1>1, <1>2, <1>6, <2>1, WorkWrites DEF WorkTypes, RowTypes, DueHand
<1>7. ASSUME NEW k \in Cleaners, CleanStep(k) PROVE DueImages' /\ DueBatch'
  <2>1. UNCHANGED <<images, sched, batch>>
    BY <1>0, <1>7, CleanFrame DEF cleanRest, schedVars
  <2>2. QED
    BY <1>0, <1>2, <1>7, <2>1, CleanWrites DEF RowTypes, DueHand
<1>8. CASE UNCHANGED vars
  BY <1>0, <1>8 DEF vars, rowVars, schedVars, DueHand
<1>9. QED
  BY <1>3, <1>4, <1>5, <1>6, <1>7, <1>8, NextCases DEF DueHand

-----------------------------------------------------------------------------
(* Counts.                                                                 *)

\* A call other than the one that starts or inserts adds to neither count.
LEMMA OtherCalls ==
  ASSUME CallTypes, CallHand, NEW c \in Completers, CallStep(c), ~CreateAttachment(c),
         \A s \in Sessions : ~Load(c, s)
  PROVE  /\ UNCHANGED <<attachments, completes>>
         /\ \A s \in Sessions : Making(s)' \subseteq Making(s)
<1>1. \/ Existing(c) \/ Stat(c) \/ GiveUp(c) \/ MarkUploaded(c) \/ Lookup(c)
      \/ Finalize(c) \/ Schedule(c) \/ CallFault(c) \/ CallCut(c)
  BY DEF CallStep, Call
<1>2. UNCHANGED <<attachments, completes>>
  BY <1>1 DEF Existing, Stat, GiveUp, MarkUploaded, Lookup, Finalize, Schedule, CallFault, CallCut
<1>3. ASSUME Return(c) PROVE \A s \in Sessions : Making(s)' \subseteq Making(s)
  BY <1>3 DEF Return, Making, CallTypes
<1>4. ASSUME NEW where, Step(c, where),
             where \in {"reject", "finalize", "schedule"}
               \/ cpc[c] \in {"existing", "stat", "uploaded", "lookup", "create"}
      PROVE  \A s \in Sessions : Making(s)' \subseteq Making(s)
  BY <1>4 DEF Step, Making, CallTypes
<1>5. \A s \in Sessions : Making(s)' \subseteq Making(s)
  <2>1. CASE Existing(c) \/ Stat(c) \/ GiveUp(c) \/ MarkUploaded(c) \/ Lookup(c)
    BY <1>3, <1>4, <2>1 DEF Existing, Stat, GiveUp, MarkUploaded, Lookup
  <2>2. CASE Finalize(c) \/ Schedule(c) \/ CallCut(c)
    BY <1>3, <1>4, <2>2 DEF Finalize, Schedule, CallCut
  <2>3. CASE CallFault(c)
    BY <1>3, <1>4, <2>3 DEF CallFault, CallTypes
  <2>4. QED
    BY <1>1, <2>1, <2>2, <2>3
<1>6. QED
  BY <1>2, <1>5

LEMMA CountStep ==
  ASSUME CallTypes, CallHand, CountInv, UploadConstants, [Next]_vars PROVE CountInv'
<1>1. ASSUME UNCHANGED <<cpc, csess, attachments, completes>> PROVE CountInv'
  <2>1. \A s \in Sessions : Making(s)' = Making(s)
    BY <1>1 DEF Making
  <2>2. QED
    BY <1>1, <2>1 DEF CountInv, Counted
<1>2. ASSUME NEW c \in Completers, CallStep(c) PROVE CountInv'
  <2>1. SUFFICES ASSUME NEW s \in Sessions PROVE Counted(s)'
    BY DEF CountInv
  <2>2. /\ attachments[s] \in Nat /\ completes[s] \in Nat
        /\ IsFiniteSet(Making(s)) /\ Cardinality(Making(s)) \in Nat
        /\ attachments[s] + Cardinality(Making(s)) <= completes[s]
    BY FS_CardinalityType DEF CallTypes, CountInv, Counted
  <2>3. ASSUME NEW t \in Sessions, Load(c, t) PROVE Counted(s)'
    <3>1. /\ UNCHANGED attachments
          /\ completes'[s] = IF s = t THEN completes[s] + 1 ELSE completes[s]
      BY <2>3 DEF Load, CallTypes
    <3>2. Making(s)' \subseteq IF s = t THEN Making(s) \cup {c} ELSE Making(s)
      BY <2>3 DEF Load, Making, CallTypes
    <3>3. CASE s = t
      <4>1. /\ IsFiniteSet(Making(s) \cup {c})
            /\ Cardinality(Making(s) \cup {c}) =
                 IF c \in Making(s) THEN Cardinality(Making(s)) ELSE Cardinality(Making(s)) + 1
        BY <2>2, FS_AddElement
      <4>2. /\ IsFiniteSet(Making(s)') /\ Cardinality(Making(s)') \in Nat
            /\ Cardinality(Making(s)') <= Cardinality(Making(s) \cup {c})
        BY <3>2, <3>3, <4>1, FS_Subset, FS_CardinalityType
      <4>3. QED
        BY <2>2, <3>1, <3>3, <4>1, <4>2 DEF Counted
    <3>4. CASE s # t
      <4>1. /\ IsFiniteSet(Making(s)') /\ Cardinality(Making(s)') \in Nat
            /\ Cardinality(Making(s)') <= Cardinality(Making(s))
        BY <2>2, <3>2, <3>4, FS_Subset, FS_CardinalityType
      <4>2. QED
        BY <2>2, <3>1, <3>4, <4>1 DEF Counted
    <3>5. QED
      BY <3>3, <3>4
  <2>4. CASE CreateAttachment(c)
    <3>1. /\ UNCHANGED completes
          /\ attachments'[s] = IF s = csess[c] THEN attachments[s] + 1 ELSE attachments[s]
      BY <2>4 DEF CreateAttachment, CallTypes
    <3>2. Making(s)' = Making(s) \ {c}
      BY <2>4 DEF CreateAttachment, Step, Making, CallTypes
    <3>3. c \in Making(s) <=> s = csess[c]
      BY <2>4 DEF CreateAttachment, Making
    <3>4. /\ IsFiniteSet(Making(s) \ {c})
          /\ Cardinality(Making(s) \ {c}) =
               IF c \in Making(s) THEN Cardinality(Making(s)) - 1 ELSE Cardinality(Making(s))
      BY <2>2, FS_RemoveElement
    <3>5. QED
      BY <2>2, <3>1, <3>2, <3>3, <3>4 DEF Counted
  <2>5. CASE ~CreateAttachment(c) /\ \A t \in Sessions : ~Load(c, t)
    <3>1. UNCHANGED <<attachments, completes>> /\ Making(s)' \subseteq Making(s)
      BY <1>2, <2>5, OtherCalls
    <3>2. /\ IsFiniteSet(Making(s)') /\ Cardinality(Making(s)') \in Nat
          /\ Cardinality(Making(s)') <= Cardinality(Making(s))
      BY <2>2, <3>1, FS_Subset, FS_CardinalityType
    <3>3. QED
      BY <2>2, <3>1, <3>2 DEF Counted
  <2>6. QED
    BY <2>3, <2>4, <2>5
<1>3. QED
  BY <1>1, <1>2, NextCases, OutsideFrame, ScheduleFrame, WorkFrame, CleanFrame
     DEF vars, callVars, workRest, jobRest, cleanRest

-----------------------------------------------------------------------------
(* Types.                                                                  *)

LEMMA StoreTypesStep ==
  ASSUME RowTypes, StoreTypes, JobHand, WorkTypes, CleanHand, CleanTypes, UploadConstants, [Next]_vars
  PROVE  StoreTypes'
<1>1. ASSUME NEW s \in Sessions, Outside(s) PROVE StoreTypes'
  BY <1>1 DEF Outside, Presign, Put, Expire, BecomeDue, presignRest, timeRest, storeVars, StoreTypes, RowTypes
<1>2. ASSUME NEW g \in Goroutines, WorkStep(g) PROVE StoreTypes'
  <2>1. UNCHANGED <<object, images, expired, urls>>
    BY <1>2, WorkFrame DEF jobRest, workRest
  <2>2. \/ thumb' = thumb
        \/ thumb' = thumb \cup {job[g]} /\ job[g] \in images
    <3>1. CASE PutThumb(g)
      BY <3>1 DEF PutThumb, JobHand, WorkTypes, UploadConstants
    <3>2. CASE Take(g) \/ LoadJob(g) \/ MarkProcessing(g) \/ Fetch(g) \/ Succeed(g) \/ Fail(g)
      BY <3>2 DEF Take, LoadJob, MarkProcessing, Fetch, Succeed, Fail, storeVars
    <3>3. CASE BucketFault(g) \/ JobFault(g)
      BY <3>3 DEF BucketFault, JobFault, storeVars
    <3>4. QED
      BY <1>2, <3>1, <3>2, <3>3 DEF WorkStep, Work
  <2>3. QED
    BY <2>1, <2>2 DEF StoreTypes
<1>3. ASSUME NEW k \in Cleaners, CleanStep(k) PROVE StoreTypes'
  <2>1. UNCHANGED <<images, expired, urls>>
    BY <1>3, CleanFrame DEF cleanRest
  <2>2. /\ object' = object \/ object' = [object EXCEPT ![kcur[k]] = "absent"]
        /\ thumb' \subseteq thumb
    BY <1>3 DEF CleanStep, Clean, StopCleaning, ListExpired, NextExpired, RemoveObject, RemoveThumb,
       DeleteRow, storeVars
  <2>3. QED
    BY <2>1, <2>2 DEF StoreTypes
<1>4. QED
  BY <1>1, <1>2, <1>3, NextCases, CallFrame, ScheduleFrame
     DEF vars, storeVars, callRest, workRest, StoreTypes

LEMMA CallTypesStep ==
  ASSUME RowTypes, CallTypes, CallHand, CountInv, UploadConstants, [Next]_vars PROVE CallTypes'
<1>1. ASSUME NEW c \in Completers, CallStep(c) PROVE CallTypes'
  <2> USE UploadConstants DEF CallTypes
  <2>1. ASSUME NEW s \in Sessions, Load(c, s) PROVE CallTypes'
    BY <2>1 DEF Load, RowTypes
  <2>2. CASE CreateAttachment(c)
    <3>1. csess[c] \in Sessions /\ cpc[c] = "create"
      BY <2>2 DEF CreateAttachment, CallHand
    <3>2. c \in Making(csess[c]) /\ IsFiniteSet(Making(csess[c]))
      BY <3>1 DEF Making, CountInv, Counted
    <3>3. Cardinality(Making(csess[c])) \in Nat \ {0}
      BY <3>2, FS_CardinalityType, FS_EmptySet
    <3>4. attachments[csess[c]] + 1 \in 0..MaxCompletes
      BY <3>1, <3>3 DEF CountInv, Counted
    <3>5. QED
      BY <2>2, <3>1, <3>4 DEF CreateAttachment, Step
  <2>3. ASSUME UNCHANGED <<attachments, completes, unsure>>,
               \/ Return(c)
               \/ \E where \in {"stat", "uploaded", "reject", "lookup", "create", "finalize", "schedule"} :
                    Step(c, where)
        PROVE  CallTypes'
    BY <2>3 DEF Step, Return
  <2>4. CASE Existing(c) \/ Stat(c) \/ GiveUp(c) \/ MarkUploaded(c) \/ Lookup(c) \/ Finalize(c) \/ Schedule(c)
    <3>1. UNCHANGED <<attachments, completes, unsure>>
      BY <2>4 DEF Existing, Stat, GiveUp, MarkUploaded, Lookup, Finalize, Schedule
    <3>2. CASE Existing(c) \/ Stat(c) \/ GiveUp(c) \/ MarkUploaded(c)
      BY <2>3, <3>1, <3>2 DEF Existing, Stat, GiveUp, MarkUploaded
    <3>3. CASE Lookup(c) \/ Finalize(c) \/ Schedule(c)
      BY <2>3, <3>1, <3>3 DEF Lookup, Finalize, Schedule
    <3>4. QED
      BY <2>4, <3>2, <3>3
  <2>5. CASE CallFault(c)
    <3>1. csess[c] \in Sessions
      BY <2>5 DEF CallFault, CallHand
    <3>2. CASE Return(c)
      BY <2>5, <3>1, <3>2 DEF CallFault, Return
    <3>3. CASE \E where \in {"reject", "stat", "create"} : Step(c, where)
      BY <2>5, <3>1, <3>3 DEF CallFault, Step
    <3>4. QED
      BY <2>5, <3>2, <3>3 DEF CallFault
  <2>6. CASE CallCut(c)
    BY <2>3, <2>6 DEF CallCut
  <2>7. QED
    BY <1>1, <2>1, <2>2, <2>4, <2>5, <2>6 DEF CallStep, Call
<1>2. QED
  BY <1>1, NextCases, OutsideFrame, ScheduleFrame, WorkFrame, CleanFrame
     DEF vars, callVars, workRest, jobRest, cleanRest, CallTypes

LEMMA ScheduleTypesStep ==
  ASSUME RowTypes, ScheduleTypes, DueHand, UploadConstants, [Next]_vars PROVE ScheduleTypes'
<1>1. ASSUME NEW s \in Sessions, Outside(s) PROVE ScheduleTypes'
  <2>1. UNCHANGED <<schedVars, queue>> /\ images \subseteq images'
    BY <1>1, OutsideFrame DEF Outside, Presign, Put, Expire, BecomeDue, timeRest
  <2>2. Seq(images) \subseteq Seq(images')
    BY <2>1
  <2>3. QED
    BY <2>1, <2>2 DEF ScheduleTypes, schedVars
<1>2. CASE ScheduleStep
  <2>1. UNCHANGED images
    BY <1>2, ScheduleFrame DEF workRest
  <2>2. CASE StartWorker \/ NextPass
    BY <2>1, <2>2 DEF StartWorker, NextPass, ScheduleTypes
  <2>3. ASSUME NEW S \in SUBSET Sessions, Listed(S, "stale") \/ Listed(S, "due") PROVE ScheduleTypes'
    <3>1. batch' \in SUBSET Sessions /\ satt' \in [Sessions -> Nat]
      BY <2>3 DEF Listed, RowTypes
    <3>2. sched' \in {"stale", "due"} /\ UNCHANGED <<pending, queue>>
      BY <2>3 DEF Listed
    <3>3. QED
      BY <2>1, <3>1, <3>2 DEF ScheduleTypes
  <2>4. CASE ListStale \/ ListDue
    <3>1. \A S \in SUBSET {s \in Sessions : status[s] \in Unfinished} : S \subseteq Sessions
      OBVIOUS
    <3>2. {s \in Sessions : Due(s)} \subseteq Sessions
      OBVIOUS
    <3>3. QED
      BY <2>3, <2>4, <3>1, <3>2 DEF ListStale, ListDue
  <2>5. CASE Enqueue
    <3>1. pending \in images /\ Len(queue) < QueueSize /\ QueueSize \in Nat
      BY <2>5 DEF Enqueue, Full, ScheduleTypes, UploadConstants
    <3>2. queue' \in Seq(images') /\ Len(queue') <= QueueSize
      BY <2>1, <2>5, <3>1 DEF Enqueue, ScheduleTypes
    <3>3. QED
      BY <2>5, <3>2 DEF Enqueue, ScheduleTypes
  <2>6. CASE CrashWorker
    BY <2>1, <2>6 DEF CrashWorker, ScheduleTypes, UploadConstants
  <2>7. ASSUME NEW s \in Sessions, Strike(s), UNCHANGED <<sched, queue>>, pending' \in images \cup {None}
        PROVE  ScheduleTypes'
    BY <2>1, <2>7 DEF Strike, ScheduleTypes
  <2>8. ASSUME NEW s \in Sessions, StaleImage(s) \/ StaleOther(s) \/ ItemFault(s) PROVE ScheduleTypes'
    BY <2>7, <2>8 DEF StaleImage, StaleOther, ItemFault, Requeue, ScheduleTypes
  <2>9. ASSUME NEW s \in Sessions, DueItem(s) PROVE ScheduleTypes'
    BY <2>7, <2>9 DEF DueItem, Requeue, DueHand
  <2>10. QED
    BY <1>2, <2>2, <2>4, <2>5, <2>6, <2>8, <2>9 DEF ScheduleStep, Scheduler
<1>3. ASSUME NEW g \in Goroutines, WorkStep(g) PROVE ScheduleTypes'
  <2>1. UNCHANGED <<images, schedVars>>
    BY <1>3, WorkFrame DEF jobRest, workRest
  <2>2. \/ queue' = queue
        \/ queue # <<>> /\ queue' = Tail(queue)
    BY <1>3 DEF WorkStep, Work, BucketFault, JobFault, Take, LoadJob, MarkProcessing, Fetch, PutThumb, Succeed, Fail
  <2>3. queue' \in Seq(images) /\ Len(queue') <= QueueSize
    <3>1. queue \in Seq(images) /\ Len(queue) <= QueueSize /\ QueueSize \in Nat
      BY DEF ScheduleTypes, UploadConstants
    <3>2. CASE queue # <<>> /\ queue' = Tail(queue)
      <4>1. Tail(queue) \in Seq(images) /\ Len(Tail(queue)) = Len(queue) - 1
        BY <3>1, <3>2
      <4>2. QED
        BY <3>1, <3>2, <4>1
    <3>3. QED
      BY <2>2, <3>1, <3>2
  <2>4. QED
    BY <2>1, <2>3 DEF ScheduleTypes, schedVars
<1>4. QED
  BY <1>1, <1>2, <1>3, NextCases, CallFrame, CleanFrame DEF vars, schedVars, callRest, cleanRest, ScheduleTypes

LEMMA WorkTypesStep ==
  ASSUME RowTypes, ScheduleTypes, WorkTypes, JobHand, UploadConstants, [Next]_vars PROVE WorkTypes'
<1>1. ASSUME NEW s \in Sessions, Outside(s) PROVE WorkTypes'
  <2>1. UNCHANGED workVars /\ images \subseteq images'
    BY <1>1, OutsideFrame DEF Outside, Presign, Put, Expire, BecomeDue, timeRest
  <2>2. QED
    BY <2>1 DEF WorkTypes, workVars
<1>2. CASE ScheduleStep
  <2>1. UNCHANGED images
    BY <1>2, ScheduleFrame DEF workRest
  <2>2. CASE CrashWorker
    BY <2>2, <2>1 DEF CrashWorker, WorkTypes
  <2>3. CASE ~CrashWorker
    <3>1. UNCHANGED workVars
      BY <1>2, <2>3 DEF ScheduleStep, Scheduler, ItemFault, StartWorker, ListStale, ListDue, Listed,
         Enqueue, NextPass, StaleImage, StaleOther, DueItem, Requeue
    <3>2. QED
      BY <2>1, <3>1 DEF WorkTypes, workVars
  <2>4. QED
    BY <2>2, <2>3
<1>3. ASSUME NEW g \in Goroutines, WorkStep(g) PROVE WorkTypes'
  <2>1. UNCHANGED images
    BY <1>3, WorkFrame DEF jobRest, workRest
  <2> USE <2>1 DEF WorkTypes
  <2>2. CASE Take(g)
    <3>1. Head(queue) \in images
      BY <2>2 DEF Take, ScheduleTypes
    <3>2. QED
      BY <2>2, <3>1 DEF Take
  <2>3. CASE LoadJob(g)
    <3>1. job[g] \in Sessions
      BY <2>3 DEF LoadJob, JobHand, RowTypes
    <3>2. attempts[job[g]] + 1 \in Nat
      BY <3>1 DEF RowTypes
    <3>3. QED
      BY <2>3, <3>2 DEF LoadJob, JobDone
  <2>4. CASE MarkProcessing(g) \/ Fetch(g) \/ PutThumb(g) \/ BucketFault(g)
    BY <2>4 DEF MarkProcessing, Fetch, PutThumb, BucketFault, JobStep
  <2>5. CASE Succeed(g) \/ Fail(g) \/ JobFault(g)
    <3>1. JobDone(g)
      BY <2>5 DEF Succeed, Fail, JobFault
    <3>2. QED
      BY <3>1 DEF JobDone
  <2>6. QED
    BY <1>3, <2>2, <2>3, <2>4, <2>5 DEF WorkStep, Work
<1>4. QED
  BY <1>1, <1>2, <1>3, NextCases, CallFrame, CleanFrame DEF vars, workVars, callRest, cleanRest, WorkTypes

LEMMA CleanTypesStep ==
  ASSUME CleanTypes, UploadConstants, [Next]_vars PROVE CleanTypes'
<1>1. ASSUME NEW k \in Cleaners, CleanStep(k) PROVE CleanTypes'
  <2> USE <1>1 DEF CleanTypes
  <2>1. CASE ListExpired(k)
    BY <2>1 DEF ListExpired
  <2>2. CASE NextExpired(k)
    BY <2>2 DEF NextExpired
  <2>3. CASE RemoveObject(k) \/ RemoveThumb(k)
    BY <2>3 DEF RemoveObject, RemoveThumb
  <2>4. CASE DeleteRow(k) \/ StopCleaning(k)
    BY <2>4 DEF DeleteRow, StopCleaning
  <2>5. QED
    BY <2>1, <2>2, <2>3, <2>4 DEF CleanStep, Clean
<1>2. QED
  BY <1>1, NextCases, OutsideFrame, CallFrame, ScheduleFrame, WorkFrame
     DEF vars, cleanVars, callRest, workRest, jobRest, CleanTypes

LEMMA BoundTypesStep ==
  ASSUME TypeOK, HandInv, [Next]_vars PROVE BoundTypes'
<1>0. RowTypes /\ CallTypes /\ WorkTypes /\ BoundTypes /\ CallHand /\ JobHand
  BY TypeParts DEF HandInv
<1>1. Fault => troubles' \in 0..MaxTroubles
  BY <1>0, UploadConstants DEF Fault, BoundTypes
<1>2. ASSUME NEW c \in Completers, CallStep(c) PROVE BoundTypes'
  <2>1. cpc[c] # "idle" => csess[c] \in Sessions
    BY <1>0, <1>2 DEF CallHand, CallTypes
  <2>2. CASE Call(c) \/ \E s \in Sessions : Load(c, s)
    BY <1>0, <2>1, <2>2 DEF Call, Load, Existing, Stat, GiveUp, MarkUploaded, Lookup, CreateAttachment,
       Finalize, Schedule, BoundTypes
  <2>3. CASE CallFault(c) \/ CallCut(c)
    BY <1>0, <1>1, <2>1, <2>3 DEF CallFault, CallCut, BoundTypes
  <2>4. QED
    BY <1>2, <2>2, <2>3 DEF CallStep
<1>3. CASE ScheduleStep
  <2>1. CASE CrashWorker
    BY <1>0, <1>1, <2>1 DEF CrashWorker, BoundTypes, RowTypes
  <2>2. ASSUME NEW s \in Sessions, StaleImage(s) \/ StaleOther(s) \/ DueItem(s) PROVE BoundTypes'
    BY <1>0, <2>2 DEF StaleImage, StaleOther, DueItem, Requeue, BoundTypes
  <2>3. ASSUME NEW s \in Sessions, ItemFault(s) PROVE BoundTypes'
    BY <1>0, <1>1, <2>3 DEF ItemFault, BoundTypes
  <2>4. CASE StartWorker \/ ListStale \/ ListDue \/ Enqueue \/ NextPass
    BY <1>0, <2>4 DEF StartWorker, ListStale, ListDue, Listed, Enqueue, NextPass, BoundTypes
  <2>5. QED
    BY <1>3, <2>1, <2>2, <2>3, <2>4 DEF ScheduleStep, Scheduler
<1>4. ASSUME NEW g \in Goroutines, WorkStep(g) PROVE BoundTypes'
  <2>1. CASE Work(g)
    BY <1>0, <2>1 DEF Work, Take, LoadJob, MarkProcessing, Fetch, PutThumb, Succeed, Fail, BoundTypes
  <2>2. CASE BucketFault(g)
    BY <1>0, <1>1, <2>2 DEF BucketFault, BoundTypes
  <2>3. CASE JobFault(g)
    <3>1. job[g] \in Sessions
      BY <1>0, <2>3 DEF JobFault, JobHand, WorkTypes, RowTypes
    <3>2. QED
      BY <1>0, <1>1, <2>3, <3>1 DEF JobFault, BoundTypes
  <2>4. QED
    BY <1>4, <2>1, <2>2, <2>3 DEF WorkStep
<1>5. QED
  BY <1>0, <1>2, <1>3, <1>4, NextCases, OutsideFrame, CleanFrame DEF vars, cleanRest, BoundTypes

LEMMA TypeStep ==
  ASSUME TypeOK, HandInv, CountInv, [Next]_vars PROVE TypeOK' /\ HandInv' /\ CountInv'
<1>1. /\ RowTypes /\ StoreTypes /\ CallTypes /\ ScheduleTypes /\ WorkTypes /\ CleanTypes
      /\ CallHand /\ JobHand /\ CleanHand /\ DueHand
  BY TypeParts DEF HandInv
<1>2. RowTypes' /\ StoreTypes' /\ CallTypes' /\ ScheduleTypes' /\ WorkTypes' /\ CleanTypes' /\ BoundTypes'
  BY <1>1, UploadConstants, RowTypesStep, StoreTypesStep, CallTypesStep, ScheduleTypesStep, WorkTypesStep,
     CleanTypesStep, BoundTypesStep
<1>3. TypeOK'
  BY <1>2 DEF TypeOK, RowTypes, StoreTypes, CallTypes, ScheduleTypes, WorkTypes, CleanTypes, BoundTypes, Statuses
<1>4. HandInv'
  BY <1>1, UploadConstants, CallHandStep, JobHandStep, CleanHandStep, DueHandStep DEF HandInv
<1>5. QED
  BY <1>1, <1>3, <1>4, UploadConstants, CountStep

-----------------------------------------------------------------------------
(* Objects.                                                                *)

LEMMA CleanerStep ==
  ASSUME TypeOK, CleanerInv, [Next]_vars PROVE CleanerInv' /\ expired \subseteq expired'
<1>0. CleanTypes /\ StoreTypes
  BY TypeParts
<1>1. expired \subseteq expired'
  BY NextCases, CallFrame, ScheduleFrame, WorkFrame, CleanFrame
     DEF Outside, Presign, Put, Expire, BecomeDue, presignRest, callRest, workRest, jobRest, cleanRest, vars
<1>2. UNCHANGED cleanVars => CleanerInv'
  BY <1>1 DEF CleanerInv, cleanVars
<1>3. ASSUME NEW k \in Cleaners, CleanStep(k) PROVE CleanerInv'
  <2>1. CASE ListExpired(k)
    BY <1>0, <1>1, <2>1 DEF ListExpired, Cleanable, CleanerInv, CleanTypes
  <2>2. CASE NextExpired(k)
    BY <1>0, <1>1, <2>2 DEF NextExpired, CleanerInv, CleanTypes
  <2>3. CASE RemoveObject(k) \/ RemoveThumb(k) \/ DeleteRow(k) \/ StopCleaning(k)
    BY <1>0, <1>1, <2>3 DEF RemoveObject, RemoveThumb, DeleteRow, StopCleaning, CleanerInv, CleanTypes
  <2>4. QED
    BY <1>3, <2>1, <2>2, <2>3 DEF CleanStep, Clean
<1>4. QED
  BY <1>1, <1>2, <1>3, NextCases, OutsideFrame, CallFrame, ScheduleFrame, WorkFrame
     DEF vars, callRest, workRest, jobRest

\* Until a session expires, only its own upload puts an object, and what is in the
\* bucket stays.
LEMMA BucketFrame ==
  ASSUME TypeOK, HandInv, CleanerInv, [Next]_vars, NEW s \in Sessions, s \notin expired
  PROVE  /\ object'[s] = object[s] \/ Put(s)
         /\ s \in thumb => s \in thumb'
<1>0. StoreTypes /\ CleanTypes /\ CleanHand
  BY TypeParts DEF HandInv
<1>1. ASSUME NEW t \in Sessions, Outside(t) PROVE object'[s] = object[s] \/ Put(s)
  BY <1>0, <1>1 DEF Outside, Presign, Put, Expire, BecomeDue, presignRest, timeRest, storeVars, StoreTypes
<1>2. ASSUME NEW g \in Goroutines, WorkStep(g) PROVE s \in thumb => s \in thumb'
  <2>1. CASE Take(g) \/ LoadJob(g) \/ MarkProcessing(g) \/ Fetch(g) \/ Succeed(g) \/ Fail(g)
    BY <2>1 DEF Take, LoadJob, MarkProcessing, Fetch, Succeed, Fail, storeVars
  <2>2. CASE PutThumb(g) \/ BucketFault(g) \/ JobFault(g)
    BY <2>2 DEF PutThumb, BucketFault, JobFault, storeVars
  <2>3. QED
    BY <1>2, <2>1, <2>2 DEF WorkStep, Work
<1>3. ASSUME NEW k \in Cleaners, CleanStep(k) PROVE object'[s] = object[s] /\ (s \in thumb => s \in thumb')
  <2>1. kcur[k] # s
    BY UploadConstants DEF CleanerInv
  <2>2. CASE RemoveObject(k)
    BY <1>0, <2>1, <2>2 DEF RemoveObject, StoreTypes
  <2>3. CASE RemoveThumb(k)
    BY <2>1, <2>3 DEF RemoveThumb
  <2>4. CASE ListExpired(k) \/ NextExpired(k) \/ DeleteRow(k) \/ StopCleaning(k)
    BY <2>4 DEF ListExpired, NextExpired, DeleteRow, StopCleaning, storeVars
  <2>5. QED
    BY <1>3, <2>2, <2>3, <2>4 DEF CleanStep, Clean
<1>4. QED
  BY <1>1, <1>2, <1>3, NextCases, OutsideFrame, CallFrame, ScheduleFrame, WorkFrame
     DEF vars, callRest, storeVars

\* No step makes a row that was none, except PresignUpload.
LEMMA NoneFrame ==
  ASSUME TypeOK, HandInv, [Next]_vars, NEW s \in Sessions, status'[s] = "none"
  PROVE  status[s] = "none"
<1>0. /\ RowTypes /\ CallTypes /\ ScheduleTypes /\ WorkTypes /\ CleanTypes
      /\ CallHand /\ JobHand /\ CleanHand
  BY TypeParts DEF HandInv
<1>1. ASSUME NEW t \in Sessions, Outside(t) PROVE status[s] = "none"
  BY <1>0, <1>1 DEF Outside, Presign, Put, Expire, BecomeDue, timeRest, rowVars, RowTypes
<1>2. ASSUME NEW t \in Sessions, NEW att \in Nat, NEW next \in {"null", "later", "now"}, Writes(t, att, next)
      PROVE  status[s] = "none"
  BY <1>0, <1>2, WritesRow
<1>3. ASSUME NEW c \in Completers, CallStep(c) PROVE status[s] = "none"
  BY <1>0, <1>2, <1>3, CallWrites, UploadConstants DEF CallTypes, rowVars
<1>4. CASE ScheduleStep
  BY <1>0, <1>2, <1>4, ScheduleWrites DEF ScheduleTypes, rowVars
<1>5. ASSUME NEW g \in Goroutines, WorkStep(g) PROVE status[s] = "none"
  <2>1. images \subseteq Sessions /\ jatt[g] \in Nat
    BY <1>0 DEF RowTypes, WorkTypes
  <2>2. QED
    BY <1>0, <1>2, <1>5, <2>1, WorkWrites, UploadConstants DEF rowVars
<1>6. ASSUME NEW k \in Cleaners, CleanStep(k) PROVE status[s] = "none"
  BY <1>0, <1>6, CleanWrites, UploadConstants DEF RowTypes, rowVars
<1>7. QED
  BY <1>1, <1>3, <1>4, <1>5, <1>6, NextCases DEF vars, rowVars

LEMMA UrlStep ==
  ASSUME TypeOK, HandInv, UrlInv, [Next]_vars PROVE UrlInv'
<1>0. RowTypes /\ StoreTypes
  BY TypeParts
<1>1. ASSUME NEW s \in Sessions, Outside(s) PROVE UrlInv'
  <2>1. CASE Presign(s)
    BY <1>0, <2>1 DEF Presign, presignRest, storeVars, UrlInv, RowTypes
  <2>2. CASE Put(s)
    BY <1>0, <2>2 DEF Put, rowVars, UrlInv, StoreTypes
  <2>3. CASE Expire(s) \/ BecomeDue(s)
    BY <2>3 DEF Expire, BecomeDue, timeRest, storeVars, UrlInv
  <2>4. QED
    BY <1>1, <2>1, <2>2, <2>3 DEF Outside
<1>2. ASSUME UNCHANGED urls, \A s \in Sessions : object'[s] \in {object[s], "absent"} PROVE UrlInv'
  BY <1>2, NoneFrame DEF UrlInv
<1>3. ASSUME NEW k \in Cleaners, CleanStep(k) PROVE \A s \in Sessions : object'[s] \in {object[s], "absent"}
  <2>1. CASE RemoveObject(k)
    BY <1>0, <2>1 DEF RemoveObject, StoreTypes
  <2>2. CASE RemoveThumb(k) \/ ListExpired(k) \/ NextExpired(k) \/ DeleteRow(k) \/ StopCleaning(k)
    BY <2>2 DEF RemoveThumb, ListExpired, NextExpired, DeleteRow, StopCleaning, storeVars
  <2>3. QED
    BY <1>3, <2>1, <2>2 DEF CleanStep, Clean
<1>4. QED
  BY <1>1, <1>2, <1>3, NextCases, CallFrame, ScheduleFrame, WorkFrame, CleanFrame
     DEF vars, storeVars, callRest, workRest, jobRest, cleanRest

LEMMA SeenStep ==
  ASSUME TypeOK, HandInv, CleanerInv, UrlInv, SeenInv, [Next]_vars PROVE SeenInv'
<1>0. RowTypes /\ StoreTypes /\ CallTypes /\ CallHand
  BY TypeParts DEF HandInv
<1>1. ASSUME NEW s \in Sessions, s \notin expired', object[s] \in {"good", "undecodable"}
      PROVE  object'[s] = object[s]
  BY <1>1, BucketFrame, CleanerStep DEF Put, UrlInv
<1>2. ASSUME UNCHANGED callVars PROVE SeenInv'
  BY <1>0, <1>1, <1>2, CleanerStep DEF SeenInv, callVars, CallHand, CallTypes
<1>3. ASSUME NEW c \in Completers, CallStep(c) PROVE SeenInv'
  <2>1. UNCHANGED <<object, expired>>
    BY <1>3, CallFrame DEF callRest, storeVars
  <2>2. ASSUME Return(c) PROVE SeenInv'
    BY <1>0, <2>1, <2>2 DEF Return, SeenInv, CallTypes
  <2>3. ASSUME NEW where, Step(c, where),
               \/ where \notin {"uploaded", "lookup", "create", "finalize", "schedule"}
               \/ cpc[c] \in {"uploaded", "lookup", "create", "finalize", "schedule"}
               \/ object[csess[c]] \in {"good", "undecodable"}
        PROVE  SeenInv'
    BY <1>0, <2>1, <2>3 DEF Step, SeenInv, CallTypes
  <2>4. ASSUME NEW s \in Sessions, Load(c, s) PROVE SeenInv'
    BY <1>0, <2>1, <2>4 DEF Load, SeenInv, CallTypes
  <2>5. CASE Existing(c) \/ Stat(c) \/ GiveUp(c) \/ MarkUploaded(c)
    BY <2>2, <2>3, <2>5 DEF Existing, Stat, GiveUp, MarkUploaded
  <2>6. CASE Lookup(c) \/ CreateAttachment(c) \/ Finalize(c) \/ Schedule(c)
    BY <2>2, <2>3, <2>6 DEF Lookup, CreateAttachment, Finalize, Schedule
  <2>7. CASE CallFault(c)
    BY <1>0, <2>2, <2>3, <2>7 DEF CallFault, CallTypes
  <2>8. CASE CallCut(c)
    BY <2>2, <2>8 DEF CallCut
  <2>9. QED
    BY <1>3, <2>4, <2>5, <2>6, <2>7, <2>8 DEF CallStep, Call
<1>4. QED
  BY <1>2, <1>3, NextCases, OutsideFrame, ScheduleFrame, WorkFrame, CleanFrame
     DEF vars, workRest, jobRest, cleanRest

LEMMA ThumbStep ==
  ASSUME TypeOK, HandInv, CleanerInv, ThumbInv, [Next]_vars PROVE ThumbInv'
<1>0. RowTypes /\ WorkTypes /\ JobHand /\ ScheduleTypes
  BY TypeParts DEF HandInv
<1>1. ASSUME NEW s \in Sessions, s \in thumb \cup expired PROVE s \in thumb' \cup expired'
  BY <1>1, BucketFrame, CleanerStep
<1>2. ASSUME UNCHANGED workVars PROVE ThumbInv'
  BY <1>0, <1>1, <1>2 DEF ThumbInv, workVars, JobHand, WorkTypes, RowTypes
<1>3. CASE CrashWorker
  BY <1>3 DEF CrashWorker, ThumbInv
<1>4. CASE ScheduleStep /\ ~CrashWorker
  BY <1>2, <1>4 DEF ScheduleStep, Scheduler, ItemFault, StartWorker, ListStale, ListDue, Listed,
         Enqueue, NextPass, StaleImage, StaleOther, DueItem, Requeue
<1>5. ASSUME NEW g \in Goroutines, WorkStep(g) PROVE ThumbInv'
  <2>1. ASSUME NEW h \in Goroutines, h # g, wpc'[h] = "succeed" PROVE job'[h] \in thumb' \cup expired'
    <3>1. wpc'[h] = wpc[h] /\ job'[h] = job[h]
      BY <1>0, <1>5, <2>1 DEF WorkStep, Work, BucketFault, JobFault, Take, LoadJob, MarkProcessing, Fetch,
         PutThumb, Succeed, Fail, JobStep, JobDone, WorkTypes
    <3>2. QED
      BY <1>0, <1>1, <2>1, <3>1 DEF ThumbInv, JobHand, WorkTypes, RowTypes
  <2>2. ASSUME wpc'[g] = "succeed" PROVE job'[g] \in thumb' \cup expired'
    <3>1. PutThumb(g)
      BY <1>0, <1>5, <2>2 DEF WorkStep, Work, BucketFault, JobFault, Take, LoadJob, MarkProcessing, Fetch,
         PutThumb, Succeed, Fail, JobStep, JobDone, WorkTypes
    <3>2. QED
      BY <3>1 DEF PutThumb, JobStep
  <2>3. QED
    BY <2>1, <2>2 DEF ThumbInv
<1>6. QED
  BY <1>2, <1>3, <1>4, <1>5, NextCases, OutsideFrame, CallFrame, CleanFrame DEF vars, callRest, cleanRest

\* A session becomes READY by the goroutine that has its thumbnail, or is no image.
LEMMA ReadyBy ==
  ASSUME TypeOK, HandInv, [Next]_vars, NEW s \in Sessions, status'[s] = "READY", status[s] # "READY"
  PROVE  \/ s \notin images'
         \/ \E g \in Goroutines : job[g] = s /\ wpc[g] = "succeed"
<1>0. /\ RowTypes /\ CallTypes /\ ScheduleTypes /\ WorkTypes /\ CleanTypes
      /\ CallHand /\ JobHand /\ CleanHand
  BY TypeParts DEF HandInv
<1>1. ASSUME NEW t \in Sessions, NEW st \in Statuses \ {"none", "gone"}, NEW confirm \in BOOLEAN,
             NEW att \in Nat, NEW next \in {"null", "later", "now"}, SetStatus(t, st, confirm, att, next)
      PROVE  t = s /\ st = "READY"
  BY <1>0, <1>1, SetStatusRow
<1>2. ASSUME NEW t \in Sessions, Outside(t) PROVE FALSE
  BY <1>0, <1>2 DEF Outside, Presign, Put, Expire, BecomeDue, timeRest, rowVars, RowTypes
<1>3. ASSUME NEW c \in Completers, CallStep(c) PROVE FALSE
  <2>1. csess[c] \in Sessions \/ cpc[c] = "idle"
    BY <1>0 DEF CallHand, CallTypes
  <2>3. CASE GiveUp(c)
    BY <1>0, <2>1, <2>3 DEF GiveUp, SetStatus, rowVars, RowTypes
  <2>4. CASE MarkUploaded(c) \/ Finalize(c) \/ Schedule(c)
    BY <1>0, <2>1, <2>4 DEF MarkUploaded, Finalize, Schedule, SetStatus, rowVars, RowTypes
  <2>5. CASE Existing(c) \/ Stat(c) \/ Lookup(c) \/ CreateAttachment(c)
    BY <2>5 DEF Existing, Stat, Lookup, CreateAttachment, rowVars
  <2>6. CASE CallFault(c) \/ CallCut(c) \/ \E t \in Sessions : Load(c, t)
    BY <2>6 DEF CallFault, CallCut, Load, rowVars
  <2>7. QED
    BY <1>3, <2>3, <2>4, <2>5, <2>6 DEF CallStep, Call
<1>4. ASSUME ScheduleStep PROVE s \notin images'
  <2>1. UNCHANGED images
    BY <1>4, ScheduleFrame DEF workRest
  <2>2. ASSUME NEW t \in Sessions, StaleImage(t) \/ DueItem(t) PROVE FALSE
    BY <1>0, <2>2 DEF StaleImage, DueItem, Requeue, SetStatus, rowVars, RowTypes
  <2>3. ASSUME NEW t \in Sessions, StaleOther(t) PROVE s \notin images'
    BY <1>0, <1>1, <2>1, <2>3 DEF StaleOther, ScheduleTypes, Statuses
  <2>4. CASE UNCHANGED rowVars
    BY <2>4 DEF rowVars
  <2>5. QED
    BY <1>4, <2>2, <2>3, <2>4 DEF ScheduleStep, Scheduler, CrashWorker, ItemFault, StartWorker, ListStale,
       ListDue, Listed, Enqueue, NextPass
<1>5. ASSUME NEW g \in Goroutines, WorkStep(g) PROVE job[g] = s /\ wpc[g] = "succeed"
  <2>1. wpc[g] # "idle" => job[g] \in Sessions /\ jatt[g] \in Nat
    BY <1>0, UploadConstants DEF JobHand, WorkTypes, RowTypes
  <2>2. CASE Succeed(g)
    BY <1>1, <2>1, <2>2 DEF Succeed, Statuses
  <2>3. CASE Fail(g) \/ MarkProcessing(g)
    BY <1>0, <2>3 DEF Fail, ResultOfFailure, MarkProcessing, SetStatus, rowVars, RowTypes
  <2>4. CASE UNCHANGED rowVars
    BY <2>4 DEF rowVars
  <2>5. QED
    BY <1>5, <2>2, <2>3, <2>4 DEF WorkStep, Work, BucketFault, JobFault, Take, LoadJob, Fetch, PutThumb
<1>6. ASSUME NEW k \in Cleaners, CleanStep(k) PROVE FALSE
  BY <1>0, <1>6, CleanWrites, UploadConstants DEF RowTypes, rowVars
<1>7. QED
  BY <1>2, <1>3, <1>4, <1>5, <1>6, NextCases DEF vars, rowVars

LEMMA IntactStep ==
  ASSUME TypeOK, HandInv, ObjectInv, [Next]_vars PROVE IntactUntilExpiry'
<1>0. RowTypes /\ StoreTypes /\ CallTypes /\ CallHand
  BY TypeParts DEF HandInv
<1>1. SUFFICES ASSUME NEW s \in Sessions, s \notin expired'
               PROVE  /\ attachments'[s] > 0 => object'[s] \in {"good", "undecodable"}
                      /\ s \in images' /\ status'[s] = "READY" => s \in thumb'
  BY DEF IntactUntilExpiry
<1>2. s \notin expired
  BY <1>1, CleanerStep DEF ObjectInv
<1>3. ASSUME object[s] \in {"good", "undecodable"} PROVE object'[s] = object[s]
  BY <1>2, <1>3, BucketFrame DEF ObjectInv, UrlInv, Put
<1>4. ASSUME attachments'[s] > 0 PROVE object'[s] \in {"good", "undecodable"}
  <2>1. CASE attachments[s] > 0
    BY <1>2, <1>3, <2>1 DEF ObjectInv, IntactUntilExpiry
  <2>2. CASE ~(attachments[s] > 0)
    <3>1. PICK c \in Completers : CallStep(c)
      BY <1>4, <2>2, NextCases, OutsideFrame, ScheduleFrame, WorkFrame, CleanFrame
         DEF vars, workRest, jobRest, cleanRest
    <3>2. CreateAttachment(c)
      BY <1>4, <2>2, <3>1 DEF CallStep, Call, CallFault, CallCut, Load, Existing, Stat, GiveUp, MarkUploaded,
         Lookup, Finalize, Schedule
    <3>3. csess[c] = s /\ cpc[c] = "create"
      BY <1>0, <1>4, <2>2, <3>2 DEF CreateAttachment, CallTypes
    <3>4. object[s] \in {"good", "undecodable"}
      BY <1>2, <3>3 DEF ObjectInv, SeenInv
    <3>5. QED
      BY <1>3, <3>4
  <2>3. QED
    BY <2>1, <2>2
<1>5. ASSUME s \in images', status'[s] = "READY" PROVE s \in thumb'
  <2>1. s \in thumb => s \in thumb'
    BY <1>2, BucketFrame DEF ObjectInv
  <2>2. CASE status[s] # "READY"
    <3>1. PICK g \in Goroutines : job[g] = s /\ wpc[g] = "succeed"
      BY <1>5, <2>2, ReadyBy
    <3>2. QED
      BY <1>2, <2>1, <3>1 DEF ObjectInv, ThumbInv
  <2>3. CASE status[s] = "READY"
    <3>1. s \in images
      BY <1>0, <1>5, <2>3, NextCases, CallFrame, ScheduleFrame, WorkFrame, CleanFrame
         DEF Outside, Presign, Put, Expire, BecomeDue, timeRest, callRest, workRest, jobRest, cleanRest, vars
    <3>2. QED
      BY <1>2, <2>1, <2>3, <3>1 DEF ObjectInv, IntactUntilExpiry
  <2>4. QED
    BY <2>2, <2>3
<1>6. QED
  BY <1>4, <1>5

LEMMA ObjectStep ==
  ASSUME TypeOK, HandInv, ObjectInv, [Next]_vars PROVE ObjectInv'
BY CleanerStep, UrlStep, SeenStep, ThumbStep, IntactStep DEF ObjectInv

-----------------------------------------------------------------------------
(* One attachment.                                                         *)

LEMMA OnceStep ==
  ASSUME TypeOK, HandInv, OnceInv, [Next]_vars PROVE OnceInv'
<1>0. CallTypes /\ CallHand
  BY TypeParts DEF HandInv
<1>1. ASSUME UNCHANGED <<callVars, attachments, unsure>> PROVE OnceInv'
  BY <1>1 DEF OnceInv, callVars
<1>2. ASSUME NEW c \in Completers, CallStep(c) PROVE OnceInv'
  <2>1. ASSUME NEW s \in Sessions, Load(c, s) PROVE OnceInv'
    BY <1>0, <2>1 DEF Load, OnceInv, CallHand, CallTypes
  <2>2. ASSUME Return(c), UNCHANGED attachments, unsure \subseteq unsure' PROVE OnceInv'
    BY <1>0, <2>2, UploadConstants DEF Return, OnceInv, CallTypes
  <2>3. ASSUME NEW where, Step(c, where), UNCHANGED attachments, unsure \subseteq unsure',
               where = "create" => attachments[csess[c]] = 0 \/ csess[c] \in unsure'
        PROVE  OnceInv'
    BY <1>0, <2>3 DEF Step, OnceInv, CallTypes
  <2>4. CASE CreateAttachment(c)
    BY <1>0, <2>4 DEF CreateAttachment, Step, OnceInv, CallTypes, CallHand
  <2>5. CASE Lookup(c)
    <3>1. csess[c] \in Sessions
      BY <1>0, <2>5 DEF Lookup, CallHand, CallTypes
    <3>2. QED
      BY <1>0, <2>2, <2>3, <2>5, <3>1 DEF Lookup, HasAttachment, CallTypes
  <2>6. CASE Existing(c) \/ Stat(c) \/ GiveUp(c) \/ MarkUploaded(c) \/ Finalize(c) \/ Schedule(c)
    BY <2>2, <2>3, <2>6 DEF Existing, Stat, GiveUp, MarkUploaded, Finalize, Schedule
  <2>7. CASE CallFault(c)
    BY <1>0, <2>2, <2>3, <2>7 DEF CallFault, CallTypes
  <2>8. CASE CallCut(c)
    BY <2>2, <2>8 DEF CallCut
  <2>9. QED
    BY <1>2, <2>1, <2>4, <2>5, <2>6, <2>7, <2>8 DEF CallStep, Call
<1>3. QED
  BY <1>1, <1>2, NextCases, OutsideFrame, ScheduleFrame, WorkFrame, CleanFrame
     DEF vars, workRest, jobRest, cleanRest

-----------------------------------------------------------------------------
(* Jobs are accounted for.                                                 *)

LEMMA MadeStep ==
  ASSUME TypeOK, HandInv, MadeInv, [Next]_vars PROVE MadeInv'
<1>0. /\ RowTypes /\ CallTypes /\ ScheduleTypes /\ WorkTypes /\ CleanTypes
      /\ CallHand /\ JobHand /\ CleanHand
  BY TypeParts DEF HandInv
<1> DEFINE Made == \A c \in Completers : cpc[c] \in {"finalize", "schedule"} => attachments[csess[c]] > 0
           GoneNotDue == \A s \in Sessions : status[s] = "gone" => due[s] = "null"
<1>1. UNCHANGED <<callVars, attachments>> => Made'
  BY DEF MadeInv, callVars
<1>2. UNCHANGED rowVars => GoneNotDue'
  BY DEF MadeInv, rowVars
<1>3. ASSUME NEW s \in Sessions, NEW att \in Nat, NEW next \in {"null", "later", "now"}, Writes(s, att, next)
      PROVE  GoneNotDue'
  <2>1. PICK st \in Statuses \ {"none", "gone"}, confirm \in BOOLEAN : SetStatus(s, st, confirm, att, next)
    BY <1>3 DEF Writes
  <2>2. CASE status[s] = "gone"
    BY <2>1, <2>2 DEF SetStatus, MadeInv, rowVars
  <2>3. CASE status[s] # "gone"
    BY <1>0, <2>1, <2>3 DEF SetStatus, MadeInv, RowTypes
  <2>4. QED
    BY <2>2, <2>3
<1>4. ASSUME NEW s \in Sessions, Outside(s) PROVE GoneNotDue'
  BY <1>0, <1>4 DEF Outside, Presign, Put, Expire, BecomeDue, presignRest, timeRest, rowVars, RowTypes, MadeInv
<1>5. ASSUME NEW c \in Completers, CallStep(c) PROVE Made' /\ GoneNotDue'
  <2>1. catt[c] \in Nat
    BY <1>0 DEF CallTypes
  <2>2. GoneNotDue'
    BY <1>0, <1>2, <1>3, <1>5, <2>1, CallWrites, UploadConstants
  <2>3. ASSUME CreateAttachment(c) PROVE Made'
    <3>1. \A d \in Completers : cpc[d] # "idle" => csess[d] \in Sessions /\ attachments[csess[d]] \in Nat
      BY <1>0, UploadConstants DEF CallHand, CallTypes
    <3>2. QED
      BY <1>0, <2>3, <3>1 DEF CreateAttachment, Step, CallTypes, MadeInv
  <2>4. ASSUME NEW s \in Sessions, Load(c, s) PROVE Made'
    BY <1>0, <2>4 DEF Load, CallTypes, MadeInv
  <2>5. ASSUME UNCHANGED attachments, Return(c) PROVE Made'
    BY <1>0, <2>5 DEF Return, CallTypes, MadeInv
  <2>6. ASSUME UNCHANGED attachments, NEW where, Step(c, where),
               where \in {"finalize", "schedule"} => cpc[c] = "finalize"
        PROVE  Made'
    BY <1>0, <2>6 DEF Step, CallTypes, MadeInv
  <2>7. ASSUME Existing(c) \/ Stat(c) \/ GiveUp(c) \/ MarkUploaded(c) PROVE Made'
    BY <2>5, <2>6, <2>7 DEF Existing, Stat, GiveUp, MarkUploaded
  <2>8. ASSUME Lookup(c) \/ Finalize(c) \/ Schedule(c) PROVE Made'
    BY <2>5, <2>6, <2>8 DEF Lookup, Finalize, Schedule
  <2>9. ASSUME CallFault(c) \/ CallCut(c) PROVE Made'
    BY <1>0, <2>5, <2>6, <2>9 DEF CallFault, CallCut, CallTypes
  <2>10. Made'
    BY <1>5, <2>3, <2>4, <2>7, <2>8, <2>9 DEF CallStep, Call
  <2>11. QED
    BY <2>2, <2>10
<1>6. CASE ScheduleStep
  <2>1. \A s \in Sessions : satt[s] \in Nat
    BY <1>0 DEF ScheduleTypes
  <2>2. QED
    BY <1>1, <1>2, <1>3, <1>6, <2>1, ScheduleFrame, ScheduleWrites DEF workRest, MadeInv
<1>7. ASSUME NEW g \in Goroutines, WorkStep(g) PROVE Made' /\ GoneNotDue'
  <2>1. jatt[g] \in Nat /\ images \subseteq Sessions
    BY <1>0 DEF WorkTypes, RowTypes
  <2>2. QED
    BY <1>0, <1>1, <1>2, <1>3, <1>7, <2>1, WorkFrame, WorkWrites, UploadConstants DEF workRest, jobRest
<1>8. ASSUME NEW k \in Cleaners, CleanStep(k) PROVE GoneNotDue'
  BY <1>0, <1>2, <1>8, CleanWrites, UploadConstants DEF RowTypes, MadeInv
<1>9. QED
  BY <1>1, <1>2, <1>4, <1>5, <1>6, <1>7, <1>8, NextCases, OutsideFrame, CleanFrame DEF MadeInv, vars, cleanRest

\* Appending to the queue, and taking its first session.
LEMMA AppendIn ==
  ASSUME NEW S, NEW q \in Seq(S), NEW x \in S, NEW s
  PROVE  (\E i \in 1..Len(Append(q, x)) : Append(q, x)[i] = s) <=> (x = s \/ \E i \in 1..Len(q) : q[i] = s)
<1>1. /\ Len(Append(q, x)) = Len(q) + 1 /\ Len(q) \in Nat
      /\ \A i \in 1..Len(q) : Append(q, x)[i] = q[i]
      /\ Append(q, x)[Len(q) + 1] = x
  OBVIOUS
<1>2. 1..(Len(q) + 1) = 1..Len(q) \cup {Len(q) + 1}
  BY <1>1
<1>3. QED
  BY <1>1, <1>2

LEMMA TailIn ==
  ASSUME NEW S, NEW q \in Seq(S), q # <<>>, NEW s
  PROVE  (\E i \in 1..Len(q) : q[i] = s) <=> (Head(q) = s \/ \E i \in 1..Len(Tail(q)) : Tail(q)[i] = s)
<1>1. /\ Len(Tail(q)) = Len(q) - 1 /\ Len(q) \in Nat \ {0}
      /\ Head(q) = q[1]
      /\ \A i \in 1..(Len(q) - 1) : Tail(q)[i] = q[i + 1]
  OBVIOUS
<1>2. ASSUME NEW i \in 1..Len(q), q[i] = s, i # 1 PROVE \E j \in 1..Len(Tail(q)) : Tail(q)[j] = s
  <2>1. i - 1 \in 1..Len(Tail(q)) /\ Tail(q)[i - 1] = q[i]
    BY <1>1, <1>2
  <2>2. QED
    BY <1>2, <2>1
<1>3. ASSUME NEW j \in 1..Len(Tail(q)), Tail(q)[j] = s PROVE \E i \in 1..Len(q) : q[i] = s
  <2>1. j + 1 \in 1..Len(q) /\ Tail(q)[j] = q[j + 1]
    BY <1>1
  <2>2. QED
    BY <1>3, <2>1
<1>4. 1 \in 1..Len(q)
  BY <1>1
<1>5. QED
  BY <1>1, <1>2, <1>3, <1>4

\* A step of a goroutine takes the first session of the queue, or ends or keeps its job.
LEMMA WorkJobs ==
  ASSUME TypeOK, HandInv, NEW g \in Goroutines, WorkStep(g)
  PROVE  /\ \A h \in Goroutines \ {g} : UNCHANGED <<job[h], wpc[h], jatt[h]>>
         /\ \/ Take(g)
            \/ UNCHANGED queue /\ wpc[g] # "idle" /\ UNCHANGED job[g]
            \/ UNCHANGED queue /\ wpc[g] # "idle" /\ job'[g] = None
<1>0. WorkTypes /\ JobHand
  BY TypeParts DEF HandInv
<1>1. CASE Take(g)
  BY <1>0, <1>1 DEF Take, WorkTypes
<1>2. CASE LoadJob(g)
  BY <1>0, <1>2 DEF LoadJob, JobDone, WorkTypes
<1>3. CASE MarkProcessing(g) \/ Fetch(g) \/ PutThumb(g) \/ BucketFault(g)
  BY <1>0, <1>3 DEF MarkProcessing, Fetch, PutThumb, BucketFault, JobStep, WorkTypes
<1>4. CASE Succeed(g) \/ Fail(g) \/ JobFault(g)
  BY <1>0, <1>4 DEF Succeed, Fail, JobFault, JobDone, WorkTypes
<1>5. QED
  BY <1>1, <1>2, <1>3, <1>4 DEF WorkStep, Work

LEMMA ScheduledParts == \A s : Scheduled(s) <=> pending = s \/ InQueue(s) \/ \E g \in Goroutines : job[g] = s
BY DEF Scheduled, InQueue

\* The queue hands a session from the scheduler to a goroutine.
LEMMA EnqueueMoves ==
  ASSUME TypeOK, Enqueue, NEW s
  PROVE  InQueue(s)' <=> (InQueue(s) \/ pending = s)
<1>1. queue \in Seq(images) /\ pending \in images /\ queue' = Append(queue, pending)
  BY DEF TypeOK, Enqueue
<1>2. QED
  BY <1>1, AppendIn DEF InQueue

LEMMA TakeMoves ==
  ASSUME TypeOK, NEW g \in Goroutines, Take(g), NEW s
  PROVE  /\ InQueue(s) <=> (Head(queue) = s \/ InQueue(s)')
         /\ job'[g] = Head(queue) /\ wpc'[g] = "load"
<1>1. queue \in Seq(images) /\ queue # <<>> /\ queue' = Tail(queue)
  BY DEF TypeOK, Take
<1>2. job'[g] = Head(queue) /\ wpc'[g] = "load"
  BY DEF TypeOK, Take
<1>3. (\E i \in 1..Len(queue) : queue[i] = s)
        <=> (Head(queue) = s \/ \E i \in 1..Len(Tail(queue)) : Tail(queue)[i] = s)
  BY <1>1, TailIn
<1>4. QED
  BY <1>1, <1>2, <1>3 DEF InQueue

\* A job of s stays where it is, moves on, or is lost with the worker, ...
LEMMA ScheduleKeeps ==
  ASSUME TypeOK, HandInv, ScheduleStep, NEW s \in Sessions, Scheduled(s)
  PROVE  Scheduled(s)' \/ s \in rescheduled'
<1>0. ScheduleTypes /\ WorkTypes
  BY TypeParts
<1>9. ASSUME UNCHANGED <<pending, queue, job>> PROVE Scheduled(s)'
  BY <1>9 DEF Scheduled
<1>1. CASE CrashWorker
  <2>1. s \in images
    BY <1>0, UploadConstants DEF Scheduled, ScheduleTypes, WorkTypes
  <2>2. QED
    BY <1>1, <2>1 DEF CrashWorker
<1>2. CASE Enqueue
  <2>1. UNCHANGED job
    BY <1>2 DEF Enqueue, workVars
  <2>2. QED
    BY <1>2, <2>1, EnqueueMoves, ScheduledParts DEF Scheduled, InQueue
<1>3. ASSUME NEW t \in Sessions, StaleImage(t) \/ DueItem(t) PROVE Scheduled(s)'
  BY <1>3, UploadConstants DEF StaleImage, DueItem, Requeue, workVars, Scheduled
<1>4. ASSUME NEW t \in Sessions, StaleOther(t) \/ ItemFault(t) PROVE Scheduled(s)'
  BY <1>9, <1>4 DEF StaleOther, ItemFault, workVars
<1>5. CASE StartWorker \/ ListStale \/ ListDue \/ NextPass
  BY <1>9, <1>5 DEF StartWorker, ListStale, ListDue, Listed, NextPass, workVars
<1>6. QED
  BY <1>1, <1>2, <1>3, <1>4, <1>5 DEF ScheduleStep, Scheduler

\* ... until it ends with its result, with its row, or by an accident.
LEMMA WorkKeeps ==
  ASSUME TypeOK, HandInv, NEW g \in Goroutines, WorkStep(g), NEW s \in Sessions, Scheduled(s)
  PROVE  \/ Scheduled(s)'
         \/ s \in rescheduled'
         \/ job[g] = s /\ (Succeed(g) \/ Fail(g) \/ (LoadJob(g) /\ status[s] = "gone"))
<1>0. WorkTypes /\ JobHand
  BY TypeParts DEF HandInv
<1>1. UNCHANGED pending /\ \A h \in Goroutines \ {g} : UNCHANGED job[h]
  BY WorkFrame, WorkJobs DEF jobRest, schedVars
<1>2. CASE Take(g)
  <2>1. job[g] = None
    BY <1>0, <1>2 DEF Take, JobHand
  <2>2. InQueue(s) => job'[g] = s \/ InQueue(s)'
    BY <1>2, TakeMoves
  <2>3. s # None
    BY UploadConstants
  <2>4. CASE pending = s \/ \E h \in Goroutines : job[h] = s
    BY <1>1, <2>1, <2>3, <2>4 DEF Scheduled
  <2>5. CASE InQueue(s)
    BY <2>2, <2>5 DEF Scheduled, InQueue
  <2>6. QED
    BY <2>4, <2>5 DEF Scheduled, InQueue
<1>3. CASE ~Take(g) /\ job[g] # s
  <2>1. UNCHANGED queue
    BY <1>3, WorkJobs
  <2>2. QED
    BY <1>1, <1>3, <2>1 DEF Scheduled
<1>4. CASE ~Take(g) /\ job[g] = s
  <2>1. UNCHANGED job[g] => Scheduled(s)'
    BY <1>4 DEF Scheduled
  <2>2. CASE LoadJob(g)
    BY <1>4, <2>1, <2>2 DEF LoadJob
  <2>3. CASE JobFault(g)
    BY <1>4, <2>3 DEF JobFault
  <2>4. CASE MarkProcessing(g) \/ Fetch(g) \/ PutThumb(g) \/ BucketFault(g)
    BY <2>1, <2>4 DEF MarkProcessing, Fetch, PutThumb, BucketFault, JobStep
  <2>5. QED
    BY <1>4, <2>2, <2>3, <2>4 DEF WorkStep, Work
<1>5. QED
  BY <1>2, <1>3, <1>4

LEMMA JobsStep ==
  ASSUME TypeOK, HandInv, JobsInv, [Next]_vars PROVE JobsInv'
<1>0. /\ RowTypes /\ CallTypes /\ ScheduleTypes /\ WorkTypes /\ CleanTypes
      /\ CallHand /\ JobHand /\ CleanHand
  BY TypeParts DEF HandInv
<1> SUFFICES ASSUME NEW s \in Sessions, Owed(s)' PROVE Kept(s)'
  BY DEF JobsInv
<1>1. status'[s] \in {"UPLOADED", "PROCESSING"} /\ s \in images'
  BY DEF Owed
<1>2. ASSUME NEW t \in Sessions, Outside(t) PROVE Kept(s)'
  <2>1. /\ UNCHANGED <<attachments, callVars, pending, queue, job, rescheduled>>
        /\ due'[s] = "null" => due[s] = "null"
        /\ status'[s] = status[s] /\ (s \in images' => s \in images)
    BY <1>0, <1>1, <1>2, OutsideFrame DEF Outside, Presign, Put, Expire, BecomeDue, presignRest, timeRest,
       rowVars, schedVars, workVars, RowTypes
  <2>2. Owed(s)
    BY <1>1, <2>1 DEF Owed, callVars
  <2>3. QED
    BY <2>1, <2>2 DEF JobsInv, Kept, Scheduled
<1>3. ASSUME NEW c \in Completers, CallStep(c) PROVE Kept(s)'
  <2>1. UNCHANGED <<images, pending, queue, job>> /\ rescheduled \subseteq rescheduled'
    BY <1>3, CallFrame DEF callRest, schedVars, workVars, CallStep, Call, CallFault, CallCut, Load, Existing, Stat,
       GiveUp, MarkUploaded, Lookup, CreateAttachment, Finalize, Schedule
  <2>2. ASSUME Owed(s), due'[s] = due[s] PROVE Kept(s)'
    BY <2>1, <2>2 DEF JobsInv, Kept, Scheduled
  <2>3. ASSUME NEW t \in Sessions, Load(c, t) PROVE Kept(s)'
    <3>1. Owed(s) /\ due'[s] = due[s]
      BY <1>0, <2>3 DEF Load, Owed, rowVars, callRest, CallTypes, CallHand
    <3>2. QED
      BY <2>2, <3>1
  <2>4. CASE ~(\E t \in Sessions : Load(c, t)) /\ csess[c] # s
    <3>1. UNCHANGED attachments[s] /\ \A d \in Completers : csess'[d] = s <=> csess[d] = s
      BY <1>0, <1>3, <2>4, UploadConstants DEF CallStep, Call, CallFault, CallCut, Existing, Stat, GiveUp,
         MarkUploaded, Lookup, CreateAttachment, Finalize, Schedule, Step, Return, CallTypes
    <3>2. \A d \in Completers \ {c} : UNCHANGED cpc[d]
      BY <1>0, <1>3, <2>4 DEF CallStep, Call, CallFault, CallCut, Existing, Stat, GiveUp,
         MarkUploaded, Lookup, CreateAttachment, Finalize, Schedule, Step, Return, CallTypes
    <3>3. UNCHANGED <<status[s], due[s]>>
      <4>1. catt[c] \in Nat
        BY <1>0 DEF CallTypes
      <4>2. QED
        BY <1>0, <1>3, <2>4, <4>1, CallWrites, WritesRow, UploadConstants DEF rowVars
    <3>4. Owed(s)
      BY <2>1, <2>4, <3>1, <3>2, <3>3 DEF Owed
    <3>5. QED
      BY <2>2, <3>3, <3>4
  <2>5. CASE csess[c] = s /\ (Existing(c) \/ Stat(c))
    <3>1. UNCHANGED <<attachments, rowVars>> /\ cpc[c] \in {"existing", "stat"}
      BY <2>5 DEF Existing, Stat
    <3>2. \A d \in Completers \ {c} : UNCHANGED <<cpc[d], csess[d]>>
      BY <1>0, <2>5 DEF Existing, Stat, Step, Return, CallTypes
    <3>3. Owed(s)
      BY <2>1, <3>1, <3>2 DEF Owed, rowVars
    <3>4. QED
      BY <2>2, <3>1, <3>3 DEF rowVars
  <2>6. CASE csess[c] = s /\ GiveUp(c)
    BY <1>0, <1>1, <2>6 DEF GiveUp, SetStatus, rowVars, RowTypes
  <2>7. CASE csess[c] = s /\ (MarkUploaded(c) \/ CreateAttachment(c))
    BY <1>0, <2>7 DEF MarkUploaded, CreateAttachment, Step, CallTypes, Owed
  <2>8. CASE csess[c] = s /\ Lookup(c)
    BY <1>0, <2>8 DEF Lookup, Step, CallTypes, Owed, Kept
  <2>9. CASE csess[c] = s /\ Finalize(c)
    BY <1>0, <1>1, <2>1, <2>9 DEF Finalize, Step, CallTypes, Owed
  <2>10. CASE csess[c] = s /\ Schedule(c)
    BY <1>0, <1>1, <2>10 DEF Schedule, SetStatus, DueAtOnce, rowVars, RowTypes, Kept
  <2>11. CASE csess[c] = s /\ (CallFault(c) \/ CallCut(c))
    BY <2>11 DEF CallFault, CallCut, Kept
  <2>12. QED
    BY <1>3, <2>3, <2>4, <2>5, <2>6, <2>7, <2>8, <2>9, <2>10, <2>11 DEF CallStep, Call
<1>4. CASE ScheduleStep
  <2>1. UNCHANGED <<images, attachments, callVars>> /\ rescheduled \subseteq rescheduled'
    BY <1>4, ScheduleFrame DEF workRest, ScheduleStep, Scheduler, CrashWorker, ItemFault, StartWorker, ListStale,
       ListDue, Listed, Enqueue, NextPass, StaleImage, StaleOther, DueItem, Requeue
  <2>2. ASSUME NEW t \in Sessions, StaleImage(t) \/ DueItem(t), t = s PROVE Kept(s)'
    BY <2>2 DEF StaleImage, DueItem, Requeue, Kept, Scheduled
  <2>3. ASSUME UNCHANGED <<status[s], due[s]>> PROVE Kept(s)'
    <3>1. Owed(s)
      BY <2>1, <2>3 DEF Owed, callVars
    <3>2. QED
      BY <1>4, <2>1, <2>3, <3>1, ScheduleKeeps DEF JobsInv, Kept
  <2>4. ASSUME NEW t \in Sessions, StaleImage(t) \/ DueItem(t) \/ StaleOther(t), t # s PROVE Kept(s)'
    BY <1>0, <2>3, <2>4 DEF StaleImage, DueItem, StaleOther, Requeue, SetStatus, rowVars, RowTypes
  <2>5. ASSUME NEW t \in Sessions, StaleOther(t), t = s PROVE FALSE
    BY <1>1, <2>1, <2>5 DEF StaleOther
  <2>6. CASE UNCHANGED rowVars
    BY <2>3, <2>6 DEF rowVars
  <2>7. QED
    BY <1>4, <2>2, <2>4, <2>5, <2>6 DEF ScheduleStep, Scheduler, CrashWorker, ItemFault, StartWorker, ListStale,
       ListDue, Listed, Enqueue, NextPass
<1>5. ASSUME NEW g \in Goroutines, WorkStep(g) PROVE Kept(s)'
  <2>1. /\ UNCHANGED <<images, attachments, callVars>> /\ rescheduled \subseteq rescheduled'
    BY <1>5, WorkFrame DEF workRest, jobRest, WorkStep, Work, BucketFault, JobFault, Take, LoadJob, MarkProcessing,
       Fetch, PutThumb, Succeed, Fail
  <2>2. ASSUME UNCHANGED <<status[s], due[s]>>, ~(job[g] = s /\ (Succeed(g) \/ Fail(g))) PROVE Kept(s)'
    <3>1. Owed(s)
      BY <2>1, <2>2 DEF Owed, callVars
    <3>2. QED
      BY <1>1, <1>5, <2>1, <2>2, <3>1, WorkKeeps DEF JobsInv, Kept, Owed
  <2>3. CASE UNCHANGED rowVars /\ ~Succeed(g) /\ ~Fail(g)
    BY <2>2, <2>3 DEF rowVars
  <2>4. ASSUME MarkProcessing(g) \/ Succeed(g) \/ Fail(g), job[g] # s PROVE Kept(s)'
    <3>1. UNCHANGED <<status[s], due[s]>>
      BY <1>0, <2>4 DEF MarkProcessing, Succeed, Fail, ResultOfFailure, SetStatus, rowVars, RowTypes
    <3>2. QED
      BY <2>2, <2>4, <3>1
  <2>5. ASSUME MarkProcessing(g), job[g] = s PROVE Kept(s)'
    BY <2>5 DEF MarkProcessing, JobStep, Kept, Scheduled
  <2>6. ASSUME Succeed(g), job[g] = s PROVE FALSE
    BY <1>0, <1>1, <2>6 DEF Succeed, SetStatus, rowVars, RowTypes
  <2>7. ASSUME Fail(g), job[g] = s PROVE Kept(s)'
    BY <1>0, <1>1, <2>7 DEF Fail, ResultOfFailure, SetStatus, rowVars, RowTypes, Kept
  <2>8. QED
    BY <1>5, <2>3, <2>4, <2>5, <2>6, <2>7 DEF WorkStep, Work, BucketFault, JobFault, Take, LoadJob, Fetch, PutThumb
<1>6. ASSUME NEW k \in Cleaners, CleanStep(k) PROVE Kept(s)'
  <2>1. UNCHANGED <<images, attachments, callVars, pending, queue, job, rescheduled>>
    BY <1>6, CleanFrame DEF cleanRest, schedVars, workVars
  <2>2. UNCHANGED <<status[s], due[s]>>
    BY <1>0, <1>1, <1>6, CleanWrites, UploadConstants DEF rowVars, RowTypes
  <2>3. QED
    BY <2>1, <2>2 DEF JobsInv, Owed, Kept, Scheduled, callVars
<1>7. CASE UNCHANGED vars
  BY <1>7 DEF vars, rowVars, callVars, schedVars, workVars, JobsInv, Owed, Kept, Scheduled
<1>8. QED
  BY <1>2, <1>3, <1>4, <1>5, <1>6, <1>7, NextCases

-----------------------------------------------------------------------------
(* Attempts.                                                               *)

\* The accidents are on record.
LEMMA SureBefore ==
  ASSUME [Next]_vars, NEW s, Sure(s)' PROVE Sure(s)
<1>1. unsure \subseteq unsure' /\ rescheduled \subseteq rescheduled'
  <2>1. ASSUME NEW c \in Completers, CallStep(c) PROVE unsure \subseteq unsure' /\ rescheduled \subseteq rescheduled'
    BY <2>1 DEF CallStep, Call, CallFault, CallCut, Load, Existing, Stat, GiveUp, MarkUploaded, Lookup,
                CreateAttachment, Finalize, Schedule
  <2>2. CASE ScheduleStep
    BY <2>2 DEF ScheduleStep, Scheduler, CrashWorker, ItemFault, StartWorker, ListStale, ListDue, Listed,
                Enqueue, NextPass, StaleImage, StaleOther, DueItem, Requeue, workRest
  <2>3. ASSUME NEW g \in Goroutines, WorkStep(g) PROVE unsure \subseteq unsure' /\ rescheduled \subseteq rescheduled'
    BY <2>3, WorkFrame DEF jobRest, workRest, WorkStep, Work, BucketFault, JobFault, Take, LoadJob,
                MarkProcessing, Fetch, PutThumb, Succeed, Fail
  <2>4. QED
    BY <2>1, <2>2, <2>3, NextCases, OutsideFrame, CleanFrame DEF vars, cleanRest
<1>2. QED
  BY <1>1 DEF Sure

\* A step that leaves the row's count, the copies and the jobs of s alone.
LEMMA AttemptSame ==
  ASSUME NEW s \in Sessions, Attempt(s),
         UNCHANGED <<attempts, attachments, callVars, schedVars, queue, workVars>>,
         due[s] = "null" => due'[s] = "null", s \in images => s \in images'
  PROVE  Attempt(s)'
<1>1. OneJob(s)' /\ CallCopy(s)' /\ ListCopy(s)' /\ JobCopy(s)'
  BY DEF Attempt, OneJob, InQueue, CallCopy, ListCopy, Listing, Scheduled, JobCopy, callVars, schedVars, workVars
<1>2. RowCount(s)'
  BY DEF Attempt, RowCount, Waiting, InQueue, Unscheduled, Scheduled, Listing, callVars, schedVars, workVars
<1>3. QED
  BY <1>1, <1>2 DEF Attempt

LEMMA AttemptOutside ==
  ASSUME TypeOK, NEW s \in Sessions, Attempt(s), NEW t \in Sessions, Outside(t) PROVE Attempt(s)'
<1>1. RowTypes
  BY TypeParts
<1>2. due[s] = "null" => due'[s] = "null"
  BY <1>1 DEF Outside, Presign, Put, Expire, BecomeDue, presignRest, timeRest, rowVars, RowTypes
<1>3. images \subseteq images'
  BY DEF Outside, Presign, Put, Expire, BecomeDue, timeRest
<1>4. QED
  BY <1>2, <1>3, OutsideFrame, AttemptSame

LEMMA AttemptClean ==
  ASSUME TypeOK, HandInv, NEW s \in Sessions, Attempt(s), NEW k \in Cleaners, CleanStep(k) PROVE Attempt(s)'
<1>1. RowTypes /\ CleanTypes /\ CleanHand
  BY TypeParts DEF HandInv
<1>2. due[s] = "null" => due'[s] = "null"
  BY <1>1, CleanWrites, UploadConstants DEF rowVars, RowTypes
<1>3. QED
  BY <1>2, CleanFrame, AttemptSame DEF cleanRest

\* A call changes its own variables only, and starts, ends or goes on with its session.
LEMMA CallMoves ==
  ASSUME CallTypes, UploadConstants, NEW c \in Completers, CallStep(c)
  PROVE  /\ \A d \in Completers \ {c} : UNCHANGED <<cpc[d], csess[d], catt[d]>>
         /\ \/ \E s \in Sessions : Load(c, s)
            \/ csess'[c] = None /\ cpc'[c] = "idle"
            \/ UNCHANGED <<csess[c], catt[c]>> /\ cpc[c] # "idle"
         /\ \A s \in Sessions : attachments[s] > 0 => attachments'[s] > 0
<1>1. ASSUME NEW s \in Sessions, Load(c, s)
      PROVE  UNCHANGED attachments /\ \A d \in Completers \ {c} : UNCHANGED <<cpc[d], csess[d], catt[d]>>
  BY <1>1 DEF Load, CallTypes
<1>2. ASSUME Return(c)
      PROVE  /\ \A d \in Completers \ {c} : UNCHANGED <<cpc[d], csess[d], catt[d]>>
             /\ csess'[c] = None /\ cpc'[c] = "idle"
  BY <1>2 DEF Return, CallTypes
<1>3. ASSUME NEW where, Step(c, where)
      PROVE  /\ \A d \in Completers \ {c} : UNCHANGED <<cpc[d], csess[d], catt[d]>>
             /\ UNCHANGED <<csess[c], catt[c]>>
  BY <1>3 DEF Step, CallTypes
<1>4. CASE Existing(c) \/ Stat(c) \/ GiveUp(c) \/ MarkUploaded(c) \/ Lookup(c)
  BY <1>2, <1>3, <1>4 DEF Existing, Stat, GiveUp, MarkUploaded, Lookup
<1>5. CASE Finalize(c) \/ Schedule(c) \/ CallCut(c)
  BY <1>2, <1>3, <1>5 DEF Finalize, Schedule, CallCut
<1>6. CASE CallFault(c)
  BY <1>2, <1>3, <1>6 DEF CallFault, CallTypes
<1>7. CASE CreateAttachment(c)
  <2>1. \A s \in Sessions : attachments[s] > 0 => attachments'[s] > 0
    BY <1>7 DEF CreateAttachment, CallTypes, UploadConstants
  <2>2. QED
    BY <1>3, <1>7, <2>1 DEF CreateAttachment
<1>8. QED
  BY <1>1, <1>4, <1>5, <1>6, <1>7 DEF CallStep, Call

LEMMA AttemptCall ==
  ASSUME TypeOK, HandInv, OnceInv, MadeInv, NEW s \in Sessions, Sure(s), Attempt(s),
         NEW c \in Completers, CallStep(c), Sure(s)'
  PROVE  Attempt(s)'
<1>0. RowTypes /\ CallTypes /\ CallHand /\ catt[c] \in Nat
  BY TypeParts DEF HandInv, CallTypes
<1>1. UNCHANGED <<images, schedVars, queue, workVars>>
  BY CallFrame DEF callRest
<1>2. /\ Scheduled(s)' <=> Scheduled(s)
      /\ Waiting(s)' <=> Waiting(s)
      /\ Listing(s)' <=> Listing(s)
      /\ OneJob(s)'
  BY <1>1 DEF Attempt, Scheduled, Waiting, InQueue, Listing, OneJob, schedVars, workVars
<1>3. ASSUME Unscheduled(s)' PROVE Unscheduled(s)
  <2>1. CASE attachments[s] # 0
    <3>1. attachments'[s] # 0
      <4>1. attachments[s] > 0
        BY <1>0, <2>1, UploadConstants DEF CallTypes
      <4>2. QED
        BY <1>0, <4>1, CallMoves, UploadConstants
    <3>2. PICK d \in Completers : csess'[d] = s /\ cpc'[d] \in {"finalize", "schedule"}
      BY <1>3, <3>1 DEF Unscheduled
    <3>3. CASE d # c
      <4>1. csess'[d] = csess[d] /\ cpc'[d] = cpc[d]
        BY <1>0, <3>3, CallMoves, UploadConstants
      <4>2. QED
        BY <3>2, <4>1 DEF Unscheduled
    <3>4. CASE d = c
      <4>1. csess[c] = s /\ (CreateAttachment(c) \/ Finalize(c))
        BY <1>0, <3>2, <3>4 DEF CallStep, Call, CallFault, CallCut, Load, Existing, Stat, GiveUp, MarkUploaded, Lookup,
                CreateAttachment, Finalize, Schedule, Step, Return, CallTypes
      <4>2. ~CreateAttachment(c)
        BY <2>1, <4>1 DEF CreateAttachment, OnceInv, Sure
      <4>3. QED
        BY <4>1, <4>2 DEF Finalize, Unscheduled
    <3>5. QED
      BY <3>3, <3>4
  <2>2. QED
    BY <2>1 DEF Unscheduled
<1>4. CASE csess[c] # s
  <2>1. UNCHANGED <<attempts[s], due[s]>>
    BY <1>0, <1>4, CallWrites, WritesRow, UploadConstants DEF rowVars
  <2>2. CallCopy(s)'
    <3>1. \A d \in Completers \ {c} : UNCHANGED <<csess[d], catt[d]>>
      BY <1>0, CallMoves, UploadConstants
    <3>2. ASSUME csess'[c] = s PROVE catt'[c] = attempts[s]
      <4>1. PICK t \in Sessions : Load(c, t)
        BY <1>0, <1>4, <3>2, CallMoves, UploadConstants
      <4>2. QED
        BY <1>0, <3>2, <4>1 DEF Load, CallTypes
    <3>3. QED
      BY <1>0, <2>1, <3>1, <3>2 DEF Attempt, CallCopy, RowTypes
  <2>3. RowCount(s)' /\ ListCopy(s)' /\ JobCopy(s)'
    BY <1>1, <1>2, <1>3, <2>1 DEF Attempt, RowCount, ListCopy, JobCopy, schedVars, workVars
  <2>4. QED
    BY <1>2, <2>2, <2>3 DEF Attempt
<1>5. CASE csess[c] = s
  <2>1. catt[c] <= attempts[s] /\ attempts[s] \in Nat
    BY <1>0, <1>5 DEF Attempt, CallCopy, RowTypes
  <2>2. /\ attempts'[s] \in {attempts[s], catt[c]}
        /\ due'[s] \in {due[s], "null"} \/ (cpc[c] = "schedule" /\ due'[s] = "now")
    BY <1>0, <1>5, CallWrites, WritesRow, UploadConstants DEF rowVars
  <2>3. attempts'[s] \in Nat /\ attempts'[s] <= attempts[s]
    BY <1>0, <2>1, <2>2
  <2>4. ASSUME NEW d \in Completers, csess'[d] = s PROVE d = c /\ catt'[c] = catt[c]
    <3>1. ~Load(c, s)
      BY <1>0, <1>5, UploadConstants DEF Load, CallHand
    <3>2. ASSUME d # c PROVE FALSE
      <4>1. csess[d] = s
        BY <1>0, <2>4, <3>2, CallMoves, UploadConstants
      <4>2. QED
        BY <1>5, <3>2, <4>1 DEF OnceInv, Sure
    <3>3. d = c
      BY <3>2
    <3>4. ASSUME NEW t \in Sessions, Load(c, t) PROVE FALSE
      BY <1>0, <1>5, <3>4, UploadConstants DEF Load, CallHand
    <3>5. QED
      BY <1>0, <2>4, <3>3, <3>4, CallMoves, UploadConstants
  <2>5. CallCopy(s)'
    <3>1. SUFFICES ASSUME NEW d \in Completers, csess'[d] = s PROVE catt'[d] <= attempts'[s]
      BY DEF CallCopy
    <3>2. d = c /\ catt'[d] = catt[c]
      BY <2>4, <3>1
    <3>3. QED
      BY <1>0, <2>1, <2>2, <3>2
  <2>6. ListCopy(s)' /\ JobCopy(s)'
    <3>1. UNCHANGED <<satt, jatt, job, wpc>>
      BY <1>1 DEF schedVars, workVars
    <3>2. ListCopy(s)'
      <4>1. satt[s] \in Nat
        BY TypeParts DEF ScheduleTypes
      <4>2. QED
        BY <1>2, <2>1, <2>3, <3>1, <4>1 DEF Attempt, ListCopy
    <3>3. JobCopy(s)'
      <4>1. \A g \in Goroutines : jatt[g] \in Nat
        BY TypeParts DEF WorkTypes
      <4>2. QED
        BY <2>1, <2>3, <3>1, <4>1 DEF Attempt, JobCopy
    <3>4. QED
      BY <3>2, <3>3
  <2>7. RowCount(s)'
    <3>1. MaxAttempts \in Nat \ {0} /\ UNCHANGED <<images, satt>>
      BY <1>1, UploadConstants DEF schedVars
    <3>2. CASE cpc[c] = "schedule" /\ due'[s] = "now"
      <4>1. Unscheduled(s)
        BY <1>5, <3>2 DEF Unscheduled
      <4>2. attempts[s] = 0 /\ ~Scheduled(s) /\ ~Listing(s) /\ attempts'[s] = 0
        BY <2>1, <2>3, <4>1 DEF Attempt, RowCount
      <4>3. ~Unscheduled(s)'
        <5>1. attachments[s] > 0
          BY <1>5, <3>2 DEF MadeInv
        <5>2. attachments'[s] > 0
          BY <1>0, <5>1, CallMoves, UploadConstants
        <5>3. ASSUME NEW d \in Completers, csess'[d] = s, cpc'[d] \in {"finalize", "schedule"} PROVE FALSE
          BY <1>0, <2>4, <3>2, <5>3 DEF CallStep, Call, CallFault, CallCut, Existing, Stat, GiveUp,
             MarkUploaded, Lookup, CreateAttachment, Finalize, Schedule, Load, Return, CallTypes
        <5>4. QED
          BY <5>2, <5>3 DEF Unscheduled
      <4>4. QED
        BY <1>2, <3>1, <4>2, <4>3 DEF Attempt, RowCount
    <3>3. CASE due'[s] \in {due[s], "null"}
      BY <1>2, <1>3, <2>1, <2>3, <3>1, <3>3 DEF Attempt, RowCount
    <3>4. QED
      BY <2>2, <3>2, <3>3
  <2>8. QED
    BY <1>2, <2>5, <2>6, <2>7 DEF Attempt
<1>6. QED
  BY <1>4, <1>5

\* The queue holds a session once if it was not there before.
LEMMA AppendOnce ==
  ASSUME NEW S, NEW q \in Seq(S), NEW x \in S, NEW s,
         \A i, j \in 1..Len(q) : q[i] = s /\ q[j] = s => i = j,
         x = s => \A i \in 1..Len(q) : q[i] # s
  PROVE  \A i, j \in 1..Len(Append(q, x)) : Append(q, x)[i] = s /\ Append(q, x)[j] = s => i = j
<1>1. /\ Len(Append(q, x)) = Len(q) + 1 /\ Len(q) \in Nat
      /\ \A i \in 1..Len(q) : Append(q, x)[i] = q[i]
      /\ Append(q, x)[Len(q) + 1] = x
  OBVIOUS
<1>2. \A i \in 1..(Len(q) + 1) : i \in 1..Len(q) \/ i = Len(q) + 1
  BY <1>1
<1>3. QED
  BY <1>1, <1>2

LEMMA TailOnce ==
  ASSUME NEW S, NEW q \in Seq(S), q # <<>>, NEW s,
         \A i, j \in 1..Len(q) : q[i] = s /\ q[j] = s => i = j
  PROVE  /\ \A i, j \in 1..Len(Tail(q)) : Tail(q)[i] = s /\ Tail(q)[j] = s => i = j
         /\ Head(q) = s => \A i \in 1..Len(Tail(q)) : Tail(q)[i] # s
<1>1. /\ Len(Tail(q)) = Len(q) - 1 /\ Len(q) \in Nat \ {0}
      /\ Head(q) = q[1]
      /\ \A i \in 1..(Len(q) - 1) : Tail(q)[i] = q[i + 1]
  OBVIOUS
<1>2. \A i \in 1..Len(Tail(q)) : i + 1 \in 1..Len(q) /\ i + 1 # 1 /\ Tail(q)[i] = q[i + 1]
  BY <1>1
<1>3. 1 \in 1..Len(q)
  BY <1>1
<1>4. ASSUME NEW i \in 1..Len(Tail(q)), NEW j \in 1..Len(Tail(q)), Tail(q)[i] = s, Tail(q)[j] = s PROVE i = j
  <2>1. i + 1 = j + 1
    BY <1>2, <1>4
  <2>2. QED
    BY <1>1, <2>1
<1>5. ASSUME NEW i \in 1..Len(Tail(q)), Head(q) = s, Tail(q)[i] = s PROVE FALSE
  BY <1>1, <1>2, <1>3, <1>5
<1>6. QED
  BY <1>4, <1>5

LEMMA AttemptSchedule ==
  ASSUME TypeOK, HandInv, MadeInv, NEW s \in Sessions, Sure(s), Attempt(s), ScheduleStep, Sure(s)'
  PROVE  Attempt(s)'
<1>0. RowTypes /\ ScheduleTypes /\ WorkTypes /\ CallTypes /\ s # None /\ MaxAttempts \in Nat \ {0}
  BY TypeParts, UploadConstants
<1>1. UNCHANGED <<images, attachments, callVars>>
  BY ScheduleFrame DEF workRest
<1>2. Unscheduled(s)' <=> Unscheduled(s)
  BY <1>1 DEF Unscheduled, callVars
<1>3. CASE CrashWorker
  <2>1. s \notin images \/ ~Scheduled(s)
    BY <1>3 DEF CrashWorker, Sure
  <2>2. ~Scheduled(s)' /\ ~Waiting(s)' /\ ~Listing(s)' /\ OneJob(s)'
    BY <1>0, <1>3 DEF CrashWorker, Scheduled, Waiting, InQueue, Listing, OneJob
  <2>3. satt'[s] = 0 /\ UNCHANGED <<attempts, due>> /\ \A g \in Goroutines : wpc'[g] = "idle"
    BY <1>3 DEF CrashWorker, rowVars
  <2>4. QED
    BY <1>1, <1>2, <2>2, <2>3 DEF Attempt, RowCount, CallCopy, ListCopy, JobCopy, callVars
<1>4. CASE StartWorker \/ NextPass
  <2>1. UNCHANGED <<attempts, due, pending, queue, workVars, satt>> /\ sched' # "due"
    BY <1>4 DEF StartWorker, NextPass, rowVars
  <2>2. QED
    BY <1>1, <1>2, <2>1 DEF Attempt, OneJob, RowCount, CallCopy, ListCopy, JobCopy, Scheduled, Waiting, InQueue,
       Listing, callVars, workVars
<1>5. CASE ListStale \/ ListDue
  <2>1. /\ UNCHANGED <<attempts, due, pending, queue, workVars>>
        /\ satt'[s] \in {attempts[s], 0}
        /\ s \in batch' => satt'[s] = attempts[s]
        /\ sched' = "due" /\ s \in batch' => due[s] = "now"
    BY <1>0, <1>5 DEF ListStale, ListDue, Listed, Due, rowVars, RowTypes
  <2>2. UNCHANGED <<Scheduled(s), Waiting(s)>> /\ OneJob(s)'
    BY <2>1 DEF Attempt, OneJob, Scheduled, Waiting, InQueue, workVars
  <2>3. ASSUME Listing(s)' PROVE due[s] = "now" /\ satt'[s] = attempts[s]
    BY <2>1, <2>3 DEF Listing
  <2>4. attempts[s] \in Nat
    BY <1>0 DEF RowTypes
  <2>5. RowCount(s)' /\ ListCopy(s)'
    BY <1>1, <1>2, <2>1, <2>2, <2>3, <2>4 DEF Attempt, RowCount, ListCopy
  <2>6. QED
    BY <1>1, <2>1, <2>2, <2>5 DEF Attempt, CallCopy, JobCopy, callVars, workVars
<1>6. CASE Enqueue
  <2>1. UNCHANGED <<attempts, due, sched, batch, satt, workVars>> /\ pending' = None
    BY <1>6 DEF Enqueue, rowVars
  <2>2. InQueue(s)' <=> (InQueue(s) \/ pending = s)
    BY <1>6, EnqueueMoves
  <2>3. (Scheduled(s)' <=> Scheduled(s)) /\ (Waiting(s)' <=> Waiting(s)) /\ (Listing(s)' <=> Listing(s))
    <3>1. Scheduled(s) <=> (pending = s \/ InQueue(s) \/ \E g \in Goroutines : job[g] = s)
      BY DEF Scheduled, InQueue
    <3>2. Scheduled(s)' <=> (pending' = s \/ InQueue(s)' \/ \E g \in Goroutines : job'[g] = s)
      BY DEF Scheduled, InQueue
    <3>3. pending' # s
      BY <1>0, <2>1
    <3>4. QED
      BY <2>1, <2>2, <3>1, <3>2, <3>3 DEF Waiting, Listing, workVars
  <2>4. OneJob(s)'
    <3>1. queue \in Seq(images) /\ pending \in images /\ queue' = Append(queue, pending)
      BY <1>6, <1>0 DEF ScheduleTypes, Enqueue
    <3>2. pending = s => \A i \in 1..Len(queue) : queue[i] # s
      BY DEF Attempt, OneJob, InQueue
    <3>3. \A i, j \in 1..Len(queue) : queue[i] = s /\ queue[j] = s => i = j
      BY DEF Attempt, OneJob
    <3>4. \A i, j \in 1..Len(queue') : queue'[i] = s /\ queue'[j] = s => i = j
      BY <3>1, <3>2, <3>3, AppendOnce
    <3>5. QED
      BY <1>0, <2>1, <2>2, <3>4 DEF Attempt, OneJob, workVars
  <2>5. QED
    BY <1>1, <1>2, <2>1, <2>3, <2>4 DEF Attempt, RowCount, CallCopy, ListCopy, JobCopy, callVars, workVars
<1>7. ASSUME NEW t \in Sessions, t # s, StaleImage(t) \/ StaleOther(t) \/ DueItem(t) \/ ItemFault(t)
      PROVE  Attempt(s)'
  <2>1. /\ UNCHANGED <<attempts[s], due[s], satt[s], sched, queue, workVars>>
        /\ s \in batch' <=> s \in batch
        /\ pending' = s <=> pending = s
    BY <1>0, <1>7 DEF StaleImage, StaleOther, DueItem, ItemFault, Requeue, Strike, SetStatus, rowVars, RowTypes, ScheduleTypes
  <2>2. UNCHANGED <<Scheduled(s), Waiting(s), Listing(s)>> /\ OneJob(s)'
    BY <2>1 DEF Attempt, OneJob, Scheduled, Waiting, InQueue, Listing, workVars
  <2>3. QED
    BY <1>1, <1>2, <2>1, <2>2 DEF Attempt, RowCount, CallCopy, ListCopy, JobCopy, callVars, workVars
<1>8. ASSUME StaleImage(s) PROVE FALSE
  BY <1>8 DEF StaleImage, Sure
<1>9. CASE StaleOther(s)
  <2>1. s \notin images /\ satt[s] = 0 /\ attempts[s] = 0
    BY <1>9 DEF StaleOther, Attempt, RowCount
  <2>2. /\ attempts'[s] = 0 /\ satt'[s] = 0 /\ s \notin batch'
        /\ due'[s] \in {due[s], "null"}
        /\ UNCHANGED <<sched, pending, queue, workVars>>
    BY <1>0, <1>9, <2>1 DEF StaleOther, Strike, SetStatus, rowVars, RowTypes, ScheduleTypes
  <2>3. UNCHANGED <<Scheduled(s), Waiting(s)>> /\ OneJob(s)' /\ ~Listing(s)'
    BY <2>2 DEF Attempt, OneJob, Scheduled, Waiting, InQueue, Listing, workVars
  <2>4. QED
    BY <1>1, <1>2, <2>1, <2>2, <2>3 DEF Attempt, RowCount, CallCopy, ListCopy, JobCopy, callVars, workVars
<1>10. CASE DueItem(s)
  <2>1. Listing(s)
    BY <1>10 DEF DueItem, Listing
  <2>2. satt[s] < MaxAttempts /\ attempts[s] <= satt[s] /\ ~Scheduled(s) /\ satt[s] \in Nat /\ attempts[s] \in Nat
    BY <1>0, <2>1 DEF Attempt, ListCopy, ScheduleTypes, RowTypes
  <2>3. /\ attempts'[s] \in {attempts[s], satt[s]} /\ due'[s] = "null"
        /\ pending' = s /\ s \notin batch'
        /\ UNCHANGED <<queue, workVars>> /\ satt'[s] = 0
    BY <1>0, <1>10 DEF DueItem, Requeue, Strike, SetStatus, rowVars, RowTypes, ScheduleTypes, MadeInv
  <2>4. OneJob(s)' /\ ~Listing(s)'
    BY <2>2, <2>3 DEF Attempt, OneJob, Scheduled, InQueue, Listing, workVars
  <2>5. ~Unscheduled(s)
    BY <2>1 DEF Attempt, RowCount
  <2>6. s \in images
    BY <2>1 DEF HandInv, DueHand, Listing
  <2>7. attempts[s] <= attempts'[s] /\ attempts'[s] < MaxAttempts
    BY <1>0, <2>2, <2>3
  <2>8. RowCount(s)'
    BY <1>0, <1>1, <1>2, <2>2, <2>3, <2>5, <2>6, <2>7 DEF RowCount
  <2>9. CallCopy(s)'
    <3>1. SUFFICES ASSUME NEW c \in Completers, csess[c] = s PROVE catt[c] <= attempts'[s]
      BY <1>1 DEF CallCopy, callVars
    <3>2. catt[c] <= attempts[s] /\ catt[c] \in Nat
      BY <1>0, <3>1 DEF Attempt, CallCopy, CallTypes
    <3>3. QED
      BY <2>2, <2>3, <2>7, <3>2
  <2>10. JobCopy(s)'
    BY <2>2, <2>3 DEF JobCopy, Scheduled, workVars
  <2>11. QED
    BY <2>4, <2>8, <2>9, <2>10 DEF Attempt, ListCopy
<1>11. CASE ItemFault(s)
  <2>1. /\ UNCHANGED <<attempts, due, sched, pending, queue, workVars>>
        /\ s \notin batch' /\ satt'[s] = 0
    BY <1>0, <1>11 DEF ItemFault, Strike, rowVars, ScheduleTypes
  <2>2. UNCHANGED <<Scheduled(s), Waiting(s)>> /\ OneJob(s)' /\ ~Listing(s)'
    BY <2>1 DEF Attempt, OneJob, Scheduled, Waiting, InQueue, Listing, workVars
  <2>3. QED
    BY <1>1, <1>2, <2>1, <2>2 DEF Attempt, RowCount, CallCopy, ListCopy, JobCopy, callVars, workVars
<1>12. QED
  BY <1>3, <1>4, <1>5, <1>6, <1>7, <1>8, <1>9, <1>10, <1>11 DEF ScheduleStep, Scheduler

LEMMA AttemptWork ==
  ASSUME TypeOK, HandInv, MadeInv, NEW s \in Sessions, Sure(s), Attempt(s),
         NEW g \in Goroutines, WorkStep(g), Sure(s)'
  PROVE  Attempt(s)'
<1>0. /\ RowTypes /\ ScheduleTypes /\ WorkTypes /\ CallTypes /\ JobHand
      /\ s # None /\ MaxAttempts \in Nat \ {0} /\ jatt[g] \in Nat /\ images \subseteq Sessions
  BY TypeParts, UploadConstants DEF HandInv, WorkTypes, RowTypes
<1>1. UNCHANGED <<images, attachments, callVars, schedVars>>
  BY WorkFrame DEF jobRest, workRest
<1>2. (Unscheduled(s)' <=> Unscheduled(s)) /\ (Listing(s)' <=> Listing(s))
  BY <1>1 DEF Unscheduled, Listing, callVars, schedVars
<1>3. \A h \in Goroutines \ {g} : UNCHANGED <<job[h], wpc[h], jatt[h]>>
  BY WorkJobs
<1>4. CASE Take(g)
  <2>1. UNCHANGED <<attempts, due, jatt>> /\ job[g] = None
    BY <1>0, <1>4 DEF Take, rowVars, JobHand
  <2>2. /\ InQueue(s) <=> (Head(queue) = s \/ InQueue(s)')
        /\ job'[g] = Head(queue) /\ wpc'[g] = "load"
    BY <1>4, TakeMoves
  <2>3. Scheduled(s)' <=> Scheduled(s)
    <3>1. Scheduled(s) <=> (pending = s \/ InQueue(s) \/ \E h \in Goroutines : job[h] = s)
      BY DEF Scheduled, InQueue
    <3>2. Scheduled(s)' <=> (pending' = s \/ InQueue(s)' \/ \E h \in Goroutines : job'[h] = s)
      BY DEF Scheduled, InQueue
    <3>3. QED
      BY <1>0, <1>1, <1>3, <2>1, <2>2, <3>1, <3>2 DEF schedVars
  <2>4. Waiting(s)' <=> Waiting(s)
    BY <1>0, <1>1, <1>3, <2>1, <2>2 DEF Waiting, schedVars
  <2>5. OneJob(s)'
    <3>1. queue \in Seq(images) /\ queue # <<>> /\ queue' = Tail(queue)
      BY <1>0, <1>4 DEF ScheduleTypes, Take
    <3>2. \A i, j \in 1..Len(queue) : queue[i] = s /\ queue[j] = s => i = j
      BY DEF Attempt, OneJob
    <3>3. /\ \A i, j \in 1..Len(queue') : queue'[i] = s /\ queue'[j] = s => i = j
          /\ Head(queue) = s => ~InQueue(s)'
      BY <3>1, <3>2, TailOnce DEF InQueue
    <3>4. QED
      BY <1>0, <1>1, <1>3, <2>1, <2>2, <3>3 DEF Attempt, OneJob, schedVars
  <2>6. JobCopy(s)'
    BY <1>3, <2>1, <2>2 DEF Attempt, JobCopy
  <2>7. QED
    BY <1>1, <1>2, <2>1, <2>3, <2>4, <2>5, <2>6 DEF Attempt, RowCount, CallCopy, ListCopy, callVars, schedVars
<1>5. ASSUME ~Take(g), Sure(s)' PROVE UNCHANGED queue /\ wpc[g] # "idle" /\ job'[g] \in {job[g], None}
  BY <1>5, WorkJobs
<1>6. CASE ~Take(g) /\ job[g] # s
  <2>1. UNCHANGED queue /\ job'[g] # s
    BY <1>0, <1>5, <1>6
  <2>2. UNCHANGED <<attempts[s], due[s]>>
    BY <1>0, <1>6, WorkWrites, WritesRow, UploadConstants DEF rowVars
  <2>3. (Scheduled(s)' <=> Scheduled(s)) /\ (Waiting(s)' <=> Waiting(s)) /\ OneJob(s)'
    BY <1>1, <1>3, <1>6, <2>1 DEF Attempt, OneJob, Scheduled, Waiting, InQueue, schedVars
  <2>4. JobCopy(s)'
    BY <1>3, <1>6, <2>1, <2>2 DEF Attempt, JobCopy
  <2>5. QED
    BY <1>1, <1>2, <2>2, <2>3, <2>4 DEF Attempt, RowCount, CallCopy, ListCopy, callVars, schedVars
<1>7. CASE ~Take(g) /\ job[g] = s
  <2>1. Scheduled(s) /\ s \in images
    BY <1>0, <1>7 DEF Scheduled, WorkTypes
  <2>2. due[s] = "null" /\ ~Listing(s) /\ ~Unscheduled(s)
    BY <2>1 DEF Attempt, RowCount, ListCopy
  <2>3. /\ UNCHANGED queue /\ wpc[g] # "idle" /\ job'[g] \in {s, None}
        /\ \A h \in Goroutines : job'[h] = s => h = g
    BY <1>3, <1>5, <1>7 DEF Attempt, OneJob
  <2>4. OneJob(s)' /\ pending # s /\ ~InQueue(s)
    BY <1>1, <1>7, <2>3 DEF Attempt, OneJob, InQueue, schedVars
  <2>5. CASE LoadJob(g)
    <3>1. UNCHANGED <<attempts, due>> /\ wpc[g] = "load"
      BY <2>5 DEF LoadJob, rowVars
    <3>2. attempts[s] < MaxAttempts /\ attempts[s] \in Nat
      BY <1>0, <1>7, <3>1 DEF Attempt, RowCount, Waiting, RowTypes
    <3>3. (jatt'[g] = attempts[s] + 1 /\ job'[g] = s) \/ job'[g] = None
      BY <1>0, <1>7, <2>5 DEF LoadJob, JobDone, WorkTypes
    <3>4. JobCopy(s)'
      BY <1>0, <2>3, <3>1, <3>2, <3>3 DEF JobCopy
    <3>5. QED
      BY <1>1, <1>2, <2>1, <2>2, <2>4, <3>1, <3>2, <3>4 DEF Attempt, RowCount, CallCopy, ListCopy, callVars
  <2>6. CASE ~LoadJob(g)
    <3>1. wpc[g] # "load" /\ wpc'[g] # "load"
      BY <1>0, <1>7, <2>3, <2>6 DEF WorkStep, Work, Take, MarkProcessing, Fetch, PutThumb, Succeed, Fail, BucketFault, JobFault,
         JobStep, JobDone, WorkTypes, Sure
    <3>2. attempts[s] <= jatt[g] /\ jatt[g] <= MaxAttempts /\ attempts[s] \in Nat
      BY <1>0, <1>7, <2>3, <3>1 DEF Attempt, JobCopy, RowTypes
    <3>3. /\ attempts'[s] \in {attempts[s], jatt[g]}
          /\ due'[s] = "null" \/ (due'[s] = "later" /\ wpc[g] = "fail" /\ attempts'[s] < MaxAttempts)
      BY <1>0, <1>7, <2>2, <3>2, WorkWrites, WritesRow, UploadConstants DEF rowVars
    <3>4. attempts[s] <= attempts'[s] /\ attempts'[s] <= jatt[g] /\ attempts'[s] \in Nat
      BY <1>0, <3>2, <3>3
    <3>5. ~Waiting(s)'
      BY <1>1, <2>3, <2>4, <3>1 DEF Waiting, InQueue, schedVars
    <3>6. wpc[g] = "fail" => ~Scheduled(s)'
      BY <1>0, <1>1, <2>3, <2>4, <2>6, <1>7 DEF WorkStep, Work, LoadJob, MarkProcessing, Fetch, PutThumb, Succeed, Fail, BucketFault,
         JobFault, JobDone, WorkTypes, Scheduled, InQueue, schedVars
    <3>7. RowCount(s)'
      BY <1>0, <1>1, <1>2, <2>1, <2>2, <3>2, <3>3, <3>4, <3>5, <3>6 DEF RowCount
    <3>8. CallCopy(s)'
      <4>1. SUFFICES ASSUME NEW c \in Completers, csess[c] = s PROVE catt[c] <= attempts'[s]
        BY <1>1 DEF CallCopy, callVars
      <4>2. catt[c] <= attempts[s] /\ catt[c] \in Nat
        BY <1>0, <4>1 DEF Attempt, CallCopy, CallTypes
      <4>3. QED
        BY <3>2, <3>4, <4>2
    <3>9. JobCopy(s)'
      <4>1. job'[g] = s => jatt'[g] = jatt[g]
        BY <1>0, <1>7, <2>6 DEF WorkStep, Work, LoadJob, Take, MarkProcessing, Fetch, PutThumb, Succeed, Fail, BucketFault, JobFault,
         JobStep, JobDone, WorkTypes
      <4>2. QED
        BY <1>0, <2>3, <3>2, <3>4, <4>1 DEF JobCopy
    <3>10. QED
      BY <1>2, <2>2, <2>4, <3>7, <3>8, <3>9 DEF Attempt, ListCopy
  <2>7. QED
    BY <2>5, <2>6
<1>8. QED
  BY <1>4, <1>6, <1>7

LEMMA AttemptStep ==
  ASSUME TypeOK, HandInv, OnceInv, MadeInv, AttemptInv, [Next]_vars PROVE AttemptInv'
<1> SUFFICES ASSUME NEW s \in Sessions, Sure(s)' PROVE Attempt(s)'
  BY DEF AttemptInv
<1>1. Sure(s) /\ Attempt(s)
  BY SureBefore DEF AttemptInv
<1>2. CASE UNCHANGED vars
  BY <1>1, <1>2, AttemptSame DEF vars, rowVars
<1>3. QED
  BY <1>1, <1>2, NextCases, AttemptOutside, AttemptCall, AttemptSchedule, AttemptWork, AttemptClean

-----------------------------------------------------------------------------
(* The theorems.                                                           *)

LEMMA InitIInv == Init => IInv
<1> SUFFICES ASSUME Init PROVE IInv
  OBVIOUS
<1> USE UploadConstants DEF Init
<1>1. TypeOK
  BY DEF TypeOK
<1>2. HandInv /\ ObjectInv /\ OnceInv /\ MadeInv /\ JobsInv
  BY DEF HandInv, CallHand, JobHand, CleanHand, DueHand, ObjectInv, CleanerInv, UrlInv, SeenInv, ThumbInv,
         IntactUntilExpiry, OnceInv, MadeInv, JobsInv, Owed
<1>3. CountInv
  <2>1. \A s \in Sessions : Making(s) = {}
    BY DEF Making
  <2>2. IsFiniteSet({}) /\ Cardinality({}) = 0
    BY FS_EmptySet
  <2>3. \A s \in Sessions : attachments[s] = 0 /\ completes[s] = 0
    OBVIOUS
  <2>4. ASSUME NEW s \in Sessions PROVE Counted(s)
    <3>1. IsFiniteSet(Making(s)) /\ Cardinality(Making(s)) = 0
      BY <2>1, <2>2, Zenon
    <3>2. QED
      BY <2>3, <3>1 DEF Counted
  <2>5. QED
    BY <2>4 DEF CountInv
<1>4. ASSUME NEW s \in Sessions PROVE Attempt(s)
  <2>1. ~Scheduled(s) /\ ~Waiting(s) /\ ~Listing(s) /\ OneJob(s)
    BY DEF Scheduled, Waiting, InQueue, Listing, OneJob
  <2>2. QED
    BY <2>1 DEF Attempt, RowCount, CallCopy, ListCopy, JobCopy
<1>5. QED
  BY <1>1, <1>2, <1>3, <1>4 DEF IInv, AttemptInv

LEMMA IInvStep == IInv /\ [Next]_vars => IInv'
BY TypeStep, ObjectStep, OnceStep, MadeStep, JobsStep, AttemptStep DEF IInv

LEMMA Invariance == Spec => []IInv
BY InitIInv, IInvStep, PTL DEF Spec

\* Rows, calls, the queue and the goroutines hold what their types say; above all a
\* session gets no more attachments than CompleteUpload calls, the queue no more jobs
\* than it has room for, and goroutines get images only.
THEOREM TypeCorrect == Spec => []TypeOK
<1>1. IInv => TypeOK
  BY DEF IInv
<1>2. QED
  BY <1>1, Invariance, PTL

\* Until it expires, a completed session keeps the object CompleteUpload has seen, and
\* an image is READY only with its thumbnail, whoever else writes the row meanwhile.
THEOREM ObjectsStayIntact == Spec => []IntactUntilExpiry
<1>1. IInv => IntactUntilExpiry
  BY DEF IInv, ObjectInv
<1>2. QED
  BY <1>1, Invariance, PTL

\* CompleteUpload makes one attachment per session, however often it is called, unless
\* calls overlap or a lookup fails.
THEOREM OneAttachmentPerSession == Spec => []OneAttachment
<1>1. IInv => OneAttachment
  <2>1. SUFFICES ASSUME IInv, NEW s \in Sessions, attachments[s] > 1, s \notin unsure PROVE FALSE
    BY DEF OneAttachment
  <2>2. attachments[s] <= 1 /\ attachments[s] \in Nat
    BY <2>1, UploadConstants DEF IInv, OnceInv, TypeOK
  <2>3. QED
    BY <2>1, <2>2
<1>2. QED
  BY <1>1, Invariance, PTL

\* A thumbnail is tried MaxAttempts times at most, whatever the goroutines, the
\* scheduler and the calls overwrite of each other's counts, unless an accident gave
\* the session a second job.
THEOREM AttemptsAreBounded == Spec => []AttemptsBounded
<1>1. IInv => AttemptsBounded
  <2>1. SUFFICES ASSUME IInv, NEW s \in Sessions, attempts[s] > MaxAttempts, Sure(s) PROVE FALSE
    BY DEF AttemptsBounded, Sure
  <2>2. attempts[s] <= MaxAttempts /\ attempts[s] \in Nat /\ MaxAttempts \in Nat
    BY <2>1, UploadConstants DEF IInv, AttemptInv, Attempt, RowCount, TypeOK
  <2>3. QED
    BY <2>1, <2>2
<1>2. QED
  BY <1>1, Invariance, PTL

\* A completed image without result is due or held by the worker; if not, one of the
\* recorded accidents lost its job.
THEOREM JobsAccounted == Spec => []JobsAreAccounted
<1>1. IInv => JobsAreAccounted
  <2>1. SUFFICES ASSUME IInv, NEW s \in images, attachments[s] > 0, status[s] \in {"UPLOADED", "PROCESSING"},
                        \A c \in Completers : csess[c] # s
                 PROVE  due[s] # "null" \/ Scheduled(s) \/ s \in rescheduled
    BY DEF JobsAreAccounted
  <2>2. s \in Sessions /\ Owed(s)
    BY <2>1 DEF IInv, TypeOK, Owed
  <2>3. QED
    BY <2>1, <2>2 DEF IInv, JobsInv, Kept
<1>2. QED
  BY <1>1, Invariance, PTL
=============================================================================
