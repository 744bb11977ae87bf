------------------------------- MODULE MediaTasks -------------------------------
(***************************************************************************)
(* One media task from its queued row to its end: workers that lease it,    *)
(* submit it to a provider and poll it, the claim that holds the money, the *)
(* lease sweeper of the billing ledger, and the administrator who decides   *)
(* what became of a submission nobody knows the outcome of.                 *)
(***************************************************************************)
EXTENDS Integers, FiniteSets

CONSTANTS
    MediaWorkers,              \* worker processes, each a lease owner of its own
    Decisions,                 \* what the administrator does in this instance
    MaxMediaFaults,            \* bounds on faults and on retried submissions
    MaxDefers,
    NoOwner

ASSUME MediaAssumption ==
    /\ MaxMediaFaults \in Nat /\ MaxDefers \in Nat /\ NoOwner \notin MediaWorkers
    /\ Decisions \subseteq {"attach", "release", "close", "charge"}

VARIABLES
    task,                      \* the media_tasks row; video: the Settler settles it
    mediaClaim,                \* its claim; "swept" is an abort by the lease sweeper
    listed,                    \* the lease sweeper has selected the claim
    unknown,                   \* the submission_unknown row of media_task_orphans
    orphan,                    \* the provider_task_orphan row, and what reconciled it
    jobs, job,                 \* jobs created at the provider, and the state of the last
    late, over,                \* TaskTimeout and the lease of the claim have passed
    mediaWorker,
    mediaFaults, defers

mediaVars == <<task, mediaClaim, listed, unknown, orphan, jobs, job, late, over,
               mediaWorker, mediaFaults, defers>>

(* Fault: a row whose submission was cut short is nobody's. *)
Runnable_NotSubmitting == {"queued", "releasing", "in_progress", "pending"}

(* Fault: a row whose settlement was cut short is nobody's. *)
Runnable_NotPending == {"queued", "submitting", "releasing", "in_progress"}

(* What acquireLeaseSQL selects. *)
Runnable == {"queued", "submitting", "releasing", "in_progress", "pending"}
Terminal == {"succeeded", "failed", "expired"}
Protected == {"unknown", "releasing", "pending"}
NoTask == [pc |-> "idle", out |-> "none"]

MediaInit ==
    /\ \E video \in BOOLEAN :
         task = [video |-> video, status |-> "queued", bound |-> FALSE,
                 owner |-> NoOwner, due |-> TRUE]
    /\ mediaClaim = "reserving" /\ listed = FALSE
    /\ unknown = "none" /\ orphan = "none" /\ jobs = 0 /\ job = "none"
    /\ late = FALSE /\ over = FALSE
    /\ mediaWorker = [w \in MediaWorkers |-> NoTask] /\ mediaFaults = 0 /\ defers = 0

IsAt(w, pc) == mediaWorker[w].pc = pc
MoveTo(w, pc) == mediaWorker' = [mediaWorker EXCEPT ![w].pc = pc]
PutDown(w) == mediaWorker' = [mediaWorker EXCEPT ![w] = NoTask]
MediaFault == mediaFaults < MaxMediaFaults /\ mediaFaults' = mediaFaults + 1

(* The row's owner alone is compared, never the end of its lease.           *)
Owns(w, statuses) == task.owner = w /\ task.status \in statuses
Released(status) == [task EXCEPT !.status = status, !.owner = NoOwner, !.due = TRUE]
Deferred(status) == [task EXCEPT !.status = status, !.owner = NoOwner, !.due = FALSE]

-----------------------------------------------------------------------------
(* Fault: a task left in submitting is submitted once more. *)
FirstStep_Resubmits(status) ==
    CASE status = "submitting" -> {"submit"}
      [] status = "releasing" -> {"fail"}
      [] status = "pending" -> {"settle"}
      [] OTHER -> IF late THEN {"expire"}
                  ELSE {"fail", IF status = "queued" THEN "mark" ELSE "poll"}

(* What processLeased does first with the row it leased; without a provider *)
(* of that name the task fails.                                             *)
FirstStep(status) ==
    CASE status = "submitting" -> {"unknown"}
      [] status = "releasing" -> {"fail"}
      [] status = "pending" -> {"settle"}
      [] OTHER -> IF late THEN {"expire"}
                  ELSE {"fail", IF status = "queued" THEN "mark" ELSE "poll"}

AcquireLease(w) ==
    /\ IsAt(w, "idle") /\ task.status \in Runnable /\ task.due
    /\ task' = [task EXCEPT !.owner = w, !.due = FALSE]
    /\ \E pc \in FirstStep(task.status) : MoveTo(w, pc)
    /\ UNCHANGED <<mediaClaim, listed, unknown, orphan, jobs, job, late, over, mediaFaults, defers>>

MarkSubmitting(w) ==
    /\ IsAt(w, "mark")
    /\ IF Owns(w, {"queued"})
       THEN task' = [task EXCEPT !.status = "submitting"] /\ MoveTo(w, "submit")
       ELSE UNCHANGED task /\ PutDown(w)
    /\ UNCHANGED <<mediaClaim, listed, unknown, orphan, jobs, job, late, over, mediaFaults, defers>>

(* The provider accepts the job, and its answer arrives or does not.        *)
SubmitAccepted(w) ==
    /\ IsAt(w, "submit") /\ jobs' = jobs + 1 /\ job' = "running"
    /\ \E pc \in {"bind", "unknown"} : MoveTo(w, pc)
    /\ UNCHANGED <<task, mediaClaim, listed, unknown, orphan, late, over, mediaFaults, defers>>

(* It does not: certainly so, for now or for ever, or nobody knows.         *)
SubmitRefused(w) ==
    /\ IsAt(w, "submit")
    /\ \/ defers < MaxDefers /\ defers' = defers + 1 /\ MoveTo(w, "defer")
       \/ UNCHANGED defers /\ \E pc \in {"fail", "unknown"} : MoveTo(w, pc)
    /\ UNCHANGED <<task, mediaClaim, listed, unknown, orphan, jobs, job, late, over, mediaFaults>>

DeferSubmission(w) ==
    /\ IsAt(w, "defer") /\ PutDown(w)
    /\ task' = IF Owns(w, {"submitting"}) THEN Deferred("queued") ELSE task
    /\ UNCHANGED <<mediaClaim, listed, unknown, orphan, jobs, job, late, over, mediaFaults, defers>>

MarkProviderSubmitted(w) ==
    /\ IsAt(w, "bind")
    /\ IF Owns(w, {"submitting"})
       THEN task' = [Released("in_progress") EXCEPT !.bound = TRUE] /\ PutDown(w)
       ELSE UNCHANGED task /\ MoveTo(w, "report")
    /\ UNCHANGED <<mediaClaim, listed, unknown, orphan, jobs, job, late, over, mediaFaults, defers>>

(* reportOrphan: the lease was lost while the provider created the job.     *)
ReportOrphan(w) ==
    /\ IsAt(w, "report") /\ PutDown(w)
    /\ orphan' = IF orphan = "none" THEN "pending" ELSE orphan
    /\ UNCHANGED <<task, mediaClaim, listed, unknown, jobs, job, late, over, mediaFaults, defers>>

(* Fault: the status is written whoever owns the row.                       *)
MarkSubmissionUnknown_AnyOwner(w) ==
    /\ IsAt(w, "unknown") /\ mediaWorker' = [mediaWorker EXCEPT ![w] = NoTask]
    /\ task' = [task EXCEPT !.status = "unknown", !.owner = NoOwner, !.due = TRUE]
    /\ unknown' = "pending"
    /\ UNCHANGED <<mediaClaim, listed, orphan, jobs, job, late, over, mediaFaults, defers>>

MarkSubmissionUnknown(w) ==
    /\ IsAt(w, "unknown") /\ PutDown(w)
    /\ IF Owns(w, {"submitting", "in_progress"}) /\ ~task.bound
       THEN task' = Released("unknown") /\ unknown' = "pending"
       ELSE UNCHANGED <<task, unknown>>
    /\ UNCHANGED <<mediaClaim, listed, orphan, jobs, job, late, over, mediaFaults, defers>>

-----------------------------------------------------------------------------
(* The answer to a poll: the state of the job, or an error that is passing, *)
(* final, or not understood.                                                *)
Poll(w) ==
    /\ IsAt(w, "poll")
    /\ \/ job = "running" /\ MoveTo(w, "progress")
       \/ job = "done" /\ MoveTo(w, "settle")
       \/ job = "failed" /\ \E pc \in {"fail", "expire"} : MoveTo(w, pc)
       \/ \E pc \in {"deferlease", "fail"} : MoveTo(w, pc)
       \/ PutDown(w)
    /\ UNCHANGED <<task, mediaClaim, listed, unknown, orphan, jobs, job, late, over,
                   mediaFaults, defers>>

UpdateProgress(w) ==
    /\ IsAt(w, "progress") /\ PutDown(w)
    /\ task' = IF Owns(w, {"in_progress"}) THEN Released("in_progress") ELSE task
    /\ UNCHANGED <<mediaClaim, listed, unknown, orphan, jobs, job, late, over, mediaFaults, defers>>

DeferLease(w) ==
    /\ IsAt(w, "deferlease") /\ PutDown(w)
    /\ task' = IF Owns(w, {"queued", "in_progress"}) THEN Deferred(task.status) ELSE task
    /\ UNCHANGED <<mediaClaim, listed, unknown, orphan, jobs, job, late, over, mediaFaults, defers>>

(* updateTaskSuccess: it asks for the status only, not for the owner.       *)
Succeeded ==
    IF task.status \in {"queued", "in_progress", "pending"} THEN Released("succeeded") ELSE task
Orphaned == IF orphan = "none" THEN "pending" ELSE orphan

(* The result is stored before any money moves.                             *)
PersistPendingSuccess(w) ==
    /\ task.video /\ IsAt(w, "settle")
    /\ IF Owns(w, {"in_progress", "pending"})
       THEN task' = [task EXCEPT !.status = "pending"] /\ MoveTo(w, "state")
       ELSE UNCHANGED task /\ PutDown(w)
    /\ UNCHANGED <<mediaClaim, listed, unknown, orphan, jobs, job, late, over, mediaFaults, defers>>

ClaimSettlementState(w) ==
    /\ IsAt(w, "state")
    /\ MoveTo(w, CASE mediaClaim = "reserving" -> "charge"
                   [] mediaClaim = "committed" -> "succeed"
                   [] OTHER -> "swept")
    /\ UNCHANGED <<task, mediaClaim, listed, unknown, orphan, jobs, job, late, over,
                   mediaFaults, defers>>

(* Settle; if the claim was closed meanwhile, its state decides.            *)
Charge(w) ==
    /\ IsAt(w, "charge")
    /\ IF mediaClaim \in {"reserving", "committed"}
       THEN mediaClaim' = "committed" /\ MoveTo(w, "succeed")
       ELSE UNCHANGED mediaClaim /\ PutDown(w)
    /\ UNCHANGED <<task, listed, unknown, orphan, jobs, job, late, over, mediaFaults, defers>>

MarkTaskSucceeded(w) ==
    /\ IsAt(w, "succeed") /\ PutDown(w) /\ task' = Succeeded
    /\ UNCHANGED <<mediaClaim, listed, unknown, orphan, jobs, job, late, over, mediaFaults, defers>>

(* Fault: the administrator is not told.                                    *)
FinishSuccessAfterSweptClaim_Silently(w) ==
    /\ IsAt(w, "swept") /\ PutDown(w) /\ task' = Succeeded
    /\ UNCHANGED <<mediaClaim, listed, unknown, orphan, jobs, job, late, over, mediaFaults, defers>>

FinishSuccessAfterSweptClaim(w) ==
    /\ IsAt(w, "swept") /\ PutDown(w) /\ task' = Succeeded /\ orphan' = Orphaned
    /\ UNCHANGED <<mediaClaim, listed, unknown, jobs, job, late, over, mediaFaults, defers>>

(* Fault: the administrator is not told.                                    *)
CompleteSuccess_Silently(w) ==
    /\ ~task.video /\ IsAt(w, "settle") /\ PutDown(w)
    /\ IF Owns(w, Runnable) /\ mediaClaim # "committed"
       THEN /\ task' = Succeeded
            /\ mediaClaim' = IF mediaClaim = "reserving" THEN "committed" ELSE mediaClaim
       ELSE UNCHANGED <<task, mediaClaim>>
    /\ UNCHANGED <<listed, unknown, orphan, jobs, job, late, over, mediaFaults, defers>>

(* The other providers: claim, usage and task in one transaction.           *)
CompleteSuccess(w) ==
    /\ ~task.video /\ IsAt(w, "settle") /\ PutDown(w)
    /\ IF Owns(w, Runnable) /\ mediaClaim # "committed"
       THEN /\ task' = Succeeded
            /\ IF mediaClaim = "reserving" THEN mediaClaim' = "committed" /\ UNCHANGED orphan
               ELSE UNCHANGED mediaClaim /\ orphan' = Orphaned
       ELSE UNCHANGED <<task, mediaClaim, orphan>>
    /\ UNCHANGED <<listed, unknown, jobs, job, late, over, mediaFaults, defers>>

-----------------------------------------------------------------------------
Ends == [fail |-> "failed", expire |-> "expired"]
Abortable == {"queued", "submitting", "releasing", "in_progress"}
Cancelled == IF unknown = "requested" THEN "cancelled" ELSE unknown

(* abortTaskWithUnifiedMoney reads the row, aborts the claim, and writes.   *)
AbortRead(w) ==
    /\ task.video /\ mediaWorker[w].pc \in {"fail", "expire"}
    /\ IF Owns(w, Abortable)
       THEN mediaWorker' = [mediaWorker EXCEPT ![w] = [pc |-> "abort", out |-> Ends[@.pc]]]
       ELSE PutDown(w)
    /\ UNCHANGED <<task, mediaClaim, listed, unknown, orphan, jobs, job, late, over,
                   mediaFaults, defers>>

AbortClaim(w) ==
    /\ IsAt(w, "abort") /\ MoveTo(w, "end")
    /\ mediaClaim' = IF mediaClaim = "reserving" THEN "aborted" ELSE mediaClaim
    /\ UNCHANGED <<task, listed, unknown, orphan, jobs, job, late, over, mediaFaults, defers>>

(* Fault: a claim that was committed meanwhile is not noticed.              *)
AbortTask_Unread(w) ==
    /\ IsAt(w, "end")
    /\ IF Owns(w, Abortable) THEN task' = Released(mediaWorker[w].out) /\ unknown' = Cancelled
       ELSE UNCHANGED <<task, unknown>>
    /\ mediaWorker' = [mediaWorker EXCEPT ![w] = NoTask]
    /\ UNCHANGED <<mediaClaim, listed, orphan, jobs, job, late, over, mediaFaults, defers>>

AbortTask(w) ==
    /\ IsAt(w, "end") /\ PutDown(w)
    /\ IF mediaClaim # "committed" /\ Owns(w, Abortable)
       THEN task' = Released(mediaWorker[w].out) /\ unknown' = Cancelled
       ELSE UNCHANGED <<task, unknown>>
    /\ UNCHANGED <<mediaClaim, listed, orphan, jobs, job, late, over, mediaFaults, defers>>

(* Fault: a claim that was committed meanwhile is not noticed.              *)
CompleteFailure_Unread(w) ==
    /\ ~task.video /\ mediaWorker[w].pc \in {"fail", "expire"} /\ PutDown(w)
    /\ IF Owns(w, Abortable)
       THEN /\ task' = Released(Ends[mediaWorker[w].pc]) /\ unknown' = Cancelled
            /\ mediaClaim' = IF mediaClaim = "reserving" THEN "aborted" ELSE mediaClaim
            /\ orphan' = IF task.bound THEN Orphaned ELSE orphan
       ELSE UNCHANGED <<task, unknown, mediaClaim, orphan>>
    /\ UNCHANGED <<listed, jobs, job, late, over, mediaFaults, defers>>

(* abortTask of the other providers: one transaction.                       *)
CompleteFailure(w) ==
    /\ ~task.video /\ mediaWorker[w].pc \in {"fail", "expire"} /\ PutDown(w)
    /\ IF Owns(w, Abortable) /\ mediaClaim # "committed"
       THEN /\ task' = Released(Ends[mediaWorker[w].pc]) /\ unknown' = Cancelled
            /\ mediaClaim' = IF mediaClaim = "reserving" THEN "aborted" ELSE mediaClaim
            /\ orphan' = IF task.bound THEN Orphaned ELSE orphan
       ELSE UNCHANGED <<task, unknown, mediaClaim, orphan>>
    /\ UNCHANGED <<listed, jobs, job, late, over, mediaFaults, defers>>

(* A step fails, panics or dies with its process: what it holds runs out.   *)
Interrupted(w) ==
    /\ ~IsAt(w, "idle") /\ MediaFault /\ PutDown(w)
    /\ UNCHANGED <<task, mediaClaim, listed, unknown, orphan, jobs, job, late, over, defers>>

(* The lease, or the delay of a deferred task, ends; under a worker that is *)
(* slow only as a fault.                                                    *)
LeaseEnds ==
    /\ ~task.due /\ task' = [task EXCEPT !.due = TRUE]
    /\ IF task.owner = NoOwner \/ IsAt(task.owner, "idle")
       THEN UNCHANGED mediaFaults ELSE MediaFault
    /\ UNCHANGED <<mediaClaim, listed, unknown, orphan, jobs, job, late, over, mediaWorker, defers>>

-----------------------------------------------------------------------------
JobEnds ==
    /\ job = "running" /\ \E s \in {"done", "failed"} : job' = s
    /\ UNCHANGED <<task, mediaClaim, listed, unknown, orphan, jobs, late, over,
                   mediaWorker, mediaFaults, defers>>

TaskTimeout ==
    /\ ~late /\ late' = TRUE
    /\ UNCHANGED <<task, mediaClaim, listed, unknown, orphan, jobs, job, over,
                   mediaWorker, mediaFaults, defers>>

(* Fault: the claim is leased for as long as any other. *)
ClaimLeaseEnds_Default ==
    /\ ~over /\ over' = TRUE
    /\ UNCHANGED <<task, mediaClaim, listed, unknown, orphan, jobs, job, late,
                   mediaWorker, mediaFaults, defers>>

(* insertReservedTask leases the claim for longer than TaskTimeout; the     *)
(* claim gate of the video providers knows nothing of TaskTimeout.          *)
ClaimLeaseEnds ==
    /\ ~over /\ (task.video \/ late) /\ over' = TRUE
    /\ UNCHANGED <<task, mediaClaim, listed, unknown, orphan, jobs, job, late,
                   mediaWorker, mediaFaults, defers>>

(* SelectExpiredReservingClaims, and later the abort of what it selected.   *)
SweepSelect ==
    /\ ~listed /\ over /\ mediaClaim = "reserving" /\ task.status \notin Protected /\ listed' = TRUE
    /\ UNCHANGED <<task, mediaClaim, unknown, orphan, jobs, job, late, over,
                   mediaWorker, mediaFaults, defers>>

SweepAbort ==
    /\ listed /\ listed' = FALSE
    /\ mediaClaim' = IF mediaClaim = "reserving" THEN "swept" ELSE mediaClaim
    /\ UNCHANGED <<task, unknown, orphan, jobs, job, late, over, mediaWorker, mediaFaults, defers>>

-----------------------------------------------------------------------------
(* The administrator found the job at the provider.                         *)
AttachUnknownSubmission ==
    /\ "attach" \in Decisions /\ job # "none"
    /\ unknown = "pending" /\ task.status = "unknown" /\ mediaClaim = "reserving"
    /\ task' = [Released("in_progress") EXCEPT !.bound = TRUE]
    /\ unknown' = "reconciled" /\ orphan' = IF orphan = "pending" THEN "attached" ELSE orphan
    /\ UNCHANGED <<mediaClaim, listed, jobs, job, late, over, mediaWorker, mediaFaults, defers>>

(* It has none, and no row says otherwise.                                  *)
RequestUnknownSubmissionRelease ==
    /\ "release" \in Decisions /\ job = "none"
    /\ unknown = "pending" /\ task.status = "unknown"
    /\ mediaClaim = "reserving" /\ orphan = "none"
    /\ task' = Released("releasing") /\ unknown' = "requested"
    /\ UNCHANGED <<mediaClaim, listed, orphan, jobs, job, late, over, mediaWorker, mediaFaults, defers>>

(* Fault: the money is taken whether the claim still holds it or not.       *)
ReconcileOrphan_Unchecked(charge) ==
    /\ (IF charge THEN "charge" ELSE "close") \in Decisions /\ orphan = "pending"
    /\ mediaClaim' = IF charge THEN "committed" ELSE mediaClaim
    /\ orphan' = IF charge THEN "charged" ELSE "closed"
    /\ UNCHANGED <<task, listed, unknown, jobs, job, late, over, mediaWorker, mediaFaults, defers>>

(* A back charge needs a hold that is still held, or leaves the row open.   *)
ReconcileOrphan(charge) ==
    /\ (IF charge THEN "charge" ELSE "close") \in Decisions /\ orphan = "pending"
    /\ charge => mediaClaim = "reserving"
    /\ mediaClaim' = IF charge THEN "committed" ELSE mediaClaim
    /\ orphan' = IF charge THEN "charged" ELSE "closed"
    /\ UNCHANGED <<task, listed, unknown, jobs, job, late, over, mediaWorker, mediaFaults, defers>>

MediaStep(w) ==
    \/ MarkSubmitting(w) \/ SubmitAccepted(w) \/ SubmitRefused(w) \/ DeferSubmission(w)
    \/ MarkProviderSubmitted(w) \/ ReportOrphan(w) \/ MarkSubmissionUnknown(w)
    \/ Poll(w) \/ UpdateProgress(w) \/ DeferLease(w)
    \/ PersistPendingSuccess(w) \/ ClaimSettlementState(w) \/ Charge(w) \/ MarkTaskSucceeded(w)
    \/ FinishSuccessAfterSweptClaim(w) \/ CompleteSuccess(w)
    \/ AbortRead(w) \/ AbortClaim(w) \/ AbortTask(w) \/ CompleteFailure(w)

MediaNext ==
    \/ \E w \in MediaWorkers : AcquireLease(w) \/ MediaStep(w) \/ Interrupted(w)
    \/ LeaseEnds \/ JobEnds \/ TaskTimeout \/ ClaimLeaseEnds \/ SweepSelect \/ SweepAbort
    \/ AttachUnknownSubmission \/ RequestUnknownSubmissionRelease
    \/ \E charge \in BOOLEAN : ReconcileOrphan(charge)

MediaSpec == MediaInit /\ [][MediaNext]_mediaVars

(* Workers and the sweeper go on, leases end, time passes.                  *)
MediaFairness ==
    /\ \A w \in MediaWorkers : WF_mediaVars(MediaStep(w))
    /\ WF_mediaVars(\E w \in MediaWorkers : AcquireLease(w))
    /\ WF_mediaVars(LeaseEnds) /\ WF_mediaVars(TaskTimeout) /\ WF_mediaVars(SweepAbort)

FairMediaSpec == MediaSpec /\ MediaFairness

-----------------------------------------------------------------------------
(* Types of the rows; a task bound to its job is past submission, and one    *)
(* that is releasing was decided so.                                        *)
MediaTypeOK ==
    /\ task \in [video : BOOLEAN, status : Runnable \cup Terminal \cup {"unknown"},
                 bound : BOOLEAN, owner : MediaWorkers \cup {NoOwner}, due : BOOLEAN]
    /\ mediaClaim \in {"reserving", "committed", "aborted", "swept"} /\ listed \in BOOLEAN
    /\ unknown \in {"none", "pending", "requested", "reconciled", "cancelled"}
    /\ orphan \in {"none", "pending", "attached", "closed", "charged"}
    /\ jobs \in Nat /\ job \in {"none", "running", "done", "failed"}
    /\ late \in BOOLEAN /\ over \in BOOLEAN
    /\ mediaFaults \in 0..MaxMediaFaults /\ defers \in 0..MaxDefers
    /\ \A w \in MediaWorkers : mediaWorker[w].out \in {"none", "failed", "expired"}
    /\ task.bound => task.status \in Terminal \cup {"in_progress", "pending"}
    /\ task.status = "releasing" => unknown = "requested"

(* A task is submitted to the provider once: not again after a crash, a     *)
(* lost lease or an answer that never came (processLeased).                 *)
OneUpstreamJob == jobs <= 1

(* A product handed to the customer is paid for, or the row that tells the  *)
(* administrator of its job is open, or was dealt with before: he closed it *)
(* or attached the job, and no row is opened for the job again, so that an  *)
(* unpaid product may be on nobody's list.  A row charged has taken money.  *)
SucceededIsPaid ==
    /\ task.status = "succeeded" =>
           mediaClaim = "committed" \/ orphan \in {"pending", "attached", "closed"}
    /\ orphan = "charged" => mediaClaim = "committed"

(* A task that failed or expired has given its money back.                  *)
EndedWithoutProductIsFree ==
    task.status \in {"failed", "expired"} => mediaClaim \in {"aborted", "swept"}

(* The money of a claim is taken once or given back once, and stays so.     *)
MoneyMovesOnce == [][mediaClaim # "reserving" => mediaClaim' = mediaClaim]_mediaVars

(* What claimLeaseGrace says: the task's own timeout always acts before the *)
(* lease sweeper.                                                           *)
LeaseCoversTask == mediaClaim = "swept" => late

(* What processLeased says of a submission nobody knows the outcome of: an  *)
(* administrator can recover it.                                            *)
(* Violated: the sweeper aborts the claim of a task still in submission.    *)
UnknownIsRecoverable == task.status = "unknown" => mediaClaim = "reserving"

(* The administrator charged the job of a task that did not come to its     *)
(* product: its failure meets a claim that is committed, again and again.   *)
Stranded == orphan = "charged" /\ task.status \in Abortable

(* A task ends, or waits for the administrator, or is stranded by him.      *)
TaskEnds == <>[](task.status \in Terminal \cup {"unknown"} \/ Stranded)

(* A stored result is delivered and its money decided, whatever was         *)
(* interrupted on the way.                                                  *)
PendingIsSettled == task.status = "pending" ~> task.status = "succeeded"

(* A task is submitted once, paid or reported if it is delivered, free if   *)
(* it fails, and, where its claim has the task's own lease, not swept       *)
(* before its timeout.                                                      *)
MediaSafety ==
    /\ MediaTypeOK
    /\ OneUpstreamJob /\ SucceededIsPaid /\ EndedWithoutProductIsFree
    /\ ~task.video => LeaseCoversTask
=============================================================================
