---------------------------- MODULE QuotaReservations ----------------------------
(***************************************************************************)
(* The quota ledger beside the billing ledger: a reservation per claim, the *)
(* cost window it is counted in, its concurrency slot, and the reconciler   *)
(* that closes what an attempt left open.  A claim that was aborted is      *)
(* revived by the next attempt of its request, while the last one may still *)
(* be releasing.                                                            *)
(***************************************************************************)
EXTENDS Integers, FiniteSets, Sums

CONSTANTS
    Claims, Periods,
    Costs,                     \* predicted and actual costs
    Limit, Burst,              \* of the cost policy
    Slots,                     \* of the concurrency policy
    MaxAttempts, MaxTries,     \* attempts of a request, replays of a job
    MaxQuotaFaults

ASSUME QuotaAssumption ==
    /\ Periods \subseteq Nat /\ 0 \in Periods /\ Costs \subseteq Nat /\ IsFiniteSet(Claims)
    /\ Limit \in Nat /\ Burst \in Nat /\ Slots \in Nat
    /\ MaxAttempts \in Nat /\ MaxTries \in Nat /\ MaxQuotaFaults \in Nat

VARIABLES
    claim,                     \* the billing claim: status, attempts so far, actual cost
    resv,                      \* the quota_reservations row
    slot,                      \* the row of quota_concurrency_slots; "over" is a lease that ran out
    win,                       \* the windows of the cost policy
    period,                    \* the window of the present
    att,                       \* what each attempt does next
    job, parked,               \* quota_reconciliation_jobs: the open row, and a failed one
    sweep,                     \* what the stale sweep has decided
    quotaFaults

quotaVars == <<claim, resv, slot, win, period, att, job, parked, sweep, quotaFaults>>

Attempts == 1..MaxAttempts
Kinds == {"settle", "release"}
NoJob == [state |-> "none", tries |-> 0]

QuotaInit ==
    /\ claim = [c \in Claims |-> [status |-> "none", seq |-> 0, actual |-> 0]]
    /\ resv = [c \in Claims |-> [status |-> "none", cost |-> 0, actual |-> 0, at |-> 0, live |-> FALSE, by |-> 0]]
    /\ slot = [c \in Claims |-> "none"]
    /\ win = [p \in Periods |-> [reserved |-> 0, settled |-> 0, overage |-> 0]] /\ period = 0
    /\ att = [c \in Claims |-> [a \in Attempts |-> "new"]]
    /\ job = [c \in Claims |-> [k \in Kinds |-> NoJob]] /\ parked = [c \in Claims |-> FALSE]
    /\ sweep = [c \in Claims |-> "none"] /\ quotaFaults = 0

Pos(n) == IF n < 0 THEN 0 ELSE n
Held(c) == resv[c].status \in {"reserved", "recon"}
Moves(c, a, pc) == att' = [att EXCEPT ![c][a] = pc]
Fault == quotaFaults < MaxQuotaFaults /\ quotaFaults' = quotaFaults + 1

-----------------------------------------------------------------------------
(* An attempt takes the claim, new or aborted before. *)
Start(c) ==
    /\ claim[c].status \in {"none", "aborted"} /\ claim[c].seq < MaxAttempts
    /\ claim' = [claim EXCEPT ![c].status = "reserving", ![c].seq = @ + 1]
    /\ Moves(c, claim[c].seq + 1, "quota")
    /\ UNCHANGED <<resv, slot, win, period, job, parked, sweep, quotaFaults>>

(* Fault: what is settled is forgotten. *)
HasRoom_ReservedOnly(cost) == win[period].reserved + cost <= Limit + Burst

HasRoom(cost) == win[period].reserved + win[period].settled + cost <= Limit + Burst

(* Fault: a slot of the same scope is counted after the insert. *)
SlotFree_OneOver(c) == Cardinality({d \in Claims \ {c} : slot[d] = "held"}) <= Slots

(* quota_acquire_concurrency_slot counts the live slots under a lock.       *)
SlotFree(c) == Cardinality({d \in Claims \ {c} : slot[d] = "held"}) < Slots

(* A new reservation, or one released before that is evaluated again.       *)
Insert(c, a, cost) ==
    /\ resv' = [resv EXCEPT ![c] = [status |-> "reserved", cost |-> cost, actual |-> 0,
                                    at |-> period, live |-> TRUE, by |-> a]]
    /\ slot' = [slot EXCEPT ![c] = "held"]
    /\ win' = [win EXCEPT ![period].reserved = @ + cost]

(* Reserve: one serializable transaction.                                   *)
Reserve(c, a, cost) ==
    /\ att[c][a] = "quota"
    /\ LET fresh == resv[c].status \in {"none", "released"}
           reused == /\ resv[c].cost = cost
                     /\ (resv[c].status = "reserved" /\ resv[c].live) \/ resv[c].status = "settled"
       IN /\ IF fresh /\ HasRoom(cost) /\ SlotFree(c) THEN Insert(c, a, cost)
             ELSE UNCHANGED <<resv, slot, win>>
          /\ Moves(c, a, IF (fresh /\ HasRoom(cost) /\ SlotFree(c)) \/ reused THEN "run" ELSE "abort")
    /\ UNCHANGED <<claim, period, job, parked, sweep, quotaFaults>>

(* Every retry met a conflict and the request goes on without a             *)
(* reservation, or another failure refuses it.                              *)
ReserveFails(c, a) ==
    /\ att[c][a] = "quota" /\ Fault /\ \E pc \in {"open", "abort"} : Moves(c, a, pc)
    /\ UNCHANGED <<claim, resv, slot, win, period, job, parked, sweep>>

Commit(c, a, actual) ==
    /\ att[c][a] \in {"run", "open"} /\ Moves(c, a, "settle")
    /\ claim' = [claim EXCEPT ![c].status = "committed", ![c].actual = actual]
    /\ UNCHANGED <<resv, slot, win, period, job, parked, sweep, quotaFaults>>

Abort(c, a) ==
    /\ att[c][a] \in {"run", "open", "abort"} /\ Moves(c, a, "release")
    /\ claim' = [claim EXCEPT ![c].status = "aborted"]
    /\ UNCHANGED <<resv, slot, win, period, job, parked, sweep, quotaFaults>>

(* A process dies; the lease sweeper aborts the claim it left reserving.    *)
AttemptDies(c, a) ==
    /\ att[c][a] \notin {"new", "orphan", "done"} /\ Fault
    /\ Moves(c, a, IF att[c][a] \in {"quota", "run", "open", "abort"} THEN "orphan" ELSE "done")
    /\ UNCHANGED <<claim, resv, slot, win, period, job, parked, sweep>>

SweepClaim(c, a) ==
    /\ att[c][a] = "orphan" /\ Moves(c, a, "release")
    /\ claim' = [claim EXCEPT ![c].status = "aborted"]
    /\ UNCHANGED <<resv, slot, win, period, job, parked, sweep, quotaFaults>>

-----------------------------------------------------------------------------
(* marginalBudgetOverage: what a settlement adds beyond the limit.          *)
Overage(w, predicted, actual) ==
    LET before == w.reserved + w.settled
    IN Pos(Pos(before - predicted + actual - Limit) - Pos(before - Limit))

FreeSlot(c) == slot' = [slot EXCEPT ![c] = IF @ \in {"held", "over"} THEN "released" ELSE @]

(* Fault: the window of the present is settled, not the reservation's. *)
CloseSettled_Now(c) ==
    /\ resv' = [resv EXCEPT ![c].status = "settled", ![c].actual = claim[c].actual]
    /\ win' = [win EXCEPT ![period] =
                 [reserved |-> Pos(@.reserved - resv[c].cost), settled |-> @.settled + claim[c].actual,
                  overage |-> @.overage + Overage(@, resv[c].cost, claim[c].actual)]]
    /\ FreeSlot(c)

CloseSettled(c) ==
    /\ resv' = [resv EXCEPT ![c].status = "settled", ![c].actual = claim[c].actual]
    /\ win' = [win EXCEPT ![resv[c].at] =
                 [reserved |-> Pos(@.reserved - resv[c].cost), settled |-> @.settled + claim[c].actual,
                  overage |-> @.overage + Overage(@, resv[c].cost, claim[c].actual)]]
    /\ FreeSlot(c)

(* Fault: the slot waits for its lease. *)
CloseReleased_KeepsSlot(c) ==
    /\ resv' = [resv EXCEPT ![c].status = "released"]
    /\ win' = [win EXCEPT ![resv[c].at].reserved = Pos(@ - resv[c].cost)]
    /\ UNCHANGED slot

CloseReleased(c) ==
    /\ resv' = [resv EXCEPT ![c].status = "released"]
    /\ win' = [win EXCEPT ![resv[c].at].reserved = Pos(@ - resv[c].cost)]
    /\ FreeSlot(c)

(* How Settle and Release answer.                                           *)
SettleAnswer(c) == IF resv[c].status = "released" THEN "refused" ELSE "complete"

(* Fault: the claim is not looked at. *)
ReleaseAnswer_AnyClaim(c) == IF resv[c].status = "settled" THEN "refused" ELSE "complete"

ReleaseAnswer(c) ==
    CASE resv[c].status = "settled" -> "refused"
      [] resv[c].status = "recon" /\ claim[c].status = "reserving" -> "deferred"
      [] resv[c].status = "reserved" /\ claim[c].status # "aborted" -> "invalidated"
      [] OTHER -> "complete"

SettleTx(c) == IF Held(c) THEN CloseSettled(c) ELSE UNCHANGED <<resv, slot, win>>
ReleaseTx(c) ==
    IF Held(c) /\ ReleaseAnswer(c) = "complete" THEN CloseReleased(c) ELSE UNCHANGED <<resv, slot, win>>

(* Rows that wait for the reconciler: a job of the same kind that is open   *)
(* is left as it is.                                                        *)
Enqueue(c, k) == job' = [job EXCEPT ![c][k] = IF @.state = "none" THEN [NoJob EXCEPT !.state = "queued"] ELSE @]

(* PrepareQuotaReleaseRecovery, of a claim that is still aborted.           *)
Recoverable(c) == Held(c) /\ claim[c].status = "aborted"
Prepare(c) == resv' = [resv EXCEPT ![c].status = "recon", ![c].live = FALSE]
MarkNeeded(c) == resv' = [resv EXCEPT ![c].status = IF @ = "reserved" THEN "recon" ELSE @]

(* After the billing transaction the attempt closes its reservation.        *)
Settle(c, a) ==
    /\ att[c][a] = "settle" /\ SettleTx(c)
    /\ Moves(c, a, IF SettleAnswer(c) = "complete" THEN "done" ELSE "enqueue_settle")
    /\ UNCHANGED <<claim, period, job, parked, sweep, quotaFaults>>

Release(c, a) ==
    /\ att[c][a] = "release" /\ ReleaseTx(c) /\ Moves(c, a, "done")
    /\ UNCHANGED <<claim, period, job, parked, sweep, quotaFaults>>

(* The transaction fails for good.                                          *)
CloseFails(c, a) ==
    /\ att[c][a] \in {"settle", "release"} /\ Fault
    /\ Moves(c, a, IF att[c][a] = "settle" THEN "enqueue_settle" ELSE "prepare")
    /\ UNCHANGED <<claim, resv, slot, win, period, job, parked, sweep>>

HandOff(c, a) ==
    /\ att[c][a] = "prepare"
    /\ IF Recoverable(c) THEN Prepare(c) /\ Moves(c, a, "enqueue_release")
       ELSE UNCHANGED resv /\ Moves(c, a, "done")
    /\ UNCHANGED <<claim, slot, win, period, job, parked, sweep, quotaFaults>>

EnqueueJob(c, a) ==
    /\ att[c][a] \in {"enqueue_settle", "enqueue_release"} /\ Moves(c, a, "done")
    /\ Enqueue(c, IF att[c][a] = "enqueue_settle" THEN "settle" ELSE "release")
    /\ UNCHANGED <<claim, resv, slot, win, period, parked, sweep, quotaFaults>>

-----------------------------------------------------------------------------
(* The reconciler takes a job, replays it and writes what came of it.       *)
JobRun(c, k) ==
    /\ job[c][k].state = "queued"
    /\ job' = [job EXCEPT ![c][k] = [state |-> "running", tries |-> IF @.tries < MaxTries THEN @.tries + 1 ELSE @.tries]]
    /\ UNCHANGED <<claim, resv, slot, win, period, att, parked, sweep, quotaFaults>>

JobReplay(c, k) ==
    /\ job[c][k].state = "running"
    /\ IF k = "settle" THEN SettleTx(c) ELSE ReleaseTx(c)
    /\ job' = [job EXCEPT ![c][k].state = IF k = "settle" THEN SettleAnswer(c) ELSE ReleaseAnswer(c)]
    /\ UNCHANGED <<claim, period, att, parked, sweep, quotaFaults>>

JobReplayFails(c, k) ==
    /\ job[c][k].state = "running" /\ Fault /\ job' = [job EXCEPT ![c][k].state = "refused"]
    /\ IF k = "settle" THEN MarkNeeded(c)
       ELSE IF Recoverable(c) THEN Prepare(c) ELSE UNCHANGED resv
    /\ UNCHANGED <<claim, slot, win, period, att, parked, sweep>>

(* failRunningJob: a failed job is not due for years.                       *)
JobParks(j) == j.state = "invalidated" \/ (j.state = "refused" /\ j.tries >= MaxTries)

JobClose(c, k) ==
    /\ job[c][k].state \in {"complete", "refused", "deferred", "invalidated"}
    /\ LET j == job[c][k]
           park == JobParks(j)
       IN /\ job' = [job EXCEPT ![c][k] = IF park \/ j.state = "complete" THEN NoJob ELSE [j EXCEPT !.state = "queued"]]
          /\ parked' = [parked EXCEPT ![c] = @ \/ park]
    /\ UNCHANGED <<claim, resv, slot, win, period, att, sweep, quotaFaults>>

(* The worker of a job dies, and after 15 minutes another may take it.      *)
JobLockEnds(c, k) ==
    /\ job[c][k].state \notin {"none", "queued"} /\ Fault
    /\ job' = [job EXCEPT ![c][k].state = "queued"]
    /\ UNCHANGED <<claim, resv, slot, win, period, att, parked, sweep>>

(* Fault: only aborted claims are listed. *)
Stale_AbortedOnly(c) ==
    /\ Held(c) /\ ~resv[c].live /\ claim[c].status = "aborted"
    /\ ~parked[c] /\ \A k \in Kinds : job[c][k].state = "none"

(* ListStaleReservedQuotaReservations.                                      *)
Stale(c) ==
    /\ Held(c) /\ ~resv[c].live /\ claim[c].status \in {"committed", "aborted"}
    /\ ~parked[c] /\ \A k \in Kinds : job[c][k].state = "none"

SweepList(c) ==
    /\ sweep[c] = "none" /\ Stale(c) /\ sweep' = [sweep EXCEPT ![c] = "listed"]
    /\ UNCHANGED <<claim, resv, slot, win, period, att, job, parked, quotaFaults>>

SweepRecheck(c) ==
    /\ sweep[c] = "listed"
    /\ sweep' = [sweep EXCEPT ![c] =
         CASE ~Held(c) \/ resv[c].live -> "none"
           [] claim[c].status = "committed" -> "settle"
           [] claim[c].status = "aborted" -> "release"
           [] OTHER -> "none"]
    /\ UNCHANGED <<claim, resv, slot, win, period, att, job, parked, quotaFaults>>

SweepAct(c) ==
    /\ sweep[c] \in Kinds /\ sweep' = [sweep EXCEPT ![c] = "none"]
    /\ IF sweep[c] = "settle" THEN SettleTx(c) ELSE ReleaseTx(c)
    /\ IF sweep[c] = "settle" /\ SettleAnswer(c) = "refused" THEN Enqueue(c, "settle") ELSE UNCHANGED job
    /\ UNCHANGED <<claim, period, att, parked, quotaFaults>>

SweepFails(c) ==
    /\ sweep[c] \in Kinds /\ Fault /\ sweep' = [sweep EXCEPT ![c] = "none"]
    /\ IF sweep[c] = "settle" THEN MarkNeeded(c) /\ Enqueue(c, "settle")
       ELSE IF Recoverable(c) THEN Prepare(c) /\ Enqueue(c, "release")
       ELSE UNCHANGED <<resv, job>>
    /\ UNCHANGED <<claim, slot, win, period, att, parked>>

-----------------------------------------------------------------------------
(* The lease outlives the attempt that took it.                             *)
LeaseEnds(c) ==
    /\ resv[c].live /\ att[c][resv[c].by] \notin {"run", "open"}
    /\ resv' = [resv EXCEPT ![c].live = FALSE]
    /\ slot' = [slot EXCEPT ![c] = IF @ = "held" THEN "over" ELSE @]
    /\ UNCHANGED <<claim, win, period, att, job, parked, sweep, quotaFaults>>

NextPeriod ==
    /\ period + 1 \in Periods /\ period' = period + 1
    /\ UNCHANGED <<claim, resv, slot, win, att, job, parked, sweep, quotaFaults>>

(* Fault: a refund is delivered again, and nothing stops it at zero. *)
ReverseCost_Unclamped(c) ==
    /\ resv[c].status = "settled" /\ resv[c].actual > 0
    /\ win' = [win EXCEPT ![resv[c].at].settled = @ - resv[c].actual]
    /\ UNCHANGED <<claim, resv, slot, period, att, job, parked, sweep, quotaFaults>>

(* A refund of a settled claim is taken back from its window, never below   *)
(* nothing.                                                                 *)
ReverseCost(c) ==
    /\ resv[c].status = "settled" /\ resv[c].actual > 0
    /\ win' = [win EXCEPT ![resv[c].at].settled = Pos(@ - resv[c].actual)]
    /\ resv' = [resv EXCEPT ![c].actual = 0]
    /\ UNCHANGED <<claim, slot, period, att, job, parked, sweep, quotaFaults>>

Attempt(c, a) ==
    \/ \E cost \in Costs : Reserve(c, a, cost)
    \/ (\E cost \in Costs : Commit(c, a, cost)) \/ Abort(c, a)
    \/ Settle(c, a) \/ Release(c, a) \/ HandOff(c, a) \/ EnqueueJob(c, a) \/ SweepClaim(c, a)

Reconcile(c) ==
    \/ \E k \in Kinds : JobRun(c, k) \/ JobReplay(c, k) \/ JobClose(c, k)
    \/ SweepList(c) \/ SweepRecheck(c) \/ SweepAct(c)

QuotaNext ==
    \/ \E c \in Claims :
          \/ Start(c) \/ Reconcile(c) \/ SweepFails(c) \/ LeaseEnds(c) \/ ReverseCost(c)
          \/ \E a \in Attempts : Attempt(c, a) \/ ReserveFails(c, a) \/ AttemptDies(c, a) \/ CloseFails(c, a)
          \/ \E k \in Kinds : JobReplayFails(c, k) \/ JobLockEnds(c, k)
    \/ NextPeriod

QuotaSpec == QuotaInit /\ [][QuotaNext]_quotaVars

(* Attempts end, the reconciler and the lease sweeper go round, leases end. *)
QuotaFairness ==
    \A c \in Claims :
       /\ \A a \in Attempts : WF_quotaVars(Attempt(c, a))
       /\ \A k \in Kinds : WF_quotaVars(JobRun(c, k) \/ JobReplay(c, k) \/ JobClose(c, k))
       /\ WF_quotaVars(SweepList(c) \/ SweepRecheck(c) \/ SweepAct(c))
       /\ WF_quotaVars(LeaseEnds(c))

FairQuotaSpec == QuotaSpec /\ QuotaFairness

-----------------------------------------------------------------------------
(* Types of the rows.                                                       *)
QuotaTypeOK ==
    /\ claim \in [Claims -> [status : {"none", "reserving", "committed", "aborted"}, seq : 0..MaxAttempts, actual : Costs \cup {0}]]
    /\ resv \in [Claims -> [status : {"none", "reserved", "recon", "settled", "released"}, cost : Costs \cup {0},
                            actual : Costs \cup {0}, at : Periods, live : BOOLEAN, by : 0..MaxAttempts]]
    /\ slot \in [Claims -> {"none", "held", "over", "released"}]
    /\ win \in [Periods -> [reserved : Nat, settled : Nat, overage : Nat]] /\ period \in Periods
    /\ att \in [Claims -> [Attempts -> {"new", "quota", "run", "open", "abort", "orphan", "settle", "release",
                                        "prepare", "enqueue_settle", "enqueue_release", "done"}]]
    /\ job \in [Claims -> [Kinds -> [state : {"none", "queued", "running", "complete", "refused", "deferred", "invalidated"},
                                     tries : 0..MaxTries]]]
    /\ parked \in [Claims -> BOOLEAN] /\ sweep \in [Claims -> {"none", "listed"} \cup Kinds] /\ quotaFaults \in 0..MaxQuotaFaults

(* What the reservations made in a window hold, and what those settled cost *)
Reserved(p) == [c \in Claims |-> IF Held(c) /\ resv[c].at = p THEN resv[c].cost ELSE 0]
Settled(p) ==
    [c \in Claims |-> IF resv[c].status = "settled" /\ resv[c].at = p THEN resv[c].actual ELSE 0]

(* Each window is exactly what the reservations made in it hold and what    *)
(* those settled have cost: nothing is counted twice, lost, or counted in   *)
(* the window of another day (applySettlementWindows, applyReleaseWindows). *)
WindowsAgree ==
    \A p \in Periods :
        /\ win[p].reserved = SumOf(Reserved(p), Claims)
        /\ win[p].settled = SumOf(Settled(p), Claims)

(* A window exceeds its limit by no more than what its overage tells.       *)
OverrunIsRecorded ==
    \A p \in Periods : win[p].reserved + win[p].settled <= Limit + Burst + win[p].overage

(* The concurrency limit holds whatever order attempts come and go in.      *)
SlotLimit == Cardinality({c \in Claims : slot[c] = "held"}) <= Slots

(* No slot outlives its reservation.                                        *)
SlotFollowsReservation == \A c \in Claims : slot[c] \in {"held", "over"} => Held(c)

(* The reservation an attempt was admitted with is not released under it by *)
(* the late release, the job or the sweep of an attempt before.             *)
AdmittedIsCounted ==
    \A c \in Claims, a \in Attempts : att[c][a] = "run" => resv[c].status = "reserved"

(* What DefaultLeaseTTL says: a slot outlives the request it was taken for. *)
(* Violated: a reused reservation keeps the lease of the attempt before.    *)
SlotOutlivesAttempt ==
    \A c \in Claims, a \in Attempts : att[c][a] = "run" => slot[c] = "held"

Closing(c) == Held(c) /\ claim[c].status \in {"committed", "aborted"}

(* A reservation whose claim has ended is closed, unless its job was parked *)
(* or the claim revived.                                                    *)
EndedIsClosed ==
    \A c \in Claims : Closing(c) ~> (~Closing(c) \/ parked[c])

(* What RunOnce says of its two halves: together they leave nothing frozen. *)
(* Violated: a claim with a parked job is passed over by the sweep.         *)
NothingStaysFrozen == \A c \in Claims : Closing(c) ~> ~Closing(c)

(* Attempts, jobs and sweeps that come late or twice leave the windows, the *)
(* slots and the reservations of running attempts right.                    *)
QuotaSafety ==
    /\ QuotaTypeOK
    /\ WindowsAgree /\ OverrunIsRecorded
    /\ SlotLimit /\ SlotFollowsReservation /\ AdmittedIsCounted
=============================================================================
