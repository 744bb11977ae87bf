------------------------------ MODULE SlotAdmission ------------------------------
(***************************************************************************)
(* How requests of one gateway process get a concurrency slot on one        *)
(* account of one binding: the binding's session lock, the serializable     *)
(* transaction behind it, the bounded queue of the requests that found no   *)
(* slot, and the ways a slot comes back.                                    *)
(***************************************************************************)
EXTENDS Integers, FiniteSets

CONSTANTS
    Requests,
    Claimless,                 \* those that hold no billing claim (countTokens)
    Unlimited,                 \* those of a binding without a concurrency limit
    Caps,                      \* what an account's cap_concurrency may be
    BindingLimit,              \* MaxParallelRequests of the binding
    MaxWaiting,                \* of the wait plan
    MaxSlotFaults, MaxSleeps,  \* bounds on faults and on sleeps of one waiter
    NoRequest

ASSUME AdmissionAssumption ==
    /\ Claimless \cap Unlimited = {} /\ Claimless \cup Unlimited \subseteq Requests
    /\ Caps \subseteq Nat /\ BindingLimit \in Nat \ {0} /\ MaxWaiting \in Nat
    /\ MaxSlotFaults \in Nat /\ MaxSleeps \in Nat /\ NoRequest \notin Requests

VARIABLES
    pc,
    out,                       \* what the last Acquire came to
    tries, sleeps,
    seen,                      \* active acquisitions of the binding, as read by Select
    stale,                     \* the account row changed after the snapshot
    row, expired,              \* pool_slot_acquisitions, and whether its lease is over
    cap, inFlight,             \* cap_concurrency and in_flight_count of the account
    slotClaim, token,          \* the claim, and whether it bears the slot's token
    lock,                      \* the request on whose connection the session lock is
    place, depth,              \* the closure of TryAcquire, and the Tracker's count
    slotFaults

reqVars == <<pc, out, tries, sleeps, seen>>
slotVars == <<row, expired, inFlight, stale>>
claimVars == <<slotClaim, token>>
queueVars == <<place, depth>>
admissionVars == <<reqVars, cap, slotVars, claimVars, lock, queueVars, slotFaults>>

Limited == Requests \ Unlimited
Claimed == Requests \ Claimless
SlotAttempts == 3              \* slotAcquireSerializableAttempts
Active == Cardinality({r \in Limited : row[r] = "acquired"})
InTransaction == {"count", "increment", "commit"}
Over == {"done", "failed", "crashed"}

AdmissionInit ==
    /\ pc = [r \in Requests |-> "new"] /\ out = [r \in Requests |-> "none"]
    /\ tries = [r \in Requests |-> 0] /\ sleeps = [r \in Requests |-> 0]
    /\ seen = [r \in Requests |-> 0] /\ stale = [r \in Requests |-> FALSE]
    /\ row = [r \in Requests |-> "none"] /\ expired = [r \in Requests |-> FALSE]
    /\ cap \in Caps /\ inFlight = 0
    /\ slotClaim = [r \in Requests |-> IF r \in Claimless THEN "none" ELSE "reserving"]
    /\ token = [r \in Requests |-> FALSE]
    /\ lock = NoRequest /\ place = [r \in Requests |-> FALSE] /\ depth = 0 /\ slotFaults = 0

At(r, p) == pc[r] = p
MoveTo(r, p) == pc' = [pc EXCEPT ![r] = p]
Answer(r, o, p) == MoveTo(r, p) /\ out' = [out EXCEPT ![r] = o]
SlotFault == slotFaults < MaxSlotFaults /\ slotFaults' = slotFaults + 1

(* An UPDATE of the account row waits for the transaction that holds it.    *)
RowFree == \A r \in Requests : ~At(r, "commit")

(* Every snapshot taken before an UPDATE of the account row is stale to it. *)
AccountBecomes(n) ==
    /\ inFlight' = n
    /\ stale' = [r \in Requests |-> stale[r] \/ At(r, "increment")]

-----------------------------------------------------------------------------
(* BindingConcurrencySelector: a quick refusal from a count read outside    *)
(* any lock; it decides nothing in favour of a request.                     *)
Select(r) ==
    /\ At(r, "new") \/ At(r, "reselect")
    /\ seen' = [seen EXCEPT ![r] = Active] /\ tries' = [tries EXCEPT ![r] = 0]
    /\ IF r \in Limited /\ Active >= BindingLimit THEN Answer(r, "limited", "decide")
       ELSE MoveTo(r, IF r \in Limited THEN "lock" ELSE "count") /\ UNCHANGED out
    /\ UNCHANGED <<sleeps, slotVars, claimVars, lock, queueVars, slotFaults>>

(* acquireBindingLockConnection polls; a connection that may have got the   *)
(* lock without saying so is closed, and a cancelled request stops polling. *)
TryLock(r) ==
    /\ At(r, "lock") /\ lock = NoRequest /\ lock' = r /\ MoveTo(r, "count")
    /\ UNCHANGED <<out, tries, sleeps, seen, slotVars, claimVars, queueVars,
                   slotFaults>>

LockFails(r) ==
    /\ At(r, "lock") /\ SlotFault /\ Answer(r, "error", "decide")
    /\ UNCHANGED <<tries, sleeps, seen, slotVars, claimVars, lock, queueVars>>

(* Fault: the count of the quick refusal is trusted. *)
CountInTransaction_Trusts(r) ==
    /\ At(r, "count")
    /\ IF r \in Limited /\ seen[r] >= BindingLimit THEN Answer(r, "limited", "unlock")
       ELSE MoveTo(r, "increment") /\ UNCHANGED out
    /\ stale' = [stale EXCEPT ![r] = FALSE]
    /\ UNCHANGED <<tries, sleeps, seen, row, expired, inFlight, claimVars, lock,
                   queueVars,
                   slotFaults>>

(* acquireInTransaction: the first statement takes the snapshot.            *)
CountInTransaction(r) ==
    /\ At(r, "count")
    /\ IF r \in Limited /\ Active >= BindingLimit THEN Answer(r, "limited", "unlock")
       ELSE MoveTo(r, "increment") /\ UNCHANGED out
    /\ seen' = [seen EXCEPT ![r] = 0] /\ stale' = [stale EXCEPT ![r] = FALSE]
    /\ UNCHANGED <<tries, sleeps, row, expired, inFlight, claimVars, lock, queueVars,
                   slotFaults>>

(* Fault: in_flight_count <= cap_concurrency. *)
IncrementInFlight_OffByOne(r) ==
    /\ At(r, "increment") /\ RowFree
    /\ CASE stale[r] -> Answer(r, "conflict", "unlock")
         [] ~stale[r] /\ inFlight > cap -> Answer(r, "no_slot", "unlock")
         [] OTHER -> MoveTo(r, "commit") /\ UNCHANGED out
    /\ UNCHANGED <<tries, sleeps, seen, slotVars, claimVars, lock, queueVars,
                   slotFaults>>

IncrementInFlight(r) ==
    /\ At(r, "increment") /\ RowFree
    /\ CASE stale[r] -> Answer(r, "conflict", "unlock")
         [] ~stale[r] /\ inFlight >= cap -> Answer(r, "no_slot", "unlock")
         [] OTHER -> MoveTo(r, "commit") /\ UNCHANGED out
    /\ UNCHANGED <<tries, sleeps, seen, slotVars, claimVars, lock, queueVars,
                   slotFaults>>

(* InsertSlotAcquisition and COMMIT, and a commit that is done without the  *)
(* process learning of it.                                                  *)
CommitSlot(r) ==
    /\ At(r, "commit")
    /\ row' = [row EXCEPT ![r] = "acquired"] /\ AccountBecomes(inFlight + 1)
    /\ \/ Answer(r, "got", "unlock") /\ UNCHANGED slotFaults
       \/ SlotFault /\ Answer(r, "error", "unlock")
    /\ UNCHANGED <<tries, sleeps, seen, expired, claimVars, lock, queueVars>>

(* A statement fails or the request is cancelled: the deferred Rollback.    *)
Rollback(r) ==
    /\ pc[r] \in InTransaction /\ SlotFault /\ Answer(r, "error", "unlock")
    /\ UNCHANGED <<tries, sleeps, seen, slotVars, claimVars, lock, queueVars>>

Retried(r) == out[r] = "conflict" /\ tries[r] + 1 < SlotAttempts

(* Fault: a connection whose unlock failed goes back to the pool. *)
Unlock_Returned(r) ==
    /\ At(r, "unlock")
    /\ tries' = [tries EXCEPT ![r] = IF Retried(r) THEN @ + 1 ELSE 0]
    /\ IF Retried(r) THEN MoveTo(r, IF r \in Limited THEN "lock" ELSE "count")
       ELSE MoveTo(r, "decide")
    /\ \/ lock' = (IF lock = r THEN NoRequest ELSE lock) /\ UNCHANGED slotFaults
       \/ r \in Limited /\ SlotFault /\ UNCHANGED lock
    /\ UNCHANGED <<out, sleeps, seen, slotVars, claimVars, queueVars>>

(* releaseBindingLockConnection: unlocked, or else the connection closed,   *)
(* the lock is free.  retrySerializableSlotAcquire starts over from here.   *)
Unlock(r) ==
    /\ At(r, "unlock")
    /\ tries' = [tries EXCEPT ![r] = IF Retried(r) THEN @ + 1 ELSE 0]
    /\ IF Retried(r) THEN MoveTo(r, IF r \in Limited THEN "lock" ELSE "count")
       ELSE MoveTo(r, "decide")
    /\ lock' = IF lock = r THEN NoRequest ELSE lock
    /\ UNCHANGED <<out, sleeps, seen, slotVars, claimVars, queueVars, slotFaults>>

-----------------------------------------------------------------------------
(* The place is given back by whoever has one (once.Do).                    *)
GiveBackPlace(r) ==
    /\ place' = [place EXCEPT ![r] = FALSE]
    /\ depth' = IF place[r] THEN depth - 1 ELSE depth

(* What Acquire came to, outside the queue: no slot means a place in it for *)
(* a request that can wait, everything else but a slot is a failure.        *)
DecideFirst(r) ==
    /\ At(r, "decide") /\ ~place[r]
    /\ CASE out[r] = "got" ->
              MoveTo(r, IF r \in Claimed THEN "write" ELSE "running") /\ UNCHANGED queueVars
         [] out[r] = "no_slot" /\ r \in Claimed /\ depth + 1 <= MaxWaiting ->
              /\ MoveTo(r, "reselect")
              /\ place' = [place EXCEPT ![r] = TRUE] /\ depth' = depth + 1
         [] OTHER -> MoveTo(r, "failing") /\ UNCHANGED queueVars
    /\ UNCHANGED <<out, tries, sleeps, seen, slotVars, claimVars, lock, slotFaults>>

(* Fault: only a waiter that got its slot or ran out of time leaves. *)
DecideWaiting_Error(r) ==
    /\ At(r, "decide") /\ place[r]
    /\ CASE out[r] = "got" -> MoveTo(r, "write") /\ UNCHANGED <<sleeps, queueVars>>
         [] out[r] = "no_slot" ->
              \/ sleeps[r] < MaxSleeps /\ sleeps' = [sleeps EXCEPT ![r] = @ + 1]
                 /\ MoveTo(r, "reselect") /\ UNCHANGED queueVars
              \/ MoveTo(r, "failing") /\ GiveBackPlace(r) /\ UNCHANGED sleeps
         [] OTHER -> MoveTo(r, "failing") /\ UNCHANGED <<sleeps, queueVars>>
    /\ UNCHANGED <<out, tries, seen, slotVars, claimVars, lock, slotFaults>>

(* Executor.Wait: a slot ends the wait, and so does an error; without a     *)
(* slot the waiter sleeps, unless its time is up or it is cancelled.        *)
DecideWaiting(r) ==
    /\ At(r, "decide") /\ place[r]
    /\ CASE out[r] = "got" -> MoveTo(r, "write") /\ UNCHANGED <<sleeps, queueVars>>
         [] out[r] = "no_slot" ->
              \/ sleeps[r] < MaxSleeps /\ sleeps' = [sleeps EXCEPT ![r] = @ + 1]
                 /\ MoveTo(r, "reselect") /\ UNCHANGED queueVars
              \/ MoveTo(r, "failing") /\ GiveBackPlace(r) /\ UNCHANGED sleeps
         [] OTHER -> MoveTo(r, "failing") /\ GiveBackPlace(r) /\ UNCHANGED sleeps
    /\ UNCHANGED <<out, tries, seen, slotVars, claimVars, lock, slotFaults>>

-----------------------------------------------------------------------------
(* Fault: a slot that was swept is counted down once more. *)
GiveBackRow_Twice(r, status) ==
    IF row[r] # "none"
    THEN RowFree /\ row' = [row EXCEPT ![r] = status] /\ AccountBecomes(inFlight - 1)
    ELSE UNCHANGED <<row, inFlight, stale>>

(* ReleaseSlotAndDecrementInFlight.                                         *)
GiveBackRow(r, status) ==
    IF row[r] = "acquired"
    THEN /\ RowFree /\ row' = [row EXCEPT ![r] = status]
         /\ AccountBecomes(IF inFlight > 0 THEN inFlight - 1 ELSE 0)
    ELSE UNCHANGED <<row, inFlight, stale>>

(* WriteAcquisition; a claim that was ended meanwhile gives the slot back.  *)
(* Either way the selection is over, and so is the wait for it.             *)
WriteAcquisition(r) ==
    /\ At(r, "write")
    /\ \/ slotClaim[r] = "reserving" /\ token' = [token EXCEPT ![r] = TRUE]
          /\ MoveTo(r, "running") /\ UNCHANGED <<row, inFlight, stale, slotFaults>>
       \/ slotClaim[r] # "reserving" /\ GiveBackRow(r, "released")
          /\ MoveTo(r, "failing") /\ UNCHANGED <<token, slotFaults>>
       \/ SlotFault /\ MoveTo(r, "failing") /\ UNCHANGED token
          /\ (GiveBackRow(r, "released") \/ UNCHANGED <<row, inFlight, stale>>)
    /\ GiveBackPlace(r)
    /\ UNCHANGED <<out, tries, sleeps, seen, expired, slotClaim, lock>>

(* A claim in "delivering" is still reserving, with a settlement intent     *)
(* that its delivery gate moved to delivering: Abort refuses it from there. *)
OpenClaim(r) == slotClaim[r] \in {"reserving", "delivering"}

MarkDelivering(r) ==
    /\ At(r, "running") /\ slotClaim[r] = "reserving"
    /\ slotClaim' = [slotClaim EXCEPT ![r] = "delivering"]
    /\ UNCHANGED <<reqVars, slotVars, token, lock, queueVars, slotFaults>>

(* Settle and Abort end the claim and give back the slot of its token; a    *)
(* request without a claim calls Release.                                   *)
EndClaim(r) ==
    /\ slotClaim' = [slotClaim EXCEPT ![r] = IF OpenClaim(r) THEN "ended" ELSE @]
    /\ IF r \in Claimless \/ (OpenClaim(r) /\ token[r]) THEN GiveBackRow(r, "released")
       ELSE UNCHANGED <<row, inFlight, stale>>

(* A settlement that fails leaves the claim as it is.                       *)
Finish(r) ==
    /\ At(r, "running") /\ MoveTo(r, "done")
    /\ \/ EndClaim(r) /\ UNCHANGED slotFaults
       \/ /\ slotClaim[r] = "delivering" /\ SlotFault
          /\ UNCHANGED <<slotClaim, row, inFlight, stale>>
    /\ UNCHANGED <<out, tries, sleeps, seen, expired, token, lock, queueVars>>

(* A recovery settles it (SettlementPipeline), if it has the evidence to.   *)
SettleLater(r) ==
    /\ slotClaim[r] = "delivering" /\ pc[r] \in Over /\ EndClaim(r)
    /\ UNCHANGED <<reqVars, expired, token, lock, queueVars, slotFaults>>

(* Nothing was acquired that this request knows of.                         *)
Fail(r) ==
    /\ At(r, "failing") /\ MoveTo(r, "failed")
    /\ slotClaim' = [slotClaim EXCEPT ![r] = IF @ = "reserving" THEN "ended" ELSE @]
    /\ UNCHANGED <<out, tries, sleeps, seen, slotVars, token, lock, queueVars,
                   slotFaults>>

(* The process dies: its connections close, its queue is gone.              *)
Crash ==
    /\ SlotFault /\ \E r \in Requests : pc[r] \notin Over \cup {"new"}
    /\ pc' = [r \in Requests |-> IF pc[r] \in Over \cup {"new"} THEN pc[r] ELSE "crashed"]
    /\ lock' = NoRequest /\ place' = [r \in Requests |-> FALSE] /\ depth' = 0
    /\ UNCHANGED <<out, tries, sleeps, seen, slotVars, claimVars>>

-----------------------------------------------------------------------------
(* DefaultLeaseDuration has passed; nothing renews the lease.               *)
LeaseExpires(r) ==
    /\ row[r] = "acquired" /\ ~expired[r] /\ expired' = [expired EXCEPT ![r] = TRUE]
    /\ UNCHANGED <<reqVars, row, inFlight, stale, claimVars, lock, queueVars,
                   slotFaults>>

(* LeaseSweeper over claims: Abort of a claim whose request died or waits,  *)
(* unless its delivery had begun (ErrPostDeliverySettlementPending).        *)
(* (What it does to one that runs is a matter of BillingLedger.)            *)
SweepClaimOfSlot(r) ==
    /\ slotClaim[r] = "reserving" /\ pc[r] # "running"
    /\ EndClaim(r)
    /\ UNCHANGED <<reqVars, expired, token, lock, queueVars, slotFaults>>

(* Fault: every slot with an expired lease. *)
SweepOrphanedSlot_All(r) ==
    /\ row[r] = "acquired" /\ expired[r]
    /\ GiveBackRow(r, "swept")
    /\ UNCHANGED <<reqVars, expired, claimVars, lock, queueVars, slotFaults>>

(* Fault: an inner join with the claims, so that a slot without one stays. *)
SweepOrphanedSlot_Joined(r) ==
    /\ row[r] = "acquired" /\ expired[r] /\ slotClaim[r] = "ended"
    /\ GiveBackRow(r, "swept")
    /\ UNCHANGED <<reqVars, expired, claimVars, lock, queueVars, slotFaults>>

(* SweepOrphanedSlotAcquisitions: not of a claim that is still reserving.   *)
SweepOrphanedSlot(r) ==
    /\ row[r] = "acquired" /\ expired[r] /\ ~OpenClaim(r)
    /\ GiveBackRow(r, "swept")
    /\ UNCHANGED <<reqVars, expired, claimVars, lock, queueVars, slotFaults>>

Progress(r) ==
    \/ Select(r) \/ TryLock(r) \/ CountInTransaction(r) \/ IncrementInFlight(r) \/ CommitSlot(r)
    \/ Unlock(r) \/ DecideFirst(r) \/ DecideWaiting(r) \/ WriteAcquisition(r)
    \/ Finish(r) \/ Fail(r)
Sweeps(r) == SweepClaimOfSlot(r) \/ SweepOrphanedSlot(r)

(* Nobody changes the account's cap while its requests are under way.       *)
AdmissionNext ==
    /\ \/ Crash
       \/ \E r \in Requests :
            \/ Progress(r) \/ LockFails(r) \/ Rollback(r)
            \/ MarkDelivering(r) \/ SettleLater(r) \/ LeaseExpires(r) \/ Sweeps(r)
    /\ UNCHANGED cap

AdmissionSpec == AdmissionInit /\ [][AdmissionNext]_admissionVars

(* The steps of a live request go on (it polls for the lock until it gets   *)
(* it), time passes, and the sweeper runs.  Nothing is fair about a claim   *)
(* whose delivery had begun: the sweeper refuses it, and what recovers it   *)
(* needs evidence that a process may have died without leaving.             *)
AdmissionFairness ==
    \A r \in Requests :
        /\ WF_admissionVars(Progress(r) /\ UNCHANGED cap)
        /\ WF_admissionVars(LeaseExpires(r) /\ UNCHANGED cap)
        /\ WF_admissionVars(SweepOrphanedSlot(r) /\ UNCHANGED cap)
        /\ WF_admissionVars(At(r, "crashed") /\ SweepClaimOfSlot(r) /\ UNCHANGED cap)
FairAdmissionSpec == AdmissionSpec /\ AdmissionFairness

-----------------------------------------------------------------------------
AdmissionTypeOK ==
    /\ pc \in [Requests -> {"new", "reselect", "lock", "count", "increment", "commit", "unlock",
                            "decide", "write", "running", "failing"} \cup Over]
    /\ out \in [Requests -> {"none", "limited", "error", "conflict", "no_slot", "got"}]
    /\ tries \in [Requests -> 0..SlotAttempts] /\ sleeps \in [Requests -> 0..MaxSleeps]
    /\ seen \in [Requests -> Nat] /\ stale \in [Requests -> BOOLEAN]
    /\ row \in [Requests -> {"none", "acquired", "released", "swept"}]
    /\ expired \in [Requests -> BOOLEAN] /\ cap \in Caps /\ inFlight \in Nat
    /\ slotClaim \in [Requests -> {"none", "reserving", "delivering", "ended"}]
    /\ token \in [Requests -> BOOLEAN]
    /\ lock \in Requests \cup {NoRequest}
    /\ place \in [Requests -> BOOLEAN] /\ depth \in Nat /\ slotFaults \in 0..MaxSlotFaults

(* The acquired slots of the binding never exceed its limit, whatever the   *)
(* requests read before they had the binding's lock.                        *)
BindingWithinLimit == Active <= BindingLimit

(* in_flight_count is the number of acquired slots, with the sweeper, the   *)
(* settler and the requests all giving slots back, and never above the cap. *)
AccountWithinCap ==
    /\ inFlight = Cardinality({r \in Requests : row[r] = "acquired"})
    /\ inFlight <= cap

(* The binding's lock is only ever on a connection that is being used to    *)
(* acquire a slot: a pooled connection never carries it away.               *)
LockIsInUse == lock # NoRequest => pc[lock] \in InTransaction \cup {"unlock"}

(* The Tracker counts exactly the requests that wait, never more of them    *)
(* than there are places, and no place is held by a request that has left.  *)
PlacesAreWaiters ==
    /\ depth = Cardinality({r \in Requests : place[r]}) /\ depth <= MaxWaiting
    /\ \A r \in Requests : place[r] => pc[r] \notin Over \cup {"new", "running", "failing"}

(* Every request that arrives is answered, or its process died.             *)
EveryoneIsAnswered == \A r \in Requests : At(r, "lock") ~> pc[r] \in Over

(* A slot comes back, even when the process never learnt that it had one,   *)
(* unless its request is over and left a claim whose delivery had begun:    *)
(* that slot waits for a recovery of the claim, and may wait for ever.      *)
SlotComesBack ==
    \A r \in Requests :
        row[r] = "acquired" ~>
            row[r] # "acquired" \/ (pc[r] \in Over /\ slotClaim[r] = "delivering")

(* default_selector.go and the binding's max_parallel_requests: no more     *)
(* requests of the binding are under way than its limit.                    *)
(* Violated: a slot without a claim is swept while its request runs on.     *)
RunningWithinLimit == Cardinality({r \in Limited : At(r, "running")}) <= BindingLimit

(* A slot is not taken from a request that runs under a claim.              *)
ClaimKeepsItsSlot ==
    \A r \in Claimed : At(r, "running") /\ OpenClaim(r) => row[r] = "acquired"

(* Limits of bindings and accounts, places in the queue, locks and the      *)
(* slots of running claims, with pooled connections, crashes and sweeps.    *)
AdmissionSafety ==
    /\ AdmissionTypeOK
    /\ BindingWithinLimit /\ AccountWithinCap /\ LockIsInUse
    /\ PlacesAreWaiters /\ ClaimKeepsItsSlot
=============================================================================
