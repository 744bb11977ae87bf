------------------------------ MODULE MCProgress ------------------------------
(***************************************************************************)
(* Small instances, for TLC, of what must happen in the end, where requests *)
(* meet their limits and failed work is done again.                         *)
(*   DeadLetterQueue: a settlement and a row no handler can process, two    *)
(*     workers of one name.                                                 *)
(*   CircuitBreaker: two callers, one probe, an operator and an outage.     *)
(*   SlotAdmission: two requests for an account of one slot, two faults.    *)
(*   QuotaReservations: one claim of two attempts, a job of three tries.    *)
(*   LogSink: records of both levels for queues of one place.               *)
(*   CredentialRefresh: refreshes of one account, of which one may die.     *)
(*   ChannelHealth: two attempts on one account, a mutation that is lost;   *)
(*     a verdict needs two samples, a stage one.                            *)
(* As in MCMoney, a behaviour is of one component while the others rest; it *)
(* is as fair as that component's scheduling is.                            *)
(***************************************************************************)
EXTENDS DeadLetterQueue, TLC

CONSTANTS money, poison, w1, w2, r1, r2, None

VARIABLES
    side,                                     \* the component whose behaviour this is
    breaker, failureCount, cooling, failOpen, probes, successes, call, healthy, overrides,
    pc, out, tries, sleeps, seen, stale, slotRow, expired, inFlight, slotClaim, token,
    slotLock, place, depth, slotFaults, cap,
    quotaClaim, resv, slot, win, period, att, quotaJob, parked, sweep, quotaFaults,
    logged, buffer, batch, writer, back, stopped, tardy, rows, inserted, lost,
    cred, health, slots, aged, refreshLock, refresher, live, uncertain, broken, refreshFaults,
    rec, healthCred, req, probe, forcing, ops, healthFaults, ramped

breakerVars == <<breaker, failureCount, cooling, failOpen, probes, successes, call, healthy,
                 overrides>>
admissionVars == <<pc, out, tries, sleeps, seen, stale, slotRow, expired, inFlight, slotClaim,
                   token, slotLock, place, depth, slotFaults, cap>>
quotaVars == <<quotaClaim, resv, slot, win, period, att, quotaJob, parked, sweep, quotaFaults>>
sinkVars == <<logged, buffer, batch, writer, back, stopped, tardy, rows, inserted, lost>>
refreshVars == <<cred, health, slots, aged, refreshLock, refresher, live, uncertain, broken,
                 refreshFaults>>
healthVars == <<rec, healthCred, req, probe, forcing, ops, healthFaults, ramped>>

-----------------------------------------------------------------------------
\* Two replicas name their first worker alike.
SameName == (w1 :> "dlq-HIGH-1") @@ (w2 :> "dlq-HIGH-1")
TwoKinds == (money :> "settlement") @@ (poison :> "replica")
FourLeases == 1..4

Pair == {w1, w2}

Breaker == INSTANCE CircuitBreaker WITH
    Callers <- Pair, FailureThreshold <- 2, HalfOpenMaxProbes <- 1,
    HalfOpenSuccessesToClose <- 2, MaxFailures <- 3, MaxOverrides <- 1, state <- breaker

TwoRequests == {r1, r2}
OneOfThem == {r2}

Admission == INSTANCE SlotAdmission WITH
    Requests <- TwoRequests, Claimless <- OneOfThem, Unlimited <- {}, Caps <- {1},
    BindingLimit <- 2, MaxWaiting <- 1, MaxSlotFaults <- 2, MaxSleeps <- 1, NoRequest <- None,
    row <- slotRow, lock <- slotLock

Quota == INSTANCE QuotaReservations WITH
    Claims <- {r1}, Periods <- {0}, Costs <- {1}, Limit <- 2, Burst <- 1, Slots <- 1,
    MaxAttempts <- 2, MaxTries <- 3, MaxQuotaFaults <- 2,
    claim <- quotaClaim, job <- quotaJob

\* One place for warnings and errors, one for the rest.
Room11 == ("priority" :> 1) @@ ("info" :> 1)

Sink == INSTANCE LogSink WITH
    Entries <- Pair \cup {r1}, Priority <- Pair, SinkRoom <- Room11, BatchSize <- 2

Refresh == INSTANCE CredentialRefresh WITH
    Refreshers <- {w1}, NoRefresher <- None, Cap <- 1, MaxTries <- 1, MaxVersion <- 2,
    MaxToken <- 2, MaxRefreshFaults <- 1

Health == INSTANCE ChannelHealth WITH
    Requests <- TwoRequests, Classes <- {"success", "channel_error"},
    MinSamples <- 2, RampMinSamples <- 1, Window <- 1, MinObservation <- 0,
    RampMin <- 1, RampMax <- 2,
    Cooldown <- 1, CreditsCooldown <- 2, BanCooldown <- 2, MaxForced <- 2, MaxLevel <- 2,
    MaxVersion <- 1, MaxOps <- 0, MaxFaults <- 1,
    cred <- healthCred, faults <- healthFaults

ASSUME
    /\ Breaker!BreakerAssumption /\ Admission!AdmissionAssumption
    /\ Quota!QuotaAssumption /\ Sink!SinkAssumption /\ Refresh!RefreshAssumption
    /\ Health!HealthAssumption

-----------------------------------------------------------------------------
SideBySideInit ==
    /\ side \in {"queue", "breaker", "admission", "quota", "sink", "refresh", "health"}
    /\ QueueInit /\ Breaker!Init /\ Admission!AdmissionInit /\ Quota!QuotaInit /\ Sink!SinkInit
    /\ Refresh!RefreshInit /\ Health!HealthInit
    \* A queue that rests is empty.
    /\ side = "queue" \/ \A r \in Rows : queueRow[r].status = "absent"

SideBySideNext ==
    \/ /\ side = "queue" /\ QueueNext
       /\ UNCHANGED <<side, breakerVars, admissionVars, quotaVars, sinkVars, refreshVars,
                      healthVars>>
    \/ /\ side = "breaker" /\ Breaker!Next
       /\ UNCHANGED <<side, queueVars, admissionVars, quotaVars, sinkVars, refreshVars,
                      healthVars>>
    \/ /\ side = "admission" /\ Admission!AdmissionNext
       /\ UNCHANGED <<side, queueVars, breakerVars, quotaVars, sinkVars, refreshVars,
                      healthVars>>
    \/ /\ side = "quota" /\ Quota!QuotaNext
       /\ UNCHANGED <<side, queueVars, breakerVars, admissionVars, sinkVars, refreshVars,
                      healthVars>>
    \/ /\ side = "sink" /\ Sink!SinkNext
       /\ UNCHANGED <<side, queueVars, breakerVars, admissionVars, quotaVars, refreshVars,
                      healthVars>>
    \/ /\ side = "refresh" /\ Refresh!RefreshNext
       /\ UNCHANGED <<side, queueVars, breakerVars, admissionVars, quotaVars, sinkVars,
                      healthVars>>
    \/ /\ side = "health" /\ Health!HealthNext
       /\ UNCHANGED <<side, queueVars, breakerVars, admissionVars, quotaVars, sinkVars, refreshVars>>

SideBySideFairness ==
    \/ side = "queue" /\ QueueFairness
    \/ side = "breaker" /\ Breaker!Fairness
    \/ side = "admission" /\ Admission!AdmissionFairness
    \/ side = "quota" /\ Quota!QuotaFairness
    \/ side = "sink" /\ Sink!SinkFairness
    \/ side = "refresh" /\ Refresh!RefreshFairness
    \/ side = "health" /\ Health!HealthFairness

FairSideBySide ==
    /\ SideBySideInit
    /\ [][SideBySideNext]_<<side, queueVars, breakerVars, admissionVars, quotaVars, sinkVars, refreshVars,
                      healthVars>>
    /\ SideBySideFairness

-----------------------------------------------------------------------------
(* Through crashes, lost marks and workers that outlive their leases, a     *)
(* settlement is delivered in the end and every other row decided           *)
(* (DeadLetterQueue).                                                       *)
RowsAreDecided == SettlementIsDelivered /\ EveryRowIsDecided

(* A request is answered, its slot comes back, the quota of a claim that    *)
(* ended is settled or parked for an operator, and a refresh that died      *)
(* keeps neither the storm slot nor the account from the next one           *)
(* (SlotAdmission, QuotaReservations, CredentialRefresh).                   *)
LimitsAreReturned ==
    /\ Admission!EveryoneIsAnswered /\ Admission!SlotComesBack
    /\ Quota!EndedIsClosed
    /\ Refresh!SlotHeals /\ Refresh!DueIsCalled

(* A breaker closes again once what is behind it answers, no account cools  *)
(* or ramps for ever, with traffic or without, and a log sink that is       *)
(* cancelled ends with its queues written (CircuitBreaker, ChannelHealth,   *)
(* LogSink).                                                                *)
OutagesEnd ==
    /\ Breaker!RecoversWhenHealthy
    /\ Health!RampEnds
    /\ Sink!CancelledEnds /\ Sink!QueuesEmpty
=============================================================================
