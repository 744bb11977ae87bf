------------------------------ MODULE MCOutcomes ------------------------------
(***************************************************************************)
(* Small instances, for TLC, of what must happen in the end to money and    *)
(* tasks that somebody waits for.                                           *)
(*   Payments: a top-up and a subscription order, two callers, a plan that  *)
(*     is switched once, one crash.                                         *)
(*   Subscriptions: two plans of one group, one subscription renewed.       *)
(*   MediaTasks: two workers, one fault, an administrator who attaches,     *)
(*     releases, closes and charges.                                        *)
(*   HermesRecovery: one replay, two recovery workers, two faults.          *)
(*   EventBus: two events for a handler their callers wait for.             *)
(* As in MCMoney, a behaviour is of one component while the others rest; it *)
(* is as fair as that component's scheduling is.                            *)
(***************************************************************************)
EXTENDS Payments, Sequences, TLC

CONSTANTS t1, s1, c1, c2, basic, other

VARIABLES
    side,                                     \* the component whose behaviour this is
    now, terms, subs, group, balance, ledger, expiring, renewBy, ops,
    task, mediaClaim, listed, unknown, orphan, jobs, job, late, over, mediaWorker,
    mediaFaults, defers,
    entry, log, denied, row, act, answer, recoveryFaults,
    wiring, closed, stopping, outOfTime, cancelled, exited, queue, copy, work, handled,
    reply, stage, at, verdict, notices

subVars == <<now, terms, subs, group, balance, ledger, expiring, renewBy, ops>>
mediaVars == <<task, mediaClaim, listed, unknown, orphan, jobs, job, late, over, mediaWorker,
               mediaFaults, defers>>
recoveryVars == <<entry, log, denied, row, act, answer, recoveryFaults>>
busVars == <<wiring, closed, stopping, outOfTime, cancelled, exited, queue, copy, work, handled,
             reply, stage, at, verdict, notices>>

-----------------------------------------------------------------------------
PayOrders == {t1, s1}
PayKind == (t1 :> "topup") @@ (s1 :> "subscription")
PayAmount == (t1 :> 2) @@ (s1 :> 1)

Term(g, c, d, on) == [group |-> g, cap |-> c, days |-> d, price |-> 1, enabled |-> on]
PlanTerms ==
    (basic :> {Term("a", 1, 2, TRUE), Term("a", 1, 2, FALSE)}) @@
    (other :> {Term("a", 2, 2, TRUE), Term("a", 9, 3, TRUE)})
PlanFirst == (basic :> Term("a", 1, 2, TRUE)) @@ (other :> Term("a", 2, 2, TRUE))
PlanOrders == (t1 :> basic) @@ (s1 :> other)

Sub == INSTANCE Subscriptions WITH
    Plans <- {basic, other}, Terms <- PlanTerms, FirstTerms <- PlanFirst,
    Orders <- PlanOrders, Requests <- {t1}, InitialBalance <- 1, Lead <- 1,
    MaxTime <- 4, MaxExpires <- 6, MaxSubs <- 2, MaxOps <- 2, NoCap <- 9, plan <- terms

Pair == {c1, c2}

Video == INSTANCE MediaTasks WITH
    MediaWorkers <- Pair, Decisions <- {"attach", "release", "close", "charge"},
    MaxMediaFaults <- 1, MaxDefers <- 0, NoOwner <- None

Recovery == INSTANCE HermesRecovery WITH
    Ops <- {t1}, Workers <- Pair, MaxFaults <- 2, faults <- recoveryFaults

One == (c1 :> 1)
Waited ==
    [plan |-> <<c1>>, critical |-> {c1}, low |-> {}, room |-> One, workers |-> One,
     callersFirst |-> FALSE, emits |-> PayOrders]

Bus == INSTANCE EventBus WITH
    Events <- PayOrders, Handlers <- {c1}, Wirings <- {Waited}

ASSUME
    /\ Sub!SubsAssumption /\ Video!MediaAssumption
    /\ Recovery!HermesAssumption /\ Bus!WiringsAssumption

-----------------------------------------------------------------------------
SideBySideInit ==
    /\ side \in {"payments", "subscriptions", "video", "recovery", "bus"}
    /\ Init /\ plan /\ Sub!Init /\ Video!MediaInit /\ task.video /\ Recovery!RecoveryInit /\ Bus!BusInit

SideBySideNext ==
    \/ /\ side = "payments" /\ Next
       /\ UNCHANGED <<side, subVars, mediaVars, recoveryVars, busVars>>
    \/ /\ side = "subscriptions" /\ Sub!Next
       /\ UNCHANGED <<side, vars, mediaVars, recoveryVars, busVars>>
    \/ /\ side = "video" /\ Video!MediaNext
       /\ UNCHANGED <<side, vars, subVars, recoveryVars, busVars>>
    \/ /\ side = "recovery" /\ Recovery!RecoveryNext
       /\ UNCHANGED <<side, vars, subVars, mediaVars, busVars>>
    \/ /\ side = "bus" /\ Bus!BusNext
       /\ UNCHANGED <<side, vars, subVars, mediaVars, recoveryVars>>

SideBySideFairness ==
    \/ side = "payments" /\ PaymentFairness
    \/ side = "subscriptions" /\ Sub!Fairness
    \/ side = "video" /\ Video!MediaFairness
    \/ side = "recovery" /\ Recovery!Fairness
    \/ side = "bus" /\ Bus!BusFairness

FairSideBySide ==
    /\ SideBySideInit
    /\ [][SideBySideNext]_<<side, vars, subVars, mediaVars, recoveryVars, busVars>>
    /\ SideBySideFairness

-----------------------------------------------------------------------------
(* A paid order is fulfilled or failed and a lapsed one closed; a term that *)
(* is over ends or is renewed (Payments, Subscriptions).                    *)
MoneyIsDecided == PaidIsDecided /\ LapsedIsClosed /\ Sub!PastTermEnds

(* A media task ends, unless a back charge strands it, and what it produced *)
(* is settled; a replay that was prepared is audited; an emitted event and  *)
(* a stopped bus return (MediaTasks, HermesRecovery, EventBus).             *)
TasksEnd ==
    /\ side = "video" => Video!TaskEnds /\ Video!PendingIsSettled
    /\ Recovery!PreparedIsAudited
    /\ Bus!EmitReturns /\ Bus!StopReturns
=============================================================================
