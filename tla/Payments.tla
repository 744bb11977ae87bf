------------------------------- MODULE Payments -------------------------------
(***************************************************************************)
(* The top-up and subscription orders of one user: some created under caps, *)
(* confirmed by a provider's callback or an administrator, fulfilled in two *)
(* transactions that a crash may separate, expired by a sweeper, refunded   *)
(* in parts under idempotency keys.  The wallet they credit is the one that *)
(* requests hold and spend from.                                            *)
(***************************************************************************)
EXTENDS Integers, FiniteSets, Sums

CONSTANTS
    Orders,                    \* out_trade_no values
    Kind,                      \* Kind[o] \in {"topup", "subscription"}
    Amount,                    \* Amount[o], in cents
    Keys,                      \* refund idempotency keys an administrator uses
    Callers,                   \* callbacks and confirmations being served
    MaxPending, DailyLimit,    \* the caps OpenRecharge sets; 0 is none
    EarlyStamps,               \* callbacks may be stamped before they arrive
    MaxSpent,                  \* bound on what requests spend
    MaxFaults,                 \* bound on callers and creations that die
    MaxFlips,                  \* bound on how often the plan is switched
    None

ASSUME PaymentAssumption ==
    /\ Kind \in [Orders -> {"topup", "subscription"}]
    /\ Amount \in [Orders -> Nat \ {0}]
    /\ Orders \cap Keys = {}
    /\ MaxPending \in Nat /\ DailyLimit \in Nat
    /\ EarlyStamps \in BOOLEAN
    /\ MaxSpent \in Nat /\ MaxFaults \in Nat /\ MaxFlips \in Nat
    /\ None \notin Orders

VARIABLES
    status,                    \* payment_orders.status
    lapsed,                    \* the orders whose expires_at has passed
    drafts,                    \* orders inserted by a transaction not yet committed
    recharges,                 \* the orders whose insert carried caps
    credit,                    \* how many payment_credits an order has
    grant,                     \* how often an order activated its subscription
    refund,                    \* payment_refunds, by idempotency key
    request,                   \* payment_refund_requests, one to an order
    event,                     \* the signed sum of an order's billing events
    wallet,                    \* user_balances
    caller,
    plan,                      \* the plan can be bought
    spent,                     \* history: what requests have spent
    faults, flips

books == <<credit, grant, refund, event, wallet, spent>>
vars == <<status, lapsed, drafts, recharges, credit, grant, refund, request, event, wallet,
          caller, plan, spent, faults, flips>>

Open == {"pending", "paid", "recharging"}
Closed == {"completed", "refunded", "expired", "cancelled", "failed"}
Status == {"absent"} \cup Open \cup Closed

RefundKeys == Keys \cup Orders     \* a refund request has a key of its own
NoRefund == [order |-> None, asked |-> 0, exact |-> FALSE, amount |-> 0]

Init ==
    /\ status = [o \in Orders |-> "absent"]
    /\ lapsed = {} /\ drafts = {} /\ recharges = {}
    /\ credit = [o \in Orders |-> 0]
    /\ grant = [o \in Orders |-> 0]
    /\ refund = [k \in RefundKeys |-> NoRefund]
    /\ request = [o \in Orders |-> "none"]
    /\ event = [o \in Orders |-> 0]
    /\ wallet = [balance |-> 0, held |-> 0]
    /\ caller = [c \in Callers |-> [pc |-> "idle", order |-> None]]
    /\ plan \in BOOLEAN
    /\ spent = 0 /\ faults = 0 /\ flips = 0

-----------------------------------------------------------------------------
Live(S) == {o \in S : status[o] = "pending" /\ o \notin lapsed}
CountedToday(S) == Live(S) \cup {o \in S : status[o] \in {"paid", "recharging", "completed"}}

Capped == MaxPending > 0 \/ DailyLimit > 0

(* The recheck counts the committed orders, of whatever origin, and the     *)
(* transaction's own.                                                       *)
WithinCaps(o) ==
    /\ MaxPending > 0 => Cardinality(Live(Orders)) + 1 <= MaxPending
    /\ DailyLimit > 0 => SumOf(Amount, CountedToday(Orders)) + Amount[o] <= DailyLimit

Insert(o) ==
    /\ status[o] = "absent" /\ o \notin drafts
    /\ drafts' = drafts \cup {o}
    /\ UNCHANGED <<status, lapsed, books, request, caller, plan, faults, flips>>

(* The user's portal, a subscription's purchase and an administrator create *)
(* orders without caps.  A trade number that is taken changes no order.     *)
CreateOrder(o) == Insert(o) /\ recharges' = recharges \ {o}

(* Fault: the recheck runs without the per-user advisory lock.              *)
OpenRecharge_NoLock(o) ==
    /\ Kind[o] = "topup" /\ WithinCaps(o)
    /\ Insert(o) /\ recharges' = recharges \cup {o}

(* The same up to its commit for a request that carries caps: the user's    *)
(* advisory lock before the insert, the recheck after it.                   *)
OpenRecharge(o) ==
    /\ Kind[o] = "topup" /\ WithinCaps(o)
    /\ Capped => drafts \cap recharges = {}
    /\ Insert(o) /\ recharges' = recharges \cup {o}

CommitOrder(o) ==
    /\ o \in drafts
    /\ drafts' = drafts \ {o}
    /\ status' = [status EXCEPT ![o] = "pending"]
    /\ UNCHANGED <<lapsed, recharges, books, request, caller, plan, faults, flips>>

RollbackOrder(o) ==
    /\ o \in drafts /\ faults < MaxFaults
    /\ drafts' = drafts \ {o}
    /\ faults' = faults + 1
    /\ UNCHANGED <<status, lapsed, recharges, books, request, caller, plan, flips>>

Move(o, s) == status' = [status EXCEPT ![o] = s]

CancelOrder(o) ==
    /\ status[o] = "pending" /\ Move(o, "cancelled")
    /\ UNCHANGED <<lapsed, drafts, recharges, books, request, caller, plan, faults,
                   flips>>

(* expires_at passes. *)
Lapse(o) ==
    /\ status[o] = "pending"
    /\ lapsed' = lapsed \cup {o}
    /\ UNCHANGED <<status, drafts, recharges, books, request, caller, plan, faults,
                   flips>>

(* Fault: the sweeper looks at recharges only.                              *)
Expire_TopupsOnly(o) ==
    /\ status[o] = "pending" /\ o \in lapsed /\ Kind[o] = "topup"
    /\ Move(o, "expired")
    /\ UNCHANGED <<lapsed, drafts, recharges, books, request, caller, plan, faults,
                   flips>>

(* The sweeper. *)
Expire(o) ==
    /\ status[o] = "pending" /\ o \in lapsed
    /\ Move(o, "expired")
    /\ UNCHANGED <<lapsed, drafts, recharges, books, request, caller, plan, faults,
                   flips>>

-----------------------------------------------------------------------------
Go(c, pc, o) == caller' = [caller EXCEPT ![c] = [pc |-> pc, order |-> o]]
Stop(c) == Go(c, "idle", None)

(* Fault: a late payment revives an order that was closed.                  *)
ConfirmPaid_Revives(c, o, early) ==
    /\ caller[c].pc = "idle" /\ status[o] # "absent"
    /\ \/ /\ status[o] \in {"pending", "expired", "cancelled"}
          /\ Move(o, "paid") /\ Go(c, "confirmed", o)
       \/ /\ status[o] \in {"paid", "recharging", "completed"}
          /\ UNCHANGED status /\ Go(c, "confirmed", o)
    /\ UNCHANGED <<lapsed, drafts, recharges, books, request, plan, faults, flips>>

(* A callback is judged by its own timestamp, an administrator's            *)
(* confirmation by the clock.                                               *)
ConfirmPaid(c, o, early) ==
    LET late == o \in lapsed /\ ~early IN
    /\ caller[c].pc = "idle"
    /\ early => EarlyStamps
    /\ \/ /\ status[o] = "pending" /\ late
          /\ Move(o, "expired") /\ UNCHANGED caller
       \/ /\ status[o] = "pending" /\ ~late
          /\ Move(o, "paid") /\ Go(c, "confirmed", o)
       \/ /\ status[o] \in {"paid", "recharging", "completed"}
          /\ UNCHANGED status /\ Go(c, "confirmed", o)
    /\ UNCHANGED <<lapsed, drafts, recharges, books, request, plan, faults, flips>>

(* Phase 1.  An order in recharging or completed goes on to phase 2.        *)
BeginFulfill(c) ==
    LET o == caller[c].order IN
    /\ caller[c].pc = "confirmed"
    /\ \/ /\ status[o] = "paid"
          /\ Move(o, "recharging") /\ Go(c, "begun", o)
       \/ /\ status[o] \in {"recharging", "completed"}
          /\ UNCHANGED status /\ Go(c, "begun", o)
       \/ /\ status[o] \notin {"paid", "recharging", "completed"}
          /\ UNCHANGED status /\ Stop(c)
    /\ UNCHANGED <<lapsed, drafts, recharges, books, request, plan, faults, flips>>

Begun(c) == caller[c].pc = "begun"

(* Fault: phase 2 credits without looking at the status under the row lock. *)
CreditTopup_NoRecheck(c) ==
    LET o == caller[c].order IN
    /\ Begun(c) /\ Kind[o] = "topup"
    /\ credit' = [credit EXCEPT ![o] = @ + 1]
    /\ event' = [event EXCEPT ![o] = @ + Amount[o]]
    /\ wallet' = [wallet EXCEPT !.balance = @ + Amount[o]]
    /\ Move(o, "completed") /\ Stop(c)
    /\ UNCHANGED <<lapsed, drafts, recharges, grant, refund, request, plan, spent,
                   faults, flips>>

(* Fault: the credit's billing event is not written.                        *)
CreditTopup_NoEvent(c) ==
    LET o == caller[c].order IN
    /\ Begun(c) /\ status[o] = "recharging" /\ Kind[o] = "topup"
    /\ credit' = [credit EXCEPT ![o] = @ + 1]
    /\ wallet' = [wallet EXCEPT !.balance = @ + Amount[o]]
    /\ Move(o, "completed") /\ Stop(c)
    /\ UNCHANGED <<lapsed, drafts, recharges, grant, refund, event, request, plan,
                   spent, faults, flips>>

(* Phase 2 of a recharge: credit, billing event, wallet and status at once. *)
CreditTopup(c) ==
    LET o == caller[c].order IN
    /\ Begun(c) /\ status[o] = "recharging" /\ Kind[o] = "topup"
    /\ credit' = [credit EXCEPT ![o] = @ + 1]
    /\ event' = [event EXCEPT ![o] = @ + Amount[o]]
    /\ wallet' = [wallet EXCEPT !.balance = @ + Amount[o]]
    /\ Move(o, "completed") /\ Stop(c)
    /\ UNCHANGED <<lapsed, drafts, recharges, grant, refund, request, plan, spent,
                   faults, flips>>

ActivateSubscription(c) ==
    LET o == caller[c].order IN
    /\ Begun(c) /\ status[o] = "recharging" /\ Kind[o] = "subscription" /\ plan
    /\ grant' = [grant EXCEPT ![o] = @ + 1]
    /\ Move(o, "completed") /\ Stop(c)
    /\ UNCHANGED <<lapsed, drafts, recharges, credit, refund, event, wallet, request,
                   plan, spent, faults, flips>>

(* The plan cannot be bought: phase 2 rolls back and a transaction of its   *)
(* own will mark the order.                                                 *)
RefuseSubscription(c) ==
    LET o == caller[c].order IN
    /\ Begun(c) /\ status[o] = "recharging" /\ Kind[o] = "subscription" /\ ~plan
    /\ Go(c, "mark", o)
    /\ UNCHANGED <<status, lapsed, drafts, recharges, books, request, plan, faults,
                   flips>>

(* Completed by another caller, or no longer fulfillable. *)
FindDecided(c) ==
    /\ Begun(c) /\ status[caller[c].order] # "recharging"
    /\ Stop(c)
    /\ UNCHANGED <<status, lapsed, drafts, recharges, books, request, plan, faults,
                   flips>>

(* Fault: the mark does not look whether another caller got through.        *)
MarkFailed_NoCAS(c) ==
    /\ caller[c].pc = "mark"
    /\ Move(caller[c].order, "failed") /\ Stop(c)
    /\ UNCHANGED <<lapsed, drafts, recharges, books, request, plan, faults, flips>>

(* Fault: a refusal that is bound to repeat leaves the order in recharging. *)
MarkFailed_Leaves(c) ==
    /\ caller[c].pc = "mark" /\ Stop(c)
    /\ UNCHANGED <<status, lapsed, drafts, recharges, books, request, plan, faults,
                   flips>>

MarkFailed(c) ==
    LET o == caller[c].order IN
    /\ caller[c].pc = "mark"
    /\ status' = [status EXCEPT ![o] = IF @ = "recharging" THEN "failed" ELSE @]
    /\ Stop(c)
    /\ UNCHANGED <<lapsed, drafts, recharges, books, request, plan, faults, flips>>

(* The process dies, or the database refuses a transaction to the end.      *)
Abandon(c) ==
    /\ caller[c].pc # "idle" /\ faults < MaxFaults
    /\ Stop(c) /\ faults' = faults + 1
    /\ UNCHANGED <<status, lapsed, drafts, recharges, books, request, plan, flips>>

SwitchPlan ==
    /\ flips < MaxFlips
    /\ plan' = ~plan /\ flips' = flips + 1
    /\ UNCHANGED <<status, lapsed, drafts, recharges, books, request, caller, faults>>

-----------------------------------------------------------------------------
Facts(o) == {k \in RefundKeys : refund[k].order = o}
PaidBack == [k \in RefundKeys |-> refund[k].amount]
Refunded(o) == SumOf(PaidBack, Facts(o))
Credited(o) == credit[o] * Amount[o]

Refundable(o) == Kind[o] = "topup" /\ status[o] \in {"completed", "refunded"}

(* Fault: a plain request is measured against the credit, not what is left. *)
RefundAmount_Whole(o, asked, exact) ==
    IF exact THEN IF asked > Credited(o) THEN 0 ELSE asked - Refunded(o)
    ELSE IF asked > Credited(o) THEN 0 ELSE asked

(* paymentRefundAmount: what is to be paid back now, nothing if refused or  *)
(* already satisfied.                                                       *)
RefundAmount(o, asked, exact) ==
    IF exact THEN IF asked > Credited(o) THEN 0 ELSE asked - Refunded(o)
    ELSE IF asked > Credited(o) - Refunded(o) THEN 0 ELSE asked

(* Fault: held money can be paid back.                                      *)
PayBack_Held(k, o, asked, exact) ==
    LET n == RefundAmount(o, asked, exact) IN
    /\ refund[k] = NoRefund /\ Refundable(o)
    /\ n > 0 /\ wallet.balance >= n
    /\ wallet' = [wallet EXCEPT !.balance = @ - n]
    /\ refund' = [refund EXCEPT ![k] = [order |-> o, asked |-> asked, exact |-> exact, amount |-> n]]
    /\ event' = [event EXCEPT ![o] = @ - n]
    /\ Move(o, IF Refunded(o) + n = Credited(o) THEN "refunded" ELSE "completed")

(* Fault: a key that was used is used again.                                *)
PayBack_NoKey(k, o, asked, exact) ==
    LET n == RefundAmount(o, asked, exact) IN
    /\ Refundable(o)
    /\ n > 0 /\ wallet.balance - wallet.held >= n
    /\ wallet' = [wallet EXCEPT !.balance = @ - n]
    /\ refund' = [refund EXCEPT ![k] = [order |-> o, asked |-> asked, exact |-> exact, amount |-> n]]
    /\ event' = [event EXCEPT ![o] = @ - n]
    /\ Move(o, IF Refunded(o) + n = Credited(o) THEN "refunded" ELSE "completed")

(* refundOrderTx under a new key: the order's row is locked, so the sum of  *)
(* its refunds is current. A key that was used changes nothing.             *)
PayBack(k, o, asked, exact) ==
    LET n == RefundAmount(o, asked, exact) IN
    /\ refund[k] = NoRefund /\ Refundable(o)
    /\ n > 0 /\ wallet.balance - wallet.held >= n
    /\ wallet' = [wallet EXCEPT !.balance = @ - n]
    /\ refund' = [refund EXCEPT ![k] = [order |-> o, asked |-> asked, exact |-> exact, amount |-> n]]
    /\ event' = [event EXCEPT ![o] = @ - n]
    /\ Move(o, IF Refunded(o) + n = Credited(o) THEN "refunded" ELSE "completed")

RefundOrder(k, o, asked, exact) ==
    /\ PayBack(k, o, asked, exact)
    /\ UNCHANGED <<lapsed, drafts, recharges, credit, grant, request, caller, plan,
                   spent, faults, flips>>

(* The handler read a completed recharge; by now it may have been refunded. *)
CreateRefundRequest(o) ==
    /\ Refundable(o) /\ request[o] = "none"
    /\ request' = [request EXCEPT ![o] = "pending"]
    /\ UNCHANGED <<status, lapsed, drafts, recharges, books, caller, plan, faults, flips>>

(* Fault: a request counts as approved once its order has any refund.       *)
ApproveRefundRequest_Partial(o) ==
    /\ request[o] = "pending" /\ Refundable(o)
    /\ \/ PayBack(o, o, Amount[o], TRUE)
       \/ Refunded(o) > 0 /\ UNCHANGED <<status, refund, event, wallet>>
    /\ request' = [request EXCEPT ![o] = "approved"]
    /\ UNCHANGED <<lapsed, drafts, recharges, credit, grant, caller, plan, spent,
                   faults, flips>>

(* The rest of the order is paid back, whatever was refunded before, in the *)
(* transaction that decides the request.                                    *)
ApproveRefundRequest(o) ==
    /\ request[o] = "pending" /\ Refundable(o)
    /\ \/ PayBack(o, o, Amount[o], TRUE)
       \/ Refunded(o) = Amount[o] /\ UNCHANGED <<status, refund, event, wallet>>
    /\ request' = [request EXCEPT ![o] = "approved"]
    /\ UNCHANGED <<lapsed, drafts, recharges, credit, grant, caller, plan, spent,
                   faults, flips>>

RejectRefundRequest(o) ==
    /\ request[o] = "pending"
    /\ status[o] # "refunded" /\ refund[o] = NoRefund
    /\ request' = [request EXCEPT ![o] = "rejected"]
    /\ UNCHANGED <<status, lapsed, drafts, recharges, books, caller, plan, faults, flips>>

-----------------------------------------------------------------------------
(* The requests the wallet pays for: a cent is held, then spent or freed    *)
(* (BillingLedger has them in full, overruns included).                     *)
Hold ==
    /\ wallet.balance - wallet.held >= 1 /\ spent + wallet.held < MaxSpent
    /\ wallet' = [wallet EXCEPT !.held = @ + 1]
    /\ UNCHANGED <<status, lapsed, drafts, recharges, credit, grant, refund, request,
                   event, caller, plan, spent, faults, flips>>

(* Fault: a hold is released that was released before.                      *)
Settle_Twice ==
    /\ wallet' = [wallet EXCEPT !.held = @ - 1]
    /\ UNCHANGED <<status, lapsed, drafts, recharges, credit, grant, refund, request,
                   event, caller, plan, spent, faults, flips>>

Settle ==
    /\ wallet.held > 0
    /\ \/ /\ wallet' = [wallet EXCEPT !.held = @ - 1, !.balance = @ - 1]
          /\ spent' = spent + 1
       \/ /\ wallet' = [wallet EXCEPT !.held = @ - 1]
          /\ UNCHANGED spent
    /\ UNCHANGED <<status, lapsed, drafts, recharges, credit, grant, refund, request,
                   event, caller, plan, faults, flips>>

-----------------------------------------------------------------------------
Asks == UNION {1..Amount[o] : o \in Orders}

Ordering(o) ==
    \/ CreateOrder(o) \/ OpenRecharge(o) \/ CommitOrder(o) \/ RollbackOrder(o)
    \/ CancelOrder(o) \/ Lapse(o) \/ Expire(o)
    \/ CreateRefundRequest(o) \/ ApproveRefundRequest(o) \/ RejectRefundRequest(o)
    \/ \E k \in Keys, n \in Asks, exact \in BOOLEAN : RefundOrder(k, o, n, exact)

Fulfill(c) ==
    \/ BeginFulfill(c) \/ CreditTopup(c) \/ ActivateSubscription(c)
    \/ RefuseSubscription(c) \/ FindDecided(c) \/ MarkFailed(c)

Next ==
    \/ \E o \in Orders : Ordering(o)
    \/ \E c \in Callers, o \in Orders, early \in BOOLEAN : ConfirmPaid(c, o, early)
    \/ \E c \in Callers : Fulfill(c) \/ Abandon(c)
    \/ SwitchPlan \/ Hold \/ Settle

PaymentSpec == Init /\ [][Next]_vars

(* A provider repeats a callback it got no answer to; the sweeper ticks.    *)
PaymentFairness ==
    /\ \A c \in Callers : WF_vars(Fulfill(c))
    /\ \A o \in Orders :
        /\ WF_vars(Expire(o))
        /\ SF_vars(status[o] \in {"paid", "recharging"} /\ \E c \in Callers : ConfirmPaid(c, o, FALSE))

FairPaymentSpec == PaymentSpec /\ PaymentFairness

-----------------------------------------------------------------------------
(* Types of the variables (rows of payment_orders, payment_refunds,         *)
(* payment_refund_requests and user_balances).                              *)
PaymentTypeOK ==
    /\ status \in [Orders -> Status]
    /\ lapsed \subseteq Orders /\ drafts \subseteq Orders /\ recharges \subseteq Orders
    /\ credit \in [Orders -> Nat] /\ grant \in [Orders -> Nat]
    /\ refund \in [RefundKeys -> [order : Orders \cup {None}, asked : Nat, exact : BOOLEAN, amount : Nat]]
    /\ request \in [Orders -> {"none", "pending", "approved", "rejected"}]
    /\ event \in [Orders -> Nat]
    /\ wallet \in [balance : Int, held : Nat]
    /\ caller \in [Callers -> [pc : {"idle", "confirmed", "begun", "mark"}, order : Orders \cup {None}]]
    /\ \A c \in Callers : caller[c].pc # "idle" => caller[c].order \in Orders
    /\ plan \in BOOLEAN /\ spent \in Nat /\ faults \in Nat /\ flips \in Nat

(* However many callbacks and confirmations race or repeat, an order is     *)
(* credited, or its subscription activated, exactly once if it completed    *)
(* and never otherwise.                                                     *)
FulfilledExactlyOnce ==
    \A o \in Orders :
        /\ credit[o] = IF Kind[o] = "topup" /\ status[o] \in {"completed", "refunded"} THEN 1 ELSE 0
        /\ grant[o] = IF Kind[o] = "subscription" /\ status[o] = "completed" THEN 1 ELSE 0

(* Refunds under any number of keys never pay back more than was credited,  *)
(* and the order is refunded exactly when nothing is left.                  *)
RefundsWithinCredit ==
    \A o \in Orders :
        /\ Refunded(o) <= Credited(o)
        /\ status[o] = "refunded" <=> Credited(o) > 0 /\ Refunded(o) = Credited(o)

(* The wallet, the billing events and the facts they stand for agree.       *)
BooksAgree ==
    /\ \A o \in Orders : event[o] = Credited(o) - Refunded(o)
    /\ wallet.balance + spent = SumOf(event, Orders)

(* Money that running requests hold is not paid back under them.            *)
HeldIsCovered == wallet.held <= wallet.balance

(* Recharges opened at the same time do not slip past the user's caps       *)
(* together; the day's cap is on what is not overdue, since a callback      *)
(* stamped before the deadline is honoured after it. An order without caps  *)
(* counts in the check of a recharge, and may be added on top of it.        *)
CapsHold ==
    /\ MaxPending > 0 => Cardinality(Live(recharges)) <= MaxPending
    /\ DailyLimit > 0 => SumOf(Amount, CountedToday(recharges) \ lapsed) <= DailyLimit

(* A request that was approved has had all of its order's credit paid back. *)
ApprovedMeansRefunded ==
    \A o \in Orders : request[o] = "approved" =>
        status[o] = "refunded" /\ Refunded(o) = Amount[o]

(* A closed order stays closed: no late payment revives an expired or       *)
(* cancelled one, no late refusal fails a completed one, and only refunds   *)
(* move a completed one.                                                    *)
ClosedIsFinal ==
    [][\A o \in Orders : status[o] \in Closed /\ status'[o] # status[o] =>
          status[o] = "completed" /\ status'[o] = "refunded"]_vars

(* What a refund key once did is neither repeated nor rewritten.            *)
RefundFactsAreFinal ==
    [][\A k \in RefundKeys : refund[k] # NoRefund => refund'[k] = refund[k]]_vars

(* An order that was paid does not hang between the phases: it is           *)
(* completed or failed, though the process that worked on it died.          *)
PaidIsDecided ==
    \A o \in Orders : status[o] \in {"paid", "recharging"} ~>
                      status[o] \in {"completed", "failed", "refunded"}

(* An order whose time has passed does not stay open for payment.           *)
LapsedIsClosed ==
    \A o \in Orders : o \in lapsed ~> status[o] # "pending"

(* Callbacks, confirmations, refunds and the sweeper, however they          *)
(* interleave, fulfil an order once, pay back no more than was credited and *)
(* no money that is held, keep the three books equal, and keep the caps.    *)
PaymentSafety ==
    /\ PaymentTypeOK
    /\ FulfilledExactlyOnce /\ RefundsWithinCredit /\ ApprovedMeansRefunded
    /\ BooksAgree /\ HeldIsCovered /\ CapsHold
=============================================================================
