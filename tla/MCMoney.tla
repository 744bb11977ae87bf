------------------------------- MODULE MCMoney -------------------------------
(***************************************************************************)
(* Small instances, for TLC, of the components that move a user's money     *)
(* outside the billing ledger.                                              *)
(*   Payments: two top-ups, or a top-up and a subscription order, two       *)
(*     callers, refunds under a request's key and an administrator's, one   *)
(*     recharge pending at a time and a daily cap that two orders exceed.   *)
(*     A caller that dies is one that stays where it is; MCOutcomes has it  *)
(*     work on.                                                             *)
(*   BalanceAdjustments: one key is sent for two accounts, one request is a *)
(*     debit, two requests are served at a time.                            *)
(*   Vouchers: two users, a shared voucher and one that grants a plan.      *)
(*   Subscriptions: two plans of one group, then two that change group;     *)
(*     terms last two or three units, the lead window one, and a late grant *)
(*     ends past the limit of a term.                                       *)
(*                                                                         *)
(* The components share no state, so a behaviour is of one of them while   *)
(* the others rest in their initial states: the states add up instead of   *)
(* multiplying, and no behaviour of any of them is lost.                   *)
(***************************************************************************)
EXTENDS Payments, Vouchers, BalanceAdjustments, TLC

CONSTANTS t1, t2, s1, k1, k2, u1, u2, v1, v2, r1, w1, w2,
          shared, granting, basic, other, o1, o2

VARIABLES
    side,                                       \* the component whose behaviour this is
    now, terms, subs, group, balance, ledger, expiring, renewBy, ops

subVars == <<now, terms, subs, group, balance, ledger, expiring, renewBy, ops>>

-----------------------------------------------------------------------------
PayOrders == {t1, t2, s1}
PayKind == (t1 :> "topup") @@ (t2 :> "topup") @@ (s1 :> "subscription")
PayAmount == (t1 :> 2) @@ (t2 :> 1) @@ (s1 :> 1)

\* One key for two accounts, a credit of the wallet and a debit.
Adjust(k, a, n) == [key |-> k, user |-> a, amount |-> n]
ByHand == {Adjust(k1, Tenant, 3), Adjust(k2, u1, 2), Adjust(k2, u2, 2), Adjust(r1, u1, -2)}

CodeUsers == {v1, v2}
Codes == {shared, granting}
CodeMax == (shared :> 2) @@ (granting :> 1)
CodeValue == (shared :> 2) @@ (granting :> 1)

\* Two plans of one group, one longer than the other and one that may be withdrawn.
Term(g, c, d, on) == [group |-> g, cap |-> c, days |-> d, price |-> 1, enabled |-> on]
PlanTerms ==
    (basic :> {Term("a", 1, 2, TRUE), Term("a", 1, 2, FALSE)}) @@
    (other :> {Term("a", 2, 2, TRUE), Term("a", 9, 3, TRUE)})
PlanFirst == (basic :> Term("a", 1, 2, TRUE)) @@ (other :> Term("a", 2, 2, TRUE))
PlanOrders == (o1 :> basic) @@ (o2 :> other)

Sub == INSTANCE Subscriptions WITH
    Plans <- {basic, other}, Terms <- PlanTerms, FirstTerms <- PlanFirst,
    Orders <- PlanOrders, Requests <- {r1}, InitialBalance <- 2, Lead <- 1,
    MaxTime <- 4, MaxExpires <- 6, MaxSubs <- 2, MaxOps <- 3, NoCap <- 9, plan <- terms

\* Two plans that operators move to another group, or to none.
MovingTerms ==
    (basic :> {Term("a", 1, 2, TRUE), Term("b", 1, 2, TRUE)}) @@
    (other :> {Term("b", 9, 2, TRUE), Term("", 1, 2, TRUE)})
MovingFirst == (basic :> Term("a", 1, 2, TRUE)) @@ (other :> Term("b", 9, 2, TRUE))

Moving == INSTANCE Subscriptions WITH
    Plans <- {basic, other}, Terms <- MovingTerms, FirstTerms <- MovingFirst,
    Orders <- PlanOrders, Requests <- {r1}, InitialBalance <- 2, Lead <- 1,
    MaxTime <- 3, MaxExpires <- 4, MaxSubs <- 2, MaxOps <- 3, NoCap <- 9, plan <- terms

ASSUME Sub!SubsAssumption /\ Moving!SubsAssumption

-----------------------------------------------------------------------------
SideBySideInit ==
    /\ side \in {"top-ups", "orders", "adjustments", "vouchers", "subscriptions", "moving plans"}
    /\ Init /\ AdjustInit /\ VoucherInit
    \* A plan that is put back on sale while its refusal is under way.
    /\ ~plan
    /\ IF side = "moving plans" THEN Moving!Init ELSE Sub!Init

\* Bound: the orders the user places.
Placing(os) == Next /\ drafts' \subseteq os

SideBySideNext ==
    \/ /\ \/ side = "top-ups" /\ Placing({t1, t2})
          \/ side = "orders" /\ Placing({t1, s1})
       /\ UNCHANGED <<side, adjustVars, voucherVars, subVars>>
    \/ /\ side = "adjustments" /\ AdjustNext
       /\ UNCHANGED <<side, vars, voucherVars, subVars>>
    \/ /\ side = "vouchers" /\ VoucherNext
       /\ UNCHANGED <<side, vars, adjustVars, subVars>>
    \/ /\ \/ side = "subscriptions" /\ Sub!Next
          \/ side = "moving plans" /\ Moving!Next
       /\ UNCHANGED <<side, vars, adjustVars, voucherVars>>

SideBySide ==
    SideBySideInit /\ [][SideBySideNext]_<<side, vars, adjustVars, voucherVars, subVars>>

Symmetric == Permutations({w1, w2}) \cup Permutations({v1, v2})

-----------------------------------------------------------------------------
(* The ledger explains every term and charge, whatever came between a       *)
(* worker's list and its transaction (Subscriptions).  When a plan moved to *)
(* another group, a renewal may go to a subscription of that group: the     *)
(* charge is then no link of the chain, and all the rest holds.             *)
SubscriptionSafety ==
    /\ side = "subscriptions" => Sub!SubscriptionSafety
    /\ side = "moving plans" => Moving!SubscriptionBooks

(* What a step may never undo, from whatever older read it comes: a closed  *)
(* order, a refund that was recorded, a voucher's revocation; a running     *)
(* term is not expired, its usage not forgotten and a user who opted out    *)
(* not charged.                                                             *)
DecisionsStand ==
    /\ ClosedIsFinal /\ RefundFactsAreFinal
    /\ RevokedIsFinal
    /\ Sub!NeverExpiresRunningTerm /\ Sub!UsageSurvives /\ Sub!OptOutHolds
=============================================================================
