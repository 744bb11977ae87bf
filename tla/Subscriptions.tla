--------------------------- MODULE Subscriptions ---------------------------
(* The subscriptions of one user: internal/subscription.  Orders and vouchers  *)
(* activate or renew a subscription, the auto-renewal worker charges the       *)
(* wallet and renews, the expiry worker closes what has run out, operators     *)
(* extend, reset, change, cancel and revoke, and the user may change plan or   *)
(* switch auto-renewal off.  Every operation is one serializable transaction   *)
(* retried on conflict, so it is one action here; what interleaves is the      *)
(* clock, the edits of a plan, and the lists the two workers read before the   *)
(* transactions that use them.                                                 *)
(* One cap window stands for the three; the fulfilment effects, the renewal    *)
(* charges and the audit rows are one ledger of granted terms.                 *)
EXTENDS Integers, Sequences, FiniteSets, Functions

CONSTANTS
    Plans,          \* subscription plans
    Terms,          \* plan -> set of terms an operator may give it
    FirstTerms,     \* plan -> its terms at the start
    Orders,         \* paid orders and redeemed vouchers: order -> plan
    Requests,       \* request ids of operator calls
    InitialBalance, \* balance - held of the user's wallet
    Lead,           \* DefaultAutoRenewLeadWindow
    MaxExpires,     \* MaxExpiresAt
    MaxTime,        \* bound of the clock
    MaxSubs,        \* bound of the subscriptions ever created
    MaxOps,         \* bound of the calls of users and operators
    NoCap           \* a window without limit; larger than every limit

Default == "default"    \* DefaultUserGroup
NoGroup == ""

SubsAssumption ==
    /\ FirstTerms \in [Plans -> UNION {Terms[p] : p \in Plans}]
    /\ InitialBalance \in Nat /\ Lead \in Nat
    /\ MaxTime \in Nat /\ MaxExpires \in Nat /\ MaxExpires > MaxTime

VARIABLES
    now,        \* the database clock the transactions are given
    plan,       \* subscription_plans: plan -> terms
    subs,       \* user_subscriptions with their linked quota policy
    group,      \* users.user_group
    balance,    \* user_balances.balance - held
    ledger,     \* the rows that explain every expires_at, in commit order
    expiring,   \* subscriptions some ListDueExpiry returned
    renewBy,    \* subscription -> newest cutoff of a ListAutoRenewDue that returned it
    ops         \* calls made (bounded by MaxOps)

vars == <<now, plan, subs, group, balance, ledger, expiring, renewBy, ops>>

NoPolicy == [limit |-> NoCap, until |-> 0, used |-> 0]

Ids == DOMAIN subs
Active(s) == subs[s].status = "active"
Lapsed(s) == subs[s].expires <= now
InGroup(g) == {s \in Ids : Active(s) /\ subs[s].group = g}

(* The user's current subscription: the active one that ends last.             *)
Current(s) ==
    /\ Active(s)
    /\ \A t \in Ids : Active(t) => \/ subs[t].expires < subs[s].expires
                                   \/ subs[t].expires = subs[s].expires /\ t <= s

\* Fault: repeated purchases pile up without an end.
CapExpiry_None(t) == t
CapExpiry(t) == IF t > MaxExpires THEN MaxExpires ELSE t
FirstEnd(p) == CapExpiry(now + plan[p].days)
Later(t) == IF t > now THEN t ELSE now

(* The quota policy of a subscription: installed fresh, kept with its usage,   *)
(* or closed.                                                                  *)
Install(sub) ==
    [sub EXCEPT !.policy =
        IF sub.cap = NoCap THEN NoPolicy
        ELSE [limit |-> sub.cap, until |-> sub.expires, used |-> 0]]

Reconcile(sub) ==
    IF sub.cap = NoCap \/ sub.policy = NoPolicy THEN Install(sub)
    ELSE [sub EXCEPT !.policy.limit = sub.cap, !.policy.until = sub.expires]

Renewed(sub, p, to) ==
    [sub EXCEPT !.plan = p, !.group = plan[p].group, !.cap = plan[p].cap,
                !.expires = to]

\* Fault: the user is put back to the default group whatever remains active.
Resolved_Default(rows) == Default

(* The group the remaining active subscriptions give: the newest one's.        *)
Resolved(rows) ==
    LET live == {s \in DOMAIN rows : rows[s].status = "active" /\ rows[s].group # NoGroup}
        Newer(s, t) == \/ rows[s].starts > rows[t].starts
                       \/ rows[s].starts = rows[t].starts /\ s >= t
    IN  IF live = {} THEN Default
        ELSE rows[CHOOSE s \in live : \A t \in live : Newer(s, t)].group

\* Fault: the charge of a period is not looked up, nor its index there.
Recorded_NotCharges(kind, key) ==
    kind # "charge" /\ \E i \in DOMAIN ledger : ledger[i].kind = kind /\ ledger[i].key = key
Recorded(kind, key) == \E i \in DOMAIN ledger : ledger[i].kind = kind /\ ledger[i].key = key

Row(kind, key, s, from, to, paid) ==
    [kind |-> kind, key |-> key, sub |-> s, from |-> from, to |-> to, paid |-> paid,
     at |-> now]

Call == ops < MaxOps /\ ops' = ops + 1
Quiet == UNCHANGED <<now, plan, expiring, renewBy>>

------------------------------------------------------------------------------
Init ==
    /\ now = 1
    /\ plan = FirstTerms
    /\ subs = <<>>
    /\ group = Default
    /\ balance = InitialBalance
    /\ ledger = <<>>
    /\ expiring = {}
    /\ renewBy = [s \in 1..MaxSubs |-> 0]
    /\ ops = 0

(* ActivateOrRenewTx without an active subscription in the plan's group.       *)
ActivateNew(p, kind, key, anchor, from, to, paid) ==
    LET sub == [plan |-> p, group |-> plan[p].group, cap |-> plan[p].cap,
                status |-> "active", auto |-> TRUE, starts |-> now,
                expires |-> to, policy |-> NoPolicy]
        s == Len(subs) + 1
    IN  /\ InGroup(plan[p].group) = {}
        /\ s <= MaxSubs
        /\ subs' = Append(subs, Install(sub))
        /\ group' = IF plan[p].group = NoGroup THEN group ELSE plan[p].group
        /\ ledger' = Append(ledger, Row(kind, key, IF anchor = 0 THEN s ELSE anchor,
                                        from, to, paid))

\* Fault: every renewal closes the policy and installs a new one.
RenewActive_Reset(p, upOnly, kind, key, anchor, paid) ==
    \E s \in InGroup(plan[p].group) :
        LET to == CapExpiry(Later(subs[s].expires) + plan[p].days)
        IN  /\ upOnly /\ ~Lapsed(s) => plan[p].cap >= subs[s].cap
            /\ subs' = [subs EXCEPT ![s] = Install(Renewed(subs[s], p, to))]
            /\ ledger' = Append(ledger, Row(kind, key, s, subs[s].expires, to, paid))
            /\ UNCHANGED group

\* Fault: a renewal counts from now and eats what was left of the term.
RenewActive_FromNow(p, upOnly, kind, key, anchor, paid) ==
    \E s \in InGroup(plan[p].group) :
        LET to == CapExpiry(now + plan[p].days)
        IN  /\ upOnly /\ ~Lapsed(s) => plan[p].cap >= subs[s].cap
            /\ subs' = [subs EXCEPT ![s] = Reconcile(Renewed(subs[s], p, to))]
            /\ ledger' = Append(ledger, Row(kind, key, s, subs[s].expires, to, paid))
            /\ UNCHANGED group

(* ActivateOrRenewTx with one: a lapsed one starts over, a running one keeps   *)
(* its policy and what was used of it.                                         *)
RenewActive(p, upOnly, kind, key, anchor, paid) ==
    \E s \in InGroup(plan[p].group) :
        LET to == CapExpiry(Later(subs[s].expires) + plan[p].days)
            sub == Renewed(subs[s], p, to)
        IN  /\ upOnly /\ ~Lapsed(s) => plan[p].cap >= subs[s].cap
            /\ subs' = [subs EXCEPT ![s] = IF Lapsed(s) THEN Install(sub) ELSE Reconcile(sub)]
            /\ ledger' = Append(ledger, Row(kind, key, IF anchor = 0 THEN s ELSE anchor,
                    IF anchor = 0 THEN subs[s].expires ELSE subs[anchor].expires, to, paid))
            /\ UNCHANGED group

\* Fault: the effect row is not looked up.
Fulfil_Replayed(o) ==
    /\ Call
    /\ plan[Orders[o]].enabled
    /\ \/ ActivateNew(Orders[o], "order", o, 0, now, FirstEnd(Orders[o]), 0)
       \/ RenewActive(Orders[o], TRUE, "order", o, 0, 0)
    /\ Quiet /\ UNCHANGED balance

(* FulfillOrderTx and FulfillVoucherTx: a recorded effect is replayed, and a   *)
(* refused downgrade rolls the order's transaction back; neither changes       *)
(* anything here.                                                              *)
Fulfil(o) ==
    /\ Call
    /\ ~Recorded("order", o)
    /\ plan[Orders[o]].enabled
    /\ \/ ActivateNew(Orders[o], "order", o, 0, now, FirstEnd(Orders[o]), 0)
       \/ RenewActive(Orders[o], TRUE, "order", o, 0, 0)
    /\ Quiet /\ UNCHANGED balance

(* AssignSubscription: an operator's grant does nothing when the user already  *)
(* has the group.  Its end is not held to MaxExpiresAt.                        *)
Assign(p) ==
    /\ Call
    /\ plan[p].enabled
    /\ ActivateNew(p, "assign", <<p, ops>>, 0, now, now + plan[p].days, 0)
    /\ Quiet /\ UNCHANGED balance

------------------------------------------------------------------------------
(* Calls of operators and of the user on one subscription.                     *)

\* Fault: the quota policies keep their old end.
Extend_PolicyBehind(r, s, days) ==
    LET key == <<s, r>>  to == CapExpiry(subs[s].expires + days) IN
    /\ Call
    /\ ~Recorded("extend", key)
    /\ Active(s) /\ ~Lapsed(s) /\ to > subs[s].expires
    /\ subs' = [subs EXCEPT ![s].expires = to]
    /\ ledger' = Append(ledger, Row("extend", key, s, subs[s].expires, to, 0))
    /\ Quiet /\ UNCHANGED <<group, balance>>

Extend(r, s, days) ==
    LET key == <<s, r>>  to == CapExpiry(subs[s].expires + days) IN
    /\ Call
    /\ ~Recorded("extend", key)
    /\ Active(s) /\ ~Lapsed(s) /\ to > subs[s].expires
    /\ subs' = [subs EXCEPT ![s].expires = to,
                            ![s].policy.until = IF subs[s].policy = NoPolicy THEN 0 ELSE to]
    /\ ledger' = Append(ledger, Row("extend", key, s, subs[s].expires, to, 0))
    /\ Quiet /\ UNCHANGED <<group, balance>>

ResetQuota(s) ==
    /\ Call
    /\ Active(s) /\ ~Lapsed(s)
    /\ subs' = [subs EXCEPT ![s] = Install(@)]
    /\ Quiet /\ UNCHANGED <<group, balance, ledger>>

(* maybeAuditGroupChangeTx: the user follows only when the subscription is the *)
(* one the present group comes from.                                           *)
GroupAfterChange(before, p, rows) ==
    LET owned == group = IF before.group = NoGroup THEN Default ELSE before.group IN
    IF plan[p].group = before.group \/ ~owned THEN group
    ELSE IF plan[p].group = NoGroup THEN Resolved(rows)
    ELSE plan[p].group

(* ChangePlan: by an operator (who may lower) or by the user, on whose current *)
(* subscription it works.  The unique index refuses a second one in a group.   *)
ChangePlan(r, s, p, mayLower) ==
    LET key == <<s, r>>
        to == CapExpiry(Later(subs[s].expires) + plan[p].days)
        rows == [subs EXCEPT ![s] = Reconcile(Renewed(@, p, to))]
    IN
    /\ Call
    /\ ~Recorded("change", key)
    /\ Active(s) /\ ~Lapsed(s) /\ plan[p].enabled
    /\ ~mayLower => Current(s) /\ plan[p].cap >= subs[s].cap
    /\ InGroup(plan[p].group) \subseteq {s}
    /\ subs' = rows
    /\ group' = GroupAfterChange(subs[s], p, rows)
    /\ ledger' = Append(ledger, Row("change", key, s, subs[s].expires, to, 0))
    /\ Quiet /\ UNCHANGED balance

(* SetAutoRenew: on the user's current subscription.                           *)
SetAutoRenew(on) ==
    \E s \in Ids :
        /\ Call
        /\ Current(s) /\ subs[s].auto # on
        /\ subs' = [subs EXCEPT ![s].auto = on]
        /\ Quiet /\ UNCHANGED <<group, balance, ledger>>

(* closeSubscriptionOnce, downgradeAfterCloseTx                                *)
Close(s, status) ==
    LET rows == [subs EXCEPT ![s].status = status, ![s].policy = NoPolicy] IN
    /\ Active(s)
    /\ subs' = rows
    /\ group' = IF subs[s].group # NoGroup /\ group = subs[s].group
                THEN Resolved(rows) ELSE group
    /\ Quiet /\ UNCHANGED <<balance, ledger>>

Cancel(s) == Call /\ Close(s, "cancelled")
Revoke(s) == Call /\ ~Lapsed(s) /\ Close(s, "revoked")

UpdatePlan(p) ==
    /\ Call
    /\ \E t \in Terms[p] \ {plan[p]} : plan' = [plan EXCEPT ![p] = t]
    /\ UNCHANGED <<now, subs, group, balance, ledger, expiring, renewBy>>

(* Traffic counted against the policy while it is in force.                    *)
Spend(s) ==
    /\ Active(s) /\ subs[s].policy # NoPolicy
    /\ now < subs[s].policy.until /\ subs[s].policy.used < subs[s].policy.limit
    /\ subs' = [subs EXCEPT ![s].policy.used = @ + 1]
    /\ Quiet /\ UNCHANGED <<group, balance, ledger, ops>>

------------------------------------------------------------------------------
(* The workers.  What a listing returned stays usable: a slow replica may hold *)
(* it for any time.                                                            *)

\* Fault: what renews by itself is left to the other worker.
ExpiryScan_NoAuto ==
    LET due == {s \in Ids : Active(s) /\ Lapsed(s) /\ ~subs[s].auto} IN
    /\ ~(due \subseteq expiring)
    /\ expiring' = expiring \cup due
    /\ UNCHANGED <<now, plan, subs, group, balance, ledger, renewBy, ops>>

ExpiryScan ==
    LET due == {s \in Ids : Active(s) /\ Lapsed(s)} IN
    /\ ~(due \subseteq expiring)
    /\ expiring' = expiring \cup due
    /\ UNCHANGED <<now, plan, subs, group, balance, ledger, renewBy, ops>>

\* Fault: the subscription is closed on the word of the listing.
Expire_Stale(s) == s \in expiring /\ Close(s, "expired") /\ UNCHANGED ops

Expire(s) == s \in expiring /\ Lapsed(s) /\ Close(s, "expired") /\ UNCHANGED ops

RenewScan ==
    LET due == {s \in Ids : Active(s) /\ subs[s].auto /\ subs[s].expires <= now + Lead} IN
    /\ \E s \in due : renewBy[s] < now + Lead
    /\ renewBy' = [s \in 1..MaxSubs |-> IF s \in due THEN now + Lead ELSE renewBy[s]]
    /\ UNCHANGED <<now, plan, subs, group, balance, ledger, expiring, ops>>

\* Fault: the term is not checked again under the lock.
TryRenew_NotRechecked(s) ==
    LET p == subs[s].plan  price == plan[p].price  key == <<s, subs[s].expires>> IN
    /\ renewBy[s] > 0
    /\ Active(s) /\ subs[s].auto
    /\ ~Recorded("charge", key)
    /\ plan[p].enabled
    /\ balance >= price
    /\ balance' = balance - price
    /\ \/ ActivateNew(p, "charge", key, s, subs[s].expires, FirstEnd(p), price)
       \/ RenewActive(p, FALSE, "charge", key, s, price)
    /\ Quiet /\ UNCHANGED ops

\* Fault: the switch is not read again under the lock.
TryRenew_OptOutMissed(s) ==
    LET p == subs[s].plan  price == plan[p].price  key == <<s, subs[s].expires>> IN
    /\ renewBy[s] > 0
    /\ Active(s)
    /\ subs[s].expires <= Later(renewBy[s])
    /\ ~Recorded("charge", key)
    /\ plan[p].enabled
    /\ balance >= price
    /\ balance' = balance - price
    /\ \/ ActivateNew(p, "charge", key, s, subs[s].expires, FirstEnd(p), price)
       \/ RenewActive(p, FALSE, "charge", key, s, price)
    /\ Quiet /\ UNCHANGED ops

(* tryAutoRenewOnce: everything the listing said is checked again.             *)
TryRenew(s) ==
    LET p == subs[s].plan  price == plan[p].price  key == <<s, subs[s].expires>> IN
    /\ renewBy[s] > 0
    /\ Active(s) /\ subs[s].auto
    /\ subs[s].expires <= Later(renewBy[s])
    /\ ~Recorded("charge", key)
    /\ plan[p].enabled
    /\ balance >= price
    /\ balance' = balance - price
    /\ \/ ActivateNew(p, "charge", key, s, subs[s].expires, FirstEnd(p), price)
       \/ RenewActive(p, FALSE, "charge", key, s, price)
    /\ Quiet /\ UNCHANGED ops

Tick ==
    /\ now < MaxTime
    /\ now' = now + 1
    /\ UNCHANGED <<plan, subs, group, balance, ledger, expiring, renewBy, ops>>

Next ==
    \/ \E o \in DOMAIN Orders : Fulfil(o)
    \/ \E p \in Plans : Assign(p) \/ UpdatePlan(p)
    \/ \E s \in Ids :
        \/ \E r \in Requests :
            \/ Extend(r, s, 1)
            \/ \E p \in Plans, low \in BOOLEAN : ChangePlan(r, s, p, low)
        \/ ResetQuota(s) \/ Cancel(s) \/ Revoke(s)
        \/ Spend(s) \/ Expire(s) \/ TryRenew(s)
    \/ \E on \in BOOLEAN : SetAutoRenew(on)
    \/ ExpiryScan \/ RenewScan \/ Tick

Spec == Init /\ [][Next]_vars

(* The expiry worker ticks for ever and the clock goes on.                     *)
Fairness ==
    /\ WF_vars(Tick) /\ WF_vars(ExpiryScan)
    /\ \A s \in 1..MaxSubs : WF_vars(s \in Ids /\ Expire(s))

FairSpec == Spec /\ Fairness

------------------------------------------------------------------------------
(* Types.                                                                      *)
SubsTypeOK ==
    /\ now \in 1..MaxTime /\ ops \in 0..MaxOps /\ balance \in 0..InitialBalance
    /\ \A p \in Plans : plan[p] \in Terms[p]
    /\ Len(subs) <= MaxSubs /\ expiring \subseteq Ids
    /\ \A s \in Ids :
        /\ subs[s].status \in {"active", "cancelled", "expired", "revoked"}
        /\ subs[s].starts < subs[s].expires
    /\ \A i \in DOMAIN ledger : ledger[i].sub \in Ids

RowsOf(s) == SelectSeq(ledger, LAMBDA row : row.sub = s)

(* The ledger explains every term: the rows of a subscription follow on one    *)
(* another without gap or overlap, each adds time, and the last one ends where *)
(* the subscription does (activation.go:85-89, store_postgres_admin_ops.go:119, *)
(* store_postgres_auto_renewal.go:197-206).                                    *)
LedgerChain ==
    \A s \in Ids :
        LET rows == RowsOf(s) IN
        /\ rows # <<>> /\ rows[Len(rows)].to = subs[s].expires
        /\ \A i \in DOMAIN rows :
            /\ rows[i].to > rows[i].from \/ rows[i].to = MaxExpires
            /\ i > 1 => rows[i].from = rows[i - 1].to

(* Nothing but an operator's grant of a new subscription reaches past the      *)
(* limit: no purchase, extension, change or renewal does, however they pile up *)
(* (activation.go:85-89, store_postgres.go:219).                               *)
OnlyGrantsPassLimit ==
    \A s \in Ids : subs[s].expires > MaxExpires =>
        \E i \in DOMAIN ledger :
            ledger[i].kind = "assign" /\ ledger[i].sub = s /\ ledger[i].to = subs[s].expires

(* An order, a voucher and a request id move an expiry at most once            *)
(* (order_fulfillment.go:34-40, store_postgres_admin_ops.go:108).              *)
KeyAppliedOnce ==
    \A i, j \in DOMAIN ledger :
        i # j => <<ledger[i].kind, ledger[i].key>> # <<ledger[j].kind, ledger[j].key>>

(* The wallet is never charged for a term whose predecessor still has more     *)
(* than the lead window to run, however long ago it was listed                 *)
(* (store_postgres_auto_renewal.go:116-126).                                   *)
NoEarlyCharge ==
    \A i \in DOMAIN ledger :
        ledger[i].kind = "charge" => ledger[i].from <= ledger[i].at + Lead

(* What left the wallet is the sum of the charges, one for each period, even   *)
(* when a renewal went to another subscription than the one it was charged for *)
(* and left the period as it was (store_postgres_auto_renewal.go:146-152,      *)
(* 0162_subscription_auto_renewal.up.sql:32).                                  *)
PeriodPaidOnce ==
    LET charged == {<<ledger[i].key, ledger[i].paid>> :
                        i \in {j \in DOMAIN ledger : ledger[j].kind = "charge"}}
    IN  FoldFunctionOnSet(LAMBDA e, sum : e + sum, InitialBalance - balance,
                [c \in charged |-> -c[2]], charged) = 0

(* The user's group is one an active subscription gives, and default only when *)
(* none gives any (store_postgres.go:487-500, store_postgres_admin_ops.go:451). *)
GroupIsBacked ==
    IF group = Default THEN \A s \in Ids : Active(s) => subs[s].group = NoGroup
    ELSE InGroup(group) # {}

(* An active subscription's policy has its cap and its end, a closed one has   *)
(* none, and a group has one active subscription (store_postgres_caps.go:63,   *)
(* store_postgres_admin_ops.go:140, 0073_subscription.up.sql:88).              *)
CapsMirrored ==
    \A s \in Ids :
        /\ IF Active(s) /\ subs[s].cap # NoCap
           THEN /\ subs[s].policy.limit = subs[s].cap
                /\ subs[s].policy.until = subs[s].expires
           ELSE subs[s].policy = NoPolicy
        /\ Active(s) => InGroup(subs[s].group) = {s}

(* No subscription is expired while its term runs, though it was renewed after *)
(* the worker listed it (store_postgres.go:459-467).                           *)
NeverExpiresRunningTerm ==
    [][\A s \in Ids : (Active(s) /\ subs'[s].status = "expired") => Lapsed(s)]_vars

(* What was used of a running term is forgotten only by an operator's reset    *)
(* (activation.go:95-111, store_postgres_caps.go:53).                          *)
UsageSurvives ==
    [][\A s \in Ids :
        (/\ Active(s) /\ ~Lapsed(s) /\ subs'[s].status = "active"
         /\ subs[s].policy # NoPolicy /\ subs'[s].policy # NoPolicy
         /\ subs'[s].policy.used < subs[s].policy.used) => ResetQuota(s)]_vars

(* A subscription whose renewal is off when the transaction runs is not        *)
(* charged (store_postgres_auto_renewal.go:113).                               *)
OptOutHolds ==
    [][balance' < balance =>
        \E s \in Ids : subs[s].auto /\ ledger'[Len(ledger')].sub = s]_vars

(* A subscription past its term is closed or renewed: one that renews by       *)
(* itself but cannot be paid too (store_postgres_auto_renewal.go:19-20).       *)
PastTermEnds ==
    \A s \in 1..MaxSubs :
        (s \in Ids /\ Active(s) /\ Lapsed(s))
            ~> (s \in Ids /\ (~Active(s) \/ ~Lapsed(s)))

(* What is charged for a subscription renews it: "the transaction rolls back   *)
(* rather than charge without renewing" (store.go:60).                         *)
(* Violated: the plan has moved to another group since.                     *)
ChargedIsRenewed ==
    [][\A s \in Ids :
        (Len(ledger') > Len(ledger) /\ ledger'[Len(ledger')].kind = "charge"
            /\ ledger'[Len(ledger')].sub = s /\ balance' < balance)
        => subs'[s].expires > subs[s].expires]_vars
(* A renewal in the middle of a term only moves its end back: "a mid-term      *)
(* renewal can only extend" (activation.go:99).                                *)
(* Violated: an operator's grant is not held to the limit, its renewal is.  *)
RenewalOnlyExtends ==
    [][\A s \in Ids : Active(s) => subs'[s].expires >= subs[s].expires]_vars

(* Whatever orders, renewals, expiries and operator calls come between the     *)
(* workers' lists and their transactions: no key applies twice, every charge   *)
(* pays for one period, only a grant reaches past the limit of a term, and     *)
(* groups and caps follow the active subscriptions.                            *)
SubscriptionBooks ==
    /\ SubsTypeOK
    /\ KeyAppliedOnce /\ PeriodPaidOnce /\ OnlyGrantsPassLimit
    /\ GroupIsBacked /\ CapsMirrored

(* And, as long as plans keep their groups, the ledger explains every term and *)
(* nobody is charged early.                                                    *)
SubscriptionSafety == SubscriptionBooks /\ LedgerChain /\ NoEarlyCharge
==============================================================================
