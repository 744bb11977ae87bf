------------------------------- MODULE Vouchers -------------------------------
(***************************************************************************)
(* Redeeming voucher codes.  One SERIALIZABLE transaction looks the         *)
(* idempotency key up, locks the voucher row, checks it, records the        *)
(* redemption and gives the money or the subscription.  Nothing retries:    *)
(* a failed redemption is sent again by the user.                           *)
(***************************************************************************)
EXTENDS Integers, Sequences, FiniteSets, Sums

CONSTANTS
    Users, Vouchers, VoucherKeys,
    NoKey,                     \* a redemption without an idempotency key
    Subscriptions,             \* vouchers that grant a plan; the others money
    SingleUse,                 \* vouchers each user may redeem once
    MaxRedemptions,            \* max_redemptions of each voucher
    Value,                     \* amount of each voucher
    Workers

ASSUME VoucherAssumption ==
    /\ Subscriptions \subseteq Vouchers /\ SingleUse \subseteq Vouchers
    /\ \A v \in Vouchers : MaxRedemptions[v] \in Nat \ {0}
    /\ \A v \in Vouchers : Value[v] \in Nat \ {0}
    /\ NoKey \notin VoucherKeys

Requests == [user : Users, voucher : Vouchers, key : VoucherKeys \cup {NoKey}]

VARIABLES
    voucher,                   \* [status, count] of each voucher row
    voucherVersion,            \* how often the row was written
    voucherLapsed,             \* vouchers whose valid_until has passed
    redemptions,               \* voucher_redemption, in the order of its ids
    effects,                   \* redemptions in the subscription effect ledger
    given,                     \* the balance of each user
    plans,                     \* history: activations and renewals of a user
    credits,                   \* version of each user's balance row
    redeemer,
    succeeded                  \* history: requests answered with success

voucherVars == <<voucher, voucherVersion, voucherLapsed, redemptions, effects, given,
                 plans, credits, redeemer, succeeded>>

Idle == [pc |-> "idle"]

VoucherInit ==
    /\ voucher = [v \in Vouchers |-> [status |-> "active", count |-> 0]]
    /\ voucherVersion = [v \in Vouchers |-> 0]
    /\ voucherLapsed = {} /\ redemptions = <<>> /\ effects = {}
    /\ given = [u \in Users |-> 0] /\ plans = [u \in Users |-> 0]
    /\ credits = [u \in Users |-> 0]
    /\ redeemer = [w \in Workers |-> Idle]
    /\ succeeded = {}

-----------------------------------------------------------------------------
(* The transaction opens: what it reads from here on is this snapshot, and  *)
(* the request's clock was read before.                                     *)
Begin(w) ==
    /\ redeemer[w].pc = "idle"
    /\ \E r \in Requests :
         redeemer' = [redeemer EXCEPT ![w] =
             [pc |-> "open", req |-> r, row |-> voucher[r.voucher],
              version |-> voucherVersion[r.voucher], credits |-> credits[r.user],
              late |-> r.voucher \in voucherLapsed, seen |-> Len(redemptions)]]
    /\ UNCHANGED <<voucher, voucherVersion, voucherLapsed, redemptions, effects, given,
                   plans, credits, succeeded>>

Req(w) == redeemer[w].req
Row(r, v) == [user |-> r.user, voucher |-> v, key |-> r.key, single |-> v \in SingleUse]

(* Redemptions the transaction's snapshot shows. *)
Visible(w) == {i \in DOMAIN redemptions : i <= redeemer[w].seen}

SameKey(r, row) == r.key # NoKey /\ row.user = r.user /\ row.key = r.key
SameUse(r, row) == row.single /\ row.user = r.user /\ row.voucher = r.voucher

KeyRow(w) == {i \in Visible(w) : SameKey(Req(w), redemptions[i])}

(* Fault: the row is read without FOR UPDATE at READ COMMITTED.             *)
Stale_Never(w) == FALSE

(* First updater wins: a row it must lock was written after its snapshot.   *)
Stale(w) ==
    LET r == Req(w) IN
    \/ voucherVersion[r.voucher] # redeemer[w].version
    \/ r.voucher \notin Subscriptions /\ credits[r.user] # redeemer[w].credits

(* evaluateVoucher over the locked row. *)
Usable(w) ==
    LET r == Req(w) IN
    /\ redeemer[w].row.status = "active" /\ ~redeemer[w].late
    /\ redeemer[w].row.count < MaxRedemptions[r.voucher]
    /\ r.voucher \in SingleUse =>
         ~\E i \in Visible(w) : SameUse(r, redemptions[i])

(* Fault: only the single-use index exists.                                 *)
Duplicate_SingleUseOnly(r) == \E i \in DOMAIN redemptions :
    r.voucher \in SingleUse /\ SameUse(r, redemptions[i])

(* The two unique indexes of voucher_redemption. *)
Duplicate(r) ==
    \E i \in DOMAIN redemptions :
        \/ SameKey(r, redemptions[i])
        \/ r.voucher \in SingleUse /\ SameUse(r, redemptions[i])

(* Fault: the effect ledger is not asked first.                             *)
Fulfil_Always(u, id) ==
    /\ plans' = [plans EXCEPT ![u] = @ + 1]
    /\ effects' = effects \cup {id}

(* The subscription is activated or renewed once per redemption. *)
Fulfil(u, id) ==
    /\ plans' = IF id \in effects THEN plans ELSE [plans EXCEPT ![u] = @ + 1]
    /\ effects' = effects \cup {id}

Done(w) == redeemer' = [redeemer EXCEPT ![w] = Idle]
Succeed(w) == Done(w) /\ succeeded' = succeeded \cup {Req(w)}

-----------------------------------------------------------------------------
(* Fault: a key that was used is answered whatever code it comes with.      *)
Replay_AnyCode(w) ==
    /\ redeemer[w].pc = "open"
    /\ KeyRow(w) # {} /\ Succeed(w)
    /\ UNCHANGED <<effects, plans, voucher, voucherVersion, voucherLapsed, redemptions, given,
                   credits>>

(* The key was used before with this code: the recorded redemption is       *)
(* answered, its subscription through the effect ledger.                    *)
Replay(w) ==
    /\ redeemer[w].pc = "open"
    /\ \E i \in KeyRow(w) :
         /\ redemptions[i].voucher = Req(w).voucher
         /\ IF redemptions[i].voucher \in Subscriptions THEN Fulfil(Req(w).user, i)
            ELSE UNCHANGED <<effects, plans>>
    /\ Succeed(w)
    /\ UNCHANGED <<voucher, voucherVersion, voucherLapsed, redemptions, given, credits>>

(* Fault: the redemption leaves the voucher's status alone.                 *)
Spend_StaysActive(v) == [voucher EXCEPT ![v].count = @ + 1]

Spend(v) ==
    [voucher EXCEPT ![v] =
        [count |-> @.count + 1,
         status |-> IF @.count + 1 >= MaxRedemptions[v] THEN "exhausted" ELSE @.status]]

(* Fault: the row does not carry the voucher's single_use_per_user.         *)
Record_NotSingle(r) == Append(redemptions, [Row(r, r.voucher) EXCEPT !.single = FALSE])

Record(r) == Append(redemptions, Row(r, r.voucher))

Redeem(w) ==
    LET r == Req(w) IN
    /\ redeemer[w].pc = "open"
    /\ KeyRow(w) = {} /\ ~Stale(w) /\ Usable(w) /\ ~Duplicate(r)
    /\ redemptions' = Record(r)
    /\ voucher' = Spend(r.voucher)
    /\ voucherVersion' = [voucherVersion EXCEPT ![r.voucher] = @ + 1]
    /\ IF r.voucher \in Subscriptions
         THEN Fulfil(r.user, Len(redemptions) + 1) /\ UNCHANGED <<given, credits>>
         ELSE /\ given' = [given EXCEPT ![r.user] = @ + Value[r.voucher]]
              /\ credits' = [credits EXCEPT ![r.user] = @ + 1]
              /\ UNCHANGED <<plans, effects>>
    /\ Succeed(w)
    /\ UNCHANGED voucherLapsed

(* Everything that answers with an error rolls back: a key used for another *)
(* code, a voucher that cannot be used, a duplicate, a serialization        *)
(* failure, a plan that would be a downgrade, a lost connection.            *)
Fail(w) ==
    /\ redeemer[w].pc = "open" /\ Done(w)
    /\ UNCHANGED <<voucher, voucherVersion, voucherLapsed, redemptions, effects, given,
                   plans, credits, succeeded>>

(* Fault: revoking takes the last redemption back from the count.           *)
RevokeVoucher_Uncounts(v) ==
    /\ voucher[v].status # "revoked"
    /\ voucher' = [voucher EXCEPT ![v] = [status |-> "revoked", count |-> @.count - 1]]
    /\ voucherVersion' = [voucherVersion EXCEPT ![v] = @ + 1]
    /\ UNCHANGED <<voucherLapsed, redemptions, effects, given, plans, credits, redeemer,
                   succeeded>>

(* Revoking takes a voucher whatever its status.                            *)
RevokeVoucher(v) ==
    /\ voucher[v].status # "revoked"
    /\ voucher' = [voucher EXCEPT ![v].status = "revoked"]
    /\ voucherVersion' = [voucherVersion EXCEPT ![v] = @ + 1]
    /\ UNCHANGED <<voucherLapsed, redemptions, effects, given, plans, credits, redeemer,
                   succeeded>>

ValidityEnds(v) ==
    /\ v \notin voucherLapsed /\ voucherLapsed' = voucherLapsed \cup {v}
    /\ UNCHANGED <<voucher, voucherVersion, redemptions, effects, given, plans, credits,
                   redeemer, succeeded>>

VoucherNext ==
    \/ \E w \in Workers : Begin(w) \/ Replay(w) \/ Redeem(w) \/ Fail(w)
    \/ \E v \in Vouchers : RevokeVoucher(v) \/ ValidityEnds(v)

VoucherSpec == VoucherInit /\ [][VoucherNext]_voucherVars

-----------------------------------------------------------------------------
RedemptionsOf(v) == {i \in DOMAIN redemptions : redemptions[i].voucher = v}

(* The redemptions that gave user u a plan, and what each gave in money.    *)
GrantsTo(u) ==
    {i \in DOMAIN redemptions :
        redemptions[i].user = u /\ redemptions[i].voucher \in Subscriptions}

Worth(u) ==
    [i \in DOMAIN redemptions |->
        IF redemptions[i].user = u /\ redemptions[i].voucher \notin Subscriptions
          THEN Value[redemptions[i].voucher] ELSE 0]

(* Types of the variables (voucher, voucher_redemption, user_balances).     *)
VoucherTypeOK ==
    /\ voucher \in [Vouchers -> [status : {"active", "exhausted", "revoked"}, count : Nat]]
    /\ voucherVersion \in [Vouchers -> Nat] /\ voucherLapsed \subseteq Vouchers
    /\ redemptions \in Seq([user : Users, voucher : Vouchers,
                            key : VoucherKeys \cup {NoKey}, single : BOOLEAN])
    /\ effects \subseteq DOMAIN redemptions
    /\ given \in [Users -> Nat] /\ plans \in [Users -> Nat] /\ credits \in [Users -> Nat]
    /\ succeeded \subseteq Requests

(* Redeemed_count counts the redemptions, never passes max_redemptions, and *)
(* a voucher that reached it is not active (Redeem under concurrency).      *)
CountedAndCapped ==
    \A v \in Vouchers :
        /\ voucher[v].count = Cardinality(RedemptionsOf(v))
        /\ voucher[v].count <= MaxRedemptions[v]
        /\ voucher[v].status = "active" <=>
             voucher[v].status # "revoked" /\ voucher[v].count < MaxRedemptions[v]

(* A user redeems a single-use voucher once, whatever keys and however many *)
(* concurrent requests it comes with.                                       *)
OncePerUser ==
    \A i, j \in DOMAIN redemptions :
        redemptions[i].voucher \in SingleUse
          /\ redemptions[i].voucher = redemptions[j].voucher
          /\ redemptions[i].user = redemptions[j].user => i = j

(* One idempotency key of a user redeems once, even when it is sent with    *)
(* two codes at the same time.                                              *)
OncePerKey ==
    \A i, j \in DOMAIN redemptions : SameKey(redemptions[i], redemptions[j]) => i = j

(* What users were given is what their redemptions say: the money of each   *)
(* voucher, and one activation per subscription voucher, replays included.  *)
GivenIsRedeemed ==
    \A u \in Users :
        /\ plans[u] = Cardinality(GrantsTo(u))
        /\ given[u] = SumOf(Worth(u), DOMAIN redemptions)

(* Whoever was told that a code was redeemed has a redemption of that code  *)
(* under that key: a used key never confirms another code.                  *)
SuccessIsRecorded ==
    \A r \in succeeded : \E i \in DOMAIN redemptions :
        /\ redemptions[i].user = r.user /\ redemptions[i].voucher = r.voucher
        /\ redemptions[i].key = r.key

(* A revoked voucher stays revoked and is never redeemed again, not even by *)
(* a transaction that read it before the revocation.                        *)
RevokedIsFinal ==
    [][\A v \in Vouchers : voucher[v].status = "revoked" => voucher'[v] = voucher[v]]_voucherVars

(* Concurrent redemptions of one code stay within its cap, once per user    *)
(* and key, give what they record and are never confirmed without a record. *)
VoucherSafety ==
    /\ VoucherTypeOK
    /\ CountedAndCapped /\ OncePerUser /\ OncePerKey
    /\ GivenIsRedeemed /\ SuccessIsRecorded
=============================================================================
