---------------------------- MODULE BillingLedger ----------------------------
(***************************************************************************)
(* The money core: the rows of billing_ledger_claims, balance_holds,       *)
(* user_balances, pool_slot_acquisitions, billing_events and usage_records, *)
(* and the database transactions that change them.  Every action is one    *)
(* committed transaction (all of them Serializable or a single statement);  *)
(* a transaction that rolls back is no step.  Who calls what, and in which  *)
(* order, is left open here: any caller may run any transaction at any      *)
(* time, with an attempt number or a slot as stale as it likes.             *)
(* SettlementPipeline adds the callers.                                     *)
(***************************************************************************)
EXTENDS Integers, FiniteSets, Sequences, Sums

CONSTANTS
    Claims,          \* one per (tenant, api key, idempotency key)
    Users,
    UserOf,          \* [Claims -> Users]
    Wallets,         \* the users that have a row in user_balances
    InitialBalance,  \* [Users -> Nat], 0 without a wallet
    Operational,     \* the claims whose billing_effect is operational_cost
    Mandatory,       \* the claims reserved with EnforcementModeMandatory
    Slots,           \* acquisition tokens, one per row of pool_slot_acquisitions
    Accounts,        \* provider accounts
    Cap,             \* [Accounts -> Nat], cap_concurrency
    Costs,           \* predicted and actual costs, a subset of Nat
    MaxSeq,          \* bound on attempt_seq: the attempts of one claim
    Replayers,       \* dead-letter workers that may have one row in hand at once
    NoSlot           \* NULL acquisition_token

ASSUME LedgerAssumption ==
    /\ UserOf \in [Claims -> Users]
    /\ Wallets \subseteq Users
    /\ InitialBalance \in [Users -> Nat]
    /\ \A u \in Users \ Wallets : InitialBalance[u] = 0
    /\ Operational \subseteq Claims
    /\ Mandatory \subseteq Claims
    /\ IsFiniteSet(Slots)
    /\ NoSlot \notin Slots
    /\ Cap \in [Accounts -> Nat]
    /\ Costs \subseteq Nat
    /\ MaxSeq \in Nat
    /\ Replayers \in Nat

VARIABLES
    claim,           \* billing_ledger_claims
    hold,            \* balance_holds, keyed by claim
    balance,         \* user_balances.balance
    held,            \* user_balances.held
    slot,            \* pool_slot_acquisitions, keyed by token
    inFlight,        \* provider_accounts.in_flight_count
    events,          \* the billing_events of each claim, in commit order
    usage,           \* the usage_records of each claim, in commit order
    usageDLQ,        \* the usage_record row of usage_record_dlq of each claim
    replays          \* inserts under way that saw no usage row of the claim

walletVars == <<hold, balance, held>>
slotVars == <<slot, inFlight>>
usageVars == <<usage, usageDLQ, replays>>
ledgerVars == <<claim, walletVars, slotVars, events, usageVars>>

ClaimRow ==
    [status : {"none", "reserving", "committed", "aborted"},
     seq    : Nat,                  \* attempt_seq
     token  : Slots \cup {NoSlot},  \* acquisition_token, with provider_account_id
     actual : Costs \cup {0}]       \* actual_cost

HoldRow ==
    [state    : {"none", "held", "captured", "released"},
     amount   : Costs \cup {0},
     captured : Costs \cup {0}]

SlotRow ==
    [state : {"free", "acquired", "released_success", "released_failure",
              "orphan_swept"},
     claim : Claims, seq : Nat, account : Accounts]

FreeSlot == [state |-> "free"]

EventRow == [type : {"claim_committed", "claim_aborted"}, cost : Costs \cup {0}]
UsageRow == [seq : Nat, cost : Costs \cup {0}]
ParkedRow == [row : UsageRow, delivered : BOOLEAN]
NoRow == [delivered |-> TRUE]

LedgerInit ==
    /\ claim = [c \in Claims |->
                   [status |-> "none", seq |-> 0, token |-> NoSlot, actual |-> 0]]
    /\ hold = [c \in Claims |-> [state |-> "none", amount |-> 0, captured |-> 0]]
    /\ balance = InitialBalance
    /\ held = [u \in Users |-> 0]
    /\ slot = [s \in Slots |-> FreeSlot]
    /\ inFlight = [a \in Accounts |-> 0]
    /\ events = [c \in Claims |-> << >>]
    /\ usage = [c \in Claims |-> << >>]
    /\ usageDLQ = [c \in Claims |-> NoRow]
    /\ replays = [c \in Claims |-> 0]

-----------------------------------------------------------------------------
(* The parts transactions are made of.                                      *)

(* Fault: the whole balance counts as available.                            *)
FreezeHold_IgnoresHeld(c, cost) ==
    LET u == UserOf[c] IN
    \/ /\ c \in Operational \/ (u \notin Wallets /\ c \notin Mandatory)
       /\ UNCHANGED walletVars
    \/ /\ c \notin Operational
       /\ u \in Wallets
       /\ balance[u] >= cost
       /\ held' = [held EXCEPT ![u] = @ + cost]
       /\ hold' = [hold EXCEPT ![c] = [state |-> "held", amount |-> cost, captured |-> 0]]
       /\ UNCHANGED balance

(* Fault: an operational claim freezes its user's wallet.                   *)
FreezeHold_ChargesOperational(c, cost) ==
    LET u == UserOf[c] IN
    \/ u \notin Wallets /\ c \notin Mandatory /\ UNCHANGED walletVars
    \/ /\ u \in Wallets
       /\ balance[u] - held[u] >= cost
       /\ held' = [held EXCEPT ![u] = @ + cost]
       /\ hold' = [hold EXCEPT ![c] = [state |-> "held", amount |-> cost, captured |-> 0]]
       /\ UNCHANGED balance

(***************************************************************************)
(* ReserveBalanceHold and UpsertBalanceHold.  A user without a wallet       *)
(* passes unless the mode is mandatory; a wallet that is short never does.  *)
(* The upsert overwrites a released hold only.                              *)
(***************************************************************************)
FreezeHold(c, cost) ==
    LET u == UserOf[c] IN
    \/ /\ c \in Operational \/ (u \notin Wallets /\ c \notin Mandatory)
       /\ UNCHANGED walletVars
    \/ /\ c \notin Operational
       /\ u \in Wallets
       /\ balance[u] - held[u] >= cost
       /\ held' = [held EXCEPT ![u] = @ + cost]
       /\ hold' = IF hold[c].state \in {"none", "released"}
                     THEN [hold EXCEPT ![c] = [state |-> "held", amount |-> cost,
                                               captured |-> 0]]
                     ELSE hold
       /\ UNCHANGED balance

(* Fault: the real cost, not the frozen amount, is given back.              *)
CaptureHold_GivesBackCost(c, cost) ==
    LET u == UserOf[c] IN
    \/ /\ c \notin Operational
       /\ hold[c].state = "held"
       /\ hold' = [hold EXCEPT ![c].state = "captured", ![c].captured = cost]
       /\ balance' = [balance EXCEPT ![u] = @ - cost]
       /\ held' = [held EXCEPT ![u] = @ - cost]
    \/ /\ c \in Operational \/ hold[c].state # "held"
       /\ UNCHANGED walletVars

(* Fault: a claim without a hold is charged all the same.                   *)
CaptureHold_WithoutHold(c, cost) ==
    /\ hold' = [hold EXCEPT ![c].state = IF @ = "held" THEN "captured" ELSE @,
                            ![c].captured = cost]
    /\ balance' = [balance EXCEPT ![UserOf[c]] = @ - cost]
    /\ held' = [held EXCEPT ![UserOf[c]] = @ - (IF hold[c].state = "held"
                                                    THEN hold[c].amount ELSE 0)]

(* Capture: the hold is given back whole, the real cost is taken.           *)
CaptureHold(c, cost) ==
    LET u == UserOf[c] IN
    \/ /\ c \notin Operational
       /\ hold[c].state = "held"
       /\ hold' = [hold EXCEPT ![c].state = "captured", ![c].captured = cost]
       /\ balance' = [balance EXCEPT ![u] = @ - cost]
       /\ held' = [held EXCEPT ![u] = @ - hold[c].amount]
    \/ /\ c \in Operational \/ hold[c].state # "held"
       /\ UNCHANGED walletVars

(* Fault: an abort leaves the hold behind.                                  *)
ReleaseHold_Forgotten(c) == UNCHANGED walletVars

ReleaseHold(c) ==
    LET u == UserOf[c] IN
    \/ /\ c \notin Operational
       /\ hold[c].state = "held"
       /\ hold' = [hold EXCEPT ![c].state = "released"]
       /\ held' = [held EXCEPT ![u] = @ - hold[c].amount]
       /\ UNCHANGED balance
    \/ /\ c \in Operational \/ hold[c].state # "held"
       /\ UNCHANGED walletVars

(* Fault: a slot that was released already is counted down again.           *)
ReleaseSlotAndDecrement_Twice(s, outcome) ==
    /\ slot[s].state # "free"
    /\ slot' = [slot EXCEPT ![s].state = outcome]
    /\ inFlight' = [inFlight EXCEPT ![slot[s].account] = @ - 1]

(***************************************************************************)
(* ReleaseSlotAndDecrementInFlight: only a slot that is still acquired is   *)
(* flipped and counted down.  A miss is accepted when the slot is already   *)
(* in a released state (verifyAlreadyReleasedSlot).                         *)
(***************************************************************************)
ReleaseSlotAndDecrement(s, outcome) ==
    \/ /\ slot[s].state = "acquired"
       /\ slot' = [slot EXCEPT ![s].state = outcome]
       /\ inFlight' = [inFlight EXCEPT ![slot[s].account] = IF @ > 0 THEN @ - 1 ELSE @]
    \/ /\ slot[s].state \notin {"free", "acquired"}
       /\ UNCHANGED slotVars

(***************************************************************************)
(* insertUsageRecordOrDLQ: the row is stored, or parked in the dead-letter  *)
(* queue under the key usage_record:<tenant>:<claim>.  A row of that key    *)
(* that is there already keeps its payload and its status.                  *)
(***************************************************************************)
RecordUsage(c, cost) ==
    LET row == [seq |-> claim[c].seq, cost |-> cost] IN
    /\ \/ /\ usage' = [usage EXCEPT ![c] = Append(@, row)]
          /\ UNCHANGED usageDLQ
       \/ /\ usageDLQ' = IF usageDLQ[c] = NoRow
                            THEN [usageDLQ EXCEPT ![c] = [row |-> row, delivered |-> FALSE]]
                            ELSE usageDLQ
          /\ UNCHANGED usage
    /\ UNCHANGED replays

LogEvent(c, type, cost) ==
    events' = [events EXCEPT ![c] = Append(@, [type |-> type, cost |-> cost])]

-----------------------------------------------------------------------------
(* The transactions.                                                        *)

(* Fault: a committed claim is revived like an aborted one.                 *)
Reserve_RevivesCommitted(c, cost) ==
    /\ claim[c].status # "reserving"
    /\ claim[c].seq < MaxSeq
    /\ claim' = [claim EXCEPT ![c] = [status |-> "reserving", seq |-> @.seq + 1,
                                      token |-> NoSlot, actual |-> 0]]
    /\ FreezeHold(c, cost)
    /\ UNCHANGED <<slotVars, events, usageVars>>

(***************************************************************************)
(* Tx1.  A committed claim is an idempotency hit and a reserving one a      *)
(* race: neither changes anything.  A new claim is inserted; an aborted one *)
(* is revived under the next attempt number, without account and token.     *)
(***************************************************************************)
Reserve(c, cost) ==
    /\ claim[c].status \in {"none", "aborted"}
    /\ claim[c].seq < MaxSeq
    /\ claim' = [claim EXCEPT ![c] = [status |-> "reserving", seq |-> @.seq + 1,
                                      token |-> NoSlot, actual |-> 0]]
    /\ FreezeHold(c, cost)
    /\ UNCHANGED <<slotVars, events, usageVars>>

(* Fault: the increment does not look at the cap.                           *)
Acquire_NoCap(s, c, q, a) ==
    /\ slot[s].state = "free"
    /\ slot' = [slot EXCEPT ![s] = [state |-> "acquired", claim |-> c, seq |-> q,
                                    account |-> a]]
    /\ inFlight' = [inFlight EXCEPT ![a] = @ + 1]
    /\ UNCHANGED <<claim, walletVars, events, usageVars>>

(* The selector's slot acquisition; the claim itself is not looked at.      *)
Acquire(s, c, q, a) ==
    /\ slot[s].state = "free"
    /\ inFlight[a] < Cap[a]
    /\ slot' = [slot EXCEPT ![s] = [state |-> "acquired", claim |-> c, seq |-> q,
                                    account |-> a]]
    /\ inFlight' = [inFlight EXCEPT ![a] = @ + 1]
    /\ UNCHANGED <<claim, walletVars, events, usageVars>>

(* The selector gives a slot back when its token could not be written.      *)
SelectorRelease(s) ==
    /\ slot[s].state # "free"
    /\ ReleaseSlotAndDecrement(s, "released_failure")
    /\ UNCHANGED <<claim, walletVars, events, usageVars>>

(***************************************************************************)
(* WriteAcquisitionToken asks that the claim be reserving and nothing else: *)
(* neither that it have no token yet nor that the attempt be the slot's.    *)
(***************************************************************************)
WriteAcquisition(c, s) ==
    /\ claim[c].status = "reserving"
    /\ claim' = [claim EXCEPT ![c].token = s]
    /\ UNCHANGED <<walletVars, slotVars, events, usageVars>>

(* Fault: the status is not part of the lookup.                             *)
Settle_AnyStatus(c, s, cost) ==
    /\ claim[c].token = s
    /\ LogEvent(c, "claim_committed", cost)
    /\ RecordUsage(c, cost)
    /\ ReleaseSlotAndDecrement(s, "released_success")
    /\ claim' = [claim EXCEPT ![c].status = "committed", ![c].actual = cost]
    /\ CaptureHold(c, cost)

(***************************************************************************)
(* Tx2, commit.  The claim is found by its id, its token and its status;    *)
(* the attempt the caller thinks it settles is not compared.                *)
(***************************************************************************)
Settle(c, s, cost) ==
    /\ claim[c].status = "reserving"
    /\ claim[c].token = s
    /\ LogEvent(c, "claim_committed", cost)
    /\ RecordUsage(c, cost)
    /\ ReleaseSlotAndDecrement(s, "released_success")
    /\ claim' = [claim EXCEPT ![c].status = "committed", ![c].actual = cost]
    /\ CaptureHold(c, cost)

(* Fault: the slot is left to the orphan sweep.                             *)
Abort_KeepsSlot(c) ==
    /\ claim[c].status = "reserving"
    /\ claim' = [claim EXCEPT ![c].status = "aborted"]
    /\ ReleaseHold(c)
    /\ LogEvent(c, "claim_aborted", 0)
    /\ \/ claim[c].token = NoSlot /\ UNCHANGED usageVars
       \/ claim[c].token # NoSlot /\ RecordUsage(c, 0)
    /\ UNCHANGED slotVars

(***************************************************************************)
(* Tx2, abort.  The claim is found by its id alone.  The usage row and the  *)
(* slot are touched only if an account and a token were written.            *)
(***************************************************************************)
Abort(c) ==
    /\ claim[c].status = "reserving"
    /\ claim' = [claim EXCEPT ![c].status = "aborted"]
    /\ ReleaseHold(c)
    /\ LogEvent(c, "claim_aborted", 0)
    /\ \/ /\ claim[c].token = NoSlot
          /\ UNCHANGED <<usageVars, slotVars>>
       \/ /\ claim[c].token # NoSlot
          /\ RecordUsage(c, 0)
          /\ ReleaseSlotAndDecrement(claim[c].token, "released_failure")

(***************************************************************************)
(* A response-cache hit commits the claim for nothing.  Callers use it only *)
(* before an account is chosen, so no slot is released.                     *)
(***************************************************************************)
CommitCacheHit(c) ==
    /\ claim[c].status = "reserving"
    /\ claim[c].token = NoSlot
    /\ claim' = [claim EXCEPT ![c].status = "committed", ![c].actual = 0]
    /\ CaptureHold(c, 0)
    /\ LogEvent(c, "claim_committed", 0)
    /\ RecordUsage(c, 0)
    /\ UNCHANGED slotVars

(* Fault: the sweep does not look at the slot's own state.                  *)
SweepOrphanSlot_Released(s) ==
    /\ slot[s].state # "free"
    /\ ~ /\ claim[slot[s].claim].status = "reserving"
         /\ claim[slot[s].claim].seq = slot[s].seq
    /\ slot' = [slot EXCEPT ![s].state = "orphan_swept"]
    /\ inFlight' = [inFlight EXCEPT ![slot[s].account] = IF @ > 0 THEN @ - 1 ELSE @]
    /\ UNCHANGED <<claim, walletVars, events, usageVars>>

(***************************************************************************)
(* SweepOrphanedSlotAcquisitions: a slot whose 90 s lease has run out and   *)
(* whose attempt is no longer reserving.  Time may always have passed.      *)
(***************************************************************************)
SweepOrphanSlot(s) ==
    /\ slot[s].state = "acquired"
    /\ ~ /\ claim[slot[s].claim].status = "reserving"
         /\ claim[slot[s].claim].seq = slot[s].seq
    /\ slot' = [slot EXCEPT ![s].state = "orphan_swept"]
    /\ inFlight' = [inFlight EXCEPT ![slot[s].account] = IF @ > 0 THEN @ - 1 ELSE @]
    /\ UNCHANGED <<claim, walletVars, events, usageVars>>

NoUsageStep == UNCHANGED <<claim, walletVars, slotVars, events>>

(* Fault: the insert is not conditional.                                    *)
ReplayLook_Unconditional(c) ==
    /\ ~usageDLQ[c].delivered
    /\ replays[c] < Replayers
    /\ replays' = [replays EXCEPT ![c] = @ + 1]
    /\ UNCHANGED <<usage, usageDLQ>>
    /\ NoUsageStep

(***************************************************************************)
(* A worker replays a parked usage row: INSERT ... SELECT ... WHERE NOT     *)
(* EXISTS any usage row of the claim.  The statement looks first, at its    *)
(* own snapshot, and stores later: the table has no unique index, and a     *)
(* worker whose 30 s lease on the row ran out may still be at it when the    *)
(* next one looks.                                                          *)
(***************************************************************************)
ReplayLook(c) ==
    /\ ~usageDLQ[c].delivered
    /\ usage[c] = << >>
    /\ replays[c] < Replayers
    /\ replays' = [replays EXCEPT ![c] = @ + 1]
    /\ UNCHANGED <<usage, usageDLQ>>
    /\ NoUsageStep

(* The insert of a look that found nothing, whatever has been stored since. *)
ReplayInsert(c) ==
    /\ replays[c] > 0 /\ usageDLQ[c] # NoRow
    /\ usage' = [usage EXCEPT ![c] = Append(@, usageDLQ[c].row)]
    /\ replays' = [replays EXCEPT ![c] = @ - 1]
    /\ UNCHANGED usageDLQ
    /\ NoUsageStep

(* Fault: the row is marked delivered before it is inserted.                *)
ReplayMark_First(c) ==
    /\ ~usageDLQ[c].delivered
    /\ usageDLQ' = [usageDLQ EXCEPT ![c].delivered = TRUE]
    /\ UNCHANGED <<usage, replays>>
    /\ NoUsageStep

(* The handler has stored the row, or has found one of the claim, be it of  *)
(* another attempt: the parked row is marked delivered.  A lost mark leaves *)
(* it to the next worker.                                                   *)
ReplayMark(c) ==
    /\ ~usageDLQ[c].delivered
    /\ usage[c] # << >>
    /\ usageDLQ' = [usageDLQ EXCEPT ![c].delivered = TRUE]
    /\ UNCHANGED <<usage, replays>>
    /\ NoUsageStep

ReplayUsage(c) == ReplayLook(c) \/ ReplayInsert(c) \/ ReplayMark(c)

(* The slots the callers of claim c hold or held. *)
SlotsOf(c) == {s \in Slots : slot[s].state # "free" /\ slot[s].claim = c}

LedgerNext ==
    \/ \E c \in Claims :
          \/ \E cost \in Costs : Reserve(c, cost)
          \/ \E s \in Slots, q \in 1..claim[c].seq, a \in Accounts : Acquire(s, c, q, a)
          \/ \E s \in SlotsOf(c) : WriteAcquisition(c, s)
          \/ \E s \in SlotsOf(c), cost \in Costs : Settle(c, s, cost)
          \/ Abort(c)
          \/ CommitCacheHit(c)
          \/ ReplayUsage(c)
    \/ \E s \in Slots : SelectorRelease(s) \/ SweepOrphanSlot(s)

LedgerSpec == LedgerInit /\ [][LedgerNext]_ledgerVars

-----------------------------------------------------------------------------
(* Properties.                                                              *)

(***************************************************************************)
(* Every row has its type; in_flight_count never leaves 0..cap_concurrency  *)
(* although three statements decrement it (the settler, the selector and    *)
(* the orphan sweep).                                                       *)
(***************************************************************************)
TypeOK ==
    /\ claim \in [Claims -> ClaimRow]
    /\ hold \in [Claims -> HoldRow]
    /\ balance \in [Users -> Int]
    /\ held \in [Users -> Int]
    /\ slot \in [Slots -> SlotRow \cup {FreeSlot}]
    /\ inFlight \in [Accounts -> Nat]
    /\ events \in [Claims -> Seq(EventRow)]
    /\ usage \in [Claims -> Seq(UsageRow)]
    /\ usageDLQ \in [Claims -> ParkedRow \cup {NoRow}]
    /\ replays \in [Claims -> Nat]

Metered(c) == c \notin Operational /\ UserOf[c] \in Wallets

HoldStateFor(status) ==
    CASE status = "none"      -> "none"
      [] status = "reserving" -> "held"
      [] status = "committed" -> "captured"
      [] status = "aborted"   -> "released"

(***************************************************************************)
(* The hold of a metered claim is in step with the claim after every        *)
(* transaction, over any number of aborts and re-reservations, and a        *)
(* captured hold has taken exactly the claim's actual cost: nobody is       *)
(* charged without a committed claim and no hold outlives its attempt.      *)
(* Unmetered claims never get a hold (claim_gate.go, balancehold.go).       *)
(***************************************************************************)
HoldFollowsClaim ==
    \A c \in Claims :
        /\ hold[c].state = IF Metered(c) THEN HoldStateFor(claim[c].status) ELSE "none"
        /\ hold[c].state = "captured" => hold[c].captured = claim[c].actual

FrozenBy(c) == IF hold[c].state = "held" THEN hold[c].amount ELSE 0
ChargedBy(c) == IF hold[c].state = "captured" THEN hold[c].captured ELSE 0
ClaimsOf(u) == {c \in Claims : UserOf[c] = u}

(***************************************************************************)
(* user_balances is the sum of the holds: what is held is what the open     *)
(* holds froze, and what has left the balance is what was captured.  The    *)
(* two tables are updated by separate statements that add and subtract.     *)
(***************************************************************************)
WalletIsSumOfHolds ==
    \A u \in Users :
        /\ held[u] = SumOf([c \in Claims |-> FrozenBy(c)], ClaimsOf(u))
        /\ balance[u] = InitialBalance[u]
                          - SumOf([c \in Claims |-> ChargedBy(c)], ClaimsOf(u))

(***************************************************************************)
(* A wallet that is short of what it has frozen got there only because      *)
(* some claim cost more than was predicted: concurrent reservations alone   *)
(* never overdraw it (the check and the update of ReserveBalanceHold are    *)
(* one statement), but captures do not look at the balance.                 *)
(***************************************************************************)
OverdraftOnlyByOverrun ==
    \A u \in Users :
        balance[u] < held[u] =>
            \E c \in ClaimsOf(u) : hold[c].state = "captured" /\ hold[c].captured > hold[c].amount

(***************************************************************************)
(* Every attempt ends in exactly one billing event: all but the last        *)
(* attempt of a claim were aborted, and a committed claim's last event      *)
(* carries its cost.  So a claim is charged at most once whatever is        *)
(* retried or replayed.                                                     *)
(***************************************************************************)
OneEventPerAttempt ==
    \A c \in Claims :
        /\ Len(events[c]) = IF claim[c].status = "reserving" THEN claim[c].seq - 1
                                                            ELSE claim[c].seq
        /\ \A i \in 1..Len(events[c]) :
              events[c][i] =
                 IF i = claim[c].seq /\ claim[c].status = "committed"
                    THEN [type |-> "claim_committed", cost |-> claim[c].actual]
                    ELSE [type |-> "claim_aborted", cost |-> 0]

AcquiredOn(a) == {s \in Slots : slot[s].state = "acquired" /\ slot[s].account = a}

(***************************************************************************)
(* in_flight_count is the number of acquired slots of the account, within   *)
(* its cap: no release is counted twice or forgotten among the settler,     *)
(* the selector's cleanup and the orphan sweep.                             *)
(***************************************************************************)
InFlightIsAcquired ==
    \A a \in Accounts :
        /\ inFlight[a] = Cardinality(AcquiredOn(a))
        /\ inFlight[a] <= Cap[a]

(***************************************************************************)
(* A finished claim does not keep the slot of its token: Settle and Abort   *)
(* return it in the transaction that ends the claim, or somebody had.       *)
(***************************************************************************)
FinishedClaimReturnsSlot ==
    \A c \in Claims :
        claim[c].status \in {"committed", "aborted"} /\ claim[c].token # NoSlot
            => slot[claim[c].token].state \notin {"free", "acquired"}

(* Where the rows us record the attempt of row.                             *)
CopiesIn(us, row) == {i \in 1..Len(us) : us[i].seq = row.seq}

(***************************************************************************)
(* A usage record, stored or parked, carries the cost of the billing event  *)
(* of its own attempt.  No attempt is recorded twice but the parked one:    *)
(* the insert is conditional and not unique, so that workers that looked at *)
(* the same time store its row once each, and no worker stores it again.    *)
(***************************************************************************)
UsageAgreesWithEvents ==
    \A c \in Claims :
        LET Matches(row) == row.seq \in 1..Len(events[c]) /\ events[c][row.seq].cost = row.cost
            parked == usageDLQ[c] # NoRow
        IN  /\ \A i \in 1..Len(usage[c]) : Matches(usage[c][i])
            /\ parked => Matches(usageDLQ[c].row)
            /\ \A i, j \in 1..Len(usage[c]) :
                  usage[c][i].seq = usage[c][j].seq =>
                      i = j \/ (parked /\ usage[c][i] = usageDLQ[c].row)
            /\ parked => Cardinality(CopiesIn(usage[c], usageDLQ[c].row)) <= Replayers

(***************************************************************************)
(* The recovery worker accepts "committed" only with a usage row as proof:  *)
(* a committed claim always has one, or one that is still to be replayed.   *)
(***************************************************************************)
CommittedHasUsage ==
    \A c \in Claims :
        claim[c].status = "committed" => usage[c] # << >> \/ ~usageDLQ[c].delivered

(***************************************************************************)
(* Committed is final: no later transaction, of this attempt or another,    *)
(* touches the claim, its hold or its events.                               *)
(***************************************************************************)
CommittedIsFinal ==
    [][\A c \in Claims :
          claim[c].status = "committed" =>
              claim'[c] = claim[c] /\ hold'[c] = hold[c] /\ events'[c] = events[c]]_ledgerVars

(***************************************************************************)
(* settler.go, in abortOnce: every Tx2 leaves one usage record, so aborted  *)
(* and committed attempts can be queried alike.  (Not what the code does: a *)
(* parked row of an attempt is dropped when an earlier attempt has a row.)  *)
(***************************************************************************)
CommittedAttemptHasUsage ==
    \A c \in Claims :
        claim[c].status = "committed" =>
            \/ \E i \in 1..Len(usage[c]) : usage[c][i].seq = claim[c].seq
            \/ ~usageDLQ[c].delivered /\ usageDLQ[c].row.seq = claim[c].seq

(***************************************************************************)
(* The ledger implements the charge contract: Tx1 freezes, a commit         *)
(* charges, an abort frees, and nothing else touches a wallet.              *)
(***************************************************************************)
PhaseOf(status) ==
    CASE status = "none"      -> "idle"
      [] status = "reserving" -> "reserved"
      [] status = "committed" -> "charged"
      [] status = "aborted"   -> "freed"

Contract == INSTANCE ChargeContract WITH
    Amounts <- Costs,
    phase   <- [c \in Claims |-> PhaseOf(claim[c].status)],
    frozen  <- [c \in Claims |-> FrozenBy(c)],
    charged <- [c \in Claims |-> ChargedBy(c)]

ImplementsContract == Contract!Spec

(* A wallet explains itself: held is the sum of the holds, the balance what *)
(* was there less what was captured, below zero only by an overrun.         *)
WalletBooks == WalletIsSumOfHolds /\ OverdraftOnlyByOverrun

(* No slot is leaked or returned twice, whoever ends the claim.             *)
SlotBooks == InFlightIsAcquired /\ FinishedClaimReturnsSlot

(* One event per attempt, a usage record that agrees with it, and the proof *)
(* of commitment the recovery worker asks for.                              *)
UsageBooks == OneEventPerAttempt /\ UsageAgreesWithEvents /\ CommittedHasUsage
=============================================================================
