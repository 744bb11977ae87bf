------------------------- MODULE BillingLedger_proof -------------------------
(***************************************************************************)
(* What is proved of BillingLedger, for every value of its constants.  The  *)
(* invariants form a ladder: the types, then the holds, the events, the     *)
(* slots and the usage rows, each inductive relative to the ones before it. *)
(***************************************************************************)
EXTENDS BillingLedger, Sums_proof, FiniteSetTheorems, TLAPS

-----------------------------------------------------------------------------
(* Types.                                                                   *)

(* The initial tables are of their types.                                   *)
LEMMA InitTyped == LedgerInit => TypeOK
  BY LedgerAssumption DEF LedgerInit, TypeOK, LedgerAssumption, ClaimRow, HoldRow, FreeSlot,
     NoRow

(* Freezing keeps the wallet tables typed.                                  *)
LEMMA FreezeTyped ==
    ASSUME TypeOK, NEW c \in Claims, NEW cost \in Costs, FreezeHold(c, cost)
    PROVE  hold' \in [Claims -> HoldRow] /\ balance' \in [Users -> Int]
           /\ held' \in [Users -> Int]
  <1>1. UserOf[c] \in Users /\ cost \in Nat
    BY LedgerAssumption DEF LedgerAssumption
  <1>2. [state |-> "held", amount |-> cost, captured |-> 0] \in HoldRow
    BY DEF HoldRow
  <1>3. CASE UNCHANGED walletVars
    BY <1>3 DEF TypeOK, walletVars
  <1>4. CASE ~ UNCHANGED walletVars
    <2>1. hold' \in [Claims -> HoldRow]
      BY <1>2, <1>4 DEF FreezeHold, TypeOK
    <2>2. balance' \in [Users -> Int] /\ held' \in [Users -> Int]
      BY <1>1, <1>4 DEF FreezeHold, TypeOK
    <2> QED BY <2>1, <2>2
  <1> QED BY <1>3, <1>4

(* So does capturing.                                                       *)
LEMMA CaptureTyped ==
    ASSUME TypeOK, NEW c \in Claims, NEW cost \in Costs \cup {0}, CaptureHold(c, cost)
    PROVE  hold' \in [Claims -> HoldRow] /\ balance' \in [Users -> Int]
           /\ held' \in [Users -> Int]
  <1>1. UserOf[c] \in Users /\ cost \in Int
    BY LedgerAssumption DEF LedgerAssumption
  <1>2. hold[c] \in HoldRow /\ hold[c].amount \in Int
    <2>1. hold[c] \in HoldRow
      BY DEF TypeOK
    <2>2. hold[c].amount \in Costs \cup {0}
      BY <2>1 DEF HoldRow
    <2>3. Costs \cup {0} \subseteq Int
      BY LedgerAssumption DEF LedgerAssumption
    <2> QED BY <2>1, <2>2, <2>3
  <1>3. [hold[c] EXCEPT !.state = "captured", !.captured = cost] \in HoldRow
    BY <1>2 DEF HoldRow
  <1>4. CASE UNCHANGED walletVars
    BY <1>4 DEF TypeOK, walletVars
  <1>5. CASE ~ UNCHANGED walletVars
    <2>1. hold' = [hold EXCEPT ![c].state = "captured", ![c].captured = cost]
          /\ balance' = [balance EXCEPT ![UserOf[c]] = @ - cost]
          /\ held' = [held EXCEPT ![UserOf[c]] = @ - hold[c].amount]
      BY <1>5 DEF CaptureHold
    <2>2. hold' = [hold EXCEPT ![c] = [hold[c] EXCEPT !.state = "captured", !.captured = cost]]
      BY <2>1, <1>2 DEF TypeOK, HoldRow
    <2> QED BY <1>1, <1>2, <1>3, <2>1, <2>2 DEF TypeOK
  <1> QED BY <1>4, <1>5

(* So does releasing.                                                       *)
LEMMA ReleaseTyped ==
    ASSUME TypeOK, NEW c \in Claims, ReleaseHold(c)
    PROVE  hold' \in [Claims -> HoldRow] /\ balance' \in [Users -> Int]
           /\ held' \in [Users -> Int]
  <1>1. UserOf[c] \in Users
    BY LedgerAssumption DEF LedgerAssumption
  <1>2. hold[c] \in HoldRow /\ hold[c].amount \in Int
    <2>1. hold[c] \in HoldRow
      BY DEF TypeOK
    <2>2. hold[c].amount \in Costs \cup {0}
      BY <2>1 DEF HoldRow
    <2>3. Costs \cup {0} \subseteq Int
      BY LedgerAssumption DEF LedgerAssumption
    <2> QED BY <2>1, <2>2, <2>3
  <1>3. [hold[c] EXCEPT !.state = "released"] \in HoldRow
    BY <1>2 DEF HoldRow
  <1>4. CASE UNCHANGED walletVars
    BY <1>4 DEF TypeOK, walletVars
  <1>5. CASE ~ UNCHANGED walletVars
    <2>1. hold' = [hold EXCEPT ![c].state = "released"]
          /\ UNCHANGED balance
          /\ held' = [held EXCEPT ![UserOf[c]] = @ - hold[c].amount]
      BY <1>5 DEF ReleaseHold
    <2> QED BY <1>1, <1>2, <1>3, <2>1 DEF TypeOK
  <1> QED BY <1>4, <1>5

(* Giving a slot back keeps the slots and the counters typed.               *)
LEMMA SlotReleaseTyped ==
    ASSUME TypeOK, NEW s \in Slots,
           NEW outcome \in {"released_success", "released_failure", "orphan_swept"},
           ReleaseSlotAndDecrement(s, outcome)
    PROVE  slot' \in [Slots -> SlotRow \cup {FreeSlot}] /\ inFlight' \in [Accounts -> Nat]
  <1>1. CASE UNCHANGED slotVars
    BY <1>1 DEF TypeOK, slotVars
  <1>2. CASE slot[s].state = "acquired"
    <2>1. slot[s] \in SlotRow
      BY <1>2 DEF TypeOK, FreeSlot
    <2>2. [slot[s] EXCEPT !.state = outcome] \in SlotRow
      BY <2>1 DEF SlotRow
    <2>3. slot' = [slot EXCEPT ![s].state = outcome]
          /\ inFlight' = [inFlight EXCEPT ![slot[s].account] = IF @ > 0 THEN @ - 1 ELSE @]
      BY <1>2 DEF ReleaseSlotAndDecrement
    <2>4. slot' \in [Slots -> SlotRow \cup {FreeSlot}]
      BY <2>2, <2>3 DEF TypeOK
    <2>5. inFlight' \in [Accounts -> Nat]
      BY <2>1, <2>3 DEF TypeOK, SlotRow
    <2> QED BY <2>4, <2>5
  <1> QED BY <1>1, <1>2 DEF ReleaseSlotAndDecrement

(* So does recording an event and a usage row of the attempt.               *)
LEMMA RecordTyped ==
    ASSUME TypeOK, NEW c \in Claims, NEW cost \in Costs \cup {0},
           NEW type \in {"claim_committed", "claim_aborted"},
           LogEvent(c, type, cost), RecordUsage(c, cost) \/ UNCHANGED usageVars
    PROVE  events' \in [Claims -> Seq(EventRow)] /\ usage' \in [Claims -> Seq(UsageRow)]
           /\ usageDLQ' \in [Claims -> ParkedRow \cup {NoRow}]
           /\ replays' \in [Claims -> Nat]
  <1>1. [type |-> type, cost |-> cost] \in EventRow
    BY DEF EventRow
  <1>2. [seq |-> claim[c].seq, cost |-> cost] \in UsageRow
    BY DEF UsageRow, TypeOK, ClaimRow
  <1>3. events' \in [Claims -> Seq(EventRow)]
    BY <1>1 DEF TypeOK, LogEvent
  <1>4. usage' \in [Claims -> Seq(UsageRow)]
    <2>1. Append(usage[c], [seq |-> claim[c].seq, cost |-> cost]) \in Seq(UsageRow)
      BY <1>2 DEF TypeOK
    <2>2. \/ UNCHANGED usage
          \/ usage' = [usage EXCEPT ![c] =
                         Append(usage[c], [seq |-> claim[c].seq, cost |-> cost])]
      BY DEF RecordUsage, usageVars
    <2> QED BY <2>1, <2>2 DEF TypeOK
  <1>5. usageDLQ' \in [Claims -> ParkedRow \cup {NoRow}]
    <2>1. [row |-> [seq |-> claim[c].seq, cost |-> cost], delivered |-> FALSE] \in ParkedRow
      BY <1>2 DEF ParkedRow
    <2>2. \/ UNCHANGED usageDLQ
          \/ usageDLQ' = [usageDLQ EXCEPT ![c] =
                [row |-> [seq |-> claim[c].seq, cost |-> cost], delivered |-> FALSE]]
      BY DEF RecordUsage, usageVars
    <2> QED BY <2>1, <2>2 DEF TypeOK
  <1>6. replays' \in [Claims -> Nat]
    BY DEF RecordUsage, usageVars, TypeOK
  <1> QED BY <1>3, <1>4, <1>5, <1>6

(* Every transaction keeps the tables typed.                                *)
LEMMA StepTyped == TypeOK /\ [LedgerNext]_ledgerVars => TypeOK'
  <1> SUFFICES ASSUME TypeOK, [LedgerNext]_ledgerVars PROVE TypeOK'
    OBVIOUS
  <1>1. ASSUME NEW c \in Claims, NEW cost \in Costs, Reserve(c, cost) PROVE TypeOK'
    <2>1. claim' \in [Claims -> ClaimRow]
      BY <1>1 DEF Reserve, TypeOK, ClaimRow
    <2> QED BY <1>1, <2>1, FreezeTyped DEF Reserve, TypeOK, slotVars, usageVars
  <1>2. ASSUME NEW s \in Slots, NEW c \in Claims, NEW q \in 1..claim[c].seq,
               NEW a \in Accounts, Acquire(s, c, q, a)
        PROVE  TypeOK'
    <2>1. [state |-> "acquired", claim |-> c, seq |-> q, account |-> a] \in SlotRow
      BY DEF SlotRow, TypeOK, ClaimRow
    <2> QED BY <1>2, <2>1 DEF Acquire, TypeOK, walletVars, usageVars
  <1>3. ASSUME NEW c \in Claims, NEW s \in SlotsOf(c), WriteAcquisition(c, s) PROVE TypeOK'
    BY <1>3 DEF WriteAcquisition, TypeOK, ClaimRow, SlotsOf, walletVars, slotVars, usageVars
  <1>4. ASSUME NEW c \in Claims, NEW s \in SlotsOf(c), NEW cost \in Costs, Settle(c, s, cost)
        PROVE  TypeOK'
    <2>1. claim' \in [Claims -> ClaimRow]
      <3>1. [claim[c] EXCEPT !.status = "committed", !.actual = cost] \in ClaimRow
        BY DEF TypeOK, ClaimRow
      <3> QED BY <1>4, <3>1 DEF Settle, TypeOK
    <2> QED BY <1>4, <2>1, CaptureTyped, SlotReleaseTyped, RecordTyped
            DEF Settle, TypeOK, SlotsOf
  <1>5. ASSUME NEW c \in Claims, Abort(c) PROVE TypeOK'
    <2>1. claim' \in [Claims -> ClaimRow]
      BY <1>5 DEF Abort, TypeOK, ClaimRow
    <2>2. hold' \in [Claims -> HoldRow] /\ balance' \in [Users -> Int]
          /\ held' \in [Users -> Int]
      BY <1>5, ReleaseTyped DEF Abort
    <2>3. events' \in [Claims -> Seq(EventRow)] /\ usage' \in [Claims -> Seq(UsageRow)]
          /\ usageDLQ' \in [Claims -> ParkedRow \cup {NoRow}] /\ replays' \in [Claims -> Nat]
      BY <1>5, RecordTyped DEF Abort
    <2>4. slot' \in [Slots -> SlotRow \cup {FreeSlot}] /\ inFlight' \in [Accounts -> Nat]
      <3>1. CASE claim[c].token = NoSlot
        BY <1>5, <3>1 DEF Abort, TypeOK, slotVars
      <3>2. CASE claim[c].token # NoSlot
        BY <1>5, <3>2, SlotReleaseTyped DEF Abort, TypeOK, ClaimRow
      <3> QED BY <3>1, <3>2
    <2> QED BY <2>1, <2>2, <2>3, <2>4 DEF TypeOK
  <1>6. ASSUME NEW c \in Claims, CommitCacheHit(c) PROVE TypeOK'
    <2>1. claim' \in [Claims -> ClaimRow]
      <3>1. [claim[c] EXCEPT !.status = "committed", !.actual = 0] \in ClaimRow
        BY DEF TypeOK, ClaimRow
      <3> QED BY <1>6, <3>1 DEF CommitCacheHit, TypeOK
    <2>2. hold' \in [Claims -> HoldRow] /\ balance' \in [Users -> Int]
          /\ held' \in [Users -> Int]
      BY <1>6, CaptureTyped DEF CommitCacheHit
    <2>3. events' \in [Claims -> Seq(EventRow)] /\ usage' \in [Claims -> Seq(UsageRow)]
          /\ usageDLQ' \in [Claims -> ParkedRow \cup {NoRow}] /\ replays' \in [Claims -> Nat]
      BY <1>6, RecordTyped DEF CommitCacheHit
    <2> QED BY <1>6, <2>1, <2>2, <2>3 DEF CommitCacheHit, TypeOK, slotVars
  <1>7. ASSUME NEW c \in Claims, ReplayUsage(c) PROVE TypeOK'
    <2>1. usageDLQ[c] \in ParkedRow
      BY <1>7 DEF ReplayUsage, ReplayLook, ReplayInsert, ReplayMark, TypeOK, NoRow
    <2>2. usage' \in [Claims -> Seq(UsageRow)]
      <3>1. Append(usage[c], usageDLQ[c].row) \in Seq(UsageRow)
        BY <2>1 DEF TypeOK, ParkedRow
      <3> QED BY <1>7, <3>1 DEF ReplayUsage, ReplayLook, ReplayInsert, ReplayMark, TypeOK
    <2>5. replays' \in [Claims -> Nat]
      BY <1>7 DEF ReplayUsage, ReplayLook, ReplayInsert, ReplayMark, TypeOK
    <2>3. [usageDLQ[c] EXCEPT !.delivered = TRUE] \in ParkedRow
      BY <2>1 DEF ParkedRow
    <2>4. usageDLQ' \in [Claims -> ParkedRow \cup {NoRow}]
      BY <1>7, <2>3 DEF ReplayUsage, ReplayLook, ReplayInsert, ReplayMark, TypeOK
    <2> QED BY <1>7, <2>2, <2>4, <2>5 DEF ReplayUsage, ReplayLook, ReplayInsert, ReplayMark,
                                    NoUsageStep, TypeOK, walletVars, slotVars
  <1>8. ASSUME NEW s \in Slots, SelectorRelease(s) PROVE TypeOK'
    BY <1>8, SlotReleaseTyped DEF SelectorRelease, TypeOK, walletVars, usageVars
  <1>9. ASSUME NEW s \in Slots, SweepOrphanSlot(s) PROVE TypeOK'
    <2>1. ReleaseSlotAndDecrement(s, "orphan_swept")
      BY <1>9 DEF SweepOrphanSlot, ReleaseSlotAndDecrement
    <2> QED BY <1>9, <2>1, SlotReleaseTyped DEF SweepOrphanSlot, TypeOK, walletVars, usageVars
  <1>10. CASE UNCHANGED ledgerVars
    BY <1>10 DEF ledgerVars, TypeOK, walletVars, slotVars, usageVars
  <1> QED BY <1>1, <1>2, <1>3, <1>4, <1>5, <1>6, <1>7, <1>8, <1>9, <1>10 DEF LedgerNext

(* The tables keep their types, in_flight_count its sign (it never goes     *)
(* below zero, whoever decrements it).                                      *)
THEOREM TypesHold == LedgerSpec => []TypeOK
  BY InitTyped, StepTyped, PTL DEF LedgerSpec

-----------------------------------------------------------------------------
(* Holds.                                                                   *)

(* A transaction of claim c touches neither the row, the hold nor the       *)
(* events of another claim; one that is not of a claim touches none.        *)
LEMMA OthersUntouched ==
    ASSUME TypeOK, [LedgerNext]_ledgerVars, NEW d \in Claims,
           \A cost \in Costs : ~Reserve(d, cost),
           \A s \in SlotsOf(d) : ~WriteAcquisition(d, s),
           \A s \in SlotsOf(d), cost \in Costs : ~Settle(d, s, cost),
           ~Abort(d),
           ~CommitCacheHit(d)
    PROVE  claim'[d] = claim[d] /\ hold'[d] = hold[d] /\ events'[d] = events[d]
  <1>1. ASSUME NEW c \in Claims, NEW cost \in Costs, Reserve(c, cost), c # d
        PROVE  claim'[d] = claim[d] /\ hold'[d] = hold[d] /\ events'[d] = events[d]
    BY <1>1 DEF Reserve, FreezeHold, TypeOK, walletVars
  <1>2. ASSUME NEW c \in Claims, NEW s \in SlotsOf(c), WriteAcquisition(c, s), c # d
        PROVE  claim'[d] = claim[d] /\ hold'[d] = hold[d] /\ events'[d] = events[d]
    BY <1>2 DEF WriteAcquisition, TypeOK, walletVars
  <1>3. ASSUME NEW c \in Claims, NEW s \in SlotsOf(c), NEW cost \in Costs,
               Settle(c, s, cost), c # d
        PROVE  claim'[d] = claim[d] /\ hold'[d] = hold[d] /\ events'[d] = events[d]
    BY <1>3 DEF Settle, CaptureHold, LogEvent, TypeOK, walletVars
  <1>4. ASSUME NEW c \in Claims, Abort(c), c # d
        PROVE  claim'[d] = claim[d] /\ hold'[d] = hold[d] /\ events'[d] = events[d]
    BY <1>4 DEF Abort, ReleaseHold, LogEvent, TypeOK, walletVars
  <1>5. ASSUME NEW c \in Claims, CommitCacheHit(c), c # d
        PROVE  claim'[d] = claim[d] /\ hold'[d] = hold[d] /\ events'[d] = events[d]
    BY <1>5 DEF CommitCacheHit, CaptureHold, LogEvent, TypeOK, walletVars
  <1>6. ASSUME NEW c \in Claims, NEW s \in Slots, NEW q \in 1..claim[c].seq,
               NEW a \in Accounts, Acquire(s, c, q, a)
        PROVE  UNCHANGED <<claim, hold, events>>
    BY <1>6 DEF Acquire, walletVars
  <1>7. ASSUME NEW s \in Slots, SelectorRelease(s) \/ SweepOrphanSlot(s)
        PROVE  UNCHANGED <<claim, hold, events>>
    BY <1>7 DEF SelectorRelease, SweepOrphanSlot, walletVars
  <1>8. ASSUME NEW c \in Claims, ReplayUsage(c) PROVE UNCHANGED <<claim, hold, events>>
    BY <1>8 DEF ReplayUsage, ReplayLook, ReplayInsert, ReplayMark, NoUsageStep, walletVars
  <1>9. CASE UNCHANGED ledgerVars
    BY <1>9 DEF ledgerVars, walletVars
  <1> QED BY <1>1, <1>2, <1>3, <1>4, <1>5, <1>6, <1>7, <1>8, <1>9 DEF LedgerNext

(***************************************************************************)
(* Committed is final (CommittedIsFinal): every transaction that writes a   *)
(* claim asks that it be reserving, or new or aborted, under its row lock.  *)
(***************************************************************************)
THEOREM CommittedStaysCommitted == LedgerSpec => CommittedIsFinal
  <1>1. ASSUME TypeOK, [LedgerNext]_ledgerVars, NEW d \in Claims,
               claim[d].status = "committed"
        PROVE  claim'[d] = claim[d] /\ hold'[d] = hold[d] /\ events'[d] = events[d]
    <2>1. /\ \A cost \in Costs : ~Reserve(d, cost)
          /\ \A s \in SlotsOf(d) : ~WriteAcquisition(d, s)
          /\ \A s \in SlotsOf(d), cost \in Costs : ~Settle(d, s, cost)
          /\ ~Abort(d)
          /\ ~CommitCacheHit(d)
      BY <1>1 DEF Reserve, WriteAcquisition, Settle, Abort, CommitCacheHit
    <2> QED BY <1>1, <2>1, OthersUntouched
  <1>2. TypeOK /\ [LedgerNext]_ledgerVars =>
          [\A c \in Claims :
              claim[c].status = "committed" =>
                  claim'[c] = claim[c] /\ hold'[c] = hold[c] /\ events'[c] = events[c]]_ledgerVars
    BY <1>1
  <1> QED BY <1>2, TypesHold, PTL DEF LedgerSpec, CommittedIsFinal

(* No claim has a hold at first.                                            *)
LEMMA InitHold == LedgerInit => HoldFollowsClaim
  BY DEF LedgerInit, HoldFollowsClaim, HoldStateFor

(***************************************************************************)
(* One transaction changes the status of a claim and the state of its hold  *)
(* together.                                                                *)
(***************************************************************************)
LEMMA StepHold ==
    TypeOK /\ HoldFollowsClaim /\ [LedgerNext]_ledgerVars => HoldFollowsClaim'
  <1> SUFFICES ASSUME TypeOK, HoldFollowsClaim, [LedgerNext]_ledgerVars, NEW d \in Claims
               PROVE  /\ hold'[d].state = IF Metered(d) THEN HoldStateFor(claim'[d].status)
                                                       ELSE "none"
                      /\ hold'[d].state = "captured" => hold'[d].captured = claim'[d].actual
    BY DEF HoldFollowsClaim, Metered
  <1> DEFINE Agree ==
         /\ hold'[d].state = IF Metered(d) THEN HoldStateFor(claim'[d].status) ELSE "none"
         /\ hold'[d].state = "captured" => hold'[d].captured = claim'[d].actual
  <1>0. /\ hold[d].state = IF Metered(d) THEN HoldStateFor(claim[d].status) ELSE "none"
        /\ hold[d].state = "captured" => hold[d].captured = claim[d].actual
        /\ hold[d] \in HoldRow
        /\ claim[d] \in ClaimRow
    BY DEF HoldFollowsClaim, TypeOK
  <1>1. ASSUME NEW cost \in Costs, Reserve(d, cost) PROVE Agree
    <2>1. claim'[d].status = "reserving"
      BY <1>1 DEF Reserve, TypeOK
    <2>2. CASE Metered(d)
      <3>1. hold[d].state \in {"none", "released"}
        BY <1>0, <1>1, <2>2 DEF Reserve, HoldStateFor
      <3>2. hold'[d] = [state |-> "held", amount |-> cost, captured |-> 0]
        BY <1>1, <2>2, <3>1 DEF Reserve, FreezeHold, Metered, TypeOK
      <3> QED BY <2>1, <2>2, <3>2 DEF HoldStateFor
    <2>3. CASE ~Metered(d)
      <3>1. hold' = hold
        BY <1>1, <2>3 DEF Reserve, FreezeHold, Metered, walletVars
      <3> QED BY <1>0, <2>3, <3>1
    <2> QED BY <2>2, <2>3
  <1>2. ASSUME NEW s \in SlotsOf(d), WriteAcquisition(d, s) PROVE Agree
    <2>1. hold' = hold /\ claim'[d].status = claim[d].status
          /\ claim'[d].actual = claim[d].actual
      BY <1>2 DEF WriteAcquisition, TypeOK, ClaimRow, walletVars
    <2> QED BY <1>0, <2>1
  <1>3. ASSUME NEW cost \in Costs \cup {0}, claim[d].status = "reserving",
               claim' = [claim EXCEPT ![d].status = "committed", ![d].actual = cost],
               CaptureHold(d, cost)
        PROVE  Agree
    <2>1. claim'[d].status = "committed" /\ claim'[d].actual = cost
      BY <1>0, <1>3 DEF TypeOK, ClaimRow
    <2>2. CASE Metered(d)
      <3>1. hold[d].state = "held"
        BY <1>0, <1>3, <2>2 DEF HoldStateFor
      <3>2. hold' = [hold EXCEPT ![d].state = "captured", ![d].captured = cost]
        BY <1>3, <2>2, <3>1 DEF CaptureHold, Metered
      <3>3. hold'[d].state = "captured" /\ hold'[d].captured = cost
        BY <1>0, <3>2 DEF TypeOK, HoldRow
      <3> QED BY <2>1, <2>2, <3>3 DEF HoldStateFor
    <2>3. CASE ~Metered(d)
      <3>1. hold' = hold
        BY <1>0, <1>3, <2>3 DEF CaptureHold, walletVars
      <3> QED BY <1>0, <2>3, <3>1
    <2> QED BY <2>2, <2>3
  <1>4. ASSUME NEW s \in SlotsOf(d), NEW cost \in Costs, Settle(d, s, cost) PROVE Agree
    BY <1>3, <1>4 DEF Settle
  <1>5. ASSUME CommitCacheHit(d) PROVE Agree
    BY <1>3, <1>5 DEF CommitCacheHit
  <1>6. ASSUME Abort(d) PROVE Agree
    <2>1. claim'[d].status = "aborted"
      BY <1>0, <1>6 DEF Abort, TypeOK, ClaimRow
    <2>2. CASE Metered(d)
      <3>1. hold[d].state = "held"
        BY <1>0, <1>6, <2>2 DEF Abort, HoldStateFor
      <3>2. hold' = [hold EXCEPT ![d].state = "released"]
        BY <1>6, <2>2, <3>1 DEF Abort, ReleaseHold, Metered
      <3>3. hold'[d].state = "released"
        BY <1>0, <3>2 DEF TypeOK, HoldRow
      <3> QED BY <2>1, <2>2, <3>3 DEF HoldStateFor
    <2>3. CASE ~Metered(d)
      <3>1. hold' = hold
        BY <1>0, <1>6, <2>3 DEF Abort, ReleaseHold, walletVars
      <3> QED BY <1>0, <2>3, <3>1
    <2> QED BY <2>2, <2>3
  <1>7. CASE claim'[d] = claim[d] /\ hold'[d] = hold[d]
    BY <1>0, <1>7
  <1> QED BY <1>1, <1>2, <1>4, <1>5, <1>6, <1>7, OthersUntouched

(* The hold of a claim follows its status (HoldFollowsClaim).               *)
THEOREM HoldsFollowClaims == LedgerSpec => []HoldFollowsClaim
  BY InitHold, StepHold, TypesHold, PTL DEF LedgerSpec

-----------------------------------------------------------------------------
(* Events.                                                                  *)

(* What OneEventPerAttempt says of the row r and the events es of a claim.  *)
Logged(r, es) ==
    /\ Len(es) = IF r.status = "reserving" THEN r.seq - 1 ELSE r.seq
    /\ \A i \in 1..Len(es) :
          es[i] = IF i = r.seq /\ r.status = "committed"
                     THEN [type |-> "claim_committed", cost |-> r.actual]
                     ELSE [type |-> "claim_aborted", cost |-> 0]

(* OneEventPerAttempt, claim by claim.                                      *)
LEMMA LoggedIsOneEvent == OneEventPerAttempt <=> \A c \in Claims : Logged(claim[c], events[c])
  BY DEF OneEventPerAttempt, Logged

(* A new claim has neither attempts nor events.                             *)
LEMMA InitLogged == LedgerInit => OneEventPerAttempt
  BY DEF LedgerInit, OneEventPerAttempt

(* The event of an attempt is appended in the transaction that ends it.     *)
LEMMA StepLogged ==
    TypeOK /\ OneEventPerAttempt /\ [LedgerNext]_ledgerVars => OneEventPerAttempt'
  <1> SUFFICES ASSUME TypeOK, OneEventPerAttempt, [LedgerNext]_ledgerVars, NEW d \in Claims
               PROVE  Logged(claim'[d], events'[d])
    BY DEF OneEventPerAttempt, Logged
  <1>0. /\ Logged(claim[d], events[d])
        /\ claim[d] \in ClaimRow
        /\ claim[d].seq \in Nat
        /\ events[d] \in Seq(EventRow)
    BY LoggedIsOneEvent DEF TypeOK, ClaimRow
  <1>1. ASSUME NEW cost \in Costs, Reserve(d, cost) PROVE Logged(claim'[d], events'[d])
    <2>1. claim'[d].status = "reserving" /\ claim'[d].seq = claim[d].seq + 1
          /\ events' = events
      BY <1>1 DEF Reserve, TypeOK
    <2>2. claim[d].status \in {"none", "aborted"}
      BY <1>1 DEF Reserve
    <2> QED BY <1>0, <2>1, <2>2 DEF Logged
  <1>2. ASSUME NEW s \in SlotsOf(d), WriteAcquisition(d, s) PROVE Logged(claim'[d], events'[d])
    <2>1. /\ claim'[d].status = "reserving"
          /\ claim[d].status = "reserving"
          /\ claim'[d].seq = claim[d].seq
          /\ events' = events
      BY <1>0, <1>2 DEF WriteAcquisition, TypeOK, ClaimRow
    <2> QED BY <1>0, <2>1 DEF Logged
  <1>3. ASSUME claim[d].status = "reserving", NEW r, NEW e,
               claim'[d] = r, r.seq = claim[d].seq,
               events'[d] = Append(events[d], e),
               \/ /\ r.status = "committed"
                  /\ e = [type |-> "claim_committed", cost |-> r.actual]
               \/ /\ r.status = "aborted"
                  /\ e = [type |-> "claim_aborted", cost |-> 0]
        PROVE  Logged(claim'[d], events'[d])
    <2>1. Len(events[d]) = claim[d].seq - 1
      BY <1>0, <1>3 DEF Logged
    <2>2. Len(events'[d]) = claim[d].seq
      BY <1>0, <1>3, <2>1
    <2>3. ASSUME NEW i \in 1..Len(events'[d]), i # claim[d].seq
          PROVE  events'[d][i] = [type |-> "claim_aborted", cost |-> 0]
      <3>1. i \in 1..Len(events[d]) /\ events'[d][i] = events[d][i]
        BY <1>0, <1>3, <2>1, <2>2, <2>3
      <3> QED BY <1>0, <1>3, <3>1 DEF Logged
    <2>4. claim[d].seq \in 1..Len(events'[d]) => events'[d][claim[d].seq] = e
      BY <1>0, <1>3, <2>1, <2>2
    <2> QED BY <1>0, <1>3, <2>2, <2>3, <2>4 DEF Logged
  <1>4. ASSUME NEW s \in SlotsOf(d), NEW cost \in Costs, Settle(d, s, cost)
        PROVE  Logged(claim'[d], events'[d])
    <2>1. /\ claim'[d].status = "committed" /\ claim'[d].actual = cost
          /\ claim'[d].seq = claim[d].seq
      BY <1>0, <1>4 DEF Settle, TypeOK, ClaimRow
    <2>2. events'[d] = Append(events[d], [type |-> "claim_committed", cost |-> cost])
      BY <1>4 DEF Settle, LogEvent, TypeOK
    <2> QED BY <1>3, <1>4, <2>1, <2>2 DEF Settle
  <1>5. ASSUME Abort(d) PROVE Logged(claim'[d], events'[d])
    <2>1. claim'[d].status = "aborted" /\ claim'[d].seq = claim[d].seq
      BY <1>0, <1>5 DEF Abort, TypeOK, ClaimRow
    <2>2. events'[d] = Append(events[d], [type |-> "claim_aborted", cost |-> 0])
      BY <1>5 DEF Abort, LogEvent, TypeOK
    <2> QED BY <1>3, <1>5, <2>1, <2>2 DEF Abort
  <1>6. ASSUME CommitCacheHit(d) PROVE Logged(claim'[d], events'[d])
    <2>1. /\ claim'[d].status = "committed" /\ claim'[d].actual = 0
          /\ claim'[d].seq = claim[d].seq
      BY <1>0, <1>6 DEF CommitCacheHit, TypeOK, ClaimRow
    <2>2. events'[d] = Append(events[d], [type |-> "claim_committed", cost |-> 0])
      BY <1>6 DEF CommitCacheHit, LogEvent, TypeOK
    <2> QED BY <1>3, <1>6, <2>1, <2>2 DEF CommitCacheHit
  <1>7. CASE claim'[d] = claim[d] /\ events'[d] = events[d]
    BY <1>0, <1>7
  <1> QED BY <1>1, <1>2, <1>4, <1>5, <1>6, <1>7, OthersUntouched

(* One event for every ended attempt (OneEventPerAttempt): a claim is       *)
(* charged at most once, whatever is retried.                               *)
THEOREM EventsFollowAttempts == LedgerSpec => []OneEventPerAttempt
  BY InitLogged, StepLogged, TypesHold, PTL DEF LedgerSpec

-----------------------------------------------------------------------------
(* Slots.                                                                   *)

(***************************************************************************)
(* Giving a slot back counts its account down by that slot, or changes      *)
(* nothing at all.                                                          *)
(***************************************************************************)
LEMMA SlotReleaseCounted ==
    ASSUME TypeOK, InFlightIsAcquired, NEW s \in Slots,
           NEW outcome \in {"released_success", "released_failure", "orphan_swept"},
           ReleaseSlotAndDecrement(s, outcome)
    PROVE  InFlightIsAcquired'
  <1> SUFFICES ASSUME NEW a \in Accounts
               PROVE  inFlight'[a] = Cardinality(AcquiredOn(a)') /\ inFlight'[a] <= Cap[a]
    BY DEF InFlightIsAcquired
  <1>0. /\ inFlight[a] = Cardinality(AcquiredOn(a)) /\ inFlight[a] <= Cap[a]
        /\ inFlight[a] \in Nat /\ Cap[a] \in Nat
    BY LedgerAssumption DEF LedgerAssumption, InFlightIsAcquired, TypeOK
  <1>1. IsFiniteSet(AcquiredOn(a))
    BY LedgerAssumption, FS_Subset DEF LedgerAssumption, AcquiredOn
  <1>2. CASE UNCHANGED slotVars
    BY <1>0, <1>2 DEF slotVars, AcquiredOn
  <1>3. CASE slot[s].state = "acquired"
    <2>1. slot[s] \in SlotRow /\ slot[s].account \in Accounts
      BY <1>3 DEF TypeOK, FreeSlot, SlotRow
    <2>2. slot' = [slot EXCEPT ![s].state = outcome]
          /\ inFlight' = [inFlight EXCEPT ![slot[s].account] = IF @ > 0 THEN @ - 1 ELSE @]
      BY <1>3 DEF ReleaseSlotAndDecrement
    <2>3. slot'[s].state # "acquired" /\ \A t \in Slots \ {s} : slot'[t] = slot[t]
      BY <2>1, <2>2 DEF TypeOK, SlotRow
    <2>4. CASE a = slot[s].account
      <3>1. s \in AcquiredOn(a) /\ AcquiredOn(a)' = AcquiredOn(a) \ {s}
        BY <1>3, <2>3, <2>4 DEF AcquiredOn
      <3>2. Cardinality(AcquiredOn(a)') = Cardinality(AcquiredOn(a)) - 1
        BY <1>1, <3>1, FS_RemoveElement
      <3>3. AcquiredOn(a) # {}
        BY <3>1
      <3>4. Cardinality(AcquiredOn(a)) # 0
        BY <1>1, <3>3, FS_EmptySet
      <3>5. inFlight'[a] = inFlight[a] - 1
        BY <1>0, <2>2, <2>4, <3>4 DEF TypeOK
      <3> QED BY <1>0, <3>2, <3>5
    <2>5. CASE a # slot[s].account
      <3>1. AcquiredOn(a)' = AcquiredOn(a)
        BY <2>3, <2>5 DEF AcquiredOn
      <3>2. inFlight'[a] = inFlight[a]
        BY <2>1, <2>2, <2>5 DEF TypeOK
      <3> QED BY <1>0, <3>1, <3>2
    <2> QED BY <2>4, <2>5
  <1> QED BY <1>2, <1>3 DEF ReleaseSlotAndDecrement

(* No slot is acquired at first.                                            *)
LEMMA InitCounted == LedgerInit => InFlightIsAcquired
  <1> SUFFICES ASSUME LedgerInit, NEW a \in Accounts
               PROVE  inFlight[a] = Cardinality(AcquiredOn(a)) /\ inFlight[a] <= Cap[a]
    BY DEF InFlightIsAcquired
  <1>1. AcquiredOn(a) = {}
    BY DEF LedgerInit, AcquiredOn, FreeSlot
  <1> QED BY <1>1, FS_EmptySet, LedgerAssumption DEF LedgerInit, LedgerAssumption

(* Whoever returns a slot counts it once, and no acquisition passes the cap. *)
LEMMA StepCounted ==
    TypeOK /\ InFlightIsAcquired /\ [LedgerNext]_ledgerVars => InFlightIsAcquired'
  <1> SUFFICES ASSUME TypeOK, InFlightIsAcquired, [LedgerNext]_ledgerVars
               PROVE  InFlightIsAcquired'
    OBVIOUS
  <1>1. ASSUME NEW s \in Slots, NEW c \in Claims, NEW q \in 1..claim[c].seq,
               NEW b \in Accounts, Acquire(s, c, q, b)
        PROVE  InFlightIsAcquired'
    <2> SUFFICES ASSUME NEW a \in Accounts
                 PROVE  inFlight'[a] = Cardinality(AcquiredOn(a)') /\ inFlight'[a] <= Cap[a]
      BY DEF InFlightIsAcquired
    <2>0. /\ inFlight[a] = Cardinality(AcquiredOn(a)) /\ inFlight[a] <= Cap[a]
          /\ inFlight[a] \in Nat /\ Cap[a] \in Nat
      BY LedgerAssumption DEF LedgerAssumption, InFlightIsAcquired, TypeOK
    <2>1. IsFiniteSet(AcquiredOn(a))
      BY LedgerAssumption, FS_Subset DEF LedgerAssumption, AcquiredOn
    <2>2. /\ slot[s].state = "free"
          /\ slot'[s] = [state |-> "acquired", claim |-> c, seq |-> q, account |-> b]
          /\ \A t \in Slots \ {s} : slot'[t] = slot[t]
      BY <1>1 DEF Acquire, TypeOK
    <2>3. CASE a = b
      <3>1. s \notin AcquiredOn(a) /\ AcquiredOn(a)' = AcquiredOn(a) \cup {s}
        BY <2>2, <2>3 DEF AcquiredOn
      <3>2. Cardinality(AcquiredOn(a)') = Cardinality(AcquiredOn(a)) + 1
        BY <2>1, <3>1, FS_AddElement
      <3>3. inFlight'[a] = inFlight[a] + 1 /\ inFlight[a] < Cap[a]
        BY <1>1, <2>3 DEF Acquire, TypeOK
      <3> QED BY <2>0, <3>2, <3>3
    <2>4. CASE a # b
      <3>1. AcquiredOn(a)' = AcquiredOn(a)
        BY <2>2, <2>4 DEF AcquiredOn
      <3>2. inFlight'[a] = inFlight[a]
        BY <1>1, <2>4 DEF Acquire, TypeOK
      <3> QED BY <2>0, <3>1, <3>2
    <2> QED BY <2>3, <2>4
  <1>2. ASSUME NEW c \in Claims, NEW s \in SlotsOf(c), NEW cost \in Costs, Settle(c, s, cost)
        PROVE  InFlightIsAcquired'
    BY <1>2, SlotReleaseCounted DEF Settle, SlotsOf
  <1>3. ASSUME NEW s \in Slots, SelectorRelease(s) PROVE InFlightIsAcquired'
    BY <1>3, SlotReleaseCounted DEF SelectorRelease
  <1>4. ASSUME NEW s \in Slots, SweepOrphanSlot(s) PROVE InFlightIsAcquired'
    <2>1. ReleaseSlotAndDecrement(s, "orphan_swept")
      BY <1>4 DEF SweepOrphanSlot, ReleaseSlotAndDecrement
    <2> QED BY <2>1, SlotReleaseCounted
  <1>5. CASE UNCHANGED slotVars
    BY <1>5 DEF slotVars, InFlightIsAcquired, AcquiredOn
  <1>6. ASSUME NEW c \in Claims, Abort(c) PROVE InFlightIsAcquired'
    <2>1. CASE claim[c].token = NoSlot
      BY <1>5, <1>6, <2>1 DEF Abort
    <2>2. CASE claim[c].token # NoSlot
      <3>1. claim[c].token \in Slots
        BY <2>2 DEF TypeOK, ClaimRow
      <3> QED BY <1>6, <2>2, <3>1, SlotReleaseCounted DEF Abort
    <2> QED BY <2>1, <2>2
  <1>7. ASSUME NEW c \in Claims, NEW cost \in Costs, Reserve(c, cost)
        PROVE  InFlightIsAcquired'
    BY <1>5, <1>7 DEF Reserve
  <1>8. ASSUME NEW c \in Claims, NEW s \in SlotsOf(c), WriteAcquisition(c, s)
        PROVE  InFlightIsAcquired'
    BY <1>5, <1>8 DEF WriteAcquisition
  <1>9. ASSUME NEW c \in Claims, CommitCacheHit(c) \/ ReplayUsage(c)
        PROVE  InFlightIsAcquired'
    BY <1>5, <1>9 DEF CommitCacheHit, ReplayUsage, ReplayLook, ReplayInsert, ReplayMark,
       NoUsageStep
  <1>10. CASE UNCHANGED ledgerVars
    BY <1>5, <1>10 DEF ledgerVars
  <1> QED BY <1>1, <1>2, <1>3, <1>4, <1>6, <1>7, <1>8, <1>9, <1>10 DEF LedgerNext

(* The counters count the acquired slots (InFlightIsAcquired).              *)
THEOREM InFlightCounts == LedgerSpec => []InFlightIsAcquired
  BY InitCounted, StepCounted, TypesHold, PTL DEF LedgerSpec

(***************************************************************************)
(* A slot that was acquired is never free again, and one that was given     *)
(* back is never acquired again.                                            *)
(***************************************************************************)
LEMMA SlotsOnlyAge ==
    ASSUME TypeOK, [LedgerNext]_ledgerVars, NEW t \in Slots, slot[t].state # "free"
    PROVE  /\ slot'[t].state # "free"
           /\ slot[t].state # "acquired" => slot'[t].state # "acquired"
  <1> DEFINE Aged == /\ slot'[t].state # "free"
                     /\ slot[t].state # "acquired" => slot'[t].state # "acquired"
  <1>1. ASSUME UNCHANGED slot PROVE Aged
    BY <1>1
  <1>2. ASSUME NEW s \in Slots,
               NEW outcome \in {"released_success", "released_failure", "orphan_swept"},
               ReleaseSlotAndDecrement(s, outcome)
        PROVE  Aged
    <2>1. CASE slot' = [slot EXCEPT ![s].state = outcome] /\ slot[s].state = "acquired"
      <3>1. slot[s] \in SlotRow
        BY <2>1 DEF TypeOK, FreeSlot
      <3> QED BY <2>1, <3>1 DEF TypeOK, SlotRow
    <2> QED BY <1>1, <1>2, <2>1 DEF ReleaseSlotAndDecrement, slotVars
  <1>3. ASSUME NEW s \in Slots, NEW c \in Claims, NEW q \in 1..claim[c].seq,
               NEW a \in Accounts, Acquire(s, c, q, a)
        PROVE  Aged
    BY <1>3 DEF Acquire, TypeOK
  <1>4. ASSUME NEW c \in Claims, NEW s \in SlotsOf(c), NEW cost \in Costs, Settle(c, s, cost)
        PROVE  Aged
    BY <1>2, <1>4 DEF Settle, SlotsOf
  <1>5. ASSUME NEW c \in Claims, Abort(c) PROVE Aged
    BY <1>1, <1>2, <1>5 DEF Abort, TypeOK, ClaimRow, slotVars
  <1>6. ASSUME NEW s \in Slots, SelectorRelease(s) PROVE Aged
    BY <1>2, <1>6 DEF SelectorRelease
  <1>7. ASSUME NEW s \in Slots, SweepOrphanSlot(s) PROVE Aged
    BY <1>2, <1>7 DEF SweepOrphanSlot, ReleaseSlotAndDecrement
  <1>8. ASSUME NEW c \in Claims, NEW cost \in Costs, Reserve(c, cost) PROVE Aged
    BY <1>1, <1>8 DEF Reserve, slotVars
  <1>9. ASSUME NEW c \in Claims, NEW s \in SlotsOf(c), WriteAcquisition(c, s) PROVE Aged
    BY <1>1, <1>9 DEF WriteAcquisition, slotVars
  <1>10. ASSUME NEW c \in Claims, CommitCacheHit(c) \/ ReplayUsage(c) PROVE Aged
    BY <1>1, <1>10 DEF CommitCacheHit, ReplayUsage, ReplayLook, ReplayInsert, ReplayMark,
       NoUsageStep, slotVars
  <1>11. CASE UNCHANGED ledgerVars
    BY <1>1, <1>11 DEF ledgerVars, slotVars
  <1> QED BY <1>3, <1>4, <1>5, <1>6, <1>7, <1>8, <1>9, <1>10, <1>11 DEF LedgerNext

(* The token on a claim is of a slot that somebody acquired.                *)
TokenTaken ==
    \A c \in Claims : claim[c].token # NoSlot => slot[claim[c].token].state # "free"

(* No claim has a token at first.                                           *)
LEMMA InitReturned == LedgerInit => FinishedClaimReturnsSlot /\ TokenTaken
  BY DEF LedgerInit, FinishedClaimReturnsSlot, TokenTaken

(***************************************************************************)
(* The transaction that ends a claim returns its slot or finds it returned; *)
(* a later one clears the token before the claim is used again.             *)
(***************************************************************************)
LEMMA StepReturned ==
    TypeOK /\ FinishedClaimReturnsSlot /\ TokenTaken /\ [LedgerNext]_ledgerVars
        => FinishedClaimReturnsSlot' /\ TokenTaken'
  <1> DEFINE Returned(r, sl) ==
         r.token # NoSlot =>
             /\ sl[r.token].state # "free"
             /\ r.status \in {"committed", "aborted"} => sl[r.token].state # "acquired"
  <1> SUFFICES ASSUME TypeOK, FinishedClaimReturnsSlot, TokenTaken, [LedgerNext]_ledgerVars,
                      NEW d \in Claims
               PROVE  Returned(claim'[d], slot')
    BY DEF FinishedClaimReturnsSlot, TokenTaken
  <1>0. /\ Returned(claim[d], slot)
        /\ claim[d] \in ClaimRow
        /\ claim[d].token # NoSlot => claim[d].token \in Slots
    BY DEF FinishedClaimReturnsSlot, TokenTaken, TypeOK, ClaimRow
  <1>1. ASSUME NEW cost \in Costs, Reserve(d, cost) PROVE Returned(claim'[d], slot')
    <2>1. claim'[d].token = NoSlot
      BY <1>1 DEF Reserve, TypeOK
    <2> QED BY <2>1
  <1>2. ASSUME NEW s \in SlotsOf(d), WriteAcquisition(d, s) PROVE Returned(claim'[d], slot')
    <2>1. claim'[d].token = s /\ claim'[d].status = "reserving" /\ slot' = slot
      BY <1>0, <1>2 DEF WriteAcquisition, TypeOK, ClaimRow, slotVars
    <2> QED BY <2>1 DEF SlotsOf
  <1>3. ASSUME NEW s \in Slots,
               NEW outcome \in {"released_success", "released_failure", "orphan_swept"},
               ReleaseSlotAndDecrement(s, outcome)
        PROVE  slot'[s].state \notin {"free", "acquired"}
    <2>1. CASE slot[s].state = "acquired"
      <3>1. slot[s] \in SlotRow /\ slot' = [slot EXCEPT ![s].state = outcome]
        BY <1>3, <2>1 DEF TypeOK, FreeSlot, ReleaseSlotAndDecrement
      <3> QED BY <3>1 DEF TypeOK, SlotRow
    <2>2. CASE slot[s].state # "acquired"
      BY <1>3, <2>2 DEF ReleaseSlotAndDecrement, slotVars
    <2> QED BY <2>1, <2>2
  <1>4. ASSUME NEW s \in SlotsOf(d), NEW cost \in Costs, Settle(d, s, cost)
        PROVE  Returned(claim'[d], slot')
    <2>1. claim'[d].token = s
      BY <1>0, <1>4 DEF Settle, TypeOK, ClaimRow
    <2>2. slot'[s].state \notin {"free", "acquired"}
      BY <1>3, <1>4 DEF Settle, SlotsOf
    <2> QED BY <2>1, <2>2
  <1>5. ASSUME Abort(d) PROVE Returned(claim'[d], slot')
    <2>1. claim'[d].token = claim[d].token
      BY <1>0, <1>5 DEF Abort, TypeOK, ClaimRow
    <2>2. claim[d].token # NoSlot => slot'[claim[d].token].state \notin {"free", "acquired"}
      BY <1>0, <1>3, <1>5 DEF Abort
    <2> QED BY <2>1, <2>2
  <1>6. ASSUME CommitCacheHit(d) PROVE Returned(claim'[d], slot')
    <2>1. claim'[d].token = NoSlot
      BY <1>0, <1>6 DEF CommitCacheHit, TypeOK, ClaimRow
    <2> QED BY <2>1
  <1>7. CASE claim'[d] = claim[d]
    <2>1. CASE claim[d].token = NoSlot
      BY <1>7, <2>1
    <2>2. CASE claim[d].token # NoSlot
      BY <1>0, <1>7, <2>2, SlotsOnlyAge
    <2> QED BY <2>1, <2>2
  <1> HIDE DEF Returned
  <1> QED BY <1>1, <1>2, <1>4, <1>5, <1>6, <1>7, OthersUntouched

(* No ended claim keeps its slot (FinishedClaimReturnsSlot).                *)
THEOREM FinishedClaimsReturnSlots == LedgerSpec => []FinishedClaimReturnsSlot
  BY InitReturned, StepReturned, TypesHold, PTL DEF LedgerSpec

-----------------------------------------------------------------------------
(* Usage rows.                                                              *)

(* Row row is that of an event in es, with its cost.                        *)
Billed(row, es) == row.seq \in 1..Len(es) /\ es[row.seq].cost = row.cost

(***************************************************************************)
(* What holds of the stored rows us, the parked row p and the n inserts     *)
(* under way of a claim with events es.  Two conjuncts are strengthenings:  *)
(* a parked row is marked delivered only once the claim has a stored row,   *)
(* and the copies stored and the copies still to come are as many as there   *)
(* are workers, for a look finds nothing only while nothing is stored.      *)
(***************************************************************************)
RowsOk(us, p, n, es) ==
    /\ \A i \in 1..Len(us) : Billed(us[i], es)
    /\ \A i, j \in 1..Len(us) : us[i].seq = us[j].seq => i = j \/ (p # NoRow /\ us[i] = p.row)
    /\ p # NoRow => Billed(p.row, es)
    /\ p # NoRow /\ p.delivered => us # << >>
    /\ n <= Replayers
    /\ p # NoRow => Cardinality(CopiesIn(us, p.row)) + n <= Replayers

UsageInv ==
    \A c \in Claims :
        /\ RowsOk(usage[c], usageDLQ[c], replays[c], events[c])
        /\ claim[c].status = "committed" => usage[c] # << >> \/ ~usageDLQ[c].delivered

(* The copies of a row are finitely many, and one more of another attempt   *)
(* does not add to them.                                                    *)
LEMMA CopiesCounted ==
    ASSUME NEW us \in Seq(UsageRow), NEW row \in UsageRow
    PROVE  /\ IsFiniteSet(CopiesIn(us, row))
           /\ Cardinality(CopiesIn(us, row)) \in Nat
           /\ \A new \in UsageRow : new.seq # row.seq =>
                 CopiesIn(Append(us, new), row) = CopiesIn(us, row)
           /\ Cardinality(CopiesIn(Append(us, row), row))
                 = Cardinality(CopiesIn(us, row)) + 1
           /\ us = << >> => Cardinality(CopiesIn(us, row)) = 0
           /\ (\A i \in 1..Len(us) : us[i].seq # row.seq) =>
                 Cardinality(CopiesIn(us, row)) = 0
  <1>1. IsFiniteSet(1..Len(us))
    BY FS_Interval
  <1>2. IsFiniteSet(CopiesIn(us, row))
    BY <1>1, FS_Subset DEF CopiesIn
  <1>3. Cardinality(CopiesIn(us, row)) \in Nat
    BY <1>2, FS_CardinalityType
  <1>4. ASSUME NEW new \in UsageRow
        PROVE  CopiesIn(Append(us, new), row)
                  = CopiesIn(us, row) \cup (IF new.seq = row.seq THEN {Len(us) + 1} ELSE {})
    <2>1. /\ Len(Append(us, new)) = Len(us) + 1
          /\ Append(us, new)[Len(us) + 1] = new
          /\ \A i \in 1..Len(us) : Append(us, new)[i] = us[i]
      OBVIOUS
    <2>2. 1..(Len(us) + 1) = 1..Len(us) \cup {Len(us) + 1}
      OBVIOUS
    <2> QED BY <2>1, <2>2 DEF CopiesIn
  <1>5. Len(us) + 1 \notin CopiesIn(us, row)
    BY DEF CopiesIn
  <1>6. Cardinality(CopiesIn(us, row) \cup {Len(us) + 1}) = Cardinality(CopiesIn(us, row)) + 1
    BY <1>2, <1>5, FS_AddElement
  <1>7. (\A i \in 1..Len(us) : us[i].seq # row.seq) => CopiesIn(us, row) = {}
    BY DEF CopiesIn
  <1>8. Cardinality({}) = 0
    BY FS_EmptySet
  <1>9. \A new \in UsageRow : new.seq # row.seq =>
           CopiesIn(Append(us, new), row) = CopiesIn(us, row)
    BY <1>4
  <1>10. CopiesIn(Append(us, row), row) = CopiesIn(us, row) \cup {Len(us) + 1}
    BY <1>4
  <1>11. us = << >> => \A i \in 1..Len(us) : us[i].seq # row.seq
    OBVIOUS
  <1> QED BY <1>2, <1>3, <1>6, <1>7, <1>8, <1>9, <1>10, <1>11

(* The invariant says all that the two properties say.                      *)
LEMMA UsageInvImplies == TypeOK /\ UsageInv => UsageAgreesWithEvents /\ CommittedHasUsage
  <1> SUFFICES ASSUME TypeOK, UsageInv PROVE UsageAgreesWithEvents /\ CommittedHasUsage
    OBVIOUS
  <1>1. ASSUME NEW c \in Claims, usageDLQ[c] # NoRow
        PROVE  Cardinality(CopiesIn(usage[c], usageDLQ[c].row)) <= Replayers
    <2>1. usage[c] \in Seq(UsageRow) /\ usageDLQ[c].row \in UsageRow /\ replays[c] \in Nat
      BY <1>1 DEF TypeOK, ParkedRow
    <2>2. Cardinality(CopiesIn(usage[c], usageDLQ[c].row)) \in Nat
      BY <2>1, CopiesCounted
    <2>3. Cardinality(CopiesIn(usage[c], usageDLQ[c].row)) + replays[c] <= Replayers
      BY <1>1 DEF UsageInv, RowsOk
    <2> QED BY <2>1, <2>2, <2>3, LedgerAssumption DEF LedgerAssumption
  <1> QED BY <1>1 DEF UsageInv, RowsOk, Billed, UsageAgreesWithEvents, CommittedHasUsage

(* The rows of a claim stay right when it gets one more event.              *)
LEMMA RowsOkAppendEvent ==
    ASSUME NEW us \in Seq(UsageRow), NEW p \in ParkedRow \cup {NoRow}, NEW n,
           NEW es \in Seq(EventRow), NEW e \in EventRow, RowsOk(us, p, n, es)
    PROVE  RowsOk(us, p, n, Append(es, e))
  <1>1. ASSUME NEW row, Billed(row, es) PROVE Billed(row, Append(es, e))
    BY <1>1 DEF Billed
  <1> QED BY <1>1 DEF RowsOk

(***************************************************************************)
(* RecordUsage, next to the event of the same attempt: the row that is      *)
(* stored or parked is new and right, and a claim that drops it has another. *)
(***************************************************************************)
LEMMA RecordKeepsRows ==
    ASSUME NEW us \in Seq(UsageRow), NEW p \in ParkedRow \cup {NoRow}, NEW n \in Nat,
           NEW es \in Seq(EventRow), NEW e \in EventRow, RowsOk(us, p, n, es),
           NEW row \in UsageRow, row.seq = Len(es) + 1, row.cost = e.cost,
           NEW us2, NEW p2,
           \/ us2 = Append(us, row) /\ p2 = p
           \/ us2 = us /\ p2 = IF p = NoRow THEN [row |-> row, delivered |-> FALSE] ELSE p
    PROVE  RowsOk(us2, p2, n, Append(es, e)) /\ (us2 # << >> \/ ~p2.delivered)
  <1>1. RowsOk(us, p, n, Append(es, e))
    BY RowsOkAppendEvent
  <1>2. Billed(row, Append(es, e))
    BY DEF Billed, UsageRow
  <1>3. CASE us2 = Append(us, row) /\ p2 = p
    <2>1. us2 # << >> /\ Len(us2) = Len(us) + 1 /\ us2[Len(us) + 1] = row
      BY <1>3
    <2>2. ASSUME NEW i \in 1..Len(us2), i # Len(us) + 1
          PROVE  i \in 1..Len(us) /\ us2[i] = us[i] /\ us2[i].seq \in 1..Len(es)
      <3>1. i \in 1..Len(us) /\ us2[i] = us[i]
        BY <1>3, <2>1, <2>2
      <3> QED BY <3>1 DEF RowsOk, Billed
    <2>3. \A i \in 1..Len(us2) : Billed(us2[i], Append(es, e))
      BY <1>1, <1>2, <2>1, <2>2 DEF RowsOk
    <2>4. \A i, j \in 1..Len(us2) :
             us2[i].seq = us2[j].seq => i = j \/ (p # NoRow /\ us2[i] = p.row)
      <3> SUFFICES ASSUME NEW i \in 1..Len(us2), NEW j \in 1..Len(us2),
                          us2[i].seq = us2[j].seq
                   PROVE  i = j \/ (p # NoRow /\ us2[i] = p.row)
        OBVIOUS
      <3>1. CASE i = Len(us) + 1 \/ j = Len(us) + 1
        BY <2>1, <2>2, <3>1
      <3>2. CASE i # Len(us) + 1 /\ j # Len(us) + 1
        BY <2>2, <3>2 DEF RowsOk
      <3> QED BY <3>1, <3>2
    <2>5. ASSUME p # NoRow PROVE Cardinality(CopiesIn(us2, p.row)) + n <= Replayers
      <3>1. p.row \in UsageRow /\ p.row.seq # row.seq
        BY <2>5 DEF RowsOk, Billed, ParkedRow
      <3>2. CopiesIn(us2, p.row) = CopiesIn(us, p.row)
        BY <1>3, <3>1, CopiesCounted
      <3> QED BY <2>5, <3>2 DEF RowsOk
    <2> QED BY <1>1, <1>3, <2>1, <2>3, <2>4, <2>5 DEF RowsOk
  <1>4. CASE us2 = us /\ p = NoRow /\ p2 = [row |-> row, delivered |-> FALSE]
    <2>1. \A i \in 1..Len(us) : us[i].seq # row.seq
      BY DEF RowsOk, Billed
    <2>2. Cardinality(CopiesIn(us, row)) = 0
      BY <2>1, CopiesCounted
    <2>3. Cardinality(CopiesIn(us, row)) + n <= Replayers
      BY <2>2 DEF RowsOk
    <2> QED BY <1>1, <1>2, <1>4, <2>3 DEF RowsOk
  <1>5. CASE us2 = us /\ p # NoRow /\ p2 = p
    BY <1>1, <1>5 DEF RowsOk
  <1> QED BY <1>3, <1>4, <1>5

(* No claim has a row at first.                                             *)
LEMMA InitUsage == LedgerInit => UsageInv
  BY LedgerAssumption DEF LedgerAssumption, LedgerInit, UsageInv, RowsOk, NoRow

(* Only a transaction of claim d, and a replay of its row, touch its rows.  *)
LEMMA OthersUsageUntouched ==
    ASSUME TypeOK, [LedgerNext]_ledgerVars, NEW d \in Claims,
           \A s \in SlotsOf(d), cost \in Costs : ~Settle(d, s, cost),
           ~Abort(d),
           ~CommitCacheHit(d),
           ~ReplayUsage(d)
    PROVE  usage'[d] = usage[d] /\ usageDLQ'[d] = usageDLQ[d] /\ replays'[d] = replays[d]
  <1> DEFINE Untouched == /\ usage'[d] = usage[d] /\ usageDLQ'[d] = usageDLQ[d]
                          /\ replays'[d] = replays[d]
  <1>1. ASSUME NEW c \in Claims, NEW cost \in Costs \cup {0}, c # d,
               RecordUsage(c, cost) \/ UNCHANGED usageVars
        PROVE  Untouched
    BY <1>1 DEF RecordUsage, TypeOK, usageVars
  <1>2. ASSUME NEW c \in Claims, c # d, ReplayUsage(c)
        PROVE  Untouched
    BY <1>2 DEF ReplayUsage, ReplayLook, ReplayInsert, ReplayMark, TypeOK
  <1>3. ASSUME NEW c \in Claims, c # d,
               \/ \E s \in SlotsOf(c), cost \in Costs : Settle(c, s, cost)
               \/ Abort(c)
               \/ CommitCacheHit(c)
        PROVE  Untouched
    BY <1>1, <1>3 DEF Settle, Abort, CommitCacheHit
  <1>4. ASSUME NEW c \in Claims,
               \/ \E cost \in Costs : Reserve(c, cost)
               \/ \E s \in Slots, q \in 1..claim[c].seq, a \in Accounts : Acquire(s, c, q, a)
               \/ \E s \in SlotsOf(c) : WriteAcquisition(c, s)
        PROVE  UNCHANGED <<usage, usageDLQ, replays>>
    BY <1>4 DEF Reserve, Acquire, WriteAcquisition, usageVars
  <1>5. ASSUME NEW s \in Slots, SelectorRelease(s) \/ SweepOrphanSlot(s)
        PROVE  UNCHANGED <<usage, usageDLQ, replays>>
    BY <1>5 DEF SelectorRelease, SweepOrphanSlot, usageVars
  <1>6. CASE UNCHANGED ledgerVars
    BY <1>6 DEF ledgerVars, usageVars
  <1> QED BY <1>2, <1>3, <1>4, <1>5, <1>6 DEF LedgerNext

(* A replay step keeps the rows of its claim right: a copy is stored only   *)
(* against an insert that was under way.                                    *)
LEMMA ReplayKeepsRows ==
    ASSUME TypeOK, UsageInv, NEW d \in Claims, ReplayUsage(d)
    PROVE  /\ RowsOk(usage'[d], usageDLQ'[d], replays'[d], events[d])
           /\ usage[d] # << >> \/ ~usageDLQ[d].delivered
                 => usage'[d] # << >> \/ ~usageDLQ'[d].delivered
  <1> DEFINE us == usage[d]
             p == usageDLQ[d]
             n == replays[d]
             es == events[d]
  <1>0. /\ us \in Seq(UsageRow) /\ n \in Nat /\ Replayers \in Nat
        /\ RowsOk(us, p, n, es)
    BY LedgerAssumption DEF LedgerAssumption, UsageInv, TypeOK
  <1>1. p # NoRow /\ p \in ParkedRow /\ p.row \in UsageRow
    BY DEF ReplayUsage, ReplayLook, ReplayInsert, ReplayMark, TypeOK, NoRow, ParkedRow
  <1>2. CASE ReplayLook(d)
    <2>1. us = << >> /\ n < Replayers /\ usage'[d] = us /\ usageDLQ'[d] = p
          /\ replays'[d] = n + 1 /\ ~p.delivered
      BY <1>2 DEF ReplayLook, TypeOK
    <2>2. Cardinality(CopiesIn(us, p.row)) = 0
      BY <1>0, <1>1, <2>1, CopiesCounted
    <2> HIDE DEF us, p, n, es
    <2>3. n + 1 <= Replayers /\ Cardinality(CopiesIn(us, p.row)) + (n + 1) <= Replayers
      BY <1>0, <2>1, <2>2
    <2> QED BY <1>0, <1>1, <2>1, <2>3 DEF RowsOk, us, p, n, es
  <1>3. CASE ReplayInsert(d)
    <2> DEFINE us2 == Append(us, p.row)
    <2>1. n > 0 /\ usage'[d] = us2 /\ usageDLQ'[d] = p /\ replays'[d] = n - 1
      BY <1>3 DEF ReplayInsert, TypeOK
    <2> HIDE DEF us, p, n, es
    <2>2. /\ Len(us2) = Len(us) + 1 /\ us2[Len(us) + 1] = p.row /\ us2 # << >>
          /\ \A i \in 1..Len(us) : us2[i] = us[i]
      <3>1. Len(us2) = Len(us) + 1 /\ us2[Len(us) + 1] = p.row
        BY <1>0, <1>1
      <3>2. \A i \in 1..Len(us) : us2[i] = us[i]
        BY <1>0, <1>1
      <3>3. us2 # << >>
        BY <1>0, <1>1
      <3> QED BY <3>1, <3>2, <3>3
    <2>3. \A i \in 1..Len(us2) : i \in 1..Len(us) \/ i = Len(us) + 1
      <3>1. Len(us) \in Nat
        BY <1>0
      <3> QED BY <2>2, <3>1
    <2>4. Billed(p.row, es)
      BY <1>0, <1>1 DEF RowsOk
    <2> HIDE DEF us2
    <2>5. \A i \in 1..Len(us2) : Billed(us2[i], es)
      BY <1>0, <2>2, <2>3, <2>4 DEF RowsOk
    <2>6. ASSUME NEW i \in 1..Len(us), us[i].seq = p.row.seq PROVE us[i] = p.row
      <3>1. us[i] \in UsageRow
        BY <1>0
      <3>2. us[i].cost = p.row.cost
        BY <1>0, <2>4, <2>6 DEF RowsOk, Billed
      <3> QED BY <1>1, <2>6, <3>1, <3>2 DEF UsageRow
    <2>7. ASSUME NEW i \in 1..Len(us2), NEW j \in 1..Len(us2), us2[i].seq = us2[j].seq
          PROVE  i = j \/ us2[i] = p.row
      <3>1. CASE i = Len(us) + 1
        BY <2>2, <3>1
      <3>2. CASE i \in 1..Len(us) /\ j = Len(us) + 1
        BY <2>2, <2>6, <2>7, <3>2
      <3>3. CASE i \in 1..Len(us) /\ j \in 1..Len(us)
        BY <1>0, <2>2, <2>7, <3>3 DEF RowsOk
      <3> QED BY <2>3, <3>1, <3>2, <3>3
    <2>8. Cardinality(CopiesIn(us2, p.row)) = Cardinality(CopiesIn(us, p.row)) + 1
          /\ Cardinality(CopiesIn(us, p.row)) \in Nat
      BY <1>0, <1>1, CopiesCounted DEF us2
    <2>9. n - 1 <= Replayers /\ Cardinality(CopiesIn(us2, p.row)) + (n - 1) <= Replayers
      BY <1>0, <1>1, <2>8 DEF RowsOk
    <2>10. RowsOk(us2, p, n - 1, es)
      BY <1>1, <2>2, <2>4, <2>5, <2>7, <2>9 DEF RowsOk
    <2> QED BY <2>1, <2>2, <2>10 DEF p, es
  <1>4. CASE ReplayMark(d)
    <2>1. us # << >> /\ usage'[d] = us /\ usageDLQ'[d] = [p EXCEPT !.delivered = TRUE]
          /\ replays'[d] = n
      BY <1>4 DEF ReplayMark, TypeOK
    <2>2. usageDLQ'[d].row = p.row
      BY <1>1, <2>1 DEF ParkedRow
    <2>3. usageDLQ'[d] # NoRow
      BY <1>1, <2>1 DEF ParkedRow, NoRow
    <2> HIDE DEF us, p, n, es
    <2> QED BY <1>0, <1>1, <2>1, <2>2, <2>3 DEF RowsOk, es
  <1> QED BY <1>2, <1>3, <1>4 DEF ReplayUsage

(***************************************************************************)
(* The attempt that ends has no row yet, for its event is only now written  *)
(* (OneEventPerAttempt); a replayed row is counted against its inserts.     *)
(***************************************************************************)
LEMMA StepUsage ==
    TypeOK /\ OneEventPerAttempt /\ UsageInv /\ [LedgerNext]_ledgerVars => UsageInv'
  <1> SUFFICES ASSUME TypeOK, OneEventPerAttempt, UsageInv, [LedgerNext]_ledgerVars,
                      NEW d \in Claims
               PROVE  /\ RowsOk(usage'[d], usageDLQ'[d], replays'[d], events'[d])
                      /\ claim'[d].status = "committed" =>
                            usage'[d] # << >> \/ ~usageDLQ'[d].delivered
    BY DEF UsageInv, RowsOk, Billed
  <1> DEFINE Good == /\ RowsOk(usage'[d], usageDLQ'[d], replays'[d], events'[d])
                     /\ claim'[d].status = "committed" =>
                           usage'[d] # << >> \/ ~usageDLQ'[d].delivered
  <1>0. /\ RowsOk(usage[d], usageDLQ[d], replays[d], events[d])
        /\ claim[d].status = "committed" => usage[d] # << >> \/ ~usageDLQ[d].delivered
        /\ claim[d] \in ClaimRow /\ claim[d].seq \in Nat
        /\ events[d] \in Seq(EventRow) /\ usage[d] \in Seq(UsageRow)
        /\ usageDLQ[d] \in ParkedRow \cup {NoRow} /\ replays[d] \in Nat
        /\ Logged(claim[d], events[d])
    BY LoggedIsOneEvent DEF UsageInv, TypeOK, ClaimRow
  <1>1. ASSUME NEW cost \in Costs \cup {0},
               NEW type \in {"claim_committed", "claim_aborted"},
               claim[d].status = "reserving", LogEvent(d, type, cost), RecordUsage(d, cost)
        PROVE  Good
    <2> DEFINE e == [type |-> type, cost |-> cost]
               row == [seq |-> claim[d].seq, cost |-> cost]
    <2>1. e \in EventRow /\ row \in UsageRow
      BY <1>0 DEF EventRow, UsageRow
    <2>2. row.seq = Len(events[d]) + 1 /\ row.cost = e.cost
      BY <1>0, <1>1 DEF Logged
    <2>3. events'[d] = Append(events[d], e)
      BY <1>1 DEF LogEvent, TypeOK
    <2>4. \/ usage'[d] = Append(usage[d], row) /\ usageDLQ'[d] = usageDLQ[d]
          \/ /\ usage'[d] = usage[d]
             /\ usageDLQ'[d] = IF usageDLQ[d] = NoRow THEN [row |-> row, delivered |-> FALSE]
                                                      ELSE usageDLQ[d]
      BY <1>1 DEF RecordUsage, TypeOK
    <2>6. replays'[d] = replays[d]
      BY <1>1 DEF RecordUsage
    <2> HIDE DEF e, row
    <2>5. /\ RowsOk(usage'[d], usageDLQ'[d], replays[d], Append(events[d], e))
          /\ usage'[d] # << >> \/ ~usageDLQ'[d].delivered
      <3> DEFINE us == usage[d]
                 p == usageDLQ[d]
                 n == replays[d]
                 es == events[d]
                 us2 == usage'[d]
                 p2 == usageDLQ'[d]
      <3>1. /\ us \in Seq(UsageRow) /\ p \in ParkedRow \cup {NoRow} /\ n \in Nat
            /\ es \in Seq(EventRow) /\ RowsOk(us, p, n, es) /\ row.seq = Len(es) + 1
        BY <1>0, <2>2
      <3>2. \/ us2 = Append(us, row) /\ p2 = p
            \/ us2 = us /\ p2 = IF p = NoRow THEN [row |-> row, delivered |-> FALSE] ELSE p
        BY <2>4
      <3> HIDE DEF us, p, n, es, us2, p2
      <3>3. RowsOk(us2, p2, n, Append(es, e)) /\ (us2 # << >> \/ ~p2.delivered)
        BY <2>1, <2>2, <3>1, <3>2, RecordKeepsRows
      <3> QED BY <3>3 DEF us, p, n, es, us2, p2
    <2> QED BY <2>3, <2>5, <2>6
  <1>2. ASSUME NEW s \in SlotsOf(d), NEW cost \in Costs, Settle(d, s, cost) PROVE Good
    BY <1>1, <1>2 DEF Settle
  <1>3. ASSUME CommitCacheHit(d) PROVE Good
    BY <1>1, <1>3 DEF CommitCacheHit
  <1>4. ASSUME Abort(d) PROVE Good
    <2>1. CASE claim[d].token # NoSlot
      BY <1>1, <1>4, <2>1 DEF Abort
    <2>2. CASE claim[d].token = NoSlot
      <3>1. usage'[d] = usage[d] /\ usageDLQ'[d] = usageDLQ[d] /\ replays'[d] = replays[d]
        BY <1>4, <2>2 DEF Abort, usageVars
      <3>2. events'[d] = Append(events[d], [type |-> "claim_aborted", cost |-> 0])
        BY <1>4 DEF Abort, LogEvent, TypeOK
      <3>3. [type |-> "claim_aborted", cost |-> 0] \in EventRow
        BY DEF EventRow
      <3>4. claim'[d].status = "aborted"
        BY <1>0, <1>4 DEF Abort, TypeOK, ClaimRow
      <3> QED BY <1>0, <3>1, <3>2, <3>3, <3>4, RowsOkAppendEvent
    <2> QED BY <2>1, <2>2
  <1>5. ASSUME ReplayUsage(d) PROVE Good
    <2>1. events'[d] = events[d] /\ claim'[d] = claim[d]
      BY <1>5 DEF ReplayUsage, ReplayLook, ReplayInsert, ReplayMark, NoUsageStep
    <2> QED BY <1>0, <1>5, <2>1, ReplayKeepsRows
  <1>6. ASSUME /\ usage'[d] = usage[d] /\ usageDLQ'[d] = usageDLQ[d]
               /\ replays'[d] = replays[d]
               /\ events'[d] = events[d]
               /\ claim'[d].status = "committed" => claim[d].status = "committed"
        PROVE  Good
    BY <1>0, <1>6
  <1>7. ASSUME NEW cost \in Costs, Reserve(d, cost)
        PROVE  /\ usage' = usage /\ usageDLQ' = usageDLQ /\ events' = events
               /\ claim'[d].status # "committed"
    BY <1>7 DEF Reserve, TypeOK, usageVars
  <1>8. ASSUME NEW s \in SlotsOf(d), WriteAcquisition(d, s)
        PROVE  /\ usage' = usage /\ usageDLQ' = usageDLQ /\ events' = events
               /\ claim'[d].status # "committed"
    BY <1>0, <1>8 DEF WriteAcquisition, TypeOK, ClaimRow, usageVars
  <1> HIDE DEF Good
  <1>9. ASSUME \/ \E s \in SlotsOf(d), cost \in Costs : Settle(d, s, cost)
               \/ CommitCacheHit(d) \/ Abort(d) \/ ReplayUsage(d)
        PROVE  Good
    BY <1>2, <1>3, <1>4, <1>5, <1>9
  <1>10. ASSUME ~ \/ \E s \in SlotsOf(d), cost \in Costs : Settle(d, s, cost)
                  \/ CommitCacheHit(d) \/ Abort(d) \/ ReplayUsage(d)
         PROVE  Good
    <2>1. usage'[d] = usage[d] /\ usageDLQ'[d] = usageDLQ[d] /\ replays'[d] = replays[d]
      BY <1>10, OthersUsageUntouched
    <2>2. events'[d] = events[d] /\ (claim'[d].status = "committed" => claim[d].status = "committed")
      BY <1>7, <1>8, <1>10, OthersUntouched
    <2> QED BY <1>6, <2>1, <2>2
  <1>11. Good
    BY <1>9, <1>10
  <1> QED BY <1>11 DEF Good

(* The usage invariant holds.                                               *)
LEMMA UsageInvHolds == LedgerSpec => []UsageInv
  BY InitUsage, StepUsage, TypesHold, EventsFollowAttempts, PTL DEF LedgerSpec

(* Usage rows agree with the events (UsageAgreesWithEvents), stored, parked *)
(* or replayed.                                                             *)
THEOREM UsageRowsAgree == LedgerSpec => []UsageAgreesWithEvents
  BY UsageInvHolds, UsageInvImplies, TypesHold, PTL

(* The recovery worker's proof of a commit is there or will be replayed     *)
(* (CommittedHasUsage).                                                     *)
THEOREM CommittedClaimsHaveUsage == LedgerSpec => []CommittedHasUsage
  BY UsageInvHolds, UsageInvImplies, TypesHold, PTL

-----------------------------------------------------------------------------
(* Refinement.                                                              *)

(* The contract's view of the tables.                                       *)
Phase == [c \in Claims |-> PhaseOf(claim[c].status)]
Frozen == [c \in Claims |-> FrozenBy(c)]
Charged == [c \in Claims |-> ChargedBy(c)]

(* The ledger starts as the contract does.                                  *)
LEMMA InitContract == LedgerInit => Contract!Init
  BY DEF LedgerInit, Contract!Init, PhaseOf, FrozenBy, ChargedBy

(* A transaction of claim c changes the view at c only.                     *)
LEMMA ViewChanges ==
    ASSUME NEW c \in Claims,
           \A d \in Claims \ {c} : claim'[d] = claim[d] /\ hold'[d] = hold[d]
    PROVE  /\ Phase' = [Phase EXCEPT ![c] = PhaseOf(claim[c].status)']
           /\ Frozen' = [Frozen EXCEPT ![c] = FrozenBy(c)']
           /\ Charged' = [Charged EXCEPT ![c] = ChargedBy(c)']
  <1>1. \A d \in Claims \ {c} : /\ PhaseOf(claim[d].status)' = PhaseOf(claim[d].status)
                               /\ FrozenBy(d)' = FrozenBy(d)
                               /\ ChargedBy(d)' = ChargedBy(d)
    BY DEF FrozenBy, ChargedBy
  <1>2. /\ Phase' = [d \in Claims |-> PhaseOf(claim[d].status)']
        /\ Phase = [d \in Claims |-> PhaseOf(claim[d].status)]
    BY DEF Phase
  <1>3. Frozen' = [d \in Claims |-> FrozenBy(d)'] /\ Frozen = [d \in Claims |-> FrozenBy(d)]
    BY DEF Frozen
  <1>4. Charged' = [d \in Claims |-> ChargedBy(d)'] /\ Charged = [d \in Claims |-> ChargedBy(d)]
    BY DEF Charged
  <1> QED BY <1>1, <1>2, <1>3, <1>4

(* Freeze, in terms of the view.                                            *)
LEMMA FreezeView ==
    ASSUME NEW c \in Claims, NEW amount \in Costs \cup {0},
           Phase[c] \in {"idle", "freed"},
           amount = 0 \/ amount <= balance[UserOf[c]] - held[UserOf[c]],
           Frozen' = [Frozen EXCEPT ![c] = amount],
           held' = [held EXCEPT ![UserOf[c]] = @ + amount],
           Phase' = [Phase EXCEPT ![c] = "reserved"],
           UNCHANGED <<Charged, balance>>
    PROVE  Contract!Next
  BY DEF Contract!Next, Contract!Freeze, Phase, Frozen, Charged

(* Charge, in terms of the view.                                            *)
LEMMA ChargeView ==
    ASSUME NEW c \in Claims, NEW cost \in Costs \cup {0},
           Phase[c] = "reserved",
           Charged' = [Charged EXCEPT ![c] = cost],
           balance' = [balance EXCEPT ![UserOf[c]] = @ - cost],
           held' = [held EXCEPT ![UserOf[c]] = @ - Frozen[c]],
           Frozen' = [Frozen EXCEPT ![c] = 0],
           Phase' = [Phase EXCEPT ![c] = "charged"]
    PROVE  Contract!Next
  BY DEF Contract!Next, Contract!Charge, Phase, Frozen, Charged

(* Free, in terms of the view.                                              *)
LEMMA FreeView ==
    ASSUME NEW c \in Claims,
           Phase[c] = "reserved",
           held' = [held EXCEPT ![UserOf[c]] = @ - Frozen[c]],
           Frozen' = [Frozen EXCEPT ![c] = 0],
           Phase' = [Phase EXCEPT ![c] = "freed"],
           UNCHANGED <<Charged, balance>>
    PROVE  Contract!Next
  BY DEF Contract!Next, Contract!Free, Phase, Frozen, Charged

(* Every transaction is a step of the contract, or none of its business.    *)
LEMMA StepContract ==
    TypeOK /\ HoldFollowsClaim /\ [LedgerNext]_ledgerVars => [Contract!Next]_(Contract!vars)
  <1> SUFFICES ASSUME TypeOK, HoldFollowsClaim, [LedgerNext]_ledgerVars
               PROVE  Contract!Next \/ UNCHANGED Contract!vars
    OBVIOUS
  <1>0. ASSUME NEW c \in Claims
        PROVE  /\ claim[c] \in ClaimRow /\ hold[c] \in HoldRow
               /\ hold[c].state = IF Metered(c) THEN HoldStateFor(claim[c].status) ELSE "none"
               /\ UserOf[c] \in Users
               /\ balance[UserOf[c]] \in Int /\ held[UserOf[c]] \in Int
               /\ Phase[c] = PhaseOf(claim[c].status)
               /\ Frozen[c] = IF hold[c].state = "held" THEN hold[c].amount ELSE 0
               /\ Charged[c] = IF hold[c].state = "captured" THEN hold[c].captured ELSE 0
    BY LedgerAssumption DEF LedgerAssumption, HoldFollowsClaim, TypeOK, Phase, Frozen, Charged,
       FrozenBy, ChargedBy
  <1>1. ASSUME NEW c \in Claims, NEW cost \in Costs, Reserve(c, cost) PROVE Contract!Next
    <2>1. /\ PhaseOf(claim[c].status)' = "reserved"
          /\ \A d \in Claims \ {c} : claim'[d] = claim[d]
      BY <1>1 DEF Reserve, PhaseOf, TypeOK
    <2>2. Phase[c] \in {"idle", "freed"} /\ Charged[c] = 0
          /\ hold[c].state \in {"none", "released"}
      BY <1>0, <1>1 DEF Reserve, PhaseOf, HoldStateFor
    <2>3. CASE Metered(c)
      <3> DEFINE h == [state |-> "held", amount |-> cost, captured |-> 0]
      <3>1. /\ hold' = [hold EXCEPT ![c] = h]
            /\ held' = [held EXCEPT ![UserOf[c]] = @ + cost]
            /\ balance' = balance
            /\ cost <= balance[UserOf[c]] - held[UserOf[c]]
        <4>1. /\ hold' = [hold EXCEPT ![c] = h]
              /\ held' = [held EXCEPT ![UserOf[c]] = @ + cost]
              /\ balance' = balance
              /\ balance[UserOf[c]] - held[UserOf[c]] >= cost
          BY <1>1, <2>2, <2>3 DEF Reserve, FreezeHold, Metered
        <4>2. cost \in Int
          BY LedgerAssumption DEF LedgerAssumption
        <4> QED BY <1>0, <4>1, <4>2
      <3>2. FrozenBy(c)' = cost /\ ChargedBy(c)' = 0
            /\ \A d \in Claims \ {c} : hold'[d] = hold[d]
        BY <3>1 DEF TypeOK, FrozenBy, ChargedBy
      <3>3. /\ Phase' = [Phase EXCEPT ![c] = "reserved"]
            /\ Frozen' = [Frozen EXCEPT ![c] = cost]
            /\ Charged' = [Charged EXCEPT ![c] = 0]
        BY <2>1, <3>2, ViewChanges
      <3>4. Charged' = Charged
        BY <2>2, <3>3 DEF Charged
      <3> QED BY <2>2, <3>1, <3>3, <3>4, FreezeView
    <2>4. CASE ~Metered(c)
      <3>1. hold' = hold /\ held' = held /\ balance' = balance
        BY <1>1, <2>4 DEF Reserve, FreezeHold, Metered, walletVars
      <3>2. FrozenBy(c)' = 0 /\ ChargedBy(c)' = 0
        BY <1>0, <2>4, <3>1 DEF FrozenBy, ChargedBy
      <3>3. /\ Phase' = [Phase EXCEPT ![c] = "reserved"]
            /\ Frozen' = [Frozen EXCEPT ![c] = 0]
            /\ Charged' = [Charged EXCEPT ![c] = 0]
        BY <2>1, <3>1, <3>2, ViewChanges
      <3>4. Charged' = Charged
        BY <2>2, <3>3 DEF Charged
      <3>5. held' = [held EXCEPT ![UserOf[c]] = @ + 0]
        BY <1>0, <3>1 DEF TypeOK
      <3> QED BY <2>2, <3>1, <3>3, <3>4, <3>5, FreezeView
    <2> QED BY <2>3, <2>4
  <1>2. ASSUME NEW c \in Claims, NEW cost \in Costs \cup {0}, claim[c].status = "reserving",
               claim' = [claim EXCEPT ![c].status = "committed", ![c].actual = cost],
               CaptureHold(c, cost)
        PROVE  Contract!Next
    <2>1. /\ PhaseOf(claim[c].status)' = "charged"
          /\ \A d \in Claims \ {c} : claim'[d] = claim[d]
      BY <1>0, <1>2 DEF PhaseOf, TypeOK, ClaimRow
    <2>2. Phase[c] = "reserved"
      BY <1>0, <1>2 DEF PhaseOf
    <2>3. CASE Metered(c)
      <3>1. hold[c].state = "held"
        BY <1>0, <1>2, <2>3 DEF HoldStateFor
      <3>2. /\ hold' = [hold EXCEPT ![c].state = "captured", ![c].captured = cost]
            /\ balance' = [balance EXCEPT ![UserOf[c]] = @ - cost]
            /\ held' = [held EXCEPT ![UserOf[c]] = @ - hold[c].amount]
        BY <1>2, <2>3, <3>1 DEF CaptureHold, Metered
      <3>3. FrozenBy(c)' = 0 /\ ChargedBy(c)' = cost
            /\ \A d \in Claims \ {c} : hold'[d] = hold[d]
        BY <1>0, <3>2 DEF TypeOK, HoldRow, FrozenBy, ChargedBy
      <3>4. /\ Phase' = [Phase EXCEPT ![c] = "charged"]
            /\ Frozen' = [Frozen EXCEPT ![c] = 0]
            /\ Charged' = [Charged EXCEPT ![c] = cost]
        BY <2>1, <3>3, ViewChanges
      <3>5. Frozen[c] = hold[c].amount
        BY <1>0, <3>1
      <3> QED BY <2>2, <3>2, <3>4, <3>5, ChargeView
    <2>4. CASE ~Metered(c)
      <3>1. hold[c].state = "none" /\ hold' = hold /\ held' = held /\ balance' = balance
        BY <1>0, <1>2, <2>4 DEF CaptureHold, walletVars
      <3>2. FrozenBy(c)' = 0 /\ ChargedBy(c)' = 0 /\ Frozen[c] = 0
        BY <1>0, <3>1 DEF FrozenBy, ChargedBy
      <3>3. /\ Phase' = [Phase EXCEPT ![c] = "charged"]
            /\ Frozen' = [Frozen EXCEPT ![c] = 0]
            /\ Charged' = [Charged EXCEPT ![c] = 0]
        BY <2>1, <3>1, <3>2, ViewChanges
      <3>4. /\ balance' = [balance EXCEPT ![UserOf[c]] = @ - 0]
            /\ held' = [held EXCEPT ![UserOf[c]] = @ - Frozen[c]]
        BY <1>0, <3>1, <3>2 DEF TypeOK
      <3> QED BY <2>2, <3>3, <3>4, ChargeView
    <2> QED BY <2>3, <2>4
  <1>3. ASSUME NEW c \in Claims, NEW s \in SlotsOf(c), NEW cost \in Costs, Settle(c, s, cost)
        PROVE  Contract!Next
    BY <1>2, <1>3 DEF Settle
  <1>4. ASSUME NEW c \in Claims, CommitCacheHit(c) PROVE Contract!Next
    BY <1>2, <1>4 DEF CommitCacheHit
  <1>5. ASSUME NEW c \in Claims, Abort(c) PROVE Contract!Next
    <2>1. /\ PhaseOf(claim[c].status)' = "freed"
          /\ \A d \in Claims \ {c} : claim'[d] = claim[d]
      BY <1>0, <1>5 DEF Abort, PhaseOf, TypeOK, ClaimRow
    <2>2. Phase[c] = "reserved"
      BY <1>0, <1>5 DEF Abort, PhaseOf
    <2>3. Charged[c] = 0
      BY <1>0, <1>5 DEF Abort, HoldStateFor
    <2>4. CASE Metered(c)
      <3>1. hold[c].state = "held"
        BY <1>0, <1>5, <2>4 DEF Abort, HoldStateFor
      <3>2. /\ hold' = [hold EXCEPT ![c].state = "released"]
            /\ balance' = balance
            /\ held' = [held EXCEPT ![UserOf[c]] = @ - hold[c].amount]
        BY <1>5, <2>4, <3>1 DEF Abort, ReleaseHold, Metered
      <3>3. FrozenBy(c)' = 0 /\ ChargedBy(c)' = 0
            /\ \A d \in Claims \ {c} : hold'[d] = hold[d]
        BY <1>0, <3>2 DEF TypeOK, HoldRow, FrozenBy, ChargedBy
      <3>4. /\ Phase' = [Phase EXCEPT ![c] = "freed"]
            /\ Frozen' = [Frozen EXCEPT ![c] = 0]
            /\ Charged' = [Charged EXCEPT ![c] = 0]
        BY <2>1, <3>3, ViewChanges
      <3>5. Charged' = Charged /\ Frozen[c] = hold[c].amount
        BY <1>0, <2>3, <3>1, <3>4 DEF Charged
      <3> QED BY <2>2, <3>2, <3>4, <3>5, FreeView
    <2>5. CASE ~Metered(c)
      <3>1. hold[c].state = "none" /\ hold' = hold /\ held' = held /\ balance' = balance
        BY <1>0, <1>5, <2>5 DEF Abort, ReleaseHold, walletVars
      <3>2. FrozenBy(c)' = 0 /\ ChargedBy(c)' = 0 /\ Frozen[c] = 0
        BY <1>0, <3>1 DEF FrozenBy, ChargedBy
      <3>3. /\ Phase' = [Phase EXCEPT ![c] = "freed"]
            /\ Frozen' = [Frozen EXCEPT ![c] = 0]
            /\ Charged' = [Charged EXCEPT ![c] = 0]
        BY <2>1, <3>1, <3>2, ViewChanges
      <3>4. Charged' = Charged
        BY <2>3, <3>3 DEF Charged
      <3>5. held' = [held EXCEPT ![UserOf[c]] = @ - Frozen[c]]
        BY <1>0, <3>1, <3>2 DEF TypeOK
      <3> QED BY <2>2, <3>1, <3>3, <3>4, <3>5, FreeView
    <2> QED BY <2>4, <2>5
  <1>6. ASSUME UNCHANGED walletVars, \A c \in Claims : claim'[c].status = claim[c].status
        PROVE  UNCHANGED Contract!vars
    <2>1. \A d \in Claims : /\ PhaseOf(claim[d].status)' = PhaseOf(claim[d].status)
                            /\ FrozenBy(d)' = FrozenBy(d)
                            /\ ChargedBy(d)' = ChargedBy(d)
      BY <1>6 DEF walletVars, FrozenBy, ChargedBy
    <2> QED BY <1>6, <2>1 DEF walletVars, Contract!vars
  <1>7. ASSUME NEW c \in Claims, NEW s \in SlotsOf(c), WriteAcquisition(c, s)
        PROVE  UNCHANGED Contract!vars
    <2>1. \A d \in Claims : claim'[d].status = claim[d].status
      BY <1>0, <1>7 DEF WriteAcquisition, TypeOK, ClaimRow
    <2> QED BY <1>6, <1>7, <2>1 DEF WriteAcquisition
  <1>8. ASSUME NEW s \in Slots, NEW c \in Claims, NEW q \in 1..claim[c].seq,
               NEW a \in Accounts, Acquire(s, c, q, a)
        PROVE  UNCHANGED Contract!vars
    BY <1>6, <1>8 DEF Acquire
  <1>9. ASSUME NEW c \in Claims, ReplayUsage(c) PROVE UNCHANGED Contract!vars
    BY <1>6, <1>9 DEF ReplayUsage, ReplayLook, ReplayInsert, ReplayMark, NoUsageStep
  <1>10. ASSUME NEW s \in Slots, SelectorRelease(s) \/ SweepOrphanSlot(s)
         PROVE  UNCHANGED Contract!vars
    BY <1>6, <1>10 DEF SelectorRelease, SweepOrphanSlot
  <1>11. ASSUME UNCHANGED ledgerVars PROVE UNCHANGED Contract!vars
    BY <1>6, <1>11 DEF ledgerVars
  <1> QED BY <1>1, <1>3, <1>4, <1>5, <1>7, <1>8, <1>9, <1>10, <1>11 DEF LedgerNext

(***************************************************************************)
(* The ledger implements the charge contract (ImplementsContract): an       *)
(* amount is frozen only if it is there, a claim is charged at most once,   *)
(* and what was frozen is given back whole when it ends.                    *)
(***************************************************************************)
THEOREM LedgerImplementsContract == LedgerSpec => ImplementsContract
  BY InitContract, StepContract, TypesHold, HoldsFollowClaims, PTL
     DEF LedgerSpec, ImplementsContract, Contract!Spec

-----------------------------------------------------------------------------
(* The slots of an account and of a claim that ended are accounted for, for *)
(* any number of claims, accounts and slots (SlotBooks).                    *)
THEOREM SlotsAreAccountedFor == LedgerSpec => []SlotBooks
<1>1. InFlightIsAcquired /\ FinishedClaimReturnsSlot => SlotBooks
  BY DEF SlotBooks
<1> QED
  BY <1>1, InFlightCounts, FinishedClaimsReturnSlots, PTL

(* Events, usage records and the proof of commitment agree, for any number  *)
(* of attempts (UsageBooks).                                                *)
THEOREM UsageIsAccountedFor == LedgerSpec => []UsageBooks
<1>1. OneEventPerAttempt /\ UsageAgreesWithEvents /\ CommittedHasUsage => UsageBooks
  BY DEF UsageBooks
<1> QED
  BY <1>1, EventsFollowAttempts, UsageRowsAgree, CommittedClaimsHaveUsage, PTL

-----------------------------------------------------------------------------
(* Wallets.  The contract's three steps are all that happens to a wallet,   *)
(* so its books need to be checked for those only.                          *)

(* The amounts frozen and charged are natural numbers, and follow the state *)
(* of the claim.                                                            *)
LEMMA AmountsFollow ==
    ASSUME TypeOK, HoldFollowsClaim, NEW c \in Claims
    PROVE  /\ Frozen[c] \in Nat /\ Charged[c] \in Nat
           /\ Phase[c] \in {"idle", "freed"} => Frozen[c] = 0
           /\ Phase[c] = "reserved" => Charged[c] = 0
           /\ UserOf[c] \in Users
  <1>1. hold[c] \in HoldRow /\ Costs \subseteq Nat /\ UserOf[c] \in Users
    BY LedgerAssumption DEF LedgerAssumption, TypeOK
  <1>2. hold[c].amount \in Nat /\ hold[c].captured \in Nat
    <2>1. hold[c].amount \in Costs \cup {0} /\ hold[c].captured \in Costs \cup {0}
      BY <1>1 DEF HoldRow
    <2>2. Costs \cup {0} \subseteq Nat
      BY <1>1
    <2> QED BY <2>1, <2>2
  <1>3. claim[c] \in ClaimRow
    BY DEF TypeOK
  <1>4. hold[c].state = IF Metered(c) THEN HoldStateFor(claim[c].status) ELSE "none"
    BY DEF HoldFollowsClaim
  <1>5. claim[c].status \in {"none", "reserving", "committed", "aborted"}
    BY <1>3 DEF ClaimRow
  <1>6. /\ Phase[c] \in {"idle", "freed"} => hold[c].state # "held"
        /\ Phase[c] = "reserved" => hold[c].state # "captured"
    BY <1>4, <1>5 DEF Phase, PhaseOf, HoldStateFor
  <1> QED BY <1>1, <1>2, <1>6 DEF Frozen, Charged, FrozenBy, ChargedBy

(* The sums are finite, though there may be any number of claims.           *)
WalletInv ==
    \A u \in Users :
        /\ IsFiniteSet(Coins(Frozen, ClaimsOf(u))) /\ IsFiniteSet(Coins(Charged, ClaimsOf(u)))
        /\ held[u] = SumOf(Frozen, ClaimsOf(u))
        /\ balance[u] = InitialBalance[u] - SumOf(Charged, ClaimsOf(u))

LEMMA InitWallet == LedgerInit => WalletInv
  <1> SUFFICES ASSUME LedgerInit, NEW u \in Users
               PROVE  /\ IsFiniteSet(Coins(Frozen, ClaimsOf(u)))
                      /\ IsFiniteSet(Coins(Charged, ClaimsOf(u)))
                      /\ held[u] = SumOf(Frozen, ClaimsOf(u))
                      /\ balance[u] = InitialBalance[u] - SumOf(Charged, ClaimsOf(u))
    BY DEF WalletInv
  <1>1. \A c \in ClaimsOf(u) : Frozen[c] = 0 /\ Charged[c] = 0
    BY DEF LedgerInit, Frozen, Charged, FrozenBy, ChargedBy, ClaimsOf
  <1>2. held[u] = 0 /\ balance[u] = InitialBalance[u] /\ InitialBalance[u] \in Int
    BY LedgerAssumption DEF LedgerInit, LedgerAssumption
  <1> QED BY <1>1, <1>2, SumOfNothing

(* The sums follow the one claim whose amounts change.                      *)
LEMMA SumsFollow ==
    ASSUME NEW c \in Claims, NEW u \in Users, NEW f, NEW g,
           f[c] \in Nat, g[c] \in Nat, \A d \in Claims \ {c} : g[d] = f[d],
           IsFiniteSet(Coins(f, ClaimsOf(u)))
    PROVE  /\ IsFiniteSet(Coins(g, ClaimsOf(u)))
           /\ SumOf(f, ClaimsOf(u)) \in Nat
           /\ SumOf(g, ClaimsOf(u)) =
                 IF UserOf[c] = u THEN SumOf(f, ClaimsOf(u)) + g[c] - f[c]
                                  ELSE SumOf(f, ClaimsOf(u))
  <1>1. \A d \in ClaimsOf(u) \ {c} : g[d] = f[d]
    BY DEF ClaimsOf
  <1>2. SumOf(f, ClaimsOf(u)) \in Nat
    BY SumType
  <1>3. CASE UserOf[c] = u
    <2>1. c \in ClaimsOf(u)
      BY <1>3 DEF ClaimsOf
    <2> QED BY <1>1, <1>2, <1>3, <2>1, SumFollows
  <1>4. CASE UserOf[c] # u
    <2>1. \A d \in ClaimsOf(u) : g[d] = f[d]
      BY <1>4 DEF ClaimsOf
    <2> QED BY <1>2, <1>4, <2>1, SumOfSame DEF SumOf
  <1> QED BY <1>3, <1>4

LEMMA StepWallet ==
    TypeOK /\ HoldFollowsClaim /\ WalletInv /\ [LedgerNext]_ledgerVars => WalletInv'
  <1> SUFFICES ASSUME TypeOK, HoldFollowsClaim, WalletInv, [LedgerNext]_ledgerVars,
                      NEW u \in Users
               PROVE  /\ IsFiniteSet(Coins(Frozen', ClaimsOf(u)))
                      /\ IsFiniteSet(Coins(Charged', ClaimsOf(u)))
                      /\ held'[u] = SumOf(Frozen', ClaimsOf(u))
                      /\ balance'[u] = InitialBalance[u] - SumOf(Charged', ClaimsOf(u))
    BY DEF WalletInv, ClaimsOf
  <1> DEFINE Books ==
               /\ IsFiniteSet(Coins(Frozen', ClaimsOf(u)))
               /\ IsFiniteSet(Coins(Charged', ClaimsOf(u)))
               /\ held'[u] = SumOf(Frozen', ClaimsOf(u))
               /\ balance'[u] = InitialBalance[u] - SumOf(Charged', ClaimsOf(u))
  <1>0. /\ IsFiniteSet(Coins(Frozen, ClaimsOf(u))) /\ IsFiniteSet(Coins(Charged, ClaimsOf(u)))
        /\ held[u] = SumOf(Frozen, ClaimsOf(u))
        /\ balance[u] = InitialBalance[u] - SumOf(Charged, ClaimsOf(u))
        /\ held[u] \in Int /\ balance[u] \in Int /\ InitialBalance[u] \in Int
        /\ held \in [Users -> Int] /\ balance \in [Users -> Int]
        /\ SumOf(Charged, ClaimsOf(u)) \in Int
    BY LedgerAssumption, SumType DEF LedgerAssumption, WalletInv, TypeOK
  <1>1. /\ Frozen = [c \in Claims |-> Frozen[c]] /\ Charged = [c \in Claims |-> Charged[c]]
        /\ Costs \cup {0} \subseteq Nat
    BY LedgerAssumption DEF LedgerAssumption, Frozen, Charged
  <1>2. ASSUME NEW c \in Claims, Contract!Freeze(c) PROVE Books
    <2>1. PICK amount \in Costs \cup {0} :
              /\ Frozen' = [Frozen EXCEPT ![c] = amount]
              /\ held' = [held EXCEPT ![UserOf[c]] = @ + amount]
      BY <1>2 DEF Contract!Freeze, Frozen
    <2>2. /\ Phase[c] \in {"idle", "freed"}
          /\ Charged' = Charged /\ balance' = balance
      BY <1>2 DEF Contract!Freeze, Phase, Charged
    <2>3. amount \in Nat /\ Frozen[c] = 0 /\ UserOf[c] \in Users
      BY <1>1, <2>2, AmountsFollow
    <2>4. Frozen'[c] = amount /\ \A d \in Claims \ {c} : Frozen'[d] = Frozen[d]
      BY <1>1, <2>1
    <2>5. /\ IsFiniteSet(Coins(Frozen', ClaimsOf(u)))
          /\ SumOf(Frozen', ClaimsOf(u)) =
                IF UserOf[c] = u THEN SumOf(Frozen, ClaimsOf(u)) + amount - 0
                                 ELSE SumOf(Frozen, ClaimsOf(u))
      BY <1>0, <2>3, <2>4, SumsFollow
    <2>6. held'[u] = IF UserOf[c] = u THEN held[u] + amount ELSE held[u]
      BY <1>0, <2>1
    <2> QED BY <1>0, <2>2, <2>3, <2>5, <2>6
  <1>3. ASSUME NEW c \in Claims, Phase[c] = "reserved",
               Frozen' = [Frozen EXCEPT ![c] = 0],
               held' = [held EXCEPT ![UserOf[c]] = @ - Frozen[c]]
        PROVE  /\ IsFiniteSet(Coins(Frozen', ClaimsOf(u)))
               /\ held'[u] = SumOf(Frozen', ClaimsOf(u))
    <2>1. Frozen[c] \in Nat /\ UserOf[c] \in Users
      BY AmountsFollow
    <2>2. Frozen'[c] = 0 /\ \A d \in Claims \ {c} : Frozen'[d] = Frozen[d]
      BY <1>1, <1>3
    <2>3. /\ IsFiniteSet(Coins(Frozen', ClaimsOf(u)))
          /\ SumOf(Frozen', ClaimsOf(u)) =
                IF UserOf[c] = u THEN SumOf(Frozen, ClaimsOf(u)) + 0 - Frozen[c]
                                 ELSE SumOf(Frozen, ClaimsOf(u))
      BY <1>0, <2>1, <2>2, SumsFollow
    <2>4. held'[u] = IF UserOf[c] = u THEN held[u] - Frozen[c] ELSE held[u]
      BY <1>0, <1>3
    <2> QED BY <1>0, <2>1, <2>3, <2>4
  <1>4. ASSUME NEW c \in Claims, Contract!Charge(c) PROVE Books
    <2>1. PICK cost \in Costs \cup {0} :
              /\ Charged' = [Charged EXCEPT ![c] = cost]
              /\ balance' = [balance EXCEPT ![UserOf[c]] = @ - cost]
      BY <1>4 DEF Contract!Charge, Charged
    <2>2. /\ Phase[c] = "reserved" /\ Frozen' = [Frozen EXCEPT ![c] = 0]
          /\ held' = [held EXCEPT ![UserOf[c]] = @ - Frozen[c]]
      BY <1>4 DEF Contract!Charge, Phase, Frozen
    <2>3. cost \in Nat /\ Charged[c] = 0 /\ UserOf[c] \in Users
      BY <1>1, <2>2, AmountsFollow
    <2>4. Charged'[c] = cost /\ \A d \in Claims \ {c} : Charged'[d] = Charged[d]
      BY <1>1, <2>1
    <2>5. /\ IsFiniteSet(Coins(Charged', ClaimsOf(u)))
          /\ SumOf(Charged', ClaimsOf(u)) =
                IF UserOf[c] = u THEN SumOf(Charged, ClaimsOf(u)) + cost - 0
                                 ELSE SumOf(Charged, ClaimsOf(u))
      BY <1>0, <2>3, <2>4, SumsFollow
    <2>6. balance'[u] = IF UserOf[c] = u THEN balance[u] - cost ELSE balance[u]
      BY <1>0, <2>1
    <2>7. balance'[u] = InitialBalance[u] - SumOf(Charged', ClaimsOf(u))
      BY <1>0, <2>3, <2>5, <2>6
    <2> QED BY <1>3, <2>2, <2>5, <2>7
  <1>5. ASSUME NEW c \in Claims, Contract!Free(c) PROVE Books
    <2>1. /\ Phase[c] = "reserved" /\ Frozen' = [Frozen EXCEPT ![c] = 0]
          /\ held' = [held EXCEPT ![UserOf[c]] = @ - Frozen[c]]
          /\ Charged' = Charged /\ balance' = balance
      BY <1>5 DEF Contract!Free, Phase, Frozen, Charged
    <2> QED BY <1>0, <1>3, <2>1
  <1>6. CASE UNCHANGED Contract!vars
    <2>1. Frozen' = Frozen /\ Charged' = Charged /\ held' = held /\ balance' = balance
      BY <1>6 DEF Contract!vars, Frozen, Charged
    <2> QED BY <1>0, <2>1
  <1> QED BY <1>2, <1>4, <1>5, <1>6, StepContract DEF Contract!Next

(* What transactions do to the wallet tables.                               *)
LEMMA WalletSteps ==
    ASSUME [LedgerNext]_ledgerVars
    PROVE  \/ UNCHANGED walletVars
           \/ \E c \in Claims, cost \in Costs :
                  claim[c].status \in {"none", "aborted"} /\ FreezeHold(c, cost)
           \/ \E c \in Claims, cost \in Costs \cup {0} : CaptureHold(c, cost)
           \/ \E c \in Claims : ReleaseHold(c)
  <1>1. ASSUME NEW c \in Claims, NEW cost \in Costs, Reserve(c, cost)
        PROVE  claim[c].status \in {"none", "aborted"} /\ FreezeHold(c, cost)
    BY <1>1 DEF Reserve
  <1>2. ASSUME NEW c \in Claims, NEW s \in SlotsOf(c), NEW cost \in Costs, Settle(c, s, cost)
        PROVE  CaptureHold(c, cost)
    BY <1>2 DEF Settle
  <1>3. ASSUME NEW c \in Claims, CommitCacheHit(c) PROVE CaptureHold(c, 0)
    BY <1>3 DEF CommitCacheHit
  <1>4. ASSUME NEW c \in Claims, Abort(c) PROVE ReleaseHold(c)
    BY <1>4 DEF Abort
  <1>5. ASSUME NEW c \in Claims,
               \/ \E s \in Slots, q \in 1..claim[c].seq, a \in Accounts : Acquire(s, c, q, a)
               \/ \E s \in SlotsOf(c) : WriteAcquisition(c, s)
               \/ ReplayUsage(c)
        PROVE  UNCHANGED walletVars
    BY <1>5 DEF Acquire, WriteAcquisition, ReplayUsage, ReplayLook, ReplayInsert, ReplayMark,
       NoUsageStep
  <1>6. ASSUME NEW s \in Slots, SelectorRelease(s) \/ SweepOrphanSlot(s)
        PROVE  UNCHANGED walletVars
    BY <1>6 DEF SelectorRelease, SweepOrphanSlot
  <1>7. CASE UNCHANGED ledgerVars
    BY <1>7 DEF ledgerVars
  <1> QED BY <1>1, <1>2, <1>3, <1>4, <1>5, <1>6, <1>7 DEF LedgerNext

(***************************************************************************)
(* The check of a reservation and its update are one statement, so a wallet *)
(* stays ahead of what it has frozen until a claim costs more than its      *)
(* hold.  Such a claim keeps its captured hold for ever: no freeze or       *)
(* release touches a captured one.                                          *)
(***************************************************************************)
LEMMA StepOverdraft ==
    TypeOK /\ HoldFollowsClaim /\ OverdraftOnlyByOverrun /\ [LedgerNext]_ledgerVars
        => OverdraftOnlyByOverrun'
  <1> SUFFICES ASSUME TypeOK, HoldFollowsClaim, OverdraftOnlyByOverrun, [LedgerNext]_ledgerVars,
                      NEW u \in Users, balance'[u] < held'[u]
               PROVE  \E c \in Claims : /\ UserOf[c] = u /\ hold'[c].state = "captured"
                                        /\ hold'[c].captured > hold'[c].amount
    BY DEF OverdraftOnlyByOverrun, ClaimsOf
  <1> DEFINE Overrun == \E c \in Claims : /\ UserOf[c] = u /\ hold'[c].state = "captured"
                                          /\ hold'[c].captured > hold'[c].amount
  <1>0. /\ balance \in [Users -> Int] /\ held \in [Users -> Int]
        /\ hold \in [Claims -> HoldRow] /\ Costs \cup {0} \subseteq Int
        /\ \A c \in Claims : UserOf[c] \in Users
    BY LedgerAssumption DEF LedgerAssumption, TypeOK
  <1>1. ASSUME balance[u] < held[u], NEW c \in Claims, hold[c].state # "captured",
               \A d \in Claims \ {c} : hold'[d] = hold[d]
        PROVE  Overrun
    BY <1>1 DEF OverdraftOnlyByOverrun, ClaimsOf
  <1>2. CASE UNCHANGED walletVars
    BY <1>2 DEF walletVars, OverdraftOnlyByOverrun, ClaimsOf
  <1>3. ASSUME NEW c \in Claims, NEW cost \in Costs,
               claim[c].status \in {"none", "aborted"}, FreezeHold(c, cost),
               ~UNCHANGED walletVars
        PROVE  Overrun
    <2>1. /\ balance[UserOf[c]] - held[UserOf[c]] >= cost
          /\ held' = [held EXCEPT ![UserOf[c]] = @ + cost] /\ balance' = balance
          /\ hold' \in {hold, [hold EXCEPT ![c] = [state |-> "held", amount |-> cost, captured |-> 0]]}
      BY <1>3 DEF FreezeHold
    <2>2. UserOf[c] # u
      BY <1>0, <2>1
    <2>3. balance[u] < held[u]
      BY <1>0, <2>1, <2>2
    <2>4. hold[c].state # "captured"
      BY <1>3 DEF HoldFollowsClaim, HoldStateFor
    <2>5. \A d \in Claims \ {c} : hold'[d] = hold[d]
      BY <1>0, <2>1
    <2> QED BY <1>1, <2>3, <2>4, <2>5
  <1>4. ASSUME NEW c \in Claims, NEW cost \in Costs \cup {0}, CaptureHold(c, cost),
               ~UNCHANGED walletVars
        PROVE  Overrun
    <2>1. /\ hold[c].state = "held"
          /\ hold' = [hold EXCEPT ![c].state = "captured", ![c].captured = cost]
          /\ balance' = [balance EXCEPT ![UserOf[c]] = @ - cost]
          /\ held' = [held EXCEPT ![UserOf[c]] = @ - hold[c].amount]
      BY <1>4 DEF CaptureHold
    <2>2. hold[c] \in HoldRow /\ hold[c].amount \in Costs \cup {0}
      BY <1>0 DEF HoldRow
    <2>3. cost \in Int /\ hold[c].amount \in Int
      BY <1>0, <2>2
    <2>4. /\ hold'[c].state = "captured" /\ hold'[c].captured = cost
          /\ hold'[c].amount = hold[c].amount
          /\ \A d \in Claims \ {c} : hold'[d] = hold[d]
      BY <1>0, <2>1, <2>2 DEF HoldRow
    <2>5. CASE UserOf[c] = u /\ cost > hold[c].amount
      BY <2>4, <2>5
    <2>6. CASE ~(UserOf[c] = u /\ cost > hold[c].amount)
      <3>1. balance[u] < held[u]
        BY <1>0, <2>1, <2>3, <2>6
      <3> QED BY <1>1, <2>1, <2>4, <3>1
    <2> QED BY <2>5, <2>6
  <1>5. ASSUME NEW c \in Claims, ReleaseHold(c), ~UNCHANGED walletVars PROVE Overrun
    <2>1. /\ hold[c].state = "held" /\ hold' = [hold EXCEPT ![c].state = "released"]
          /\ balance' = balance
          /\ held' = [held EXCEPT ![UserOf[c]] = @ - hold[c].amount]
      BY <1>5 DEF ReleaseHold
    <2>2. hold[c].amount \in Nat
      <3>1. hold[c].amount \in Costs \cup {0}
        BY <1>0 DEF HoldRow
      <3>2. Costs \cup {0} \subseteq Nat
        BY LedgerAssumption DEF LedgerAssumption
      <3> QED BY <3>1, <3>2
    <2>3. balance[u] < held[u]
      BY <1>0, <2>1, <2>2
    <2>4. \A d \in Claims \ {c} : hold'[d] = hold[d]
      BY <1>0, <2>1
    <2> QED BY <1>1, <2>1, <2>3, <2>4
  <1> QED BY <1>2, <1>3, <1>4, <1>5, WalletSteps

(***************************************************************************)
(* The wallet explains itself (WalletBooks), for any number of claims and   *)
(* users: what is held is the sum of the open holds, what has left the      *)
(* balance the sum of what was captured, and only a claim that cost more    *)
(* than was predicted leaves a wallet short of what it has frozen.          *)
(***************************************************************************)
THEOREM WalletsExplainThemselves == LedgerSpec => []WalletBooks
  <1>1. LedgerInit => OverdraftOnlyByOverrun
    BY LedgerAssumption DEF LedgerInit, LedgerAssumption, OverdraftOnlyByOverrun
  <1>2. WalletInv => WalletIsSumOfHolds
    BY DEF WalletInv, WalletIsSumOfHolds, Frozen, Charged
  <1>3. LedgerSpec => []OverdraftOnlyByOverrun
    BY <1>1, StepOverdraft, TypesHold, HoldsFollowClaims, PTL DEF LedgerSpec
  <1>4. LedgerSpec => []WalletInv
    BY InitWallet, StepWallet, TypesHold, HoldsFollowClaims, PTL DEF LedgerSpec
  <1>5. WalletIsSumOfHolds /\ OverdraftOnlyByOverrun => WalletBooks
    BY DEF WalletBooks
  <1> QED BY <1>2, <1>3, <1>4, <1>5, PTL

=============================================================================
