----------------------- MODULE SettlementPipeline_proof -----------------------
(***************************************************************************)
(* That the callers use the ledger as LedgerSpec allows, so that all that   *)
(* BillingLedger_proof shows of it holds of the pipeline.  LedgerSpec asks   *)
(* three things of a caller: a slot is acquired for an attempt that exists, *)
(* and a token is written, and settled, only of a slot acquired for the     *)
(* claim, at a cost that is one.  The recovery queue settles with what an   *)
(* intent or a request remembers, possibly of a process that is long dead:  *)
(* the invariant follows that memory.                                       *)
(***************************************************************************)
EXTENDS SettlementPipeline, BillingLedger_proof

-----------------------------------------------------------------------------
(* A request works on an attempt that exists.                               *)
Numbered ==
    /\ \A c \in Claims : claim[c].seq <= MaxSeq
    /\ \A r \in Requests :
          /\ req[r].seq <= claim[ClaimOf[r]].seq
          /\ req[r].pc \notin {"start", "done", "crashed"} => req[r].seq >= 1

(* A claim that is reserving has begun its first attempt.                   *)
Begun == \A c \in Claims : claim[c].status = "reserving" => claim[c].seq >= 1

(* From its acquisition on, the slot a request carries is of its claim.     *)
SlotIsOfClaim ==
    \A r \in Requests :
        req[r].pc \in {"acquired", "dispatched", "writing", "releasing"}
            => req[r].slot \in SlotsOf(ClaimOf[r])

(* What a settlement needs is known, and no later step of r changes it.     *)
Priced(r) ==
    /\ req[r].pc \in {"settling", "enqueue", "marking", "done", "crashed"}
    /\ req[r].cost \in Costs
    /\ req[r].slot \in SlotsOf(ClaimOf[r])

RequestsPriced ==
    \A r \in Requests :
        /\ req[r].pc \in {"settling", "enqueue"} => Priced(r)
        /\ req[r].pc = "marking" /\ req[r].mark # "settled" => Priced(r)
        /\ recovery[r] # "none" => Priced(r)

(* A tracker that has a version has a row, which names its request.         *)
OwnsRow ==
    \A r \in Requests :
        /\ req[r].version # -1 =>
              /\ req[r].seq >= 1
              /\ intent[ClaimOf[r]][req[r].seq].status # "absent"
              /\ intent[ClaimOf[r]][req[r].seq].owner = r
        /\ req[r].pc \in {"selecting", "acquired", "dispatched"} => req[r].version # -1

(* A request that marks its intent knows as what.                           *)
Marked == \A r \in Requests : req[r].pc = "marking" => req[r].mark # "none"

(* The payload on a failed intent, and on the sweeper's copy of one.        *)
RowPriced(row) == row.status = "failed" => row.owner \in Requests /\ Priced(row.owner)

FailedIsPriced ==
    /\ \A c \in Claims, q \in Attempts : RowPriced(intent[c][q])
    /\ intentSweeper # Idle => RowPriced(intentSweeper.row)

CallerInv ==
    /\ TypeOK /\ PipelineTypeOK
    /\ Numbered /\ Begun /\ SlotIsOfClaim /\ RequestsPriced /\ OwnsRow /\ Marked
    /\ FailedIsPriced

-----------------------------------------------------------------------------
(* Nothing is remembered at first.                                          *)
LEMMA InitCallers == PipelineInit => CallerInv
  <1> SUFFICES ASSUME PipelineInit PROVE CallerInv
    OBVIOUS
  <1>1. TypeOK
    BY InitTyped DEF PipelineInit
  <1>2. PipelineTypeOK
    BY PipelineAssumption DEF PipelineInit, PipelineTypeOK, PipelineAssumption, ReqRow, PC,
       IntentRow, IntentStatus, Attempts
  <1>3. Numbered
    BY PipelineAssumption, LedgerAssumption
       DEF PipelineInit, LedgerInit, Numbered, PipelineAssumption, LedgerAssumption
  <1>4. Begun /\ SlotIsOfClaim /\ RequestsPriced /\ OwnsRow /\ Marked /\ FailedIsPriced
    BY DEF PipelineInit, LedgerInit, Begun, SlotIsOfClaim, RequestsPriced, OwnsRow, Marked,
       FailedIsPriced, RowPriced
  <1> QED BY <1>1, <1>2, <1>3, <1>4 DEF CallerInv

-----------------------------------------------------------------------------
(***************************************************************************)
(* Every statement the callers issue is a transaction of the ledger, with   *)
(* arguments LedgerNext allows, or leaves the ledger alone.                 *)
(***************************************************************************)
LEMMA StepUsesLedger == CallerInv /\ [PipelineNext]_vars => [LedgerNext]_ledgerVars
  <1> SUFFICES ASSUME CallerInv, [PipelineNext]_vars PROVE [LedgerNext]_ledgerVars
    OBVIOUS
  <1> USE DEF NoLedgerStep
  <1>1. ASSUME NEW r \in Requests, RequestStep(r) PROVE [LedgerNext]_ledgerVars
    <2>0. ClaimOf[r] \in Claims /\ req[r] \in ReqRow
      BY PipelineAssumption DEF PipelineAssumption, CallerInv, PipelineTypeOK
    <2>1. CASE ReqReserve(r)
      BY <2>0, <2>1 DEF ReqReserve, LedgerNext
    <2>2. CASE ReqInsertPending(r) \/ ReqUpstreamFails(r) \/ ReqOpenGate(r) \/ ReqWrite(r)
               \/ ReqEnqueue(r) \/ ReqMark(r) \/ ReqAbortBegin(r) \/ ReqMarkAborted(r)
      BY <2>2 DEF ReqInsertPending, ReqUpstreamFails, ReqOpenGate, ReqWrite, ReqEnqueue,
         ReqMark, ReqAbortBegin, ReqMarkAborted
    <2>3. CASE ReqSelect(r)
      <3>1. CASE NoLedgerStep
        BY <3>1
      <3>2. ASSUME NEW s \in Slots, NEW a \in Accounts, req[r].pc = "selecting",
                   Acquire(s, ClaimOf[r], req[r].seq, a)
            PROVE  LedgerNext
        <4>1. req[r].seq \in 1..claim[ClaimOf[r]].seq
          <5>1. req[r].seq \in Nat /\ claim[ClaimOf[r]].seq \in Nat
            BY <2>0 DEF CallerInv, ReqRow, TypeOK, ClaimRow
          <5>2. req[r].seq >= 1 /\ req[r].seq <= claim[ClaimOf[r]].seq
            BY <3>2 DEF CallerInv, Numbered
          <5> QED BY <5>1, <5>2
        <4> QED BY <2>0, <3>2, <4>1 DEF LedgerNext
      <3>3. \/ NoLedgerStep
            \/ \E s \in Slots, a \in Accounts : Acquire(s, ClaimOf[r], req[r].seq, a)
        BY <2>3 DEF ReqSelect
      <3>4. req[r].pc = "selecting"
        BY <2>3 DEF ReqSelect
      <3> QED BY <3>1, <3>2, <3>3, <3>4
    <2>4. CASE ReqCacheHit(r)
      BY <2>0, <2>4 DEF ReqCacheHit, LedgerNext
    <2>5. CASE ReqWriteAcquisition(r)
      <3>1. req[r].slot \in SlotsOf(ClaimOf[r])
        BY <2>5 DEF ReqWriteAcquisition, CallerInv, SlotIsOfClaim
      <3> QED BY <2>0, <2>5, <3>1 DEF ReqWriteAcquisition, LedgerNext
    <2>6. CASE ReqReleaseSlot(r)
      <3>1. req[r].slot \in Slots
        BY <2>6 DEF ReqReleaseSlot, CallerInv, SlotIsOfClaim, SlotsOf
      <3> QED BY <2>6, <3>1 DEF ReqReleaseSlot, LedgerNext
    <2>7. CASE ReqSettle(r)
      <3>1. Priced(r)
        BY <2>7 DEF ReqSettle, CallerInv, RequestsPriced
      <3> QED BY <2>0, <2>7, <3>1 DEF ReqSettle, LedgerNext, Priced
    <2>8. CASE ReqAbortCommit(r)
      BY <2>0, <2>8 DEF ReqAbortCommit, LedgerNext
    <2> QED BY <1>1, <2>1, <2>2, <2>3, <2>4, <2>5, <2>6, <2>7, <2>8 DEF RequestStep
  <1>2. ASSUME NEW r \in Requests, Crash(r) PROVE [LedgerNext]_ledgerVars
    BY <1>2 DEF Crash
  <1>3. ASSUME NEW r \in Requests, Recover(r) PROVE [LedgerNext]_ledgerVars
    <2>1. Priced(r) /\ ClaimOf[r] \in Claims
      BY <1>3, PipelineAssumption DEF PipelineAssumption, Recover, CallerInv, RequestsPriced
    <2> QED BY <1>3, <2>1 DEF Recover, LedgerNext, Priced
  <1>4. ASSUME NEW c \in Claims, ExpireLease(c) \/ RecoverUsage(c)
        PROVE  [LedgerNext]_ledgerVars
    BY <1>4 DEF ExpireLease, RecoverUsage, LedgerNext
  <1>5. ASSUME NEW s \in Slots, SweepSlot(s) PROVE [LedgerNext]_ledgerVars
    BY <1>5 DEF SweepSlot, LedgerNext
  <1>6. CASE LateDelivering
    BY <1>6 DEF LateDelivering
  <1>7. CASE LeaseSweep
    <2>1. CASE SweepAbortCommit
      <3>1. abortTx[Sweeper].claim \in Claims
        BY <2>1 DEF SweepAbortCommit, CallerInv, PipelineTypeOK, Aborters
      <3> QED BY <2>1, <3>1 DEF SweepAbortCommit, LedgerNext
    <2> QED BY <1>7, <2>1 DEF LeaseSweep, SweepSelect, SweepAbortBegin
  <1>8. CASE IntentSweep
    BY <1>8 DEF IntentSweep, IntentList, IntentReadClaim, IntentCAS
  <1>9. CASE UNCHANGED vars
    BY <1>9 DEF vars
  <1> QED BY <1>1, <1>2, <1>3, <1>4, <1>5, <1>6, <1>7, <1>8, <1>9 DEF PipelineNext


-----------------------------------------------------------------------------
(* What a transaction may not take back from its callers.                   *)

(* Attempts only grow in number, within the bound.                          *)
LEMMA AttemptsGrow ==
    ASSUME TypeOK, \A c \in Claims : claim[c].seq <= MaxSeq, [LedgerNext]_ledgerVars,
           NEW d \in Claims
    PROVE  claim[d].seq <= claim'[d].seq /\ claim'[d].seq <= MaxSeq
  <1>0. claim[d] \in ClaimRow /\ claim[d].seq <= MaxSeq /\ MaxSeq \in Nat
    BY LedgerAssumption DEF TypeOK, LedgerAssumption
  <1>1. CASE UNCHANGED claim
    BY <1>0, <1>1 DEF ClaimRow
  <1>2. ASSUME NEW c \in Claims, NEW cost \in Costs, Reserve(c, cost)
        PROVE  claim[d].seq <= claim'[d].seq /\ claim'[d].seq <= MaxSeq
    BY <1>0, <1>2 DEF Reserve, TypeOK, ClaimRow
  <1>3. ASSUME claim'[d].seq = claim[d].seq
        PROVE  claim[d].seq <= claim'[d].seq /\ claim'[d].seq <= MaxSeq
    BY <1>0, <1>3 DEF ClaimRow
  <1>4. ASSUME NEW c \in Claims, NEW s \in SlotsOf(c), WriteAcquisition(c, s)
        PROVE  claim'[d].seq = claim[d].seq
    BY <1>0, <1>4 DEF WriteAcquisition, TypeOK, ClaimRow
  <1>5. ASSUME NEW c \in Claims, NEW s \in SlotsOf(c), NEW cost \in Costs, Settle(c, s, cost)
        PROVE  claim'[d].seq = claim[d].seq
    BY <1>0, <1>5 DEF Settle, TypeOK, ClaimRow
  <1>6. ASSUME NEW c \in Claims, Abort(c) PROVE claim'[d].seq = claim[d].seq
    BY <1>0, <1>6 DEF Abort, TypeOK, ClaimRow
  <1>7. ASSUME NEW c \in Claims, CommitCacheHit(c) PROVE claim'[d].seq = claim[d].seq
    BY <1>0, <1>7 DEF CommitCacheHit, TypeOK, ClaimRow
  <1>8. ASSUME NEW s \in Slots, NEW c \in Claims, NEW q \in 1..claim[c].seq,
               NEW a \in Accounts, Acquire(s, c, q, a)
        PROVE  UNCHANGED claim
    BY <1>8 DEF Acquire
  <1>9. ASSUME NEW c \in Claims, ReplayUsage(c) PROVE UNCHANGED claim
    BY <1>9 DEF ReplayUsage, ReplayLook, ReplayInsert, ReplayMark, NoUsageStep
  <1>10. ASSUME NEW s \in Slots, SelectorRelease(s) \/ SweepOrphanSlot(s)
         PROVE  UNCHANGED claim
    BY <1>10 DEF SelectorRelease, SweepOrphanSlot
  <1>11. CASE UNCHANGED ledgerVars
    BY <1>1, <1>11 DEF ledgerVars
  <1> QED
    BY <1>1, <1>2, <1>3, <1>4, <1>5, <1>6, <1>7, <1>8, <1>9, <1>10, <1>11 DEF LedgerNext

(* A slot stays of the claim it was acquired for.                           *)
LEMMA SlotsStay ==
    ASSUME TypeOK, [LedgerNext]_ledgerVars, NEW c \in Claims, NEW t \in SlotsOf(c)
    PROVE  t \in SlotsOf(c)'
  <1>0. t \in Slots /\ slot[t].state # "free" /\ slot[t].claim = c /\ slot[t] \in SlotRow
    <2>1. t \in Slots /\ slot[t].state # "free" /\ slot[t].claim = c
      BY DEF SlotsOf
    <2> QED BY <2>1 DEF TypeOK, FreeSlot
  <1>1. slot'[t].state # "free"
    BY <1>0, SlotsOnlyAge
  <1> DEFINE Same == slot'[t].claim = c
  <1>2. ASSUME UNCHANGED slot PROVE Same
    BY <1>0, <1>2
  <1>3. ASSUME NEW s \in Slots,
               NEW outcome \in {"released_success", "released_failure", "orphan_swept"},
               slot' = [slot EXCEPT ![s].state = outcome]
        PROVE  Same
    <2>1. slot' \in [Slots -> SlotRow \cup {FreeSlot}] /\ slot \in [Slots -> SlotRow \cup {FreeSlot}]
      BY StepTyped DEF TypeOK
    <2>2. slot'[t] = IF t = s THEN [slot[t] EXCEPT !.state = outcome] ELSE slot[t]
      BY <1>0, <1>3, <2>1
    <2> QED BY <1>0, <2>2 DEF SlotRow
  <1>4. ASSUME NEW s \in Slots,
               NEW outcome \in {"released_success", "released_failure", "orphan_swept"},
               ReleaseSlotAndDecrement(s, outcome)
        PROVE  Same
    BY <1>2, <1>3, <1>4 DEF ReleaseSlotAndDecrement, slotVars
  <1>5. ASSUME NEW s \in Slots, NEW d \in Claims, NEW q \in 1..claim[d].seq,
               NEW a \in Accounts, Acquire(s, d, q, a)
        PROVE  Same
    BY <1>0, <1>5 DEF Acquire, TypeOK
  <1>6. ASSUME NEW d \in Claims, NEW s \in SlotsOf(d), NEW cost \in Costs, Settle(d, s, cost)
        PROVE  Same
    BY <1>4, <1>6 DEF Settle, SlotsOf
  <1>7. ASSUME NEW d \in Claims, Abort(d) PROVE Same
    BY <1>2, <1>4, <1>7 DEF Abort, TypeOK, ClaimRow, slotVars
  <1>8. ASSUME NEW s \in Slots, SelectorRelease(s) PROVE Same
    BY <1>4, <1>8 DEF SelectorRelease
  <1>9. ASSUME NEW s \in Slots, SweepOrphanSlot(s) PROVE Same
    BY <1>3, <1>9 DEF SweepOrphanSlot
  <1>10. ASSUME \/ \E d \in Claims : \/ \E cost \in Costs : Reserve(d, cost)
                                     \/ \E s \in SlotsOf(d) : WriteAcquisition(d, s)
                                     \/ CommitCacheHit(d) \/ ReplayUsage(d)
                \/ UNCHANGED ledgerVars
         PROVE  Same
    BY <1>2, <1>10 DEF Reserve, WriteAcquisition, CommitCacheHit, ReplayUsage, ReplayLook, ReplayInsert, ReplayMark,
       NoUsageStep, slotVars,
       ledgerVars
  <1>11. Same
    BY <1>5, <1>6, <1>7, <1>8, <1>9, <1>10 DEF LedgerNext
  <1> QED BY <1>0, <1>1, <1>11 DEF SlotsOf

-----------------------------------------------------------------------------
(* Types.                                                                   *)

(* What a transition of an intent writes, and what it leaves alone.         *)
LEMMA IntentWritten ==
    ASSUME intent \in [Claims -> [Attempts -> IntentRow]],
           NEW c \in Claims, NEW q \in Attempts, NEW status \in IntentStatus,
           SetIntent(c, q, status)
    PROVE  /\ intent' \in [Claims -> [Attempts -> IntentRow]]
           /\ intent'[c][q].status = status
           /\ intent'[c][q].owner = intent[c][q].owner
           /\ \A d \in Claims, p \in Attempts :
                 d # c \/ p # q => intent'[d][p] = intent[d][p]
  <1> DEFINE row == [status |-> status, version |-> intent[c][q].version + 1,
                     owner |-> intent[c][q].owner]
             rows == [intent[c] EXCEPT ![q] = row]
  <1>1. intent[c] \in [Attempts -> IntentRow] /\ intent[c][q] \in IntentRow
    OBVIOUS
  <1>2. row \in IntentRow /\ row.status = status /\ row.owner = intent[c][q].owner
    BY <1>1 DEF IntentRow
  <1>3. intent' = [intent EXCEPT ![c] = rows]
    BY DEF SetIntent
  <1>4. rows \in [Attempts -> IntentRow] /\ rows[q] = row
        /\ \A p \in Attempts : p # q => rows[p] = intent[c][p]
    BY <1>1, <1>2
  <1> HIDE DEF row, rows
  <1> QED BY <1>2, <1>3, <1>4

(* The control state of every request keeps its type.                       *)
LEMMA RequestsTyped ==
    CallerInv /\ [PipelineNext]_vars => req' \in [Requests -> ReqRow]
  <1> SUFFICES ASSUME CallerInv, [PipelineNext]_vars PROVE req' \in [Requests -> ReqRow]
    OBVIOUS
  <1> DEFINE Typed == req' \in [Requests -> ReqRow]
  <1>0. req \in [Requests -> ReqRow]
    BY DEF CallerInv, PipelineTypeOK
  <1>1. ASSUME UNCHANGED req PROVE Typed
    BY <1>0, <1>1
  <1>2. ASSUME NEW r \in Requests, NEW pc \in PC, Goto(r, pc) PROVE Typed
    BY <1>0, <1>2 DEF Goto, ReqRow
  <1>3. ASSUME NEW r \in Requests, NEW pc \in PC, NEW next \in {"start", "done"},
               req' = [req EXCEPT ![r].pc = pc, ![r].then = next]
        PROVE  Typed
    <2>1. [req[r] EXCEPT !.pc = pc, !.then = next] \in ReqRow
      BY <1>0 DEF ReqRow
    <2>2. req' = [req EXCEPT ![r] = [req[r] EXCEPT !.pc = pc, !.then = next]]
      BY <1>0, <1>3
    <2> QED BY <1>0, <2>1, <2>2
  <1>4. ASSUME NEW r \in Requests, RequestStep(r) PROVE Typed
    <2>0. ClaimOf[r] \in Claims /\ req[r] \in ReqRow
      BY <1>0, PipelineAssumption DEF PipelineAssumption
    <2>1. CASE ReqReserve(r)
      <3>1. claim[ClaimOf[r]].seq + 1 \in Nat
        BY <2>0 DEF CallerInv, TypeOK, ClaimRow
      <3>2. CASE Goto(r, "done")
        BY <1>2, <3>2 DEF PC
      <3>3. CASE req' = [req EXCEPT ![r].pc = "reserved", ![r].seq = claim[ClaimOf[r]].seq + 1,
                                      ![r].slot = NoSlot, ![r].version = -1,
                                      ![r].tries = @ + 1]
        <4> DEFINE row == [req[r] EXCEPT !.pc = "reserved", !.seq = claim[ClaimOf[r]].seq + 1,
                                         !.slot = NoSlot, !.version = -1, !.tries = @ + 1]
        <4>1. req[r].tries + 1 \in Nat
          BY <2>0 DEF ReqRow
        <4>2. row \in ReqRow
          BY <2>0, <3>1, <4>1 DEF ReqRow, PC
        <4>3. req' = [req EXCEPT ![r] = row]
          BY <1>0, <3>3
        <4> HIDE DEF row
        <4> QED BY <1>0, <4>2, <4>3
      <3> QED BY <2>1, <3>2, <3>3 DEF ReqReserve
    <2>2. CASE ReqInsertPending(r)
      <3>1. CASE req' = [req EXCEPT ![r].pc = "selecting", ![r].version = 0]
        <4>1. [req[r] EXCEPT !.pc = "selecting", !.version = 0] \in ReqRow
          BY <2>0 DEF ReqRow, PC
        <4>2. req' = [req EXCEPT ![r] = [req[r] EXCEPT !.pc = "selecting", !.version = 0]]
          BY <1>0, <3>1
        <4> QED BY <1>0, <4>1, <4>2
      <3> QED BY <1>3, <2>2, <3>1 DEF ReqInsertPending, PC
    <2>3. CASE ReqSelect(r)
      <3>1. ASSUME NEW s \in Slots, req' = [req EXCEPT ![r].pc = "acquired", ![r].slot = s]
            PROVE  Typed
        <4>1. [req[r] EXCEPT !.pc = "acquired", !.slot = s] \in ReqRow
          BY <2>0 DEF ReqRow, PC
        <4>2. req' = [req EXCEPT ![r] = [req[r] EXCEPT !.pc = "acquired", !.slot = s]]
          BY <1>0, <3>1
        <4> QED BY <1>0, <4>1, <4>2
      <3> QED BY <1>3, <2>3, <3>1 DEF ReqSelect, PC
    <2>4. CASE ReqCacheHit(r) \/ ReqSettle(r) \/ ReqEnqueue(r)
      <3>1. ASSUME NEW mark \in {"settled", "settling", "failed"},
                   req' = [req EXCEPT ![r].pc = "marking", ![r].mark = mark]
            PROVE  Typed
        <4>1. [req[r] EXCEPT !.pc = "marking", !.mark = mark] \in ReqRow
          BY <2>0 DEF ReqRow, PC
        <4>2. req' = [req EXCEPT ![r] = [req[r] EXCEPT !.pc = "marking", !.mark = mark]]
          BY <1>0, <3>1
        <4> QED BY <1>0, <4>1, <4>2
      <3> QED BY <1>2, <1>3, <2>4, <3>1 DEF ReqCacheHit, ReqSettle, ReqEnqueue, PC
    <2>5. CASE ReqWriteAcquisition(r)
      BY <1>2, <2>5 DEF ReqWriteAcquisition, PC
    <2>6. CASE ReqReleaseSlot(r) \/ ReqUpstreamFails(r)
      BY <1>3, <2>6 DEF ReqReleaseSlot, ReqUpstreamFails, PC
    <2>7. CASE ReqOpenGate(r)
      <3>1. CASE /\ intent[ClaimOf[r]][req[r].seq].version = req[r].version
                 /\ req' = [req EXCEPT ![r].pc = "writing", ![r].version = @ + 1]
        <4>1. req[r].version + 1 \in Nat
          BY <2>0 DEF ReqRow
        <4> QED BY <1>0, <3>1, <4>1 DEF ReqRow, PC
      <3> QED BY <1>3, <2>7, <3>1 DEF ReqOpenGate, PC
    <2>8. CASE ReqWrite(r)
      <3>1. ASSUME NEW cost \in Costs,
                   req' = [req EXCEPT ![r].pc = "settling", ![r].cost = cost]
            PROVE  Typed
        <4>1. [req[r] EXCEPT !.pc = "settling", !.cost = cost] \in ReqRow
          BY <2>0 DEF ReqRow, PC
        <4>2. req' = [req EXCEPT ![r] = [req[r] EXCEPT !.pc = "settling", !.cost = cost]]
          BY <1>0, <3>1
        <4> QED BY <1>0, <4>1, <4>2
      <3> QED BY <1>3, <2>8, <3>1 DEF ReqWrite, PC
    <2>9. CASE ReqMark(r) \/ ReqAbortBegin(r) \/ ReqAbortCommit(r)
      BY <1>1, <1>2, <2>9 DEF ReqMark, ReqAbortBegin, ReqAbortCommit, PC
    <2>10. CASE ReqMarkAborted(r)
      <3>1. req[r].then \in PC
        BY <2>0 DEF ReqRow, PC
      <3> QED BY <1>2, <2>10, <3>1 DEF ReqMarkAborted, PC
    <2> QED BY <1>4, <2>1, <2>2, <2>3, <2>4, <2>5, <2>6, <2>7, <2>8, <2>9, <2>10
            DEF RequestStep
  <1>5. ASSUME NEW r \in Requests, Crash(r) PROVE Typed
    BY <1>2, <1>5 DEF Crash, PC
  <1>6. ASSUME \/ \E r \in Requests : Recover(r)
               \/ \E c \in Claims : ExpireLease(c) \/ RecoverUsage(c)
               \/ \E s \in Slots : SweepSlot(s)
               \/ LateDelivering \/ LeaseSweep \/ IntentSweep \/ UNCHANGED vars
        PROVE  UNCHANGED req
    BY <1>6 DEF Recover, ExpireLease, RecoverUsage, SweepSlot, LateDelivering, LeaseSweep,
       SweepSelect, SweepAbortBegin, SweepAbortCommit, IntentSweep, IntentList,
       IntentReadClaim, IntentCAS, pipelineVars, vars
  <1> QED BY <1>1, <1>4, <1>5, <1>6 DEF PipelineNext

(* A running request works on an attempt that has a place in the tables.    *)
LEMMA AttemptExists ==
    ASSUME CallerInv, NEW r \in Requests, req[r].pc \notin {"start", "done", "crashed"}
    PROVE  ClaimOf[r] \in Claims /\ req[r].seq \in Attempts
  <1>1. ClaimOf[r] \in Claims /\ req[r] \in ReqRow
    BY PipelineAssumption DEF PipelineAssumption, CallerInv, PipelineTypeOK
  <1>2. req[r].seq \in Nat /\ claim[ClaimOf[r]].seq \in Nat /\ MaxSeq \in Nat
    BY <1>1, LedgerAssumption DEF CallerInv, ReqRow, TypeOK, ClaimRow, LedgerAssumption
  <1>3. /\ req[r].seq >= 1 /\ req[r].seq <= claim[ClaimOf[r]].seq
        /\ claim[ClaimOf[r]].seq <= MaxSeq
    BY <1>1 DEF CallerInv, Numbered
  <1> QED BY <1>1, <1>2, <1>3 DEF Attempts

(* The evidence rows keep their type.                                       *)
LEMMA IntentsTyped ==
    CallerInv /\ [PipelineNext]_vars => intent' \in [Claims -> [Attempts -> IntentRow]]
  <1> SUFFICES ASSUME CallerInv, [PipelineNext]_vars
               PROVE  intent' \in [Claims -> [Attempts -> IntentRow]]
    OBVIOUS
  <1> DEFINE Typed == intent' \in [Claims -> [Attempts -> IntentRow]]
  <1>0. intent \in [Claims -> [Attempts -> IntentRow]]
    BY DEF CallerInv, PipelineTypeOK
  <1>1. ASSUME UNCHANGED intent PROVE Typed
    BY <1>0, <1>1
  <1>2. ASSUME NEW c \in Claims, NEW q \in Attempts, NEW status \in IntentStatus,
               SetIntent(c, q, status)
        PROVE  Typed
    BY <1>0, <1>2, IntentWritten
  <1>3. ASSUME NEW r \in Requests, ReqInsertPending(r) PROVE Typed
    <2>1. ClaimOf[r] \in Claims /\ req[r].seq \in Attempts
      BY <1>3, AttemptExists DEF ReqInsertPending
    <2>2. [status |-> "pending", version |-> 0, owner |-> r] \in IntentRow
      BY DEF IntentRow, IntentStatus
    <2>3. \/ UNCHANGED intent
          \/ intent' = [intent EXCEPT ![ClaimOf[r]][req[r].seq] =
                           [status |-> "pending", version |-> 0, owner |-> r]]
      BY <1>3 DEF ReqInsertPending
    <2> QED BY <1>0, <2>1, <2>2, <2>3
  <1>4. ASSUME NEW r \in Requests, ReqOpenGate(r) PROVE Typed
    <2>1. ClaimOf[r] \in Claims /\ req[r].seq \in Attempts
      BY <1>4, AttemptExists DEF ReqOpenGate
    <2>2. SetIntent(ClaimOf[r], req[r].seq, "delivering") \/ UNCHANGED intent
      BY <1>4 DEF ReqOpenGate
    <2> QED BY <1>1, <1>2, <2>1, <2>2 DEF IntentStatus
  <1>5. ASSUME NEW r \in Requests, ReqMark(r) \/ ReqMarkAborted(r) PROVE Typed
    <2>1. ClaimOf[r] \in Claims /\ req[r].seq \in Attempts
      BY <1>5, AttemptExists DEF ReqMark, ReqMarkAborted
    <2>2. req[r].mark \in {"none", "settled", "settling", "failed"}
      BY DEF CallerInv, PipelineTypeOK, ReqRow
    <2>3. CASE req[r].mark = "none" /\ ReqMark(r)
      BY <2>3 DEF CallerInv, Marked, ReqMark
    <2>4. CASE req[r].mark # "none" \/ ReqMarkAborted(r)
      <3>1. \/ UNCHANGED intent
            \/ SetIntent(ClaimOf[r], req[r].seq, req[r].mark) /\ req[r].mark # "none"
            \/ SetIntent(ClaimOf[r], req[r].seq, "aborted")
        BY <1>5, <2>4 DEF ReqMark, ReqMarkAborted, TrackerMark
      <3> QED BY <1>1, <1>2, <2>1, <2>2, <3>1 DEF IntentStatus
    <2> QED BY <1>5, <2>3, <2>4
  <1>6. CASE LateDelivering
    <2>1. PICK e \in late : \/ SetIntent(e.claim, e.seq, "delivering")
                            \/ UNCHANGED intent
      BY <1>6 DEF LateDelivering
    <2>2. e.claim \in Claims /\ e.seq \in Attempts
      BY DEF CallerInv, PipelineTypeOK
    <2> QED BY <1>1, <1>2, <2>1, <2>2 DEF IntentStatus
  <1>7. CASE IntentSweep
    <2>1. CASE IntentCAS
      <3>1. /\ intentSweeper.claim \in Claims /\ intentSweeper.seq \in Attempts
            /\ intentSweeper.mark \in {"settling"} \cup Terminal
        BY <2>1 DEF IntentCAS, CallerInv, PipelineTypeOK
      <3>2. \/ SetIntent(intentSweeper.claim, intentSweeper.seq, intentSweeper.mark)
            \/ UNCHANGED intent
        BY <2>1 DEF IntentCAS
      <3> QED BY <1>1, <1>2, <3>1, <3>2 DEF IntentStatus, Terminal
    <2> QED BY <1>1, <1>7, <2>1 DEF IntentSweep, IntentList, IntentReadClaim
  <1>8. ASSUME NEW r \in Requests,
               \/ ReqReserve(r) \/ ReqSelect(r) \/ ReqCacheHit(r) \/ ReqWriteAcquisition(r)
               \/ ReqReleaseSlot(r) \/ ReqUpstreamFails(r) \/ ReqWrite(r) \/ ReqSettle(r)
               \/ ReqEnqueue(r) \/ ReqAbortBegin(r) \/ ReqAbortCommit(r)
               \/ Crash(r) \/ Recover(r)
        PROVE  UNCHANGED intent
    BY <1>8 DEF ReqReserve, ReqSelect, ReqCacheHit, ReqWriteAcquisition, ReqReleaseSlot,
       ReqUpstreamFails, ReqWrite, ReqSettle, ReqEnqueue, ReqAbortBegin, ReqAbortCommit,
       Crash, Recover
  <1>9. ASSUME \/ \E c \in Claims : ExpireLease(c) \/ RecoverUsage(c)
               \/ \E s \in Slots : SweepSlot(s)
               \/ LeaseSweep \/ UNCHANGED vars
        PROVE  UNCHANGED intent
    BY <1>9 DEF ExpireLease, RecoverUsage, SweepSlot, LeaseSweep, SweepSelect,
       SweepAbortBegin, SweepAbortCommit, pipelineVars, vars
  <1> QED BY <1>1, <1>3, <1>4, <1>5, <1>6, <1>7, <1>8, <1>9 DEF PipelineNext, RequestStep

(* Writes in flight, recovery rows and delivered attempts keep their types. *)
LEMMA MemoryTyped ==
    CallerInv /\ [PipelineNext]_vars =>
        /\ late' \subseteq [claim : Claims, seq : Attempts, version : Nat]
        /\ recovery' \in [Requests -> {"none", "pending", "delivered"}]
        /\ delivered' \subseteq Claims \X Attempts
        /\ expired' \in [Claims -> BOOLEAN]
  <1> SUFFICES ASSUME CallerInv, [PipelineNext]_vars
               PROVE  /\ late' \subseteq [claim : Claims, seq : Attempts, version : Nat]
                      /\ recovery' \in [Requests -> {"none", "pending", "delivered"}]
                      /\ delivered' \subseteq Claims \X Attempts
                      /\ expired' \in [Claims -> BOOLEAN]
    OBVIOUS
  <1> DEFINE Typed == /\ late' \subseteq [claim : Claims, seq : Attempts, version : Nat]
                      /\ recovery' \in [Requests -> {"none", "pending", "delivered"}]
                      /\ delivered' \subseteq Claims \X Attempts
                      /\ expired' \in [Claims -> BOOLEAN]
  <1>0. /\ late \subseteq [claim : Claims, seq : Attempts, version : Nat]
        /\ recovery \in [Requests -> {"none", "pending", "delivered"}]
        /\ delivered \subseteq Claims \X Attempts
        /\ expired \in [Claims -> BOOLEAN]
    BY DEF CallerInv, PipelineTypeOK
  <1>1. ASSUME NEW r \in Requests, RequestStep(r) PROVE Typed
    <2>0. ClaimOf[r] \in Claims
      BY PipelineAssumption DEF PipelineAssumption
    <2>1. CASE ReqReserve(r)
      BY <1>0, <2>0, <2>1 DEF ReqReserve
    <2>2. CASE ReqOpenGate(r)
      <3>1. req[r].seq \in Attempts
        BY <2>2, AttemptExists DEF ReqOpenGate
      <3>2. req[r].version \in Nat
        BY <2>2 DEF ReqOpenGate, CallerInv, OwnsRow, PipelineTypeOK, ReqRow
      <3>3. UNCHANGED <<recovery, delivered, expired>>
        BY <2>2 DEF ReqOpenGate
      <3>4. late' \subseteq late \cup
                {[claim |-> ClaimOf[r], seq |-> req[r].seq, version |-> req[r].version]}
        BY <2>2 DEF ReqOpenGate
      <3> QED BY <1>0, <2>0, <3>1, <3>2, <3>3, <3>4
    <2>3. CASE ReqWrite(r)
      <3>1. req[r].seq \in Attempts
        BY <2>3, AttemptExists DEF ReqWrite
      <3> QED BY <1>0, <2>0, <2>3, <3>1 DEF ReqWrite
    <2>4. CASE ReqEnqueue(r)
      BY <1>0, <2>4 DEF ReqEnqueue, Publish
    <2>5. CASE ReqAbortCommit(r)
      <3>1. \/ UNCHANGED expired
            \/ \E c : expired' = [expired EXCEPT ![c] = TRUE]
        BY <2>5 DEF ReqAbortCommit, Expedite
      <3> QED BY <1>0, <2>5, <3>1 DEF ReqAbortCommit
    <2>6. CASE \/ ReqInsertPending(r) \/ ReqSelect(r) \/ ReqCacheHit(r)
               \/ ReqWriteAcquisition(r) \/ ReqReleaseSlot(r) \/ ReqUpstreamFails(r)
               \/ ReqSettle(r) \/ ReqMark(r) \/ ReqAbortBegin(r) \/ ReqMarkAborted(r)
      <3>1. UNCHANGED <<late, recovery, delivered, expired>>
        BY <2>6 DEF ReqInsertPending, ReqSelect, ReqCacheHit, ReqWriteAcquisition,
           ReqReleaseSlot, ReqUpstreamFails, ReqSettle, ReqMark, ReqAbortBegin, ReqMarkAborted
      <3> QED BY <1>0, <3>1
    <2> QED BY <1>1, <2>1, <2>2, <2>3, <2>4, <2>5, <2>6 DEF RequestStep
  <1>2. ASSUME NEW r \in Requests, Recover(r) PROVE Typed
    BY <1>0, <1>2 DEF Recover
  <1>3. ASSUME NEW c \in Claims, ExpireLease(c) PROVE Typed
    BY <1>0, <1>3 DEF ExpireLease
  <1>4. CASE LateDelivering
    BY <1>0, <1>4 DEF LateDelivering
  <1>5. CASE LeaseSweep
    <2>1. \/ UNCHANGED expired
          \/ \E c : expired' = [expired EXCEPT ![c] = TRUE]
      BY <1>5 DEF LeaseSweep, SweepSelect, SweepAbortBegin, SweepAbortCommit, Expedite
    <2>2. UNCHANGED <<late, recovery, delivered>>
      BY <1>5 DEF LeaseSweep, SweepSelect, SweepAbortBegin, SweepAbortCommit
    <2> QED BY <1>0, <2>1, <2>2
  <1>6. CASE IntentSweep
    <2>1. CASE IntentReadClaim
      <3>1. UNCHANGED recovery \/ \E r : Publish(r)
        BY <2>1 DEF IntentReadClaim
      <3> QED BY <1>0, <2>1, <3>1 DEF IntentReadClaim, Publish
    <2>2. CASE IntentCAS \/ \E c \in Claims, q \in Attempts : IntentList(c, q)
      BY <1>0, <2>2 DEF IntentCAS, IntentList, Listed
    <2> QED BY <1>6, <2>1, <2>2 DEF IntentSweep
  <1>7. ASSUME \/ \E r \in Requests : Crash(r)
               \/ \E c \in Claims : RecoverUsage(c)
               \/ \E s \in Slots : SweepSlot(s)
               \/ UNCHANGED vars
        PROVE  Typed
    <2>1. UNCHANGED <<late, recovery, delivered, expired>>
      BY <1>7 DEF Crash, RecoverUsage, SweepSlot, pipelineVars, vars
    <2> QED BY <1>0, <2>1
  <1> QED BY <1>1, <1>2, <1>3, <1>4, <1>5, <1>6, <1>7 DEF PipelineNext

(* So do the transactions and the sweepers between two statements.          *)
LEMMA SweepersTyped ==
    CallerInv /\ [PipelineNext]_vars =>
        /\ abortTx' \in [Aborters -> {Idle} \cup [claim : Claims, row : ClaimRow]]
        /\ leaseSweeper' \in {Idle} \cup [claim : Claims, seq : Attempts]
        /\ intentSweeper' \in {Idle} \cup
              [claim : Claims, seq : Attempts, row : IntentRow,
               mark : {"none", "settling"} \cup Terminal]
  <1> SUFFICES ASSUME CallerInv, [PipelineNext]_vars
               PROVE  /\ abortTx' \in [Aborters -> {Idle} \cup [claim : Claims, row : ClaimRow]]
                      /\ leaseSweeper' \in {Idle} \cup [claim : Claims, seq : Attempts]
                      /\ intentSweeper' \in {Idle} \cup
                            [claim : Claims, seq : Attempts, row : IntentRow,
                             mark : {"none", "settling"} \cup Terminal]
    OBVIOUS
  <1> DEFINE TxTyped == abortTx' \in [Aborters -> {Idle} \cup [claim : Claims, row : ClaimRow]]
             LeaseTyped == leaseSweeper' \in {Idle} \cup [claim : Claims, seq : Attempts]
             IntentSweeperTyped ==
                intentSweeper' \in {Idle} \cup
                   [claim : Claims, seq : Attempts, row : IntentRow,
                    mark : {"none", "settling"} \cup Terminal]
             Typed == TxTyped /\ LeaseTyped /\ IntentSweeperTyped
  <1>0. /\ abortTx \in [Aborters -> {Idle} \cup [claim : Claims, row : ClaimRow]]
        /\ leaseSweeper \in {Idle} \cup [claim : Claims, seq : Attempts]
        /\ intentSweeper \in {Idle} \cup
              [claim : Claims, seq : Attempts, row : IntentRow,
               mark : {"none", "settling"} \cup Terminal]
    BY DEF CallerInv, PipelineTypeOK
  <1>1. ASSUME NEW w \in Aborters, NEW c \in Claims, AbortBegin(w, c) PROVE TxTyped
    <2>1. claim[c] \in ClaimRow
      BY DEF CallerInv, TypeOK
    <2> QED BY <1>0, <1>1, <2>1 DEF AbortBegin
  <1>2. ASSUME NEW w \in Aborters, AbortEnd(w) PROVE TxTyped
    BY <1>0, <1>2 DEF AbortEnd
  <1>3. ASSUME UNCHANGED abortTx PROVE TxTyped
    BY <1>0, <1>3
  <1>4. ASSUME NEW r \in Requests, RequestStep(r) \/ Crash(r) PROVE Typed
    <2>0. r \in Aborters /\ ClaimOf[r] \in Claims
      BY PipelineAssumption DEF PipelineAssumption, Aborters
    <2>1. CASE ReqAbortBegin(r)
      <3>1. TxTyped
        BY <1>1, <1>3, <2>0, <2>1 DEF ReqAbortBegin
      <3> QED BY <1>0, <2>1, <3>1 DEF ReqAbortBegin, NoSweep
    <2>2. CASE ReqAbortCommit(r) \/ Crash(r)
      <3>1. TxTyped
        BY <1>2, <2>0, <2>2 DEF ReqAbortCommit, Crash
      <3> QED BY <1>0, <2>2, <3>1 DEF ReqAbortCommit, Crash, NoSweep
    <2>3. CASE \/ ReqReserve(r) \/ ReqInsertPending(r) \/ ReqSelect(r) \/ ReqCacheHit(r)
               \/ ReqWriteAcquisition(r) \/ ReqReleaseSlot(r) \/ ReqUpstreamFails(r)
               \/ ReqOpenGate(r) \/ ReqWrite(r) \/ ReqSettle(r) \/ ReqEnqueue(r)
               \/ ReqMark(r) \/ ReqMarkAborted(r)
      <3>1. UNCHANGED <<abortTx, leaseSweeper, intentSweeper>>
        BY <2>3 DEF ReqReserve, ReqInsertPending, ReqSelect, ReqCacheHit,
           ReqWriteAcquisition, ReqReleaseSlot, ReqUpstreamFails, ReqOpenGate, ReqWrite,
           ReqSettle, ReqEnqueue, ReqMark, ReqMarkAborted, NoSweep
      <3> QED BY <1>0, <3>1
    <2> QED BY <1>4, <2>1, <2>2, <2>3 DEF RequestStep
  <1>5. ASSUME NEW c \in Claims, SweepSelect(c) PROVE Typed
    <2>1. claim[c].seq \in Attempts
      <3>1. claim[c] \in ClaimRow /\ claim[c].seq <= MaxSeq /\ MaxSeq \in Nat
        BY LedgerAssumption DEF CallerInv, TypeOK, Numbered, LedgerAssumption
      <3>2. claim[c].seq >= 1
        BY <1>5 DEF SweepSelect, CallerInv, Begun
      <3> QED BY <3>1, <3>2 DEF ClaimRow, Attempts
    <2>2. UNCHANGED <<abortTx, intentSweeper>>
          /\ leaseSweeper' = [claim |-> c, seq |-> claim[c].seq]
      BY <1>5 DEF SweepSelect
    <2> QED BY <1>0, <2>1, <2>2
  <1>6. CASE SweepAbortBegin
    <2>0. leaseSweeper.claim \in Claims /\ Sweeper \in Aborters
      BY <1>0, <1>6 DEF SweepAbortBegin, Aborters
    <2>1. TxTyped
      BY <1>1, <1>3, <1>6, <2>0 DEF SweepAbortBegin
    <2>2. leaseSweeper' \in {leaseSweeper, Idle} /\ UNCHANGED intentSweeper
      BY <1>6 DEF SweepAbortBegin
    <2> QED BY <1>0, <2>1, <2>2
  <1>7. CASE SweepAbortCommit
    <2>1. TxTyped
      BY <1>2, <1>7 DEF SweepAbortCommit, Aborters
    <2>2. leaseSweeper' \in {leaseSweeper, Idle} /\ UNCHANGED intentSweeper
      BY <1>7 DEF SweepAbortCommit
    <2> QED BY <1>0, <2>1, <2>2
  <1>8. ASSUME NEW c \in Claims, NEW q \in Attempts, IntentList(c, q) PROVE Typed
    <2>1. intent[c][q] \in IntentRow
      BY DEF CallerInv, PipelineTypeOK
    <2>2. /\ UNCHANGED <<abortTx, leaseSweeper>>
          /\ intentSweeper' = [claim |-> c, seq |-> q, row |-> intent[c][q], mark |-> "none"]
      BY <1>8 DEF IntentList, Listed
    <2> QED BY <1>0, <2>1, <2>2
  <1>9. CASE IntentReadClaim
    <2>1. UNCHANGED <<abortTx, leaseSweeper>>
      BY <1>9 DEF IntentReadClaim
    <2>2. CASE intentSweeper' = Idle
      BY <1>0, <2>1, <2>2
    <2>3. ASSUME NEW mark \in {"settling"} \cup Terminal,
                 intentSweeper' = [intentSweeper EXCEPT !.mark = mark]
          PROVE  Typed
      <3>1. intentSweeper # Idle
        BY <1>9 DEF IntentReadClaim
      <3> QED BY <1>0, <2>1, <2>3, <3>1
    <2> QED BY <1>9, <2>2, <2>3 DEF IntentReadClaim
  <1>10. CASE IntentCAS
    BY <1>0, <1>10 DEF IntentCAS
  <1>11. ASSUME \/ \E r \in Requests : Recover(r)
                \/ \E c \in Claims : ExpireLease(c) \/ RecoverUsage(c)
                \/ \E s \in Slots : SweepSlot(s)
                \/ LateDelivering \/ UNCHANGED vars
         PROVE  Typed
    <2>1. UNCHANGED <<abortTx, leaseSweeper, intentSweeper>>
      BY <1>11 DEF Recover, ExpireLease, RecoverUsage, SweepSlot, LateDelivering, NoSweep,
         pipelineVars, vars
    <2> QED BY <1>0, <2>1
  <1> QED BY <1>4, <1>5, <1>6, <1>7, <1>8, <1>9, <1>10, <1>11
          DEF PipelineNext, LeaseSweep, IntentSweep

-----------------------------------------------------------------------------
(* What one request may rely on, all of it together.                        *)
RequestInv(r) ==
    /\ req[r].seq <= claim[ClaimOf[r]].seq
    /\ req[r].pc \notin {"start", "done", "crashed"} => req[r].seq >= 1
    /\ req[r].pc \in {"acquired", "dispatched", "writing", "releasing"}
          => req[r].slot \in SlotsOf(ClaimOf[r])
    /\ req[r].pc \in {"settling", "enqueue"} => Priced(r)
    /\ req[r].pc = "marking" => req[r].mark # "none"
    /\ req[r].pc = "marking" /\ req[r].mark # "settled" => Priced(r)
    /\ recovery[r] # "none" => Priced(r)
    /\ req[r].pc \in {"selecting", "acquired", "dispatched"} => req[r].version # -1

LEMMA RequestByRequest ==
    /\ CallerInv => \A r \in Requests : RequestInv(r)
    /\ (\A r \in Requests : RequestInv(r)) =>
          /\ SlotIsOfClaim /\ RequestsPriced /\ Marked
          /\ \A r \in Requests :
                /\ req[r].seq <= claim[ClaimOf[r]].seq
                /\ req[r].pc \notin {"start", "done", "crashed"} => req[r].seq >= 1
                /\ req[r].pc \in {"selecting", "acquired", "dispatched"}
                      => req[r].version # -1
  BY DEF CallerInv, RequestInv, Numbered, SlotIsOfClaim, RequestsPriced, Marked, OwnsRow

(* A request nobody moves loses nothing by what the ledger does.            *)
LEMMA RestingRequest ==
    ASSUME CallerInv, [LedgerNext]_ledgerVars, NEW r \in Requests,
           req'[r] = req[r], recovery'[r] # "none" => Priced(r)
    PROVE  RequestInv(r)'
  <1>0. ClaimOf[r] \in Claims /\ req[r] \in ReqRow
    BY PipelineAssumption DEF PipelineAssumption, CallerInv, PipelineTypeOK
  <1>1. RequestInv(r)
    BY RequestByRequest
  <1>2. req[r].seq <= claim'[ClaimOf[r]].seq
    <2>1. claim[ClaimOf[r]].seq <= claim'[ClaimOf[r]].seq
      BY <1>0, AttemptsGrow DEF CallerInv, Numbered
    <2>2. claim[ClaimOf[r]].seq \in Nat /\ claim'[ClaimOf[r]].seq \in Nat /\ req[r].seq \in Nat
      BY <1>0, StepTyped DEF CallerInv, TypeOK, ClaimRow, ReqRow
    <2> QED BY <1>1, <2>1, <2>2 DEF RequestInv
  <1>3. req[r].slot \in SlotsOf(ClaimOf[r]) => req[r].slot \in SlotsOf(ClaimOf[r])'
    BY <1>0, SlotsStay DEF CallerInv
  <1>4. Priced(r) => Priced(r)'
    BY <1>3 DEF Priced
  <1> QED BY <1>1, <1>2, <1>3, <1>4 DEF RequestInv

(* A request that moves on takes along what its next statement needs.       *)
LEMMA MovingRequest ==
    ASSUME CallerInv, [LedgerNext]_ledgerVars, NEW r \in Requests,
           RequestStep(r) \/ Crash(r)
    PROVE  RequestInv(r)'
  <1> DEFINE c == ClaimOf[r]
             Closing == {"settling", "enqueue", "marking", "done", "crashed"}
  <1>0. c \in Claims /\ req[r] \in ReqRow /\ RequestInv(r)
        /\ req \in [Requests -> ReqRow] /\ recovery \in [Requests -> {"none", "pending", "delivered"}]
    BY RequestByRequest, PipelineAssumption
       DEF PipelineAssumption, CallerInv, PipelineTypeOK
  <1>1. claim[c].seq \in Nat /\ claim'[c].seq \in Nat /\ req[r].seq \in Nat
        /\ claim[c].seq <= claim'[c].seq
    BY <1>0, StepTyped, AttemptsGrow DEF CallerInv, Numbered, TypeOK, ClaimRow, ReqRow
  <1>2. req[r].slot \in SlotsOf(c) => req[r].slot \in SlotsOf(c)'
    BY <1>0, SlotsStay DEF CallerInv
  <1>3. req[r].seq <= claim'[c].seq
        /\ (req[r].pc \notin {"start", "done", "crashed"} => req[r].seq >= 1)
    BY <1>0, <1>1 DEF RequestInv
  <1> DEFINE Carries(pc) ==
         /\ req'[r].pc = pc
         /\ req'[r].seq = req[r].seq /\ req'[r].slot = req[r].slot
         /\ req'[r].cost = req[r].cost /\ req'[r].version = req[r].version
  <1>4. ASSUME NEW pc, Goto(r, pc) PROVE Carries(pc) /\ req'[r].mark = req[r].mark
    BY <1>0, <1>4 DEF Goto, ReqRow
  <1>5. ASSUME NEW pc, NEW next, req' = [req EXCEPT ![r].pc = pc, ![r].then = next]
        PROVE  Carries(pc)
    <2>1. req' = [req EXCEPT ![r] = [req[r] EXCEPT !.pc = pc, !.then = next]]
      BY <1>0, <1>5
    <2> QED BY <1>0, <2>1 DEF ReqRow
  <1>6. ASSUME NEW mark, req' = [req EXCEPT ![r].pc = "marking", ![r].mark = mark]
        PROVE  Carries("marking") /\ req'[r].mark = mark
    <2>1. req' = [req EXCEPT ![r] = [req[r] EXCEPT !.pc = "marking", !.mark = mark]]
      BY <1>0, <1>6
    <2> QED BY <1>0, <2>1 DEF ReqRow
  <1>7. ASSUME NEW pc \in Closing, Carries(pc), Priced(r) PROVE Priced(r)'
    BY <1>2, <1>7 DEF Priced
  <1>8. ASSUME NEW pc \in {"aborting", "aborted", "start"}, Carries(pc),
               req[r].pc \notin Closing \cup {"start"}, UNCHANGED recovery
        PROVE  RequestInv(r)'
    <2>1. recovery'[r] = "none"
      BY <1>0, <1>8 DEF RequestInv, Priced
    <2> QED BY <1>3, <1>8, <2>1 DEF RequestInv
  <1>9. ASSUME NEW pc \in {"done", "crashed"}, Carries(pc), UNCHANGED recovery
        PROVE  RequestInv(r)'
    <2>1. recovery'[r] # "none" => Priced(r)'
      BY <1>0, <1>7, <1>9 DEF RequestInv
    <2> QED BY <1>3, <1>9, <2>1 DEF RequestInv
  <1>10. CASE ReqReserve(r)
    <2>1. CASE Goto(r, "done")
      BY <1>4, <1>9, <1>10, <2>1 DEF ReqReserve
    <2>2. CASE /\ \E cost \in Costs : Reserve(c, cost)
               /\ req' = [req EXCEPT ![r].pc = "reserved", ![r].seq = claim[c].seq + 1,
                                     ![r].slot = NoSlot, ![r].version = -1,
                                     ![r].tries = @ + 1]
      <3>1. claim'[c].seq = claim[c].seq + 1
        BY <1>0, <2>2 DEF Reserve, CallerInv, TypeOK
      <3>2. req'[r].pc = "reserved" /\ req'[r].seq = claim[c].seq + 1
        <4> DEFINE row == [req[r] EXCEPT !.pc = "reserved", !.seq = claim[c].seq + 1,
                                         !.slot = NoSlot, !.version = -1, !.tries = @ + 1]
        <4>1. req' = [req EXCEPT ![r] = row]
          BY <1>0, <2>2
        <4>2. row.pc = "reserved" /\ row.seq = claim[c].seq + 1
          BY <1>0 DEF ReqRow
        <4> HIDE DEF row
        <4> QED BY <1>0, <4>1, <4>2
      <3>3. recovery'[r] = "none"
        BY <1>0, <1>10 DEF ReqReserve, RequestInv, Priced
      <3> QED BY <1>1, <3>1, <3>2, <3>3 DEF RequestInv
    <2> QED BY <1>10, <2>1, <2>2 DEF ReqReserve
  <1>11. CASE ReqInsertPending(r)
    <2>1. CASE req' = [req EXCEPT ![r].pc = "selecting", ![r].version = 0]
      <3>1. req'[r].pc = "selecting" /\ req'[r].seq = req[r].seq /\ req'[r].version = 0
        <4>1. req' = [req EXCEPT ![r] = [req[r] EXCEPT !.pc = "selecting", !.version = 0]]
          BY <1>0, <2>1
        <4> QED BY <1>0, <4>1 DEF ReqRow
      <3>2. recovery'[r] = "none" /\ req[r].pc = "reserved"
        BY <1>0, <1>11 DEF ReqInsertPending, RequestInv, Priced
      <3> QED BY <1>3, <3>1, <3>2 DEF RequestInv
    <2> QED BY <1>5, <1>8, <1>11, <2>1 DEF ReqInsertPending
  <1>12. CASE ReqSelect(r)
    <2>1. ASSUME NEW s \in Slots, NEW a \in Accounts,
                 Acquire(s, c, req[r].seq, a),
                 req' = [req EXCEPT ![r].pc = "acquired", ![r].slot = s]
          PROVE  RequestInv(r)'
      <3>1. /\ req'[r].pc = "acquired" /\ req'[r].slot = s
            /\ req'[r].seq = req[r].seq /\ req'[r].version = req[r].version
        <4>1. req' = [req EXCEPT ![r] = [req[r] EXCEPT !.pc = "acquired", !.slot = s]]
          BY <1>0, <2>1
        <4> QED BY <1>0, <4>1 DEF ReqRow
      <3>2. recovery'[r] = "none" /\ req[r].pc = "selecting" /\ req[r].version # -1
        BY <1>0, <1>12 DEF ReqSelect, RequestInv, Priced
      <3>3. s \in SlotsOf(c)'
        <4>1. slot'[s] = [state |-> "acquired", claim |-> c, seq |-> req[r].seq, account |-> a]
          BY <2>1 DEF Acquire, CallerInv, TypeOK
        <4> QED BY <4>1 DEF SlotsOf
      <3> QED BY <1>3, <3>1, <3>2, <3>3 DEF RequestInv
    <2> QED BY <1>5, <1>8, <1>12, <2>1 DEF ReqSelect
  <1>13. CASE ReqCacheHit(r)
    <2>1. CASE req' = [req EXCEPT ![r].pc = "marking", ![r].mark = "settled"]
      <3>1. recovery'[r] = "none" /\ req[r].pc = "selecting"
        BY <1>0, <1>13 DEF ReqCacheHit, RequestInv, Priced
      <3> QED BY <1>3, <1>6, <2>1, <3>1 DEF RequestInv
    <2> QED BY <1>5, <1>8, <1>13, <2>1 DEF ReqCacheHit
  <1>14. CASE ReqWriteAcquisition(r)
    <2>1. /\ recovery'[r] = "none" /\ req[r].pc = "acquired"
          /\ req[r].slot \in SlotsOf(c) /\ req[r].version # -1
      BY <1>0, <1>14 DEF ReqWriteAcquisition, RequestInv, Priced
    <2>2. Carries("dispatched") \/ Carries("releasing")
      BY <1>4, <1>14 DEF ReqWriteAcquisition
    <2> QED BY <1>2, <1>3, <2>1, <2>2 DEF RequestInv
  <1>15. CASE ReqReleaseSlot(r) \/ ReqUpstreamFails(r)
    BY <1>5, <1>8, <1>15 DEF ReqReleaseSlot, ReqUpstreamFails
  <1>16. CASE ReqOpenGate(r)
    <2>1. CASE req' = [req EXCEPT ![r].pc = "writing", ![r].version = @ + 1]
      <3>1. req'[r].pc = "writing" /\ req'[r].seq = req[r].seq /\ req'[r].slot = req[r].slot
        <4>1. req' = [req EXCEPT ![r] = [req[r] EXCEPT !.pc = "writing", !.version = @ + 1]]
          BY <1>0, <2>1
        <4> QED BY <1>0, <4>1 DEF ReqRow
      <3>2. recovery'[r] = "none" /\ req[r].pc = "dispatched" /\ req[r].slot \in SlotsOf(c)
        BY <1>0, <1>16 DEF ReqOpenGate, RequestInv, Priced
      <3> QED BY <1>2, <1>3, <3>1, <3>2 DEF RequestInv
    <2> QED BY <1>5, <1>8, <1>16, <2>1 DEF ReqOpenGate
  <1>17. CASE ReqWrite(r)
    <2>1. ASSUME NEW cost \in Costs,
                 req' = [req EXCEPT ![r].pc = "settling", ![r].cost = cost]
          PROVE  RequestInv(r)'
      <3>1. /\ req'[r].pc = "settling" /\ req'[r].cost = cost
            /\ req'[r].seq = req[r].seq /\ req'[r].slot = req[r].slot
        <4>1. req' = [req EXCEPT ![r] = [req[r] EXCEPT !.pc = "settling", !.cost = cost]]
          BY <1>0, <2>1
        <4> QED BY <1>0, <4>1 DEF ReqRow
      <3>2. req[r].pc = "writing" /\ req[r].slot \in SlotsOf(c)
        BY <1>0, <1>17 DEF ReqWrite, RequestInv
      <3>3. Priced(r)'
        BY <1>2, <3>1, <3>2 DEF Priced
      <3> QED BY <1>3, <3>1, <3>2, <3>3 DEF RequestInv
    <2> QED BY <1>5, <1>8, <1>17, <2>1 DEF ReqWrite
  <1>18. CASE ReqSettle(r) \/ ReqEnqueue(r)
    <2>1. Priced(r) /\ req[r].pc \in {"settling", "enqueue"}
      BY <1>0, <1>18 DEF ReqSettle, ReqEnqueue, RequestInv
    <2>2. \/ Carries("enqueue")
          \/ Carries("marking") /\ req'[r].mark \in {"settled", "settling", "failed"}
      BY <1>4, <1>6, <1>18 DEF ReqSettle, ReqEnqueue
    <2>3. Priced(r)'
      BY <1>7, <2>1, <2>2
    <2> QED BY <1>3, <2>1, <2>2, <2>3 DEF RequestInv
  <1>19. CASE ReqMark(r) \/ Crash(r)
    BY <1>4, <1>9, <1>19 DEF ReqMark, Crash
  <1>20. CASE ReqAbortBegin(r)
    <2>1. CASE UNCHANGED req
      BY <1>0, <1>20, <2>1, RestingRequest DEF ReqAbortBegin, RequestInv
    <2> QED BY <1>4, <1>9, <1>20, <2>1 DEF ReqAbortBegin
  <1>21. CASE ReqAbortCommit(r)
    <2>1. CASE UNCHANGED req
      BY <1>0, <1>21, <2>1, RestingRequest DEF ReqAbortCommit, RequestInv
    <2> QED BY <1>4, <1>8, <1>9, <1>21, <2>1 DEF ReqAbortCommit
  <1>22. CASE ReqMarkAborted(r)
    <2>1. req[r].then \in {"start", "done"}
      BY <1>0 DEF ReqRow
    <2>2. Carries("start") \/ Carries("done")
      BY <1>4, <1>22, <2>1 DEF ReqMarkAborted
    <2> QED BY <1>8, <1>9, <1>22, <2>2 DEF ReqMarkAborted
  <1> QED BY <1>10, <1>11, <1>12, <1>13, <1>14, <1>15, <1>16, <1>17, <1>18, <1>19, <1>20,
             <1>21, <1>22 DEF RequestStep

(* So every request, moved or not, keeps what it relies on.                 *)
LEMMA EveryRequest ==
    CallerInv /\ [PipelineNext]_vars => \A r \in Requests : RequestInv(r)'
  <1> SUFFICES ASSUME CallerInv, [PipelineNext]_vars, NEW r \in Requests
               PROVE  RequestInv(r)'
    OBVIOUS
  <1>0. [LedgerNext]_ledgerVars
    BY StepUsesLedger
  <1>1. /\ req \in [Requests -> ReqRow] /\ RequestInv(r)
        /\ recovery \in [Requests -> {"none", "pending", "delivered"}]
        /\ (recovery[r] # "none" => Priced(r))
    BY RequestByRequest DEF CallerInv, PipelineTypeOK, RequestInv
  <1>2. ASSUME NEW o \in Requests, RequestStep(o) \/ Crash(o) PROVE RequestInv(r)'
    <2>1. CASE o = r
      BY <1>0, <1>2, <2>1, MovingRequest
    <2>2. CASE o # r
      <3>1. req'[r] = req[r]
        BY <1>1, <1>2, <2>2 DEF RequestStep, ReqReserve, ReqInsertPending, ReqSelect,
           ReqCacheHit, ReqWriteAcquisition, ReqReleaseSlot, ReqUpstreamFails, ReqOpenGate,
           ReqWrite, ReqSettle, ReqEnqueue, ReqMark, ReqAbortBegin, ReqAbortCommit,
           ReqMarkAborted, Crash, Goto
      <3>2. recovery'[r] = recovery[r]
        <4>1. UNCHANGED recovery \/ Publish(o)
          BY <1>2 DEF RequestStep, ReqReserve, ReqInsertPending, ReqSelect,
             ReqCacheHit, ReqWriteAcquisition, ReqReleaseSlot, ReqUpstreamFails, ReqOpenGate,
             ReqWrite, ReqSettle, ReqEnqueue, ReqMark, ReqAbortBegin, ReqAbortCommit,
             ReqMarkAborted, Crash
        <4> QED BY <1>1, <2>2, <4>1 DEF Publish
      <3> QED BY <1>0, <1>1, <3>1, <3>2, RestingRequest
    <2> QED BY <2>1, <2>2
  <1>3. ASSUME UNCHANGED req, recovery'[r] # "none" => Priced(r) PROVE RequestInv(r)'
    BY <1>0, <1>3, RestingRequest
  <1>4. ASSUME NEW o \in Requests, Recover(o) PROVE RequestInv(r)'
    <2>1. recovery[o] = "pending" /\ UNCHANGED req
      BY <1>4 DEF Recover
    <2>2. recovery'[r] # "none" => recovery[r] # "none"
      BY <1>1, <1>4, <2>1 DEF Recover
    <2> QED BY <1>1, <1>3, <2>1, <2>2
  <1>5. CASE IntentReadClaim
    <2>1. UNCHANGED req
      BY <1>5 DEF IntentReadClaim
    <2>2. CASE UNCHANGED recovery
      BY <1>1, <1>3, <2>1, <2>2
    <2>3. CASE Decide(intentSweeper) = "settling" /\ Publish(intentSweeper.row.owner)
      <3>1. intentSweeper.row.status = "failed"
        BY <2>3 DEF Decide
      <3>2. Priced(intentSweeper.row.owner)
        BY <1>5, <3>1 DEF IntentReadClaim, CallerInv, FailedIsPriced, RowPriced
      <3>3. recovery'[r] # "none" => recovery[r] # "none" \/ r = intentSweeper.row.owner
        BY <1>1, <2>3 DEF Publish
      <3> QED BY <1>1, <1>3, <2>1, <3>2, <3>3
    <2> QED BY <1>5, <2>2, <2>3 DEF IntentReadClaim
  <1>6. ASSUME \/ \E c \in Claims : ExpireLease(c) \/ RecoverUsage(c)
               \/ \E s \in Slots : SweepSlot(s)
               \/ LateDelivering \/ LeaseSweep
               \/ IntentCAS \/ \E c \in Claims, q \in Attempts : IntentList(c, q)
               \/ UNCHANGED vars
        PROVE  UNCHANGED <<req, recovery>>
    BY <1>6 DEF ExpireLease, RecoverUsage, SweepSlot, LateDelivering, LeaseSweep, SweepSelect,
       SweepAbortBegin, SweepAbortCommit, IntentList, IntentCAS, pipelineVars, vars
  <1> QED BY <1>1, <1>2, <1>3, <1>4, <1>5, <1>6 DEF PipelineNext, IntentSweep

(***************************************************************************)
(* What a settlement needs, once known, is never lost: a request that has   *)
(* written its response starts no other attempt.                            *)
(***************************************************************************)
LEMMA PricedStays ==
    ASSUME CallerInv, [PipelineNext]_vars, NEW r \in Requests, Priced(r)
    PROVE  Priced(r)'
  <1>0. [LedgerNext]_ledgerVars /\ ClaimOf[r] \in Claims /\ req \in [Requests -> ReqRow]
    BY StepUsesLedger, PipelineAssumption DEF PipelineAssumption, CallerInv, PipelineTypeOK
  <1>1. req[r].slot \in SlotsOf(ClaimOf[r])'
    BY <1>0, SlotsStay DEF CallerInv, Priced
  <1>2. ASSUME req'[r] = req[r] PROVE Priced(r)'
    BY <1>1, <1>2 DEF Priced
  <1>3. ASSUME NEW pc \in {"enqueue", "done", "crashed"}, Goto(r, pc) PROVE Priced(r)'
    BY <1>0, <1>1, <1>3 DEF Goto, Priced, ReqRow
  <1>4. ASSUME NEW mark, req' = [req EXCEPT ![r].pc = "marking", ![r].mark = mark]
        PROVE  Priced(r)'
    <2>1. req' = [req EXCEPT ![r] = [req[r] EXCEPT !.pc = "marking", !.mark = mark]]
      BY <1>0, <1>4
    <2>2. req'[r].pc = "marking" /\ req'[r].cost = req[r].cost /\ req'[r].slot = req[r].slot
      BY <1>0, <2>1 DEF ReqRow
    <2> QED BY <1>1, <2>2 DEF Priced
  <1>5. ASSUME RequestStep(r) \/ Crash(r) PROVE Priced(r)'
    <2>1. ReqSettle(r) \/ ReqEnqueue(r) \/ ReqMark(r) \/ Crash(r)
      BY <1>5 DEF Priced, RequestStep, ReqReserve, ReqInsertPending, ReqSelect, ReqCacheHit,
         ReqWriteAcquisition, ReqReleaseSlot, ReqUpstreamFails, ReqOpenGate, ReqWrite,
         ReqAbortBegin, ReqAbortCommit, ReqMarkAborted
    <2> QED BY <1>3, <1>4, <2>1 DEF ReqSettle, ReqEnqueue, ReqMark, Crash
  <1>6. ASSUME NEW o \in Requests, o # r, RequestStep(o) \/ Crash(o) PROVE req'[r] = req[r]
    BY <1>0, <1>6 DEF RequestStep, ReqReserve, ReqInsertPending, ReqSelect,
       ReqCacheHit, ReqWriteAcquisition, ReqReleaseSlot, ReqUpstreamFails, ReqOpenGate,
       ReqWrite, ReqSettle, ReqEnqueue, ReqMark, ReqAbortBegin, ReqAbortCommit,
       ReqMarkAborted, Crash, Goto
  <1>7. ASSUME \/ \E o \in Requests : Recover(o)
               \/ \E d \in Claims : ExpireLease(d) \/ RecoverUsage(d)
               \/ \E s \in Slots : SweepSlot(s)
               \/ LateDelivering \/ LeaseSweep \/ IntentSweep \/ UNCHANGED vars
        PROVE  UNCHANGED req
    BY <1>7 DEF Recover, ExpireLease, RecoverUsage, SweepSlot, LateDelivering, LeaseSweep,
       SweepSelect, SweepAbortBegin, SweepAbortCommit, IntentSweep, IntentList,
       IntentReadClaim, IntentCAS, pipelineVars, vars
  <1> QED BY <1>2, <1>5, <1>6, <1>7 DEF PipelineNext

-----------------------------------------------------------------------------
(* Evidence.                                                                *)

(***************************************************************************)
(* An evidence row keeps its owner, and is failed only by the tracker of a  *)
(* request that knows what to settle.                                       *)
(***************************************************************************)
LEMMA RowsStay ==
    ASSUME CallerInv, [PipelineNext]_vars, NEW d \in Claims, NEW p \in Attempts
    PROVE  /\ intent[d][p].status # "absent" =>
                 intent'[d][p].status # "absent" /\ intent'[d][p].owner = intent[d][p].owner
           /\ RowPriced(intent'[d][p])
  <1> DEFINE Kept == /\ intent[d][p].status # "absent" =>
                           /\ intent'[d][p].status # "absent"
                           /\ intent'[d][p].owner = intent[d][p].owner
                     /\ RowPriced(intent'[d][p])
  <1>0. intent \in [Claims -> [Attempts -> IntentRow]] /\ RowPriced(intent[d][p])
    BY DEF CallerInv, PipelineTypeOK, FailedIsPriced
  <1>1. ASSUME UNCHANGED intent PROVE Kept
    BY <1>0, <1>1
  <1>2. ASSUME NEW c \in Claims, NEW q \in Attempts, NEW status \in IntentStatus \ {"absent"},
               SetIntent(c, q, status),
               status = "failed" => intent[c][q].owner \in Requests /\ Priced(intent[c][q].owner)
        PROVE  Kept
    <2>1. CASE d = c /\ p = q
      <3>1. /\ intent'[d][p].status = status
            /\ intent'[d][p].owner = intent[d][p].owner
        BY <1>0, <1>2, <2>1, IntentWritten
      <3> QED BY <1>2, <2>1, <3>1 DEF RowPriced
    <2>2. CASE d # c \/ p # q
      <3>1. intent'[d][p] = intent[d][p]
        BY <1>0, <1>2, <2>2, IntentWritten
      <3> QED BY <1>0, <3>1
    <2> QED BY <2>1, <2>2
  <1>3. ASSUME NEW r \in Requests, ReqInsertPending(r) PROVE Kept
    <2>1. ClaimOf[r] \in Claims /\ req[r].seq \in Attempts
      BY <1>3, AttemptExists DEF ReqInsertPending
    <2>2. /\ intent[ClaimOf[r]][req[r].seq].status = "absent"
          /\ \/ UNCHANGED intent
             \/ intent' = [intent EXCEPT ![ClaimOf[r]][req[r].seq] =
                              [status |-> "pending", version |-> 0, owner |-> r]]
      BY <1>3 DEF ReqInsertPending
    <2>3. CASE d = ClaimOf[r] /\ p = req[r].seq /\ ~ UNCHANGED intent
      <3>1. intent'[d][p].status = "pending" /\ intent[d][p].status = "absent"
        BY <1>0, <2>1, <2>2, <2>3
      <3> QED BY <3>1 DEF RowPriced
    <2>4. CASE d # ClaimOf[r] \/ p # req[r].seq
      <3>1. intent'[d][p] = intent[d][p]
        BY <1>0, <2>1, <2>2, <2>4
      <3> QED BY <1>0, <3>1
    <2> QED BY <1>1, <2>3, <2>4
  <1>4. ASSUME NEW r \in Requests, ReqOpenGate(r) PROVE Kept
    <2>1. ClaimOf[r] \in Claims /\ req[r].seq \in Attempts
      BY <1>4, AttemptExists DEF ReqOpenGate
    <2>2. SetIntent(ClaimOf[r], req[r].seq, "delivering") \/ UNCHANGED intent
      BY <1>4 DEF ReqOpenGate
    <2> QED BY <1>1, <1>2, <2>1, <2>2 DEF IntentStatus
  <1>5. ASSUME NEW r \in Requests, ReqMark(r) PROVE Kept
    <2>1. ClaimOf[r] \in Claims /\ req[r].seq \in Attempts
      BY <1>5, AttemptExists DEF ReqMark
    <2>2. req[r].mark \in {"settled", "settling", "failed"}
      <3>1. req[r].mark \in {"none", "settled", "settling", "failed"}
        BY DEF CallerInv, PipelineTypeOK, ReqRow
      <3> QED BY <1>5, <3>1 DEF CallerInv, Marked, ReqMark
    <2>3. CASE UNCHANGED intent
      BY <1>1, <2>3
    <2>4. CASE ~ UNCHANGED intent
      <3>1. /\ SetIntent(ClaimOf[r], req[r].seq, req[r].mark)
            /\ req[r].version # -1 /\ req[r].pc = "marking"
        BY <1>5, <2>4 DEF ReqMark, TrackerMark
      <3>2. req[r].mark = "failed" => Priced(r)
        BY <3>1 DEF CallerInv, RequestsPriced
      <3>3. intent[ClaimOf[r]][req[r].seq].owner = r
        BY <3>1 DEF CallerInv, OwnsRow
      <3> QED BY <1>2, <2>1, <2>2, <3>1, <3>2, <3>3 DEF IntentStatus
    <2> QED BY <2>3, <2>4
  <1>6. ASSUME NEW r \in Requests, ReqMarkAborted(r) PROVE Kept
    <2>1. ClaimOf[r] \in Claims /\ req[r].seq \in Attempts
      BY <1>6, AttemptExists DEF ReqMarkAborted
    <2>2. SetIntent(ClaimOf[r], req[r].seq, "aborted") \/ UNCHANGED intent
      BY <1>6 DEF ReqMarkAborted, TrackerMark
    <2> QED BY <1>1, <1>2, <2>1, <2>2 DEF IntentStatus
  <1>7. ASSUME LateDelivering PROVE Kept
    <2>1. PICK e \in late : SetIntent(e.claim, e.seq, "delivering") \/ UNCHANGED intent
      BY <1>7 DEF LateDelivering
    <2>2. e.claim \in Claims /\ e.seq \in Attempts
      BY DEF CallerInv, PipelineTypeOK
    <2> QED BY <1>1, <1>2, <2>1, <2>2 DEF IntentStatus
  <1>8. ASSUME IntentCAS PROVE Kept
    <2>1. /\ intentSweeper.claim \in Claims /\ intentSweeper.seq \in Attempts
          /\ intentSweeper.mark \in {"settling"} \cup Terminal
      BY <1>8 DEF IntentCAS, CallerInv, PipelineTypeOK
    <2>2. \/ SetIntent(intentSweeper.claim, intentSweeper.seq, intentSweeper.mark)
          \/ UNCHANGED intent
      BY <1>8 DEF IntentCAS
    <2> QED BY <1>1, <1>2, <2>1, <2>2 DEF IntentStatus, Terminal
  <1>9. ASSUME NEW r \in Requests,
               \/ ReqReserve(r) \/ ReqSelect(r) \/ ReqCacheHit(r) \/ ReqWriteAcquisition(r)
               \/ ReqReleaseSlot(r) \/ ReqUpstreamFails(r) \/ ReqWrite(r) \/ ReqSettle(r)
               \/ ReqEnqueue(r) \/ ReqAbortBegin(r) \/ ReqAbortCommit(r)
               \/ Crash(r) \/ Recover(r)
        PROVE  UNCHANGED intent
    BY <1>9 DEF ReqReserve, ReqSelect, ReqCacheHit, ReqWriteAcquisition, ReqReleaseSlot,
       ReqUpstreamFails, ReqWrite, ReqSettle, ReqEnqueue, ReqAbortBegin, ReqAbortCommit,
       Crash, Recover
  <1>10. ASSUME \/ \E c \in Claims : ExpireLease(c) \/ RecoverUsage(c)
                \/ \E s \in Slots : SweepSlot(s)
                \/ \E c \in Claims, q \in Attempts : IntentList(c, q)
                \/ LeaseSweep \/ IntentReadClaim \/ UNCHANGED vars
         PROVE  UNCHANGED intent
    BY <1>10 DEF ExpireLease, RecoverUsage, SweepSlot, LeaseSweep, SweepSelect,
       SweepAbortBegin, SweepAbortCommit, IntentList, IntentReadClaim, pipelineVars, vars
  <1> HIDE DEF Kept
  <1>11. Kept
    BY <1>1, <1>3, <1>4, <1>5, <1>6, <1>7, <1>8, <1>9, <1>10
       DEF PipelineNext, RequestStep, IntentSweep
  <1> QED BY <1>11 DEF Kept

(* A tracker with a version goes on owning its row.                         *)
LEMMA OwnersStay ==
    ASSUME CallerInv, [PipelineNext]_vars, NEW r \in Requests, req'[r].version # -1
    PROVE  /\ req'[r].seq >= 1
           /\ intent'[ClaimOf[r]][req'[r].seq].status # "absent"
           /\ intent'[ClaimOf[r]][req'[r].seq].owner = r
  <1> DEFINE c == ClaimOf[r]
             Owns == /\ req'[r].seq >= 1
                     /\ intent'[c][req'[r].seq].status # "absent"
                     /\ intent'[c][req'[r].seq].owner = r
  <1>0. /\ c \in Claims /\ req \in [Requests -> ReqRow]
        /\ intent \in [Claims -> [Attempts -> IntentRow]]
    BY PipelineAssumption DEF PipelineAssumption, CallerInv, PipelineTypeOK
  <1>1. ASSUME req'[r].seq = req[r].seq, req[r].version # -1 PROVE Owns
    <2>1. /\ req[r].seq >= 1
          /\ intent[c][req[r].seq].status # "absent" /\ intent[c][req[r].seq].owner = r
      BY <1>1 DEF CallerInv, OwnsRow
    <2>2. req[r].seq \in Attempts
      <3>1. req[r].seq \in Nat /\ claim[c].seq \in Nat /\ MaxSeq \in Nat
        BY <1>0, LedgerAssumption DEF CallerInv, ReqRow, TypeOK, ClaimRow, LedgerAssumption
      <3>2. req[r].seq <= claim[c].seq /\ claim[c].seq <= MaxSeq
        BY <1>0 DEF CallerInv, Numbered
      <3> QED BY <2>1, <3>1, <3>2 DEF Attempts
    <2> QED BY <1>0, <1>1, <2>1, <2>2, RowsStay
  <1>2. ASSUME req'[r] = req[r] PROVE Owns
    BY <1>1, <1>2
  <1>3. ASSUME NEW pc, Goto(r, pc) PROVE Owns
    BY <1>0, <1>1, <1>3 DEF Goto, ReqRow
  <1>5. ASSUME NEW pc, NEW next, req' = [req EXCEPT ![r].pc = pc, ![r].then = next]
        PROVE  Owns
    <2>1. req' = [req EXCEPT ![r] = [req[r] EXCEPT !.pc = pc, !.then = next]]
      BY <1>0, <1>5
    <2> QED BY <1>0, <1>1, <2>1 DEF ReqRow
  <1>6. CASE ReqReserve(r)
    <2>1. CASE req' = [req EXCEPT ![r].pc = "reserved", ![r].seq = claim[c].seq + 1,
                                  ![r].slot = NoSlot, ![r].version = -1, ![r].tries = @ + 1]
      <3> DEFINE row == [req[r] EXCEPT !.pc = "reserved", !.seq = claim[c].seq + 1,
                                       !.slot = NoSlot, !.version = -1, !.tries = @ + 1]
      <3>1. req' = [req EXCEPT ![r] = row]
        BY <1>0, <2>1
      <3>2. row.version = -1
        BY <1>0 DEF ReqRow
      <3> HIDE DEF row
      <3> QED BY <1>0, <3>1, <3>2
    <2> QED BY <1>3, <1>6, <2>1 DEF ReqReserve
  <1>7. CASE ReqInsertPending(r)
    <2>1. CASE req' = [req EXCEPT ![r].pc = "selecting", ![r].version = 0]
      <3>1. req[r].seq \in Attempts
        BY <1>7, AttemptExists DEF ReqInsertPending
      <3>2. req'[r].seq = req[r].seq
        <4>1. req' = [req EXCEPT ![r] = [req[r] EXCEPT !.pc = "selecting", !.version = 0]]
          BY <1>0, <2>1
        <4> QED BY <1>0, <4>1 DEF ReqRow
      <3>3. intent' = [intent EXCEPT ![c][req[r].seq] =
                          [status |-> "pending", version |-> 0, owner |-> r]]
        <4>1. req'[r].pc = "selecting"
          <5>1. req' = [req EXCEPT ![r] = [req[r] EXCEPT !.pc = "selecting", !.version = 0]]
            BY <1>0, <2>1
          <5> QED BY <1>0, <5>1 DEF ReqRow
        <4>2. ASSUME req' = [req EXCEPT ![r].pc = "aborting", ![r].then = "done"] PROVE FALSE
          <5>1. req' = [req EXCEPT ![r] = [req[r] EXCEPT !.pc = "aborting", !.then = "done"]]
            BY <1>0, <4>2
          <5> QED BY <1>0, <4>1, <5>1 DEF ReqRow
        <4> QED BY <1>7, <4>2 DEF ReqInsertPending
      <3>4. intent'[c][req[r].seq] = [status |-> "pending", version |-> 0, owner |-> r]
        BY <1>0, <3>1, <3>3
      <3> QED BY <3>1, <3>2, <3>4 DEF Attempts
    <2> QED BY <1>5, <1>7, <2>1 DEF ReqInsertPending
  <1>8. CASE ReqSelect(r)
    <2>1. ASSUME NEW s, req' = [req EXCEPT ![r].pc = "acquired", ![r].slot = s] PROVE Owns
      <3>1. req' = [req EXCEPT ![r] = [req[r] EXCEPT !.pc = "acquired", !.slot = s]]
        BY <1>0, <2>1
      <3> QED BY <1>0, <1>1, <3>1 DEF ReqRow
    <2> QED BY <1>5, <1>8, <2>1 DEF ReqSelect
  <1>9. CASE ReqCacheHit(r) \/ ReqSettle(r) \/ ReqEnqueue(r)
    <2>1. ASSUME NEW mark, req' = [req EXCEPT ![r].pc = "marking", ![r].mark = mark]
          PROVE  Owns
      <3>1. req' = [req EXCEPT ![r] = [req[r] EXCEPT !.pc = "marking", !.mark = mark]]
        BY <1>0, <2>1
      <3> QED BY <1>0, <1>1, <3>1 DEF ReqRow
    <2> QED BY <1>3, <1>5, <1>9, <2>1 DEF ReqCacheHit, ReqSettle, ReqEnqueue
  <1>10. CASE ReqOpenGate(r)
    <2>1. CASE req' = [req EXCEPT ![r].pc = "writing", ![r].version = @ + 1]
      <3>1. req[r].version # -1
        BY <1>10 DEF ReqOpenGate, CallerInv, OwnsRow
      <3>2. req'[r].seq = req[r].seq
        <4>1. req' = [req EXCEPT ![r] = [req[r] EXCEPT !.pc = "writing", !.version = @ + 1]]
          BY <1>0, <2>1
        <4> QED BY <1>0, <4>1 DEF ReqRow
      <3> QED BY <1>1, <3>1, <3>2
    <2> QED BY <1>5, <1>10, <2>1 DEF ReqOpenGate
  <1>11. CASE ReqWrite(r)
    <2>1. ASSUME NEW cost, req' = [req EXCEPT ![r].pc = "settling", ![r].cost = cost]
          PROVE  Owns
      <3>1. req' = [req EXCEPT ![r] = [req[r] EXCEPT !.pc = "settling", !.cost = cost]]
        BY <1>0, <2>1
      <3> QED BY <1>0, <1>1, <3>1 DEF ReqRow
    <2> QED BY <1>5, <1>11, <2>1 DEF ReqWrite
  <1>12. CASE ReqWriteAcquisition(r) \/ ReqMark(r) \/ ReqMarkAborted(r) \/ Crash(r)
    BY <1>3, <1>12 DEF ReqWriteAcquisition, ReqMark, ReqMarkAborted, Crash
  <1>13. CASE ReqReleaseSlot(r) \/ ReqUpstreamFails(r)
    BY <1>5, <1>13 DEF ReqReleaseSlot, ReqUpstreamFails
  <1>14. CASE ReqAbortBegin(r) \/ ReqAbortCommit(r)
    BY <1>2, <1>3, <1>14 DEF ReqAbortBegin, ReqAbortCommit
  <1>15. ASSUME NEW o \in Requests, o # r, RequestStep(o) \/ Crash(o) PROVE req'[r] = req[r]
    BY <1>0, <1>15 DEF RequestStep, ReqReserve, ReqInsertPending, ReqSelect,
       ReqCacheHit, ReqWriteAcquisition, ReqReleaseSlot, ReqUpstreamFails, ReqOpenGate,
       ReqWrite, ReqSettle, ReqEnqueue, ReqMark, ReqAbortBegin, ReqAbortCommit,
       ReqMarkAborted, Crash, Goto
  <1>16. ASSUME \/ \E o \in Requests : Recover(o)
                \/ \E d \in Claims : ExpireLease(d) \/ RecoverUsage(d)
                \/ \E s \in Slots : SweepSlot(s)
                \/ LateDelivering \/ LeaseSweep \/ IntentSweep \/ UNCHANGED vars
         PROVE  UNCHANGED req
    BY <1>16 DEF Recover, ExpireLease, RecoverUsage, SweepSlot, LateDelivering, LeaseSweep,
       SweepSelect, SweepAbortBegin, SweepAbortCommit, IntentSweep, IntentList,
       IntentReadClaim, IntentCAS, pipelineVars, vars
  <1> QED BY <1>2, <1>6, <1>7, <1>8, <1>9, <1>10, <1>11, <1>12, <1>13, <1>14, <1>15, <1>16
          DEF PipelineNext, RequestStep

(* A claim is reserving only from its first attempt on.                     *)
LEMMA BegunStays ==
    ASSUME TypeOK, Begun, [LedgerNext]_ledgerVars, NEW d \in Claims,
           claim'[d].status = "reserving"
    PROVE  claim'[d].seq >= 1
  <1>0. claim[d] \in ClaimRow /\ (claim[d].status = "reserving" => claim[d].seq >= 1)
    BY DEF TypeOK, Begun
  <1> DEFINE Fine == claim'[d].seq >= 1
  <1>1. ASSUME claim'[d] = claim[d] PROVE Fine
    BY <1>0, <1>1
  <1>2. ASSUME NEW cost \in Costs, Reserve(d, cost) PROVE Fine
    BY <1>0, <1>2 DEF Reserve, TypeOK, ClaimRow
  <1>3. ASSUME NEW s \in SlotsOf(d), WriteAcquisition(d, s) PROVE Fine
    BY <1>0, <1>3 DEF WriteAcquisition, TypeOK, ClaimRow
  <1>4. ASSUME NEW s \in SlotsOf(d), NEW cost \in Costs, Settle(d, s, cost) PROVE FALSE
    BY <1>0, <1>4 DEF Settle, TypeOK, ClaimRow
  <1>5. ASSUME Abort(d) PROVE FALSE
    BY <1>0, <1>5 DEF Abort, TypeOK, ClaimRow
  <1>6. ASSUME CommitCacheHit(d) PROVE FALSE
    BY <1>0, <1>6 DEF CommitCacheHit, TypeOK, ClaimRow
  <1> QED BY <1>1, <1>2, <1>3, <1>4, <1>5, <1>6, OthersUntouched

(* The sweeper's copy of a row knows what to settle, too.                   *)
LEMMA CopyPriced ==
    CallerInv /\ [PipelineNext]_vars =>
        (intentSweeper' # Idle => RowPriced(intentSweeper'.row))
  <1> SUFFICES ASSUME CallerInv, [PipelineNext]_vars, intentSweeper' # Idle
               PROVE  RowPriced(intentSweeper'.row)
    OBVIOUS
  <1>1. ASSUME UNCHANGED intentSweeper PROVE RowPriced(intentSweeper'.row)
    BY <1>1 DEF CallerInv, FailedIsPriced
  <1>2. ASSUME NEW c \in Claims, NEW q \in Attempts, IntentList(c, q)
        PROVE  RowPriced(intentSweeper'.row)
    BY <1>2 DEF IntentList, Listed, CallerInv, FailedIsPriced
  <1>3. CASE IntentReadClaim
    <2>1. PICK mark : intentSweeper' = [intentSweeper EXCEPT !.mark = mark]
      BY <1>3 DEF IntentReadClaim
    <2>2. /\ intentSweeper \in [claim : Claims, seq : Attempts, row : IntentRow,
                                mark : {"none", "settling"} \cup Terminal]
          /\ RowPriced(intentSweeper.row)
      BY <1>3 DEF IntentReadClaim, CallerInv, PipelineTypeOK, FailedIsPriced
    <2>3. intentSweeper'.row = intentSweeper.row
      BY <2>1, <2>2
    <2> QED BY <2>2, <2>3
  <1>4. CASE IntentCAS
    BY <1>4 DEF IntentCAS
  <1>5. ASSUME \/ \E r \in Requests : RequestStep(r) \/ Crash(r) \/ Recover(r)
               \/ \E d \in Claims : ExpireLease(d) \/ RecoverUsage(d)
               \/ \E s \in Slots : SweepSlot(s)
               \/ LateDelivering \/ LeaseSweep \/ UNCHANGED vars
        PROVE  UNCHANGED intentSweeper
    BY <1>5 DEF RequestStep, ReqReserve, ReqInsertPending, ReqSelect, ReqCacheHit,
       ReqWriteAcquisition, ReqReleaseSlot, ReqUpstreamFails, ReqOpenGate, ReqWrite,
       ReqSettle, ReqEnqueue, ReqMark, ReqAbortBegin, ReqAbortCommit, ReqMarkAborted, Crash,
       Recover, ExpireLease, RecoverUsage, SweepSlot, LateDelivering, LeaseSweep, SweepSelect,
       SweepAbortBegin, SweepAbortCommit, NoSweep, pipelineVars, vars
  <1> QED BY <1>1, <1>2, <1>3, <1>4, <1>5 DEF PipelineNext, IntentSweep

(* Every step counts its fault, if it is one.                               *)
LEMMA FaultsCounted == CallerInv /\ [PipelineNext]_vars => faults' \in 0..MaxFaults
  <1> SUFFICES ASSUME CallerInv, [PipelineNext]_vars PROVE faults' \in 0..MaxFaults
    OBVIOUS
  <1>0. faults \in 0..MaxFaults /\ MaxFaults \in Nat
    BY PipelineAssumption DEF PipelineAssumption, CallerInv, PipelineTypeOK
  <1>1. NoFault \/ Fault
    <2>1. ASSUME NEW r \in Requests, RequestStep(r) PROVE NoFault \/ Fault
      BY <2>1 DEF RequestStep, ReqReserve, ReqInsertPending, ReqSelect, ReqCacheHit,
         ReqWriteAcquisition, ReqReleaseSlot, ReqUpstreamFails, ReqOpenGate, ReqWrite,
         ReqSettle, ReqEnqueue, ReqMark, ReqAbortBegin, ReqAbortCommit, ReqMarkAborted,
         TrackerMark
    <2>2. ASSUME NEW r \in Requests, Crash(r) \/ Recover(r) PROVE NoFault \/ Fault
      BY <2>2 DEF Crash, Recover
    <2>3. ASSUME \/ \E d \in Claims : ExpireLease(d) \/ RecoverUsage(d)
                 \/ \E s \in Slots : SweepSlot(s)
                 \/ LateDelivering \/ LeaseSweep \/ IntentSweep \/ UNCHANGED vars
          PROVE  NoFault \/ Fault
      BY <2>3 DEF ExpireLease, RecoverUsage, SweepSlot, LateDelivering, LeaseSweep,
         SweepSelect, SweepAbortBegin, SweepAbortCommit, IntentSweep, IntentList,
         IntentReadClaim, IntentCAS, NoFault, pipelineVars, vars
    <2> QED BY <2>1, <2>2, <2>3 DEF PipelineNext
  <1> QED BY <1>0, <1>1 DEF NoFault, Fault

-----------------------------------------------------------------------------
(* The invariant is inductive.                                              *)
LEMMA StepCallers == CallerInv /\ [PipelineNext]_vars => CallerInv'
  <1> SUFFICES ASSUME CallerInv, [PipelineNext]_vars PROVE CallerInv'
    OBVIOUS
  <1>0. [LedgerNext]_ledgerVars
    BY StepUsesLedger
  <1>1. TypeOK'
    BY <1>0, StepTyped DEF CallerInv
  <1>2. PipelineTypeOK'
    BY RequestsTyped, IntentsTyped, MemoryTyped, SweepersTyped, FaultsCounted
       DEF PipelineTypeOK
  <1>3. /\ SlotIsOfClaim' /\ RequestsPriced' /\ Marked'
        /\ \A r \in Requests :
              /\ req'[r].seq <= claim'[ClaimOf[r]].seq
              /\ req'[r].pc \notin {"start", "done", "crashed"} => req'[r].seq >= 1
              /\ req'[r].pc \in {"selecting", "acquired", "dispatched"}
                    => req'[r].version # -1
    <2>1. \A r \in Requests : RequestInv(r)'
      BY EveryRequest
    <2> QED BY <2>1 DEF RequestInv, SlotIsOfClaim, RequestsPriced, Marked
  <1>4. Numbered'
    BY <1>0, <1>3, AttemptsGrow DEF CallerInv, Numbered
  <1>5. Begun'
    BY <1>0, BegunStays DEF CallerInv, Begun
  <1>6. OwnsRow'
    BY <1>3, OwnersStay DEF OwnsRow
  <1>7. FailedIsPriced'
    <2>1. \A c \in Claims, q \in Attempts : RowPriced(intent'[c][q])
      BY RowsStay
    <2>2. intentSweeper' # Idle => RowPriced(intentSweeper'.row)
      BY CopyPriced
    <2> QED BY <2>1, <2>2, PricedStays DEF FailedIsPriced, RowPriced
  <1> QED BY <1>1, <1>2, <1>3, <1>4, <1>5, <1>6, <1>7 DEF CallerInv

(* What the callers remember is of its type and good for a settlement.      *)
LEMMA CallersRemember == PipelineSpec => []CallerInv
  BY InitCallers, StepCallers, PTL DEF PipelineSpec

(* The pipeline's variables keep their types (PipelineTypeOK).              *)
THEOREM PipelineTypesHold == PipelineSpec => []PipelineTypeOK
<1>1. CallerInv => PipelineTypeOK
  BY DEF CallerInv
<1> QED
  BY <1>1, CallersRemember, PTL

(***************************************************************************)
(* Whatever requests, sweepers, recovery workers, crashes and late writes   *)
(* do, they use the ledger as its specification allows (UsesLedger).        *)
(***************************************************************************)
THEOREM CallersUseLedger == PipelineSpec => UsesLedger
<1>1. PipelineInit => LedgerInit
  BY DEF PipelineInit
<1> QED
  BY <1>1, StepUsesLedger, CallersRemember, PTL DEF PipelineSpec, UsesLedger, LedgerSpec

(***************************************************************************)
(* So what is proved of the ledger is true of the pipeline: a claim is      *)
(* charged at most once, its hold follows it, its slot comes back, its      *)
(* usage rows agree with its events, the wallets explain themselves, and    *)
(* the charge contract is kept, whatever faults happen and for any number   *)
(* of requests.                                                             *)
(***************************************************************************)
THEOREM PipelineKeepsBooks ==
    PipelineSpec => /\ [](HoldFollowsClaim /\ SlotBooks /\ UsageBooks /\ WalletBooks)
                    /\ CommittedIsFinal /\ ImplementsContract
  BY CallersUseLedger, HoldsFollowClaims, SlotsAreAccountedFor, UsageIsAccountedFor,
     WalletsExplainThemselves, CommittedStaysCommitted, LedgerImplementsContract, PTL DEF UsesLedger

-----------------------------------------------------------------------------
(***************************************************************************)
(* Nobody pays for nothing, and recovery forgets nothing unpaid.  A cost is *)
(* known only of an attempt some client received bytes of, and it is this   *)
(* cost that a settlement charges, whoever runs it and however late.        *)
(***************************************************************************)
Answered ==
    \A r \in Requests :
        req[r].cost # 0 =>
            /\ req[r].pc \in {"settling", "enqueue", "marking", "done", "crashed"}
            /\ <<ClaimOf[r], req[r].seq>> \in delivered

ChargeInv == Answered /\ NothingUnearnedNothingLost

(* What was delivered stays delivered.                                      *)
LEMMA DeliveredGrows == [PipelineNext]_vars => delivered \subseteq delivered'
  <1> SUFFICES ASSUME [PipelineNext]_vars PROVE delivered \subseteq delivered'
    OBVIOUS
  <1>1. ASSUME NEW r \in Requests, ReqWrite(r) PROVE delivered \subseteq delivered'
    BY <1>1 DEF ReqWrite
  <1>2. ASSUME NEW r \in Requests, RequestStep(r) \/ Crash(r) \/ Recover(r), ~ReqWrite(r)
        PROVE  UNCHANGED delivered
    BY <1>2 DEF RequestStep, ReqReserve, ReqInsertPending, ReqSelect, ReqCacheHit,
       ReqWriteAcquisition, ReqReleaseSlot, ReqUpstreamFails, ReqOpenGate,
       ReqSettle, ReqEnqueue, ReqMark, ReqAbortBegin, ReqAbortCommit, ReqMarkAborted, Crash,
       Recover
  <1>3. ASSUME \/ \E c \in Claims : ExpireLease(c) \/ RecoverUsage(c)
               \/ \E s \in Slots : SweepSlot(s)
               \/ LateDelivering \/ LeaseSweep \/ IntentSweep \/ UNCHANGED vars
        PROVE  UNCHANGED delivered
    BY <1>3 DEF ExpireLease, RecoverUsage, SweepSlot, LateDelivering, LeaseSweep, SweepSelect,
       SweepAbortBegin, SweepAbortCommit, IntentSweep, IntentList, IntentReadClaim, IntentCAS,
       pipelineVars, vars
  <1> QED BY <1>1, <1>2, <1>3 DEF PipelineNext

(* Only a write that reached the client makes a cost known.                 *)
LEMMA AnsweredStays ==
    ASSUME CallerInv, Answered, [PipelineNext]_vars
    PROVE  Answered'
  <1> SUFFICES ASSUME NEW r \in Requests, req'[r].cost # 0
               PROVE  /\ req'[r].pc \in {"settling", "enqueue", "marking", "done", "crashed"}
                      /\ <<ClaimOf[r], req'[r].seq>> \in delivered'
    BY DEF Answered
  <1> DEFINE Closing == {"settling", "enqueue", "marking", "done", "crashed"}
             Known == req'[r].pc \in Closing /\ <<ClaimOf[r], req'[r].seq>> \in delivered'
  <1>0. req \in [Requests -> ReqRow] /\ delivered \subseteq delivered'
    BY DeliveredGrows DEF CallerInv, PipelineTypeOK
  <1>1. ASSUME req'[r].cost = req[r].cost, req'[r].seq = req[r].seq,
               req[r].pc \in Closing => req'[r].pc \in Closing
        PROVE  Known
    BY <1>0, <1>1 DEF Answered
  <1>2. ASSUME req'[r].cost = req[r].cost, req[r].pc \notin Closing PROVE Known
    BY <1>2 DEF Answered
  <1>3. ASSUME NEW pc, Goto(r, pc), req[r].pc \in Closing => pc \in Closing PROVE Known
    BY <1>0, <1>1, <1>3 DEF Goto, ReqRow
  <1>4. ASSUME NEW pc, NEW next, req' = [req EXCEPT ![r].pc = pc, ![r].then = next],
               req[r].pc \notin Closing
        PROVE  Known
    <2>1. req' = [req EXCEPT ![r] = [req[r] EXCEPT !.pc = pc, !.then = next]]
      BY <1>0, <1>4
    <2> QED BY <1>0, <1>2, <1>4, <2>1 DEF ReqRow
  <1>5. CASE ReqReserve(r)
    <2>1. CASE req' = [req EXCEPT ![r].pc = "reserved", ![r].seq = claim[ClaimOf[r]].seq + 1,
                                  ![r].slot = NoSlot, ![r].version = -1, ![r].tries = @ + 1]
      <3> DEFINE row == [req[r] EXCEPT !.pc = "reserved", !.seq = claim[ClaimOf[r]].seq + 1,
                                       !.slot = NoSlot, !.version = -1, !.tries = @ + 1]
      <3>1. req' = [req EXCEPT ![r] = row]
        BY <1>0, <2>1
      <3>2. row.cost = req[r].cost
        BY <1>0 DEF ReqRow
      <3> HIDE DEF row
      <3> QED BY <1>0, <1>2, <1>5, <3>1, <3>2 DEF ReqReserve
    <2> QED BY <1>3, <1>5, <2>1 DEF ReqReserve
  <1>6. CASE ReqInsertPending(r)
    <2>1. CASE req' = [req EXCEPT ![r].pc = "selecting", ![r].version = 0]
      <3>1. req' = [req EXCEPT ![r] = [req[r] EXCEPT !.pc = "selecting", !.version = 0]]
        BY <1>0, <2>1
      <3> QED BY <1>0, <1>2, <1>6, <3>1 DEF ReqInsertPending, ReqRow
    <2> QED BY <1>4, <1>6, <2>1 DEF ReqInsertPending
  <1>7. CASE ReqSelect(r)
    <2>1. ASSUME NEW s, req' = [req EXCEPT ![r].pc = "acquired", ![r].slot = s] PROVE Known
      <3>1. req' = [req EXCEPT ![r] = [req[r] EXCEPT !.pc = "acquired", !.slot = s]]
        BY <1>0, <2>1
      <3>2. req'[r].cost = req[r].cost
        BY <1>0, <3>1 DEF ReqRow
      <3>3. req[r].pc \notin Closing
        BY <1>7 DEF ReqSelect
      <3> QED BY <1>2, <3>2, <3>3
    <2> QED BY <1>4, <1>7, <2>1 DEF ReqSelect
  <1>8. CASE ReqCacheHit(r) \/ ReqSettle(r) \/ ReqEnqueue(r)
    <2>1. ASSUME NEW mark, req' = [req EXCEPT ![r].pc = "marking", ![r].mark = mark]
          PROVE  Known
      <3>1. req' = [req EXCEPT ![r] = [req[r] EXCEPT !.pc = "marking", !.mark = mark]]
        BY <1>0, <2>1
      <3> QED BY <1>0, <1>1, <3>1 DEF ReqRow
    <2> QED BY <1>3, <1>4, <1>8, <2>1 DEF ReqCacheHit, ReqSettle, ReqEnqueue
  <1>9. CASE ReqOpenGate(r)
    <2>1. CASE req' = [req EXCEPT ![r].pc = "writing", ![r].version = @ + 1]
      <3>1. req' = [req EXCEPT ![r] = [req[r] EXCEPT !.pc = "writing", !.version = @ + 1]]
        BY <1>0, <2>1
      <3> QED BY <1>0, <1>2, <1>9, <3>1 DEF ReqOpenGate, ReqRow
    <2> QED BY <1>4, <1>9, <2>1 DEF ReqOpenGate
  <1>10. CASE ReqWrite(r)
    <2>1. ASSUME NEW cost, req' = [req EXCEPT ![r].pc = "settling", ![r].cost = cost],
                 delivered' = delivered \cup {<<ClaimOf[r], req[r].seq>>}
          PROVE  Known
      <3>1. req' = [req EXCEPT ![r] = [req[r] EXCEPT !.pc = "settling", !.cost = cost]]
        BY <1>0, <2>1
      <3>2. req'[r].pc = "settling" /\ req'[r].seq = req[r].seq
        BY <1>0, <3>1 DEF ReqRow
      <3> QED BY <2>1, <3>2
    <2> QED BY <1>4, <1>10, <2>1 DEF ReqWrite
  <1>11. CASE ReqWriteAcquisition(r) \/ ReqMark(r) \/ ReqMarkAborted(r) \/ Crash(r)
    <2>1. ReqMarkAborted(r) => req[r].pc \notin Closing
      BY DEF ReqMarkAborted
    <2> QED BY <1>3, <1>11, <2>1 DEF ReqWriteAcquisition, ReqMark, ReqMarkAborted, Crash
  <1>12. CASE ReqReleaseSlot(r) \/ ReqUpstreamFails(r)
    BY <1>4, <1>12 DEF ReqReleaseSlot, ReqUpstreamFails
  <1>13. ASSUME req'[r] = req[r] PROVE Known
    BY <1>1, <1>13
  <1>14. CASE ReqAbortBegin(r) \/ ReqAbortCommit(r)
    BY <1>3, <1>13, <1>14 DEF ReqAbortBegin, ReqAbortCommit
  <1>15. ASSUME NEW o \in Requests, o # r, RequestStep(o) \/ Crash(o) PROVE req'[r] = req[r]
    BY <1>0, <1>15 DEF RequestStep, ReqReserve, ReqInsertPending, ReqSelect,
       ReqCacheHit, ReqWriteAcquisition, ReqReleaseSlot, ReqUpstreamFails, ReqOpenGate,
       ReqWrite, ReqSettle, ReqEnqueue, ReqMark, ReqAbortBegin, ReqAbortCommit,
       ReqMarkAborted, Crash, Goto
  <1>16. ASSUME \/ \E o \in Requests : Recover(o)
                \/ \E d \in Claims : ExpireLease(d) \/ RecoverUsage(d)
                \/ \E s \in Slots : SweepSlot(s)
                \/ LateDelivering \/ LeaseSweep \/ IntentSweep \/ UNCHANGED vars
         PROVE  UNCHANGED req
    BY <1>16 DEF Recover, ExpireLease, RecoverUsage, SweepSlot, LateDelivering, LeaseSweep,
       SweepSelect, SweepAbortBegin, SweepAbortCommit, IntentSweep, IntentList,
       IntentReadClaim, IntentCAS, pipelineVars, vars
  <1> QED BY <1>5, <1>6, <1>7, <1>8, <1>9, <1>10, <1>11, <1>12, <1>13, <1>14, <1>15, <1>16
          DEF PipelineNext, RequestStep

(* A charge is the cost a request remembers of its attempt of the claim.    *)
ChargedNow(c) ==
    /\ claim[c].status = "reserving" /\ claim'[c].seq = claim[c].seq
    /\ \E r \in Requests : ClaimOf[r] = c /\ req[r].cost # 0

LEMMA ChargesRemembered ==
    ASSUME CallerInv, [PipelineNext]_vars, NEW c \in Claims,
           claim'[c].status = "committed", claim'[c].actual > 0
    PROVE  claim'[c] = claim[c] \/ ChargedNow(c)
  <1> DEFINE Paid == claim'[c] = claim[c] \/ ChargedNow(c)
  <1>0. claim \in [Claims -> ClaimRow]
    BY DEF CallerInv, TypeOK
  <1>1. ASSUME claim'[c] = claim[c] PROVE Paid
    BY <1>1
  <1>2. ASSUME NEW d \in Claims, d # c,
               \/ \E cost \in Costs : Reserve(d, cost)
               \/ \E s : WriteAcquisition(d, s)
               \/ \E s, cost : Settle(d, s, cost)
               \/ Abort(d) \/ CommitCacheHit(d)
        PROVE  claim'[c] = claim[c]
    BY <1>0, <1>2 DEF Reserve, WriteAcquisition, Settle, Abort, CommitCacheHit
  <1>3. ASSUME \/ \E cost \in Costs : Reserve(c, cost)
               \/ \E s : WriteAcquisition(c, s)
               \/ Abort(c) \/ CommitCacheHit(c)
        PROVE  FALSE
    BY <1>0, <1>3 DEF Reserve, WriteAcquisition, Abort, CommitCacheHit, ClaimRow
  <1>4. ASSUME NEW r \in Requests, Priced(r), Settle(ClaimOf[r], req[r].slot, req[r].cost)
        PROVE  Paid
    <2>0. ClaimOf[r] \in Claims /\ req[r] \in ReqRow
      BY PipelineAssumption DEF PipelineAssumption, CallerInv, PipelineTypeOK
    <2>1. CASE ClaimOf[r] = c
      <3>1. /\ claim[c].status = "reserving" /\ claim'[c].seq = claim[c].seq
            /\ claim'[c].actual = req[r].cost
        BY <1>0, <1>4, <2>1 DEF Settle, ClaimRow
      <3> QED BY <2>1, <3>1 DEF ChargedNow
    <2>2. CASE ClaimOf[r] # c
      BY <1>1, <1>2, <1>4, <2>0, <2>2
    <2> QED BY <2>1, <2>2
  <1>5. ASSUME UNCHANGED claim PROVE Paid
    BY <1>1, <1>5
  <1>6. ASSUME NEW r \in Requests, RequestStep(r) PROVE Paid
    <2>0. ClaimOf[r] \in Claims
      BY PipelineAssumption DEF PipelineAssumption
    <2>1. CASE ReqSettle(r)
      <3>1. Priced(r)
        BY <2>1 DEF ReqSettle, CallerInv, RequestsPriced
      <3> QED BY <1>4, <1>5, <2>1, <3>1 DEF ReqSettle, NoLedgerStep, ledgerVars
    <2>2. CASE ReqReserve(r) \/ ReqCacheHit(r) \/ ReqWriteAcquisition(r) \/ ReqAbortCommit(r)
      <3>1. \/ UNCHANGED claim
            \/ \E cost \in Costs : Reserve(ClaimOf[r], cost)
            \/ \E s : WriteAcquisition(ClaimOf[r], s)
            \/ Abort(ClaimOf[r]) \/ CommitCacheHit(ClaimOf[r])
        BY <2>2 DEF ReqReserve, ReqCacheHit, ReqWriteAcquisition, ReqAbortCommit,
           NoLedgerStep, ledgerVars
      <3> QED BY <1>1, <1>2, <1>3, <1>5, <2>0, <3>1
    <2>3. CASE \/ ReqInsertPending(r) \/ ReqSelect(r) \/ ReqReleaseSlot(r)
               \/ ReqUpstreamFails(r) \/ ReqOpenGate(r) \/ ReqWrite(r) \/ ReqEnqueue(r)
               \/ ReqMark(r) \/ ReqAbortBegin(r) \/ ReqMarkAborted(r)
      <3>1. UNCHANGED claim
        BY <2>3 DEF ReqInsertPending, ReqSelect, ReqReleaseSlot, ReqUpstreamFails,
           ReqOpenGate, ReqWrite, ReqEnqueue, ReqMark, ReqAbortBegin, ReqMarkAborted,
           Acquire, SelectorRelease, NoLedgerStep, ledgerVars
      <3> QED BY <1>5, <3>1
    <2> QED BY <1>6, <2>1, <2>2, <2>3 DEF RequestStep
  <1>7. ASSUME NEW r \in Requests, Recover(r) PROVE Paid
    <2>1. Priced(r)
      BY <1>7 DEF Recover, CallerInv, RequestsPriced
    <2> QED BY <1>4, <1>5, <1>7, <2>1 DEF Recover, NoLedgerStep, ledgerVars
  <1>8. CASE SweepAbortCommit
    <2>1. abortTx[Sweeper].claim \in Claims
      BY <1>8 DEF SweepAbortCommit, CallerInv, PipelineTypeOK, Aborters
    <2>2. UNCHANGED claim \/ Abort(abortTx[Sweeper].claim)
      BY <1>8 DEF SweepAbortCommit, NoLedgerStep, ledgerVars
    <2> QED BY <1>1, <1>2, <1>3, <1>5, <2>1, <2>2
  <1>9. ASSUME \/ \E r \in Requests : Crash(r)
               \/ \E d \in Claims : ExpireLease(d) \/ RecoverUsage(d) \/ SweepSelect(d)
               \/ \E s \in Slots : SweepSlot(s)
               \/ LateDelivering \/ SweepAbortBegin \/ IntentSweep \/ UNCHANGED vars
        PROVE  UNCHANGED claim
    BY <1>9 DEF Crash, ExpireLease, RecoverUsage, ReplayUsage, ReplayLook, ReplayInsert, ReplayMark,
       NoUsageStep, SweepSelect, SweepSlot,
       SweepOrphanSlot, LateDelivering, SweepAbortBegin, IntentSweep, IntentList,
       IntentReadClaim, IntentCAS, NoLedgerStep, ledgerVars, vars
  <1> QED BY <1>5, <1>6, <1>7, <1>8, <1>9 DEF PipelineNext, LeaseSweep

LEMMA ChargeStays ==
    ASSUME CallerInv, ChargeInv, [PipelineNext]_vars
    PROVE  NoChargeWithoutDelivery'
  <1> SUFFICES ASSUME NEW c \in Claims, claim'[c].status = "committed", claim'[c].actual > 0
               PROVE  \E q \in Attempts : <<c, q>> \in delivered'
    BY DEF NoChargeWithoutDelivery
  <1>1. delivered \subseteq delivered' /\ delivered \subseteq Claims \X Attempts
    BY DeliveredGrows DEF CallerInv, PipelineTypeOK
  <1>2. CASE claim'[c] = claim[c]
    BY <1>1, <1>2 DEF ChargeInv, NothingUnearnedNothingLost, NoChargeWithoutDelivery
  <1>3. CASE ChargedNow(c)
    <2>1. PICK r \in Requests : <<c, req[r].seq>> \in delivered
      BY <1>3 DEF ChargedNow, ChargeInv, Answered
    <2> QED BY <1>1, <2>1
  <1> QED BY <1>2, <1>3, ChargesRemembered

(* A recovery row is delivered with the charge, or after it.                *)
LEMMA RecoveredStays ==
    ASSUME CallerInv, ChargeInv, [PipelineNext]_vars
    PROVE  RecoveredMeansCharged'
  <1> SUFFICES ASSUME NEW r \in Requests, recovery'[r] = "delivered"
               PROVE  claim'[ClaimOf[r]].status = "committed"
    BY DEF RecoveredMeansCharged
  <1>0. /\ ClaimOf[r] \in Claims /\ claim[ClaimOf[r]] \in ClaimRow
        /\ claim \in [Claims -> ClaimRow]
        /\ recovery \in [Requests -> {"none", "pending", "delivered"}]
    BY PipelineAssumption DEF PipelineAssumption, CallerInv, TypeOK, PipelineTypeOK
  <1>1. ASSUME claim[ClaimOf[r]].status = "committed"
        PROVE  claim'[ClaimOf[r]].status = "committed"
    <2>1. /\ \A cost \in Costs : ~Reserve(ClaimOf[r], cost)
          /\ \A s \in SlotsOf(ClaimOf[r]) : ~WriteAcquisition(ClaimOf[r], s)
          /\ \A s \in SlotsOf(ClaimOf[r]), cost \in Costs : ~Settle(ClaimOf[r], s, cost)
          /\ ~Abort(ClaimOf[r]) /\ ~CommitCacheHit(ClaimOf[r])
      BY <1>1 DEF Reserve, WriteAcquisition, Settle, Abort, CommitCacheHit
    <2> QED BY <1>0, <1>1, <2>1, StepUsesLedger, OthersUntouched DEF CallerInv
  <1>2. CASE recovery[r] = "delivered"
    BY <1>1, <1>2 DEF ChargeInv, NothingUnearnedNothingLost, RecoveredMeansCharged
  <1>3. CASE recovery[r] # "delivered"
    <2>1. CASE Recover(r)
      <3>1. CASE Settle(ClaimOf[r], req[r].slot, req[r].cost)
        BY <1>0, <3>1 DEF Settle, ClaimRow
      <3> QED BY <1>1, <2>1, <3>1 DEF Recover, CommittedProof
    <2>2. ASSUME NEW o \in Requests, o # r, Recover(o) PROVE recovery'[r] = recovery[r]
      BY <1>0, <2>2 DEF Recover
    <2>3. ASSUME NEW o, Publish(o) PROVE recovery'[r] # "delivered"
      BY <1>0, <1>3, <2>3 DEF Publish
    <2>4. ASSUME NEW o \in Requests, RequestStep(o) \/ Crash(o)
          PROVE  UNCHANGED recovery \/ Publish(o)
      BY <2>4 DEF RequestStep, ReqReserve, ReqInsertPending, ReqSelect, ReqCacheHit,
         ReqWriteAcquisition, ReqReleaseSlot, ReqUpstreamFails, ReqOpenGate, ReqWrite,
         ReqSettle, ReqEnqueue, ReqMark, ReqAbortBegin, ReqAbortCommit, ReqMarkAborted, Crash
    <2>5. ASSUME \/ \E d \in Claims : ExpireLease(d) \/ RecoverUsage(d)
                 \/ \E s \in Slots : SweepSlot(s)
                 \/ LateDelivering \/ LeaseSweep \/ IntentSweep \/ UNCHANGED vars
          PROVE  UNCHANGED recovery \/ \E o : Publish(o)
      BY <2>5 DEF ExpireLease, RecoverUsage, SweepSlot, LateDelivering, LeaseSweep,
         SweepSelect, SweepAbortBegin, SweepAbortCommit, IntentSweep, IntentList,
         IntentReadClaim, IntentCAS, pipelineVars, vars
    <2> QED BY <1>3, <2>1, <2>2, <2>3, <2>4, <2>5 DEF PipelineNext
  <1> QED BY <1>2, <1>3

LEMMA ChargesRecalled == PipelineSpec => []ChargeInv
  <1>1. PipelineInit => ChargeInv
    BY DEF PipelineInit, LedgerInit, ChargeInv, Answered, NothingUnearnedNothingLost,
       NoChargeWithoutDelivery, RecoveredMeansCharged
  <1>2. CallerInv /\ ChargeInv /\ [PipelineNext]_vars => ChargeInv'
    BY AnsweredStays, ChargeStays, RecoveredStays DEF ChargeInv, NothingUnearnedNothingLost
  <1> QED BY <1>1, <1>2, CallersRemember, PTL DEF PipelineSpec

(***************************************************************************)
(* Nobody pays for a response no part of which any client received, and the *)
(* recovery queue forgets a settlement only once it is paid                 *)
(* (NothingUnearnedNothingLost): under any crashes, failed calls and late   *)
(* writes, with leases that run out under a running attempt.                *)
(***************************************************************************)
THEOREM ChargesAreEarned == PipelineSpec => []NothingUnearnedNothingLost
<1>1. ChargeInv => NothingUnearnedNothingLost
  BY DEF ChargeInv
<1> QED
  BY <1>1, ChargesRecalled, PTL

-----------------------------------------------------------------------------
(***************************************************************************)
(* While no attempt outlives its lease and the sweeper is prompt, an        *)
(* attempt that delivered is never ended at zero cost.  An abort is decided *)
(* on a snapshot that does not see a gate opened after it; what keeps the   *)
(* two apart is that whoever aborts is alone with the attempt.  A request   *)
(* works on the claim's present attempt, no two on one; the sweeper only    *)
(* takes attempts nobody works on; and while nobody does, an attempt that   *)
(* delivered has left its evidence.                                         *)
(***************************************************************************)
Committed(c, q) == claim[c].seq = q /\ claim[c].status = "committed"
Ended(c, q) == claim[c].seq > q \/ (claim[c].seq = q /\ claim[c].status = "aborted")

(* From its reservation until the answer to its abort, or its end.          *)
Works(r) == Running(r) /\ req[r].pc # "aborted"

Undelivering == {"reserved", "selecting", "acquired", "releasing", "dispatched", "writing",
                 "aborting"}

OnPresentAttempt ==
    \A r \in Requests :
        Works(r) =>
            /\ claim[ClaimOf[r]].seq = req[r].seq
            /\ claim[ClaimOf[r]].status \in {"reserving", "committed"}
            /\ req[r].pc = "marking" /\ req[r].mark = "settled"
                  => claim[ClaimOf[r]].status = "committed"
            /\ req[r].pc = "writing" /\ claim[ClaimOf[r]].status = "reserving"
                  => intent[ClaimOf[r]][req[r].seq].status \in Unresolved

AbortedHasEnded == \A r \in Requests : req[r].pc = "aborted" => Ended(ClaimOf[r], req[r].seq)

OwnAttempts ==
    \A r, o \in Requests :
        r # o /\ ClaimOf[r] = ClaimOf[o] /\ req[r].seq = req[o].seq => req[r].seq = 0

OwnTransactions == \A r \in Requests : abortTx[r] # Idle => abortTx[r].claim = ClaimOf[r]

NotYetDelivered ==
    \A r \in Requests : req[r].pc \in Undelivering => <<ClaimOf[r], req[r].seq>> \notin delivered

LeasesHold ==
    \A r \in Requests :
        Running(r) /\ expired[ClaimOf[r]] /\ claim[ClaimOf[r]].status = "reserving"
            => req[r].seq # claim[ClaimOf[r]].seq

(* What the lease sweeper selected has expired, and still is if it is still *)
(* the claim's attempt; its transaction is of that attempt, undelivered.    *)
SweepsExpired ==
    leaseSweeper # Idle =>
        /\ claim[leaseSweeper.claim].seq >= leaseSweeper.seq
        /\ claim[leaseSweeper.claim].seq = leaseSweeper.seq => expired[leaseSweeper.claim]

SweepsUndelivered ==
    LET tx == abortTx[Sweeper] IN
    tx # Idle =>
        /\ leaseSweeper # Idle /\ leaseSweeper.claim = tx.claim /\ leaseSweeper.seq = tx.row.seq
        /\ claim[tx.claim].seq = tx.row.seq /\ claim[tx.claim].status = "reserving"
              => <<tx.claim, tx.row.seq>> \notin delivered

(* The status an intent has, or its sweeper carries, is that of its attempt. *)
Agrees(status, c, q) ==
    /\ status = "settled" => Committed(c, q)
    /\ status = "aborted" => Ended(c, q)
    /\ status = "superseded" => claim[c].seq > q

IntentsAgree ==
    /\ \A c \in Claims, q \in Attempts : Agrees(intent[c][q].status, c, q)
    /\ intentSweeper # Idle => Agrees(intentSweeper.mark, intentSweeper.claim, intentSweeper.seq)

(* A delivered attempt is the claim's last, paid or with its evidence.      *)
DeliveredIsKept ==
    \A c \in Claims, q \in Attempts :
        <<c, q>> \in delivered =>
            /\ claim[c].seq = q /\ claim[c].status \in {"reserving", "committed"}
            /\ claim[c].status = "reserving" => intent[c][q].status \in Unresolved

TimingInv ==
    /\ OnPresentAttempt /\ AbortedHasEnded /\ OwnAttempts /\ OwnTransactions /\ NotYetDelivered
    /\ LeasesHold /\ SweepsExpired /\ SweepsUndelivered /\ IntentsAgree /\ DeliveredIsKept
    /\ ChargedAttemptWasDelivered

LEMMA InitTiming == PipelineInit => TimingInv
  <1> SUFFICES ASSUME PipelineInit PROVE TimingInv
    OBVIOUS
  <1>1. /\ \A r \in Requests : req[r].pc = "start" /\ req[r].seq = 0
        /\ \A c \in Claims : claim[c].status = "none"
        /\ \A c \in Claims, q \in Attempts : intent[c][q].status = "absent"
        /\ leaseSweeper = Idle /\ intentSweeper = Idle
        /\ abortTx[Sweeper] = Idle /\ \A r \in Requests : abortTx[r] = Idle
        /\ delivered = {}
    BY DEF PipelineInit, LedgerInit, Aborters
  <1> QED
    BY <1>1, PipelineAssumption
       DEF PipelineAssumption, TimingInv, OnPresentAttempt, AbortedHasEnded, OwnAttempts,
       OwnTransactions, NotYetDelivered, LeasesHold, SweepsExpired, SweepsUndelivered,
       IntentsAgree, Agrees, DeliveredIsKept, ChargedAttemptWasDelivered, Works, Running,
       Undelivering

-----------------------------------------------------------------------------
(* How a claim's row moves, and in whose step.                              *)
ClaimMoved(d) ==
    \/ claim'[d].seq = claim[d].seq /\ claim'[d].status = claim[d].status
    \/ /\ claim[d].status = "reserving" /\ claim'[d].status = "committed"
       /\ claim'[d].seq = claim[d].seq
    \/ /\ claim[d].status = "reserving" /\ claim'[d].status = "aborted"
       /\ claim'[d].seq = claim[d].seq
       /\ \/ \E r \in Requests : ClaimOf[r] = d /\ ReqAbortCommit(r)
          \/ /\ SweepAbortCommit /\ abortTx[Sweeper].claim = d
             /\ abortTx[Sweeper].row = claim[d]
    \/ /\ claim[d].status \in {"none", "aborted"} /\ claim'[d].status = "reserving"
       /\ claim'[d].seq = claim[d].seq + 1
       /\ \E r \in Requests : ClaimOf[r] = d /\ ReqReserve(r)

LEMMA ClaimMoves ==
    ASSUME CallerInv, [PipelineNext]_vars, NEW d \in Claims
    PROVE  ClaimMoved(d)
  <1>0. /\ claim \in [Claims -> ClaimRow] /\ claim[d] \in ClaimRow
        /\ \A r \in Requests : ClaimOf[r] \in Claims
    BY PipelineAssumption DEF PipelineAssumption, CallerInv, TypeOK
  <1>1. ASSUME UNCHANGED claim PROVE ClaimMoved(d)
    BY <1>1 DEF ClaimMoved
  <1>2. ASSUME NEW c \in Claims, c # d,
               \/ \E cost \in Costs : Reserve(c, cost)
               \/ \E s : WriteAcquisition(c, s)
               \/ \E s, cost : Settle(c, s, cost)
               \/ Abort(c) \/ CommitCacheHit(c)
        PROVE  ClaimMoved(d)
    <2>1. claim'[d] = claim[d]
      BY <1>0, <1>2 DEF Reserve, WriteAcquisition, Settle, Abort, CommitCacheHit
    <2> QED BY <2>1 DEF ClaimMoved
  <1>3. ASSUME \/ \E s : WriteAcquisition(d, s)
               \/ \E s, cost : Settle(d, s, cost)
               \/ CommitCacheHit(d)
        PROVE  ClaimMoved(d)
    BY <1>0, <1>3 DEF WriteAcquisition, Settle, CommitCacheHit, ClaimMoved, ClaimRow
  <1>4. ASSUME Abort(d)
        PROVE  /\ claim[d].status = "reserving" /\ claim'[d].status = "aborted"
               /\ claim'[d].seq = claim[d].seq
    BY <1>0, <1>4 DEF Abort, ClaimRow
  <1>5. ASSUME NEW r \in Requests, RequestStep(r) PROVE ClaimMoved(d)
    <2>1. CASE ReqReserve(r)
      <3>1. CASE ClaimOf[r] = d /\ ~UNCHANGED claim
        <4>1. PICK cost \in Costs : Reserve(d, cost)
          BY <2>1, <3>1 DEF ReqReserve, NoLedgerStep, ledgerVars
        <4> QED BY <1>0, <2>1, <3>1, <4>1 DEF Reserve, ClaimMoved, ClaimRow
      <3> QED BY <1>0, <1>1, <1>2, <2>1, <3>1 DEF ReqReserve, NoLedgerStep, ledgerVars
    <2>2. CASE ReqAbortCommit(r)
      <3>1. UNCHANGED claim \/ Abort(ClaimOf[r])
        BY <2>2 DEF ReqAbortCommit, NoLedgerStep, ledgerVars
      <3> QED BY <1>0, <1>1, <1>2, <1>4, <2>2, <3>1 DEF ClaimMoved
    <2>3. CASE ReqSettle(r) \/ ReqCacheHit(r) \/ ReqWriteAcquisition(r)
      <3>1. \/ UNCHANGED claim
            \/ \E s : WriteAcquisition(ClaimOf[r], s)
            \/ \E s, cost : Settle(ClaimOf[r], s, cost)
            \/ CommitCacheHit(ClaimOf[r])
        BY <2>3 DEF ReqSettle, ReqCacheHit, ReqWriteAcquisition, NoLedgerStep, ledgerVars
      <3> QED BY <1>0, <1>1, <1>2, <1>3, <3>1
    <2>4. CASE \/ ReqInsertPending(r) \/ ReqSelect(r) \/ ReqReleaseSlot(r)
               \/ ReqUpstreamFails(r) \/ ReqOpenGate(r) \/ ReqWrite(r) \/ ReqEnqueue(r)
               \/ ReqMark(r) \/ ReqAbortBegin(r) \/ ReqMarkAborted(r)
      <3>1. UNCHANGED claim
        BY <2>4 DEF ReqInsertPending, ReqSelect, ReqReleaseSlot, ReqUpstreamFails,
           ReqOpenGate, ReqWrite, ReqEnqueue, ReqMark, ReqAbortBegin, ReqMarkAborted,
           Acquire, SelectorRelease, NoLedgerStep, ledgerVars
      <3> QED BY <1>1, <3>1
    <2> QED BY <1>5, <2>1, <2>2, <2>3, <2>4 DEF RequestStep
  <1>6. ASSUME NEW r \in Requests, Recover(r) PROVE ClaimMoved(d)
    <2>1. UNCHANGED claim \/ Settle(ClaimOf[r], req[r].slot, req[r].cost)
      BY <1>6 DEF Recover, NoLedgerStep, ledgerVars
    <2> QED BY <1>0, <1>1, <1>2, <1>3, <2>1
  <1>7. CASE SweepAbortCommit
    <2>1. abortTx[Sweeper].claim \in Claims
      BY <1>7 DEF SweepAbortCommit, CallerInv, PipelineTypeOK, Aborters
    <2>2. \/ UNCHANGED claim
          \/ RowUnchanged(Sweeper) /\ Abort(abortTx[Sweeper].claim)
      BY <1>7 DEF SweepAbortCommit, NoLedgerStep, ledgerVars
    <2> QED BY <1>1, <1>2, <1>4, <1>7, <2>1, <2>2 DEF ClaimMoved, RowUnchanged
  <1>8. ASSUME \/ \E r \in Requests : Crash(r)
               \/ \E c \in Claims : ExpireLease(c) \/ RecoverUsage(c) \/ SweepSelect(c)
               \/ \E s \in Slots : SweepSlot(s)
               \/ LateDelivering \/ SweepAbortBegin \/ IntentSweep \/ UNCHANGED vars
        PROVE  UNCHANGED claim
    BY <1>8 DEF Crash, ExpireLease, RecoverUsage, ReplayUsage, ReplayLook, ReplayInsert, ReplayMark,
       NoUsageStep, SweepSelect, SweepSlot,
       SweepOrphanSlot, LateDelivering, SweepAbortBegin, IntentSweep, IntentList,
       IntentReadClaim, IntentCAS, NoLedgerStep, ledgerVars, vars
  <1> QED BY <1>1, <1>5, <1>6, <1>7, <1>8 DEF PipelineNext, LeaseSweep

(* What has ended stays so, and a claim's attempts only grow.               *)
LEMMA AgreeingStays ==
    ASSUME CallerInv, [PipelineNext]_vars, NEW c \in Claims, NEW q \in Nat, NEW status
    PROVE  /\ Agrees(status, c, q) => Agrees(status, c, q)'
           /\ Ended(c, q) => Ended(c, q)'
           /\ Committed(c, q) => Committed(c, q)'
           /\ claim[c].seq <= claim'[c].seq
  <1>1. claim[c].seq \in Nat /\ ClaimMoved(c)
    BY ClaimMoves DEF CallerInv, TypeOK, ClaimRow
  <1> QED BY <1>1 DEF ClaimMoved, Agrees, Ended, Committed

(* How a request moves.  It begins an attempt, or goes on with the one it   *)
(* has: then it works only if it has worked, and what it has done shows.    *)
Begins(r) ==
    LET c == ClaimOf[r] IN
    /\ req'[r].pc = "reserved" /\ req'[r].seq = claim[c].seq + 1
    /\ claim[c].status \in {"none", "aborted"}
    /\ claim'[c].seq = claim[c].seq + 1 /\ claim'[c].status = "reserving"
    /\ ~expired'[c]

GoesOn(r) ==
    LET c == ClaimOf[r] IN
    /\ req'[r].seq = req[r].seq
    /\ req'[r].pc \notin {"start", "done", "crashed"} => Works(r)
    /\ req'[r].pc \in Undelivering => req[r].pc \in Undelivering
    /\ req'[r].pc = "aborted" => claim'[c].seq = claim[c].seq /\ claim'[c].status = "aborted"
    /\ req'[r].pc = "writing" => intent'[c][req[r].seq].status = "delivering"
    /\ req'[r].pc = "marking" /\ req'[r].mark = "settled" => claim'[c].status = "committed"

RequestMoved(r) == req'[r] = req[r] \/ Begins(r) \/ GoesOn(r)

LEMMA RequestSteps ==
    ASSUME CallerInv, NEW r \in Requests, RequestStep(r) \/ Crash(r)
    PROVE  RequestMoved(r)
  <1> DEFINE c == ClaimOf[r]
             To(pc) == req'[r].pc = pc /\ req'[r].seq = req[r].seq
  <1>0. /\ c \in Claims /\ req[r] \in ReqRow /\ req \in [Requests -> ReqRow]
        /\ claim \in [Claims -> ClaimRow] /\ claim[c] \in ClaimRow
        /\ expired \in [Claims -> BOOLEAN]
    BY PipelineAssumption DEF PipelineAssumption, CallerInv, PipelineTypeOK, TypeOK
  <1>1. ASSUME NEW pc, Goto(r, pc) PROVE To(pc)
    BY <1>0, <1>1 DEF Goto, ReqRow
  <1>2. ASSUME NEW next, req' = [req EXCEPT ![r].pc = "aborting", ![r].then = next]
        PROVE  To("aborting")
    <2>1. req' = [req EXCEPT ![r] = [req[r] EXCEPT !.pc = "aborting", !.then = next]]
      BY <1>0, <1>2
    <2> QED BY <1>0, <2>1 DEF ReqRow
  <1>3. ASSUME NEW mark, req' = [req EXCEPT ![r].pc = "marking", ![r].mark = mark]
        PROVE  To("marking") /\ req'[r].mark = mark
    <2>1. req' = [req EXCEPT ![r] = [req[r] EXCEPT !.pc = "marking", !.mark = mark]]
      BY <1>0, <1>3
    <2> QED BY <1>0, <2>1 DEF ReqRow
  <1>4. ASSUME NEW pc \in {"start", "done", "crashed"}, To(pc) PROVE RequestMoved(r)
    BY <1>4 DEF RequestMoved, GoesOn, Undelivering
  <1>5. ASSUME NEW pc \in Undelivering \cup {"settling", "enqueue"}, pc # "writing", To(pc),
               Works(r), pc \in Undelivering => req[r].pc \in Undelivering
        PROVE  RequestMoved(r)
    BY <1>5 DEF RequestMoved, GoesOn, Undelivering
  <1>6. ASSUME To("marking"), Works(r), req'[r].mark = "settled" => claim'[c].status = "committed"
        PROVE  RequestMoved(r)
    BY <1>6 DEF RequestMoved, GoesOn, Undelivering
  <1> DEFINE At(pc) == req[r].pc = pc
  <1>7. CASE ReqReserve(r)
    <2>1. CASE Goto(r, "done")
      BY <1>1, <1>4, <2>1
    <2>2. CASE /\ \E cost \in Costs : Reserve(c, cost)
               /\ expired' = [expired EXCEPT ![c] = FALSE]
               /\ req' = [req EXCEPT ![r].pc = "reserved", ![r].seq = claim[c].seq + 1,
                                     ![r].slot = NoSlot, ![r].version = -1,
                                     ![r].tries = @ + 1]
      <3>1. /\ claim'[c].seq = claim[c].seq + 1 /\ claim'[c].status = "reserving"
            /\ claim[c].status \in {"none", "aborted"} /\ ~expired'[c]
        BY <1>0, <2>2 DEF Reserve
      <3>2. req'[r].pc = "reserved" /\ req'[r].seq = claim[c].seq + 1
        <4> DEFINE row == [req[r] EXCEPT !.pc = "reserved", !.seq = claim[c].seq + 1,
                                         !.slot = NoSlot, !.version = -1, !.tries = @ + 1]
        <4>1. req' = [req EXCEPT ![r] = row]
          BY <1>0, <2>2
        <4>2. row.pc = "reserved" /\ row.seq = claim[c].seq + 1
          BY <1>0 DEF ReqRow
        <4> HIDE DEF row
        <4> QED BY <1>0, <4>1, <4>2
      <3> QED BY <3>1, <3>2 DEF RequestMoved, Begins
    <2> QED BY <1>7, <2>1, <2>2 DEF ReqReserve
  <1>8. CASE ReqInsertPending(r)
    <2>1. At("reserved") /\ Works(r)
      BY <1>8 DEF ReqInsertPending, Works, Running
    <2>2. CASE req' = [req EXCEPT ![r].pc = "selecting", ![r].version = 0]
      <3>1. req' = [req EXCEPT ![r] = [req[r] EXCEPT !.pc = "selecting", !.version = 0]]
        BY <1>0, <2>2
      <3>2. To("selecting")
        BY <1>0, <3>1 DEF ReqRow
      <3> QED BY <1>5, <2>1, <3>2 DEF Undelivering
    <2>3. CASE \E next : req' = [req EXCEPT ![r].pc = "aborting", ![r].then = next]
      BY <1>2, <1>5, <2>1, <2>3 DEF Undelivering
    <2> QED BY <1>8, <2>2, <2>3 DEF ReqInsertPending
  <1>9. CASE ReqSelect(r)
    <2>1. At("selecting") /\ Works(r)
      BY <1>9 DEF ReqSelect, Works, Running
    <2>2. ASSUME NEW s, req' = [req EXCEPT ![r].pc = "acquired", ![r].slot = s]
          PROVE  RequestMoved(r)
      <3>1. req' = [req EXCEPT ![r] = [req[r] EXCEPT !.pc = "acquired", !.slot = s]]
        BY <1>0, <2>2
      <3>2. To("acquired")
        BY <1>0, <3>1 DEF ReqRow
      <3> QED BY <1>5, <2>1, <3>2 DEF Undelivering
    <2>3. CASE \E next : req' = [req EXCEPT ![r].pc = "aborting", ![r].then = next]
      BY <1>2, <1>5, <2>1, <2>3 DEF Undelivering
    <2> QED BY <1>9, <2>2, <2>3 DEF ReqSelect
  <1>10. CASE ReqCacheHit(r)
    <2>1. At("selecting") /\ Works(r)
      BY <1>10 DEF ReqCacheHit, Works, Running
    <2>2. CASE /\ CommitCacheHit(c)
               /\ req' = [req EXCEPT ![r].pc = "marking", ![r].mark = "settled"]
      <3>1. claim'[c].status = "committed"
        BY <1>0, <2>2 DEF CommitCacheHit, ClaimRow
      <3> QED BY <1>3, <1>6, <2>1, <2>2, <3>1
    <2>3. CASE \E next : req' = [req EXCEPT ![r].pc = "aborting", ![r].then = next]
      BY <1>2, <1>5, <2>1, <2>3 DEF Undelivering
    <2> QED BY <1>10, <2>2, <2>3 DEF ReqCacheHit
  <1>11. CASE ReqWriteAcquisition(r)
    <2>1. At("acquired") /\ Works(r) /\ (Goto(r, "dispatched") \/ Goto(r, "releasing"))
      BY <1>11 DEF ReqWriteAcquisition, Works, Running
    <2> QED BY <1>1, <1>5, <2>1 DEF Undelivering
  <1>12. CASE ReqReleaseSlot(r) \/ ReqUpstreamFails(r)
    <2>1. /\ (At("releasing") \/ At("dispatched")) /\ Works(r)
          /\ \E next : req' = [req EXCEPT ![r].pc = "aborting", ![r].then = next]
      BY <1>12 DEF ReqReleaseSlot, ReqUpstreamFails, Works, Running
    <2> QED BY <1>2, <1>5, <2>1 DEF Undelivering
  <1>13. CASE ReqOpenGate(r)
    <2>1. At("dispatched") /\ Works(r)
      BY <1>13 DEF ReqOpenGate, Works, Running
    <2>2. CASE /\ SetIntent(c, req[r].seq, "delivering")
               /\ req' = [req EXCEPT ![r].pc = "writing", ![r].version = @ + 1]
      <3>1. req' = [req EXCEPT ![r] = [req[r] EXCEPT !.pc = "writing", !.version = @ + 1]]
        BY <1>0, <2>2
      <3>2. To("writing")
        BY <1>0, <3>1 DEF ReqRow
      <3>3. intent'[c][req[r].seq].status = "delivering"
        <4>1. req[r].seq \in Attempts
          BY <2>1, AttemptExists
        <4> QED BY <1>0, <2>2, <4>1, IntentWritten
                DEF CallerInv, PipelineTypeOK, IntentStatus
      <3> QED BY <2>1, <3>2, <3>3 DEF RequestMoved, GoesOn, Undelivering
    <2>3. CASE \E next : req' = [req EXCEPT ![r].pc = "aborting", ![r].then = next]
      BY <1>2, <1>5, <2>1, <2>3 DEF Undelivering
    <2> QED BY <1>13, <2>2, <2>3 DEF ReqOpenGate
  <1>14. CASE ReqWrite(r)
    <2>1. At("writing") /\ Works(r)
      BY <1>14 DEF ReqWrite, Works, Running
    <2>2. ASSUME NEW cost, req' = [req EXCEPT ![r].pc = "settling", ![r].cost = cost]
          PROVE  RequestMoved(r)
      <3>1. req' = [req EXCEPT ![r] = [req[r] EXCEPT !.pc = "settling", !.cost = cost]]
        BY <1>0, <2>2
      <3>2. To("settling")
        BY <1>0, <3>1 DEF ReqRow
      <3> QED BY <1>5, <2>1, <3>2 DEF Undelivering
    <2>3. CASE \E next : req' = [req EXCEPT ![r].pc = "aborting", ![r].then = next]
      BY <1>2, <1>5, <2>1, <2>3 DEF Undelivering
    <2> QED BY <1>14, <2>2, <2>3 DEF ReqWrite
  <1>15. CASE ReqSettle(r)
    <2>1. At("settling") /\ Works(r)
      BY <1>15 DEF ReqSettle, Works, Running
    <2>2. CASE /\ Settle(c, req[r].slot, req[r].cost)
               /\ req' = [req EXCEPT ![r].pc = "marking", ![r].mark = "settled"]
      <3>1. claim'[c].status = "committed"
        BY <1>0, <2>2 DEF Settle, ClaimRow
      <3> QED BY <1>3, <1>6, <2>1, <2>2, <3>1
    <2>3. CASE Goto(r, "enqueue")
      BY <1>1, <1>5, <2>1, <2>3 DEF Undelivering
    <2> QED BY <1>15, <2>2, <2>3 DEF ReqSettle
  <1>16. CASE ReqEnqueue(r)
    <2>1. Works(r) /\ \E mark \in {"settling", "failed"} :
                         req' = [req EXCEPT ![r].pc = "marking", ![r].mark = mark]
      BY <1>16 DEF ReqEnqueue, Works, Running
    <2> QED BY <1>3, <1>6, <2>1
  <1>17. CASE ReqMark(r) \/ ReqMarkAborted(r) \/ Crash(r)
    <2>1. \E pc \in {"start", "done", "crashed"} : Goto(r, pc)
      <3>1. req[r].then \in {"start", "done"}
        BY <1>0 DEF ReqRow
      <3> QED BY <1>17, <3>1 DEF ReqMark, ReqMarkAborted, Crash
    <2> QED BY <1>1, <1>4, <2>1
  <1>18. CASE ReqAbortBegin(r)
    BY <1>1, <1>4, <1>18 DEF ReqAbortBegin, RequestMoved
  <1>19. CASE ReqAbortCommit(r)
    <2>1. Works(r)
      BY <1>19 DEF ReqAbortCommit, Works, Running
    <2>2. CASE Abort(c) /\ Goto(r, "aborted")
      <3>1. claim'[c].status = "aborted" /\ claim'[c].seq = claim[c].seq
        BY <1>0, <2>2 DEF Abort, ClaimRow
      <3> QED BY <1>1, <2>1, <2>2, <3>1 DEF RequestMoved, GoesOn, Undelivering
    <2>3. CASE Goto(r, "done")
      BY <1>1, <1>4, <2>3
    <2> QED BY <1>19, <2>2, <2>3 DEF ReqAbortCommit, RequestMoved
  <1> QED BY <1>7, <1>8, <1>9, <1>10, <1>11, <1>12, <1>13, <1>14, <1>15, <1>16, <1>17, <1>18,
             <1>19 DEF RequestStep

LEMMA RequestsMove ==
    ASSUME CallerInv, [PipelineNext]_vars, NEW r \in Requests
    PROVE  RequestMoved(r)
  <1>0. req \in [Requests -> ReqRow]
    BY DEF CallerInv, PipelineTypeOK
  <1>1. ASSUME NEW o \in Requests, o # r, RequestStep(o) \/ Crash(o) PROVE req'[r] = req[r]
    BY <1>0, <1>1 DEF RequestStep, ReqReserve, ReqInsertPending, ReqSelect,
       ReqCacheHit, ReqWriteAcquisition, ReqReleaseSlot, ReqUpstreamFails, ReqOpenGate,
       ReqWrite, ReqSettle, ReqEnqueue, ReqMark, ReqAbortBegin, ReqAbortCommit,
       ReqMarkAborted, Crash, Goto
  <1>2. ASSUME \/ \E o \in Requests : Recover(o)
               \/ \E d \in Claims : ExpireLease(d) \/ RecoverUsage(d)
               \/ \E s \in Slots : SweepSlot(s)
               \/ LateDelivering \/ LeaseSweep \/ IntentSweep \/ UNCHANGED vars
        PROVE  UNCHANGED req
    BY <1>2 DEF Recover, ExpireLease, RecoverUsage, SweepSlot, LateDelivering, LeaseSweep,
       SweepSelect, SweepAbortBegin, SweepAbortCommit, IntentSweep, IntentList,
       IntentReadClaim, IntentCAS, pipelineVars, vars
  <1> QED BY <1>1, <1>2, RequestSteps DEF PipelineNext, RequestMoved

(* How an intent moves: on towards a settlement, or to an end that is its   *)
(* attempt's.                                                               *)
IntentMoved(c, q) ==
    \/ intent'[c][q].status = intent[c][q].status
    \/ intent[c][q].status = "absent" /\ intent'[c][q].status = "pending"
    \/ intent'[c][q].status \in Unresolved
    \/ intent'[c][q].status \in Terminal /\ Agrees(intent'[c][q].status, c, q)

LEMMA IntentsMove ==
    ASSUME CallerInv, TimingInv, [PipelineNext]_vars, NEW d \in Claims, NEW p \in Attempts
    PROVE  IntentMoved(d, p)
  <1>0. /\ intent \in [Claims -> [Attempts -> IntentRow]] /\ req \in [Requests -> ReqRow]
        /\ \A r \in Requests : ClaimOf[r] \in Claims
    BY PipelineAssumption DEF PipelineAssumption, CallerInv, PipelineTypeOK
  <1>1. ASSUME UNCHANGED intent PROVE IntentMoved(d, p)
    BY <1>1 DEF IntentMoved
  <1>2. ASSUME NEW c \in Claims, NEW q \in Attempts, NEW status \in Unresolved \cup Terminal,
               SetIntent(c, q, status), status \in Terminal => Agrees(status, c, q)
        PROVE  IntentMoved(d, p)
    <2>1. CASE c = d /\ q = p
      <3>1. intent'[d][p].status = status
        BY <1>0, <1>2, <2>1, IntentWritten DEF IntentStatus, Unresolved, Terminal
      <3> QED BY <1>2, <2>1, <3>1 DEF IntentMoved
    <2>2. CASE ~(c = d /\ q = p)
      <3>1. intent'[d][p] = intent[d][p]
        BY <1>0, <1>2, <2>2 DEF SetIntent
      <3> QED BY <3>1 DEF IntentMoved
    <2> QED BY <2>1, <2>2
  <1>3. ASSUME NEW r \in Requests, RequestStep(r) PROVE IntentMoved(d, p)
    <2>0. req[r].pc \notin {"start", "done", "crashed"} => req[r].seq \in Attempts
      BY AttemptExists
    <2>1. CASE ReqInsertPending(r)
      <3> DEFINE c == ClaimOf[r]
                 q == req[r].seq
      <3>1. /\ q \in Attempts /\ intent[c][q].status = "absent"
            /\ \/ UNCHANGED intent
               \/ intent' = [intent EXCEPT ![c][q] =
                                [status |-> "pending", version |-> 0, owner |-> r]]
        BY <2>0, <2>1 DEF ReqInsertPending
      <3>2. \/ intent'[d][p].status = "pending" /\ c = d /\ q = p
            \/ intent'[d][p] = intent[d][p]
        BY <1>0, <3>1
      <3> QED BY <3>1, <3>2 DEF IntentMoved
    <2>2. CASE ReqOpenGate(r)
      <3>1. req[r].seq \in Attempts
            /\ (UNCHANGED intent \/ SetIntent(ClaimOf[r], req[r].seq, "delivering"))
        BY <2>0, <2>2 DEF ReqOpenGate
      <3> QED BY <1>0, <1>1, <1>2, <3>1 DEF Unresolved, Terminal
    <2>3. CASE ReqMark(r)
      <3>1. /\ req[r].seq \in Attempts /\ req[r].pc = "marking"
            /\ UNCHANGED intent \/ SetIntent(ClaimOf[r], req[r].seq, req[r].mark)
        BY <2>0, <2>3 DEF ReqMark, TrackerMark
      <3>2. req[r].mark \in {"settled", "settling", "failed"}
        BY <1>0, <3>1 DEF ReqRow, CallerInv, Marked
      <3>3. req[r].mark = "settled" => Committed(ClaimOf[r], req[r].seq)
        BY <3>1 DEF TimingInv, OnPresentAttempt, Works, Running, Committed
      <3> QED BY <1>0, <1>1, <1>2, <3>1, <3>2, <3>3 DEF Unresolved, Terminal, Agrees
    <2>4. CASE ReqMarkAborted(r)
      <3>1. /\ req[r].seq \in Attempts /\ req[r].pc = "aborted"
            /\ UNCHANGED intent \/ SetIntent(ClaimOf[r], req[r].seq, "aborted")
        BY <2>0, <2>4 DEF ReqMarkAborted, TrackerMark
      <3>2. Ended(ClaimOf[r], req[r].seq)
        BY <3>1 DEF TimingInv, AbortedHasEnded
      <3> QED BY <1>0, <1>1, <1>2, <3>1, <3>2 DEF Unresolved, Terminal, Agrees
    <2>5. CASE \/ ReqReserve(r) \/ ReqSelect(r) \/ ReqCacheHit(r) \/ ReqWriteAcquisition(r)
               \/ ReqReleaseSlot(r) \/ ReqUpstreamFails(r) \/ ReqWrite(r) \/ ReqSettle(r)
               \/ ReqEnqueue(r) \/ ReqAbortBegin(r) \/ ReqAbortCommit(r)
      <3>1. UNCHANGED intent
        BY <2>5 DEF ReqReserve, ReqSelect, ReqCacheHit, ReqWriteAcquisition, ReqReleaseSlot,
           ReqUpstreamFails, ReqWrite, ReqSettle, ReqEnqueue, ReqAbortBegin, ReqAbortCommit
      <3> QED BY <1>1, <3>1
    <2> QED BY <1>3, <2>1, <2>2, <2>3, <2>4, <2>5 DEF RequestStep
  <1>4. CASE LateDelivering
    <2>1. \E e \in late : UNCHANGED intent \/ SetIntent(e.claim, e.seq, "delivering")
      BY <1>4 DEF LateDelivering
    <2>2. \A e \in late : e.claim \in Claims /\ e.seq \in Attempts
      BY DEF CallerInv, PipelineTypeOK
    <2> QED BY <1>1, <1>2, <2>1, <2>2 DEF Unresolved, Terminal
  <1>5. CASE IntentCAS
    <2> DEFINE w == intentSweeper
    <2>1. /\ w # Idle /\ w.mark # "none"
          /\ UNCHANGED intent \/ SetIntent(w.claim, w.seq, w.mark)
      BY <1>5 DEF IntentCAS
    <2>2. w.claim \in Claims /\ w.seq \in Attempts /\ w.mark \in {"none", "settling"} \cup Terminal
      BY <2>1 DEF CallerInv, PipelineTypeOK
    <2>3. Agrees(w.mark, w.claim, w.seq)
      BY <2>1 DEF TimingInv, IntentsAgree
    <2> QED BY <1>1, <1>2, <2>1, <2>2, <2>3 DEF Unresolved
  <1>6. ASSUME \/ \E r \in Requests : Crash(r) \/ Recover(r)
               \/ \E c \in Claims : ExpireLease(c) \/ RecoverUsage(c)
               \/ \E s \in Slots : SweepSlot(s)
               \/ LeaseSweep \/ IntentReadClaim
               \/ \E c \in Claims, q \in Attempts : IntentList(c, q)
               \/ UNCHANGED vars
        PROVE  UNCHANGED intent
    BY <1>6 DEF Crash, Recover, ExpireLease, RecoverUsage, SweepSlot, LeaseSweep, SweepSelect,
       SweepAbortBegin, SweepAbortCommit, IntentReadClaim, IntentList, pipelineVars, vars
  <1> QED BY <1>1, <1>3, <1>4, <1>5, <1>6 DEF PipelineNext, IntentSweep

(* While an attempt may still be settled its evidence stays.                *)
LEMMA EvidenceStays ==
    ASSUME CallerInv, TimingInv, [PipelineNext]_vars, NEW c \in Claims, NEW q \in Attempts,
           intent[c][q].status \in Unresolved,
           claim[c].seq = q, claim[c].status = "reserving"
    PROVE  intent'[c][q].status \in Unresolved
  <1>1. IntentMoved(c, q) /\ claim[c].seq \in Nat
    BY IntentsMove DEF CallerInv, TypeOK, ClaimRow
  <1> QED BY <1>1 DEF IntentMoved, Agrees, Ended, Committed, Unresolved, Terminal

-----------------------------------------------------------------------------
(* Whoever works on an attempt is alone with it.                            *)
LEMMA Alone ==
    ASSUME CallerInv, TimingInv, NEW r \in Requests, NEW o \in Requests, r # o,
           ClaimOf[r] = ClaimOf[o], Works(r)
    PROVE  req[o].seq # req[r].seq /\ ~Works(o)
  <1>1. req[r].seq # 0
    BY AttemptExists DEF Works, Running, Attempts
  <1>2. req[o].seq # req[r].seq
    BY <1>1 DEF TimingInv, OwnAttempts
  <1>3. Works(o) => claim[ClaimOf[o]].seq = req[o].seq
    BY DEF TimingInv, OnPresentAttempt
  <1>4. claim[ClaimOf[r]].seq = req[r].seq
    BY DEF TimingInv, OnPresentAttempt
  <1> QED BY <1>2, <1>3, <1>4

(* Nobody else aborts an attempt a request works on.                        *)
LEMMA AbortIsOwn ==
    ASSUME CallerInv, TimingInv, [PipelineNext]_vars, NEW r \in Requests, Works(r),
           claim[ClaimOf[r]].status = "reserving", claim'[ClaimOf[r]].status = "aborted"
    PROVE  ReqAbortCommit(r) /\ ~Works(r)'
  <1> DEFINE c == ClaimOf[r]
  <1>0. c \in Claims /\ req \in [Requests -> ReqRow] /\ claim[c].seq = req[r].seq
    BY AttemptExists DEF Works, Running, CallerInv, PipelineTypeOK, TimingInv, OnPresentAttempt
  <1>1. ~(SweepAbortCommit /\ abortTx[Sweeper].claim = c /\ abortTx[Sweeper].row = claim[c])
    <2> SUFFICES ASSUME SweepAbortCommit, abortTx[Sweeper].claim = c,
                        abortTx[Sweeper].row = claim[c]
                 PROVE  FALSE
      OBVIOUS
    <2>1. leaseSweeper # Idle /\ leaseSweeper.claim = c /\ leaseSweeper.seq = claim[c].seq
      BY DEF SweepAbortCommit, TimingInv, SweepsUndelivered
    <2>2. expired[c]
      BY <2>1 DEF TimingInv, SweepsExpired
    <2> QED BY <1>0, <2>2 DEF TimingInv, LeasesHold, Works
  <1>2. PICK o \in Requests : ClaimOf[o] = c /\ ReqAbortCommit(o)
    BY <1>0, <1>1, ClaimMoves DEF ClaimMoved
  <1>3. Works(o)
    BY <1>2 DEF ReqAbortCommit, Works, Running
  <1>4. o = r
    BY <1>2, <1>3, Alone
  <1>5. claim' # claim
    OBVIOUS
  <1>6. Goto(r, "aborted") \/ Goto(r, "done")
    BY <1>2, <1>4, <1>5 DEF ReqAbortCommit, NoLedgerStep, ledgerVars
  <1>7. req'[r].pc \in {"aborted", "done"}
    BY <1>0, <1>6 DEF Goto, ReqRow
  <1> QED BY <1>2, <1>4, <1>7 DEF Works, Running

(* A request works on the claim's present attempt.                          *)
LEMMA PresentStays ==
    ASSUME CallerInv, TimingInv, [PipelineNext]_vars
    PROVE  OnPresentAttempt'
  <1> SUFFICES ASSUME NEW r \in Requests, Works(r)'
               PROVE  /\ claim'[ClaimOf[r]].seq = req'[r].seq
                      /\ claim'[ClaimOf[r]].status \in {"reserving", "committed"}
                      /\ req'[r].pc = "marking" /\ req'[r].mark = "settled"
                            => claim'[ClaimOf[r]].status = "committed"
                      /\ req'[r].pc = "writing" /\ claim'[ClaimOf[r]].status = "reserving"
                            => intent'[ClaimOf[r]][req'[r].seq].status \in Unresolved
    BY DEF OnPresentAttempt
  <1> DEFINE c == ClaimOf[r]
  <1>0. c \in Claims /\ RequestMoved(r)
    BY PipelineAssumption, RequestsMove DEF PipelineAssumption
  <1>1. CASE Begins(r)
    BY <1>1 DEF Begins
  <1>2. CASE ~Begins(r)
    <2>1. Works(r) /\ req'[r].seq = req[r].seq
      BY <1>0, <1>2 DEF RequestMoved, GoesOn, Works, Running
    <2>2. claim[c].seq = req[r].seq /\ claim[c].status \in {"reserving", "committed"}
      BY <2>1 DEF TimingInv, OnPresentAttempt
    <2>3. ClaimMoved(c) /\ req[r].seq \in Attempts
      BY <1>0, <2>1, ClaimMoves, AttemptExists DEF Works, Running
    <2>4. ~(claim[c].status = "reserving" /\ claim'[c].status = "aborted")
      BY <2>1, AbortIsOwn
    <2>5. /\ claim'[c].seq = req[r].seq /\ claim'[c].status \in {"reserving", "committed"}
          /\ claim[c].status = "committed" => claim'[c].status = "committed"
      BY <2>2, <2>3, <2>4 DEF ClaimMoved
    <2>6. ASSUME req'[r].pc = "marking", req'[r].mark = "settled"
          PROVE  claim'[c].status = "committed"
      BY <1>0, <1>2, <2>1, <2>5, <2>6
         DEF RequestMoved, GoesOn, TimingInv, OnPresentAttempt
    <2>7. ASSUME req'[r].pc = "writing", claim'[c].status = "reserving"
          PROVE  intent'[c][req'[r].seq].status \in Unresolved
      <3>1. CASE req'[r] = req[r]
        <4>1. claim[c].status = "reserving" /\ intent[c][req[r].seq].status \in Unresolved
          BY <2>1, <2>2, <2>5, <2>7, <3>1 DEF TimingInv, OnPresentAttempt
        <4> QED BY <1>0, <2>1, <2>2, <2>3, <4>1, EvidenceStays
      <3>2. CASE GoesOn(r)
        BY <2>1, <2>7, <3>2 DEF GoesOn, Unresolved
      <3> QED BY <1>0, <1>2, <3>1, <3>2 DEF RequestMoved
    <2> QED BY <2>1, <2>5, <2>6, <2>7
  <1> QED BY <1>1, <1>2

(* An attempt whose abort was answered has ended.                           *)
LEMMA AbortedStays ==
    ASSUME CallerInv, TimingInv, [PipelineNext]_vars
    PROVE  AbortedHasEnded'
  <1> SUFFICES ASSUME NEW r \in Requests, req'[r].pc = "aborted"
               PROVE  Ended(ClaimOf[r], req[r].seq)'
    BY DEF AbortedHasEnded
  <1>1. RequestMoved(r) /\ ClaimOf[r] \in Claims
    BY RequestsMove, PipelineAssumption DEF PipelineAssumption
  <1>2. CASE req'[r] = req[r]
    <2>1. PICK q \in Nat : req[r].seq = q
      BY DEF CallerInv, PipelineTypeOK, ReqRow
    <2>2. Ended(ClaimOf[r], q)
      BY <1>2, <2>1 DEF TimingInv, AbortedHasEnded
    <2>3. Ended(ClaimOf[r], q)'
      BY <1>1, <2>2, AgreeingStays
    <2> QED BY <1>2, <2>1, <2>3 DEF Ended
  <1>3. CASE GoesOn(r)
    BY <1>3 DEF GoesOn, Ended, TimingInv, OnPresentAttempt
  <1> QED BY <1>1, <1>2, <1>3 DEF RequestMoved, Begins

(* One request moves at a time.                                             *)
LEMMA OneMoves ==
    ASSUME CallerInv, [PipelineNext]_vars, NEW r \in Requests, NEW o \in Requests, r # o
    PROVE  req'[r] = req[r] \/ req'[o] = req[o]
  <1>0. req \in [Requests -> ReqRow]
    BY DEF CallerInv, PipelineTypeOK
  <1>1. ASSUME NEW m \in Requests, NEW p \in Requests, p # m, RequestStep(m) \/ Crash(m)
        PROVE  req'[p] = req[p]
    BY <1>0, <1>1 DEF RequestStep, ReqReserve, ReqInsertPending, ReqSelect,
       ReqCacheHit, ReqWriteAcquisition, ReqReleaseSlot, ReqUpstreamFails, ReqOpenGate,
       ReqWrite, ReqSettle, ReqEnqueue, ReqMark, ReqAbortBegin, ReqAbortCommit,
       ReqMarkAborted, Crash, Goto
  <1>2. ASSUME \/ \E m \in Requests : Recover(m)
               \/ \E d \in Claims : ExpireLease(d) \/ RecoverUsage(d)
               \/ \E s \in Slots : SweepSlot(s)
               \/ LateDelivering \/ LeaseSweep \/ IntentSweep \/ UNCHANGED vars
        PROVE  UNCHANGED req
    BY <1>2 DEF Recover, ExpireLease, RecoverUsage, SweepSlot, LateDelivering, LeaseSweep,
       SweepSelect, SweepAbortBegin, SweepAbortCommit, IntentSweep, IntentList,
       IntentReadClaim, IntentCAS, pipelineVars, vars
  <1> QED BY <1>1, <1>2 DEF PipelineNext

(* No two requests have one attempt: who begins one numbers it.             *)
LEMMA OwnStays ==
    ASSUME CallerInv, TimingInv, [PipelineNext]_vars
    PROVE  OwnAttempts'
  <1>0. ASSUME NEW r \in Requests, NEW o \in Requests, r # o, ClaimOf[r] = ClaimOf[o],
               Begins(r), req'[r] # req[r]
        PROVE  req'[r].seq # req'[o].seq
    <2>1. req'[o] = req[o]
      BY <1>0, OneMoves
    <2>2. req[o].seq \in Nat /\ claim[ClaimOf[o]].seq \in Nat
      BY PipelineAssumption
         DEF PipelineAssumption, CallerInv, PipelineTypeOK, TypeOK, ReqRow, ClaimRow
    <2>3. req[o].seq <= claim[ClaimOf[o]].seq
      BY DEF CallerInv, Numbered
    <2> QED BY <1>0, <2>1, <2>2, <2>3 DEF Begins
  <1>1. ASSUME NEW r \in Requests PROVE req'[r].seq = req[r].seq \/ (Begins(r) /\ req'[r] # req[r])
    BY RequestsMove DEF RequestMoved, GoesOn
  <1> SUFFICES ASSUME NEW r \in Requests, NEW o \in Requests, r # o, ClaimOf[r] = ClaimOf[o],
                      req'[r].seq = req'[o].seq
               PROVE  req'[r].seq = 0
    BY DEF OwnAttempts
  <1>2. req'[r].seq = req[r].seq /\ req'[o].seq = req[o].seq
    BY <1>0, <1>1
  <1> QED BY <1>2 DEF TimingInv, OwnAttempts

(* A request's abort transaction is of its claim.                           *)
LEMMA TransactionsStay ==
    ASSUME CallerInv, TimingInv, [PipelineNext]_vars
    PROVE  OwnTransactions'
  <1> SUFFICES ASSUME NEW r \in Requests, abortTx'[r] # Idle
               PROVE  abortTx'[r].claim = ClaimOf[r]
    BY DEF OwnTransactions
  <1> DEFINE Own == abortTx'[r] # Idle => abortTx'[r].claim = ClaimOf[r]
  <1>0. /\ abortTx \in [Aborters -> {Idle} \cup [claim : Claims, row : ClaimRow]]
        /\ r \in Aborters /\ r # Sweeper /\ Requests \subseteq Aborters
        /\ abortTx[r] # Idle => abortTx[r].claim = ClaimOf[r]
    BY PipelineAssumption
       DEF PipelineAssumption, CallerInv, PipelineTypeOK, Aborters, TimingInv, OwnTransactions
  <1>1. ASSUME abortTx'[r] = abortTx[r] PROVE Own
    BY <1>0, <1>1
  <1>2. ASSUME NEW w \in Aborters, AbortEnd(w) PROVE Own
    BY <1>0, <1>2 DEF AbortEnd
  <1>3. CASE ReqAbortBegin(r)
    BY <1>0, <1>3 DEF ReqAbortBegin, AbortBegin
  <1>4. ASSUME NEW o \in Requests, o # r, ReqAbortBegin(o) PROVE abortTx'[r] = abortTx[r]
    BY <1>0, <1>4 DEF ReqAbortBegin, AbortBegin
  <1>5. CASE SweepAbortBegin
    <2>1. abortTx'[r] = abortTx[r]
      BY <1>0, <1>5 DEF SweepAbortBegin, AbortBegin
    <2> QED BY <1>1, <2>1
  <1>6. CASE SweepAbortCommit \/ \E o \in Requests : ReqAbortCommit(o) \/ Crash(o)
    BY <1>0, <1>2, <1>6 DEF SweepAbortCommit, ReqAbortCommit, Crash, Aborters
  <1>7. ASSUME NEW o \in Requests, RequestStep(o), ~ReqAbortBegin(o), ~ReqAbortCommit(o)
        PROVE  UNCHANGED abortTx
    BY <1>7 DEF RequestStep, ReqReserve, ReqInsertPending, ReqSelect, ReqCacheHit,
       ReqWriteAcquisition, ReqReleaseSlot, ReqUpstreamFails, ReqOpenGate, ReqWrite, ReqSettle,
       ReqEnqueue, ReqMark, ReqMarkAborted
  <1>8. ASSUME \/ \E o \in Requests : Recover(o)
               \/ \E d \in Claims : ExpireLease(d) \/ RecoverUsage(d) \/ SweepSelect(d)
               \/ \E s \in Slots : SweepSlot(s)
               \/ LateDelivering \/ IntentSweep \/ UNCHANGED vars
        PROVE  UNCHANGED abortTx
    BY <1>8 DEF Recover, ExpireLease, RecoverUsage, SweepSelect, SweepSlot, LateDelivering,
       IntentSweep, IntentList, IntentReadClaim, IntentCAS, pipelineVars, vars
  <1> QED BY <1>1, <1>3, <1>4, <1>5, <1>6, <1>7, <1>8 DEF PipelineNext, LeaseSweep

(* A delivery is of the attempt its writer works on.                        *)
LEMMA Deliveries ==
    ASSUME CallerInv, [PipelineNext]_vars, NEW d \in delivered', d \notin delivered
    PROVE  /\ UNCHANGED <<claim, intent, expired, abortTx, leaseSweeper>>
           /\ \E o \in Requests :
                 /\ req[o].pc = "writing" /\ d = <<ClaimOf[o], req[o].seq>>
                 /\ req'[o].pc = "settling"
  <1>1. PICK o \in Requests : ReqWrite(o)
    <2>1. ASSUME NEW r \in Requests, RequestStep(r) \/ Crash(r) \/ Recover(r), ~ReqWrite(r)
          PROVE  UNCHANGED delivered
      BY <2>1 DEF RequestStep, ReqReserve, ReqInsertPending, ReqSelect, ReqCacheHit,
         ReqWriteAcquisition, ReqReleaseSlot, ReqUpstreamFails, ReqOpenGate,
         ReqSettle, ReqEnqueue, ReqMark, ReqAbortBegin, ReqAbortCommit, ReqMarkAborted, Crash,
         Recover
    <2>2. ASSUME \/ \E c \in Claims : ExpireLease(c) \/ RecoverUsage(c)
                 \/ \E s \in Slots : SweepSlot(s)
                 \/ LateDelivering \/ LeaseSweep \/ IntentSweep \/ UNCHANGED vars
          PROVE  UNCHANGED delivered
      BY <2>2 DEF ExpireLease, RecoverUsage, SweepSlot, LateDelivering, LeaseSweep, SweepSelect,
         SweepAbortBegin, SweepAbortCommit, IntentSweep, IntentList, IntentReadClaim, IntentCAS,
         pipelineVars, vars
    <2> QED BY <2>1, <2>2 DEF PipelineNext
  <1>2. /\ d = <<ClaimOf[o], req[o].seq>> /\ req[o].pc = "writing"
        /\ UNCHANGED <<claim, intent, expired, abortTx, leaseSweeper>>
        /\ \E cost : req' = [req EXCEPT ![o].pc = "settling", ![o].cost = cost]
    BY <1>1 DEF ReqWrite, NoLedgerStep, NoSweep, ledgerVars
  <1>3. req'[o].pc = "settling"
    <2>0. req \in [Requests -> ReqRow]
      BY DEF CallerInv, PipelineTypeOK
    <2>1. PICK cost : req' = [req EXCEPT ![o].pc = "settling", ![o].cost = cost]
      BY <1>2
    <2>2. req' = [req EXCEPT ![o] = [req[o] EXCEPT !.pc = "settling", !.cost = cost]]
      BY <2>0, <2>1
    <2> QED BY <2>0, <2>2 DEF ReqRow
  <1> QED BY <1>2, <1>3

(* Nothing of an attempt is delivered before its request has written.       *)
LEMMA UndeliveredStays ==
    ASSUME CallerInv, TimingInv, [PipelineNext]_vars
    PROVE  NotYetDelivered'
  <1> SUFFICES ASSUME NEW r \in Requests, req'[r].pc \in Undelivering,
                      <<ClaimOf[r], req'[r].seq>> \in delivered'
               PROVE  FALSE
    BY DEF NotYetDelivered
  <1> DEFINE d == <<ClaimOf[r], req'[r].seq>>
  <1>0. RequestMoved(r) /\ ClaimOf[r] \in Claims /\ delivered \subseteq Claims \X Attempts
    BY RequestsMove, PipelineAssumption DEF PipelineAssumption, CallerInv, PipelineTypeOK
  <1>1. d \notin delivered =>
           \E o \in Requests : /\ req[o].pc = "writing" /\ d = <<ClaimOf[o], req[o].seq>>
                               /\ req'[o].pc = "settling"
    BY Deliveries
  <1>2. CASE Begins(r)
    <2>1. req'[r].seq = claim[ClaimOf[r]].seq + 1 /\ claim[ClaimOf[r]].seq \in Nat
      BY <1>0, <1>2 DEF Begins, CallerInv, TypeOK, ClaimRow
    <2>2. d \notin delivered
      <3> SUFFICES ASSUME d \in delivered PROVE FALSE
        OBVIOUS
      <3>1. claim[ClaimOf[r]].seq = req'[r].seq
        BY <1>0 DEF TimingInv, DeliveredIsKept
      <3> QED BY <2>1, <3>1
    <2>3. PICK o \in Requests : d = <<ClaimOf[o], req[o].seq>>
      BY <1>1, <2>2
    <2>4. req[o].seq <= claim[ClaimOf[r]].seq
      BY <2>3 DEF CallerInv, Numbered
    <2> QED BY <2>1, <2>3, <2>4
  <1>3. CASE ~Begins(r)
    <2>1. Works(r) /\ req[r].pc \in Undelivering /\ req'[r].seq = req[r].seq
      BY <1>0, <1>3 DEF RequestMoved, GoesOn, Works, Running, Undelivering
    <2>2. d \notin delivered
      BY <2>1 DEF TimingInv, NotYetDelivered
    <2>3. PICK o \in Requests : /\ req[o].pc = "writing" /\ d = <<ClaimOf[o], req[o].seq>>
                                /\ req'[o].pc = "settling"
      BY <1>1, <2>2
    <2>4. o # r
      BY <2>3 DEF Undelivering
    <2> QED BY <2>1, <2>3, <2>4, Alone
  <1> QED BY <1>2, <1>3

-----------------------------------------------------------------------------
(* How a lease moves.  It begins anew with an attempt; it ends with time,   *)
(* or early, when an abort fails on a conflict.                             *)
LeaseMoved(c) ==
    \/ expired'[c] = expired[c] /\ claim'[c].seq = claim[c].seq
    \/ ~expired'[c] /\ claim'[c].seq = claim[c].seq + 1
    \/ /\ expired'[c] /\ claim'[c].seq = claim[c].seq
       /\ \/ ExpireLease(c)
          \/ \E o \in Requests : ReqAbortCommit(o) /\ ClaimOf[o] = c /\ req'[o].pc = "done"
          \/ expired[c]

LEMMA LeasesMove ==
    ASSUME CallerInv, TimingInv, [PipelineNext]_vars, NEW c \in Claims
    PROVE  LeaseMoved(c)
  <1>0. /\ expired \in [Claims -> BOOLEAN] /\ req \in [Requests -> ReqRow]
        /\ claim[c].seq \in Nat
    BY DEF CallerInv, PipelineTypeOK, TypeOK, ClaimRow
  <1>1. ClaimMoved(c)
    BY ClaimMoves
  <1>2. ASSUME NEW r \in Requests, ReqReserve(r) PROVE LeaseMoved(c)
    <2>1. CASE \E cost \in Costs : Reserve(ClaimOf[r], cost)
      <3>0. claim \in [Claims -> ClaimRow] /\ ClaimOf[r] \in Claims
        BY PipelineAssumption DEF PipelineAssumption, CallerInv, TypeOK
      <3>1. CASE ClaimOf[r] = c
        <4>1. claim'[c].seq = claim[c].seq + 1
          BY <2>1, <3>0, <3>1 DEF Reserve
        <4>2. expired' = [expired EXCEPT ![c] = FALSE]
          BY <1>0, <1>2, <3>1, <4>1 DEF ReqReserve, NoLedgerStep, ledgerVars
        <4> QED BY <1>0, <4>1, <4>2 DEF LeaseMoved
      <3>2. CASE ClaimOf[r] # c
        <4>1. claim'[c] = claim[c]
          BY <2>1, <3>0, <3>2 DEF Reserve
        <4>2. expired'[c] = expired[c]
          BY <1>0, <1>2, <3>2 DEF ReqReserve
        <4> QED BY <4>1, <4>2 DEF LeaseMoved
      <3> QED BY <3>1, <3>2
    <2>2. CASE NoLedgerStep /\ UNCHANGED expired
      BY <2>2 DEF NoLedgerStep, ledgerVars, LeaseMoved
    <2> QED BY <1>2, <2>1, <2>2 DEF ReqReserve
  <1>3. ASSUME UNCHANGED expired PROVE LeaseMoved(c)
    BY <1>1, <1>2, <1>3 DEF LeaseMoved, ClaimMoved
  <1>4. ASSUME NEW d \in Claims, ExpireLease(d) PROVE LeaseMoved(c)
    BY <1>0, <1>4 DEF ExpireLease, NoLedgerStep, ledgerVars, LeaseMoved
  <1>5. ASSUME NEW r \in Requests, ReqAbortCommit(r), ~UNCHANGED expired PROVE LeaseMoved(c)
    <2>1. NoLedgerStep /\ Expedite(r) /\ Goto(r, "done")
      BY <1>5 DEF ReqAbortCommit
    <2>2. /\ abortTx[r].claim = ClaimOf[r] /\ req'[r].pc = "done"
          /\ expired' = [expired EXCEPT ![ClaimOf[r]] = TRUE]
      BY <1>0, <1>5, <2>1
         DEF ReqAbortCommit, Expedite, Goto, ReqRow, TimingInv, OwnTransactions
    <2>3. UNCHANGED claim
      BY <2>1 DEF NoLedgerStep, ledgerVars
    <2> QED BY <1>0, <1>5, <2>2, <2>3 DEF LeaseMoved
  <1>6. ASSUME SweepAbortCommit, ~UNCHANGED expired PROVE LeaseMoved(c)
    <2> DEFINE e == abortTx[Sweeper].claim
    <2>1. NoLedgerStep /\ Expedite(Sweeper)
      BY <1>6 DEF SweepAbortCommit
    <2>2. /\ claim[e].seq = abortTx[Sweeper].row.seq
          /\ expired' = [expired EXCEPT ![e] = TRUE]
      BY <1>6, <2>1 DEF Expedite
    <2>3. expired[e] /\ UNCHANGED claim
      BY <1>6, <2>1, <2>2
         DEF SweepAbortCommit, NoLedgerStep, ledgerVars, TimingInv, SweepsUndelivered,
         SweepsExpired
    <2> QED BY <1>0, <2>2, <2>3 DEF LeaseMoved
  <1>7. ASSUME NEW r \in Requests, RequestStep(r), ~ReqReserve(r), ~ReqAbortCommit(r)
        PROVE  UNCHANGED expired
    BY <1>7 DEF RequestStep, ReqInsertPending, ReqSelect, ReqCacheHit, ReqWriteAcquisition,
       ReqReleaseSlot, ReqUpstreamFails, ReqOpenGate, ReqWrite, ReqSettle, ReqEnqueue, ReqMark,
       ReqAbortBegin, ReqMarkAborted
  <1>8. ASSUME \/ \E r \in Requests : Crash(r) \/ Recover(r)
               \/ \E d \in Claims : RecoverUsage(d) \/ SweepSelect(d)
               \/ \E s \in Slots : SweepSlot(s)
               \/ LateDelivering \/ SweepAbortBegin \/ IntentSweep \/ UNCHANGED vars
        PROVE  UNCHANGED expired
    BY <1>8 DEF Crash, Recover, RecoverUsage, SweepSelect, SweepSlot, LateDelivering,
       SweepAbortBegin, IntentSweep, IntentList, IntentReadClaim, IntentCAS, pipelineVars, vars
  <1> QED BY <1>2, <1>3, <1>4, <1>5, <1>6, <1>7, <1>8 DEF PipelineNext, LeaseSweep

(* A lease does not end under a running attempt.                            *)
LEMMA LeasesStay ==
    ASSUME CallerInv, TimingInv, LeaseOutlivesAttempt, [PipelineNext]_vars
    PROVE  LeasesHold'
  <1> SUFFICES ASSUME NEW r \in Requests, Running(r)', expired'[ClaimOf[r]],
                      claim'[ClaimOf[r]].status = "reserving",
                      req'[r].seq = claim'[ClaimOf[r]].seq
               PROVE  FALSE
    BY DEF LeasesHold
  <1> DEFINE c == ClaimOf[r]
  <1>0. c \in Claims /\ RequestMoved(r) /\ LeaseMoved(c) /\ ClaimMoved(c)
    BY PipelineAssumption, RequestsMove, LeasesMove, ClaimMoves DEF PipelineAssumption
  <1>1. claim'[c].seq = claim[c].seq /\ claim[c].seq \in Nat
    BY <1>0 DEF LeaseMoved, CallerInv, TypeOK, ClaimRow
  <1>2. claim[c].status = "reserving" /\ Running(r) /\ req[r].seq = claim[c].seq
    BY <1>0, <1>1 DEF ClaimMoved, RequestMoved, Begins, GoesOn, Works, Running
  <1>3. ~expired[c]
    BY <1>2 DEF TimingInv, LeasesHold
  <1>4. ~ExpireLease(c)
    BY <1>2 DEF ExpireLease
  <1>5. PICK o \in Requests : ReqAbortCommit(o) /\ ClaimOf[o] = c /\ req'[o].pc = "done"
    BY <1>0, <1>1, <1>3, <1>4 DEF LeaseMoved
  <1>6. Works(o) /\ o # r
    BY <1>5 DEF ReqAbortCommit, Works, Running
  <1>7. req[o].seq = claim[c].seq
    BY <1>5, <1>6 DEF TimingInv, OnPresentAttempt
  <1> QED BY <1>2, <1>5, <1>6, <1>7, Alone

-----------------------------------------------------------------------------
(* What the lease sweeper holds.                                            *)
LEMMA SelectionMoves ==
    ASSUME [PipelineNext]_vars
    PROVE  \/ leaseSweeper' = leaseSweeper
           \/ leaseSweeper' = Idle /\ (SweepAbortBegin \/ SweepAbortCommit)
           \/ \E c \in Claims : SweepSelect(c)
  <1>1. ASSUME NEW r \in Requests, RequestStep(r) \/ Crash(r) \/ Recover(r)
        PROVE  leaseSweeper' = leaseSweeper
    BY <1>1 DEF RequestStep, ReqReserve, ReqInsertPending, ReqSelect, ReqCacheHit,
       ReqWriteAcquisition, ReqReleaseSlot, ReqUpstreamFails, ReqOpenGate, ReqWrite, ReqSettle,
       ReqEnqueue, ReqMark, ReqAbortBegin, ReqAbortCommit, ReqMarkAborted, Crash, Recover, NoSweep
  <1>2. ASSUME \/ \E d \in Claims : ExpireLease(d) \/ RecoverUsage(d)
               \/ \E s \in Slots : SweepSlot(s)
               \/ LateDelivering \/ IntentSweep \/ UNCHANGED vars
        PROVE  leaseSweeper' = leaseSweeper
    BY <1>2 DEF ExpireLease, RecoverUsage, SweepSlot, LateDelivering, IntentSweep, IntentList,
       IntentReadClaim, IntentCAS, NoSweep, pipelineVars, vars
  <1>3. CASE SweepAbortBegin \/ SweepAbortCommit
    BY <1>3 DEF SweepAbortBegin, SweepAbortCommit
  <1> QED BY <1>1, <1>2, <1>3 DEF PipelineNext, LeaseSweep

(* It selects what has expired, and a lease begins anew only with the next  *)
(* attempt.                                                                 *)
LEMMA SelectionStays ==
    ASSUME CallerInv, TimingInv, [PipelineNext]_vars
    PROVE  SweepsExpired'
  <1> SUFFICES ASSUME leaseSweeper' # Idle
               PROVE  /\ claim'[leaseSweeper'.claim].seq >= leaseSweeper'.seq
                      /\ claim'[leaseSweeper'.claim].seq = leaseSweeper'.seq
                            => expired'[leaseSweeper'.claim]
    BY DEF SweepsExpired
  <1>1. CASE leaseSweeper' = leaseSweeper
    <2> DEFINE c == leaseSweeper.claim
    <2>1. c \in Claims /\ leaseSweeper.seq \in Nat /\ claim[c].seq \in Nat
      BY <1>1 DEF CallerInv, PipelineTypeOK, TypeOK, ClaimRow, Attempts
    <2>2. /\ claim[c].seq >= leaseSweeper.seq
          /\ claim[c].seq = leaseSweeper.seq => expired[c]
      BY <1>1 DEF TimingInv, SweepsExpired
    <2>3. LeaseMoved(c)
      BY <2>1, LeasesMove
    <2> QED BY <1>1, <2>1, <2>2, <2>3 DEF LeaseMoved
  <1>2. ASSUME NEW c \in Claims, SweepSelect(c)
        PROVE  /\ leaseSweeper'.claim = c /\ leaseSweeper'.seq = claim'[c].seq
               /\ expired'[c] /\ claim'[c].seq \in Nat
    BY <1>2 DEF SweepSelect, NoLedgerStep, ledgerVars, CallerInv, TypeOK, ClaimRow
  <1> QED BY <1>1, <1>2, SelectionMoves

(* Its transaction is of the attempt it selected.                           *)
LEMMA SweepMoves ==
    ASSUME CallerInv, TimingInv, [PipelineNext]_vars, abortTx'[Sweeper] # Idle
    PROVE  \/ /\ abortTx'[Sweeper] = abortTx[Sweeper] /\ leaseSweeper' = leaseSweeper
              /\ abortTx[Sweeper] # Idle
           \/ SweepAbortBegin
  <1>0. /\ abortTx \in [Aborters -> {Idle} \cup [claim : Claims, row : ClaimRow]]
        /\ Sweeper \in Aborters /\ Requests \subseteq Aborters /\ Sweeper \notin Requests
    BY PipelineAssumption DEF PipelineAssumption, CallerInv, PipelineTypeOK, Aborters
  <1>1. ~SweepAbortCommit
    BY <1>0 DEF SweepAbortCommit, AbortEnd
  <1>2. ASSUME NEW r \in Requests, RequestStep(r) \/ Crash(r) \/ Recover(r)
        PROVE  abortTx'[Sweeper] = abortTx[Sweeper]
    BY <1>0, <1>2 DEF RequestStep, ReqReserve, ReqInsertPending, ReqSelect, ReqCacheHit,
       ReqWriteAcquisition, ReqReleaseSlot, ReqUpstreamFails, ReqOpenGate, ReqWrite, ReqSettle,
       ReqEnqueue, ReqMark, ReqAbortBegin, ReqAbortCommit, ReqMarkAborted, Crash, Recover,
       AbortBegin, AbortEnd
  <1>3. ASSUME \/ \E d \in Claims : ExpireLease(d) \/ RecoverUsage(d) \/ SweepSelect(d)
               \/ \E s \in Slots : SweepSlot(s)
               \/ LateDelivering \/ IntentSweep \/ UNCHANGED vars
        PROVE  UNCHANGED abortTx
    BY <1>3 DEF ExpireLease, RecoverUsage, SweepSelect, SweepSlot, LateDelivering, IntentSweep,
       IntentList, IntentReadClaim, IntentCAS, pipelineVars, vars
  <1>4. SweepAbortBegin \/ abortTx'[Sweeper] = abortTx[Sweeper]
    BY <1>1, <1>2, <1>3 DEF PipelineNext, LeaseSweep
  <1>5. ASSUME abortTx[Sweeper] # Idle, ~SweepAbortBegin
        PROVE  leaseSweeper' = leaseSweeper
    <2>1. leaseSweeper # Idle
      BY <1>5 DEF TimingInv, SweepsUndelivered
    <2>2. ~ \E c \in Claims : SweepSelect(c)
      BY <2>1 DEF SweepSelect
    <2> QED BY <1>1, <1>5, <2>2, SelectionMoves
  <1> QED BY <1>4, <1>5

(* The attempt a prompt sweeper aborts has delivered nothing.               *)
LEMMA SweepsStay ==
    ASSUME CallerInv, TimingInv, SweepIsPrompt, [PipelineNext]_vars
    PROVE  SweepsUndelivered'
  <1> DEFINE tx == abortTx'[Sweeper]
             c == tx.claim
             q == tx.row.seq
  <1> SUFFICES ASSUME tx # Idle
               PROVE  /\ leaseSweeper' # Idle /\ leaseSweeper'.claim = c /\ leaseSweeper'.seq = q
                      /\ claim'[c].seq = q /\ claim'[c].status = "reserving"
                            => <<c, q>> \notin delivered'
    BY DEF SweepsUndelivered
  <1>0. abortTx \in [Aborters -> {Idle} \cup [claim : Claims, row : ClaimRow]]
        /\ Sweeper \in Aborters
    BY DEF CallerInv, PipelineTypeOK, Aborters
  <1>1. CASE abortTx'[Sweeper] = abortTx[Sweeper] /\ leaseSweeper' = leaseSweeper
    <2>0. c \in Claims /\ q \in Nat /\ claim[c].seq \in Nat
      BY <1>0, <1>1 DEF CallerInv, TypeOK, ClaimRow
    <2>1. /\ leaseSweeper # Idle /\ leaseSweeper.claim = c /\ leaseSweeper.seq = q
          /\ claim[c].seq = q /\ claim[c].status = "reserving" => <<c, q>> \notin delivered
      BY <1>1 DEF TimingInv, SweepsUndelivered
    <2>2. claim[c].seq >= q /\ (claim[c].seq = q => expired[c])
      BY <2>1 DEF TimingInv, SweepsExpired
    <2>3. ASSUME claim'[c].seq = q, claim'[c].status = "reserving", <<c, q>> \in delivered'
          PROVE  FALSE
      <3>1. claim[c].seq = q /\ claim[c].status = "reserving"
        <4>1. ClaimMoved(c)
          BY <2>0, ClaimMoves
        <4> QED BY <2>0, <2>2, <2>3, <4>1 DEF ClaimMoved
      <3>2. PICK o \in Requests : req[o].pc = "writing" /\ <<c, q>> = <<ClaimOf[o], req[o].seq>>
        BY <2>1, <2>3, <3>1, Deliveries
      <3> QED BY <2>2, <3>1, <3>2 DEF TimingInv, LeasesHold, Running
    <2> QED BY <1>1, <2>1, <2>3
  <1>2. CASE SweepAbortBegin
    <2>1. CASE abortTx'[Sweeper] = abortTx[Sweeper]
      BY <1>2, <2>1 DEF SweepAbortBegin
    <2>2. CASE AbortBegin(Sweeper, leaseSweeper.claim)
      <3>1. c = leaseSweeper.claim /\ tx.row = claim[c] /\ leaseSweeper # Idle /\ ~Evidence(c)
            /\ claim[c].status = "reserving"
        BY <1>0, <1>2, <2>2 DEF SweepAbortBegin, AbortBegin
      <3>2. leaseSweeper' = leaseSweeper /\ UNCHANGED delivered /\ claim[c].seq = leaseSweeper.seq
        BY <1>2, <2>2, <3>1 DEF SweepAbortBegin, AbortBegin
      <3>3. leaseSweeper.seq \in Attempts /\ c \in Claims
        BY <3>1 DEF CallerInv, PipelineTypeOK
      <3>4. <<c, q>> \notin delivered
        BY <3>1, <3>2, <3>3 DEF TimingInv, DeliveredIsKept, Evidence
      <3> QED BY <3>1, <3>2, <3>4
    <2> QED BY <1>2, <2>1, <2>2 DEF SweepAbortBegin
  <1> QED BY <1>1, <1>2, SweepMoves

-----------------------------------------------------------------------------
(* What an intent says of its attempt stays true.                           *)
LEMMA IntentsStay ==
    ASSUME CallerInv, TimingInv, [PipelineNext]_vars
    PROVE  IntentsAgree'
  <1>1. ASSUME NEW c \in Claims, NEW q \in Attempts
        PROVE  Agrees(intent[c][q].status, c, q)'
    <2>1. PICK status : intent'[c][q].status = status
      OBVIOUS
    <2>2. CASE status \in Unresolved \cup {"pending"}
      BY <2>1, <2>2 DEF Agrees, Unresolved
    <2>3. CASE status \notin Unresolved \cup {"pending"}
      <3>1. Agrees(status, c, q)
        BY <2>1, <2>3, IntentsMove DEF IntentMoved, TimingInv, IntentsAgree
      <3>2. Agrees(status, c, q)'
        BY <3>1, AgreeingStays DEF Attempts
      <3> QED BY <2>1, <3>2 DEF Agrees
    <2> QED BY <2>2, <2>3
  <1>2. ASSUME intentSweeper' # Idle
        PROVE  Agrees(intentSweeper.mark, intentSweeper.claim, intentSweeper.seq)'
    <2>1. CASE intentSweeper' = intentSweeper
      <3>1. PICK c \in Claims, q \in Attempts, mark \in {"none", "settling"} \cup Terminal :
               intentSweeper.claim = c /\ intentSweeper.seq = q /\ intentSweeper.mark = mark
        BY <1>2, <2>1 DEF CallerInv, PipelineTypeOK
      <3>2. Agrees(mark, c, q)
        BY <1>2, <2>1, <3>1 DEF TimingInv, IntentsAgree
      <3>3. Agrees(mark, c, q)'
        BY <3>2, AgreeingStays DEF Attempts
      <3> QED BY <2>1, <3>1, <3>3 DEF Agrees
    <2>2. ASSUME NEW c \in Claims, NEW q \in Attempts, IntentList(c, q)
          PROVE  intentSweeper'.mark = "none"
      BY <2>2 DEF IntentList, Listed
    <2>3. CASE IntentReadClaim
      <3> DEFINE w == intentSweeper
                 row == claim[w.claim]
      <3>1. /\ w \in [claim : Claims, seq : Attempts, row : IntentRow,
                      mark : {"none", "settling"} \cup Terminal]
            /\ intentSweeper' = [w EXCEPT !.mark = Decide(w)] /\ UNCHANGED claim
            /\ Decide(w) \in Terminal \cup {"settling"}
        BY <1>2, <2>3 DEF IntentReadClaim, NoLedgerStep, ledgerVars, CallerInv, PipelineTypeOK
      <3>2. row.seq \in Nat /\ w.seq \in Nat
        BY <3>1 DEF CallerInv, TypeOK, ClaimRow, Attempts
      <3>3. /\ Decide(w) = "settled" => row.seq = w.seq /\ row.status = "committed"
            /\ Decide(w) = "aborted" => row.seq = w.seq /\ row.status = "aborted"
            /\ Decide(w) = "superseded" => row.seq > w.seq
        BY <3>2 DEF Decide
      <3>4. /\ intentSweeper'.mark = Decide(w) /\ intentSweeper'.claim = w.claim
            /\ intentSweeper'.seq = w.seq
        BY <3>1
      <3> QED BY <3>1, <3>3, <3>4 DEF Agrees, Committed, Ended
    <2>4. CASE IntentCAS
      BY <1>2, <2>4 DEF IntentCAS
    <2>5. ASSUME NEW r \in Requests, RequestStep(r) \/ Crash(r) \/ Recover(r)
          PROVE  intentSweeper' = intentSweeper
      BY <2>5 DEF RequestStep, ReqReserve, ReqInsertPending, ReqSelect, ReqCacheHit,
         ReqWriteAcquisition, ReqReleaseSlot, ReqUpstreamFails, ReqOpenGate, ReqWrite, ReqSettle,
         ReqEnqueue, ReqMark, ReqAbortBegin, ReqAbortCommit, ReqMarkAborted, Crash, Recover,
         NoSweep
    <2>6. ASSUME \/ \E d \in Claims : ExpireLease(d) \/ RecoverUsage(d)
                 \/ \E s \in Slots : SweepSlot(s)
                 \/ LateDelivering \/ LeaseSweep \/ UNCHANGED vars
          PROVE  intentSweeper' = intentSweeper
      BY <2>6 DEF ExpireLease, RecoverUsage, SweepSlot, LateDelivering, LeaseSweep, SweepSelect,
         SweepAbortBegin, SweepAbortCommit, NoSweep, pipelineVars, vars
    <2> QED BY <2>1, <2>2, <2>3, <2>4, <2>5, <2>6 DEF PipelineNext, IntentSweep, Agrees
  <1> QED BY <1>1, <1>2 DEF IntentsAgree

(* An attempt that delivered stays the claim's last, paid or with its       *)
(* evidence.                                                                *)
LEMMA KeptStays ==
    ASSUME CallerInv, TimingInv, [PipelineNext]_vars
    PROVE  DeliveredIsKept'
  <1> SUFFICES ASSUME NEW c \in Claims, NEW q \in Attempts, <<c, q>> \in delivered'
               PROVE  /\ claim'[c].seq = q /\ claim'[c].status \in {"reserving", "committed"}
                      /\ claim'[c].status = "reserving" => intent'[c][q].status \in Unresolved
    BY DEF DeliveredIsKept
  <1>1. CASE <<c, q>> \in delivered
    <2>1. /\ claim[c].seq = q /\ claim[c].status \in {"reserving", "committed"}
          /\ claim[c].status = "reserving" => intent[c][q].status \in Unresolved
      BY <1>1 DEF TimingInv, DeliveredIsKept
    <2>2. ~(claim[c].status = "reserving" /\ claim'[c].status = "aborted")
      <3> SUFFICES ASSUME claim[c].status = "reserving", claim'[c].status = "aborted"
                   PROVE  FALSE
        OBVIOUS
      <3>1. ASSUME NEW r \in Requests, ClaimOf[r] = c, ReqAbortCommit(r) PROVE FALSE
        <4>1. req[r].pc = "aborting" /\ Works(r)
          BY <3>1 DEF ReqAbortCommit, Works, Running
        <4>2. req[r].seq = q
          BY <2>1, <3>1, <4>1 DEF TimingInv, OnPresentAttempt
        <4> QED BY <1>1, <3>1, <4>1, <4>2 DEF TimingInv, NotYetDelivered, Undelivering
      <3>2. ASSUME SweepAbortCommit, abortTx[Sweeper].claim = c, abortTx[Sweeper].row = claim[c]
            PROVE  FALSE
        BY <1>1, <2>1, <3>2 DEF SweepAbortCommit, TimingInv, SweepsUndelivered
      <3> QED BY <3>1, <3>2, ClaimMoves DEF ClaimMoved
    <2>3. /\ claim'[c].seq = q /\ claim'[c].status \in {"reserving", "committed"}
          /\ claim'[c].status = "reserving" => claim[c].status = "reserving"
      BY <2>1, <2>2, ClaimMoves DEF ClaimMoved
    <2> QED BY <2>1, <2>3, EvidenceStays
  <1>2. CASE <<c, q>> \notin delivered
    <2>1. PICK o \in Requests : /\ req[o].pc = "writing" /\ <<c, q>> = <<ClaimOf[o], req[o].seq>>
                                /\ UNCHANGED <<claim, intent>>
      BY <1>2, Deliveries
    <2> QED BY <2>1 DEF TimingInv, OnPresentAttempt, Works, Running
  <1> QED BY <1>1, <1>2

(* A charge is for the attempt that was delivered: the cost is remembered   *)
(* of no other.                                                             *)
LEMMA ChargedStays ==
    ASSUME CallerInv, ChargeInv, TimingInv, [PipelineNext]_vars
    PROVE  ChargedAttemptWasDelivered'
  <1> SUFFICES ASSUME NEW c \in Claims, claim'[c].status = "committed", claim'[c].actual > 0
               PROVE  <<c, claim'[c].seq>> \in delivered'
    BY DEF ChargedAttemptWasDelivered
  <1>1. delivered \subseteq delivered' /\ delivered \subseteq Claims \X Attempts
    BY DeliveredGrows DEF CallerInv, PipelineTypeOK
  <1>2. CASE claim'[c] = claim[c]
    BY <1>1, <1>2 DEF TimingInv, ChargedAttemptWasDelivered
  <1>3. CASE ChargedNow(c)
    <2>1. PICK r \in Requests : <<c, req[r].seq>> \in delivered
      BY <1>3 DEF ChargedNow, ChargeInv, Answered
    <2>2. claim[c].seq = req[r].seq
      BY <1>1, <2>1 DEF TimingInv, DeliveredIsKept
    <2> QED BY <1>1, <1>3, <2>1, <2>2 DEF ChargedNow
  <1> QED BY <1>2, <1>3, ChargesRemembered

-----------------------------------------------------------------------------
LEMMA StepTiming ==
    ASSUME LeaseOutlivesAttempt, SweepIsPrompt, CallerInv, ChargeInv, TimingInv,
           [PipelineNext]_vars
    PROVE  TimingInv'
  <1>1. /\ OnPresentAttempt' /\ AbortedHasEnded' /\ OwnAttempts' /\ OwnTransactions'
        /\ NotYetDelivered'
    BY PresentStays, AbortedStays, OwnStays, TransactionsStay, UndeliveredStays
  <1>2. LeasesHold' /\ SweepsExpired' /\ SweepsUndelivered'
    BY LeasesStay, SelectionStays, SweepsStay
  <1>3. IntentsAgree' /\ DeliveredIsKept' /\ ChargedAttemptWasDelivered'
    BY IntentsStay, KeptStays, ChargedStays
  <1> QED BY <1>1, <1>2, <1>3 DEF TimingInv

LEMMA TimingHolds ==
    ASSUME LeaseOutlivesAttempt, SweepIsPrompt
    PROVE  PipelineSpec => []TimingInv
  <1>1. CallerInv /\ ChargeInv /\ TimingInv /\ [PipelineNext]_vars => TimingInv'
    BY StepTiming
  <1> QED BY <1>1, InitTiming, CallersRemember, ChargesRecalled, PTL DEF PipelineSpec

(* How an attempt ended is the type of its event.                           *)
LEMMA EventsTell ==
    ASSUME TypeOK, OneEventPerAttempt, NEW c \in Claims, NEW q \in Attempts
    PROVE  /\ Committed(c, q) => EventOf(c, q) = "claim_committed"
           /\ Ended(c, q) => EventOf(c, q) = "claim_aborted"
           /\ claim[c].seq = q /\ claim[c].status = "reserving" => EventOf(c, q) = "none"
  <1>1. claim[c].seq \in Nat /\ q \in Nat /\ q >= 1
    BY DEF TypeOK, ClaimRow, Attempts
  <1>2. Len(events[c]) = IF claim[c].status = "reserving" THEN claim[c].seq - 1
                                                         ELSE claim[c].seq
    BY DEF OneEventPerAttempt
  <1>3. \A i \in 1..Len(events[c]) :
           events[c][i].type = IF i = claim[c].seq /\ claim[c].status = "committed"
                                  THEN "claim_committed" ELSE "claim_aborted"
    <2> SUFFICES ASSUME NEW i \in 1..Len(events[c])
                 PROVE  events[c][i].type = IF i = claim[c].seq /\ claim[c].status = "committed"
                                               THEN "claim_committed" ELSE "claim_aborted"
      OBVIOUS
    <2>1. events[c][i] = IF i = claim[c].seq /\ claim[c].status = "committed"
                            THEN [type |-> "claim_committed", cost |-> claim[c].actual]
                            ELSE [type |-> "claim_aborted", cost |-> 0]
      BY DEF OneEventPerAttempt
    <2> QED BY <2>1
  <1>4. ASSUME Committed(c, q) PROVE EventOf(c, q) = "claim_committed"
    <2>1. Len(events[c]) = q /\ q \in 1..Len(events[c])
      BY <1>1, <1>2, <1>4 DEF Committed
    <2> QED BY <1>3, <1>4, <2>1 DEF EventOf, Committed
  <1>5. ASSUME Ended(c, q) PROVE EventOf(c, q) = "claim_aborted"
    <2>1. q \in 1..Len(events[c]) /\ ~(q = claim[c].seq /\ claim[c].status = "committed")
      BY <1>1, <1>2, <1>5 DEF Ended
    <2> QED BY <1>3, <2>1 DEF EventOf
  <1>6. ASSUME claim[c].seq = q, claim[c].status = "reserving" PROVE EventOf(c, q) = "none"
    <2>1. q \notin 1..Len(events[c])
      BY <1>1, <1>2, <1>6
    <2> QED BY <2>1 DEF EventOf
  <1> QED BY <1>4, <1>5, <1>6

(***************************************************************************)
(* While leases outlive attempts and the sweep is prompt, an attempt whose  *)
(* response reached a client is never ended at zero cost                    *)
(* (DeliveredNeverAborted), for any number of requests, retries, crashes    *)
(* and late writes.                                                         *)
(***************************************************************************)
THEOREM DeliveredIsNeverAborted ==
    ASSUME LeaseOutlivesAttempt, SweepIsPrompt
    PROVE  PipelineSpec => []DeliveredNeverAborted
<1>1. CallerInv /\ TimingInv /\ OneEventPerAttempt => DeliveredNeverAborted
  <2> SUFFICES ASSUME CallerInv, TimingInv, OneEventPerAttempt, NEW d \in delivered
               PROVE  EventOf(d[1], d[2]) # "claim_aborted"
    BY DEF DeliveredNeverAborted
  <2>1. PICK c \in Claims, q \in Attempts : d = <<c, q>>
    BY DEF CallerInv, PipelineTypeOK
  <2>2. claim[c].seq = q /\ claim[c].status \in {"reserving", "committed"}
    BY <2>1 DEF TimingInv, DeliveredIsKept
  <2>3. EventOf(c, q) \in {"none", "claim_committed"}
    BY <2>2, EventsTell DEF CallerInv, Committed
  <2> QED BY <2>1, <2>3
<1> QED
  BY <1>1, TimingHolds, CallersRemember, CallersUseLedger, EventsFollowAttempts, PTL
     DEF UsesLedger

(***************************************************************************)
(* Under the same assumptions a claim pays only for an attempt that was     *)
(* delivered, and a terminal intent tells the truth about its own attempt,  *)
(* whoever wrote it and from however old a reading (PipelineSafety).        *)
(***************************************************************************)
THEOREM PipelineIsSafe ==
    ASSUME LeaseOutlivesAttempt, SweepIsPrompt
    PROVE  PipelineSpec => []PipelineSafety
<1>1. CallerInv /\ TimingInv /\ OneEventPerAttempt => PipelineSafety
  <2> SUFFICES ASSUME CallerInv, TimingInv, OneEventPerAttempt PROVE PipelineSafety
    OBVIOUS
  <2>1. ASSUME NEW c \in Claims, NEW q \in Attempts
        PROVE  /\ intent[c][q].status = "settled" => EventOf(c, q) = "claim_committed"
               /\ intent[c][q].status = "aborted" => EventOf(c, q) = "claim_aborted"
               /\ intent[c][q].status = "superseded" => claim[c].seq > q
    <3>1. Agrees(intent[c][q].status, c, q)
      BY DEF TimingInv, IntentsAgree
    <3> QED BY <3>1, EventsTell DEF CallerInv, Agrees
  <2> QED BY <2>1 DEF PipelineSafety, TerminalIntentAgrees, CallerInv, TimingInv
<1> QED
  BY <1>1, TimingHolds, CallersRemember, CallersUseLedger, EventsFollowAttempts, PTL
     DEF UsesLedger

===============================================================================
