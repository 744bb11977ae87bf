------------------------- MODULE SettlementPipeline -------------------------
(***************************************************************************)
(* The callers of the ledger: relay requests, which reserve, pick an        *)
(* account, open the delivery gate, write the response and settle; the      *)
(* lease sweeper, which aborts claims nobody finished; the settlement       *)
(* recovery queue, which settles again what failed after delivery; and the  *)
(* settlement intents, the evidence rows that tell these apart, with their  *)
(* sweeper.  Everything between two database calls may interleave, a call   *)
(* may fail after it took effect, and a process may die anywhere.           *)
(***************************************************************************)
EXTENDS BillingLedger

CONSTANTS
    Requests,         \* relay requests, a client's retries of one claim included
    ClaimOf,          \* [Requests -> Claims]
    RetryBudget,      \* attempts one request may make
    MaxFaults,        \* bound on crashes and on calls that fail
    IntentBatch,      \* intents the intent sweeper lists in one round
    LeaseOutlivesAttempt,
                      \* TRUE: no attempt is still running when its 30 min lease ends
    SweepIsPrompt     \* TRUE: the sweeper aborts the very attempt it selected

Sweeper == "sweeper"

ASSUME PipelineAssumption ==
    /\ ClaimOf \in [Requests -> Claims]
    /\ Sweeper \notin Requests
    /\ RetryBudget \in Nat
    /\ MaxFaults \in Nat
    /\ IntentBatch \in Nat \ {0}
    /\ LeaseOutlivesAttempt \in BOOLEAN
    /\ SweepIsPrompt \in BOOLEAN

VARIABLES
    req,              \* the control state of every request's goroutine
    late,             \* MarkDelivering calls that timed out and may still land
    intent,           \* settlement_intents, keyed by claim and attempt
    recovery,         \* post_delivery_settlement rows, one per request
    abortTx,          \* abort transactions between their snapshot and their commit
    expired,          \* claims whose lease_expires_at has passed
    leaseSweeper,     \* the claim and attempt the lease sweeper selected
    intentSweeper,    \* the intent row and decision the intent sweeper carries
    delivered,        \* the <<claim, attempt>> pairs a client received bytes of
    faults            \* faults so far

pipelineVars == <<req, late, intent, recovery, abortTx, expired, leaseSweeper,
                  intentSweeper, delivered, faults>>
vars == <<ledgerVars, pipelineVars>>

Aborters == Requests \cup {Sweeper}

Attempts == 1..MaxSeq

(***************************************************************************)
(* Control states of a request.  "aborting" runs until the abort is decided; *)
(* then is where it goes from there: "start" is the next attempt.           *)
(***************************************************************************)
PC == {"start", "reserved", "selecting", "acquired", "dispatched", "writing",
       "releasing", "settling", "enqueue", "marking", "aborting", "aborted", "done",
       "crashed"}

ReqRow ==
    [pc : PC, seq : Nat, slot : Slots \cup {NoSlot}, cost : Costs \cup {0},
     version : Nat \cup {-1},       \* the tracker's intent version, -1 without a row
     mark : {"none", "settled", "settling", "failed"},
     then : {"start", "done"},
     tries : Nat]

IntentStatus == {"absent", "pending", "delivering", "settling", "settled",
                 "aborted", "failed", "superseded"}
IntentRow == [status : IntentStatus, version : Nat, owner : Requests \cup {Sweeper}]
Unresolved == {"delivering", "settling", "failed"}
Terminal == {"settled", "aborted", "superseded"}

Idle == [claim |-> "idle"]

PipelineInit ==
    /\ LedgerInit
    /\ req = [r \in Requests |->
                 [pc |-> "start", seq |-> 0, slot |-> NoSlot, cost |-> 0, version |-> -1,
                  mark |-> "none", then |-> "done", tries |-> 0]]
    /\ late = {}
    /\ intent = [c \in Claims |-> [q \in Attempts |->
                    [status |-> "absent", version |-> 0, owner |-> Sweeper]]]
    /\ recovery = [r \in Requests |-> "none"]
    /\ abortTx = [w \in Aborters |-> Idle]
    /\ expired = [c \in Claims |-> FALSE]
    /\ leaseSweeper = Idle
    /\ intentSweeper = Idle
    /\ delivered = {}
    /\ faults = 0

-----------------------------------------------------------------------------
Goto(r, pc) == req' = [req EXCEPT ![r].pc = pc]

Fault == faults < MaxFaults /\ faults' = faults + 1
NoFault == UNCHANGED faults

(* Fault: a delivering intent is no evidence.                               *)
Evidence_AfterSettlement(c) ==
    \/ \E r \in Requests : ClaimOf[r] = c /\ recovery[r] = "pending"
    \/ \E q \in Attempts : intent[c][q].status \in {"settling", "failed"}

(***************************************************************************)
(* What Abort and the lease sweeper take as proof that something may have   *)
(* been delivered: an undelivered recovery row, or an unresolved intent of   *)
(* any attempt of the claim.                                                *)
(***************************************************************************)
Evidence(c) ==
    \/ \E r \in Requests : ClaimOf[r] = c /\ recovery[r] = "pending"
    \/ \E q \in Attempts : intent[c][q].status \in Unresolved

(* UPDATE settlement_intents ... WHERE id AND version.                      *)
SetIntent(c, q, status) ==
    intent' = [intent EXCEPT ![c][q] =
                  [status |-> status, version |-> @.version + 1, owner |-> @.owner]]

(* The tracker's own transitions are best effort: one that misses its       *)
(* version, or its time limit, changes nothing and is not reported.         *)
TrackerMark(r, status) ==
    LET c == ClaimOf[r]  q == req[r].seq IN
    \/ /\ req[r].version # -1
       /\ intent[c][q].version = req[r].version
       /\ SetIntent(c, q, status)
       /\ NoFault
    \/ /\ req[r].version = -1 \/ intent[c][q].version # req[r].version
       /\ UNCHANGED intent
       /\ NoFault
    \/ /\ Fault
       /\ UNCHANGED intent

NoLedgerStep == UNCHANGED ledgerVars
NoSweep == UNCHANGED <<leaseSweeper, intentSweeper>>

-----------------------------------------------------------------------------
(* A relay request, one attempt after another.                              *)

(* Reserve (Tx1), refused or not; a commit whose answer is lost is an error *)
(* for the caller, who gives up and leaves the claim to its lease.          *)
ReqReserve(r) ==
    LET c == ClaimOf[r] IN
    /\ req[r].pc = "start"
    /\ \/ /\ \E cost \in Costs : Reserve(c, cost)
          /\ expired' = [expired EXCEPT ![c] = FALSE]
          /\ \/ /\ req' = [req EXCEPT ![r].pc = "reserved", ![r].seq = claim[c].seq + 1,
                                      ![r].slot = NoSlot, ![r].version = -1,
                                      ![r].tries = @ + 1]
                /\ NoFault
             \/ Goto(r, "done") /\ Fault
       \/ Goto(r, "done") /\ NoFault /\ NoLedgerStep /\ UNCHANGED expired
    /\ NoSweep
    /\ UNCHANGED <<late, intent, recovery, abortTx, delivered>>

(* Fault: the row is inserted with the version of a tracker without a row.  *)
ReqInsertPending_TrackerVersion(r) ==
    /\ req[r].pc = "reserved"
    /\ intent' = [intent EXCEPT ![ClaimOf[r]][req[r].seq] =
                     [status |-> "pending", version |-> req[r].version, owner |-> r]]
    /\ req' = [req EXCEPT ![r].pc = "selecting", ![r].version = 0]
    /\ NoFault /\ NoLedgerStep /\ NoSweep
    /\ UNCHANGED <<late, recovery, abortTx, expired, delivered>>

(* InsertPending fails closed: without the row there is no dispatch.  The    *)
(* insert may have landed all the same, unknown to the tracker.              *)
ReqInsertPending(r) ==
    LET c == ClaimOf[r]  q == req[r].seq
        Insert == intent' = [intent EXCEPT ![c][q] =
                      [status |-> "pending", version |-> 0, owner |-> r]]
    IN
    /\ req[r].pc = "reserved"
    /\ intent[c][q].status = "absent"
    /\ \/ /\ Insert
          /\ req' = [req EXCEPT ![r].pc = "selecting", ![r].version = 0]
          /\ NoFault
       \/ /\ Insert \/ UNCHANGED intent
          /\ req' = [req EXCEPT ![r].pc = "aborting", ![r].then = "done"]
          /\ Fault
    /\ NoLedgerStep /\ NoSweep
    /\ UNCHANGED <<late, recovery, abortTx, expired, delivered>>

(* The selector finds an account with a free slot, or the attempt ends:     *)
(* quota denied, nobody eligible.                                           *)
ReqSelect(r) ==
    LET c == ClaimOf[r] IN
    /\ req[r].pc = "selecting"
    /\ \/ /\ \E s \in Slots, a \in Accounts :
                /\ Acquire(s, c, req[r].seq, a)
                /\ req' = [req EXCEPT ![r].pc = "acquired", ![r].slot = s]
       \/ /\ \E next \in {"start", "done"} :
                req' = [req EXCEPT ![r].pc = "aborting", ![r].then = next]
          /\ NoLedgerStep
    /\ NoFault /\ NoSweep
    /\ UNCHANGED <<late, intent, recovery, abortTx, expired, delivered>>

(* A hit in the response cache before an account is chosen.                 *)
ReqCacheHit(r) ==
    /\ req[r].pc = "selecting"
    /\ \/ /\ CommitCacheHit(ClaimOf[r])
          /\ req' = [req EXCEPT ![r].pc = "marking", ![r].mark = "settled"]
          /\ NoFault
       \/ /\ NoLedgerStep \/ CommitCacheHit(ClaimOf[r])
          /\ req' = [req EXCEPT ![r].pc = "aborting", ![r].then = "done"]
          /\ Fault
    /\ NoSweep
    /\ UNCHANGED <<late, intent, recovery, abortTx, expired, delivered>>

(* Write the token onto the claim.  Without it, or without an answer, the   *)
(* slot is given back and the attempt ends.                                 *)
ReqWriteAcquisition(r) ==
    LET c == ClaimOf[r] IN
    /\ req[r].pc = "acquired"
    /\ \/ WriteAcquisition(c, req[r].slot) /\ Goto(r, "dispatched") /\ NoFault
       \/ claim[c].status # "reserving" /\ NoLedgerStep /\ Goto(r, "releasing") /\ NoFault
       \/ /\ WriteAcquisition(c, req[r].slot) \/ NoLedgerStep
          /\ Goto(r, "releasing")
          /\ Fault
    /\ NoSweep
    /\ UNCHANGED <<late, intent, recovery, abortTx, expired, delivered>>

(* Fault: the slot is given back, the account's count is not.               *)
ReqReleaseSlot_NoDecrement(r) ==
    /\ req[r].pc = "releasing"
    /\ slot' = [slot EXCEPT ![req[r].slot].state = "released_failure"]
    /\ req' = [req EXCEPT ![r].pc = "aborting", ![r].then = "done"]
    /\ UNCHANGED <<claim, walletVars, inFlight, events, usageVars>>
    /\ NoFault /\ NoSweep
    /\ UNCHANGED <<late, intent, recovery, abortTx, expired, delivered>>

ReqReleaseSlot(r) ==
    /\ req[r].pc = "releasing"
    /\ \/ SelectorRelease(req[r].slot) /\ NoFault
       \/ NoLedgerStep /\ Fault
    /\ \E next \in {"start", "done"} :
          req' = [req EXCEPT ![r].pc = "aborting", ![r].then = next]
    /\ NoSweep
    /\ UNCHANGED <<late, intent, recovery, abortTx, expired, delivered>>

(* The upstream fails before anything is delivered.                         *)
ReqUpstreamFails(r) ==
    /\ req[r].pc = "dispatched"
    /\ \E next \in {"start", "done"} :
          req' = [req EXCEPT ![r].pc = "aborting", ![r].then = next]
    /\ NoLedgerStep /\ NoSweep /\ NoFault
    /\ UNCHANGED <<late, intent, recovery, abortTx, expired, delivered>>

(***************************************************************************)
(* The upstream answered.  The delivery gate opens when MarkDelivering has  *)
(* written its evidence; the claim is not looked at.  An error closes the   *)
(* request, though the write may have landed or may land later.             *)
(***************************************************************************)
ReqOpenGate(r) ==
    LET c == ClaimOf[r]  q == req[r].seq
        Close == req' = [req EXCEPT ![r].pc = "aborting", ![r].then = "done"]
    IN
    /\ req[r].pc = "dispatched"
    /\ \/ /\ intent[c][q].version = req[r].version
          /\ SetIntent(c, q, "delivering")
          /\ req' = [req EXCEPT ![r].pc = "writing", ![r].version = @ + 1]
          /\ NoFault
          /\ UNCHANGED late
       \/ /\ intent[c][q].version # req[r].version
          /\ Close /\ NoFault
          /\ UNCHANGED <<intent, late>>
       \/ /\ late' \in {late, late \cup {[claim |-> c, seq |-> q, version |-> req[r].version]}}
          /\ Close /\ Fault
          /\ UNCHANGED intent
    /\ NoLedgerStep /\ NoSweep
    /\ UNCHANGED <<recovery, abortTx, expired, delivered>>

LateDelivering ==
    /\ \E e \in late :
          /\ late' = late \ {e}
          /\ \/ /\ intent[e.claim][e.seq].version = e.version
                /\ SetIntent(e.claim, e.seq, "delivering")
             \/ /\ intent[e.claim][e.seq].version # e.version
                /\ UNCHANGED intent
    /\ NoLedgerStep /\ NoSweep /\ NoFault
    /\ UNCHANGED <<req, recovery, abortTx, expired, delivered>>

(* Fault: a write of no bytes is settled.                                   *)
ReqWrite_SettlesNothing(r) ==
    /\ req[r].pc = "writing"
    /\ \E cost \in Costs :
          req' = [req EXCEPT ![r].pc = "settling", ![r].cost = cost]
    /\ delivered' \in {delivered, delivered \cup {<<ClaimOf[r], req[r].seq>>}}
    /\ NoLedgerStep /\ NoSweep /\ NoFault
    /\ UNCHANGED <<late, intent, recovery, abortTx, expired>>

(* Write the response: some bytes reach the client, or none does.           *)
ReqWrite(r) ==
    /\ req[r].pc = "writing"
    /\ \/ /\ \E cost \in Costs :
                req' = [req EXCEPT ![r].pc = "settling", ![r].cost = cost]
          /\ delivered' = delivered \cup {<<ClaimOf[r], req[r].seq>>}
       \/ /\ req' = [req EXCEPT ![r].pc = "aborting", ![r].then = "done"]
          /\ UNCHANGED delivered
    /\ NoLedgerStep /\ NoSweep /\ NoFault
    /\ UNCHANGED <<late, intent, recovery, abortTx, expired>>

(* Settle (Tx2): done, refused, or failed with its effect in doubt.         *)
ReqSettle(r) ==
    LET c == ClaimOf[r]
        Done == Settle(c, req[r].slot, req[r].cost)
    IN
    /\ req[r].pc = "settling"
    /\ \/ /\ Done
          /\ req' = [req EXCEPT ![r].pc = "marking", ![r].mark = "settled"]
          /\ NoFault
       \/ /\ claim[c].status # "reserving" \/ claim[c].token # req[r].slot
          /\ NoLedgerStep /\ Goto(r, "enqueue") /\ NoFault
       \/ /\ Done \/ NoLedgerStep
          /\ Goto(r, "enqueue") /\ Fault
    /\ NoSweep
    /\ UNCHANGED <<late, intent, recovery, abortTx, expired, delivered>>

(* A post_delivery_settlement row is inserted once per claim and request;    *)
(* a second insert changes neither its payload nor its status.               *)
Publish(r) ==
    recovery' = [recovery EXCEPT ![r] = IF @ = "none" THEN "pending" ELSE @]

(* EnqueueFailure: the payload goes to the recovery queue, or, failing that, *)
(* onto the intent.                                                          *)
ReqEnqueue(r) ==
    /\ req[r].pc = "enqueue"
    /\ \/ /\ Publish(r)
          /\ req' = [req EXCEPT ![r].pc = "marking", ![r].mark = "settling"]
          /\ NoFault
       \/ /\ Publish(r) \/ UNCHANGED recovery
          /\ req' = [req EXCEPT ![r].pc = "marking", ![r].mark = "failed"]
          /\ Fault
    /\ NoLedgerStep /\ NoSweep
    /\ UNCHANGED <<late, intent, abortTx, expired, delivered>>

(* MarkSettled, or MarkSettlementResult.                                    *)
ReqMark(r) ==
    /\ req[r].pc = "marking"
    /\ TrackerMark(r, req[r].mark)
    /\ Goto(r, "done")
    /\ NoLedgerStep /\ NoSweep
    /\ UNCHANGED <<late, recovery, abortTx, expired, delivered>>

-----------------------------------------------------------------------------
(***************************************************************************)
(* Abort.  The Serializable snapshot is taken by the SELECT ... FOR UPDATE  *)
(* of the claim, and the evidence is read from it.  When the transaction    *)
(* commits the claim row is as it was then, or it fails with 40001; but an  *)
(* UPDATE of an intent, and an INSERT that was first at the row lock, are   *)
(* not seen.                                                                *)
(***************************************************************************)
AbortBegin(w, c) ==
    /\ claim[c].status = "reserving"
    /\ ~Evidence(c)
    /\ abortTx' = [abortTx EXCEPT ![w] = [claim |-> c, row |-> claim[c]]]

AbortEnd(w) == abortTx' = [abortTx EXCEPT ![w] = Idle]

RowUnchanged(w) == claim[abortTx[w].claim] = abortTx[w].row

(* ExpediteAbortLease, for the attempt the transaction read; only after a   *)
(* serialization conflict, and itself best effort.                          *)
Expedite(w) ==
    LET c == abortTx[w].claim IN
    \/ /\ claim[c].status = "reserving"
       /\ claim[c].seq = abortTx[w].row.seq
       /\ expired' = [expired EXCEPT ![c] = TRUE]
    \/ UNCHANGED expired

ReqAbortBegin(r) ==
    LET c == ClaimOf[r] IN
    /\ req[r].pc = "aborting"
    /\ abortTx[r] = Idle
    /\ \/ AbortBegin(r, c) /\ UNCHANGED req
       \/ /\ claim[c].status # "reserving" \/ Evidence(c)
          /\ Goto(r, "done")
          /\ UNCHANGED abortTx
    /\ NoLedgerStep /\ NoSweep /\ NoFault
    /\ UNCHANGED <<late, intent, recovery, expired, delivered>>

ReqAbortCommit(r) ==
    /\ req[r].pc = "aborting"
    /\ abortTx[r] # Idle
    /\ AbortEnd(r)
    /\ \/ /\ RowUnchanged(r)
          /\ Abort(ClaimOf[r])
          /\ \/ Goto(r, "aborted") /\ NoFault
             \/ Goto(r, "done") /\ Fault
          /\ UNCHANGED expired
       \/ /\ ~RowUnchanged(r)
          /\ NoLedgerStep /\ NoFault
          /\ UNCHANGED <<req, expired>>
       \/ /\ Fault
          /\ NoLedgerStep
          /\ Expedite(r)
          /\ Goto(r, "done")
    /\ NoSweep
    /\ UNCHANGED <<late, intent, recovery, delivered>>

(* MarkAbortResult, then the next attempt or the end.                       *)
ReqMarkAborted(r) ==
    /\ req[r].pc = "aborted"
    /\ TrackerMark(r, "aborted")
    /\ Goto(r, IF req[r].tries < RetryBudget THEN req[r].then ELSE "done")
    /\ NoLedgerStep /\ NoSweep
    /\ UNCHANGED <<late, recovery, abortTx, expired, delivered>>

(* The process dies: its open transaction is rolled back.                   *)
Crash(r) ==
    /\ req[r].pc \notin {"start", "done", "crashed"}
    /\ Goto(r, "crashed")
    /\ AbortEnd(r)
    /\ Fault
    /\ NoLedgerStep /\ NoSweep
    /\ UNCHANGED <<late, intent, recovery, expired, delivered>>

-----------------------------------------------------------------------------
(* The lease sweeper.                                                       *)

Running(r) == req[r].pc \notin {"start", "done", "crashed"}

ExpireLease(c) ==
    /\ claim[c].status = "reserving"
    /\ ~expired[c]
    /\ LeaseOutlivesAttempt =>
          \A r \in Requests :
              Running(r) => ~(ClaimOf[r] = c /\ req[r].seq = claim[c].seq)
    /\ expired' = [expired EXCEPT ![c] = TRUE]
    /\ NoLedgerStep /\ NoSweep /\ NoFault
    /\ UNCHANGED <<req, late, intent, recovery, abortTx, delivered>>

(* Fault: claims that never got an account are not selected.                *)
SweepSelect_WithToken(c) ==
    /\ leaseSweeper = Idle
    /\ claim[c].status = "reserving" /\ claim[c].token # NoSlot
    /\ expired[c]
    /\ ~Evidence(c)
    /\ leaseSweeper' = [claim |-> c, seq |-> claim[c].seq]
    /\ NoLedgerStep /\ NoFault
    /\ UNCHANGED <<req, late, intent, recovery, abortTx, expired, intentSweeper, delivered>>

(* SelectExpiredReservingClaims; its row locks end with the statement.      *)
SweepSelect(c) ==
    /\ leaseSweeper = Idle
    /\ claim[c].status = "reserving"
    /\ expired[c]
    /\ ~Evidence(c)
    /\ leaseSweeper' = [claim |-> c, seq |-> claim[c].seq]
    /\ NoLedgerStep /\ NoFault
    /\ UNCHANGED <<req, late, intent, recovery, abortTx, expired, intentSweeper, delivered>>

(* Abort of the selected claim: by its id, whatever its attempt is by now.  *)
SweepAbortBegin ==
    LET c == leaseSweeper.claim IN
    /\ leaseSweeper # Idle
    /\ abortTx[Sweeper] = Idle
    /\ \/ /\ SweepIsPrompt => claim[c].seq = leaseSweeper.seq
          /\ AbortBegin(Sweeper, c)
          /\ UNCHANGED leaseSweeper
       \/ /\ \/ claim[c].status # "reserving" \/ Evidence(c)
             \/ SweepIsPrompt /\ claim[c].seq # leaseSweeper.seq
          /\ leaseSweeper' = Idle
          /\ UNCHANGED abortTx
    /\ NoLedgerStep /\ NoFault
    /\ UNCHANGED <<req, late, intent, recovery, expired, intentSweeper, delivered>>

SweepAbortCommit ==
    /\ abortTx[Sweeper] # Idle
    /\ AbortEnd(Sweeper)
    /\ \/ /\ RowUnchanged(Sweeper)
          /\ Abort(abortTx[Sweeper].claim)
          /\ leaseSweeper' = Idle
          /\ UNCHANGED expired
          /\ NoFault
       \/ /\ ~RowUnchanged(Sweeper)
          /\ NoLedgerStep /\ NoFault
          /\ UNCHANGED <<leaseSweeper, expired>>
       \/ /\ Fault
          /\ NoLedgerStep
          /\ Expedite(Sweeper)
          /\ leaseSweeper' = Idle
    /\ UNCHANGED <<req, late, intent, recovery, intentSweeper, delivered>>

(* The sweeper's second statement, held off by a pending recovery row.      *)
SweepSlot(s) ==
    /\ SweepOrphanSlot(s)
    /\ \A r \in Requests : ClaimOf[r] = slot[s].claim => recovery[r] # "pending"
    /\ UNCHANGED pipelineVars

-----------------------------------------------------------------------------
(* Recovery.                                                                *)

(* Fault: a claim that is no longer reserving counts as committed.          *)
CommittedProof_Assumed(c) == claim[c].status # "reserving"

(* PostgresCommittedProof.IsCommitted *)
CommittedProof(c) ==
    /\ claim[c].status = "committed"
    /\ usage[c] # << >>
    /\ \E i \in 1..Len(events[c]) : events[c][i].type = "claim_committed"

(* Fault: only a settlement of its own counts as success.                   *)
Recover_NoProof(r) ==
    /\ recovery[r] = "pending"
    /\ Settle(ClaimOf[r], req[r].slot, req[r].cost)
    /\ \/ recovery' = [recovery EXCEPT ![r] = "delivered"] /\ NoFault
       \/ UNCHANGED recovery /\ Fault
    /\ NoSweep
    /\ UNCHANGED <<req, late, intent, abortTx, expired, delivered>>

(***************************************************************************)
(* The queue's handler settles with the payload, or finds that this has     *)
(* been done; any other outcome is tried again for ever.  The mark that     *)
(* follows a success may be lost with its worker.                           *)
(***************************************************************************)
Recover(r) ==
    LET c == ClaimOf[r] IN
    /\ recovery[r] = "pending"
    /\ \/ Settle(c, req[r].slot, req[r].cost)
       \/ claim[c].status # "reserving" /\ CommittedProof(c) /\ NoLedgerStep
    /\ \/ recovery' = [recovery EXCEPT ![r] = "delivered"] /\ NoFault
       \/ UNCHANGED recovery /\ Fault
    /\ NoSweep
    /\ UNCHANGED <<req, late, intent, abortTx, expired, delivered>>

RecoverUsage(c) == ReplayUsage(c) /\ UNCHANGED pipelineVars

Listed(c, q) == [claim |-> c, seq |-> q, row |-> intent[c][q], mark |-> "none"]

(* Fault: pending rows are not listed.                                      *)
IntentList_UnresolvedOnly(c, q) ==
    /\ intentSweeper = Idle
    /\ intent[c][q].status \in Unresolved
    /\ intentSweeper' = Listed(c, q)
    /\ NoLedgerStep /\ NoFault
    /\ UNCHANGED <<req, late, intent, recovery, abortTx, expired, leaseSweeper, delivered>>

(***************************************************************************)
(* The intent sweeper: list a stale row, read the claim, update the row if  *)
(* its version is still the one listed.                                     *)
(***************************************************************************)
IntentList(c, q) ==
    /\ intentSweeper = Idle
    /\ intent[c][q].status \in Unresolved \cup {"pending"}
    /\ intentSweeper' = Listed(c, q)
    /\ NoLedgerStep /\ NoFault
    /\ UNCHANGED <<req, late, intent, recovery, abortTx, expired, leaseSweeper, delivered>>

(* Fault: the status is looked at before the attempt number.                *)
Decide_StatusFirst(w) ==
    LET row == claim[w.claim] IN
    CASE row.status = "committed" -> "settled"
      [] row.status = "aborted"   -> "aborted"
      [] row.status = "reserving" /\ row.seq > w.seq -> "superseded"
      [] row.status = "reserving" /\ row.seq = w.seq /\ w.row.status = "failed" -> "settling"
      [] OTHER                    -> "skip"

(* Fault: a failed intent is left alone.                                    *)
Decide_IgnoresFailed(w) ==
    LET row == claim[w.claim] IN
    CASE row.seq > w.seq            -> "superseded"
      [] row.seq = w.seq /\ row.status = "committed" -> "settled"
      [] row.seq = w.seq /\ row.status = "aborted"   -> "aborted"
      [] OTHER                      -> "skip"

(* The attempt number is compared before the status: a later attempt's end  *)
(* says nothing of this one.                                                *)
Decide(w) ==
    LET row == claim[w.claim] IN
    CASE row.seq > w.seq            -> "superseded"
      [] row.seq = w.seq /\ row.status = "committed" -> "settled"
      [] row.seq = w.seq /\ row.status = "aborted"   -> "aborted"
      [] row.seq = w.seq /\ row.status = "reserving" /\ w.row.status = "failed" -> "settling"
      [] OTHER                      -> "skip"

IntentReadClaim ==
    LET decision == Decide(intentSweeper) IN
    /\ intentSweeper # Idle
    /\ intentSweeper.mark = "none"
    /\ \/ /\ decision \in Terminal
          /\ intentSweeper' = [intentSweeper EXCEPT !.mark = decision]
          /\ UNCHANGED recovery
          /\ NoFault
       \/ /\ decision = "settling"
          /\ Publish(intentSweeper.row.owner)
          /\ intentSweeper' = [intentSweeper EXCEPT !.mark = decision]
          /\ NoFault
       \/ /\ decision = "skip" /\ intentSweeper' = Idle /\ UNCHANGED recovery /\ NoFault
    /\ NoLedgerStep
    /\ UNCHANGED <<req, late, intent, abortTx, expired, leaseSweeper, delivered>>

IntentCAS ==
    LET w == intentSweeper IN
    /\ w # Idle
    /\ w.mark # "none"
    /\ \/ /\ intent[w.claim][w.seq].version = w.row.version
          /\ SetIntent(w.claim, w.seq, w.mark)
          /\ NoFault
       \/ /\ intent[w.claim][w.seq].version # w.row.version
          /\ UNCHANGED intent
          /\ NoFault
       \/ UNCHANGED intent /\ Fault
    /\ intentSweeper' = Idle
    /\ NoLedgerStep
    /\ UNCHANGED <<req, late, recovery, abortTx, expired, leaseSweeper, delivered>>

-----------------------------------------------------------------------------
RequestStep(r) ==
    \/ ReqReserve(r) \/ ReqInsertPending(r) \/ ReqSelect(r) \/ ReqCacheHit(r)
    \/ ReqWriteAcquisition(r) \/ ReqReleaseSlot(r) \/ ReqUpstreamFails(r)
    \/ ReqOpenGate(r) \/ ReqWrite(r) \/ ReqSettle(r) \/ ReqEnqueue(r) \/ ReqMark(r)
    \/ ReqAbortBegin(r) \/ ReqAbortCommit(r) \/ ReqMarkAborted(r)

LeaseSweep ==
    \/ \E c \in Claims : SweepSelect(c)
    \/ SweepAbortBegin
    \/ SweepAbortCommit

IntentSweep ==
    \/ \E c \in Claims, q \in Attempts : IntentList(c, q)
    \/ IntentReadClaim
    \/ IntentCAS

PipelineNext ==
    \/ \E r \in Requests : RequestStep(r) \/ Crash(r) \/ Recover(r)
    \/ \E c \in Claims : ExpireLease(c) \/ RecoverUsage(c)
    \/ \E s \in Slots : SweepSlot(s)
    \/ LateDelivering
    \/ LeaseSweep
    \/ IntentSweep

PipelineSpec == PipelineInit /\ [][PipelineNext]_vars

(***************************************************************************)
(* Rows the sweeper lists and leaves as they are: those of an attempt that  *)
(* is still reserving, unless it has failed.  They keep their updated_at    *)
(* and with it their place at the head of the list, which is ordered by it  *)
(* and cut off after a batch.                                               *)
(***************************************************************************)
StuckIntents ==
    {d \in Claims \X Attempts :
        /\ intent[d[1]][d[2]].status \in {"pending", "delivering", "settling"}
        /\ claim[d[1]].status = "reserving" /\ claim[d[1]].seq = d[2]}

BatchIsStuck == Cardinality(StuckIntents) >= IntentBatch

(***************************************************************************)
(* A goroutine whose process lives goes on: every request step is weakly    *)
(* fair, and so are the recovery workers, the two sweepers' next statements *)
(* and the passing of a lease, all of them driven by tickers.  The lease    *)
(* sweeper lists only what it can abort, so that no row is passed over for  *)
(* ever although it is busy with others in between: its choices are         *)
(* strongly fair.  Those of the intent sweeper are while its batch has room  *)
(* beside the stuck rows: every other row that is listed is updated, and a  *)
(* row that waits moves to the head.  Nothing is assumed of crashes,        *)
(* failures or late writes other than that a write in flight arrives.       *)
(***************************************************************************)
Fairness ==
    /\ \A r \in Requests : WF_vars(RequestStep(r)) /\ WF_vars(Recover(r))
    /\ \A c \in Claims :
          /\ WF_vars(ExpireLease(c)) /\ WF_vars(RecoverUsage(c))
          /\ SF_vars(SweepSelect(c))
          /\ \A q \in Attempts : SF_vars(~BatchIsStuck /\ IntentList(c, q))
    /\ WF_vars(SweepAbortBegin) /\ WF_vars(SweepAbortCommit)
    /\ WF_vars(IntentReadClaim) /\ WF_vars(IntentCAS)
    /\ WF_vars(LateDelivering)

FairSpec == PipelineSpec /\ Fairness

-----------------------------------------------------------------------------
(* Properties.                                                              *)

PipelineTypeOK ==
    /\ req \in [Requests -> ReqRow]
    /\ late \subseteq [claim : Claims, seq : Attempts, version : Nat]
    /\ intent \in [Claims -> [Attempts -> IntentRow]]
    /\ recovery \in [Requests -> {"none", "pending", "delivered"}]
    /\ abortTx \in [Aborters -> {Idle} \cup [claim : Claims, row : ClaimRow]]
    /\ expired \in [Claims -> BOOLEAN]
    /\ leaseSweeper \in {Idle} \cup [claim : Claims, seq : Attempts]
    /\ intentSweeper \in {Idle} \cup
          [claim : Claims, seq : Attempts, row : IntentRow,
           mark : {"none", "settling"} \cup Terminal]
    /\ delivered \subseteq Claims \X Attempts
    /\ faults \in 0..MaxFaults

EventOf(c, q) == IF q \in 1..Len(events[c]) THEN events[c][q].type ELSE "none"

(***************************************************************************)
(* An attempt whose response reached a client is never ended at zero cost   *)
(* (the evidence check of abortOnce).                                       *)
(***************************************************************************)
DeliveredNeverAborted ==
    \A d \in delivered : EventOf(d[1], d[2]) # "claim_aborted"

(* A claim pays only for the attempt whose response reached a client.       *)
ChargedAttemptWasDelivered ==
    \A c \in Claims :
        claim[c].status = "committed" /\ claim[c].actual > 0
            => <<c, claim[c].seq>> \in delivered

(* Nobody pays for a response no part of which any client received.         *)
NoChargeWithoutDelivery ==
    \A c \in Claims :
        claim[c].status = "committed" /\ claim[c].actual > 0
            => \E q \in Attempts : <<c, q>> \in delivered

(* A terminal intent tells the truth about its own attempt, whoever wrote   *)
(* it: the tracker, or the sweeper from a claim it had read before.         *)
TerminalIntentAgrees ==
    \A c \in Claims, q \in Attempts :
        /\ intent[c][q].status = "settled" => EventOf(c, q) = "claim_committed"
        /\ intent[c][q].status = "aborted" => EventOf(c, q) = "claim_aborted"
        /\ intent[c][q].status = "superseded" => claim[c].seq > q

(* The recovery queue forgets a failed settlement only once it is paid.     *)
RecoveredMeansCharged ==
    \A r \in Requests : recovery[r] = "delivered" => claim[ClaimOf[r]].status = "committed"

(***************************************************************************)
(* A settlement that failed after delivery is paid in the end, and its row  *)
(* leaves the queue: a worker that dies after the charge finds the proof.   *)
(***************************************************************************)
RecoveryCompletes ==
    \A r \in Requests :
        recovery[r] = "pending" ~>
            recovery[r] = "delivered" /\ claim[ClaimOf[r]].status = "committed"

(* When the queue could not be written either, the payload on the intent    *)
(* brings the settlement there.                                             *)
FailedIntentIsCharged ==
    \A c \in Claims, q \in Attempts :
        intent[c][q].status = "failed" ~> claim[c].status = "committed"

(* A reservation ends, or it has left evidence that something may have been *)
(* delivered: what crashed before the gate is swept and its hold released.  *)
ReservationEndsOrHasEvidence ==
    \A c \in Claims :
        claim[c].status = "reserving" ~> claim[c].status # "reserving" \/ Evidence(c)

(* The intent of an attempt that has ended gets its terminal status, so     *)
(* that it cannot hold up an abort of a later attempt for ever.             *)
EndedAttemptIntentCloses ==
    \A c \in Claims, q \in Attempts :
        intent[c][q].status # "absent" /\ EventOf(c, q) # "none"
            ~> intent[c][q].status \in Terminal

(***************************************************************************)
(* settler.go, in abortOnce: quota denial, upstream failure and a failed    *)
(* write must all be able to abort.  (Not what the code does: once the gate *)
(* is open, the request's own delivering intent refuses every abort.)       *)
(***************************************************************************)
UndeliveredAttemptIsReleased ==
    \A r \in Requests :
        req[r].pc = "aborting" /\ <<ClaimOf[r], req[r].seq>> \notin delivered
            ~> claim[ClaimOf[r]].status # "reserving"

(***************************************************************************)
(* settler.go, in abortOnce: the evidence is read again under the claim's   *)
(* row lock so that a request just delivered is not aborted at zero cost.   *)
(* (Not what the code does: the Serializable snapshot does not see an       *)
(* intent that is updated while the abort runs.)                            *)
(***************************************************************************)
AbortSparesDelivered ==
    [][\A c \in Claims :
          claim[c].status = "reserving" /\ claim'[c].status = "aborted"
              => <<c, claim[c].seq>> \notin delivered]_vars

(***************************************************************************)
(* pool/binding/claim_gate.go: the write of a token is refused when another *)
(* selector has written one.  (Not what the code does: the UPDATE compares  *)
(* the status only.)                                                        *)
(***************************************************************************)
TokenWrittenOnce ==
    [][\A c \in Claims :
          claim[c].token # NoSlot /\ claim'[c].seq = claim[c].seq
              => claim'[c].token = claim[c].token]_vars

(***************************************************************************)
(* settler_retry.go: recovery is bound to the attempt that was read, doing  *)
(* nothing is safer than hitting its successor.  (Not what the lease        *)
(* sweeper does: it aborts by claim id what it selected by attempt.)        *)
(***************************************************************************)
SweepSparesSuccessor ==
    [][\A c \in Claims :
          (/\ abortTx[Sweeper] # Idle /\ abortTx'[Sweeper] = Idle
           /\ claim[c].status = "reserving" /\ claim'[c].status = "aborted")
              => claim[c].seq = leaseSweeper.seq]_vars

(* The callers use the ledger as its specification allows: all that is      *)
(* proved of LedgerSpec holds of the whole pipeline.                        *)
UsesLedger == LedgerSpec

(* A charged attempt was delivered, and terminal intents tell the truth,    *)
(* while leases outlive attempts and the sweep is prompt.                   *)
PipelineSafety == PipelineTypeOK /\ ChargedAttemptWasDelivered /\ TerminalIntentAgrees

(* Without those timing assumptions, too: nobody pays for nothing, and      *)
(* recovery forgets nothing unpaid.                                         *)
NothingUnearnedNothingLost == NoChargeWithoutDelivery /\ RecoveredMeansCharged

(***************************************************************************)
(* A failed intent is charged, and the intent of an ended attempt closes,   *)
(* unless a whole batch of rows is stuck from some time on: rows whose      *)
(* claims stay reserving then starve all those updated after them.          *)
(***************************************************************************)
IntentsClose ==
    []<>(~BatchIsStuck) => FailedIntentIsCharged /\ EndedAttemptIntentCloses
=============================================================================
