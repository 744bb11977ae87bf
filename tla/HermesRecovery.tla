--------------------------- MODULE HermesRecovery ---------------------------
(***************************************************************************)
(* A confirmed dead-letter replay (hermesops, hermesrecovery).  The replay *)
(* commits on its own, so it cannot share a transaction with its two audit *)
(* rows: a journal row is prepared first, the replay runs, its outcome is  *)
(* recorded, and a last transaction writes both audit rows and closes the  *)
(* journal row.  A worker of any replica takes over rows not closed yet,   *)
(* whether or not the request that prepared them still runs.               *)
(*                                                                         *)
(* All operations replay the same dead-letter row.  "delivered" and        *)
(* "already" are both result_status 'ok': they differ in the summary.      *)
(***************************************************************************)
EXTENDS Naturals, Sequences

CONSTANTS Ops,        \* confirmed operations, one request each
          Workers,    \* recovery workers, one per replica
          None,
          MaxFaults   \* failed or lost steps, crashes and stalls in a behaviour

ASSUME HermesAssumption == /\ Ops \cap Workers = {}
                           /\ None \notin Ops \cup Workers
                           /\ MaxFaults \in Nat

VARIABLES entry,    \* the journal row of each operation
          log,      \* the audit rows of each operation: the outcomes they state
          denied,   \* operations the HTTP handler wrote an error row for itself
          row,      \* the dead-letter row
          act,      \* where each request and each worker is
          answer,   \* what Execute returned for each operation
          faults

recoveryVars == <<entry, log, denied, row, act, answer, faults>>

Actors == Ops \cup Workers
Outcome == {"delivered", "already", "error"}

RecoveryInit ==
    /\ entry = [o \in Ops |-> [status |-> "none", audited |-> FALSE, due |-> TRUE,
                               lease |-> None, live |-> FALSE]]
    /\ log = [o \in Ops |-> <<>>]
    /\ denied = {}
    /\ row = [status |-> "parked", holder |-> None, live |-> FALSE]
    /\ act = [a \in Actors |-> [pc |-> "idle", op |-> IF a \in Ops THEN a ELSE None,
                                res |-> "none"]]
    /\ answer = [o \in Ops |-> "none"]
    /\ faults = 0

Fault == faults < MaxFaults /\ faults' = faults + 1
At(a, pc) == act[a].pc = pc
Goto(a, pc, res) == act' = [act EXCEPT ![a].pc = pc, ![a].res = res]

\* A request returns; a worker goes back to its loop.
End(a, ans) ==
    /\ act' = [act EXCEPT ![a] = IF a \in Ops THEN [@ EXCEPT !.pc = "done"]
                                 ELSE [pc |-> "idle", op |-> None, res |-> "none"]]
    /\ answer' = IF a \in Ops THEN [answer EXCEPT ![a] = ans] ELSE answer

(***************************************************************************)
(* The request: the journal row comes first.  An insert that is not        *)
(* answered may have landed; the handler then writes an error row.         *)
(***************************************************************************)
Prepare(o) ==
    /\ At(o, "idle")
    /\ entry' = [entry EXCEPT ![o].status = "prepared"]
    /\ Goto(o, "replay", "none")
    /\ UNCHANGED <<log, denied, row, answer, faults>>

PrepareFails(o) ==
    /\ At(o, "idle") /\ Fault
    /\ \E landed \in BOOLEAN :
         entry' = [entry EXCEPT ![o].status = IF landed THEN "prepared" ELSE @]
    /\ denied' = denied \cup {o}
    /\ End(o, "refused")
    /\ UNCHANGED <<log, row>>

(***************************************************************************)
(* The replay, by a request or by a worker (dlq Service.Replay).           *)
(***************************************************************************)
Claimable == \/ row.status = "parked"
             \/ row.status = "inflight" /\ ~row.live

ClaimRow(a) ==
    /\ At(a, "replay") /\ Claimable
    /\ row' = [status |-> "inflight", holder |-> a, live |-> TRUE]
    /\ Goto(a, "handling", "none")
    /\ UNCHANGED <<entry, log, denied, answer, faults>>

\* The claim finds no row: delivered, or under another's live lease.
RowNotFound(a) ==
    /\ At(a, "replay") /\ ~Claimable
    /\ Goto(a, "record", "already")
    /\ UNCHANGED <<entry, log, denied, row, answer, faults>>

Held(a) == row.status = "inflight" /\ row.holder = a

\* Fault: a failure worth retrying is recorded as such.
Replayed_AsIs(a, res) == IF a \in Workers /\ res = "retry" THEN Goto(a, "release", res)
                         ELSE Goto(a, "record", res)

Replayed(a, res) == IF a \in Workers /\ res = "retry" THEN Goto(a, "release", res)
                    ELSE Goto(a, "record", IF res = "retry" THEN "error" ELSE res)

\* The handler delivers and the row is marked, if it is still this claim's.
Deliver(a) ==
    /\ At(a, "handling")
    /\ \/ /\ Held(a)
          /\ row' = [status |-> "delivered", holder |-> None, live |-> FALSE]
          /\ Replayed(a, "delivered")
       \/ /\ ~Held(a)
          /\ Replayed(a, "retry")
          /\ UNCHANGED row
    /\ UNCHANGED <<entry, log, denied, answer, faults>>

\* The handler fails, for good ("error") or not, or the mark is not written.
DeliverFails(a) ==
    /\ At(a, "handling") /\ Fault
    /\ \E res \in {"error", "retry"}, marked \in BOOLEAN :
         /\ row' = IF Held(a) /\ marked
                   THEN [status |-> "parked", holder |-> None, live |-> FALSE] ELSE row
         /\ Replayed(a, res)
    /\ UNCHANGED <<entry, log, denied, answer>>

(***************************************************************************)
(* The outcome.  A request writes it unless the row is closed; a worker    *)
(* only under its live lease.                                              *)
(***************************************************************************)
\* Fault: the update does not look at audit_committed_at.
RecordOutcome_Closed(o) ==
    /\ At(o, "record")
    /\ entry' = [entry EXCEPT ![o].status = act[o].res, ![o].due = TRUE]
    /\ Goto(o, "finalize", act[o].res)
    /\ UNCHANGED <<log, denied, row, answer, faults>>

RecordOutcome(o) ==
    /\ At(o, "record")
    /\ \/ /\ ~entry[o].audited
          /\ entry' = [entry EXCEPT ![o].status = act[o].res, ![o].due = TRUE]
          /\ Goto(o, "finalize", act[o].res)
          /\ UNCHANGED <<answer, faults>>
       \/ /\ entry[o].audited \/ faults < MaxFaults
          /\ faults' = IF entry[o].audited THEN faults ELSE faults + 1
          /\ End(o, "pending")
          /\ UNCHANGED entry
    /\ UNCHANGED <<log, denied, row>>

Leased(w, o) == entry[o].lease = w /\ ~entry[o].audited

RecordClaimed(w) ==
    LET o == act[w].op IN
    /\ At(w, "record")
    /\ IF Leased(w, o) /\ entry[o].live
       THEN /\ entry' = [entry EXCEPT ![o].status = act[w].res, ![o].due = TRUE]
            /\ Goto(w, "finalize", act[w].res)
       ELSE /\ Goto(w, "release", act[w].res)
            /\ UNCHANGED entry
    /\ UNCHANGED <<log, denied, row, answer, faults>>

(***************************************************************************)
(* The worker's claim and release.                                         *)
(***************************************************************************)
\* Fault: a prepared row is left to the request that prepared it.
Claim_Recorded(w, o) ==
    /\ At(w, "idle")
    /\ entry[o].status \in Outcome /\ ~entry[o].audited /\ entry[o].due
    /\ entry[o].lease = None \/ ~entry[o].live
    /\ entry' = [entry EXCEPT ![o].lease = w, ![o].live = TRUE]
    /\ act' = [act EXCEPT ![w] = [pc |-> "finalize", op |-> o, res |-> "none"]]
    /\ UNCHANGED <<log, denied, row, answer, faults>>

Claim(w, o) ==
    /\ At(w, "idle")
    /\ entry[o].status # "none" /\ ~entry[o].audited /\ entry[o].due
    /\ entry[o].lease = None \/ ~entry[o].live
    /\ entry' = [entry EXCEPT ![o].lease = w, ![o].live = TRUE]
    /\ act' = [act EXCEPT ![w] = [pc |-> IF entry[o].status = "prepared" THEN "replay"
                                         ELSE "finalize",
                                  op |-> o, res |-> "none"]]
    /\ UNCHANGED <<log, denied, row, answer, faults>>

Release(w) ==
    LET o == act[w].op IN
    /\ At(w, "release")
    /\ entry' = IF Leased(w, o)
                THEN [entry EXCEPT ![o].lease = None, ![o].live = FALSE, ![o].due = FALSE]
                ELSE entry
    /\ End(w, "none")
    /\ UNCHANGED <<log, denied, row, faults>>

(***************************************************************************)
(* FinalizeAudit: both audit rows and the end of the journal row in one    *)
(* transaction that holds the row; a closed row is left as it is.          *)
(***************************************************************************)
\* Fault: a row another actor closed is finalised again.
FinalizeAudit_Again(a) ==
    LET o == act[a].op IN
    /\ At(a, "finalize")
    /\ entry' = [entry EXCEPT ![o].audited = TRUE, ![o].lease = None, ![o].live = FALSE]
    /\ log' = [log EXCEPT ![o] = Append(@, entry[o].status)]
    /\ End(a, IF act[a].res = "error" THEN "failed" ELSE "ok")
    /\ UNCHANGED <<denied, row, faults>>

FinalizeAudit(a) ==
    LET o == act[a].op IN
    /\ At(a, "finalize")
    /\ IF entry[o].audited THEN UNCHANGED <<entry, log>>
       ELSE /\ entry' = [entry EXCEPT ![o].audited = TRUE, ![o].lease = None,
                                      ![o].live = FALSE]
            /\ log' = [log EXCEPT ![o] = Append(@, entry[o].status)]
    /\ End(a, IF act[a].res = "error" THEN "failed" ELSE "ok")
    /\ UNCHANGED <<denied, row, faults>>

\* Fault: the failure is not looked at.
FinalizeFails_Ignored(a) ==
    /\ At(a, "finalize") /\ Fault
    /\ End(a, IF act[a].res = "error" THEN "failed" ELSE "ok")
    /\ UNCHANGED <<entry, log, denied, row>>

FinalizeFails(a) ==
    /\ At(a, "finalize") /\ Fault
    /\ IF a \in Ops THEN End(a, "pending")
       ELSE Goto(a, "release", act[a].res) /\ UNCHANGED answer
    /\ UNCHANGED <<entry, log, denied, row>>

(***************************************************************************)
(* Crashes and time.  A lease outlives the work it covers, unless its      *)
(* holder stalls.                                                          *)
(***************************************************************************)
Crash(a) ==
    /\ act[a].pc \notin {"idle", "done"} /\ Fault
    /\ End(a, "none")
    /\ UNCHANGED <<entry, log, denied, row>>

RetryTime(o) ==
    /\ ~entry[o].due
    /\ entry' = [entry EXCEPT ![o].due = TRUE]
    /\ UNCHANGED <<log, denied, row, act, answer, faults>>

LeaseExpires(o) ==
    LET w == entry[o].lease IN
    /\ entry[o].live
    /\ IF act[w].op = o THEN Fault ELSE UNCHANGED faults
    /\ entry' = [entry EXCEPT ![o].live = FALSE]
    /\ UNCHANGED <<log, denied, row, act, answer>>

RowLeaseExpires ==
    /\ row.live
    /\ IF At(row.holder, "handling") THEN Fault ELSE UNCHANGED faults
    /\ row' = [row EXCEPT !.live = FALSE]
    /\ UNCHANGED <<entry, log, denied, act, answer>>

WorkerStep(w) == RecordClaimed(w) \/ Release(w)
ActorStep(a) == ClaimRow(a) \/ RowNotFound(a) \/ Deliver(a) \/ FinalizeAudit(a)

RecoveryNext ==
    \/ \E o \in Ops : Prepare(o) \/ PrepareFails(o) \/ RecordOutcome(o)
    \/ \E w \in Workers : WorkerStep(w) \/ \E o \in Ops : Claim(w, o)
    \/ \E a \in Actors : ActorStep(a) \/ DeliverFails(a) \/ FinalizeFails(a) \/ Crash(a)
    \/ \E o \in Ops : RetryTime(o) \/ LeaseExpires(o)
    \/ RowLeaseExpires

RecoverySpec == RecoveryInit /\ [][RecoveryNext]_recoveryVars

(***************************************************************************)
(* The worker loops while the process lives, statements have deadlines and *)
(* time passes.                                                            *)
(***************************************************************************)
Fairness ==
    /\ \A o \in Ops : /\ WF_recoveryVars(RecordOutcome(o)) /\ WF_recoveryVars(ActorStep(o))
                      /\ WF_recoveryVars(RetryTime(o)) /\ WF_recoveryVars(LeaseExpires(o))
    /\ \A w \in Workers : /\ WF_recoveryVars(WorkerStep(w)) /\ WF_recoveryVars(ActorStep(w))
                          /\ WF_recoveryVars(\E o \in Ops : Claim(w, o))
    /\ WF_recoveryVars(RowLeaseExpires)

FairRecoverySpec == RecoverySpec /\ Fairness

(***************************************************************************)
(* Properties.                                                             *)
(***************************************************************************)
\* Types, and the shape store.go and the unique indexes keep: only a closed
\* journal row has no lease to run out, and a lease has an owner.
RecoveryTypeOK ==
    /\ entry \in [Ops -> [status : {"none", "prepared"} \cup Outcome, audited : BOOLEAN,
                          due : BOOLEAN, lease : Workers \cup {None}, live : BOOLEAN]]
    /\ denied \subseteq Ops
    /\ row \in [status : {"parked", "inflight", "delivered"},
                holder : Actors \cup {None}, live : BOOLEAN]
    /\ act \in [Actors -> [pc : {"idle", "replay", "handling", "record", "release",
                                 "finalize", "done"},
                           op : Ops \cup {None}, res : Outcome \cup {"none", "retry"}]]
    /\ answer \in [Ops -> {"none", "ok", "failed", "pending", "refused"}]
    /\ faults \in 0..MaxFaults
    /\ \A o \in Ops : entry[o].live => entry[o].lease # None
    /\ row.live => row.holder # None

\* store.go:195, 0216:18: an operation has its pair of audit rows exactly when
\* its journal row is closed, never a second pair, and they state the outcome
\* the journal row keeps.
AuditedExactlyOnce ==
    \A o \in Ops :
        log[o] = IF entry[o].audited THEN <<entry[o].status>> ELSE <<>>

\* mutate_tx.go:293: an operation Execute returned to the caller with a result
\* or with ErrMutationOutcomeAudited has been audited.
AnsweredIsAudited ==
    \A o \in Ops : answer[o] \in {"ok", "failed"} => entry[o].audited

\* Both together, whatever crashes and lost answers requests and workers meet.
RecoverySafety ==
    /\ RecoveryTypeOK
    /\ AuditedExactlyOnce
    /\ AnsweredIsAudited

\* store.go:91, :128: once audited, an operation's outcome is not rewritten,
\* by a request whose place a worker took or by a worker whose lease ran out.
AuditIsFinal ==
    [][\A o \in Ops : entry[o].audited =>
           /\ entry'[o].audited
           /\ entry'[o].status = entry[o].status
           /\ log'[o] = log[o]]_recoveryVars

\* 0216:18, worker.go:102: what was prepared is audited in the end, whatever
\* stage a crash or a failed call left it in.
PreparedIsAudited ==
    \A o \in Ops : entry[o].status = "prepared" ~> entry[o].audited

\* tools_mutating_dlq_renew.go:93, "processed already or delivered by another
\* replica": an operation audited as already processed leaves no row waiting.
\* Violated: the row under another's live lease is not found either.
AlreadyMeansDelivered ==
    \A o \in Ops : log[o] = <<"already">> => row.status # "parked"

\* mutate_tx.go:142: an operation whose failure was returned as audited is
\* audited as a failure.  Violated: a worker that took the row while it was
\* prepared writes its own outcome over the request's.
FailedIsAuditedSo ==
    \A o \in Ops : answer[o] = "failed" => log[o] = <<"error">>

\* tools_mutate_handler.go:221: an operation in the journal gets no error row
\* from the handler.  Violated: an unanswered insert that landed.
NoRowBesideJournal == \A o \in denied : entry[o].status = "none"
=============================================================================
