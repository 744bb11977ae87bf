--------------------------- MODULE DeadLetterQueue ---------------------------
(***************************************************************************)
(* One lane of the dead-letter queue: rows that producers enqueue under a   *)
(* key, workers that lease, handle and mark them, and an operator who       *)
(* replays a row by hand.  A worker may outlive its lease; its mark is then *)
(* fenced off by the owner and deadline it read, its effect is not.         *)
(***************************************************************************)
EXTENDS Integers, FiniteSets

CONSTANTS
    Rows,                      \* idempotency keys
    Kind,                      \* Kind[r] \in Kinds
    Poison,                    \* rows whose payload no handler can process
    QueueWorkers,              \* goroutines, of any number of replicas
    Manual,                    \* those that serve an operator's replay
    OwnerOf,                   \* OwnerOf[w], the lease_owner a worker writes
    Leases,                    \* 1..n, the values of lease_until
    MaxAttempts,               \* RetryPolicy.MaxAttempts
    QuarantinePoison,          \* HUAKAI_DLQ_QUARANTINE_POISON
    MaxQueueFaults,            \* bound on failed handlers and marks, crashes, slow workers
    NoHolder

Kinds == {"settlement", "usage", "replica", "signal"}

ASSUME QueueAssumption ==
    /\ Kind \in [Rows -> Kinds]
    /\ Poison \subseteq Rows
    /\ Manual \subseteq QueueWorkers
    /\ Leases \subseteq Nat /\ 0 \notin Leases
    /\ MaxAttempts \in Nat \ {0}
    /\ QuarantinePoison \in BOOLEAN
    /\ MaxQueueFaults \in Nat
    /\ NoHolder \notin {OwnerOf[w] : w \in QueueWorkers}

VARIABLES
    queueRow,                  \* usage_record_dlq
    queueWorker,               \* what each worker is doing, with the Record it read
    effects,                   \* how often a row's effect was stored
    otherUsage,                \* the claim of a usage row has one of another attempt, too
    failures,                  \* history: failures that were recorded
    holder,                    \* history: the worker that leased the row last
    queueFaults

queueVars == <<queueRow, queueWorker, effects, otherUsage, failures, holder, queueFaults>>

Shelved == {"operator_review", "quarantined"}
Status == {"absent", "pending", "inflight", "delivered"} \cup Shelved
Owners == {OwnerOf[w] : w \in QueueWorkers}

(* attempts is counted up to MaxAttempts: beyond it every count is alike.   *)
QueueRow == [status : Status, due : BOOLEAN, owner : Owners \cup {NoHolder},
             until : Leases \cup {0}, live : BOOLEAN, attempts : 0..MaxAttempts]

Idle == [pc |-> "idle", row |-> NoHolder, until |-> 0, attempts |-> 0, seen |-> FALSE]

More(n) == IF n < MaxAttempts THEN n + 1 ELSE n

QueueInit ==
    /\ queueRow \in [Rows -> [status : {"absent", "operator_review"}, due : {TRUE},
                              owner : {NoHolder}, until : {0}, live : {FALSE}, attempts : {0}]]
    /\ \A r \in Rows : queueRow[r].status = "operator_review" => Kind[r] = "settlement"
    /\ queueWorker = [w \in QueueWorkers |-> Idle]
    /\ effects = [r \in Rows |-> 0]
    /\ otherUsage = [r \in Rows |-> FALSE]
    /\ failures = [r \in Rows |-> 0]
    /\ holder = [r \in Rows |-> NoHolder]
    /\ queueFaults = 0

QueueFault == queueFaults < MaxQueueFaults /\ queueFaults' = queueFaults + 1

-----------------------------------------------------------------------------
(* A producer's event.  Under a key that is taken it only moves the next    *)
(* retry forward: status, payload and lease stay.                           *)
Enqueue(r) ==
    /\ queueRow' = [queueRow EXCEPT ![r].status = IF @ = "absent" THEN "pending" ELSE @,
                               ![r].due = TRUE]
    /\ UNCHANGED <<queueWorker, effects, otherUsage, failures, holder, queueFaults>>

(* A deadline no other live or remembered lease of the row has: time has    *)
(* passed since each of them was granted.                                   *)
Fresh(r, n) ==
    /\ n # queueRow[r].until
    /\ \A w \in QueueWorkers : queueWorker[w].row = r => queueWorker[w].until # n

Lease(w, r) ==
    /\ queueWorker[w].pc = "idle"
    /\ \E n \in Leases :
        /\ Fresh(r, n) /\ \A m \in Leases : m < n => ~Fresh(r, m)
        /\ queueRow' = [queueRow EXCEPT ![r].status = "inflight", ![r].owner = OwnerOf[w],
                                   ![r].until = n, ![r].live = TRUE]
        /\ queueWorker' = [queueWorker EXCEPT ![w] =
             [pc |-> "handle", row |-> r, until |-> n, attempts |-> queueRow[r].attempts,
              seen |-> FALSE]]
    /\ holder' = [holder EXCEPT ![r] = w]
    /\ UNCHANGED <<effects, otherUsage, failures, queueFaults>>

(* Fault: a row whose worker died is never leased again.                    *)
ClaimableRow_NoExpired(r) ==
    \/ queueRow[r].status = "pending" /\ queueRow[r].due
    \/ Kind[r] = "settlement" /\ queueRow[r].status \in Shelved /\ queueRow[r].due

ClaimableRow(r) ==
    \/ queueRow[r].status = "pending" /\ queueRow[r].due
    \/ queueRow[r].status = "inflight" /\ ~queueRow[r].live
    \/ Kind[r] = "settlement" /\ queueRow[r].status \in Shelved /\ queueRow[r].due

ClaimDue(w) == w \notin Manual /\ \E r \in Rows : ClaimableRow(r) /\ Lease(w, r)

(* Fault: a delivered row is replayed.                                      *)
ClaimByID_Delivered(w, r) ==
    /\ w \in Manual
    /\ queueRow[r].status # "absent"
    /\ queueRow[r].status = "inflight" => ~queueRow[r].live
    /\ Lease(w, r)

(* An operator may replay whatever is neither delivered nor leased. *)
ClaimByID(w, r) ==
    /\ w \in Manual
    /\ queueRow[r].status \notin {"absent", "delivered"}
    /\ queueRow[r].status = "inflight" => ~queueRow[r].live
    /\ Lease(w, r)

(* The ledger stores the usage row of another attempt of the claim, before  *)
(* or after the one that was parked.                                        *)
OtherAttemptStored(r) ==
    /\ Kind[r] = "usage"
    /\ otherUsage' = [otherUsage EXCEPT ![r] = TRUE]
    /\ UNCHANGED <<queueRow, queueWorker, effects, failures, holder, queueFaults>>

-----------------------------------------------------------------------------
Handled(w, pc) == queueWorker' = [queueWorker EXCEPT ![w].pc = pc]

(***************************************************************************)
(* The handlers.  A usage row is inserted by a statement that looks first   *)
(* for any row of the claim, be it of another attempt (Look), under READ    *)
(* COMMITTED and with no unique index; a replica row has one; a settlement  *)
(* is idempotent in its own transaction; a signal is dropped.               *)
(***************************************************************************)
Look(w) ==
    LET r == queueWorker[w].row IN
    /\ queueWorker[w].pc = "handle"
    /\ Kind[r] = "usage" /\ r \notin Poison
    /\ queueWorker' = [queueWorker EXCEPT ![w].pc = "insert", ![w].seen = effects[r] > 0 \/ otherUsage[r]]
    /\ UNCHANGED <<queueRow, effects, otherUsage, failures, holder, queueFaults>>

Store(w) ==
    LET r == queueWorker[w].row
        n == CASE Kind[r] = "usage" -> IF queueWorker[w].seen THEN 0 ELSE 1
               [] Kind[r] = "signal" -> 0
               [] OTHER -> IF effects[r] > 0 THEN 0 ELSE 1
    IN effects' = [effects EXCEPT ![r] = @ + n]

HandlerDone(w) ==
    LET r == queueWorker[w].row IN
    /\ queueWorker[w].pc \in {"handle", "insert"}
    /\ r \notin Poison
    /\ Kind[r] = "usage" <=> queueWorker[w].pc = "insert"
    /\ Store(w)
    /\ \/ Handled(w, "delivered") /\ UNCHANGED queueFaults
       \/ Handled(w, "failed") /\ QueueFault          \* stored, and the answer lost
    /\ UNCHANGED <<queueRow, otherUsage, failures, holder>>

HandlerFails(w) ==
    /\ queueWorker[w].pc \in {"handle", "insert"}
    /\ \/ queueWorker[w].row \in Poison /\ Handled(w, "poison") /\ UNCHANGED queueFaults
       \/ queueWorker[w].row \notin Poison /\ Handled(w, "failed") /\ QueueFault
    /\ UNCHANGED <<queueRow, effects, otherUsage, failures, holder>>

-----------------------------------------------------------------------------
(* Fault: the mark is fenced by the owner's name alone.                     *)
Fenced_ByOwner(w) ==
    LET r == queueWorker[w].row IN
    queueRow[r].status = "inflight" /\ queueRow[r].owner = OwnerOf[w]

(* requiredLeaseFence and the WHERE clause of both marks. *)
Fenced(w) ==
    LET r == queueWorker[w].row IN
    /\ queueRow[r].status = "inflight"
    /\ queueRow[r].owner = OwnerOf[w]
    /\ queueRow[r].until = queueWorker[w].until

(* Fault: attempts and age are not looked at.                               *)
FailureDecision_Forever(w) ==
    IF Kind[queueWorker[w].row] # "settlement" /\ queueWorker[w].pc = "poison" /\ QuarantinePoison
    THEN {"quarantined"} ELSE {"pending"}

(* Fault: a settlement is given up like any other event.                    *)
FailureDecision_GivesUp(w) ==
    LET a == More(queueWorker[w].attempts) IN
    IF queueWorker[w].pc = "poison" /\ QuarantinePoison THEN {"quarantined"}
    ELSE IF a >= MaxAttempts THEN {"operator_review"}
    ELSE {"pending", "operator_review"}

(* failureDecision: a settlement is tried for ever; anything else until its *)
(* attempts or its age run out, a poisoned one not even again.              *)
FailureDecision(w) ==
    LET a == More(queueWorker[w].attempts) IN
    IF Kind[queueWorker[w].row] = "settlement" THEN {"pending"}
    ELSE IF queueWorker[w].pc = "poison" /\ QuarantinePoison THEN {"quarantined"}
    ELSE IF a >= MaxAttempts THEN {"operator_review"}
    ELSE {"pending", "operator_review"}

(* Fault: the lease is left on the row.                                     *)
Unlease_KeepsOwner(r, status, due, attempts) ==
    queueRow' = [queueRow EXCEPT ![r] = [@ EXCEPT !.status = status, !.due = due,
                   !.live = FALSE, !.attempts = attempts]]

(* Both marks take the lease off the row. *)
Unlease(r, status, due, attempts) ==
    queueRow' = [queueRow EXCEPT ![r] = [@ EXCEPT !.status = status, !.due = due,
                   !.owner = NoHolder, !.until = 0, !.live = FALSE, !.attempts = attempts]]

(* Fault: a failed handler is marked as delivered.                          *)
MarkDelivered_Anyway(w) ==
    LET r == queueWorker[w].row IN
    /\ queueWorker[w].pc \in {"delivered", "poison"}
    /\ Fenced(w)
    /\ Unlease(r, "delivered", queueRow[r].due, queueRow[r].attempts)
    /\ UNCHANGED failures

MarkDelivered(w) ==
    LET r == queueWorker[w].row IN
    /\ queueWorker[w].pc = "delivered"
    /\ Fenced(w)
    /\ Unlease(r, "delivered", queueRow[r].due, queueRow[r].attempts)
    /\ UNCHANGED failures

MarkFailed(w) ==
    LET r == queueWorker[w].row IN
    /\ queueWorker[w].pc \in {"failed", "poison"}
    /\ Fenced(w)
    /\ \E s \in FailureDecision(w) :
          Unlease(r, s, IF s = "pending" THEN FALSE ELSE queueRow[r].due,
                  More(queueWorker[w].attempts))
    /\ failures' = [failures EXCEPT ![r] = More(@)]

(* The mark and the end of ProcessClaim or Replay: it takes effect, its     *)
(* lease is stale, or the statement fails.                                  *)
Mark(w) ==
    /\ queueWorker[w].pc \in {"delivered", "failed", "poison"}
    /\ \/ (MarkDelivered(w) \/ MarkFailed(w)) /\ UNCHANGED queueFaults
       \/ ~Fenced(w) /\ UNCHANGED <<queueRow, failures, queueFaults>>
       \/ QueueFault /\ UNCHANGED <<queueRow, failures>>
    /\ queueWorker' = [queueWorker EXCEPT ![w] = Idle]
    /\ UNCHANGED <<effects, otherUsage, holder>>

-----------------------------------------------------------------------------
WorkerCrash(w) ==
    /\ queueWorker[w].pc # "idle"
    /\ QueueFault
    /\ queueWorker' = [queueWorker EXCEPT ![w] = Idle]
    /\ UNCHANGED <<queueRow, effects, otherUsage, failures, holder>>

(* The clock passes lease_until.  That it does so while the holder is still *)
(* at work is a fault: a lease is longer than a handler should take.        *)
ExpireLease(r) ==
    /\ queueRow[r].live
    /\ queueRow' = [queueRow EXCEPT ![r].live = FALSE]
    /\ IF queueWorker[holder[r]].row = r THEN QueueFault ELSE UNCHANGED queueFaults
    /\ UNCHANGED <<queueWorker, effects, otherUsage, failures, holder>>

(* The clock reaches next_retry_at. *)
BecomeDue(r) ==
    /\ ~queueRow[r].due
    /\ queueRow' = [queueRow EXCEPT ![r].due = TRUE]
    /\ UNCHANGED <<queueWorker, effects, otherUsage, failures, holder, queueFaults>>

ProcessClaim(w) == Look(w) \/ HandlerDone(w) \/ HandlerFails(w) \/ Mark(w)

QueueNext ==
    \/ \E r \in Rows : Enqueue(r) \/ OtherAttemptStored(r) \/ ExpireLease(r) \/ BecomeDue(r)
    \/ \E w \in QueueWorkers :
        \/ ClaimDue(w) \/ Look(w) \/ HandlerDone(w) \/ HandlerFails(w) \/ Mark(w)
        \/ WorkerCrash(w)
        \/ \E r \in Rows : ClaimByID(w, r)

QueueSpec == QueueInit /\ [][QueueNext]_queueVars

(* A worker that has leased a row goes on, the clock runs, and as long as a *)
(* row is due again and again a worker of its lane comes to it: a round     *)
(* takes the row that has been due the longest.                             *)
QueueFairness ==
    /\ \A w \in QueueWorkers : WF_queueVars(ProcessClaim(w))
    /\ \A r \in Rows :
        /\ WF_queueVars(ExpireLease(r)) /\ WF_queueVars(BecomeDue(r))
        /\ SF_queueVars(\E w \in QueueWorkers \ Manual : ClaimableRow(r) /\ Lease(w, r))

FairQueueSpec == QueueSpec /\ QueueFairness

-----------------------------------------------------------------------------
(* A row is leased exactly while it is in flight.                           *)
QueueTypeOK ==
    /\ queueRow \in [Rows -> QueueRow]
    /\ queueWorker \in [QueueWorkers ->
           [pc : {"idle", "handle", "insert", "delivered", "failed", "poison"},
            row : Rows \cup {NoHolder}, until : Leases \cup {0},
            attempts : 0..MaxAttempts, seen : BOOLEAN]]
    /\ effects \in [Rows -> Nat]
    /\ otherUsage \in [Rows -> BOOLEAN]
    /\ failures \in [Rows -> 0..MaxAttempts]
    /\ holder \in [Rows -> QueueWorkers \cup {NoHolder}]
    /\ queueFaults \in 0..MaxQueueFaults
    /\ \A r \in Rows : queueRow[r].status = "inflight" <=> queueRow[r].owner # NoHolder

(* replay_attempts, which a worker computes from the row it read before it  *)
(* handled it, is the number of failures that were recorded: none is        *)
(* forgotten to a worker whose lease had run out.                           *)
AttemptsAreFailures == \A r \in Rows : queueRow[r].attempts = failures[r]

(* A row marked delivered was handled: its effect is stored, unless it is a *)
(* signal, which is dropped on purpose, or a usage row whose claim has one  *)
(* of another attempt, for which the handler takes it.                      *)
DeliveredWasHandled ==
    \A r \in Rows :
        queueRow[r].status = "delivered" /\ Kind[r] # "signal" =>
            effects[r] > 0 \/ (Kind[r] = "usage" /\ otherUsage[r])

(* Only the worker that leased a row last ends the lease, though replicas   *)
(* give their workers the same names.                                       *)
OnlyHolderMarks ==
    [][\A r \in Rows, w \in QueueWorkers :
        queueRow[r].status = "inflight" /\ queueRow'[r].status # "inflight"
            /\ queueWorker[w].row = r /\ queueWorker'[w] # queueWorker[w] => holder[r] = w]_queueVars

(* A delivered row stays delivered: neither a repeated event nor an         *)
(* operator's replay handles it again.                                      *)
DeliveredIsFinal ==
    [][\A r \in Rows :
        queueRow[r].status = "delivered" => queueRow'[r].status = "delivered"]_queueVars

(* A response that was delivered and not settled is never shelved: no       *)
(* number of failures takes its row out of the retries.                     *)
SettlementNeverShelved ==
    [][\A r \in Rows : Kind[r] = "settlement" /\ queueRow'[r].status \in Shelved
            => queueRow[r].status \in Shelved]_queueVars

(* A settlement that can be processed is delivered in the end, through      *)
(* crashes, lost marks and workers that outlive their leases.               *)
SettlementIsDelivered ==
    \A r \in Rows : Kind[r] = "settlement" /\ r \notin Poison =>
        (queueRow[r].status # "absent" ~> queueRow[r].status = "delivered")

(* Every other row is decided: it is delivered or waits for an operator.    *)
EveryRowIsDecided ==
    \A r \in Rows : Kind[r] # "settlement" =>
        (queueRow[r].status # "absent" ~> queueRow[r].status \in Shelved \cup {"delivered"})

(* The key of an event keeps its effect from being stored twice.            *)
(* Violated: two workers of one row both see that it is not there yet.      *)
EffectStoredOnce == \A r \in Rows : effects[r] <= 1

(* The queue counts what failed and delivers only what was handled.         *)
QueueSafety == QueueTypeOK /\ AttemptsAreFailures /\ DeliveredWasHandled
=============================================================================
