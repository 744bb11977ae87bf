----------------------------- MODULE Background ------------------------------
(***************************************************************************)
(* What runs behind the requests, together: confirmations and their         *)
(* recovery, the dead-letter queue, credential refreshes, media tasks, the  *)
(* event bus and the log sink.  They share no state, so what they do        *)
(* together is what each of them does.                                      *)
(***************************************************************************)
EXTENDS HermesConfirm, HermesRecovery, DeadLetterQueue, CredentialRefresh, MediaTasks,
        EventBus, LogSink

BackgroundSpec ==
    ConfirmSpec /\ RecoverySpec /\ QueueSpec /\ RefreshSpec /\ MediaSpec /\ BusSpec /\ SinkSpec

(* What no late worker and no second decision undoes: an audited replay, a  *)
(* lease of another worker, a delivered row, a settlement's retries, the    *)
(* money of a media task, the revocation of an account.                     *)
FactsStand ==
    /\ AuditIsFinal
    /\ OnlyHolderMarks /\ SettlementNeverShelved /\ DeliveredIsFinal
    /\ MoneyMovesOnce /\ RevocationHolds
=============================================================================
