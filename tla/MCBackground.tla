----------------------------- MODULE MCBackground -----------------------------
(***************************************************************************)
(* Small instances, for TLC, of what runs behind the requests.              *)
(*   HermesConfirm, HermesRecovery: two tokens, two confirming requests and *)
(*     two operators; two replays of one dead-letter row and two workers.   *)
(*   DeadLetterQueue: a settlement, a usage row and a poisoned replica row  *)
(*     with two workers of one name and an operator beside them.            *)
(*   EventBus: two events for a critical handler and one nobody waits for,  *)
(*     their callers outliving the bus; three for a handler nobody waits    *)
(*     for, so that its queue overflows, their callers gone before the bus. *)
(*   LogSink: records of both levels for queues that overflow, from loggers *)
(*     that may outlive the sink.                                           *)
(*   MediaTasks: two workers and every decision of the administrator, for   *)
(*     the two ways of settling the money.                                  *)
(*   CredentialRefresh: two refreshes of one account under way.             *)
(* The components share no state, so a behaviour is of one of them while    *)
(* the others rest in their initial states: the states add up instead of    *)
(* multiplying, and no behaviour of any of them is lost.                    *)
(***************************************************************************)
EXTENDS Background, TLC

CONSTANTS t1, t2, w1, w2, op, money, usage, mirror, persister, audits

VARIABLE side    \* the component whose behaviour this is

-----------------------------------------------------------------------------
\* Two replicas name their first worker alike.
Pair == {w1, w2}
SameName == (w1 :> "dlq-HIGH-1") @@ (w2 :> "dlq-HIGH-1") @@ (op :> "manual:op")
ThreeKinds == (money :> "settlement") @@ (usage :> "usage") @@ (mirror :> "replica")
FourLeases == 1..4

\* A critical handler and one nobody waits for, with a queue of one place each;
\* and a bus whose callers are gone before it stops.
One == (persister :> 1) @@ (audits :> 1)
Behind ==
    [plan |-> <<persister, audits>>, critical |-> {persister}, low |-> {},
     room |-> One, workers |-> One, callersFirst |-> FALSE, emits |-> {t1, t2}]
Ordered ==
    [plan |-> <<audits>>, critical |-> {}, low |-> {audits},
     room |-> One, workers |-> One, callersFirst |-> TRUE, emits |-> {t1, t2, op}]
BothWirings == {Behind, Ordered}

\* Room for two warnings or errors and for one record of the rest.
Room21 == ("priority" :> 2) @@ ("info" :> 1)

-----------------------------------------------------------------------------
SideBySideInit ==
    /\ side \in {"confirm", "recovery", "queue", "bus", "sink", "media", "refresh"}
    /\ ConfirmInit /\ RecoveryInit /\ QueueInit /\ BusInit /\ SinkInit /\ MediaInit /\ RefreshInit
    \* A component that rests has one initial state here.
    /\ side = "confirm" \/ account
    /\ side = "media" \/ task.video
    /\ side = "bus" \/ wiring = Behind
    /\ side = "queue" \/ \A r \in Rows : queueRow[r].status = "absent"

SideBySideNext ==
    \/ /\ side = "confirm" /\ ConfirmNext
       /\ UNCHANGED <<side, recoveryVars, queueVars, busVars, sinkVars, mediaVars, refreshVars>>
    \/ /\ side = "recovery" /\ RecoveryNext
       /\ UNCHANGED <<side, confirmVars, queueVars, busVars, sinkVars, mediaVars, refreshVars>>
    \/ /\ side = "queue" /\ QueueNext
       /\ UNCHANGED <<side, confirmVars, recoveryVars, busVars, sinkVars, mediaVars, refreshVars>>
    \/ /\ side = "bus" /\ BusNext
       /\ UNCHANGED <<side, confirmVars, recoveryVars, queueVars, sinkVars, mediaVars, refreshVars>>
    \/ /\ side = "sink" /\ SinkNext
       /\ UNCHANGED <<side, confirmVars, recoveryVars, queueVars, busVars, mediaVars, refreshVars>>
    \/ /\ side = "media" /\ MediaNext
       /\ UNCHANGED <<side, confirmVars, recoveryVars, queueVars, busVars, sinkVars, refreshVars>>
    \/ /\ side = "refresh" /\ RefreshNext
       /\ UNCHANGED <<side, confirmVars, recoveryVars, queueVars, busVars, sinkVars, mediaVars>>

SideBySide ==
    SideBySideInit /\ [][SideBySideNext]_<<side, confirmVars, recoveryVars, queueVars, busVars,
                                           sinkVars, mediaVars, refreshVars>>

Symmetric == Permutations(Tokens) \cup Permutations(Pair)
=============================================================================
