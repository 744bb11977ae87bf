------------------------------ MODULE EventBus ------------------------------
(***************************************************************************)
(* The in-process bus that carries a request's completion to its handlers: *)
(* the critical ones while the caller waits, the others behind its back.   *)
(*                                                                         *)
(* Every handler has a runner: a bounded queue, a few workers, a cancelled *)
(* context once the bus stops.  A handler's call runs on a goroutine of    *)
(* its own, which a timeout leaves running.  An event reaches each handler *)
(* as one copy; `copy` follows it as its runner sees it, `work` follows    *)
(* the goroutine, `handled` holds what the handlers really did.            *)
(*                                                                         *)
(* Source: internal/eventbus/bus.go, runner.go; the caller is              *)
(* settleCompletion (internal/gatewayhttp/chat_completions_billing.go).    *)
(* The handlers' own work is a choice of outcome; a call may commit and    *)
(* still be answered by an error.  Settling twice is the ledger's subject. *)
(***************************************************************************)
EXTENDS Naturals, FiniteSets, SequencesExt

CONSTANTS Events,    \* the completions, each of its own request
          Handlers,  \* the handlers there are
          Wirings    \* the ways a process may be wired:
                     \*   plan          its handlers in the order Emit reaches them
                     \*   critical      those the caller waits for
                     \*   low           those of the LOW tier: Stop drains these only
                     \*   room          [handler -> room in its runner's queue]
                     \*   workers       [handler -> workers of its runner]
                     \*   callersFirst  it stops its callers before the bus
                     \*   emits         the completions its requests may end in

ASSUME WiringsAssumption ==
    /\ IsFiniteSet(Events)
    /\ \A w \in Wirings :
        /\ w.plan \in Seq(Handlers) /\ w.plan # <<>> /\ IsInjective(w.plan)
        /\ w.critical \subseteq ToSet(w.plan) /\ w.low \subseteq ToSet(w.plan) \ w.critical
        /\ \A i, j \in DOMAIN w.plan :
            w.plan[i] \notin w.critical /\ i < j => w.plan[j] \notin w.critical
        /\ w.room \in [Handlers -> Nat \ {0}] /\ w.workers \in [Handlers -> Nat \ {0}]
        /\ w.callersFirst \in BOOLEAN /\ w.emits \subseteq Events

VARIABLES
    wiring,     \* how this process is wired; registered once, before it serves
    closed,     \* Bus.closed
    stopping,   \* how far Stop is: up, draining, cancelling, stopped
    outOfTime,  \* the drain was given up
    cancelled,  \* the runners whose context Stop has cancelled
    exited,     \* [handler -> workers that have returned]
    queue,      \* [handler -> events in its channel]
    copy,       \* [event, handler -> where the copy is]
    work,       \* [event, handler -> the goroutine that runs the handler]
    handled,    \* <<event, handler>> whose handler did its work
    reply,      \* [event -> what its result channel holds]
    stage,      \* [event -> where its Emit is]
    at,         \* [event -> index into Plan]
    verdict,    \* [event -> what settleCompletion returned]
    notices     \* <<event, handler>> the drop hook was told of

Plan == wiring.plan
Critical == wiring.critical
Low == wiring.low
Registered == ToSet(Plan)

runner == <<wiring, closed, stopping, outOfTime, cancelled, exited>>
caller == <<stage, at, verdict>>
fabric == <<queue, copy, work, handled, reply, caller, notices>>
busVars == <<wiring, closed, stopping, outOfTime, cancelled, exited, queue, copy, work, handled,
             reply, stage, at, verdict, notices>>

Waiting == {"queued", "taken", "running"}
Fates == {"done", "parked", "unparked", "dropped", "refused"}

BusInit ==
    /\ wiring \in Wirings
    /\ closed = FALSE /\ stopping = "up" /\ outOfTime = FALSE /\ cancelled = {}
    /\ exited = [h \in Handlers |-> 0]
    /\ queue = [h \in Handlers |-> <<>>]
    /\ copy = [p \in Events \X Handlers |-> "none"]
    /\ work = [p \in Events \X Handlers |-> "none"]
    /\ handled = {} /\ notices = {}
    /\ reply = [e \in Events |-> "none"]
    /\ stage = [e \in Events |-> "new"]
    /\ at = [e \in Events |-> 1]
    /\ verdict = [e \in Events |-> "none"]

BusyWith(h) == {e \in Events : copy[<<e, h>>] \in {"taken", "running"}}
Ended == \A e \in Events : stage[e] \in {"new", "answered"}

----------------------------------------------------------------------------
(* Emit and settleCompletion.                                              *)

Answer(e, a) == stage' = [stage EXCEPT ![e] = "answered"] /\ verdict' = [verdict EXCEPT ![e] = a] /\ at' = at
EmitAt(e, s) == stage' = [stage EXCEPT ![e] = s] /\ UNCHANGED <<at, verdict>>

\* Emit goes on to the next handler, or returns nil after the last one.
NextHandler(e) ==
    IF at[e] = Len(Plan) THEN Answer(e, "ok")
    ELSE /\ stage' = [stage EXCEPT ![e] = "submit"]
         /\ at' = [at EXCEPT ![e] = @ + 1]
         /\ UNCHANGED verdict

\* Emit begins: a closed bus has no handlers and the caller settles itself.
Emit(e) ==
    /\ e \in wiring.emits /\ stage[e] = "new" /\ (wiring.callersFirst => ~closed)
    /\ EmitAt(e, IF closed THEN "direct" ELSE "submit")
    /\ UNCHANGED <<runner, queue, copy, work, handled, reply, notices>>

\* submit reads `closed` under the lock and lets the lock go.
Check(e) ==
    LET h == Plan[at[e]] IN
    /\ stage[e] = "submit"
    /\ IF ~closed THEN EmitAt(e, "send") /\ UNCHANGED copy
       ELSE IF h \in Critical THEN EmitAt(e, "direct") /\ UNCHANGED copy
       ELSE NextHandler(e) /\ copy' = [copy EXCEPT ![<<e, h>>] = "refused"]
    /\ UNCHANGED <<runner, queue, work, handled, reply, notices>>

Append1(e, h) ==
    /\ Len(queue[h]) < wiring.room[h]
    /\ queue' = [queue EXCEPT ![h] = Append(@, e)]
    /\ copy' = [copy EXCEPT ![<<e, h>>] = "queued"]

\* A critical copy waits for room as long as the caller and the runner last; the
\* channel for its result is new.
SendCritical(e) ==
    LET h == Plan[at[e]] IN
    /\ stage[e] = "send" /\ h \in Critical
    /\ Append1(e, h) /\ EmitAt(e, "await") /\ reply' = [reply EXCEPT ![e] = "none"]
    /\ UNCHANGED <<runner, work, handled, notices>>

\* The result of a critical handler reaches the caller.
Reply(e) ==
    /\ stage[e] = "await" /\ reply[e] # "none"
    /\ IF reply[e] = "ok" THEN NextHandler(e) ELSE Answer(e, "error")
    /\ UNCHANGED <<runner, queue, copy, work, handled, reply, notices>>

\* The caller's context ends first: it gets the context's error.
GiveUp(e) ==
    /\ stage[e] \in {"send", "await"} /\ Plan[at[e]] \in Critical
    /\ Answer(e, "error")
    /\ UNCHANGED <<runner, queue, copy, work, handled, reply, notices>>

\* Fault: submit waits for room and for the result, not for the runner's end.
RunnerGone_NotWatched(e) == FALSE /\ UNCHANGED busVars
\* The runner is cancelled first: ErrBusClosed, and the caller settles itself.
RunnerGone(e) ==
    /\ stage[e] \in {"send", "await"} /\ Plan[at[e]] \in Critical \cap cancelled
    /\ EmitAt(e, "direct")
    /\ UNCHANGED <<runner, queue, copy, work, handled, reply, notices>>

\* settleCompletion settles without the bus; the call may fail either way.
DirectSettle(e) ==
    /\ stage[e] = "direct"
    /\ \E ok, committed \in BOOLEAN :
         /\ ok => committed
         /\ handled' = handled \cup (IF committed THEN {e} \X Critical ELSE {})
         /\ Answer(e, IF ok THEN "ok" ELSE "error")
    /\ UNCHANGED <<runner, queue, copy, work, reply, notices>>

\* A copy nobody waits for: into the queue if there is room.
SendAsync(e) ==
    LET h == Plan[at[e]] IN
    /\ stage[e] \in {"send", "again"} /\ h \notin Critical
    /\ Append1(e, h) /\ NextHandler(e)
    /\ UNCHANGED <<runner, work, handled, reply, notices>>

\* No room for a copy nobody waits for.
Full(e) ==
    LET h == Plan[at[e]] IN
    /\ stage[e] = "send" /\ h \notin Critical /\ Len(queue[h]) = wiring.room[h]
    /\ EmitAt(e, "drop")
    /\ UNCHANGED <<runner, queue, copy, work, handled, reply, notices>>

\* Fault: the oldest copy is written off and left in the queue.
Oldest_Peek(h) ==
    IF queue[h] = <<>> THEN UNCHANGED <<queue, copy>>
    ELSE copy' = [copy EXCEPT ![<<Head(queue[h]), h>>] = "dropped"] /\ UNCHANGED queue
\* The oldest queued copy goes, unless the workers were faster.
Oldest(h) ==
    IF queue[h] = <<>> THEN UNCHANGED <<queue, copy>>
    ELSE /\ queue' = [queue EXCEPT ![h] = Tail(@)]
         /\ copy' = [copy EXCEPT ![<<Head(queue[h]), h>>] = "dropped"]

\* Fault: the hook is told of the LOW tier only.
DropOldest_Quiet(e) ==
    LET h == Plan[at[e]] IN
    /\ stage[e] = "drop" /\ Oldest(h)
    /\ notices' = IF h \in Low THEN notices \cup {<<e, h>>} ELSE notices
    /\ EmitAt(e, "again") /\ UNCHANGED <<runner, work, handled, reply>>
\* Room is made and the hook is told, with the id of the event that came.
DropOldest(e) ==
    LET h == Plan[at[e]] IN
    /\ stage[e] = "drop" /\ Oldest(h)
    /\ notices' = notices \cup {<<e, h>>}
    /\ EmitAt(e, "again") /\ UNCHANGED <<runner, work, handled, reply>>

\* Fault: the second refusal is reported to the caller, who ignores it.
SecondRefusal_Ignored(e) ==
    /\ stage[e] = "again" /\ Len(queue[Plan[at[e]]]) = wiring.room[Plan[at[e]]]
    /\ NextHandler(e) /\ UNCHANGED <<runner, queue, copy, work, handled, reply, notices>>
\* Somebody else took the room: the copy goes to the dead-letter queue.
SecondRefusal(e) ==
    LET h == Plan[at[e]] IN
    /\ stage[e] = "again" /\ Len(queue[h]) = wiring.room[h]
    /\ \E fate \in {"parked", "unparked"} : copy' = [copy EXCEPT ![<<e, h>>] = fate]
    /\ NextHandler(e) /\ UNCHANGED <<runner, queue, work, handled, reply, notices>>

----------------------------------------------------------------------------
(* The runners.                                                            *)

\* A worker receives from the channel; a cancelled one may still do so, the
\* select takes either of the two ready branches.
Take(h) ==
    /\ queue[h] # <<>> /\ Cardinality(BusyWith(h)) + exited[h] < wiring.workers[h]
    /\ copy' = [copy EXCEPT ![<<Head(queue[h]), h>>] = "taken"]
    /\ queue' = [queue EXCEPT ![h] = Tail(@)]
    /\ UNCHANGED <<runner, work, handled, reply, caller, notices>>

\* The copy is counted as active and its handler's goroutine starts.
StartHandler(e, h) ==
    /\ copy[<<e, h>>] = "taken"
    /\ copy' = [copy EXCEPT ![<<e, h>>] = "running"]
    /\ work' = [work EXCEPT ![<<e, h>>] = "running"]
    /\ UNCHANGED <<runner, queue, handled, reply, caller, notices>>

\* The handler returns or panics, with or without its worker still there.
Handle(e, h) ==
    /\ work[<<e, h>>] = "running"
    /\ \E ok, committed \in BOOLEAN :
         /\ ok => committed
         /\ work' = [work EXCEPT ![<<e, h>>] = IF ok THEN "ok" ELSE "failed"]
         /\ handled' = IF committed THEN handled \cup {<<e, h>>} ELSE handled
    /\ UNCHANGED <<runner, queue, copy, reply, caller, notices>>

\* writeDLQ writes a row or counts a failure; finish answers a waiting caller.
Conclude(e, h, ok) ==
    /\ IF ok THEN copy' = [copy EXCEPT ![<<e, h>>] = "done"]
       ELSE \E fate \in {"parked", "unparked"} : copy' = [copy EXCEPT ![<<e, h>>] = fate]
    /\ reply' = IF h \in Critical THEN [reply EXCEPT ![e] = IF ok THEN "ok" ELSE "err"] ELSE reply
    /\ UNCHANGED <<runner, queue, work, handled, caller, notices>>

\* The worker hears from the goroutine.
Collect(e, h) ==
    /\ copy[<<e, h>>] = "running" /\ work[<<e, h>>] \in {"ok", "failed"}
    /\ Conclude(e, h, work[<<e, h>>] = "ok")

\* Fault: a handler out of time is written off and its caller told all is well.
TimeOut_Optimist(e, h) ==
    /\ copy[<<e, h>>] = "running"
    /\ \E fate \in {"parked", "unparked"} : copy' = [copy EXCEPT ![<<e, h>>] = fate]
    /\ reply' = IF h \in Critical THEN [reply EXCEPT ![e] = "ok"] ELSE reply
    /\ UNCHANGED <<runner, queue, work, handled, caller, notices>>
\* Fault: the worker waits for its handler however long it takes.
TimeOut_Never(e, h) == FALSE /\ UNCHANGED busVars
\* The worker's context ends first, by the handler's timeout or because the
\* caller's or the runner's context ended; the goroutine goes on.
TimeOut(e, h) == copy[<<e, h>>] = "running" /\ Conclude(e, h, FALSE)

\* A worker of a cancelled runner returns between two jobs.
Exit(h) ==
    /\ h \in cancelled /\ Cardinality(BusyWith(h)) + exited[h] < wiring.workers[h]
    /\ exited' = [exited EXCEPT ![h] = @ + 1]
    /\ UNCHANGED <<wiring, closed, stopping, outOfTime, cancelled, fabric>>

----------------------------------------------------------------------------
(* Stop.                                                                   *)

Stop ==
    /\ stopping = "up" /\ (wiring.callersFirst => Ended)
    /\ closed' = TRUE /\ stopping' = "draining"
    /\ UNCHANGED <<wiring, outOfTime, cancelled, exited, fabric>>

\* Fault: what a worker is busy with is pending, what is queued is not.
Pending_ActiveOnly(h) == {e \in Events : copy[<<e, h>>] = "running"}
\* A copy a worker has received and not yet counted is in neither sum.
Pending(h) == {e \in Events : copy[<<e, h>>] \in {"queued", "running"}}

Drained ==
    /\ stopping = "draining" /\ \A h \in Low : Pending(h) = {}
    /\ stopping' = "cancelling"
    /\ UNCHANGED <<wiring, closed, outOfTime, cancelled, exited, fabric>>

DrainTimesOut ==
    /\ stopping = "draining" /\ \E h \in Low : Pending(h) # {}
    /\ stopping' = "cancelling" /\ outOfTime' = TRUE
    /\ UNCHANGED <<wiring, closed, cancelled, exited, fabric>>

CancelRunner(h) ==
    /\ stopping = "cancelling" /\ h \notin cancelled /\ cancelled' = cancelled \cup {h}
    /\ UNCHANGED <<wiring, closed, stopping, outOfTime, exited, fabric>>

\* Fault: Stop returns once every runner is cancelled.
Stopped_NoWait ==
    /\ stopping = "cancelling" /\ cancelled = Registered /\ stopping' = "stopped"
    /\ UNCHANGED <<wiring, closed, outOfTime, cancelled, exited, fabric>>
\* Every worker has returned and Stop returns nil.
Stopped ==
    /\ stopping = "cancelling" /\ cancelled = Registered /\ \A h \in Registered : exited[h] = wiring.workers[h]
    /\ stopping' = "stopped"
    /\ UNCHANGED <<wiring, closed, outOfTime, cancelled, exited, fabric>>

CallerStep(e) ==
    \/ Check(e) \/ SendCritical(e) \/ Reply(e) \/ RunnerGone(e) \/ DirectSettle(e)
    \/ SendAsync(e) \/ Full(e) \/ DropOldest(e) \/ SecondRefusal(e)
RunnerStep(h) ==
    \/ Take(h) \/ Exit(h)
    \/ \E e \in Events : StartHandler(e, h) \/ Collect(e, h) \/ TimeOut(e, h)
StopStep == Drained \/ DrainTimesOut \/ Stopped \/ \E h \in Registered : CancelRunner(h)

BusNext ==
    \/ \E e \in Events : Emit(e) \/ GiveUp(e) \/ CallerStep(e) \/ \E h \in Handlers : Handle(e, h)
    \/ \E h \in Handlers : RunnerStep(h)
    \/ Stop \/ StopStep

BusSpec == BusInit /\ [][BusNext]_busVars

\* A started call, a worker and Stop keep going; a handler need never return,
\* a caller's context need never end and Stop need never be called.
BusFairness ==
    /\ \A e \in Events : WF_busVars(CallerStep(e))
    /\ \A h \in Handlers : WF_busVars(RunnerStep(h))
    /\ WF_busVars(StopStep)
FairBusSpec == BusSpec /\ BusFairness

----------------------------------------------------------------------------
(* Properties.                                                             *)

Passed(e) == IF stage[e] = "answered" THEN at[e] ELSE at[e] - 1

BusTypeOK ==
    /\ closed = (stopping # "up") /\ cancelled \subseteq Registered
    /\ \A h \in Handlers : Len(queue[h]) <= wiring.room[h]
    /\ \A h \in Handlers : exited[h] + Cardinality(BusyWith(h)) <= wiring.workers[h]
    /\ \A e \in Events, h \in Handlers : copy[<<e, h>>] = "queued" <=> e \in ToSet(queue[h])
    /\ \A p \in Events \X Handlers : copy[p] \in {"none"} \cup Waiting \cup Fates

\* A caller told that its completion is settled can rely on it: some call, the
\* bus's or its own, committed the settlement (runner.go:146 and :163, the reply
\* to the caller; chat_completions_billing.go:328, the fallback).
OkMeansSettled == \A e \in Events : verdict[e] = "ok" => {e} \X Critical \subseteq handled

\* A copy nobody waits for does not vanish while the bus is open: once Emit has
\* gone past its handler it is queued, at work, done, written to the dead-letter
\* queue, counted as a failure to do so, or dropped and the hook called
\* (runner.go:80-92).
NoCopyVanishes ==
    ~closed => \A e \in Events : \A i \in 1 .. Passed(e) :
        Plan[i] \notin Critical => copy[<<e, Plan[i]>>] \in Waiting \cup (Fates \ {"refused"})

\* The operator learns of every drop: a handler's dropped copies never outnumber
\* the calls of the hook for it (runner.go:95-110).
DropsAreNoticed == \A h \in Handlers :
    Cardinality({e \in Events : copy[<<e, h>>] = "dropped"}) <= Cardinality({e \in Events : <<e, h>> \in notices})

\* When Stop has returned nil no worker is left that could still write a state,
\* a dead-letter row or a reply (bus.go:157-173).
NoWorkerAfterStop == stopping = "stopped" => \A h \in Registered : BusyWith(h) = {} /\ exited[h] = wiring.workers[h]

\* A Stop whose callers are gone and whose drain was in time leaves no copy of
\* the LOW tier in its queue (bus.go:136-145, pending at runner.go:173).
LowSurvivesStop ==
    wiring.callersFirst /\ stopping = "stopped" /\ ~outOfTime =>
        \A p \in Events \X Low : copy[p] # "queued"

\* Every Emit returns, whatever the handlers do, whenever the bus stops and
\* without any deadline of the caller's (runner.go:63-78).
EmitReturns == \A e \in Events : stage[e] = "submit" ~> stage[e] = "answered"

\* Stop returns, even with handlers that never do (bus.go:118-177).
StopReturns == stopping = "draining" ~> stopping = "stopped"

\* lifecycle.go:210 has the callers finish before the bus stops so that nothing
\* is silently lost.  Stop drains the LOW tier only (bus.go:139) and a cancelled
\* worker may leave its queue as it is (runner.go:116).
StopLosesNothing == stopping = "stopped" => \A p \in Events \X Handlers : copy[p] # "queued"

\* The hook's log line speaks of the event that was dropped (middleware.go:645:
\* "dropped oldest queued event", event_id); runner.go:105 gives the new one's id.
NoticeNamesTheDropped == \A p \in notices : copy[p] = "dropped"

\* What the bus tells its callers and its operator is true, and nothing that it
\* took is lost without a trace.
BusSafety ==
    /\ BusTypeOK /\ OkMeansSettled /\ NoCopyVanishes /\ DropsAreNoticed
    /\ NoWorkerAfterStop /\ LowSurvivesStop
=============================================================================
