------------------------------- MODULE LogSink ------------------------------
(***************************************************************************)
(* The sink that carries the process's own log records to the database     *)
(* without ever holding up whoever logs: two bounded queues, one worker,   *)
(* batches, and counters for what was lost.                                *)
(*                                                                         *)
(* Source: internal/logsink/sink.go; its place in the shutdown is          *)
(* cmd/gateway/lifecycle.go.  A record is a model value with a level: info *)
(* ones go to one queue, warnings and errors ("priority") to the other.    *)
(* What normalizeEntry refuses never enters and is left out, and so is the *)
(* rewriting of malformed fields.                                          *)
(***************************************************************************)
EXTENDS Naturals, FiniteSets, SequencesExt

CONSTANTS Entries, Priority,        \* the records logged; the warnings and errors
          SinkRoom,                 \* [level -> room in its queue]
          BatchSize

Levels == {"priority", "info"}
ASSUME SinkAssumption ==
    /\ Priority \subseteq Entries /\ BatchSize \in Nat \ {0}
    /\ SinkRoom \in [Levels -> Nat \ {0}]

VARIABLES
    logged,                    \* the records handed to Enqueue so far
    buffer,                    \* [level -> records in its channel]
    batch,                     \* the worker's batch
    writer,                    \* off, first, second, flush, drain, gone: where the worker is
    back,                      \* where the worker goes after a flush
    stopped,                   \* the sink's context is cancelled
    tardy,                     \* history: the records logged after that
    rows,                      \* the records in the table
    inserted, lost             \* the counters: rows acknowledged, [level -> records dropped]

sinkVars == <<logged, buffer, batch, writer, back, stopped, tardy, rows, inserted,
              lost>>

Level(e) == IF e \in Priority THEN "priority" ELSE "info"

SinkInit ==
    /\ logged = {} /\ buffer = [l \in Levels |-> <<>>] /\ batch = <<>>
    /\ writer = "off" /\ back = "off" /\ stopped = FALSE /\ tardy = {}
    /\ rows = {} /\ inserted = 0 /\ lost = [l \in Levels |-> 0]

\* Fault: the two levels share the room of both queues.
HasRoom_Shared(l) == Len(buffer["info"]) + Len(buffer["priority"]) < SinkRoom["info"] + SinkRoom["priority"]
HasRoom(l) == Len(buffer[l]) < SinkRoom[l]

\* Any goroutine logs, before the worker starts and after it is gone, too.
LogRecord(e) ==
    LET l == Level(e) IN
    /\ e \notin logged /\ logged' = logged \cup {e}
    /\ tardy' = IF stopped THEN tardy \cup {e} ELSE tardy
    /\ IF HasRoom(l) THEN buffer' = [buffer EXCEPT ![l] = Append(@, e)] /\ UNCHANGED lost
       ELSE lost' = [lost EXCEPT ![l] = @ + 1] /\ UNCHANGED buffer
    /\ UNCHANGED <<batch, writer, back, stopped, rows, inserted>>

\* Start hangs the store in and starts the one worker.
StartSink ==
    /\ writer = "off" /\ writer' = "first"
    /\ UNCHANGED <<logged, buffer, batch, back, stopped, tardy, rows, inserted, lost>>

Cancel ==
    /\ writer # "off" /\ ~stopped /\ stopped' = TRUE
    /\ UNCHANGED <<logged, buffer, batch, writer, back, tardy, rows, inserted, lost>>

\* Fault: a batch is flushed once it is longer than a batch may be.
Receive_LateFlush(l, next) ==
    /\ buffer[l] # <<>>
    /\ batch' = Append(batch, Head(buffer[l]))
    /\ buffer' = [buffer EXCEPT ![l] = Tail(@)]
    /\ back' = next
    /\ writer' = IF Len(batch) + 1 > BatchSize THEN "flush" ELSE next
    /\ UNCHANGED <<logged, stopped, tardy, rows, inserted, lost>>
\* A record joins the batch; a full batch is flushed before anything else.
Receive(l, next) ==
    /\ buffer[l] # <<>>
    /\ batch' = Append(batch, Head(buffer[l]))
    /\ buffer' = [buffer EXCEPT ![l] = Tail(@)]
    /\ back' = next
    /\ writer' = IF Len(batch) + 1 >= BatchSize THEN "flush" ELSE next
    /\ UNCHANGED <<logged, stopped, tardy, rows, inserted, lost>>

Move(to) == writer' = to /\ UNCHANGED <<logged, buffer, batch, back, stopped, tardy,
                                        rows, inserted, lost>>

\* The first select: priority records go before everything, the end included.
PriorityFirst == writer = "first" /\ Receive("priority", "first")
NoPriority == writer = "first" /\ buffer["priority"] = <<>> /\ Move("second")

\* The second select takes any branch that is ready by then.
AnyRecord == writer = "second" /\ \E l \in Levels : Receive(l, "first")
\* Fault: only full batches are flushed while the sink runs.
Tick_Never == FALSE /\ UNCHANGED sinkVars
Tick ==
    /\ writer = "second" /\ batch # <<>>
    /\ writer' = "flush" /\ back' = "first"
    /\ UNCHANGED <<logged, buffer, batch, stopped, tardy, rows, inserted, lost>>
SeesStop == writer = "second" /\ stopped /\ Move("drain")

DrainPriority == writer = "drain" /\ Receive("priority", "drain")
\* Fault: the drain waits for the info queue and does not empty it.
DrainInfo_Skipped == FALSE /\ UNCHANGED sinkVars
DrainInfo == writer = "drain" /\ buffer["priority"] = <<>> /\ Receive("info", "drain")
\* Fault: the worker ends with the last record of the queues, before a flush.
DrainEnd_NoFlush ==
    /\ writer = "drain" /\ \A l \in Levels : buffer[l] = <<>>
    /\ writer' = "gone" /\ back' = "gone" /\ batch' = <<>>
    /\ UNCHANGED <<logged, buffer, stopped, tardy, rows, inserted, lost>>
\* Fault: the drain ends with the priority queue.
DrainEnd_PriorityOnly ==
    /\ writer = "drain" /\ buffer["priority"] = <<>>
    /\ writer' = (IF batch = <<>> THEN "gone" ELSE "flush") /\ back' = "gone"
    /\ UNCHANGED <<logged, buffer, batch, stopped, tardy, rows, inserted, lost>>
\* Both queues are empty: what the batch holds is flushed and the worker ends.
DrainEnd ==
    /\ writer = "drain" /\ \A l \in Levels : buffer[l] = <<>>
    /\ writer' = (IF batch = <<>> THEN "gone" ELSE "flush") /\ back' = "gone"
    /\ UNCHANGED <<logged, buffer, batch, stopped, tardy, rows, inserted, lost>>

OfLevel(l) == Cardinality({i \in DOMAIN batch : Level(batch[i]) = l})
Flushed == writer' = back /\ batch' = <<>> /\ UNCHANGED <<logged, buffer, back,
                                        stopped, tardy>>

\* One INSERT for the whole batch.
FlushOk ==
    /\ writer = "flush" /\ Flushed
    /\ rows' = rows \cup ToSet(batch) /\ inserted' = inserted + Len(batch)
    /\ UNCHANGED lost
\* Fault: a failed batch counts as one loss.
FlushFails_OneLoss ==
    /\ writer = "flush" /\ Flushed
    /\ \E committed \in BOOLEAN : rows' = rows \cup (IF committed THEN ToSet(batch) ELSE {})
    /\ lost' = [l \in Levels |-> lost[l] + (IF OfLevel(l) > 0 THEN 1 ELSE 0)]
    /\ UNCHANGED inserted
\* An error or a panic of the store, with or without the rows committed.
FlushFails ==
    /\ writer = "flush" /\ Flushed
    /\ \E committed \in BOOLEAN : rows' = rows \cup (IF committed THEN ToSet(batch) ELSE {})
    /\ lost' = [l \in Levels |-> lost[l] + OfLevel(l)]
    /\ UNCHANGED inserted

WriterStep ==
    \/ PriorityFirst \/ NoPriority \/ AnyRecord \/ Tick \/ SeesStop
    \/ DrainPriority \/ DrainInfo \/ DrainEnd \/ FlushOk \/ FlushFails

SinkNext == (\E e \in Entries : LogRecord(e)) \/ StartSink \/ Cancel \/ WriterStep

SinkSpec == SinkInit /\ [][SinkNext]_sinkVars

\* The worker runs and its ticker ticks; the second select, when several of its
\* branches stay ready, takes each of them sooner or later (Go picks at random).
SinkFairness == WF_sinkVars(WriterStep) /\ SF_sinkVars(SeesStop) /\ SF_sinkVars(Tick)

FairSinkSpec == SinkSpec /\ SinkFairness

----------------------------------------------------------------------------
(* Properties.                                                             *)

InHand == ToSet(buffer["priority"]) \cup ToSet(buffer["info"]) \cup ToSet(batch)

SinkTypeOK ==
    /\ logged \subseteq Entries /\ rows \subseteq logged /\ InHand \subseteq logged
    /\ Len(batch) <= BatchSize /\ inserted \in Nat /\ lost \in [Levels -> Nat]
    /\ \A l \in Levels : Len(buffer[l]) <= SinkRoom[l] /\ \A e \in ToSet(buffer[l]) : Level(e) = l
    /\ writer \in {"off", "first", "second", "flush", "drain", "gone"}
    /\ (writer = "flush") => batch # <<>>

\* The operator's numbers add up: what was logged is acknowledged, counted as
\* lost or still in hand, and a record is in hand at one place only (sink.go:140,
\* :316-342; the counters of DetailedHealth).
CountersAddUp ==
    /\ Cardinality(logged) = inserted + lost["priority"] + lost["info"] + Cardinality(InHand)
    /\ Cardinality(InHand) = Len(buffer["priority"]) + Len(buffer["info"]) + Len(batch)

\* A record is lost to the reader only if a counter says so: the ones neither in
\* the table nor in hand are no more than the counters of their level admit.
EveryLossIsCounted == \A l \in Levels :
    Cardinality({e \in logged \ (rows \cup InHand) : Level(e) = l}) <= lost[l]

\* A flood of info records costs no warning or error its place: while no more of
\* them came than their own queue holds, none is lost before the worker starts
\* (sink.go:119).
FloodSparesPriority ==
    writer = "off" /\ Cardinality(logged \cap Priority) <= SinkRoom["priority"] =>
        lost["priority"] = 0

\* The worker's end leaves nothing behind that was logged before the sink was
\* stopped: only a record that came later waits in a queue nobody will read
\* (sink.go:276-300; lifecycle.go:73, whoever logs is stopped before the sink).
NothingLeftBehind == writer = "gone" => InHand \subseteq tardy

\* Everything the started sink took reaches the table or a counter, and a
\* cancelled sink ends (sink.go:237-300).
QueuesEmpty == writer = "first" ~> (InHand = {} \/ writer = "gone")
CancelledEnds == stopped ~> writer = "gone"

\* Every record is in the table, in hand or counted as lost, until the end.
SinkSafety ==
    /\ SinkTypeOK /\ CountersAddUp /\ EveryLossIsCounted
    /\ FloodSparesPriority /\ NothingLeftBehind
=============================================================================
