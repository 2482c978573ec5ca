------------------------------ MODULE OtBridge ------------------------------
(***************************************************************************)
(* The OT bridge (src/services/ot-bridge): OPC-UA notifications are put on *)
(* a bounded queue, workers publish each one on the stream and push it to  *)
(* a buffer, and the buffer is inserted into sensor_events in batches, by  *)
(* the worker that fills it, by a periodic loop, or by close().  Signals   *)
(* stop the bridge; nothing is retried.                                    *)
(*                                                                         *)
(* One action per stretch of code between two awaits.  An await that is    *)
(* cancelled or fails may have had its effect (a publish that was stored,  *)
(* a statement that was committed) or not.  The values are the doubles the *)
(* plant serves: float() and the normalizer raise for none of a node whose *)
(* asset and tag the registry has, and a node is named from the registry.  *)
(***************************************************************************)
EXTENDS Integers, FiniteSets, Sequences, SequencesExt

CONSTANTS
  Nodes,        \* OPC-UA variable nodes of the active assets
  Events,       \* data change notifications, each sent at most once
  NodeOf,       \* [Events -> Nodes]
  Alarms,       \* the events whose quality_code is not 0
  Workers,      \* worker tasks (WORKER_COUNT)
  QueueSize,    \* maxsize of the queue (10000)
  BatchSize,    \* batch_size of the writer (500)
  MaxFaults,    \* bound: calls that fail
  None, Loop, Closer    \* no holder, the flush loop, close()

ASSUME BridgeAssumption ==
  /\ IsFiniteSet(Workers) /\ NodeOf \in [Events -> Nodes] /\ Alarms \subseteq Events
  /\ QueueSize \in Nat \ {0} /\ BatchSize \in Nat \ {0} /\ MaxFaults \in Nat
  /\ None \notin Events /\ {None, Loop, Closer} \cap Workers = {}
  /\ None # Loop /\ None # Closer /\ Loop # Closer

VARIABLES
  bridge,      \* where run() is
  live,        \* nodes the server sends notifications for
  nodeid_map,  \* nodes the subscriber knows
  sent,        \* notifications that reached the callback
  queue,       \* event_queue
  unfinished,  \* unfinished tasks of event_queue
  worker,      \* [Workers -> [pc, event]]
  buffer,      \* TimescaleWriter._buffer
  lock,        \* who holds TimescaleWriter._lock across its INSERT
  flight,      \* the batch of that INSERT
  stream,      \* events on sensor.events
  alarms,      \* events on sensor.alarms
  table,       \* rows of sensor_events
  audit,       \* events on audit.ot.bridge
  logged,      \* events a log line gives up: dropped, unknown, failed
  strangers,   \* events of a node the subscriber does not know, handled
  faults

bridgevars == <<bridge, live, nodeid_map, sent, queue, unfinished, worker, buffer,
          lock, flight, stream, alarms, table, audit, logged, strangers, faults>>
sinks == <<stream, alarms, table>>
intake == <<live, nodeid_map, sent>>
writer == <<buffer, lock, flight>>

Waiting == [pc |-> "get", event |-> None]
Over(pc) == [pc |-> pc, event |-> None]
InHand == {worker[w].event : w \in Workers} \ {None}
Up == bridge \in {"running", "signalled"}

BridgeInit ==
  /\ bridge = "connecting" /\ live = {} /\ nodeid_map = {} /\ sent = {}
  /\ queue = <<>> /\ unfinished = 0 /\ worker = [w \in Workers |-> Waiting]
  /\ buffer = <<>> /\ lock = None /\ flight = {}
  /\ stream = {} /\ alarms = {} /\ table = {} /\ audit = {}
  /\ logged = {} /\ strangers = {} /\ faults = 0

Fault == faults < MaxFaults /\ faults' = faults + 1

-----------------------------------------------------------------------------
(* Start: publisher, writer, bridge_start, then one subscription per node. *)

Connect ==
  /\ bridge = "connecting"
  /\ bridge' = "subscribing" /\ audit' = audit \cup {"bridge_start"}
  /\ UNCHANGED <<intake, queue, unfinished, worker, writer, sinks, logged, strangers, faults>>

\* Any call of the start that raises ends the process.
ConnectFails ==
  /\ bridge = "connecting" /\ Fault
  /\ bridge' = "crashed"
  /\ UNCHANGED <<intake, queue, unfinished, worker, writer, sinks, audit, logged, strangers>>

\* The subscriptions are made one after the other; the first may deliver
\* before the last is made.
Subscribe(n) ==
  /\ bridge = "subscribing" /\ n \notin live
  /\ live' = live \cup {n} /\ nodeid_map' = nodeid_map \cup {n}
  /\ UNCHANGED <<bridge, sent, queue, unfinished, worker, writer, sinks, audit,
                 logged, strangers, faults>>

\* A subscription that raises is logged; when only its answer was lost the
\* server sends notifications the subscriber has no name for.
SubscribeFails(n) ==
  /\ bridge = "subscribing" /\ n \notin live /\ Fault
  /\ live' = live \cup {n}
  /\ UNCHANGED <<bridge, nodeid_map, sent, queue, unfinished, worker, writer,
                 sinks, audit, logged, strangers>>

\* A subscription the server refused delivers nothing.
Running ==
  /\ bridge = "subscribing"
  /\ \/ live = Nodes /\ UNCHANGED faults
     \/ live # Nodes /\ Fault
  /\ bridge' = "running"
  /\ UNCHANGED <<intake, queue, unfinished, worker, writer, sinks, audit, logged, strangers>>

\* Fault variant of QueueFull: one event too many.
QueueFullLate == Len(queue) > QueueSize

QueueFull == Len(queue) >= QueueSize

\* The callback: put_nowait, or drop and log when the queue is full.
Notify(e) ==
  /\ bridge \in {"subscribing", "running", "signalled", "cancelled"}
  /\ NodeOf[e] \in live /\ e \notin sent
  /\ sent' = sent \cup {e}
  /\ \/ /\ ~QueueFull
        /\ queue' = Append(queue, e) /\ unfinished' = unfinished + 1
        /\ UNCHANGED logged
     \/ /\ QueueFull
        /\ logged' = logged \cup {e} /\ UNCHANGED <<queue, unfinished>>
  /\ UNCHANGED <<bridge, live, nodeid_map, worker, writer, sinks, audit, strangers, faults>>

-----------------------------------------------------------------------------
(* A worker.  task_done() raises when no task is unfinished; raised in the *)
(* finally clause it ends the worker, and gather() hides it.               *)

\* The finally clause after an event, with n task_done() calls in all: the
\* worker goes round again unless the last of them raised.
TaskDone(w, n) ==
  /\ unfinished' = IF unfinished > n THEN unfinished - n ELSE 0
  /\ worker' = [worker EXCEPT ![w] =
       IF unfinished < n THEN Over("killed")
       ELSE IF bridge = "running" THEN Waiting ELSE Over("done")]

\* A worker takes the next event.  Up to its first await it looks the node
\* up; a stranger is marked done here and again in the finally clause.
Take(w) ==
  /\ Up /\ worker[w].pc = "get" /\ queue # <<>>
  /\ queue' = Tail(queue)
  /\ LET e == Head(queue) IN
       \/ /\ NodeOf[e] \notin nodeid_map
          /\ strangers' = strangers \cup {e} /\ logged' = logged \cup {e}
          /\ TaskDone(w, 2)
       \/ /\ NodeOf[e] \in nodeid_map
          /\ worker' = [worker EXCEPT ![w] = [pc |-> "publish", event |-> e]]
          /\ UNCHANGED <<unfinished, logged, strangers>>
  /\ UNCHANGED <<bridge, intake, writer, sinks, audit, faults>>

\* The wait for an event times out and the loop's condition is read again.
Poll(w) ==
  /\ bridge = "signalled" /\ worker[w].pc = "get"
  /\ worker' = [worker EXCEPT ![w] = Over("done")]
  /\ UNCHANGED <<bridge, intake, queue, unfinished, writer, sinks, audit,
                 logged, strangers, faults>>

NextSink(e) == IF e \in Alarms THEN "alarm" ELSE "push"

\* publish_event: the event's subject first, then the alarm subject.
Publish(w) ==
  LET e == worker[w].event IN
  /\ Up /\ worker[w].pc = "publish"
  /\ stream' = stream \cup {e}
  /\ worker' = [worker EXCEPT ![w].pc = NextSink(e)]
  /\ UNCHANGED <<bridge, intake, queue, unfinished, writer, alarms, table, audit,
                 logged, strangers, faults>>

PublishAlarm(w) ==
  /\ Up /\ worker[w].pc = "alarm"
  /\ alarms' = alarms \cup {worker[w].event}
  /\ worker' = [worker EXCEPT ![w].pc = "push"]
  /\ UNCHANGED <<bridge, intake, queue, unfinished, writer, stream, table, audit,
                 logged, strangers, faults>>

\* A publish that raises ends the event: the sinks that follow never get it.
PublishFails(w) ==
  LET e == worker[w].event IN
  /\ Up /\ worker[w].pc \in {"publish", "alarm"} /\ Fault
  /\ \/ UNCHANGED <<stream, alarms>>
     \/ worker[w].pc = "publish" /\ stream' = stream \cup {e} /\ UNCHANGED alarms
     \/ worker[w].pc = "alarm" /\ alarms' = alarms \cup {e} /\ UNCHANGED stream
  /\ logged' = logged \cup {e}
  /\ TaskDone(w, 1)
  /\ UNCHANGED <<bridge, intake, queue, writer, table, audit, strangers>>

Full(events) == Len(events) >= BatchSize

\* push: under the lock, append, and start the INSERT of a full buffer.
Push(w) ==
  /\ Up /\ worker[w].pc = "push" /\ lock = None
  /\ LET filled == Append(buffer, worker[w].event) IN
       \/ /\ ~Full(filled)
          /\ buffer' = filled /\ TaskDone(w, 1) /\ UNCHANGED <<lock, flight>>
       \/ /\ Full(filled)
          /\ buffer' = <<>> /\ flight' = ToSet(filled) /\ lock' = w
          /\ worker' = [worker EXCEPT ![w].pc = "insert"]
          /\ UNCHANGED unfinished
  /\ UNCHANGED <<bridge, intake, queue, sinks, audit, logged, strangers, faults>>

-----------------------------------------------------------------------------
(* The INSERT of a batch, whoever runs it.                                 *)

\* The statement of `who` commits, or fails and the batch is dropped with a
\* log line (the answer of a commit may be lost too).
Inserted(who) ==
  /\ lock = who
  /\ lock' = None /\ flight' = {}
  /\ \/ table' = table \cup flight /\ UNCHANGED <<logged, faults>>
     \/ /\ Fault /\ logged' = logged \cup flight
        /\ table' \in {table, table \cup flight}

\* The statement of a cancelled task: committed or not, and nothing logged.
Interrupted(who) ==
  \/ /\ lock = who /\ lock' = None /\ flight' = {}
     /\ table' \in {table, table \cup flight}
  \/ lock # who /\ UNCHANGED <<lock, flight, table>>

WorkerInserted(w) ==
  /\ Up /\ Inserted(w) /\ TaskDone(w, 1)
  /\ UNCHANGED <<bridge, intake, queue, buffer, stream, alarms, audit, strangers>>

\* The flush loop, alive from the start of the writer until close(); each
\* round flushes what there is.
LoopRuns == bridge \in {"subscribing", "running", "signalled", "cancelled", "unsubscribed"}

\* Fault variant of LoopFlush: the interval does not flush a partial batch.
LoopFlushFull ==
  /\ LoopRuns /\ lock = None /\ Full(buffer)
  /\ buffer' = <<>> /\ flight' = ToSet(buffer) /\ lock' = Loop
  /\ UNCHANGED <<bridge, intake, queue, unfinished, worker, sinks, audit, logged,
                 strangers, faults>>

LoopFlush ==
  /\ LoopRuns /\ lock = None /\ buffer # <<>>
  /\ buffer' = <<>> /\ flight' = ToSet(buffer) /\ lock' = Loop
  /\ UNCHANGED <<bridge, intake, queue, unfinished, worker, sinks, audit, logged,
                 strangers, faults>>

LoopInserted ==
  /\ LoopRuns /\ Inserted(Loop)
  /\ UNCHANGED <<bridge, intake, queue, unfinished, worker, buffer, stream, alarms,
                 audit, strangers>>

-----------------------------------------------------------------------------
(* Shutdown.                                                               *)

Signal ==
  /\ bridge = "running" /\ bridge' = "signalled"
  /\ UNCHANGED <<intake, queue, unfinished, worker, writer, sinks, audit, logged,
                 strangers, faults>>

\* Every worker is cancelled where it awaits; its event goes no further.
\* The queue is not drained.
CancelWorkers ==
  /\ bridge = "signalled" /\ bridge' = "cancelled"
  /\ worker' = [w \in Workers |->
       IF worker[w].pc = "killed" THEN worker[w] ELSE Over("done")]
  /\ unfinished' = IF unfinished > Cardinality(InHand)
                     THEN unfinished - Cardinality(InHand) ELSE 0
  /\ \E done \in SUBSET {w \in Workers : worker[w].pc \in {"publish", "alarm"}} :
       /\ stream' = stream \cup {worker[w].event : w \in {v \in done : worker[v].pc = "publish"}}
       /\ alarms' = alarms \cup {worker[w].event : w \in {v \in done : worker[v].pc = "alarm"}}
  /\ Interrupted(IF lock \in Workers THEN lock ELSE Closer)
  /\ UNCHANGED <<intake, queue, buffer, audit, logged, strangers, faults>>

\* subscriber.close(): no notification after it.
Unsubscribe ==
  /\ bridge = "cancelled" /\ bridge' = "unsubscribed"
  /\ UNCHANGED <<intake, queue, unfinished, worker, writer, sinks, audit, logged,
                 strangers, faults>>

\* disconnect() raises: run() ends there, and with it the flush loop; the
\* buffer is never inserted.
UnsubscribeFails ==
  /\ bridge = "cancelled" /\ Fault /\ bridge' = "crashed"
  /\ Interrupted(Loop)
  /\ UNCHANGED <<intake, queue, unfinished, worker, buffer, stream, alarms, audit,
                 logged, strangers>>

\* writer.close() cancels the loop, in the middle of its INSERT if need be.
CancelLoop ==
  /\ bridge = "unsubscribed" /\ bridge' = "closing"
  /\ Interrupted(Loop)
  /\ UNCHANGED <<intake, queue, unfinished, worker, buffer, stream, alarms, audit,
                 logged, strangers, faults>>

FinalFlush ==
  /\ bridge = "closing" /\ lock = None /\ buffer # <<>>
  /\ buffer' = <<>> /\ flight' = ToSet(buffer) /\ lock' = Closer
  /\ UNCHANGED <<bridge, intake, queue, unfinished, worker, sinks, audit, logged,
                 strangers, faults>>

FinalInserted ==
  /\ bridge = "closing" /\ Inserted(Closer)
  /\ UNCHANGED <<bridge, intake, queue, unfinished, worker, buffer, stream, alarms,
                 audit, strangers>>

\* bridge_stop is published, or its failure logged, and the connection drained.
Stop ==
  /\ bridge = "closing" /\ lock = None /\ buffer = <<>>
  /\ bridge' = "stopped"
  /\ \/ audit' = audit \cup {"bridge_stop"} /\ UNCHANGED faults
     \/ Fault /\ UNCHANGED audit
  /\ UNCHANGED <<intake, queue, unfinished, worker, writer, sinks, logged, strangers>>

-----------------------------------------------------------------------------
WorkerStep(w) ==
  \/ Take(w) \/ Poll(w) \/ Publish(w) \/ PublishAlarm(w) \/ PublishFails(w)
  \/ Push(w) \/ WorkerInserted(w)
LoopStep == LoopFlush \/ LoopInserted
Shutdown ==
  \/ CancelWorkers \/ Unsubscribe \/ UnsubscribeFails \/ CancelLoop
  \/ FinalFlush \/ FinalInserted \/ Stop
Start ==
  \/ Connect \/ ConnectFails \/ Running
  \/ \E n \in Nodes : Subscribe(n) \/ SubscribeFails(n)

BridgeNext ==
  \/ Start \/ Signal \/ Shutdown \/ LoopStep
  \/ \E e \in Events : Notify(e)
  \/ \E w \in Workers : WorkerStep(w)

BridgeSpec == BridgeInit /\ [][BridgeNext]_bridgevars

\* The event loop runs every task that is not waiting, and every wait ends:
\* JetStream publishes and SQL statements have a timeout.
BridgeLiveSpec ==
  /\ BridgeSpec /\ WF_bridgevars(LoopStep) /\ WF_bridgevars(Shutdown)
  /\ \A w \in Workers : WF_bridgevars(WorkerStep(w))

-----------------------------------------------------------------------------
(* Properties.                                                             *)

\* The queue, the buffer and the tasks keep their shapes.
BridgeTypes ==
  /\ bridge \in {"connecting", "subscribing", "running", "signalled", "cancelled",
                 "unsubscribed", "closing", "stopped", "crashed"}
  /\ nodeid_map \subseteq live /\ live \subseteq Nodes
  /\ sent \subseteq Events /\ queue \in Seq(Events) /\ Len(queue) <= QueueSize
  /\ unfinished \in Nat
  /\ worker \in [Workers -> [pc : {"get", "publish", "alarm", "push", "insert",
                                    "killed", "done"},
                              event : Events \cup {None}]]
  /\ buffer \in Seq(Events) /\ Len(buffer) < BatchSize
  /\ lock \in Workers \cup {None, Loop, Closer} /\ flight \subseteq Events
  /\ stream \subseteq Events /\ alarms \subseteq Events /\ table \subseteq Events
  /\ audit \subseteq {"bridge_start", "bridge_stop"}
  /\ logged \subseteq sent /\ strangers \subseteq logged
  /\ faults \in 0..MaxFaults

\* What the process still has, what reached the table and what a log names.
Held == ToSet(queue) \cup InHand \cup ToSet(buffer) \cup flight
Unaccounted == sent \ (Held \cup table \cup logged)

\* Up to the signal no event disappears without a log line (main.py:161,
\* opcua_client.py:146, timescale_writer.py:137).
NoSilentLoss == bridge \in {"subscribing", "running", "signalled"} => Unaccounted = {}

\* What a shutdown loses in silence, besides the queue it does not drain, is
\* one event per worker and one batch at most: the one event each cancelled
\* worker holds, and the batch of the one INSERT under way.
SilentLossBounded ==
  Cardinality(Unaccounted) <= Cardinality(Workers) + BatchSize - 1

\* A row of sensor_events is an event subscribers were sent first, on the
\* alarm subject too if it is an alarm (main.py:158).
StoredWasPublished ==
  \A e \in table : e \in stream /\ (e \in Alarms => e \in alarms)

\* The second task_done() of an event of an unknown node runs the queue's
\* counter ahead of it, and a task_done() that finds nothing unfinished kills
\* its worker, be its event known or not (main.py:129 and 168): one stranger
\* costs one worker at most, and without a stranger the counter is exact.
Killed == {w \in Workers : worker[w].pc = "killed"}
DeathsExplained ==
  /\ Cardinality(Killed) <= Cardinality(strangers)
  /\ strangers = {} => unfinished = Len(queue) + Cardinality(InHand)

\* The audit trail says bridge_stop only when nothing moves any more: no
\* worker, no subscription, no buffer and no statement under way.
StopIsFinal ==
  "bridge_stop" \in audit =>
    /\ "bridge_start" \in audit /\ Held \subseteq ToSet(queue)
    /\ \A w \in Workers : worker[w].pc \in {"killed", "done"}

\* Wherever an event is, the bridge can say so: stored, published, held, named in
\* a log line, or lost within the bound of a shutdown; its workers die only of
\* unknown nodes, and its last audit row closes the story.
EventsAccounted ==
  /\ BridgeTypes
  /\ NoSilentLoss
  /\ SilentLossBounded
  /\ StoredWasPublished
  /\ DeathsExplained
  /\ StopIsFinal

\* A signalled bridge comes to an end, cleanly or by an error of disconnect();
\* and while it runs and has a worker, the events that reached the callback are
\* in the end in the table or named in a log line.
Drained ==
  \/ bridge \in {"connecting", "subscribing", "stopped", "crashed"}
  \/ bridge = "running" /\ (sent \subseteq table \cup logged \/ Killed = Workers)
BridgeDrains == []<>Drained
=============================================================================
