---------------------------- MODULE ServicesProofs ----------------------------
(***************************************************************************)
(* Proofs about the services and scripts around the gateway:               *)
(* EventsAccounted of OtBridge, for any number of events, workers and      *)
(* failures and any sizes of the queue and the batches; ProvisioningHolds  *)
(* of Provisioning, for any runs, files, collections, documents and data   *)
(* sets and any number of lost calls and kills.                            *)
(***************************************************************************)
EXTENDS OtBridge, Provisioning, FiniteSums

-----------------------------------------------------------------------------
(* Sequences as sets.                                                      *)

LEMMA ElementsAppend ==
  ASSUME NEW X, NEW s \in Seq(X), NEW e \in X
  PROVE  /\ ToSet(Append(s, e)) = ToSet(s) \cup {e}
         /\ Append(s, e) \in Seq(X) /\ Len(Append(s, e)) = Len(s) + 1
<1>1. /\ DOMAIN Append(s, e) = DOMAIN s \cup {Len(s) + 1}
      /\ Append(s, e)[Len(s) + 1] = e /\ \A k \in DOMAIN s : Append(s, e)[k] = s[k]
  OBVIOUS
<1> QED BY <1>1 DEF ToSet

LEMMA ElementsTail ==
  ASSUME NEW X, NEW s \in Seq(X), s # <<>>
  PROVE  /\ Head(s) \in X /\ Tail(s) \in Seq(X) /\ Len(Tail(s)) = Len(s) - 1
         /\ ToSet(s) = {Head(s)} \cup ToSet(Tail(s))
<1>1. /\ Len(s) \in Nat /\ Len(s) > 0 /\ DOMAIN s = 1..Len(s)
      /\ Head(s) = s[1] /\ Tail(s) \in Seq(X) /\ Len(Tail(s)) = Len(s) - 1
      /\ DOMAIN Tail(s) = 1..(Len(s) - 1)
      /\ \A k \in 1..(Len(s) - 1) : Tail(s)[k] = s[k + 1]
  OBVIOUS
<1>2. \A x \in ToSet(s) : x = Head(s) \/ x \in ToSet(Tail(s))
  <2> SUFFICES ASSUME NEW k \in 1..Len(s), k # 1
               PROVE  s[k] \in ToSet(Tail(s))
    BY <1>1 DEF ToSet
  <2>1. k - 1 \in 1..(Len(s) - 1) /\ Tail(s)[k - 1] = s[k]
    BY <1>1
  <2> QED BY <1>1, <2>1 DEF ToSet
<1>3. \A x \in ToSet(Tail(s)) : x \in ToSet(s)
  <2> SUFFICES ASSUME NEW k \in 1..(Len(s) - 1)
               PROVE  Tail(s)[k] \in ToSet(s)
    BY <1>1 DEF ToSet
  <2>1. k + 1 \in 1..Len(s) /\ Tail(s)[k] = s[k + 1]
    BY <1>1
  <2> QED BY <1>1, <2>1 DEF ToSet
<1>4. Head(s) \in ToSet(s) /\ Head(s) \in X
  BY <1>1 DEF ToSet
<1> QED BY <1>1, <1>2, <1>3, <1>4

LEMMA ElementsIn ==
  ASSUME NEW X, NEW s \in Seq(X)
  PROVE  /\ ToSet(s) \in SUBSET X /\ Len(s) \in Nat
         /\ IsFiniteSet(ToSet(s)) /\ Cardinality(ToSet(s)) \in Nat /\ Cardinality(ToSet(s)) <= Len(s)
         /\ s = <<>> <=> Len(s) = 0
         /\ Len(s) = 0 => ToSet(s) = {}
<1>1. Len(s) \in Nat /\ DOMAIN s = 1..Len(s) /\ (s = <<>> <=> Len(s) = 0)
  OBVIOUS
<1>2. IsFiniteSet(1..Len(s)) /\ Cardinality(1..Len(s)) = Len(s)
  BY <1>1, FS_Interval
<1>3. s \in Surjection(1..Len(s), ToSet(s))
  BY <1>1 DEF ToSet, Surjection
<1>4. IsFiniteSet(ToSet(s)) /\ Cardinality(ToSet(s)) <= Cardinality(1..Len(s))
  BY <1>2, <1>3, FS_Surjection
<1>5. ToSet(s) \in SUBSET X
  BY <1>1 DEF ToSet
<1> QED BY <1>1, <1>2, <1>4, <1>5, FS_CardinalityType DEF ToSet

-----------------------------------------------------------------------------
(* OtBridge: the shapes of its state.                                      *)

Jobs ==
  [pc : {"get", "killed", "done"}, event : {None}]
    \cup [pc : {"publish", "alarm", "push", "insert"}, event : Events]

Shapes ==
  /\ BridgeTypes
  /\ worker \in [Workers -> Jobs]
  /\ Held \subseteq sent /\ IsFiniteSet(sent)

LEMMA JobFields ==
  ASSUME NEW j \in Jobs
  PROVE  /\ j.pc \in {"get", "publish", "alarm", "push", "insert", "killed", "done"}
         /\ j.event \in Events \cup {None}
         /\ j.pc \in {"get", "killed", "done"} <=> j.event = None
         /\ j.pc \in {"publish", "alarm", "push", "insert"} <=> j.event \in Events
         /\ j \in [pc : {"get", "publish", "alarm", "push", "insert", "killed", "done"},
                   event : Events \cup {None}]
         /\ j.pc \in {"publish", "alarm", "push"} =>
              \A pc \in {"publish", "alarm", "push", "insert"} : [j EXCEPT !.pc = pc] \in Jobs
BY BridgeAssumption DEF Jobs

LEMMA JobsOver ==
  /\ Waiting \in Jobs /\ Over("done") \in Jobs /\ Over("killed") \in Jobs
  /\ Waiting.pc = "get" /\ Waiting.event = None
  /\ \A pc : Over(pc).pc = pc /\ Over(pc).event = None
BY DEF Waiting, Over, Jobs

\* What a worker does with the event it has handled.
LEMMA TaskDoneShape ==
  ASSUME worker \in [Workers -> Jobs], unfinished \in Nat, NEW w \in Workers, NEW n \in Nat, TaskDone(w, n)
  PROVE  /\ worker' \in [Workers -> Jobs] /\ unfinished' \in Nat
         /\ worker'[w].event = None /\ worker'[w].pc \in {"get", "killed", "done"}
         /\ worker'[w].pc = "killed" <=> unfinished < n
         /\ worker'[w].pc = "get" => bridge = "running"
         /\ \A v \in Workers \ {w} : worker'[v] = worker[v]
         /\ unfinished' = IF unfinished > n THEN unfinished - n ELSE 0
<1>1. \E over \in {Waiting, Over("done"), Over("killed")} :
        /\ worker' = [worker EXCEPT ![w] = over]
        /\ over.pc = "killed" <=> unfinished < n
        /\ over.pc = "get" => bridge = "running"
  BY JobsOver DEF TaskDone
<1>2. unfinished' = IF unfinished > n THEN unfinished - n ELSE 0
  BY DEF TaskDone
<1> QED BY <1>1, <1>2, JobsOver

\* The events in hand are those of the workers that have one.
LEMMA InHandIs ==
  ASSUME worker \in [Workers -> Jobs]
  PROVE  /\ InHand \in SUBSET Events
         /\ \A e : e \in InHand <=> \E w \in Workers : worker[w].event = e /\ e # None
         /\ IsFiniteSet(InHand) /\ Cardinality(InHand) \in Nat /\ Cardinality(InHand) <= Cardinality(Workers)
<1>1. \A w \in Workers : worker[w].event \in Events \cup {None}
  BY JobFields
<1>2. /\ InHand \in SUBSET Events
      /\ \A e : e \in InHand <=> \E w \in Workers : worker[w].event = e /\ e # None
  BY <1>1 DEF InHand
<1>3. IsFiniteSet({worker[w].event : w \in Workers})
      /\ Cardinality({worker[w].event : w \in Workers}) <= Cardinality(Workers)
  <2> DEFINE f == [w \in Workers |-> worker[w].event]
  <2>1. f \in Surjection(Workers, {worker[w].event : w \in Workers})
    BY DEF Surjection
  <2> QED BY <2>1, BridgeAssumption, FS_Surjection
<1>4. IsFiniteSet(InHand) /\ Cardinality(InHand) <= Cardinality({worker[w].event : w \in Workers})
  BY <1>3, FS_Subset DEF InHand
<1>5. /\ Cardinality(InHand) \in Nat /\ Cardinality(Workers) \in Nat
      /\ Cardinality({worker[w].event : w \in Workers}) \in Nat
  BY <1>3, <1>4, BridgeAssumption, FS_CardinalityType
<1> QED BY <1>2, <1>3, <1>4, <1>5

LEMMA InsertedShape ==
  ASSUME Shapes, NEW who, Inserted(who)
  PROVE  /\ lock = who /\ lock' = None /\ flight' = {}
         /\ table \subseteq table' /\ table' \subseteq table \cup flight
         /\ logged \subseteq logged' /\ logged' \subseteq logged \cup flight
         /\ flight \subseteq table' \cup logged' /\ faults' \in 0..MaxFaults
<1>1. faults \in 0..MaxFaults /\ MaxFaults \in Nat
  BY BridgeAssumption DEF Shapes, BridgeTypes
<1>2. CASE table' = table \cup flight /\ UNCHANGED <<logged, faults>>
  BY <1>1, <1>2 DEF Inserted
<1>3. CASE Fault /\ logged' = logged \cup flight /\ table' \in {table, table \cup flight}
  BY <1>1, <1>3 DEF Inserted, Fault
<1> QED BY <1>2, <1>3 DEF Inserted

LEMMA InterruptedShape ==
  ASSUME NEW who, Interrupted(who)
  PROVE  /\ table \subseteq table' /\ table' \subseteq table \cup flight
         /\ flight' \subseteq flight /\ lock' \in {None, lock}
         /\ lock = who => flight' = {} /\ lock' = None
         /\ lock # who => flight' = flight /\ lock' = lock /\ table' = table
BY DEF Interrupted

\* What a step has to show for the shapes.
LEMMA ShapesKept ==
  ASSUME Shapes,
         bridge' \in {"connecting", "subscribing", "running", "signalled", "cancelled",
                      "unsubscribed", "closing", "stopped", "crashed"},
         nodeid_map' \subseteq live', live' \subseteq Nodes,
         sent' \subseteq Events, IsFiniteSet(sent'), sent \subseteq sent',
         queue' \in Seq(Events), Len(queue') <= QueueSize, ToSet(queue') \subseteq sent',
         unfinished' \in Nat,
         worker' \in [Workers -> Jobs],
         \A w \in Workers : worker'[w].event = None \/ worker'[w].event \in sent',
         buffer' \in Seq(Events), Len(buffer') < BatchSize, ToSet(buffer') \subseteq sent',
         lock' \in Workers \cup {None, Loop, Closer}, flight' \subseteq sent',
         stream' \subseteq Events, alarms' \subseteq Events, table' \subseteq Events,
         audit' \subseteq {"bridge_start", "bridge_stop"},
         logged' \subseteq sent', strangers' \subseteq logged', faults' \in 0..MaxFaults
  PROVE  Shapes'
<1>1. worker' \in [Workers -> [pc : {"get", "publish", "alarm", "push", "insert", "killed", "done"},
                               event : Events \cup {None}]]
  BY JobFields
<1>2. InHand' \subseteq sent'
  BY DEF InHand
<1>3. Held' \subseteq sent'
  BY <1>2 DEF Held
<1>4. flight' \subseteq Events
  OBVIOUS
<1> QED BY <1>1, <1>3, <1>4 DEF Shapes, BridgeTypes

LEMMA ShapesGive ==
  ASSUME Shapes
  PROVE  /\ ToSet(queue) \subseteq sent /\ ToSet(buffer) \subseteq sent /\ flight \subseteq sent
         /\ \A w \in Workers : worker[w].event = None \/ worker[w].event \in sent
         /\ worker \in [Workers -> Jobs] /\ IsFiniteSet(sent) /\ sent \subseteq Events
         /\ queue \in Seq(Events) /\ buffer \in Seq(Events) /\ unfinished \in Nat
         /\ Len(queue) <= QueueSize /\ Len(buffer) < BatchSize
         /\ BridgeTypes /\ table \subseteq Events /\ stream \subseteq Events /\ alarms \subseteq Events
         /\ lock \in Workers \cup {None, Loop, Closer} /\ strangers \subseteq logged /\ logged \subseteq sent
         /\ faults \in 0..MaxFaults
BY DEF Shapes, BridgeTypes, Held, InHand

LEMMA StartShapes ==
  ASSUME Shapes, Start \/ Signal \/ Unsubscribe \/ Stop
  PROVE  Shapes'
<1>1. /\ UNCHANGED <<sent, queue, unfinished, worker, buffer, lock, flight, stream, alarms, table, logged, strangers>>
      /\ bridge' \in {"subscribing", "crashed", "running", "signalled", "unsubscribed", "stopped"} \cup {bridge}
      /\ audit' \subseteq audit \cup {"bridge_start", "bridge_stop"}
      /\ \/ nodeid_map' = nodeid_map /\ live' = live
         \/ \E n \in Nodes : live' = live \cup {n} /\ nodeid_map' \in {nodeid_map, nodeid_map \cup {n}}
  BY DEF Start, Signal, Unsubscribe, Stop, Connect, ConnectFails, Running, Subscribe, SubscribeFails, intake, writer, sinks
<1>2. faults' = faults \/ Fault
  BY DEF Start, Signal, Unsubscribe, Stop, Connect, ConnectFails, Running, Subscribe, SubscribeFails
<1>3. faults' \in 0..MaxFaults
  BY <1>2, BridgeAssumption DEF Fault, Shapes, BridgeTypes
<1> QED BY <1>1, <1>3, ShapesGive, ShapesKept DEF BridgeTypes

LEMMA NotifyShapes ==
  ASSUME Shapes, NEW e \in Events, Notify(e)
  PROVE  /\ Shapes' /\ e \notin sent /\ sent' = sent \cup {e}
         /\ \/ /\ queue' = Append(queue, e) /\ unfinished' = unfinished + 1 /\ logged' = logged
               /\ ToSet(queue') = ToSet(queue) \cup {e} /\ Len(queue') = Len(queue) + 1
            \/ queue' = queue /\ unfinished' = unfinished /\ logged' = logged \cup {e}
<1>1. /\ UNCHANGED <<bridge, live, nodeid_map, worker, buffer, lock, flight, stream, alarms, table, audit, strangers, faults>>
      /\ e \notin sent /\ sent' = sent \cup {e}
  BY DEF Notify, writer, sinks
<1>2. IsFiniteSet(sent') /\ sent' \subseteq Events
  BY <1>1, ShapesGive, FS_AddElement
<1>3. CASE ~QueueFull /\ queue' = Append(queue, e) /\ unfinished' = unfinished + 1 /\ UNCHANGED logged
  <2>1. /\ ToSet(queue') = ToSet(queue) \cup {e}
        /\ queue' \in Seq(Events) /\ Len(queue') = Len(queue) + 1 /\ Len(queue) \in Nat
    BY <1>3, ShapesGive, ElementsAppend, ElementsIn
  <2>2. Len(queue') <= QueueSize
    BY <1>3, <2>1, BridgeAssumption DEF QueueFull
  <2> QED BY <1>1, <1>2, <1>3, <2>1, <2>2, ShapesGive, ShapesKept DEF BridgeTypes
<1>4. CASE QueueFull /\ logged' = logged \cup {e} /\ UNCHANGED <<queue, unfinished>>
  <2>1. Shapes'
    BY <1>1, <1>2, <1>4, ShapesGive, ShapesKept DEF BridgeTypes
  <2> QED BY <1>1, <1>4, <2>1
<1> QED BY <1>3, <1>4 DEF Notify

LEMMA TakeShapes ==
  ASSUME Shapes, NEW w \in Workers, Take(w)
  PROVE  /\ Shapes'
         /\ queue # <<>> /\ worker[w].event = None
         /\ Head(queue) \in Events /\ ToSet(queue) = {Head(queue)} \cup ToSet(queue') /\ Len(queue') = Len(queue) - 1
         /\ queue' = Tail(queue)
         /\ \/ /\ TaskDone(w, 2)
               /\ strangers' = strangers \cup {Head(queue)} /\ logged' = logged \cup {Head(queue)}
            \/ /\ worker' = [worker EXCEPT ![w] = [pc |-> "publish", event |-> Head(queue)]]
               /\ UNCHANGED <<unfinished, logged, strangers>>
<1> DEFINE e == Head(queue)
<1>1. /\ UNCHANGED <<bridge, live, nodeid_map, sent, buffer, lock, flight, stream, alarms, table, audit, faults>>
      /\ queue # <<>> /\ queue' = Tail(queue) /\ worker[w].pc = "get"
  BY DEF Take, intake, writer, sinks
<1>2. /\ e \in Events /\ queue' \in Seq(Events) /\ Len(queue') = Len(queue) - 1
      /\ ToSet(queue) = {e} \cup ToSet(queue') /\ Len(queue) \in Nat
  BY <1>1, ShapesGive, ElementsTail, ElementsIn
<1>3. Len(queue') <= QueueSize /\ e \in sent /\ ToSet(queue') \subseteq sent
  BY <1>2, ShapesGive, BridgeAssumption
<1>4. worker[w].event = None
  BY <1>1, ShapesGive, JobFields
<1> HIDE DEF e
<1>5. CASE TaskDone(w, 2) /\ strangers' = strangers \cup {e} /\ logged' = logged \cup {e}
  <2>1. /\ worker' \in [Workers -> Jobs] /\ unfinished' \in Nat
        /\ \A v \in Workers : worker'[v].event = None \/ worker'[v].event \in sent
    BY <1>5, ShapesGive, TaskDoneShape
  <2>2. Shapes'
    BY <1>1, <1>2, <1>3, <1>5, <2>1, ShapesGive, ShapesKept DEF BridgeTypes
  <2> QED BY <1>1, <1>2, <1>4, <1>5, <2>2 DEF e
<1>6. CASE /\ worker' = [worker EXCEPT ![w] = [pc |-> "publish", event |-> e]]
           /\ UNCHANGED <<unfinished, logged, strangers>>
  <2>1. [pc |-> "publish", event |-> e] \in Jobs
    BY <1>2 DEF Jobs
  <2>2. /\ worker' \in [Workers -> Jobs]
        /\ \A v \in Workers : worker'[v].event = None \/ worker'[v].event \in sent
    BY <1>3, <1>6, <2>1, ShapesGive
  <2>3. Shapes'
    BY <1>1, <1>2, <1>3, <1>6, <2>2, ShapesGive, ShapesKept DEF BridgeTypes
  <2> QED BY <1>1, <1>2, <1>4, <1>6, <2>3 DEF e
<1> QED BY <1>5, <1>6 DEF Take, e

\* A worker that sends its event on keeps it.
LEMMA SendShapes ==
  ASSUME Shapes, NEW w \in Workers, Publish(w) \/ PublishAlarm(w)
  PROVE  /\ Shapes'
         /\ worker'[w].event = worker[w].event /\ worker[w].event \in Events
         /\ \A v \in Workers \ {w} : worker'[v] = worker[v]
<1>1. /\ UNCHANGED <<bridge, live, nodeid_map, sent, queue, unfinished, buffer, lock, flight, table, audit,
                     logged, strangers, faults>>
      /\ worker[w].pc \in {"publish", "alarm"}
      /\ \E pc \in {"alarm", "push"} : worker' = [worker EXCEPT ![w].pc = pc]
      /\ stream' \subseteq stream \cup {worker[w].event} /\ alarms' \subseteq alarms \cup {worker[w].event}
  BY DEF Publish, PublishAlarm, NextSink, intake, writer
<1>2. PICK pc \in {"alarm", "push"} : worker' = [worker EXCEPT ![w] = [worker[w] EXCEPT !.pc = pc]]
  BY <1>1
<1>3. [worker[w] EXCEPT !.pc = pc] \in Jobs /\ worker[w].event \in Events
  BY <1>1, ShapesGive, JobFields
<1>4. /\ worker' \in [Workers -> Jobs] /\ worker'[w].event = worker[w].event
      /\ \A v \in Workers \ {w} : worker'[v] = worker[v]
  <2>1. worker[w] \in Jobs /\ worker \in [Workers -> Jobs]
    BY ShapesGive
  <2>2. worker[w] \in [pc : {"get", "publish", "alarm", "push", "insert", "killed", "done"}, event : Events \cup {None}]
    BY <2>1, JobFields
  <2>3. [worker[w] EXCEPT !.pc = pc].event = worker[w].event
    BY <2>2
  <2> QED BY <1>2, <1>3, <2>1, <2>3
<1>5. \A v \in Workers : worker'[v].event = None \/ worker'[v].event \in sent
  BY <1>4, ShapesGive
<1>6. Shapes'
  BY <1>1, <1>3, <1>4, <1>5, ShapesGive, ShapesKept DEF BridgeTypes
<1> QED BY <1>3, <1>4, <1>6

LEMMA PublishFailsShapes ==
  ASSUME Shapes, NEW w \in Workers, PublishFails(w)
  PROVE  Shapes' /\ worker[w].event \in Events
<1>1. /\ UNCHANGED <<bridge, live, nodeid_map, sent, queue, buffer, lock, flight, table, audit, strangers>>
      /\ worker[w].pc \in {"publish", "alarm"} /\ Fault /\ TaskDone(w, 1)
      /\ stream' \subseteq stream \cup {worker[w].event} /\ alarms' \subseteq alarms \cup {worker[w].event}
      /\ logged' = logged \cup {worker[w].event}
  BY DEF PublishFails, intake, writer
<1>2. /\ worker' \in [Workers -> Jobs] /\ unfinished' \in Nat
      /\ \A v \in Workers : worker'[v].event = None \/ worker'[v].event \in sent
  BY <1>1, ShapesGive, TaskDoneShape
<1>3. worker[w].event \in Events
  BY <1>1, ShapesGive, JobFields
<1>4. worker[w].event \in sent /\ faults' \in 0..MaxFaults
  BY <1>1, <1>3, ShapesGive, BridgeAssumption DEF Fault
<1>5. Shapes'
  BY <1>1, <1>2, <1>3, <1>4, ShapesGive, ShapesKept DEF BridgeTypes
<1> QED BY <1>3, <1>5

LEMMA PushShapes ==
  ASSUME Shapes, NEW w \in Workers, Push(w)
  PROVE  /\ Shapes' /\ worker[w].event \in Events
         /\ \/ /\ TaskDone(w, 1) /\ UNCHANGED <<lock, flight>>
               /\ ToSet(buffer') = ToSet(buffer) \cup {worker[w].event} /\ Len(buffer') = Len(buffer) + 1
            \/ /\ buffer' = <<>> /\ flight' = ToSet(buffer) \cup {worker[w].event} /\ lock' = w
               /\ worker'[w].pc = "insert" /\ worker'[w].event = worker[w].event
               /\ \A v \in Workers \ {w} : worker'[v] = worker[v]
               /\ Cardinality(flight') <= BatchSize /\ UNCHANGED unfinished
<1> DEFINE e == worker[w].event
           filled == Append(buffer, e)
<1>1. /\ UNCHANGED <<bridge, live, nodeid_map, sent, queue, stream, alarms, table, audit, logged, strangers, faults>>
      /\ worker[w].pc = "push" /\ lock = None
  BY DEF Push, intake, sinks
<1>2. e \in Events /\ e \in sent
  BY <1>1, ShapesGive, JobFields, BridgeAssumption
<1>3. /\ ToSet(filled) = ToSet(buffer) \cup {e} /\ filled \in Seq(Events) /\ Len(filled) = Len(buffer) + 1
      /\ Cardinality(ToSet(filled)) <= Len(filled) /\ Len(buffer) \in Nat /\ IsFiniteSet(ToSet(filled))
      /\ Cardinality(ToSet(filled)) \in Nat
  <2> HIDE DEF e
  <2>1. /\ ToSet(filled) = ToSet(buffer) \cup {e} /\ filled \in Seq(Events) /\ Len(filled) = Len(buffer) + 1
    BY <1>2, ShapesGive, ElementsAppend
  <2> HIDE DEF filled
  <2> QED BY <2>1, ShapesGive, ElementsIn
<1>4. CASE ~Full(filled) /\ buffer' = filled /\ TaskDone(w, 1) /\ UNCHANGED <<lock, flight>>
  <2>1. /\ worker' \in [Workers -> Jobs] /\ unfinished' \in Nat
        /\ \A v \in Workers : worker'[v].event = None \/ worker'[v].event \in sent
    BY <1>4, ShapesGive, TaskDoneShape
  <2> HIDE DEF filled, e
  <2>2. Len(filled) < BatchSize
    BY <1>3, <1>4, BridgeAssumption DEF Full
  <2>3. Shapes'
    BY <1>1, <1>2, <1>3, <1>4, <2>1, <2>2, ShapesGive, ShapesKept DEF BridgeTypes
  <2> QED BY <1>2, <1>3, <1>4, <2>3 DEF e
<1>5. CASE /\ Full(filled) /\ buffer' = <<>> /\ flight' = ToSet(filled) /\ lock' = w
           /\ worker' = [worker EXCEPT ![w].pc = "insert"] /\ UNCHANGED unfinished
  <2>1. /\ worker[w] \in Jobs /\ worker \in [Workers -> Jobs]
        /\ worker[w] \in [pc : {"get", "publish", "alarm", "push", "insert", "killed", "done"},
                          event : Events \cup {None}]
        /\ [worker[w] EXCEPT !.pc = "insert"] \in Jobs
    BY <1>1, ShapesGive, JobFields
  <2>2. /\ worker' \in [Workers -> Jobs] /\ worker'[w].event = e /\ worker'[w].pc = "insert"
        /\ \A v \in Workers \ {w} : worker'[v] = worker[v]
    BY <1>5, <2>1
  <2>3. \A v \in Workers : worker'[v].event = None \/ worker'[v].event \in sent
    BY <1>2, <2>2, ShapesGive
  <2>4. Len(buffer') = 0 /\ buffer' \in Seq(Events) /\ ToSet(buffer') = {}
    BY <1>5 DEF ToSet
  <2> HIDE DEF filled, e
  <2>5. Shapes'
    BY <1>1, <1>2, <1>3, <1>5, <2>2, <2>3, <2>4, ShapesGive, ShapesKept, BridgeAssumption DEF BridgeTypes
  <2>6. Cardinality(flight') <= BatchSize
    <3>1. PICK a \in Nat, b \in Nat : a = Len(filled) /\ b = Cardinality(ToSet(filled)) /\ a <= BatchSize
      BY <1>3, ShapesGive, BridgeAssumption
    <3> QED BY <1>3, <1>5, <3>1, BridgeAssumption
  <2> QED BY <1>2, <1>3, <1>5, <2>2, <2>5, <2>6 DEF e
<1> QED BY <1>4, <1>5 DEF Push

LEMMA InsertShapes ==
  ASSUME Shapes, \/ \E w \in Workers : WorkerInserted(w)
                 \/ LoopInserted \/ FinalInserted
  PROVE  Shapes'
<1>1. PICK who \in Workers \cup {Loop, Closer} :
        /\ Inserted(who)
        /\ \/ who \in Workers /\ TaskDone(who, 1)
           \/ who \notin Workers /\ UNCHANGED <<worker, unfinished>>
        /\ UNCHANGED <<bridge, live, nodeid_map, sent, queue, buffer, stream, alarms, audit, strangers>>
  BY BridgeAssumption DEF WorkerInserted, LoopInserted, FinalInserted, intake
<1>2. /\ table' \subseteq Events /\ logged' \subseteq sent /\ strangers \subseteq logged' /\ faults' \in 0..MaxFaults
      /\ lock' = None /\ flight' = {}
  BY <1>1, ShapesGive, InsertedShape
<1>3. /\ worker' \in [Workers -> Jobs] /\ unfinished' \in Nat
      /\ \A v \in Workers : worker'[v].event = None \/ worker'[v].event \in sent
  BY <1>1, ShapesGive, TaskDoneShape
<1> QED BY <1>1, <1>2, <1>3, ShapesGive, ShapesKept DEF BridgeTypes

LEMMA FlushShapes ==
  ASSUME Shapes, LoopFlush \/ FinalFlush
  PROVE  /\ Shapes' /\ Cardinality(flight') < BatchSize
         /\ lock = None /\ buffer' = <<>> /\ flight' = ToSet(buffer) /\ lock' \in {Loop, Closer}
<1>1. /\ lock = None /\ buffer' = <<>> /\ flight' = ToSet(buffer) /\ lock' \in {Loop, Closer}
      /\ UNCHANGED <<bridge, live, nodeid_map, sent, queue, unfinished, worker, stream, alarms, table, audit,
                     logged, strangers, faults>>
  BY DEF LoopFlush, FinalFlush, intake, sinks
<1>2. Len(buffer') = 0 /\ buffer' \in Seq(Events) /\ ToSet(buffer') = {}
  BY <1>1 DEF ToSet
<1>3. Shapes'
  BY <1>1, <1>2, ShapesGive, ShapesKept, BridgeAssumption DEF BridgeTypes
<1>4. Cardinality(ToSet(buffer)) <= Len(buffer) /\ Len(buffer) < BatchSize /\ Len(buffer) \in Nat
      /\ Cardinality(ToSet(buffer)) \in Nat
  BY ShapesGive, ElementsIn
<1>5. Cardinality(flight') < BatchSize
  BY <1>1, <1>4, BridgeAssumption
<1> QED BY <1>1, <1>3, <1>5

LEMMA StopShapes ==
  ASSUME Shapes, CancelWorkers \/ UnsubscribeFails \/ CancelLoop
  PROVE  Shapes'
<1>1. \/ worker' = worker /\ unfinished' = unfinished /\ stream' = stream /\ alarms' = alarms
      \/ CancelWorkers
  BY DEF UnsubscribeFails, CancelLoop
<1>2. /\ UNCHANGED <<live, nodeid_map, sent, queue, buffer, audit, logged, strangers>>
      /\ bridge' \in {"cancelled", "crashed", "closing"}
      /\ \E who : Interrupted(who)
  BY DEF CancelWorkers, UnsubscribeFails, CancelLoop, intake
<1>3. faults' = faults \/ Fault
  BY DEF CancelWorkers, UnsubscribeFails, CancelLoop
<1>4. faults' \in 0..MaxFaults
  BY <1>3, ShapesGive, BridgeAssumption DEF Fault
<1>5. table' \subseteq Events /\ flight' \subseteq flight /\ lock' \in {None, lock}
  BY <1>2, ShapesGive, InterruptedShape
<1>6. /\ worker' \in [Workers -> Jobs] /\ unfinished' \in Nat
      /\ \A v \in Workers : worker'[v].event = None \/ worker'[v].event \in sent
      /\ stream' \subseteq Events /\ alarms' \subseteq Events
  <2>1. CASE CancelWorkers
    <3>1. \A w \in Workers : worker'[w] \in Jobs /\ worker'[w].event = None
      <4>1. \A w \in Workers : worker[w].pc = "killed" => worker[w].event = None
        BY ShapesGive, JobFields
      <4> QED BY <2>1, <4>1, ShapesGive, JobsOver DEF CancelWorkers
    <3>2. worker' \in [Workers -> Jobs]
      BY <2>1, <3>1 DEF CancelWorkers
    <3>3. unfinished' \in Nat
      <4>1. Cardinality(InHand) \in Nat
        BY ShapesGive, InHandIs
      <4> QED BY <2>1, <4>1, ShapesGive DEF CancelWorkers
    <3>4. stream' \subseteq Events /\ alarms' \subseteq Events
      <4>1. \A w \in Workers : worker[w].pc \in {"publish", "alarm"} => worker[w].event \in Events
        BY ShapesGive, JobFields
      <4> QED BY <2>1, <4>1, ShapesGive DEF CancelWorkers
    <3> QED BY <3>1, <3>2, <3>3, <3>4
  <2>2. CASE worker' = worker /\ unfinished' = unfinished /\ stream' = stream /\ alarms' = alarms
    BY <2>2, ShapesGive
  <2> QED BY <1>1, <2>1, <2>2
<1> QED BY <1>2, <1>4, <1>5, <1>6, ShapesGive, ShapesKept DEF BridgeTypes

LEMMA ShapesHold ==
  ASSUME Shapes, [BridgeNext]_bridgevars
  PROVE  Shapes'
<1>1. ASSUME NEW w \in Workers, Poll(w)
      PROVE  Shapes'
  <2>1. /\ UNCHANGED <<bridge, live, nodeid_map, sent, queue, unfinished, buffer, lock, flight, stream, alarms, table,
                       audit, logged, strangers, faults>>
        /\ worker' = [worker EXCEPT ![w] = Over("done")]
    BY <1>1 DEF Poll, intake, writer, sinks
  <2>2. /\ worker' \in [Workers -> Jobs]
        /\ \A v \in Workers : worker'[v].event = None \/ worker'[v].event \in sent
    BY <2>1, ShapesGive, JobsOver
  <2> QED BY <2>1, <2>2, ShapesGive, ShapesKept DEF BridgeTypes
<1>2. CASE UNCHANGED bridgevars
  BY <1>2, ShapesGive, ShapesKept DEF BridgeTypes, bridgevars
<1> QED BY <1>1, <1>2, StartShapes, NotifyShapes, TakeShapes, SendShapes, PublishFailsShapes, PushShapes, InsertShapes,
           FlushShapes, StopShapes DEF BridgeNext, Shutdown, LoopStep, WorkerStep

-----------------------------------------------------------------------------
(* Who holds the writer's lock, and how large its batch is.                *)

Locks ==
  /\ lock = None => flight = {}
  /\ lock # None => buffer = <<>>
  /\ lock \in Workers => /\ worker[lock].pc = "insert" /\ worker[lock].event \in flight
                         /\ Cardinality(flight) <= BatchSize /\ Up
  /\ lock \in {Loop, Closer} => Cardinality(flight) < BatchSize
  /\ lock = Closer => bridge = "closing"
  /\ \A w \in Workers : worker[w].pc = "insert" => lock = w

LEMMA LocksHold ==
  ASSUME Shapes, Locks, [BridgeNext]_bridgevars
  PROVE  Locks'
<1>0. /\ worker \in [Workers -> Jobs] /\ {None, Loop, Closer} \cap Workers = {}
      /\ None # Loop /\ None # Closer /\ Loop # Closer
  BY ShapesGive, BridgeAssumption
<1>1. ASSUME UNCHANGED <<lock, flight, buffer>>,
             \A w \in Workers : worker'[w].pc = "insert" => worker[w].pc = "insert",
             lock \in Workers => worker'[lock] = worker[lock] /\ bridge' \in {"running", "signalled"},
             lock = Closer => bridge' = "closing"
      PROVE  Locks'
  BY <1>1 DEF Locks, Up
<1>2. CASE Start \/ Signal \/ Unsubscribe \/ Stop
  <2>1. UNCHANGED <<lock, flight, buffer, worker>>
    BY <1>2 DEF Start, Signal, Unsubscribe, Stop, Connect, ConnectFails, Running, Subscribe, SubscribeFails, writer
  <2>2. lock \in Workers => bridge' \in {"running", "signalled"}
    BY <1>0, <1>2 DEF Locks, Up, Start, Signal, Unsubscribe, Stop, Connect, ConnectFails, Running, Subscribe, SubscribeFails
  <2>3. lock = Closer => bridge' = "closing"
    BY <1>0, <1>2 DEF Locks, Start, Signal, Unsubscribe, Stop, Connect, ConnectFails, Running, Subscribe, SubscribeFails
  <2> QED BY <1>1, <2>1, <2>2, <2>3
<1>3. ASSUME NEW e \in Events, Notify(e)
      PROVE  Locks'
  BY <1>3 DEF Notify, Locks, Up, writer
<1>4. ASSUME NEW w \in Workers, Take(w) \/ Poll(w) \/ PublishFails(w)
      PROVE  Locks'
  <2>1. UNCHANGED <<bridge, lock, flight, buffer>> /\ worker[w].pc # "insert"
    BY <1>4 DEF Take, Poll, PublishFails, writer
  <2>2. worker'[w].pc # "insert" /\ \A v \in Workers \ {w} : worker'[v] = worker[v]
    BY <1>0, <1>4, ShapesGive, TaskDoneShape, JobsOver DEF Take, Poll, PublishFails
  <2> QED BY <1>1, <2>1, <2>2 DEF Locks, Up
<1>5. ASSUME NEW w \in Workers, Publish(w) \/ PublishAlarm(w)
      PROVE  Locks'
  <2>1. /\ UNCHANGED <<bridge, lock, flight, buffer>> /\ worker[w].pc # "insert"
        /\ \E pc \in {"alarm", "push"} : worker' = [worker EXCEPT ![w].pc = pc]
    BY <1>5 DEF Publish, PublishAlarm, NextSink, writer
  <2>2. worker'[w].pc # "insert" /\ \A v \in Workers \ {w} : worker'[v] = worker[v]
    <3>1. worker[w] \in [pc : {"get", "publish", "alarm", "push", "insert", "killed", "done"},
                         event : Events \cup {None}]
      BY <1>0, JobFields
    <3> QED BY <1>0, <2>1, <3>1
  <2> QED BY <1>1, <2>1, <2>2 DEF Locks, Up
<1>6. ASSUME NEW w \in Workers, Push(w)
      PROVE  Locks'
  <2>1. worker[w].pc # "insert" /\ lock = None /\ Up /\ bridge' = bridge
    BY <1>6 DEF Push
  <2>2. CASE TaskDone(w, 1) /\ UNCHANGED <<lock, flight>>
    <3>1. worker'[w].pc # "insert" /\ \A v \in Workers \ {w} : worker'[v] = worker[v]
      BY <1>0, <2>2, ShapesGive, TaskDoneShape
    <3> QED BY <1>0, <2>1, <2>2, <3>1 DEF Locks
  <2>3. CASE /\ buffer' = <<>> /\ flight' = ToSet(buffer) \cup {worker[w].event} /\ lock' = w
             /\ worker'[w].pc = "insert" /\ worker'[w].event = worker[w].event
             /\ \A v \in Workers \ {w} : worker'[v] = worker[v]
             /\ Cardinality(flight') <= BatchSize
    BY <1>0, <2>1, <2>3 DEF Locks, Up
  <2> QED BY <1>6, <2>2, <2>3, PushShapes
<1>7. ASSUME NEW w \in Workers, WorkerInserted(w)
      PROVE  Locks'
  <2>1. lock = w /\ lock' = None /\ flight' = {} /\ TaskDone(w, 1)
    BY <1>7 DEF WorkerInserted, Inserted
  <2>2. worker'[w].pc # "insert" /\ \A v \in Workers \ {w} : worker'[v] = worker[v]
    BY <1>0, <2>1, ShapesGive, TaskDoneShape
  <2> QED BY <1>0, <2>1, <2>2 DEF Locks
<1>8. CASE LoopInserted \/ FinalInserted
  <2>1. lock' = None /\ flight' = {} /\ lock \notin Workers /\ worker' = worker
    BY <1>0, <1>8 DEF LoopInserted, FinalInserted, Inserted
  <2> QED BY <1>0, <2>1 DEF Locks
<1>9. CASE LoopFlush \/ FinalFlush
  <2>1. worker' = worker /\ bridge' = bridge /\ (lock' = Closer => bridge = "closing")
    BY <1>0, <1>9 DEF LoopFlush, FinalFlush
  <2>2. /\ Cardinality(flight') < BatchSize
        /\ lock = None /\ buffer' = <<>> /\ lock' \in {Loop, Closer}
    BY <1>9, FlushShapes
  <2> QED BY <1>0, <2>1, <2>2 DEF Locks
<1>10. CASE CancelWorkers
  <2>1. \A w \in Workers : worker'[w].pc # "insert"
    BY <1>10, JobsOver DEF CancelWorkers
  <2>2. lock \in Workers => lock' = None /\ flight' = {}
    BY <1>10 DEF CancelWorkers, Interrupted
  <2>3. lock \notin Workers => lock' = lock /\ flight' = flight
    BY <1>0, <1>10 DEF CancelWorkers, Interrupted, Locks
  <2>4. buffer' = buffer /\ lock # Closer
    BY <1>0, <1>10 DEF CancelWorkers, Locks
  <2> QED BY <1>0, <2>1, <2>2, <2>3, <2>4 DEF Locks
<1>11. CASE UnsubscribeFails \/ CancelLoop
  <2>1. /\ worker' = worker /\ buffer' = buffer /\ Interrupted(Loop)
        /\ lock \notin Workers /\ lock # Closer
    BY <1>0, <1>11 DEF UnsubscribeFails, CancelLoop, Locks, Up
  <2>2. (lock' = None /\ flight' = {}) \/ (lock' = lock /\ flight' = flight /\ lock = None)
    BY <1>0, <2>1, ShapesGive DEF Interrupted
  <2> QED BY <1>0, <2>1, <2>2 DEF Locks
<1>12. CASE UNCHANGED bridgevars
  BY <1>12 DEF bridgevars, Locks, Up
<1> QED BY <1>2, <1>3, <1>4, <1>5, <1>6, <1>7, <1>8, <1>9, <1>10, <1>11, <1>12
        DEF BridgeNext, Shutdown, LoopStep, WorkerStep

-----------------------------------------------------------------------------
(* Where each event is.                                                    *)

Early == bridge \in {"connecting", "subscribing", "running", "signalled"}
MayLose == Cardinality(Unaccounted) + Cardinality(ToSet(buffer)) + Cardinality(flight)
Accounted ==
  /\ bridge = "connecting" => sent = {}
  /\ Early => Unaccounted = {}
  /\ ~Early => MayLose <= Cardinality(Workers) + BatchSize - 1

LEMMA LossesCount ==
  ASSUME Shapes
  PROVE  /\ IsFiniteSet(Unaccounted) /\ IsFiniteSet(ToSet(buffer)) /\ IsFiniteSet(flight)
         /\ Cardinality(Unaccounted) \in Nat /\ Cardinality(ToSet(buffer)) \in Nat /\ Cardinality(flight) \in Nat
         /\ Cardinality(Workers) \in Nat /\ BatchSize \in Nat \ {0}
<1>1. IsFiniteSet(Unaccounted) /\ IsFiniteSet(ToSet(buffer)) /\ IsFiniteSet(flight)
  BY ShapesGive, FS_Subset DEF Unaccounted
<1> QED BY <1>1, BridgeAssumption, FS_CardinalityType

\* A step that only finds events a new place loses none.
LEMMA AccountedKept ==
  ASSUME Shapes, Shapes', Accounted,
         bridge' = "connecting" => sent' = {},
         Early <=> Early',
         Unaccounted' \subseteq Unaccounted,
         \/ Early
         \/ buffer' = buffer /\ flight' \subseteq flight
         \/ ToSet(buffer') = {} /\ flight' \subseteq ToSet(buffer)
  PROVE  Accounted'
<1>1. /\ Cardinality(Unaccounted') <= Cardinality(Unaccounted)
      /\ Cardinality(Unaccounted') \in Nat /\ Cardinality(Unaccounted) \in Nat
      /\ Cardinality(ToSet(buffer)) \in Nat /\ Cardinality(flight) \in Nat /\ Cardinality(Workers) \in Nat
      /\ BatchSize \in Nat
  BY LossesCount, FS_Subset, FS_CardinalityType
<1>2. CASE Early
  BY <1>2 DEF Accounted
<1>3. CASE ~Early
  <2>1. CASE buffer' = buffer /\ flight' \subseteq flight
    <3>1. Cardinality(flight') <= Cardinality(flight) /\ Cardinality(flight') \in Nat
      BY <2>1, LossesCount, FS_Subset, FS_CardinalityType
    <3>2. MayLose' <= MayLose /\ MayLose' \in Nat /\ MayLose \in Nat
      BY <1>1, <2>1, <3>1 DEF MayLose
    <3> QED BY <1>1, <1>3, <3>2 DEF Accounted
  <2>2. CASE ToSet(buffer') = {} /\ flight' \subseteq ToSet(buffer)
    <3>1. Cardinality(flight') <= Cardinality(ToSet(buffer)) /\ Cardinality(flight') \in Nat
      BY <2>2, LossesCount, FS_Subset, FS_CardinalityType
    <3>2. Cardinality(ToSet(buffer)') = 0
      BY <2>2, FS_EmptySet
    <3>3. MayLose' <= MayLose /\ MayLose' \in Nat /\ MayLose \in Nat
      BY <1>1, <3>1, <3>2 DEF MayLose
    <3> QED BY <1>1, <1>3, <3>3 DEF Accounted
  <2> QED BY <1>3, <2>1, <2>2
<1> QED BY <1>2, <1>3

LEMMA AccountedStays ==
  ASSUME Shapes, Shapes', Accounted, bridge' = bridge, bridge # "connecting",
         Unaccounted' \subseteq Unaccounted,
         \/ Early
         \/ buffer' = buffer /\ flight' \subseteq flight
         \/ ToSet(buffer') = {} /\ flight' \subseteq ToSet(buffer)
  PROVE  Accounted'
<1>1. Early' <=> Early
  BY DEF Early
<1>2. bridge' # "connecting"
  OBVIOUS
<1> QED BY <1>1, <1>2, AccountedKept

\* A worker that lets go of its event takes no other's.
LEMMA HandsLess ==
  ASSUME Shapes, NEW w \in Workers, worker'[w].event = None, \A v \in Workers \ {w} : worker'[v] = worker[v]
  PROVE  InHand \subseteq InHand' \cup {worker[w].event}
BY DEF InHand

LEMMA HandsKept ==
  ASSUME Shapes, \A v \in Workers : worker'[v].event = worker[v].event
  PROVE  InHand' = InHand
BY DEF InHand

LEMMA CancelLoses ==
  ASSUME Shapes, Shapes', Locks, Accounted, CancelWorkers
  PROVE  Accounted'
<1>1. /\ UNCHANGED <<sent, queue, buffer, logged>> /\ bridge = "signalled" /\ bridge' = "cancelled"
      /\ Interrupted(IF lock \in Workers THEN lock ELSE Closer)
  BY DEF CancelWorkers, intake
<1>2. Unaccounted = {}
  BY <1>1 DEF Accounted, Early
<1>3. /\ InHand \in SUBSET Events /\ IsFiniteSet(InHand) /\ Cardinality(InHand) \in Nat
      /\ Cardinality(InHand) <= Cardinality(Workers) /\ Cardinality(Workers) \in Nat /\ BatchSize \in Nat \ {0}
      /\ IsFiniteSet(flight) /\ Cardinality(flight) \in Nat /\ IsFiniteSet(ToSet(buffer))
      /\ Cardinality(ToSet(buffer)) \in Nat /\ Cardinality(ToSet(buffer)) < BatchSize
  <2>1. Cardinality(ToSet(buffer)) <= Len(buffer) /\ Len(buffer) < BatchSize /\ Len(buffer) \in Nat
    BY ShapesGive, ElementsIn
  <2>2. Cardinality(ToSet(buffer)) < BatchSize
    BY <2>1, LossesCount
  <2> QED BY <2>2, ShapesGive, InHandIs, LossesCount
<1>4. CASE lock \in Workers
  <2>1. flight' = {} /\ table \subseteq table' /\ buffer = <<>>
    BY <1>1, <1>4, InterruptedShape, BridgeAssumption DEF Locks
  <2>2. worker[lock].event \in flight /\ Cardinality(flight) <= BatchSize
    BY <1>4 DEF Locks
  <2>3. Unaccounted' \subseteq (InHand \ {worker[lock].event}) \cup flight
    BY <1>1, <1>2, <2>1, <2>2 DEF Unaccounted, Held
  <2>4. worker[lock].event \in InHand
    BY <1>4, <2>2, ShapesGive, BridgeAssumption DEF InHand
  <2>5. /\ IsFiniteSet(InHand \ {worker[lock].event})
        /\ Cardinality(InHand \ {worker[lock].event}) = Cardinality(InHand) - 1
    BY <1>3, <2>4, FS_RemoveElement, FS_Subset
  <2>6. /\ IsFiniteSet((InHand \ {worker[lock].event}) \cup flight)
        /\ Cardinality((InHand \ {worker[lock].event}) \cup flight)
             <= Cardinality(InHand \ {worker[lock].event}) + Cardinality(flight)
        /\ Cardinality((InHand \ {worker[lock].event}) \cup flight) \in Nat
    <3> DEFINE A == InHand \ {worker[lock].event}
    <3>1. IsFiniteSet(A) /\ IsFiniteSet(flight)
      BY <1>3, <2>5
    <3> HIDE DEF A
    <3>2. IsFiniteSet(A \cup flight) /\ Cardinality(A \cup flight) = Cardinality(A) + Cardinality(flight) - Cardinality(A \cap flight)
      BY <3>1, FS_Union
    <3>3. Cardinality(A \cap flight) \in Nat /\ Cardinality(A) \in Nat /\ Cardinality(A \cup flight) \in Nat
      <4>1. IsFiniteSet(A \cap flight)
        BY <3>1, FS_Subset
      <4> QED BY <3>1, <3>2, <4>1, FS_CardinalityType
    <3>4. Cardinality(A \cup flight) <= Cardinality(A) + Cardinality(flight)
      BY <1>3, <3>2, <3>3
    <3> QED BY <3>2, <3>3, <3>4 DEF A
  <2>7. /\ Cardinality(Unaccounted') <= Cardinality((InHand \ {worker[lock].event}) \cup flight)
        /\ Cardinality(Unaccounted') \in Nat
    BY <2>3, <2>6, FS_Subset, FS_CardinalityType
  <2>8. Cardinality(ToSet(buffer)') = 0 /\ Cardinality(flight') = 0
    <3>1. ToSet(buffer)' = {}
      BY <1>1, <2>1 DEF ToSet
    <3> QED BY <2>1, <3>1, FS_EmptySet
  <2>9. MayLose' <= Cardinality(Workers) + BatchSize - 1
    <3>1. PICK u \in Nat, h \in Nat, b \in Nat : u = Cardinality(Unaccounted') /\ h = Cardinality(InHand) /\ b = Cardinality(flight)
      BY <1>3, <2>7
    <3>2. u <= (h - 1) + b
      <4>1. PICK c \in Nat : c = Cardinality((InHand \ {worker[lock].event}) \cup flight)
        BY <2>6
      <4> QED BY <2>5, <2>6, <2>7, <3>1, <4>1
    <3> QED BY <1>3, <2>2, <2>8, <3>1, <3>2 DEF MayLose
  <2> QED BY <1>1, <2>9 DEF Accounted, Early
<1>5. CASE lock \notin Workers
  <2>1. lock # Closer /\ flight' = flight /\ table' = table
    BY <1>1, <1>5, InterruptedShape DEF Locks
  <2>2. Unaccounted' \subseteq InHand
    BY <1>1, <1>2, <2>1 DEF Unaccounted, Held
  <2>3. Cardinality(Unaccounted') <= Cardinality(InHand) /\ Cardinality(Unaccounted') \in Nat
    BY <1>3, <2>2, FS_Subset, FS_CardinalityType
  <2>4. Cardinality(ToSet(buffer)) + Cardinality(flight) <= BatchSize - 1
    <3>1. CASE lock = None
      <4>1. Cardinality(flight) = 0
        BY <3>1, FS_EmptySet DEF Locks
      <4> QED BY <1>3, <4>1
    <3>2. CASE lock # None
      <4>1. Cardinality(flight) < BatchSize /\ buffer = <<>>
        BY <1>5, <2>1, <3>2, ShapesGive DEF Locks
      <4>2. ToSet(buffer) = {}
        BY <4>1 DEF ToSet
      <4>3. Cardinality(ToSet(buffer)) = 0
        BY <4>2, FS_EmptySet
      <4> QED BY <1>3, <4>1, <4>3
    <3> QED BY <3>1, <3>2
  <2>5. MayLose' <= Cardinality(Workers) + BatchSize - 1
    <3>1. MayLose' = Cardinality(Unaccounted') + Cardinality(ToSet(buffer)) + Cardinality(flight)
      BY <1>1, <2>1 DEF MayLose
    <3> QED BY <1>3, <2>3, <2>4, <3>1
  <2> QED BY <1>1, <2>5 DEF Accounted, Early
<1> QED BY <1>4, <1>5

\* The loop's statement interrupted: its batch may be lost, and counts already.
LEMMA LoopLoses ==
  ASSUME Shapes, Shapes', Locks, Accounted, UnsubscribeFails \/ CancelLoop
  PROVE  Accounted'
<1>1. /\ UNCHANGED <<sent, queue, worker, buffer, logged>> /\ ~Early /\ ~Early' /\ Interrupted(Loop)
      /\ bridge' # "connecting"
  BY DEF UnsubscribeFails, CancelLoop, intake, Early
<1>2. table \subseteq table' /\ (flight' = flight \/ flight' = {})
  BY <1>1, InterruptedShape
<1>3. CASE flight' = flight
  <2>1. Unaccounted' \subseteq Unaccounted
    BY <1>1, <1>2, <1>3 DEF Unaccounted, Held, InHand
  <2> QED BY <1>1, <1>3, <2>1, AccountedKept
<1>4. CASE flight' = {}
  <2>1. Unaccounted' \subseteq Unaccounted \cup flight
    BY <1>1, <1>2, <1>4 DEF Unaccounted, Held, InHand
  <2>2. Cardinality(Unaccounted') <= Cardinality(Unaccounted) + Cardinality(flight) /\ Cardinality(Unaccounted') \in Nat
    <3>1. IsFiniteSet(Unaccounted) /\ IsFiniteSet(flight)
      BY LossesCount
    <3>2. IsFiniteSet(Unaccounted \cup flight)
          /\ Cardinality(Unaccounted \cup flight)
               = Cardinality(Unaccounted) + Cardinality(flight) - Cardinality(Unaccounted \cap flight)
      BY <3>1, FS_Union
    <3>3. /\ Cardinality(Unaccounted \cap flight) \in Nat /\ Cardinality(Unaccounted \cup flight) \in Nat
          /\ Cardinality(Unaccounted') <= Cardinality(Unaccounted \cup flight) /\ Cardinality(Unaccounted') \in Nat
      <4>1. IsFiniteSet(Unaccounted \cap flight)
        BY <3>1, FS_Subset
      <4> QED BY <2>1, <3>2, <4>1, FS_Subset, FS_CardinalityType
    <3> QED BY <3>2, <3>3, LossesCount
  <2>3. Cardinality(flight') = 0
    BY <1>4, FS_EmptySet
  <2>4. MayLose' <= MayLose /\ MayLose' \in Nat /\ MayLose \in Nat
    BY <1>1, <2>2, <2>3, LossesCount DEF MayLose
  <2> QED BY <1>1, <2>4, LossesCount DEF Accounted
<1> QED BY <1>2, <1>3, <1>4

LEMMA AccountedHold ==
  ASSUME Shapes, Shapes', Locks, Accounted, [BridgeNext]_bridgevars
  PROVE  Accounted'
<1>0. worker \in [Workers -> Jobs] /\ None # Loop /\ {None, Loop, Closer} \cap Workers = {}
  BY ShapesGive, BridgeAssumption
<1>1. CASE Start \/ Signal \/ Unsubscribe \/ Stop
  <2>1. UNCHANGED <<sent, queue, worker, buffer, flight, table, logged>>
    BY <1>1 DEF Start, Signal, Unsubscribe, Stop, Connect, ConnectFails, Running, Subscribe, SubscribeFails,
                intake, writer, sinks
  <2>2. Unaccounted' = Unaccounted
    BY <2>1 DEF Unaccounted, Held, InHand
  <2>3. CASE (Early <=> Early') /\ bridge' # "connecting"
    BY <2>1, <2>2, <2>3, AccountedKept
  <2>4. CASE ConnectFails
    <3>1. sent' = {} /\ buffer' = buffer /\ flight' = flight /\ ToSet(buffer) = {} /\ flight = {} /\ ~Early'
      BY <2>1, <2>4, ShapesGive DEF ConnectFails, Accounted, Early
    <3>2. Unaccounted' = {}
      BY <3>1 DEF Unaccounted
    <3>3. MayLose' = 0
      BY <3>1, <3>2, FS_EmptySet DEF MayLose
    <3> QED BY <2>4, <3>1, <3>3, LossesCount DEF Accounted, ConnectFails
  <2>5. ((Early <=> Early') /\ bridge' # "connecting") \/ ConnectFails
    BY <1>1 DEF Start, Signal, Unsubscribe, Stop, Connect, Running, Subscribe, SubscribeFails, Early
  <2> QED BY <2>3, <2>4, <2>5
<1>2. ASSUME NEW e \in Events, Notify(e)
      PROVE  Accounted'
  <2>1. UNCHANGED <<bridge, worker, buffer, flight, table>> /\ bridge # "connecting"
    BY <1>2 DEF Notify, writer, sinks
  <2>2. ToSet(queue) \cup logged \cup {e} \subseteq ToSet(queue') \cup logged' /\ sent' = sent \cup {e}
    BY <1>2, NotifyShapes
  <2>3. Unaccounted' \subseteq Unaccounted
    BY <2>1, <2>2 DEF Unaccounted, Held, InHand
  <2> QED BY <2>1, <2>3, AccountedStays
<1>3. ASSUME NEW w \in Workers, Take(w)
      PROVE  Accounted'
  <2>1. UNCHANGED <<bridge, sent, buffer, flight, table>> /\ bridge # "connecting"
    BY <1>3 DEF Take, Up, intake, writer, sinks
  <2>2. worker[w].event = None /\ ToSet(queue) = {Head(queue)} \cup ToSet(queue') /\ Head(queue) \in Events
    BY <1>3, TakeShapes
  <2>3. InHand \subseteq InHand' /\ logged \subseteq logged' /\ Head(queue) \in InHand' \cup logged'
    <3>1. CASE TaskDone(w, 2) /\ logged' = logged \cup {Head(queue)}
      <4>1. worker'[w].event = None /\ \A v \in Workers \ {w} : worker'[v] = worker[v]
        BY <1>0, <3>1, ShapesGive, TaskDoneShape
      <4> QED BY <2>2, <3>1, <4>1 DEF InHand
    <3>2. CASE worker' = [worker EXCEPT ![w] = [pc |-> "publish", event |-> Head(queue)]] /\ UNCHANGED logged
      <4>1. worker'[w].event = Head(queue) /\ \A v \in Workers \ {w} : worker'[v] = worker[v]
        BY <1>0, <3>2
      <4> QED BY <2>2, <3>2, <4>1, BridgeAssumption DEF InHand
    <3> QED BY <1>3, <3>1, <3>2, TakeShapes
  <2>4. Unaccounted' \subseteq Unaccounted
    BY <2>1, <2>2, <2>3 DEF Unaccounted, Held
  <2> QED BY <2>1, <2>4, AccountedStays
<1>4. ASSUME NEW w \in Workers, Poll(w) \/ Publish(w) \/ PublishAlarm(w)
      PROVE  Accounted'
  <2>1. UNCHANGED <<bridge, sent, queue, buffer, flight, table, logged>> /\ bridge # "connecting"
    BY <1>4 DEF Poll, Publish, PublishAlarm, Up, intake, writer, sinks
  <2>2. \A v \in Workers : worker'[v].event = worker[v].event
    <3>1. CASE Poll(w)
      <4>1. worker[w].event = None /\ worker' = [worker EXCEPT ![w] = Over("done")]
        BY <1>0, <3>1, JobFields DEF Poll
      <4> QED BY <1>0, <4>1, JobsOver
    <3>2. CASE Publish(w) \/ PublishAlarm(w)
      BY <3>2, SendShapes
    <3> QED BY <1>4, <3>1, <3>2
  <2>3. Unaccounted' \subseteq Unaccounted
    BY <2>1, <2>2, HandsKept DEF Unaccounted, Held
  <2> QED BY <2>1, <2>3, AccountedStays
<1>5. ASSUME NEW w \in Workers, PublishFails(w)
      PROVE  Accounted'
  <2>1. /\ UNCHANGED <<bridge, sent, queue, buffer, flight, table>> /\ bridge # "connecting"
        /\ logged' = logged \cup {worker[w].event} /\ TaskDone(w, 1)
    BY <1>5 DEF PublishFails, Up, intake, writer
  <2>2. InHand \subseteq InHand' \cup {worker[w].event}
    BY <1>0, <2>1, ShapesGive, TaskDoneShape, HandsLess
  <2>3. Unaccounted' \subseteq Unaccounted
    BY <2>1, <2>2 DEF Unaccounted, Held
  <2> QED BY <2>1, <2>3, AccountedStays
<1>6. ASSUME NEW w \in Workers, Push(w)
      PROVE  Accounted'
  <2>1. /\ UNCHANGED <<bridge, sent, queue, table, logged>> /\ Early /\ bridge # "connecting" /\ lock = None
    BY <1>6 DEF Push, Up, Early, intake, sinks
  <2>2. InHand \subseteq InHand' \cup {worker[w].event}
        /\ ToSet(buffer) \cup {worker[w].event} \subseteq ToSet(buffer') \cup flight'
    <3>1. CASE TaskDone(w, 1) /\ ToSet(buffer') = ToSet(buffer) \cup {worker[w].event}
      BY <1>0, <3>1, ShapesGive, TaskDoneShape, HandsLess
    <3>2. CASE /\ flight' = ToSet(buffer) \cup {worker[w].event}
               /\ worker'[w].event = worker[w].event /\ \A v \in Workers \ {w} : worker'[v] = worker[v]
      BY <3>2, HandsKept
    <3> QED BY <1>6, <3>1, <3>2, PushShapes
  <2>3. flight = {}
    BY <2>1 DEF Locks
  <2>4. Unaccounted' \subseteq Unaccounted
    BY <2>1, <2>2, <2>3 DEF Unaccounted, Held
  <2> QED BY <2>1, <2>4, AccountedStays
<1>7. ASSUME NEW w \in Workers, WorkerInserted(w)
      PROVE  Accounted'
  <2>1. /\ UNCHANGED <<bridge, sent, queue, buffer>> /\ bridge # "connecting"
        /\ Inserted(w) /\ TaskDone(w, 1)
    BY <1>7 DEF WorkerInserted, Up, intake
  <2>2. InHand \subseteq InHand' \cup {worker[w].event} /\ worker[w].event \in flight
    BY <1>0, <2>1, ShapesGive, TaskDoneShape, HandsLess, InsertedShape DEF Locks
  <2>3. flight \subseteq table' \cup logged' /\ table \subseteq table' /\ logged \subseteq logged' /\ flight' = {}
    BY <2>1, InsertedShape
  <2>4. Unaccounted' \subseteq Unaccounted
    BY <2>1, <2>2, <2>3 DEF Unaccounted, Held
  <2> QED BY <2>1, <2>3, <2>4, AccountedStays
<1>8. CASE LoopInserted \/ FinalInserted
  <2>1. /\ UNCHANGED <<bridge, sent, queue, worker, buffer>> /\ bridge # "connecting"
        /\ \E who : Inserted(who)
    BY <1>8 DEF LoopInserted, FinalInserted, LoopRuns, intake
  <2>2. flight \subseteq table' \cup logged' /\ table \subseteq table' /\ logged \subseteq logged' /\ flight' = {}
    BY <2>1, InsertedShape
  <2>3. Unaccounted' \subseteq Unaccounted
    BY <2>1, <2>2 DEF Unaccounted, Held, InHand
  <2> QED BY <2>1, <2>2, <2>3, AccountedStays
<1>9. CASE LoopFlush \/ FinalFlush
  <2>1. UNCHANGED <<bridge, sent, queue, worker, table, logged>> /\ bridge # "connecting"
    BY <1>9 DEF LoopFlush, FinalFlush, LoopRuns, intake, sinks
  <2>2. lock = None /\ buffer' = <<>> /\ flight' = ToSet(buffer)
    BY <1>9, FlushShapes
  <2>3. flight = {} /\ ToSet(buffer') = {}
    BY <2>2 DEF Locks, ToSet
  <2>4. Unaccounted' \subseteq Unaccounted
    BY <2>1, <2>2, <2>3 DEF Unaccounted, Held, InHand
  <2> QED BY <2>1, <2>2, <2>3, <2>4, AccountedStays
<1>10. CASE UNCHANGED bridgevars
  <2>1. UNCHANGED <<bridge, sent, queue, worker, buffer, flight, table, logged>>
    BY <1>10 DEF bridgevars
  <2>2. Unaccounted' = Unaccounted
    BY <2>1 DEF Unaccounted, Held, InHand
  <2>3. (bridge' = "connecting" => sent' = {}) /\ (Early <=> Early')
    BY <2>1 DEF Early, Accounted
  <2> QED BY <2>1, <2>2, <2>3, AccountedKept
<1> QED BY <1>1, <1>2, <1>3, <1>4, <1>5, <1>6, <1>7, <1>8, <1>9, <1>10, CancelLoses, LoopLoses
        DEF BridgeNext, Shutdown, LoopStep, WorkerStep

-----------------------------------------------------------------------------
(* What has been sent to the subscribers.                                  *)

Sent(e) == e \in stream /\ (e \in Alarms => e \in alarms)

Published ==
  /\ \A e \in ToSet(buffer) \cup flight \cup table : Sent(e)
  /\ \A w \in Workers : worker[w].pc \in {"push", "insert"} => Sent(worker[w].event)
  /\ \A w \in Workers : worker[w].pc = "alarm" => worker[w].event \in stream

\* Nothing is taken back from the subscribers, and what a step adds to the
\* writer's side was sent.
LEMMA PublishedKept ==
  ASSUME Published, stream \subseteq stream', alarms \subseteq alarms',
         \A e \in ToSet(buffer') \cup flight' \cup table' :
           \/ e \in ToSet(buffer) \cup flight \cup table
           \/ \E w \in Workers : worker[w].pc \in {"push", "insert"} /\ e = worker[w].event,
         \A w \in Workers : \/ worker'[w] = worker[w]
                            \/ worker'[w].pc \in {"get", "publish", "killed", "done"}
                            \/ /\ worker[w].pc = "push" /\ worker'[w].pc = "insert"
                               /\ worker'[w].event = worker[w].event
  PROVE  Published'
<1>1. \A e : Sent(e) => e \in stream' /\ (e \in Alarms => e \in alarms')
  BY DEF Sent
<1>2. \A e \in ToSet(buffer') \cup flight' \cup table' : e \in stream' /\ (e \in Alarms => e \in alarms')
  BY <1>1 DEF Published
<1>3. \A w \in Workers : worker'[w].pc \in {"push", "insert"} =>
        /\ worker'[w].event \in stream'
        /\ worker'[w].event \in Alarms => worker'[w].event \in alarms'
  BY <1>1 DEF Published
<1>4. \A w \in Workers : worker'[w].pc = "alarm" => worker'[w].event \in stream'
  BY DEF Published
<1> QED BY <1>2, <1>3, <1>4 DEF Published, Sent

LEMMA PublishedHold ==
  ASSUME Shapes, Locks, Published, [BridgeNext]_bridgevars
  PROVE  Published'
<1>0. worker \in [Workers -> Jobs]
  BY ShapesGive
<1>1. CASE \/ Start \/ Signal \/ Unsubscribe \/ Stop \/ \E e \in Events : Notify(e)
           \/ UNCHANGED bridgevars
  <2>1. UNCHANGED <<worker, buffer, flight, table, stream, alarms>>
    BY <1>1 DEF Start, Signal, Unsubscribe, Stop, Connect, ConnectFails, Running, Subscribe, SubscribeFails,
                Notify, writer, sinks, bridgevars
  <2> QED BY <2>1, PublishedKept
<1>2. ASSUME NEW w \in Workers, Take(w) \/ Poll(w)
      PROVE  Published'
  <2>1. UNCHANGED <<buffer, flight, table, stream, alarms>>
    BY <1>2 DEF Take, Poll, writer, sinks
  <2>2. worker'[w].pc \in {"get", "publish", "killed", "done"} /\ \A v \in Workers \ {w} : worker'[v] = worker[v]
    BY <1>0, <1>2, ShapesGive, TaskDoneShape, JobsOver DEF Take, Poll
  <2> QED BY <2>1, <2>2, PublishedKept
<1>3. ASSUME NEW w \in Workers, Publish(w) \/ PublishAlarm(w)
      PROVE  Published'
  <2>1. /\ UNCHANGED <<buffer, flight, table>> /\ stream \subseteq stream' /\ alarms \subseteq alarms'
        /\ \/ /\ worker[w].pc = "publish" /\ worker[w].event \in stream'
              /\ worker' = [worker EXCEPT ![w].pc = NextSink(worker[w].event)]
           \/ /\ worker[w].pc = "alarm" /\ worker[w].event \in alarms'
              /\ worker' = [worker EXCEPT ![w].pc = "push"]
    BY <1>3 DEF Publish, PublishAlarm, writer
  <2>2. worker'[w].event = worker[w].event /\ \A v \in Workers \ {w} : worker'[v] = worker[v]
    BY <1>3, SendShapes
  <2>3. worker[w] \in [pc : {"get", "publish", "alarm", "push", "insert", "killed", "done"},
                       event : Events \cup {None}]
    BY <1>0, JobFields
  <2>4. \/ worker[w].pc = "publish" /\ worker'[w].pc = NextSink(worker[w].event)
        \/ worker[w].pc = "alarm" /\ worker'[w].pc = "push"
    BY <1>0, <2>1, <2>3
  <2>5. worker[w].event \in stream'
    BY <2>1 DEF Published
  <2>6. worker'[w].pc \in {"push", "insert"} /\ worker[w].event \in Alarms => worker[w].event \in alarms'
    BY <2>1, <2>4 DEF NextSink
  <2>7. \A e : Sent(e) => e \in stream' /\ (e \in Alarms => e \in alarms')
    BY <2>1 DEF Sent
  <2>8. \A e \in ToSet(buffer)' \cup flight' \cup table' : e \in stream' /\ (e \in Alarms => e \in alarms')
    BY <2>1, <2>7 DEF Published
  <2>9. \A v \in Workers : worker'[v].pc \in {"push", "insert"} =>
          /\ worker'[v].event \in stream'
          /\ worker'[v].event \in Alarms => worker'[v].event \in alarms'
    BY <2>2, <2>5, <2>6, <2>7 DEF Published
  <2>10. \A v \in Workers : worker'[v].pc = "alarm" => worker'[v].event \in stream'
    BY <2>1, <2>2, <2>5 DEF Published
  <2> QED BY <2>8, <2>9, <2>10 DEF Published, Sent
<1>4. ASSUME NEW w \in Workers, PublishFails(w)
      PROVE  Published'
  <2>1. /\ UNCHANGED <<buffer, flight, table>> /\ stream \subseteq stream' /\ alarms \subseteq alarms'
        /\ TaskDone(w, 1)
    BY <1>4 DEF PublishFails, writer
  <2>2. worker'[w].pc \in {"get", "killed", "done"} /\ \A v \in Workers \ {w} : worker'[v] = worker[v]
    BY <1>0, <2>1, ShapesGive, TaskDoneShape
  <2> QED BY <2>1, <2>2, PublishedKept
<1>5. ASSUME NEW w \in Workers, Push(w)
      PROVE  Published'
  <2>1. UNCHANGED <<stream, alarms, table>> /\ worker[w].pc = "push"
    BY <1>5 DEF Push, sinks
  <2>2. CASE TaskDone(w, 1) /\ UNCHANGED <<lock, flight>> /\ ToSet(buffer') = ToSet(buffer) \cup {worker[w].event}
    <3>1. worker'[w].pc \in {"get", "killed", "done"} /\ \A v \in Workers \ {w} : worker'[v] = worker[v]
      BY <1>0, <2>2, ShapesGive, TaskDoneShape
    <3> QED BY <2>1, <2>2, <3>1, PublishedKept
  <2>3. CASE /\ buffer' = <<>> /\ flight' = ToSet(buffer) \cup {worker[w].event}
             /\ worker'[w].pc = "insert" /\ worker'[w].event = worker[w].event
             /\ \A v \in Workers \ {w} : worker'[v] = worker[v]
    <3>1. ToSet(buffer') = {}
      BY <2>3 DEF ToSet
    <3> QED BY <2>1, <2>3, <3>1, PublishedKept
  <2> QED BY <1>5, <2>2, <2>3, PushShapes
<1>6. ASSUME NEW w \in Workers, WorkerInserted(w)
      PROVE  Published'
  <2>1. UNCHANGED <<stream, alarms, buffer>> /\ Inserted(w) /\ TaskDone(w, 1)
    BY <1>6 DEF WorkerInserted
  <2>2. worker'[w].pc \in {"get", "killed", "done"} /\ \A v \in Workers \ {w} : worker'[v] = worker[v]
    BY <1>0, <2>1, ShapesGive, TaskDoneShape
  <2>3. table' \subseteq table \cup flight /\ flight' = {}
    BY <2>1, InsertedShape
  <2> QED BY <2>1, <2>2, <2>3, PublishedKept
<1>7. CASE LoopInserted \/ FinalInserted
  <2>1. UNCHANGED <<worker, stream, alarms, buffer>> /\ \E who : Inserted(who)
    BY <1>7 DEF LoopInserted, FinalInserted
  <2>2. table' \subseteq table \cup flight /\ flight' = {}
    BY <2>1, InsertedShape
  <2> QED BY <2>1, <2>2, PublishedKept
<1>8. CASE LoopFlush \/ FinalFlush
  <2>1. UNCHANGED <<worker, table, stream, alarms>> /\ buffer' = <<>> /\ flight' = ToSet(buffer)
    BY <1>8 DEF LoopFlush, FinalFlush, sinks
  <2>2. ToSet(buffer') = {}
    BY <2>1 DEF ToSet
  <2> QED BY <2>1, <2>2, PublishedKept
<1>9. CASE CancelWorkers \/ UnsubscribeFails \/ CancelLoop
  <2>1. /\ buffer' = buffer /\ stream \subseteq stream' /\ alarms \subseteq alarms'
        /\ \E who : Interrupted(who)
        /\ \A w \in Workers : worker'[w] = worker[w] \/ worker'[w].pc \in {"get", "publish", "killed", "done"}
    BY <1>9, JobsOver DEF CancelWorkers, UnsubscribeFails, CancelLoop
  <2>2. table' \subseteq table \cup flight /\ flight' \subseteq flight
    BY <2>1, InterruptedShape
  <2> QED BY <2>1, <2>2, PublishedKept
<1> QED BY <1>1, <1>2, <1>3, <1>4, <1>5, <1>6, <1>7, <1>8, <1>9 DEF BridgeNext, Shutdown, LoopStep, WorkerStep

-----------------------------------------------------------------------------
(* Where the process is, and what it has said of it.                       *)

Phases ==
  /\ "bridge_stop" \in audit => bridge = "stopped"
  /\ bridge \notin {"connecting", "crashed"} => "bridge_start" \in audit
  /\ bridge \in {"cancelled", "unsubscribed", "closing", "stopped"} =>
       \A w \in Workers : worker[w].pc \in {"killed", "done"}
  /\ bridge = "stopped" => buffer = <<>> /\ flight = {}

LEMMA PhasesHold ==
  ASSUME Shapes, Locks, Phases, [BridgeNext]_bridgevars
  PROVE  Phases'
<1>1. CASE Start \/ Signal \/ Unsubscribe
  BY <1>1 DEF Phases, Start, Signal, Unsubscribe, Connect, ConnectFails, Running, Subscribe, SubscribeFails, writer
<1>2. CASE Stop
  <2>1. flight = {}
    BY <1>2 DEF Stop, Locks
  <2> QED BY <1>2, <2>1 DEF Phases, Stop, writer
<1>3. CASE (\E e \in Events : Notify(e)) \/ UNCHANGED bridgevars
  BY <1>3 DEF Phases, Notify, writer, bridgevars
<1>4. CASE \E w \in Workers : WorkerStep(w)
  <2>1. Up /\ UNCHANGED <<bridge, audit>>
    BY <1>4 DEF WorkerStep, Take, Poll, Publish, PublishAlarm, PublishFails, Push, WorkerInserted, Up
  <2> QED BY <2>1 DEF Phases, Up
<1>5. CASE LoopStep \/ FinalFlush \/ FinalInserted
  <2>1. UNCHANGED <<bridge, audit, worker>> /\ bridge # "stopped"
    BY <1>5 DEF LoopStep, LoopFlush, LoopInserted, FinalFlush, FinalInserted, LoopRuns
  <2> QED BY <2>1 DEF Phases
<1>6. CASE CancelWorkers
  <2>1. \A w \in Workers : worker'[w].pc \in {"killed", "done"}
    BY <1>6, JobsOver DEF CancelWorkers
  <2> QED BY <1>6, <2>1 DEF Phases, CancelWorkers
<1>7. CASE UnsubscribeFails \/ CancelLoop
  BY <1>7 DEF Phases, UnsubscribeFails, CancelLoop
<1> QED BY <1>1, <1>2, <1>3, <1>4, <1>5, <1>6, <1>7 DEF BridgeNext, Shutdown

-----------------------------------------------------------------------------
(* The queue's counter and the deaths of the workers.                      *)

\* An event is in the queue, or in the hands of one worker, once; a stranger
\* has left the queue.
Distinct ==
  /\ \A i, j \in 1..Len(queue) : queue[i] = queue[j] => i = j
  /\ \A e \in ToSet(queue) : e \notin InHand /\ e \notin strangers
  /\ \A v, w \in Workers : worker[v].event = worker[w].event /\ worker[v].event # None => v = w

\* Each worker that died, and each event the counter has lost, is paid for by
\* a stranger.
Counts ==
  /\ unfinished <= Len(queue) + Cardinality(InHand)
  /\ Len(queue) + Cardinality(InHand) - unfinished + Cardinality(Killed) <= Cardinality(strangers)

Counted == Distinct /\ Counts

LEMMA SizesNat ==
  ASSUME Shapes
  PROVE  /\ Len(queue) \in Nat /\ unfinished \in Nat
         /\ IsFiniteSet(InHand) /\ Cardinality(InHand) \in Nat
         /\ IsFiniteSet(Killed) /\ Cardinality(Killed) \in Nat
         /\ IsFiniteSet(strangers) /\ Cardinality(strangers) \in Nat
<1>1. IsFiniteSet(Killed)
  BY BridgeAssumption, FS_Subset DEF Killed
<1>2. IsFiniteSet(strangers)
  BY ShapesGive, FS_Subset
<1> QED BY <1>1, <1>2, ShapesGive, InHandIs, ElementsIn, FS_CardinalityType

\* A worker lets its event go.
LEMMA HandEmptied ==
  ASSUME Shapes, Distinct, NEW w \in Workers, worker[w].event \in Events,
         worker'[w].event = None, \A v \in Workers \ {w} : worker'[v] = worker[v]
  PROVE  /\ InHand' = InHand \ {worker[w].event}
         /\ Cardinality(InHand') = Cardinality(InHand) - 1 /\ Cardinality(InHand) \in Nat \ {0}
<1>1. worker[w].event \in InHand /\ worker[w].event # None
  BY BridgeAssumption DEF InHand
<1>2. InHand' = InHand \ {worker[w].event}
  <2>1. \A e : e \in InHand' => e \in InHand \ {worker[w].event}
    <3> SUFFICES ASSUME NEW v \in Workers, worker'[v].event # None
                 PROVE  worker'[v].event \in InHand \ {worker[w].event}
      BY DEF InHand
    <3>1. v # w /\ worker'[v].event = worker[v].event /\ worker[v].event # worker[w].event
      BY <1>1 DEF Distinct
    <3> QED BY <3>1 DEF InHand
  <2>2. \A e : e \in InHand \ {worker[w].event} => e \in InHand'
    BY DEF InHand
  <2> QED BY <2>1, <2>2
<1>3. /\ IsFiniteSet(InHand) /\ Cardinality(InHand) \in Nat
      /\ Cardinality(InHand \ {worker[w].event}) = Cardinality(InHand) - 1
      /\ Cardinality(InHand \ {worker[w].event}) \in Nat
  BY <1>1, SizesNat, FS_RemoveElement, FS_CardinalityType
<1>4. Cardinality(InHand) # 0
  BY <1>3
<1> QED BY <1>2, <1>3, <1>4

\* An idle worker takes an event nobody has.
LEMMA HandFilled ==
  ASSUME Shapes, NEW w \in Workers, NEW e \in Events, e \notin InHand, worker[w].event = None,
         worker'[w].event = e, \A v \in Workers \ {w} : worker'[v] = worker[v]
  PROVE  InHand' = InHand \cup {e} /\ Cardinality(InHand') = Cardinality(InHand) + 1
<1>1. e # None
  BY BridgeAssumption
<1>2. InHand' = InHand \cup {e}
  <2>1. \A x : x \in InHand' => x \in InHand \cup {e}
    BY DEF InHand
  <2>2. \A x : x \in InHand => x \in InHand'
    <3> SUFFICES ASSUME NEW v \in Workers, worker[v].event # None
                 PROVE  worker[v].event \in InHand'
      BY DEF InHand
    <3>1. v # w
      OBVIOUS
    <3> QED BY <3>1 DEF InHand
  <2>3. e \in InHand'
    BY <1>1 DEF InHand
  <2> QED BY <2>1, <2>2, <2>3
<1> QED BY <1>2, SizesNat, FS_AddElement

\* The workers that died, when one of them comes round.
LEMMA KilledAre ==
  ASSUME Shapes, NEW w \in Workers, worker[w].pc # "killed", \A v \in Workers \ {w} : worker'[v] = worker[v]
  PROVE  /\ worker'[w].pc = "killed" => Cardinality(Killed') = Cardinality(Killed) + 1
         /\ worker'[w].pc # "killed" => Cardinality(Killed') = Cardinality(Killed)
<1>1. CASE worker'[w].pc = "killed"
  <2>1. Killed' = Killed \cup {w} /\ w \notin Killed
    BY <1>1 DEF Killed
  <2> QED BY <1>1, <2>1, SizesNat, FS_AddElement
<1>2. CASE worker'[w].pc # "killed"
  <2>1. Killed' = Killed
    BY <1>2 DEF Killed
  <2> QED BY <1>2, <2>1
<1> QED BY <1>1, <1>2

\* The bookkeeping of an event handled: its place freed, its task done once.
LEMMA HandledCounts ==
  ASSUME Shapes, Shapes', Counted, NEW w \in Workers, worker[w].event \in Events, TaskDone(w, 1),
         UNCHANGED <<queue, strangers>>
  PROVE  Counted'
<1>1. /\ worker'[w].event = None /\ (worker'[w].pc = "killed" <=> unfinished < 1)
      /\ \A v \in Workers \ {w} : worker'[v] = worker[v]
      /\ unfinished' = IF unfinished > 1 THEN unfinished - 1 ELSE 0
  BY ShapesGive, TaskDoneShape
<1>2. /\ InHand' = InHand \ {worker[w].event}
      /\ Cardinality(InHand') = Cardinality(InHand) - 1 /\ Cardinality(InHand) \in Nat \ {0}
  BY <1>1, HandEmptied DEF Counted
<1>3. worker[w].pc # "killed"
  <2>1. worker[w] \in Jobs
    BY ShapesGive
  <2> QED BY <2>1, JobFields, BridgeAssumption
<1>4. Distinct'
  BY <1>1, <1>2 DEF Counted, Distinct
<1>5. /\ unfinished < 1 => Cardinality(Killed') = Cardinality(Killed) + 1
      /\ unfinished >= 1 => Cardinality(Killed') = Cardinality(Killed)
  BY <1>1, <1>3, KilledAre, SizesNat
<1>6. Counts'
  <2>1. PICK q \in Nat, u \in Nat, h \in Nat \ {0}, k \in Nat, s \in Nat :
          q = Len(queue) /\ u = unfinished /\ h = Cardinality(InHand) /\ k = Cardinality(Killed) /\ s = Cardinality(strangers)
    BY <1>2, SizesNat
  <2>2. u <= q + h /\ q + h - u + k <= s
    BY <2>1 DEF Counted, Counts
  <2>3. CASE u >= 1
    <3>1. unfinished' = u - 1 /\ Cardinality(Killed') = k
      BY <1>1, <1>5, <2>1, <2>3
    <3>2. Len(queue') = q /\ Cardinality(InHand') = h - 1 /\ Cardinality(strangers') = s
      BY <1>2, <2>1
    <3>3. u - 1 <= q + (h - 1) /\ q + (h - 1) - (u - 1) + k <= s
      BY <2>2, <2>3
    <3> QED BY <3>1, <3>2, <3>3 DEF Counts
  <2>4. CASE u = 0
    <3>1. unfinished' = 0 /\ Cardinality(Killed') = k + 1
      BY <1>1, <1>5, <2>1, <2>4
    <3>2. Len(queue') = q /\ Cardinality(InHand') = h - 1 /\ Cardinality(strangers') = s
      BY <1>2, <2>1
    <3>3. 0 <= q + (h - 1) /\ q + (h - 1) - 0 + (k + 1) <= s
      BY <2>2, <2>4
    <3> QED BY <3>1, <3>2, <3>3 DEF Counts
  <2> QED BY <2>3, <2>4
<1> QED BY <1>4, <1>6 DEF Counted

\* A step that moves neither the queue nor an event between hands.
LEMMA CountedKept ==
  ASSUME Shapes, Counted, UNCHANGED <<queue, unfinished, strangers>>,
         \A w \in Workers : /\ worker'[w].event = worker[w].event
                            /\ worker'[w].pc = "killed" <=> worker[w].pc = "killed"
  PROVE  Counted'
<1>1. InHand' = InHand /\ Killed' = Killed
  BY DEF InHand, Killed
<1> QED BY <1>1 DEF Counted, Distinct, Counts

LEMMA NotifyCounts ==
  ASSUME Shapes, Counted, NEW e \in Events, Notify(e)
  PROVE  Counted'
<1>1. UNCHANGED <<worker, strangers>> /\ e \notin sent
  BY DEF Notify
<1>2. InHand' = InHand /\ Killed' = Killed
  BY <1>1 DEF InHand, Killed
<1>3. CASE UNCHANGED <<queue, unfinished>>
  BY <1>1, <1>3, CountedKept
<1>4. CASE /\ queue' = Append(queue, e) /\ unfinished' = unfinished + 1
           /\ ToSet(queue') = ToSet(queue) \cup {e} /\ Len(queue') = Len(queue) + 1
  <2>1. /\ e \notin ToSet(queue) /\ e \notin strangers /\ e \notin InHand
    BY <1>1 DEF Shapes, BridgeTypes, Held
  <2>2. /\ Len(queue) \in Nat /\ queue \in Seq(Events)
        /\ queue'[Len(queue) + 1] = e /\ \A k \in 1..Len(queue) : queue'[k] = queue[k] /\ queue[k] # e
    <3>1. queue \in Seq(Events) /\ Len(queue) \in Nat
      BY ShapesGive, ElementsIn
    <3>2. \A k \in 1..Len(queue) : queue[k] \in ToSet(queue)
      BY <3>1 DEF ToSet
    <3> QED BY <1>4, <2>1, <3>1, <3>2
  <2>3. \A i, j \in 1..(Len(queue) + 1) : queue'[i] = queue'[j] => i = j
    <3>1. \A i \in 1..(Len(queue) + 1) : i \in 1..Len(queue) \/ i = Len(queue) + 1
      BY <2>2
    <3> QED BY <2>2, <3>1 DEF Counted, Distinct
  <2>4. \A x \in ToSet(queue') : x \notin InHand /\ x \notin strangers
    BY <1>4, <2>1 DEF Counted, Distinct
  <2>5. Distinct'
    BY <1>1, <1>2, <1>4, <2>3, <2>4 DEF Counted, Distinct
  <2>6. Counts'
    BY <1>1, <1>2, <1>4, SizesNat DEF Counted, Counts
  <2> QED BY <2>5, <2>6 DEF Counted
<1> QED BY <1>3, <1>4, NotifyShapes

LEMMA TakeCounts ==
  ASSUME Shapes, Shapes', Counted, NEW w \in Workers, Take(w)
  PROVE  Counted'
<1> DEFINE e == Head(queue)
<1>1. /\ queue # <<>> /\ worker[w].event = None /\ e \in Events /\ ToSet(queue) = {e} \cup ToSet(queue')
      /\ Len(queue') = Len(queue) - 1 /\ queue' = Tail(queue) /\ worker[w].pc = "get"
  BY TakeShapes DEF Take
<1>2. /\ queue \in Seq(Events) /\ Len(queue) \in Nat \ {0} /\ e = queue[1]
      /\ \A k \in 1..(Len(queue) - 1) : queue'[k] = queue[k + 1]
      /\ queue' \in Seq(Events) /\ DOMAIN queue' = 1..(Len(queue) - 1)
  <2>1. queue \in Seq(Events)
    BY ShapesGive
  <2> QED BY <1>1, <2>1
<1>3. \A i, j \in 1..Len(queue') : queue'[i] = queue'[j] => i = j
  <2> SUFFICES ASSUME NEW i \in 1..Len(queue'), NEW j \in 1..Len(queue'), queue'[i] = queue'[j]
               PROVE  i = j
    OBVIOUS
  <2>1. i + 1 \in 1..Len(queue) /\ j + 1 \in 1..Len(queue) /\ queue[i + 1] = queue[j + 1]
    BY <1>1, <1>2
  <2> QED BY <1>2, <2>1 DEF Counted, Distinct
<1>4. e \notin ToSet(queue')
  <2> SUFFICES ASSUME NEW k \in 1..(Len(queue) - 1), queue'[k] = e
               PROVE  FALSE
    BY <1>2 DEF ToSet
  <2>1. k + 1 \in 1..Len(queue) /\ 1 \in 1..Len(queue) /\ queue[k + 1] = queue[1] /\ k + 1 # 1
    BY <1>2
  <2> QED BY <2>1 DEF Counted, Distinct
<1>5. e \notin InHand /\ e \notin strangers
      /\ \A x \in ToSet(queue') : x \notin InHand /\ x \notin strangers
  BY <1>1 DEF Counted, Distinct
<1>6. PICK q \in Nat \ {0}, u \in Nat, h \in Nat, k \in Nat, s \in Nat :
        q = Len(queue) /\ u = unfinished /\ h = Cardinality(InHand) /\ k = Cardinality(Killed) /\ s = Cardinality(strangers)
  BY <1>2, SizesNat
<1>7. u <= q + h /\ q + h - u + k <= s
  BY <1>6 DEF Counted, Counts
<1> HIDE DEF e
<1>8. CASE TaskDone(w, 2) /\ strangers' = strangers \cup {e}
  <2>1. /\ worker'[w].event = None /\ (worker'[w].pc = "killed" <=> unfinished < 2)
        /\ \A v \in Workers \ {w} : worker'[v] = worker[v]
        /\ unfinished' = IF unfinished > 2 THEN unfinished - 2 ELSE 0
    BY <1>8, ShapesGive, TaskDoneShape
  <2>2. \A v \in Workers : worker'[v].event = worker[v].event
    BY <1>1, <2>1
  <2>3. InHand' = InHand
    BY <2>2 DEF InHand
  <2>4. Cardinality(strangers') = s + 1
    BY <1>5, <1>6, <1>8, SizesNat, FS_AddElement
  <2>5. /\ u < 2 => Cardinality(Killed') = k + 1
        /\ u >= 2 => Cardinality(Killed') = k
    BY <1>1, <1>6, <2>1, KilledAre
  <2>6. Distinct'
    BY <1>3, <1>4, <1>5, <1>8, <2>2, <2>3 DEF Counted, Distinct
  <2>7. Counts'
    <3>1. CASE u >= 2
      <4>1. unfinished' = u - 2 /\ Cardinality(Killed') = k
        BY <1>6, <2>1, <2>5, <3>1
      <4>2. u - 2 <= (q - 1) + h /\ (q - 1) + h - (u - 2) + k <= s + 1
        BY <1>7, <3>1
      <4>3. Len(queue') = q - 1 /\ Cardinality(InHand') = h /\ Cardinality(strangers') = s + 1
        BY <1>1, <1>6, <2>3, <2>4
      <4> QED BY <4>1, <4>2, <4>3 DEF Counts
    <3>2. CASE u < 2
      <4>1. unfinished' = 0 /\ Cardinality(Killed') = k + 1
        BY <1>6, <2>1, <2>5, <3>2
      <4>2. 0 <= (q - 1) + h /\ (q - 1) + h - 0 + (k + 1) <= s + 1
        BY <1>7, <3>2
      <4>3. Len(queue') = q - 1 /\ Cardinality(InHand') = h /\ Cardinality(strangers') = s + 1
        BY <1>1, <1>6, <2>3, <2>4
      <4> QED BY <4>1, <4>2, <4>3 DEF Counts
    <3> QED BY <3>1, <3>2
  <2> QED BY <2>6, <2>7 DEF Counted
<1>9. CASE worker' = [worker EXCEPT ![w] = [pc |-> "publish", event |-> e]] /\ UNCHANGED <<unfinished, strangers>>
  <2>1. /\ worker'[w].event = e /\ worker'[w].pc = "publish" /\ \A v \in Workers \ {w} : worker'[v] = worker[v]
    BY <1>9, ShapesGive
  <2>2. e \in Events /\ InHand' = InHand \cup {e} /\ Cardinality(InHand') = h + 1
    BY <1>1, <1>5, <1>6, <2>1, HandFilled DEF e
  <2>3. Cardinality(Killed') = k
    BY <1>1, <1>6, <2>1, KilledAre
  <2>4. \A v \in Workers \ {w} : worker[v].event # e
    BY <1>5, <2>2, BridgeAssumption DEF InHand
  <2>5. \A x, v \in Workers : worker'[v].event = worker'[x].event /\ worker'[v].event # None => v = x
    BY <2>1, <2>4 DEF Counted, Distinct
  <2>6. Distinct'
    BY <1>3, <1>4, <1>5, <1>9, <2>2, <2>5 DEF Distinct
  <2>7. Counts'
    <3>1. u <= (q - 1) + (h + 1) /\ (q - 1) + (h + 1) - u + k <= s
      BY <1>7
    <3>2. Len(queue') = q - 1 /\ Cardinality(InHand') = h + 1 /\ Cardinality(strangers') = s /\ unfinished' = u
      BY <1>1, <1>6, <1>9, <2>2
    <3> QED BY <2>3, <3>1, <3>2 DEF Counts
  <2> QED BY <2>6, <2>7 DEF Counted
<1> QED BY <1>8, <1>9, TakeShapes DEF e

LEMMA CancelCounts ==
  ASSUME Shapes, Shapes', Counted, CancelWorkers
  PROVE  Counted'
<1>1. /\ UNCHANGED <<queue, strangers>>
      /\ unfinished' = IF unfinished > Cardinality(InHand) THEN unfinished - Cardinality(InHand) ELSE 0
      /\ \A w \in Workers : worker'[w].event = None /\ (worker'[w].pc = "killed" <=> worker[w].pc = "killed")
  <2>1. \A w \in Workers : worker[w].pc = "killed" => worker[w].event = None
    BY ShapesGive, JobFields
  <2> QED BY <2>1, JobsOver DEF CancelWorkers
<1>2. InHand' = {} /\ Killed' = Killed
  BY <1>1 DEF InHand, Killed
<1>3. Cardinality(InHand') = 0
  BY <1>2, FS_EmptySet
<1>4. Distinct'
  BY <1>1, <1>2 DEF Counted, Distinct
<1>5. Counts'
  <2>1. PICK q \in Nat, u \in Nat, h \in Nat, k \in Nat, s \in Nat :
          q = Len(queue) /\ u = unfinished /\ h = Cardinality(InHand) /\ k = Cardinality(Killed) /\ s = Cardinality(strangers)
    BY SizesNat
  <2>2. u <= q + h /\ q + h - u + k <= s
    BY <2>1 DEF Counted, Counts
  <2>3. unfinished' = IF u > h THEN u - h ELSE 0
    BY <1>1, <2>1
  <2>4. /\ Len(queue') = q /\ Cardinality(InHand') = 0
        /\ Cardinality(Killed') = k /\ Cardinality(strangers') = s
    BY <1>1, <1>2, <1>3, <2>1
  <2>5. PICK v \in Nat : v = unfinished' /\ v = IF u > h THEN u - h ELSE 0
    BY <2>3
  <2>6. v <= q + 0 /\ q + 0 - v + k <= s
    BY <2>2, <2>5
  <2> QED BY <2>4, <2>5, <2>6 DEF Counts
<1> QED BY <1>4, <1>5 DEF Counted

LEMMA CountedHold ==
  ASSUME Shapes, Shapes', Locks, Counted, [BridgeNext]_bridgevars
  PROVE  Counted'
<1>0. worker \in [Workers -> Jobs]
  BY ShapesGive
<1>1. CASE \/ Start \/ Signal \/ Unsubscribe \/ Stop \/ UnsubscribeFails \/ CancelLoop
           \/ LoopStep \/ FinalFlush \/ FinalInserted \/ UNCHANGED bridgevars
  <2>1. UNCHANGED <<worker, queue, unfinished, strangers>>
    BY <1>1 DEF Start, Signal, Unsubscribe, Stop, Connect, ConnectFails, Running, Subscribe, SubscribeFails,
                UnsubscribeFails, CancelLoop, LoopStep, LoopFlush, LoopInserted, FinalFlush, FinalInserted, bridgevars
  <2> QED BY <2>1, CountedKept
<1>2. ASSUME NEW w \in Workers, Poll(w)
      PROVE  Counted'
  <2>1. /\ UNCHANGED <<queue, unfinished, strangers>> /\ worker[w].pc = "get" /\ worker[w].event = None
        /\ worker' = [worker EXCEPT ![w] = Over("done")]
    BY <1>0, <1>2, JobFields DEF Poll
  <2> QED BY <1>0, <2>1, JobsOver, CountedKept
<1>3. ASSUME NEW w \in Workers, Publish(w) \/ PublishAlarm(w)
      PROVE  Counted'
  <2>1. /\ UNCHANGED <<queue, unfinished, strangers>> /\ worker[w].pc # "killed"
        /\ \E pc \in {"alarm", "push"} : worker' = [worker EXCEPT ![w].pc = pc]
    BY <1>3 DEF Publish, PublishAlarm, NextSink
  <2>2. worker'[w].pc # "killed"
    <3>1. worker[w] \in [pc : {"get", "publish", "alarm", "push", "insert", "killed", "done"},
                         event : Events \cup {None}]
      BY <1>0, JobFields
    <3> QED BY <1>0, <2>1, <3>1
  <2>3. worker'[w].event = worker[w].event /\ \A v \in Workers \ {w} : worker'[v] = worker[v]
    BY <1>3, SendShapes
  <2> QED BY <2>1, <2>2, <2>3, CountedKept
<1>4. ASSUME NEW w \in Workers, PublishFails(w)
      PROVE  Counted'
  <2>1. TaskDone(w, 1) /\ UNCHANGED <<queue, strangers>>
    BY <1>4 DEF PublishFails
  <2> QED BY <1>4, <2>1, PublishFailsShapes, HandledCounts
<1>5. ASSUME NEW w \in Workers, Push(w)
      PROVE  Counted'
  <2>1. UNCHANGED <<queue, strangers>> /\ worker[w].event \in Events /\ worker[w].pc = "push"
    BY <1>5, PushShapes DEF Push
  <2>2. CASE TaskDone(w, 1)
    BY <2>1, <2>2, HandledCounts
  <2>3. CASE /\ worker'[w].pc = "insert" /\ worker'[w].event = worker[w].event
             /\ (\A v \in Workers \ {w} : worker'[v] = worker[v]) /\ UNCHANGED unfinished
    BY <2>1, <2>3, CountedKept
  <2>4. TaskDone(w, 1) \/ /\ worker'[w].pc = "insert" /\ worker'[w].event = worker[w].event
                          /\ (\A v \in Workers \ {w} : worker'[v] = worker[v]) /\ UNCHANGED unfinished
    BY <1>5, PushShapes
  <2> QED BY <2>2, <2>3, <2>4
<1>6. ASSUME NEW w \in Workers, WorkerInserted(w)
      PROVE  Counted'
  <2>1. /\ UNCHANGED <<queue, strangers>> /\ TaskDone(w, 1) /\ lock = w
    BY <1>6 DEF WorkerInserted, Inserted
  <2>2. worker[w].event \in Events
    BY <2>1, ShapesGive DEF Locks
  <2> QED BY <2>1, <2>2, HandledCounts
<1> QED BY <1>1, <1>2, <1>3, <1>4, <1>5, <1>6, NotifyCounts, TakeCounts, CancelCounts
        DEF BridgeNext, Shutdown, WorkerStep

-----------------------------------------------------------------------------
(* The theorem.                                                            *)

BridgeInv == Shapes /\ Locks /\ Accounted /\ Published /\ Phases /\ Counted

LEMMA BridgeStarts ==
  ASSUME BridgeInit
  PROVE  BridgeInv
<1>1. /\ bridge = "connecting" /\ live = {} /\ nodeid_map = {} /\ sent = {}
      /\ queue = <<>> /\ unfinished = 0 /\ worker = [w \in Workers |-> Waiting]
      /\ buffer = <<>> /\ lock = None /\ flight = {}
      /\ stream = {} /\ alarms = {} /\ table = {} /\ audit = {}
      /\ logged = {} /\ strangers = {} /\ faults = 0
  BY DEF BridgeInit
<1>2. ToSet(queue) = {} /\ ToSet(buffer) = {} /\ Len(queue) = 0 /\ Len(buffer) = 0
      /\ queue \in Seq(Events) /\ buffer \in Seq(Events)
  BY <1>1 DEF ToSet
<1>3. \A w \in Workers : worker[w].pc = "get" /\ worker[w].event = None
  BY <1>1, JobsOver
<1>4. InHand = {} /\ Killed = {}
  BY <1>3 DEF InHand, Killed
<1>5. Cardinality({}) = 0 /\ IsFiniteSet({})
  BY FS_EmptySet
<1>6. worker \in [Workers -> Jobs]
  BY <1>1, JobsOver
<1>7. worker \in [Workers -> [pc : {"get", "publish", "alarm", "push", "insert", "killed", "done"},
                              event : Events \cup {None}]]
  BY <1>6, JobFields
<1>8. Held = {} /\ Unaccounted = {}
  BY <1>1, <1>2, <1>4 DEF Held, Unaccounted
<1>9. Shapes
  BY <1>1, <1>2, <1>5, <1>6, <1>7, <1>8, BridgeAssumption DEF Shapes, BridgeTypes
<1>10. Locks
  BY <1>1, <1>3, BridgeAssumption DEF Locks
<1>11. Accounted /\ Published /\ Phases
  BY <1>1, <1>2, <1>3, <1>8 DEF Accounted, Early, Published, Phases
<1>12. Counted
  BY <1>1, <1>2, <1>3, <1>4, <1>5 DEF Counted, Distinct, Counts
<1> QED BY <1>9, <1>10, <1>11, <1>12 DEF BridgeInv

LEMMA BridgeAccounts ==
  ASSUME BridgeInv
  PROVE  EventsAccounted
<1> USE DEF BridgeInv
<1>1. BridgeTypes /\ NoSilentLoss
  BY DEF Shapes, Accounted, Early, NoSilentLoss
<1>2. SilentLossBounded
  <2>1. CASE Early
    <3>1. Unaccounted = {}
      BY <2>1 DEF Accounted
    <3>2. Cardinality(Unaccounted) = 0
      BY <3>1, FS_EmptySet
    <3> QED BY <3>2, LossesCount DEF SilentLossBounded
  <2>2. CASE ~Early
    BY <2>2, LossesCount DEF Accounted, MayLose, SilentLossBounded
  <2> QED BY <2>1, <2>2
<1>3. StoredWasPublished
  BY DEF Published, Sent, StoredWasPublished
<1>4. DeathsExplained
  <2>1. Cardinality(Killed) <= Cardinality(strangers)
    BY SizesNat DEF Counted, Counts
  <2>2. ASSUME strangers = {}
        PROVE  unfinished = Len(queue) + Cardinality(InHand)
    <3>1. Cardinality(strangers) = 0
      BY <2>2, FS_EmptySet
    <3> QED BY <3>1, SizesNat DEF Counted, Counts
  <2> QED BY <2>1, <2>2 DEF DeathsExplained
<1>5. StopIsFinal
  <2> SUFFICES ASSUME "bridge_stop" \in audit
               PROVE  /\ "bridge_start" \in audit /\ Held \subseteq ToSet(queue)
                      /\ \A w \in Workers : worker[w].pc \in {"killed", "done"}
    BY DEF StopIsFinal
  <2>1. /\ "bridge_start" \in audit /\ buffer = <<>> /\ flight = {}
        /\ \A w \in Workers : worker[w].pc \in {"killed", "done"}
    BY DEF Phases
  <2>2. \A w \in Workers : worker[w].event = None
    BY <2>1, ShapesGive, JobFields
  <2>3. InHand = {} /\ ToSet(buffer) = {}
    BY <2>1, <2>2 DEF InHand, ToSet
  <2> QED BY <2>1, <2>3 DEF Held
<1> QED BY <1>1, <1>2, <1>3, <1>4, <1>5 DEF EventsAccounted

\* Whatever the events, their number, the sizes of the queue and the batches
\* and the workers: no event disappears without a log line before the signal,
\* a shutdown loses one event per worker and one batch at most, a stored row
\* was published first, one unknown node costs one worker at most, and after
\* bridge_stop nothing moves (main.py, opcua_client.py, timescale_writer.py).
THEOREM BridgeKeepsAccount == BridgeSpec => []EventsAccounted
<1>1. BridgeInit => BridgeInv
  BY BridgeStarts
<1>2. BridgeInv /\ [BridgeNext]_bridgevars => BridgeInv'
  <2> SUFFICES ASSUME BridgeInv, [BridgeNext]_bridgevars
               PROVE  BridgeInv'
    OBVIOUS
  <2>1. Shapes /\ Locks /\ Accounted /\ Published /\ Phases /\ Counted
    BY DEF BridgeInv
  <2>2. Shapes'
    BY <2>1, ShapesHold
  <2> QED BY <2>1, <2>2, LocksHold, AccountedHold, PublishedHold, PhasesHold, CountedHold DEF BridgeInv
<1>3. BridgeInv => EventsAccounted
  BY BridgeAccounts
<1> QED BY <1>1, <1>2, <1>3, PTL DEF BridgeSpec

-----------------------------------------------------------------------------
(* Provisioning: the runs of a script.                                     *)

\* The fields of a run that has begun.
IsRun(m) ==
  m = [at |-> m.at, items |-> m.items, item |-> m.item, known |-> m.known, held |-> m.held,
       force |-> m.force, bad |-> m.bad, lost |-> m.lost, alone |-> m.alone, code |-> m.code]

Listed(items) ==
  /\ script = "migrate" => \E n \in 1..shipped : items = SubSeq(Files, 1, n)
  /\ script = "qdrant" => items = CollectionSpecs
  /\ script = "neo4j" => items = Constraints
  /\ script = "acl" => items = Docs
  /\ script = "datasets" => items = Datasets

Begun(r) ==
  /\ IsRun(run[r])
  /\ run[r].at \in {"item", "fields", "loaded", "truncated", "fetching", "fetched", "ended"}
  /\ Listed(run[r].items) /\ run[r].item \in 1..Len(run[r].items)
  /\ run[r].bad \in BOOLEAN /\ run[r].lost \in BOOLEAN /\ run[r].alone \in BOOLEAN
  /\ run[r].code \in {"none", "0", "1", "killed"} /\ (run[r].code = "none" <=> run[r].at # "ended")

ScriptShapes ==
  /\ script \in {"migrate", "qdrant", "neo4j", "acl", "datasets"} /\ shipped \in 1..Len(Files)
  /\ run = [r \in Runs |-> run[r]]
  /\ \A r \in Runs : run[r] = NotRun \/ Begun(r)
  /\ latest = Nothing \/ (latest \in Runs /\ run[latest].at = "ended")
  /\ marred \in BOOLEAN

\* Runs that overlap know it, and mar what they leave.
Overlaps ==
  /\ \A r, q \in Runs : UnderWay(r) /\ UnderWay(q) /\ run[r].alone => r = q
  /\ ~marred => \A r, q \in Runs : UnderWay(r) /\ UnderWay(q) => r = q

Quiet == \A r \in Runs : ~UnderWay(r)

LEMMA BegunIs ==
  ASSUME ScriptShapes, NEW r \in Runs, run[r] # NotRun
  PROVE  /\ Begun(r) /\ IsRun(run[r]) /\ run[r].item \in 1..Len(run[r].items) /\ Listed(run[r].items)
         /\ run[r].at # "idle" /\ (UnderWay(r) <=> run[r].at # "ended")
<1>1. Begun(r)
  BY DEF ScriptShapes
<1> QED BY <1>1 DEF Begun, UnderWay

LEMMA BusyIs ==
  ASSUME ScriptShapes, NEW r \in Runs
  PROVE  /\ run[r].at # "idle" => run[r] # NotRun
         /\ UnderWay(r) => run[r] # NotRun
         /\ run[r] # NotRun => run[r].at # "idle"
<1>1. NotRun.at = "idle"
  BY DEF NotRun
<1> QED BY <1>1, BegunIs DEF UnderWay

\* One run moves: the others stand where they stood.
Moves(r) == run' = [q \in Runs |-> run'[q]] /\ \A q \in Runs \ {r} : run'[q] = run[q]

LEMMA GoesIs ==
  ASSUME ScriptShapes, NEW r \in Runs, NEW to, Goes(r, to)
  PROVE  /\ Moves(r)
         /\ to.at = "ended" =>
              run'[r] = [to EXCEPT !.known = Nothing, !.held = Nothing, !.force = FALSE] /\ latest' = r
         /\ to.at # "ended" => run'[r] = to /\ latest' = latest
<1> DEFINE n == IF to.at = "ended" THEN [to EXCEPT !.known = Nothing, !.held = Nothing, !.force = FALSE] ELSE to
<1>1. run = [q \in Runs |-> run[q]] /\ run' = [run EXCEPT ![r] = n]
  BY DEF ScriptShapes, Goes
<1> HIDE DEF n
<1>2. Moves(r) /\ run'[r] = n
  BY <1>1 DEF Moves
<1> QED BY <1>2 DEF n, Goes

\* The run ends, on its own account or not.
Ends(r, code) ==
  /\ Moves(r) /\ IsRun(run'[r]) /\ run'[r].at = "ended" /\ run'[r].code = code /\ latest' = r
  /\ run'[r].items = run[r].items /\ run'[r].item = run[r].item
  /\ run'[r].alone = run[r].alone /\ run'[r].lost \in BOOLEAN
  /\ run'[r].known = Nothing

LEMMA EndsIs ==
  ASSUME ScriptShapes, NEW r \in Runs, UnderWay(r)
  PROVE  /\ Goes(r, Aborted(r)) => Ends(r, "1") /\ run'[r].bad = run[r].bad /\ run'[r].lost = run[r].lost
         /\ Goes(r, [Aborted(r) EXCEPT !.lost = TRUE]) => Ends(r, "1") /\ run'[r].bad = run[r].bad /\ run'[r].lost = TRUE
         /\ Goes(r, [run[r] EXCEPT !.at = "ended", !.code = "killed"]) =>
              Ends(r, "killed") /\ run'[r].bad = run[r].bad /\ run'[r].lost = run[r].lost
<1>1. IsRun(run[r]) /\ run[r].lost \in BOOLEAN
  BY BusyIs, BegunIs DEF Begun
<1>2. ASSUME Goes(r, Aborted(r)) PROVE Ends(r, "1") /\ run'[r].bad = run[r].bad /\ run'[r].lost = run[r].lost
  <2> DEFINE to == Aborted(r)
  <2>1. to.at = "ended" /\ to = [run[r] EXCEPT !.at = "ended", !.code = "1"]
    BY <1>1 DEF Aborted, IsRun
  <2>2. Moves(r) /\ run'[r] = [to EXCEPT !.known = Nothing, !.held = Nothing, !.force = FALSE] /\ latest' = r
    BY <1>2, <2>1, GoesIs
  <2> HIDE DEF to
  <2> QED BY <1>1, <2>1, <2>2 DEF Ends, IsRun
<1>3. ASSUME Goes(r, [Aborted(r) EXCEPT !.lost = TRUE])
      PROVE  Ends(r, "1") /\ run'[r].bad = run[r].bad /\ run'[r].lost = TRUE
  <2> DEFINE to == [Aborted(r) EXCEPT !.lost = TRUE]
  <2>1. to.at = "ended" /\ to = [run[r] EXCEPT !.at = "ended", !.code = "1", !.lost = TRUE]
    BY <1>1 DEF Aborted, IsRun
  <2>2. Moves(r) /\ run'[r] = [to EXCEPT !.known = Nothing, !.held = Nothing, !.force = FALSE] /\ latest' = r
    BY <1>3, <2>1, GoesIs
  <2> HIDE DEF to
  <2> QED BY <1>1, <2>1, <2>2 DEF Ends, IsRun
<1>4. ASSUME Goes(r, [run[r] EXCEPT !.at = "ended", !.code = "killed"])
      PROVE  Ends(r, "killed") /\ run'[r].bad = run[r].bad /\ run'[r].lost = run[r].lost
  <2> DEFINE to == [run[r] EXCEPT !.at = "ended", !.code = "killed"]
  <2>1. to.at = "ended"
    BY <1>1 DEF IsRun
  <2>2. Moves(r) /\ run'[r] = [to EXCEPT !.known = Nothing, !.held = Nothing, !.force = FALSE] /\ latest' = r
    BY <1>4, <2>1, GoesIs
  <2> QED BY <1>1, <2>1, <2>2 DEF Ends, IsRun
<1> QED BY <1>2, <1>3, <1>4

\* The run has done with an item.
Passes(r, failed) ==
  /\ Moves(r) /\ IsRun(run'[r])
  /\ run'[r].items = run[r].items /\ run'[r].alone = run[r].alone /\ run'[r].lost = run[r].lost
  /\ run'[r].bad \in BOOLEAN /\ (run'[r].bad = FALSE <=> run[r].bad = FALSE /\ failed = FALSE)
  /\ \/ /\ run[r].item < Len(run[r].items) /\ run'[r].item = run[r].item + 1 /\ run'[r].at = "item"
        /\ run'[r].known = run[r].known /\ run'[r].code = run[r].code /\ latest' = latest
     \/ /\ run[r].item = Len(run[r].items) /\ run'[r].item = run[r].item /\ run'[r].at = "ended"
        /\ run'[r].known = Nothing /\ latest' = r
        /\ \/ run'[r].code = "0" /\ run'[r].bad = FALSE
           \/ run'[r].code = "1" /\ run'[r].bad = TRUE

LEMMA PassesIs ==
  ASSUME ScriptShapes, NEW r \in Runs, UnderWay(r), NEW failed \in BOOLEAN, Goes(r, After(r, failed))
  PROVE  Passes(r, failed)
<1>1. /\ IsRun(run[r]) /\ run[r].lost \in BOOLEAN /\ run[r].bad \in BOOLEAN /\ run[r].item \in 1..Len(run[r].items)
  BY BusyIs, BegunIs DEF Begun
<1> DEFINE b == run[r].bad \/ failed
           m == [run[r] EXCEPT !.bad = b]
           to == After(r, failed)
<1>2. b \in BOOLEAN /\ (b = FALSE <=> run[r].bad = FALSE /\ failed = FALSE)
  BY <1>1
<1> HIDE DEF b
<1>3. /\ IsRun(m) /\ m.bad = b /\ m.item = run[r].item /\ m.items = run[r].items /\ m.alone = run[r].alone
      /\ m.lost = run[r].lost /\ m.known = run[r].known /\ m.code = run[r].code
  BY <1>1 DEF IsRun
<1>4. to = IF m.item < Len(m.items) THEN [m EXCEPT !.at = "item", !.item = m.item + 1, !.held = Nothing]
           ELSE [m EXCEPT !.at = "ended", !.code = IF m.bad THEN "1" ELSE "0"]
  BY DEF After, b
<1>5. Goes(r, to)
  OBVIOUS
<1> HIDE DEF m, to
<1>6. CASE m.item < Len(m.items)
  <2>1. to = [m EXCEPT !.at = "item", !.item = m.item + 1, !.held = Nothing]
    BY <1>4, <1>6
  <2>2. /\ IsRun(to) /\ to.at = "item" /\ to.item = m.item + 1 /\ to.items = m.items /\ to.alone = m.alone
        /\ to.lost = m.lost /\ to.known = m.known /\ to.code = m.code /\ to.bad = m.bad
    BY <1>3, <2>1 DEF IsRun
  <2>3. Moves(r) /\ run'[r] = to /\ latest' = latest
    BY <1>5, <2>2, GoesIs
  <2> QED BY <1>2, <1>3, <1>6, <2>2, <2>3 DEF Passes
<1>7. CASE ~(m.item < Len(m.items))
  <2> DEFINE code == IF m.bad THEN "1" ELSE "0"
  <2>1. to = [m EXCEPT !.at = "ended", !.code = code]
    BY <1>4, <1>7
  <2>2. (m.bad = TRUE /\ code = "1") \/ (m.bad = FALSE /\ code = "0")
    <3>1. CASE m.bad = TRUE
      BY <3>1
    <3>2. CASE m.bad = FALSE
      BY <3>2
    <3> QED BY <1>2, <1>3, <3>1, <3>2
  <2> HIDE DEF code
  <2>3. /\ IsRun(to) /\ to.at = "ended" /\ to.item = m.item /\ to.items = m.items /\ to.alone = m.alone
        /\ to.lost = m.lost /\ to.code = code /\ to.bad = m.bad
    BY <1>3, <2>1 DEF IsRun
  <2>4. Moves(r) /\ run'[r] = [to EXCEPT !.known = Nothing, !.held = Nothing, !.force = FALSE] /\ latest' = r
    BY <1>5, <2>3, GoesIs
  <2>5. PICK n : n = [to EXCEPT !.known = Nothing, !.held = Nothing, !.force = FALSE]
    OBVIOUS
  <2>6. /\ IsRun(n) /\ n.at = "ended" /\ n.item = m.item /\ n.items = m.items /\ n.alone = m.alone
        /\ n.lost = m.lost /\ n.code = code /\ n.bad = m.bad /\ n.known = Nothing /\ run'[r] = n
    BY <2>3, <2>4, <2>5 DEF IsRun
  <2>7. m.item = Len(m.items)
    <3>1. Len(m.items) \in Nat
      BY <1>1, <1>3
    <3> QED BY <1>1, <1>3, <1>7, <3>1
  <2> QED BY <1>2, <1>3, <2>2, <2>4, <2>5, <2>6, <2>7 DEF Passes
<1> QED BY <1>6, <1>7

\* The run goes on with its item.
Stands(r, place) ==
  /\ Moves(r) /\ IsRun(run'[r]) /\ run'[r].at = place /\ latest' = latest
  /\ run'[r].items = run[r].items /\ run'[r].item = run[r].item /\ run'[r].bad = run[r].bad
  /\ run'[r].lost = run[r].lost /\ run'[r].alone = run[r].alone /\ run'[r].code = run[r].code

LEMMA StandsIs ==
  ASSUME ScriptShapes, NEW r \in Runs, UnderWay(r), NEW place, NEW v, place # "ended"
  PROVE  /\ Goes(r, [run[r] EXCEPT !.at = place, !.held = v]) =>
              Stands(r, place) /\ run'[r].held = v /\ run'[r].known = run[r].known
         /\ Goes(r, [run[r] EXCEPT !.at = place]) =>
              Stands(r, place) /\ run'[r].held = run[r].held /\ run'[r].known = run[r].known
         /\ Goes(r, [run[r] EXCEPT !.held = v]) =>
              Stands(r, run[r].at) /\ run'[r].held = v /\ run'[r].known = run[r].known
         /\ Goes(r, [run[r] EXCEPT !.known = v]) =>
              Stands(r, run[r].at) /\ run'[r].known = v /\ run'[r].held = run[r].held
<1>1. IsRun(run[r]) /\ run[r].at # "ended"
  BY BusyIs, BegunIs DEF UnderWay
<1> DEFINE a == [run[r] EXCEPT !.at = place, !.held = v]
           b == [run[r] EXCEPT !.at = place]
           c == [run[r] EXCEPT !.held = v]
           d == [run[r] EXCEPT !.known = v]
<1>2. /\ IsRun(a) /\ a.at = place /\ a.held = v /\ a.known = run[r].known /\ a.items = run[r].items /\ a.item = run[r].item
      /\ a.bad = run[r].bad /\ a.lost = run[r].lost /\ a.alone = run[r].alone /\ a.code = run[r].code
  <2>1. PICK m, n : m = run[r] /\ n = [m EXCEPT !.at = place, !.held = v]
    OBVIOUS
  <2>2. /\ IsRun(n) /\ n.at = place /\ n.held = v /\ n.known = m.known /\ n.items = m.items /\ n.item = m.item
        /\ n.bad = m.bad /\ n.lost = m.lost /\ n.alone = m.alone /\ n.code = m.code
    BY <1>1, <2>1 DEF IsRun
  <2>3. a = n
    BY <2>1
  <2> QED BY <2>1, <2>2, <2>3
<1>3. /\ IsRun(b) /\ b.at = place /\ b.held = run[r].held /\ b.known = run[r].known /\ b.items = run[r].items
      /\ b.item = run[r].item
      /\ b.bad = run[r].bad /\ b.lost = run[r].lost /\ b.alone = run[r].alone /\ b.code = run[r].code
  BY <1>1 DEF IsRun
<1>4. /\ IsRun(c) /\ c.at = run[r].at /\ c.held = v /\ c.known = run[r].known /\ c.items = run[r].items
      /\ c.item = run[r].item
      /\ c.bad = run[r].bad /\ c.lost = run[r].lost /\ c.alone = run[r].alone /\ c.code = run[r].code
  BY <1>1 DEF IsRun
<1>5. /\ IsRun(d) /\ d.at = run[r].at /\ d.held = run[r].held /\ d.known = v /\ d.items = run[r].items
      /\ d.item = run[r].item
      /\ d.bad = run[r].bad /\ d.lost = run[r].lost /\ d.alone = run[r].alone /\ d.code = run[r].code
  BY <1>1 DEF IsRun
<1> HIDE DEF a, b, c, d
<1>6. \A to : Goes(r, to) /\ to.at # "ended" => Moves(r) /\ run'[r] = to /\ latest' = latest
  BY GoesIs
<1>7. /\ Goes(r, a) => Stands(r, place) /\ run'[r].held = v /\ run'[r].known = run[r].known
      /\ Goes(r, b) => Stands(r, place) /\ run'[r].held = run[r].held /\ run'[r].known = run[r].known
      /\ Goes(r, c) => Stands(r, run[r].at) /\ run'[r].held = v /\ run'[r].known = run[r].known
      /\ Goes(r, d) => Stands(r, run[r].at) /\ run'[r].known = v /\ run'[r].held = run[r].held
  BY <1>1, <1>2, <1>3, <1>4, <1>5, <1>6 DEF Stands
<1> QED BY <1>7 DEF a, b, c, d

\* A run begins: those under way are no longer alone.
Begins(r) ==
  /\ run' = [q \in Runs |-> run'[q]] /\ latest' = latest /\ run[r] = NotRun /\ IsRun(run'[r])
  /\ run'[r].at = "item" /\ run'[r].items = Items /\ run'[r].item = 1 /\ run'[r].known = Nothing
  /\ run'[r].bad = FALSE /\ run'[r].lost = FALSE /\ run'[r].code = "none" /\ run'[r].alone \in BOOLEAN
  /\ (run'[r].alone = TRUE <=> Quiet) /\ marred' \in BOOLEAN /\ (marred' = FALSE => marred = FALSE /\ Quiet)
  /\ \A q \in Runs \ {r} :
       /\ ~UnderWay(q) => run'[q] = run[q]
       /\ UnderWay(q) =>
            /\ IsRun(run'[q]) /\ run'[q].alone = FALSE
            /\ run'[q].at = run[q].at /\ run'[q].items = run[q].items /\ run'[q].item = run[q].item
            /\ run'[q].known = run[q].known /\ run'[q].held = run[q].held /\ run'[q].bad = run[q].bad
            /\ run'[q].lost = run[q].lost /\ run'[q].code = run[q].code

LEMMA BeginsIs ==
  ASSUME ScriptShapes, NEW r \in Runs, NEW force \in BOOLEAN, Invoke(r, force)
  PROVE  Begins(r)
<1> DEFINE others == {q \in Runs : UnderWay(q)}
           one == [at |-> "item", items |-> Items, item |-> 1, known |-> Nothing, held |-> Nothing,
                   force |-> force, bad |-> FALSE, lost |-> FALSE, alone |-> others = {}, code |-> "none"]
<1>1. /\ run' = [q \in Runs |-> IF q = r THEN one
                              ELSE IF q \in others THEN [run[q] EXCEPT !.alone = FALSE] ELSE run[q]]
      /\ marred' = (marred \/ others # {}) /\ run[r].at = "idle" /\ latest' = latest
  BY DEF Invoke
<1>2. run[r] = NotRun
  BY <1>1, BusyIs
<1>3. others = {} <=> Quiet
  BY DEF Quiet
<1>4. \A q \in Runs \ {r} : ~UnderWay(q) => run'[q] = run[q]
  BY <1>1
<1>5. ASSUME NEW q \in Runs \ {r}, UnderWay(q)
      PROVE  /\ IsRun(run'[q]) /\ run'[q].alone = FALSE
             /\ run'[q].at = run[q].at /\ run'[q].items = run[q].items /\ run'[q].item = run[q].item
             /\ run'[q].known = run[q].known /\ run'[q].held = run[q].held /\ run'[q].bad = run[q].bad
             /\ run'[q].lost = run[q].lost /\ run'[q].code = run[q].code
  <2>1. IsRun(run[q])
    BY <1>5, BusyIs, BegunIs
  <2>2. run'[q] = [run[q] EXCEPT !.alone = FALSE]
    BY <1>1, <1>5
  <2> QED BY <2>1, <2>2 DEF IsRun
<1>6. run' = [q \in Runs |-> run'[q]] /\ run'[r] = one
  BY <1>1
<1>7. marred' \in BOOLEAN /\ (marred' = FALSE => marred = FALSE /\ Quiet)
  <2>1. marred \in BOOLEAN
    BY DEF ScriptShapes
  <2>2. CASE others = {}
    BY <1>1, <1>3, <2>1, <2>2
  <2>3. CASE others # {}
    BY <1>1, <2>3
  <2> QED BY <2>2, <2>3
<1> DEFINE lone == others = {}
<1>8. lone \in BOOLEAN /\ (lone = TRUE <=> Quiet)
  BY <1>3
<1>9. one = [at |-> "item", items |-> Items, item |-> 1, known |-> Nothing, held |-> Nothing,
             force |-> force, bad |-> FALSE, lost |-> FALSE, alone |-> lone, code |-> "none"]
  OBVIOUS
<1> HIDE DEF one, others, lone
<1>10. /\ IsRun(one) /\ one.at = "item" /\ one.items = Items /\ one.item = 1 /\ one.known = Nothing
       /\ one.bad = FALSE /\ one.lost = FALSE /\ one.code = "none" /\ one.alone = lone
  <2>1. CASE lone = TRUE
    BY <1>9, <2>1 DEF IsRun
  <2>2. CASE lone = FALSE
    BY <1>9, <2>2 DEF IsRun
  <2> QED BY <1>8, <2>1, <2>2
<1> QED BY <1>1, <1>2, <1>4, <1>5, <1>6, <1>7, <1>8, <1>10 DEF Begins

\* A run under way moves in one of three ways.
Places == {"item", "fields", "loaded", "truncated", "fetching", "fetched"}
Changes(r) ==
  /\ r \in Runs /\ UnderWay(r)
  /\ \/ \E failed \in BOOLEAN : Passes(r, failed)
     \/ \E code \in {"1", "killed"} : Ends(r, code) /\ run'[r].bad = run[r].bad
     \/ \E place \in Places : Stands(r, place)

LEMMA AtIs ==
  ASSUME ScriptShapes, NEW r \in Runs, NEW name, NEW place \in Places, At(r, name, place)
  PROVE  UnderWay(r) /\ run[r].at = place /\ script = name
BY DEF At, UnderWay, Places

LEMMA LossIs ==
  ASSUME ScriptShapes, NEW r \in Runs
  PROVE  /\ Lose(r) => /\ UnderWay(r) /\ Ends(r, "1") /\ run'[r].bad = run[r].bad /\ run'[r].lost = TRUE
                       /\ script \in {"migrate", "qdrant", "neo4j"}
                       /\ UNCHANGED <<script, database, payload, knowledge, docs, disk, marred>>
         /\ Kill(r) => /\ UnderWay(r) /\ Ends(r, "killed") /\ run'[r].bad = run[r].bad /\ run'[r].lost = run[r].lost
                       /\ UNCHANGED <<script, database, payload, knowledge, docs, disk>> /\ marred' \in BOOLEAN
                       /\ (marred' = FALSE => marred = FALSE /\ run[r].at \notin {"truncated", "fetching"})
<1>1. Lose(r) => /\ UnderWay(r) /\ Ends(r, "1") /\ run'[r].bad = run[r].bad /\ run'[r].lost = TRUE
                 /\ script \in {"migrate", "qdrant", "neo4j"}
                 /\ UNCHANGED <<script, database, payload, knowledge, docs, disk, marred>>
  BY EndsIs DEF Lose
<1>2. Kill(r) => /\ UnderWay(r) /\ Ends(r, "killed") /\ run'[r].bad = run[r].bad /\ run'[r].lost = run[r].lost
                 /\ UNCHANGED <<script, database, payload, knowledge, docs, disk>>
  BY EndsIs DEF Kill
<1>3. ASSUME Kill(r)
      PROVE  marred' \in BOOLEAN /\ (marred' = FALSE => marred = FALSE /\ run[r].at \notin {"truncated", "fetching"})
  <2>1. marred' = (marred \/ run[r].at \in {"truncated", "fetching"}) /\ marred \in BOOLEAN
    BY <1>3 DEF Kill, ScriptShapes
  <2>2. CASE run[r].at \in {"truncated", "fetching"}
    BY <2>1, <2>2
  <2>3. CASE run[r].at \notin {"truncated", "fetching"}
    BY <2>1, <2>3
  <2> QED BY <2>2, <2>3
<1> QED BY <1>1, <1>2, <1>3

LEMMA MigrateChanges ==
  ASSUME ScriptShapes, NEW r \in Runs, Apply(r)
  PROVE  /\ Changes(r) /\ run[r].at = "item" /\ script = "migrate"
         /\ UNCHANGED <<script, shipped, written, payload, knowledge, docs, disk, marred>>
         /\ \/ /\ Passes(r, FALSE) /\ (FileOf(r) # {} => allowed' = FileOf(r))
            \/ /\ Ends(r, "1") /\ run'[r].bad = run[r].bad /\ run'[r].lost = run[r].lost
               /\ FileOf(r) # {} /\ ~(written \subseteq FileOf(r)) /\ allowed' = allowed
<1>1. UnderWay(r) /\ run[r].at = "item" /\ script = "migrate"
  BY AtIs DEF Apply, Places
<1>2. UNCHANGED <<script, shipped, written, payload, knowledge, docs, disk, marred>>
  BY DEF Apply
<1>3. \/ /\ Goes(r, After(r, FALSE)) /\ (FileOf(r) # {} => allowed' = FileOf(r))
      \/ Goes(r, Aborted(r)) /\ FileOf(r) # {} /\ ~(written \subseteq FileOf(r)) /\ allowed' = allowed
  BY DEF Apply
<1>4. \/ /\ Passes(r, FALSE) /\ (FileOf(r) # {} => allowed' = FileOf(r))
      \/ /\ Ends(r, "1") /\ run'[r].bad = run[r].bad /\ run'[r].lost = run[r].lost
         /\ FileOf(r) # {} /\ ~(written \subseteq FileOf(r)) /\ allowed' = allowed
  BY <1>1, <1>3, PassesIs, EndsIs
<1> QED BY <1>1, <1>2, <1>4 DEF Changes

LEMMA ListChanges ==
  ASSUME ScriptShapes, NEW r \in Runs, List(r)
  PROVE  /\ Changes(r) /\ run[r].at = "item" /\ script = "qdrant" /\ run[r].known = Nothing
         /\ UNCHANGED <<script, database, payload, knowledge, docs, disk, marred>>
         /\ Stands(r, "item") /\ run'[r].known = {c \in ToSet(CollectionSpecs) : payload[c] # Nothing}
<1>1. UnderWay(r) /\ run[r].at = "item" /\ script = "qdrant"
  BY AtIs DEF List, Places
<1> DEFINE found == {c \in ToSet(CollectionSpecs) : payload[c] # Nothing}
<1>2. run[r].known = Nothing /\ Goes(r, [run[r] EXCEPT !.known = found])
  BY DEF List
<1>3. UNCHANGED <<script, database, payload, knowledge, docs, disk, marred>>
  BY DEF List
<1> HIDE DEF found
<1>4. Stands(r, "item") /\ run'[r].known = found
  BY <1>1, <1>2, StandsIs
<1> QED BY <1>1, <1>2, <1>3, <1>4 DEF Changes, Places, found

LEMMA CreateChanges ==
  ASSUME ScriptShapes, NEW r \in Runs, Create(r)
  PROVE  /\ Changes(r) /\ run[r].at = "item" /\ script = "qdrant" /\ run[r].known # Nothing
         /\ UNCHANGED <<script, database, knowledge, docs, disk, marred>>
         /\ \/ /\ Item(r) \in run[r].known /\ payload' = payload
               /\ Stands(r, "fields") /\ run'[r].held = {} /\ run'[r].known = run[r].known
            \/ /\ Item(r) \notin run[r].known /\ payload[Item(r)] = Nothing /\ payload' = [payload EXCEPT ![Item(r)] = {}]
               /\ Stands(r, "fields") /\ run'[r].held = {} /\ run'[r].known = run[r].known
            \/ /\ Item(r) \notin run[r].known /\ payload[Item(r)] # Nothing /\ payload' = payload
               /\ Ends(r, "1") /\ run'[r].bad = run[r].bad /\ run'[r].lost = run[r].lost
<1>1. UnderWay(r) /\ run[r].at = "item" /\ script = "qdrant"
  BY AtIs DEF Create, Places
<1> DEFINE to == [run[r] EXCEPT !.at = "fields", !.held = {}]
<1>2. run[r].known # Nothing /\ UNCHANGED <<script, database, knowledge, docs, disk, marred>>
  BY DEF Create
<1>3. \/ Item(r) \in run[r].known /\ payload' = payload /\ Goes(r, to)
      \/ /\ Item(r) \notin run[r].known /\ payload[Item(r)] = Nothing /\ payload' = [payload EXCEPT ![Item(r)] = {}]
         /\ Goes(r, to)
      \/ Item(r) \notin run[r].known /\ payload[Item(r)] # Nothing /\ payload' = payload /\ Goes(r, Aborted(r))
  BY DEF Create
<1>4. Goes(r, to) => Stands(r, "fields") /\ run'[r].held = {} /\ run'[r].known = run[r].known
  BY <1>1, StandsIs
<1>5. Goes(r, Aborted(r)) => Ends(r, "1") /\ run'[r].bad = run[r].bad /\ run'[r].lost = run[r].lost
  BY <1>1, EndsIs
<1> HIDE DEF to
<1> QED BY <1>1, <1>2, <1>3, <1>4, <1>5 DEF Changes, Places

LEMMA IndexChanges ==
  ASSUME ScriptShapes, NEW r \in Runs, NEW f \in PayloadIndexes, IndexField(r, f)
  PROVE  /\ Changes(r) /\ run[r].at = "fields" /\ script = "qdrant"
         /\ UNCHANGED <<script, database, knowledge, docs, disk, marred>>
         /\ payload' = [payload EXCEPT ![Item(r)] = @ \cup {f}]
         /\ \/ Passes(r, FALSE) /\ run[r].held \cup {f} = PayloadIndexes
            \/ Stands(r, "fields") /\ run'[r].held = run[r].held \cup {f} /\ run'[r].known = run[r].known
<1>1. UnderWay(r) /\ run[r].at = "fields" /\ script = "qdrant"
  BY AtIs DEF IndexField, Places
<1> DEFINE have == run[r].held \cup {f}
<1>2. /\ UNCHANGED <<script, database, knowledge, docs, disk, marred>> /\ payload' = [payload EXCEPT ![Item(r)] = @ \cup {f}]
      /\ \/ have = PayloadIndexes /\ Goes(r, After(r, FALSE))
         \/ Goes(r, [run[r] EXCEPT !.held = have])
  BY DEF IndexField
<1> HIDE DEF have
<1>3. Goes(r, After(r, FALSE)) => Passes(r, FALSE)
  BY <1>1, PassesIs
<1>4. Goes(r, [run[r] EXCEPT !.held = have]) =>
        Stands(r, "fields") /\ run'[r].held = have /\ run'[r].known = run[r].known
  BY <1>1, StandsIs
<1> QED BY <1>1, <1>2, <1>3, <1>4 DEF Changes, Places, have

LEMMA ConstrainChanges ==
  ASSUME ScriptShapes, NEW r \in Runs, Constrain(r)
  PROVE  /\ Changes(r) /\ run[r].at = "item" /\ script = "neo4j"
         /\ UNCHANGED <<script, database, payload, twins, docs, disk, marred>>
         /\ \/ /\ Item(r) \in twins /\ unique' = unique /\ Ends(r, "1")
               /\ run'[r].bad = run[r].bad /\ run'[r].lost = run[r].lost
            \/ Item(r) \notin twins /\ unique' = unique \cup {Item(r)} /\ Passes(r, FALSE)
<1>1. UnderWay(r) /\ run[r].at = "item" /\ script = "neo4j"
  BY AtIs DEF Constrain, Places
<1>2. /\ UNCHANGED <<script, database, payload, twins, docs, disk, marred>>
      /\ \/ Item(r) \in twins /\ unique' = unique /\ Goes(r, Aborted(r))
         \/ Item(r) \notin twins /\ unique' = unique \cup {Item(r)} /\ Goes(r, After(r, FALSE))
  BY DEF Constrain
<1>3. Goes(r, After(r, FALSE)) => Passes(r, FALSE)
  BY <1>1, PassesIs
<1>4. Goes(r, Aborted(r)) => Ends(r, "1") /\ run'[r].bad = run[r].bad /\ run'[r].lost = run[r].lost
  BY <1>1, EndsIs
<1> QED BY <1>1, <1>2, <1>3, <1>4 DEF Changes

LEMMA LoadChanges ==
  ASSUME ScriptShapes, NEW r \in Runs, Load(r)
  PROVE  /\ Changes(r) /\ run[r].at = "item" /\ script = "acl"
         /\ UNCHANGED <<script, database, payload, knowledge, docs, disk, marred>>
         /\ \/ Item(r) \in Broken /\ Passes(r, TRUE)
            \/ Item(r) \notin Broken /\ doc[Item(r)].acl # Nothing /\ Passes(r, FALSE)
            \/ /\ Item(r) \notin Broken /\ doc[Item(r)].acl = Nothing
               /\ Stands(r, "loaded") /\ run'[r].held = doc[Item(r)]
<1>1. UnderWay(r) /\ run[r].at = "item" /\ script = "acl"
  BY AtIs DEF Load, Places
<1> DEFINE one == doc[Item(r)]
<1>2. /\ UNCHANGED <<script, database, payload, knowledge, docs, disk, marred>>
      /\ \/ Item(r) \in Broken /\ Goes(r, After(r, TRUE))
         \/ Item(r) \notin Broken /\ one.acl # Nothing /\ Goes(r, After(r, FALSE))
         \/ Item(r) \notin Broken /\ one.acl = Nothing /\ Goes(r, [run[r] EXCEPT !.at = "loaded", !.held = one])
  BY DEF Load
<1> HIDE DEF one
<1>3. (Goes(r, After(r, FALSE)) => Passes(r, FALSE)) /\ (Goes(r, After(r, TRUE)) => Passes(r, TRUE))
  BY <1>1, PassesIs
<1>4. Goes(r, [run[r] EXCEPT !.at = "loaded", !.held = one]) => Stands(r, "loaded") /\ run'[r].held = one
  BY <1>1, StandsIs, ZenonT(40)
<1>5. \/ Item(r) \in Broken /\ Passes(r, TRUE)
      \/ Item(r) \notin Broken /\ one.acl # Nothing /\ Passes(r, FALSE)
      \/ Item(r) \notin Broken /\ one.acl = Nothing /\ Stands(r, "loaded") /\ run'[r].held = one
  BY <1>2, <1>3, <1>4
<1>6. Changes(r)
  <2>1. (Passes(r, TRUE) \/ Passes(r, FALSE)) => Changes(r)
    BY <1>1 DEF Changes
  <2>2. Stands(r, "loaded") => Changes(r)
    BY <1>1 DEF Changes, Places
  <2> QED BY <1>5, <2>1, <2>2
<1> QED BY <1>1, <1>2, <1>5, <1>6 DEF one

LEMMA TruncateChanges ==
  ASSUME ScriptShapes, NEW r \in Runs, Truncate(r)
  PROVE  /\ Changes(r) /\ run[r].at = "loaded" /\ script = "acl"
         /\ UNCHANGED <<script, database, payload, knowledge, meant, disk, marred>>
         /\ doc' = [doc EXCEPT ![Item(r)] = Blank] /\ Stands(r, "truncated") /\ run'[r].held = run[r].held
<1>1. UnderWay(r) /\ run[r].at = "loaded" /\ script = "acl"
  BY AtIs DEF Truncate, Places
<1>2. /\ UNCHANGED <<script, database, payload, knowledge, meant, disk, marred>> /\ doc' = [doc EXCEPT ![Item(r)] = Blank]
      /\ Goes(r, [run[r] EXCEPT !.at = "truncated"])
  BY DEF Truncate
<1>3. Stands(r, "truncated") /\ run'[r].held = run[r].held
  BY <1>1, <1>2, StandsIs
<1> QED BY <1>1, <1>2, <1>3 DEF Changes, Places

LEMMA WriteChanges ==
  ASSUME ScriptShapes, NEW r \in Runs, WriteDoc(r)
  PROVE  /\ Changes(r) /\ run[r].at = "truncated" /\ script = "acl" /\ Passes(r, FALSE)
         /\ UNCHANGED <<script, database, payload, knowledge, meant, disk, marred>>
         /\ doc' = [doc EXCEPT ![Item(r)] = [run[r].held EXCEPT !.acl = LevelOf(run[r].held.audience)]]
<1>1. UnderWay(r) /\ run[r].at = "truncated" /\ script = "acl"
  BY AtIs DEF WriteDoc, Places
<1>2. /\ UNCHANGED <<script, database, payload, knowledge, meant, disk, marred>> /\ Goes(r, After(r, FALSE))
      /\ doc' = [doc EXCEPT ![Item(r)] = [run[r].held EXCEPT !.acl = LevelOf(run[r].held.audience)]]
  BY DEF WriteDoc
<1>3. Passes(r, FALSE)
  BY <1>1, <1>2, PassesIs
<1> QED BY <1>1, <1>2, <1>3 DEF Changes

LEMMA CheckChanges ==
  ASSUME ScriptShapes, NEW r \in Runs, CheckDataset(r)
  PROVE  /\ Changes(r) /\ run[r].at = "item" /\ script = "datasets"
         /\ UNCHANGED <<script, database, payload, knowledge, docs, sums, served, marred>>
         /\ \/ /\ local[Item(r)] # "absent" /\ local' = local
               /\ \E failed \in BOOLEAN : /\ Passes(r, failed)
                                          /\ failed = FALSE => sums[Item(r)] \in {Nothing, local[Item(r)]}
            \/ /\ local' = [local EXCEPT ![Item(r)] = "partial"]
               /\ Stands(r, "fetching") /\ run'[r].held = sums[Item(r)]
<1>1. UnderWay(r) /\ run[r].at = "item" /\ script = "datasets"
  BY AtIs DEF CheckDataset, Places
<1> DEFINE bad == sums[Item(r)] \notin {Nothing, local[Item(r)]}
           sum == sums[Item(r)]
<1>2. /\ UNCHANGED <<script, database, payload, knowledge, docs, sums, served, marred>>
      /\ \/ local[Item(r)] # "absent" /\ local' = local /\ Goes(r, After(r, bad))
         \/ /\ local' = [local EXCEPT ![Item(r)] = "partial"]
            /\ Goes(r, [run[r] EXCEPT !.at = "fetching", !.held = sum])
  BY DEF CheckDataset
<1>3. bad \in BOOLEAN /\ (bad = FALSE => sums[Item(r)] \in {Nothing, local[Item(r)]})
  OBVIOUS
<1> HIDE DEF bad, sum
<1>4. Goes(r, After(r, bad)) => Passes(r, bad)
  BY <1>1, <1>3, PassesIs
<1>5. Goes(r, [run[r] EXCEPT !.at = "fetching", !.held = sum]) => Stands(r, "fetching") /\ run'[r].held = sum
  BY <1>1, StandsIs, ZenonT(40)
<1>6. \/ local[Item(r)] # "absent" /\ local' = local /\ Passes(r, bad)
      \/ /\ local' = [local EXCEPT ![Item(r)] = "partial"]
         /\ Stands(r, "fetching") /\ run'[r].held = sum
  BY <1>2, <1>4, <1>5
<1>7. Changes(r)
  <2>1. Passes(r, bad) => Changes(r)
    BY <1>1, <1>3 DEF Changes
  <2>2. Stands(r, "fetching") => Changes(r)
    BY <1>1 DEF Changes, Places
  <2> QED BY <1>6, <2>1, <2>2
<1> QED BY <1>1, <1>2, <1>3, <1>6, <1>7 DEF sum

LEMMA FetchChanges ==
  ASSUME ScriptShapes, NEW r \in Runs, Fetched(r) \/ FetchFails(r)
  PROVE  /\ Changes(r) /\ run[r].at = "fetching" /\ script = "datasets"
         /\ UNCHANGED <<script, database, payload, knowledge, docs, sums, served, marred>>
         /\ \/ /\ local' = [local EXCEPT ![Item(r)] = served]
               /\ Stands(r, "fetched") /\ run'[r].held = run[r].held
            \/ local' = [local EXCEPT ![Item(r)] = "absent"] /\ Passes(r, TRUE)
<1>1. UnderWay(r) /\ run[r].at = "fetching" /\ script = "datasets"
  BY AtIs DEF Fetched, FetchFails, Places
<1>2. /\ UNCHANGED <<script, database, payload, knowledge, docs, sums, served, marred>>
      /\ \/ local' = [local EXCEPT ![Item(r)] = served] /\ Goes(r, [run[r] EXCEPT !.at = "fetched"])
         \/ local' = [local EXCEPT ![Item(r)] = "absent"] /\ Goes(r, After(r, TRUE))
  BY DEF Fetched, FetchFails
<1>3. Goes(r, After(r, TRUE)) => Passes(r, TRUE)
  BY <1>1, PassesIs
<1>4. Goes(r, [run[r] EXCEPT !.at = "fetched"]) => Stands(r, "fetched") /\ run'[r].held = run[r].held
  BY <1>1, StandsIs
<1> QED BY <1>1, <1>2, <1>3, <1>4 DEF Changes, Places

LEMMA VerifyChanges ==
  ASSUME ScriptShapes, NEW r \in Runs, Verify(r)
  PROVE  LET d == Item(r) IN
         /\ Changes(r) /\ run[r].at = "fetched" /\ script = "datasets"
         /\ UNCHANGED <<script, database, payload, knowledge, docs, served, marred>>
         /\ \/ local[d] = "absent" /\ Ends(r, "1") /\ UNCHANGED <<local, sums>>
            \/ /\ local[d] # "absent" /\ run[r].held = Nothing /\ sums' = [sums EXCEPT ![d] = local[d]]
               /\ Passes(r, FALSE) /\ UNCHANGED local
            \/ local[d] # "absent" /\ run[r].held = local[d] /\ Passes(r, FALSE) /\ UNCHANGED <<local, sums>>
            \/ local' = [local EXCEPT ![d] = "absent"] /\ Passes(r, TRUE) /\ UNCHANGED sums
<1>1. UnderWay(r) /\ run[r].at = "fetched" /\ script = "datasets"
  BY AtIs DEF Verify, Places
<1> DEFINE d == Item(r)
<1>2. /\ UNCHANGED <<script, database, payload, knowledge, docs, served, marred>>
      /\ \/ local[d] = "absent" /\ Goes(r, Aborted(r)) /\ UNCHANGED <<local, sums>>
         \/ /\ local[d] # "absent" /\ run[r].held = Nothing /\ sums' = [sums EXCEPT ![d] = local[d]]
            /\ Goes(r, After(r, FALSE)) /\ UNCHANGED local
         \/ local[d] # "absent" /\ run[r].held = local[d] /\ Goes(r, After(r, FALSE)) /\ UNCHANGED <<local, sums>>
         \/ local' = [local EXCEPT ![d] = "absent"] /\ Goes(r, After(r, TRUE)) /\ UNCHANGED sums
  BY DEF Verify
<1>3. (Goes(r, After(r, FALSE)) => Passes(r, FALSE)) /\ (Goes(r, After(r, TRUE)) => Passes(r, TRUE))
  BY <1>1, PassesIs
<1>4. Goes(r, Aborted(r)) => Ends(r, "1") /\ run'[r].bad = run[r].bad
  BY <1>1, EndsIs
<1> HIDE DEF d
<1>5. Changes(r)
  BY <1>1, <1>2, <1>3, <1>4 DEF Changes
<1> QED BY <1>1, <1>2, <1>3, <1>4, <1>5 DEF d

\* Every step is a run's, a run that begins, or the world's.
Apart ==
  \/ \E t \in UNION ToSet(Files) : InsertAction(t)
  \/ \E l \in ToSet(Constraints) : MergeTwice(l)
  \/ \E d \in ToSet(Docs) : EditLevel(d)
  \/ Release \/ Republish
  \/ UNCHANGED provars

Works(r) ==
  \/ Lose(r) \/ Kill(r) \/ Apply(r) \/ List(r) \/ Create(r) \/ Constrain(r)
  \/ \E f \in PayloadIndexes : IndexField(r, f)
  \/ Load(r) \/ Truncate(r) \/ WriteDoc(r)
  \/ CheckDataset(r) \/ Fetched(r) \/ FetchFails(r) \/ Verify(r)

LEMMA StepKinds ==
  ASSUME ScriptShapes, [ProvNext]_provars
  PROVE  \/ \E r \in Runs, force \in BOOLEAN : Invoke(r, force)
         \/ \E r \in Runs : Works(r)
         \/ Apart
<1>1. ASSUME NEW i \in 1..shipped, NEW t \in Files[i], InsertAction(t) PROVE Apart
  <2>1. i \in DOMAIN Files
    BY ProvisioningAssumption DEF ScriptShapes
  <2>2. t \in UNION ToSet(Files)
    BY <2>1 DEF ToSet
  <2> QED BY <1>1, <2>2 DEF Apart
<1> QED BY <1>1 DEF ProvNext, Works, Apart

LEMMA WorksIs ==
  ASSUME ScriptShapes, NEW r \in Runs, Works(r)
  PROVE  /\ Changes(r) /\ UNCHANGED <<script, shipped, written, twins, meant, served>>
         /\ marred' \in BOOLEAN /\ (marred' = FALSE => marred = FALSE)
<1>0. marred \in BOOLEAN
  BY DEF ScriptShapes
<1>1. CASE Lose(r) \/ Kill(r)
  BY <1>0, <1>1, LossIs DEF Changes, database, knowledge, docs, disk
<1>2. CASE Apply(r) \/ List(r) \/ Create(r) \/ Constrain(r) \/ \E f \in PayloadIndexes : IndexField(r, f)
  BY <1>0, <1>2, MigrateChanges, ListChanges, CreateChanges, ConstrainChanges, IndexChanges
     DEF database, knowledge, docs, disk
<1>3. CASE Load(r) \/ Truncate(r) \/ WriteDoc(r) \/ CheckDataset(r) \/ Fetched(r) \/ FetchFails(r) \/ Verify(r)
  BY <1>0, <1>3, LoadChanges, TruncateChanges, WriteChanges, CheckChanges, FetchChanges, VerifyChanges
     DEF database, knowledge, docs, disk
<1> QED BY <1>1, <1>2, <1>3 DEF Works

LEMMA ApartIs ==
  ASSUME ScriptShapes, Apart
  PROVE  /\ UNCHANGED <<script, run, latest>> /\ marred' \in BOOLEAN /\ (marred' = FALSE => marred = FALSE)
         /\ shipped' \in 1..Len(Files) /\ shipped' >= shipped
         /\ shipped' # shipped => script = "migrate" /\ written' = written /\ allowed' = allowed
<1>0. marred \in BOOLEAN /\ shipped \in 1..Len(Files) /\ Len(Files) \in Nat
  BY ProvisioningAssumption DEF ScriptShapes
<1>1. ASSUME NEW d \in ToSet(Docs), EditLevel(d)
      PROVE  marred' \in BOOLEAN /\ (marred' = FALSE => marred = FALSE)
  <2> DEFINE held == \E r \in Runs : run[r].at = "loaded" /\ Item(r) = d
  <2>1. marred' = (marred \/ held)
    BY <1>1 DEF EditLevel
  <2> HIDE DEF held
  <2>2. CASE held
    BY <2>1, <2>2
  <2>3. CASE ~held
    BY <1>0, <2>1, <2>3
  <2> QED BY <2>2, <2>3
<1>2. UNCHANGED <<script, run, latest>>
  BY DEF Apart, InsertAction, MergeTwice, EditLevel, Release, Republish, provars
<1>3. (marred' = marred /\ ~\E d \in ToSet(Docs) : EditLevel(d)) \/ \E d \in ToSet(Docs) : EditLevel(d)
  BY DEF Apart, InsertAction, MergeTwice, Release, Republish, provars
<1>4. /\ shipped' \in 1..Len(Files) /\ shipped' >= shipped
      /\ shipped' # shipped => script = "migrate" /\ written' = written /\ allowed' = allowed
  BY <1>0 DEF Apart, InsertAction, MergeTwice, EditLevel, Release, Republish, provars, database
<1> QED BY <1>0, <1>1, <1>2, <1>3, <1>4

LEMMA ChangesAre ==
  ASSUME ScriptShapes, NEW r \in Runs, Changes(r)
  PROVE  /\ Moves(r) /\ IsRun(run'[r]) /\ run[r] # NotRun /\ run'[r].at \in Places \cup {"ended"}
         /\ run'[r].items = run[r].items /\ run'[r].item \in 1..Len(run[r].items) /\ run'[r].item >= run[r].item
         /\ run'[r].alone = run[r].alone
         /\ run'[r].bad \in BOOLEAN /\ run'[r].lost \in BOOLEAN /\ run'[r].code \in {"none", "0", "1", "killed"}
         /\ (run'[r].code = "none" <=> run'[r].at # "ended")
         /\ \/ run'[r].at = "ended" /\ latest' = r
            \/ run'[r].at \in Places /\ latest' = latest
<1>1. /\ Begun(r) /\ run[r] # NotRun /\ run[r].item \in 1..Len(run[r].items) /\ run[r].code = "none"
      /\ run[r].bad \in BOOLEAN /\ run[r].lost \in BOOLEAN
  BY BusyIs, BegunIs DEF Changes, Begun
<1>2. CASE \E failed \in BOOLEAN : Passes(r, failed)
  BY <1>1, <1>2 DEF Passes, Places
<1>3. CASE \E code \in {"1", "killed"} : Ends(r, code) /\ run'[r].bad = run[r].bad
  BY <1>1, <1>3 DEF Ends
<1>4. CASE \E place \in Places : Stands(r, place)
  BY <1>1, <1>4 DEF Stands, Places
<1> QED BY <1>2, <1>3, <1>4 DEF Changes

LEMMA ShapesMoved ==
  ASSUME ScriptShapes, NEW r \in Runs, Changes(r), script' = script, shipped' = shipped, marred' \in BOOLEAN
  PROVE  ScriptShapes'
<1>1. Begun(r)'
  <2>1. Listed(run[r].items)
    BY BusyIs, BegunIs DEF Changes
  <2>2. Listed(run[r].items)'
    BY <2>1, ChangesAre DEF Listed
  <2>3. run'[r].alone \in BOOLEAN
    BY BusyIs, BegunIs, ChangesAre DEF Changes, Begun
  <2> QED BY <2>2, <2>3, ChangesAre DEF Begun, Places
<1>2. ASSUME NEW q \in Runs \ {r} PROVE run'[q] = NotRun \/ Begun(q)'
  <2>1. run'[q] = run[q] /\ (run[q] = NotRun \/ Begun(q))
    BY ChangesAre DEF ScriptShapes, Moves
  <2> QED BY <2>1 DEF Begun, Listed
<1>3. latest' = Nothing \/ (latest' \in Runs /\ run'[latest'].at = "ended")
  <2>1. run[r].at # "ended"
    BY DEF Changes, UnderWay
  <2> QED BY <2>1, ChangesAre DEF ScriptShapes, Moves
<1> QED BY <1>1, <1>2, <1>3, ChangesAre DEF ScriptShapes, Moves, NotRun

LEMMA ItemsListed ==
  ASSUME ScriptShapes
  PROVE  Listed(Items) /\ 1 \in 1..Len(Items)
<1>1. CASE script = "migrate"
  <2>1. Items = SubSeq(Files, 1, shipped) /\ shipped \in 1..Len(Files) /\ Files \in Seq(ToSet(Files))
    BY <1>1, ProvisioningAssumption DEF Items, ScriptShapes
  <2>2. Len(SubSeq(Files, 1, shipped)) = shipped /\ shipped >= 1
    BY <2>1
  <2> QED BY <1>1, <2>1, <2>2 DEF Listed
<1>2. CASE script # "migrate"
  <2>1. Items \in {CollectionSpecs, Constraints, Docs, Datasets} /\ Listed(Items)
    BY <1>2 DEF Items, Listed, ScriptShapes
  <2>2. \A s \in {CollectionSpecs, Constraints, Docs, Datasets} : Len(s) \in Nat /\ Len(s) > 0
    BY ProvisioningAssumption
  <2> QED BY <2>1, <2>2
<1> QED BY <1>1, <1>2

LEMMA ShapesBegun ==
  ASSUME ScriptShapes, NEW r \in Runs, Begins(r), script' = script, shipped' = shipped
  PROVE  ScriptShapes'
<1>1. Listed(Items) /\ 1 \in 1..Len(Items)
  BY ItemsListed
<1>2. Begun(r)'
  <2>1. run'[r].items = Items /\ run'[r].item = 1 /\ IsRun(run'[r]) /\ run'[r].at = "item"
        /\ run'[r].bad = FALSE /\ run'[r].lost = FALSE /\ run'[r].code = "none" /\ run'[r].alone \in BOOLEAN
    BY DEF Begins
  <2>2. PICK s : s = Items
    OBVIOUS
  <2>3. Listed(s)'
    BY <1>1, <2>2 DEF Listed
  <2>4. Listed(run[r].items)'
    BY <2>1, <2>2, <2>3 DEF Listed
  <2> QED BY <1>1, <2>1, <2>4 DEF Begun
<1>3. ASSUME NEW q \in Runs \ {r} PROVE run'[q] = NotRun \/ Begun(q)'
  <2>1. CASE ~UnderWay(q)
    <3>1. run'[q] = run[q] /\ (run[q] = NotRun \/ Begun(q))
      BY <2>1 DEF ScriptShapes, Begins
    <3> QED BY <3>1 DEF Begun, Listed
  <2>2. CASE UnderWay(q)
    <3>1. Begun(q)
      BY <2>2, BusyIs, BegunIs
    <3>2. /\ IsRun(run'[q]) /\ run'[q].alone = FALSE
          /\ run'[q].at = run[q].at /\ run'[q].items = run[q].items /\ run'[q].item = run[q].item
          /\ run'[q].bad = run[q].bad /\ run'[q].lost = run[q].lost /\ run'[q].code = run[q].code
      BY <2>2 DEF Begins
    <3> QED BY <3>1, <3>2 DEF Begun, Listed
  <2> QED BY <2>1, <2>2
<1>4. latest' = Nothing \/ (latest' \in Runs /\ run'[latest'].at = "ended")
  <2>1. latest' = latest /\ NotRun.at # "ended" /\ run[r] = NotRun
    BY DEF Begins, NotRun
  <2>2. ASSUME latest # Nothing PROVE latest \in Runs \ {r} /\ ~UnderWay(latest) /\ run[latest].at = "ended"
    BY <2>1, <2>2 DEF ScriptShapes, UnderWay
  <2> QED BY <2>1, <2>2 DEF Begins
<1> QED BY <1>2, <1>3, <1>4 DEF ScriptShapes, Begins, NotRun

LEMMA ShapesApart ==
  ASSUME ScriptShapes, Apart
  PROVE  ScriptShapes'
<1>1. ASSUME NEW q \in Runs PROVE run'[q] = NotRun \/ Begun(q)'
  <2>1. /\ run'[q] = run[q] /\ (run[q] = NotRun \/ Begun(q)) /\ script' = script
        /\ shipped \in Nat /\ shipped' \in Nat /\ shipped' >= shipped
    <3>1. Len(Files) \in Nat /\ shipped \in 1..Len(Files) /\ (run[q] = NotRun \/ Begun(q))
      BY ProvisioningAssumption DEF ScriptShapes
    <3>2. run' = run /\ script' = script /\ shipped' \in 1..Len(Files) /\ shipped' >= shipped
      BY ApartIs
    <3> QED BY <3>1, <3>2
  <2>2. Listed(run[q].items) => Listed(run[q].items)'
    BY <2>1 DEF Listed
  <2> QED BY <2>1, <2>2 DEF Begun
<1>2. UNCHANGED <<script, run, latest>> /\ marred' \in BOOLEAN /\ shipped' \in 1..Len(Files)
  BY ApartIs
<1> QED BY <1>1, <1>2 DEF ScriptShapes, NotRun

LEMMA ShapesStep ==
  ASSUME ScriptShapes, [ProvNext]_provars
  PROVE  ScriptShapes'
<1>1. ASSUME NEW r \in Runs, NEW force \in BOOLEAN, Invoke(r, force) PROVE ScriptShapes'
  BY <1>1, BeginsIs, ShapesBegun DEF Invoke, database
<1>2. ASSUME NEW r \in Runs, Works(r) PROVE ScriptShapes'
  BY <1>2, WorksIs, ShapesMoved
<1> QED BY <1>1, <1>2, StepKinds, ShapesApart

LEMMA OverlapsStep ==
  ASSUME ScriptShapes, Overlaps, [ProvNext]_provars
  PROVE  Overlaps'
<1>1. ASSUME NEW r \in Runs, Begins(r) PROVE Overlaps'
  <2>1. ASSUME NEW p \in Runs, NEW q \in Runs, UnderWay(p)', UnderWay(q)', p # q
        PROVE  ~Quiet /\ (run'[p].alone = TRUE => FALSE)
    <3>1. \A s \in Runs \ {r} : UnderWay(s)' => UnderWay(s) /\ run'[s].alone = FALSE
      BY <1>1 DEF Begins, UnderWay
    <3>2. p # r \/ q # r
      BY <2>1
    <3>3. ~Quiet
      BY <2>1, <3>1, <3>2 DEF Quiet
    <3>4. run'[r].alone = TRUE <=> Quiet
      BY <1>1 DEF Begins
    <3> QED BY <2>1, <3>1, <3>3, <3>4
  <2>2. marred' = FALSE => Quiet
    BY <1>1 DEF Begins
  <2>3. marred' \in BOOLEAN /\ \A s \in Runs : UnderWay(s)' => run'[s].alone \in BOOLEAN
    <3>1. run'[r].alone \in BOOLEAN /\ marred' \in BOOLEAN
      BY <1>1 DEF Begins
    <3>2. \A s \in Runs \ {r} : UnderWay(s)' => run'[s].alone = FALSE
      BY <1>1 DEF Begins, UnderWay
    <3> QED BY <3>1, <3>2
  <2> HIDE DEF Quiet
  <2> QED BY <2>1, <2>2, <2>3 DEF Overlaps
<1>2. ASSUME NEW r \in Runs, Works(r) PROVE Overlaps'
  <2>1. Changes(r) /\ Moves(r) /\ run'[r].alone = run[r].alone /\ marred' \in BOOLEAN /\ (marred' = FALSE => marred = FALSE)
    BY <1>2, WorksIs, ChangesAre
  <2>2. \A q \in Runs : run'[q].alone = run[q].alone /\ (UnderWay(q)' => UnderWay(q))
    BY <2>1 DEF Moves, Changes, UnderWay
  <2> QED BY <2>1, <2>2 DEF Overlaps
<1>3. CASE Apart
  BY <1>3, ApartIs DEF Overlaps, UnderWay
<1> QED BY <1>1, <1>2, <1>3, StepKinds, BeginsIs

\* What each script does, and what happens beside it.
LEMMA ScriptSteps ==
  ASSUME ScriptShapes, [ProvNext]_provars
  PROVE  /\ script' = script
         /\ script = "migrate" =>
              \/ \E r \in Runs : Begins(r) /\ UNCHANGED database
              \/ \E r \in Runs : Lose(r) \/ Kill(r) \/ Apply(r)
              \/ Release \/ (\E t \in UNION ToSet(Files) : InsertAction(t)) \/ UNCHANGED provars
         /\ script = "qdrant" =>
              \/ \E r \in Runs : Begins(r) /\ UNCHANGED payload
              \/ \E r \in Runs : Lose(r) \/ Kill(r) \/ List(r) \/ Create(r) \/ \E f \in PayloadIndexes : IndexField(r, f)
              \/ UNCHANGED provars
         /\ script = "neo4j" =>
              \/ \E r \in Runs : Begins(r) /\ UNCHANGED knowledge
              \/ \E r \in Runs : Lose(r) \/ Kill(r) \/ Constrain(r)
              \/ (\E l \in ToSet(Constraints) : MergeTwice(l)) \/ UNCHANGED provars
         /\ script = "acl" =>
              \/ \E r \in Runs : Begins(r) /\ UNCHANGED docs
              \/ \E r \in Runs : Kill(r) \/ Load(r) \/ Truncate(r) \/ WriteDoc(r)
              \/ (\E d \in ToSet(Docs) : EditLevel(d)) \/ UNCHANGED provars
         /\ script = "datasets" =>
              \/ \E r \in Runs : Begins(r) /\ UNCHANGED disk
              \/ \E r \in Runs : Kill(r) \/ CheckDataset(r) \/ Fetched(r) \/ FetchFails(r) \/ Verify(r)
              \/ Republish \/ UNCHANGED provars
<1>1. \A r \in Runs, force \in BOOLEAN :
        Invoke(r, force) => Begins(r) /\ UNCHANGED <<script, database, payload, knowledge, docs, disk>>
  BY BeginsIs DEF Invoke
<1>2. \A r \in Runs : Works(r) =>
        /\ script' = script
        /\ script = "migrate" => Lose(r) \/ Kill(r) \/ Apply(r)
        /\ script = "qdrant" => Lose(r) \/ Kill(r) \/ List(r) \/ Create(r) \/ \E f \in PayloadIndexes : IndexField(r, f)
        /\ script = "neo4j" => Lose(r) \/ Kill(r) \/ Constrain(r)
        /\ script = "acl" => Kill(r) \/ Load(r) \/ Truncate(r) \/ WriteDoc(r)
        /\ script = "datasets" => Kill(r) \/ CheckDataset(r) \/ Fetched(r) \/ FetchFails(r) \/ Verify(r)
  <2> SUFFICES ASSUME NEW r \in Runs, Works(r)
               PROVE  /\ script' = script
                      /\ script = "migrate" => Lose(r) \/ Kill(r) \/ Apply(r)
                      /\ script = "qdrant" =>
                           Lose(r) \/ Kill(r) \/ List(r) \/ Create(r) \/ \E f \in PayloadIndexes : IndexField(r, f)
                      /\ script = "neo4j" => Lose(r) \/ Kill(r) \/ Constrain(r)
                      /\ script = "acl" => Kill(r) \/ Load(r) \/ Truncate(r) \/ WriteDoc(r)
                      /\ script = "datasets" =>
                           Kill(r) \/ CheckDataset(r) \/ Fetched(r) \/ FetchFails(r) \/ Verify(r)
    OBVIOUS
  <2>1. script' = script
    BY WorksIs
  <2>2. /\ Lose(r) => script \in {"migrate", "qdrant", "neo4j"}
        /\ Apply(r) => script = "migrate"
        /\ List(r) => script = "qdrant"
        /\ Create(r) => script = "qdrant"
        /\ \A f \in PayloadIndexes : IndexField(r, f) => script = "qdrant"
        /\ Constrain(r) => script = "neo4j"
    BY LossIs, MigrateChanges, ListChanges, CreateChanges, IndexChanges, ConstrainChanges
  <2>3. /\ Load(r) => script = "acl"
        /\ Truncate(r) => script = "acl"
        /\ WriteDoc(r) => script = "acl"
        /\ CheckDataset(r) => script = "datasets"
        /\ Fetched(r) \/ FetchFails(r) => script = "datasets"
        /\ Verify(r) => script = "datasets"
    BY LoadChanges, TruncateChanges, WriteChanges, CheckChanges, FetchChanges, VerifyChanges
  <2> QED BY <2>1, <2>2, <2>3 DEF Works
<1>3. Apart =>
        /\ script' = script
        /\ script = "migrate" =>
             Release \/ (\E t \in UNION ToSet(Files) : InsertAction(t)) \/ UNCHANGED provars
        /\ script = "qdrant" => UNCHANGED provars
        /\ script = "neo4j" => (\E l \in ToSet(Constraints) : MergeTwice(l)) \/ UNCHANGED provars
        /\ script = "acl" => (\E d \in ToSet(Docs) : EditLevel(d)) \/ UNCHANGED provars
        /\ script = "datasets" => Republish \/ UNCHANGED provars
  <2>1. Apart => script' = script
    BY ApartIs
  <2>2. /\ \A t \in UNION ToSet(Files) : InsertAction(t) => script = "migrate"
        /\ \A l \in ToSet(Constraints) : MergeTwice(l) => script = "neo4j"
        /\ \A d \in ToSet(Docs) : EditLevel(d) => script = "acl"
        /\ Release => script = "migrate"
        /\ Republish => script = "datasets"
    BY DEF InsertAction, MergeTwice, EditLevel, Release, Republish
  <2> QED BY <2>1, <2>2 DEF Apart
<1>4. (\E r \in Runs, force \in BOOLEAN : Invoke(r, force)) \/ (\E r \in Runs : Works(r)) \/ Apart
  BY StepKinds
<1>5. CASE \E r \in Runs, force \in BOOLEAN : Invoke(r, force)
  BY <1>1, <1>5
<1>6. CASE \E r \in Runs : Works(r)
  BY <1>2, <1>6
<1>7. CASE Apart
  BY <1>3, <1>7
<1> QED BY <1>4, <1>5, <1>6, <1>7

\* migrate: whoever ended last applied its last file last.
Migrated ==
  script = "migrate" =>
    /\ \A r \in Runs : run[r] # NotRun => run[r].bad = FALSE
    /\ \A r \in Runs : Exited(r, "1") =>
         run[r].lost \/ \E i \in 1..shipped : Files[i] # {} /\ ~(written \subseteq Files[i])
    /\ Quiet /\ latest # Nothing /\ Exited(latest, "0") /\ Files[Len(run[latest].items)] # {} =>
         allowed = Files[Len(run[latest].items)]

LEMMA MigrateItem ==
  ASSUME ScriptShapes, script = "migrate", NEW r \in Runs, run[r] # NotRun
  PROVE  /\ Len(run[r].items) \in 1..shipped /\ run[r].item \in 1..Len(run[r].items)
         /\ Item(r) = Files[run[r].item] /\ shipped \in Nat
<1>1. PICK n \in 1..shipped : run[r].items = SubSeq(Files, 1, n)
  BY BegunIs DEF Listed
<1>2. Files \in Seq(ToSet(Files)) /\ shipped \in 1..Len(Files) /\ run[r].item \in 1..Len(run[r].items)
  BY BegunIs, ProvisioningAssumption DEF ScriptShapes
<1>3. n \in Nat /\ n <= Len(Files) /\ Len(SubSeq(Files, 1, n)) = n /\ \A k \in 1..n : SubSeq(Files, 1, n)[k] = Files[k]
  BY <1>1, <1>2
<1> QED BY <1>1, <1>2, <1>3 DEF Item

LEMMA MigratedStep ==
  ASSUME ScriptShapes, Migrated, [ProvNext]_provars
  PROVE  Migrated'
<1> DEFINE refused == \E i \in 1..shipped : Files[i] # {} /\ ~(written \subseteq Files[i])
<1> SUFFICES ASSUME script = "migrate"
             PROVE  Migrated'
  BY ScriptSteps DEF Migrated
<1>0. /\ \A r \in Runs : run[r] # NotRun => run[r].bad = FALSE
      /\ \A r \in Runs : Exited(r, "1") => run[r].lost \/ refused
      /\ Quiet /\ latest # Nothing /\ Exited(latest, "0") /\ Files[Len(run[latest].items)] # {} =>
           allowed = Files[Len(run[latest].items)]
      /\ NotRun.at = "idle"
  BY DEF Migrated, NotRun
<1>1. ASSUME NEW r \in Runs, Begins(r), UNCHANGED database PROVE Migrated'
  <2>1. /\ \A q \in Runs \ {r} : run'[q].at = run[q].at /\ run'[q].code = run[q].code /\ run'[q].lost = run[q].lost
                                   /\ run'[q].bad = run[q].bad /\ (run'[q] # NotRun => run[q] # NotRun)
        /\ run'[r].bad = FALSE /\ run'[r].at = "item"
    <3>1. ASSUME NEW q \in Runs \ {r}
          PROVE  run'[q].at = run[q].at /\ run'[q].code = run[q].code /\ run'[q].lost = run[q].lost
                 /\ run'[q].bad = run[q].bad /\ (run'[q] # NotRun => run[q] # NotRun)
      BY <1>1, BusyIs DEF Begins
    <3> QED BY <1>1, <3>1 DEF Begins
  <2>2. ~Quiet'
    BY <2>1 DEF Quiet, UnderWay
  <2>3. UNCHANGED <<shipped, written>>
    BY <1>1 DEF database
  <2> QED BY <1>0, <2>1, <2>2, <2>3 DEF Migrated, Exited
<1>2. ASSUME NEW r \in Runs, Lose(r) \/ Kill(r) PROVE Migrated'
  <2>1. /\ UnderWay(r) /\ UNCHANGED <<shipped, written>> /\ run'[r].bad = run[r].bad /\ latest' = r
        /\ Moves(r)
        /\ (run'[r].code = "1" /\ run'[r].lost = TRUE) \/ run'[r].code = "killed"
    BY <1>2, LossIs DEF database, Ends
  <2>2. run[r] # NotRun /\ \A q \in Runs \ {r} : run'[q] = run[q]
    BY <2>1, BusyIs DEF Moves
  <2> QED BY <1>0, <2>1, <2>2 DEF Migrated, Exited
<1>3. ASSUME NEW r \in Runs, Apply(r) PROVE Migrated'
  <2>1. /\ UnderWay(r) /\ UNCHANGED <<shipped, written>> /\ Moves(r) /\ run'[r].bad = run[r].bad
        /\ \/ /\ Passes(r, FALSE) /\ (FileOf(r) # {} => allowed' = FileOf(r))
           \/ /\ Ends(r, "1") /\ FileOf(r) # {} /\ ~(written \subseteq FileOf(r)) /\ allowed' = allowed
    <3>1. UnderWay(r) /\ run[r] # NotRun
      BY <1>3, MigrateChanges, BusyIs DEF Changes
    <3>2. run[r].bad = FALSE
      BY <1>0, <3>1
    <3> QED BY <1>3, <3>1, <3>2, MigrateChanges DEF Passes, Ends
  <2>2. /\ run[r] # NotRun /\ FileOf(r) = Files[run[r].item] /\ run[r].item \in 1..shipped
        /\ \A q \in Runs \ {r} : run'[q] = run[q]
    <3>1. run[r] # NotRun
      BY <2>1, BusyIs
    <3>2. Len(run[r].items) \in 1..shipped /\ run[r].item \in 1..Len(run[r].items)
          /\ Item(r) = Files[run[r].item] /\ shipped \in Nat
      BY <3>1, MigrateItem
    <3> QED BY <2>1, <3>1, <3>2 DEF FileOf, Moves
  <2>3. CASE Passes(r, FALSE) /\ (FileOf(r) # {} => allowed' = FileOf(r))
    <3>1. \A q \in Runs : Exited(q, "1")' => Exited(q, "1") /\ run'[q].lost = run[q].lost
      <4>1. run'[r].bad = FALSE
        BY <1>0, <2>1, <2>2
      <4>2. ~Exited(r, "1")'
        BY <2>3, <4>1 DEF Passes, Exited
      <4> QED BY <2>2, <4>2 DEF Exited
    <3>2. Quiet' => /\ latest' = r /\ run'[r].items = run[r].items /\ run[r].item = Len(run[r].items)
      <4>1. run'[r].at = "item" => UnderWay(r)'
        BY DEF UnderWay
      <4> QED BY <2>3, <4>1 DEF Quiet, Passes
    <3>3. Quiet' /\ Files[Len(run'[latest'].items)] # {} => allowed' = Files[Len(run'[latest'].items)]
      BY <2>2, <2>3, <3>2
    <3>4. \A q \in Runs : run'[q] # NotRun => run'[q].bad = FALSE
      BY <1>0, <2>1, <2>2
    <3>5. \A q \in Runs : Exited(q, "1")' => run'[q].lost \/ refused'
      BY <1>0, <2>1, <3>1
    <3> HIDE DEF refused
    <3>6. \A q \in Runs : Exited(q, "1")' => run'[q].lost \/ refused'
      BY <3>5
    <3> QED BY <3>3, <3>4, <3>6 DEF Migrated, refused
  <2>4. CASE Ends(r, "1") /\ FileOf(r) # {} /\ ~(written \subseteq FileOf(r)) /\ allowed' = allowed
    <3>1. refused'
      BY <2>1, <2>2, <2>4
    <3>2. latest' = r /\ ~Exited(r, "0")'
      BY <2>4 DEF Ends, Exited
    <3> QED BY <1>0, <2>1, <2>2, <3>1, <3>2 DEF Migrated
  <2> QED BY <2>1, <2>3, <2>4
<1>4. ASSUME Release \/ (\E t \in UNION ToSet(Files) : InsertAction(t)) \/ UNCHANGED provars PROVE Migrated'
  <2>1. UNCHANGED <<run, latest, allowed>> /\ written \subseteq written' /\ shipped' \in {shipped, shipped + 1}
    BY <1>4 DEF Release, InsertAction, provars, database
  <2>2. refused => refused'
    <3>1. shipped \in Nat
      BY ProvisioningAssumption DEF ScriptShapes
    <3> QED BY <2>1, <3>1
  <2> QED BY <1>0, <2>1, <2>2 DEF Migrated, Exited, Quiet, UnderWay
<1> QED BY <1>1, <1>2, <1>3, <1>4, ScriptSteps

\* qdrant: what a run has passed is complete; what a lone run finds beyond its
\* list it has created itself.
IndexTypes ==
  /\ \A c \in ToSet(CollectionSpecs) : payload[c] = Nothing \/ payload[c] \in SUBSET PayloadIndexes
  /\ payload = [c \in ToSet(CollectionSpecs) |-> payload[c]]

IndexedRun(r) ==
  /\ run[r].bad = FALSE
  /\ \A k \in 1..(run[r].item - 1) : payload[CollectionSpecs[k]] = PayloadIndexes
  /\ run[r].known = Nothing \/ run[r].known \in SUBSET {c \in ToSet(CollectionSpecs) : payload[c] # Nothing}
  /\ run[r].at = "item" /\ run[r].known = Nothing => run[r].item = 1
  /\ run[r].at = "fields" =>
       /\ run[r].held \in SUBSET PayloadIndexes /\ payload[CollectionSpecs[run[r].item]] # Nothing
       /\ run[r].held \subseteq payload[CollectionSpecs[run[r].item]] /\ run[r].known # Nothing
  /\ run[r].at = "item" /\ run[r].known # Nothing /\ run[r].alone =>
       \A c \in ToSet(CollectionSpecs) : payload[c] # Nothing =>
         c \in run[r].known \/ \E k \in 1..(run[r].item - 1) : c = CollectionSpecs[k]
  /\ run[r].at = "fields" /\ run[r].alone =>
       \A c \in ToSet(CollectionSpecs) : payload[c] # Nothing =>
         c \in run[r].known \/ \E k \in 1..run[r].item : c = CollectionSpecs[k]
  /\ Exited(r, "0") => \A c \in ToSet(CollectionSpecs) : payload[c] = PayloadIndexes
  /\ Exited(r, "1") => run[r].lost \/ ~run[r].alone

Indexed == script = "qdrant" => IndexTypes /\ \A r \in Runs : run[r] # NotRun => IndexedRun(r)

LEMMA CollectionItem ==
  ASSUME ScriptShapes, script = "qdrant", NEW r \in Runs, run[r] # NotRun
  PROVE  /\ run[r].items = CollectionSpecs /\ run[r].item \in 1..Len(CollectionSpecs) /\ Len(CollectionSpecs) \in Nat
         /\ Item(r) = CollectionSpecs[run[r].item]
         /\ \A k \in 1..Len(CollectionSpecs) : CollectionSpecs[k] \in ToSet(CollectionSpecs)
         /\ \A c \in ToSet(CollectionSpecs) : \E k \in 1..Len(CollectionSpecs) : c = CollectionSpecs[k]
         /\ \A i, j \in 1..Len(CollectionSpecs) : CollectionSpecs[i] = CollectionSpecs[j] => i = j
         /\ PayloadIndexes # Nothing /\ {} # Nothing /\ \A have \in SUBSET PayloadIndexes : have # Nothing
<1>1. run[r].items = CollectionSpecs /\ run[r].item \in 1..Len(CollectionSpecs) /\ Item(r) = CollectionSpecs[run[r].item]
  BY BegunIs DEF Listed, Item
<1>2. CollectionSpecs \in Seq(ToSet(CollectionSpecs)) /\ DOMAIN CollectionSpecs = 1..Len(CollectionSpecs) /\ Len(CollectionSpecs) \in Nat
      /\ \A i, j \in 1..Len(CollectionSpecs) : CollectionSpecs[i] = CollectionSpecs[j] => i = j
  BY ProvisioningAssumption
<1>3. PayloadIndexes # Nothing /\ {} # Nothing /\ \A have \in SUBSET PayloadIndexes : have # Nothing
  BY ProvisioningAssumption
<1> QED BY <1>1, <1>2, <1>3 DEF ToSet

\* Nothing is taken from a collection.
Grows ==
  /\ IndexTypes'
  /\ \A c \in ToSet(CollectionSpecs) :
       /\ payload[c] = PayloadIndexes => payload'[c] = PayloadIndexes
       /\ payload[c] # Nothing => payload'[c] # Nothing /\ payload[c] \subseteq payload'[c]

LEMMA OthersIndexed ==
  ASSUME ScriptShapes, script = "qdrant", Overlaps, NEW r \in Runs, UnderWay(r), Grows,
         NEW q \in Runs \ {r}, run'[q] = run[q], run[q] # NotRun, IndexedRun(q)
  PROVE  IndexedRun(q)'
<1>1. /\ run[q].item \in 1..Len(CollectionSpecs) /\ Len(CollectionSpecs) \in Nat
      /\ \A k \in 1..Len(CollectionSpecs) : CollectionSpecs[k] \in ToSet(CollectionSpecs)
  BY CollectionItem
<1>2. run[q].at \in {"item", "fields"} => ~run[q].alone
  BY DEF Overlaps, UnderWay
<1>3. /\ \A k \in 1..(run[q].item - 1) : payload'[CollectionSpecs[k]] = PayloadIndexes
      /\ run[q].known = Nothing \/ run[q].known \in SUBSET {c \in ToSet(CollectionSpecs) : payload'[c] # Nothing}
      /\ run[q].at = "fields" =>
           /\ payload'[CollectionSpecs[run[q].item]] # Nothing /\ run[q].held \subseteq payload'[CollectionSpecs[run[q].item]]
      /\ Exited(q, "0") => \A c \in ToSet(CollectionSpecs) : payload'[c] = PayloadIndexes
  BY <1>1 DEF IndexedRun, Grows
<1> QED BY <1>2, <1>3 DEF IndexedRun, Exited

LEMMA IndexedBegun ==
  ASSUME ScriptShapes, Indexed, script = "qdrant", script' = script, NEW r \in Runs, Begins(r), UNCHANGED payload
  PROVE  Indexed'
<1>1. ASSUME NEW q \in Runs \ {r}, run'[q] # NotRun PROVE IndexedRun(q)'
  <2>1. CASE ~UnderWay(q)
    <3>1. run'[q] = run[q]
      BY <2>1 DEF Begins
    <3> QED BY <1>1, <3>1 DEF Indexed, IndexedRun, Exited
  <2>2. CASE UnderWay(q)
    <3>1. /\ run'[q].alone = FALSE
          /\ run'[q].at = run[q].at /\ run'[q].item = run[q].item
          /\ run'[q].known = run[q].known /\ run'[q].held = run[q].held /\ run'[q].bad = run[q].bad
          /\ run'[q].lost = run[q].lost /\ run'[q].code = run[q].code /\ run[q] # NotRun
      BY <2>2, BusyIs DEF Begins
    <3>2. IndexedRun(q)
      BY <3>1 DEF Indexed
    <3> QED BY <3>1, <3>2 DEF IndexedRun, Exited
  <2> QED BY <2>1, <2>2
<1>2. IndexedRun(r)'
  <2>1. run'[r].at = "item" /\ run'[r].item = 1 /\ run'[r].known = Nothing /\ run'[r].bad = FALSE
    BY DEF Begins
  <2> QED BY <2>1 DEF IndexedRun, Exited
<1> QED BY <1>1, <1>2 DEF Indexed, IndexTypes

LEMMA IndexedWorked ==
  ASSUME ScriptShapes, Overlaps, Indexed, script = "qdrant", script' = script, NEW r \in Runs,
         UnderWay(r), Moves(r), Grows, IndexedRun(r)'
  PROVE  Indexed'
<1>1. ASSUME NEW q \in Runs \ {r}, run'[q] # NotRun PROVE IndexedRun(q)'
  <2>1. run'[q] = run[q]
    BY DEF Moves
  <2> QED BY <1>1, <2>1, OthersIndexed DEF Indexed
<1> QED BY <1>1 DEF Indexed, Grows

LEMMA IndexedEnds ==
  ASSUME ScriptShapes, Overlaps, Indexed, script = "qdrant", NEW r \in Runs, UNCHANGED payload, UnderWay(r),
         NEW code, Ends(r, code), code = "killed" \/ code = "1", run'[r].bad = run[r].bad,
         code = "1" => run'[r].lost = TRUE \/ ~run[r].alone, script' = script
  PROVE  Indexed'
<1>1. run[r] # NotRun /\ IndexedRun(r) /\ Grows
  BY BusyIs DEF Indexed, Grows, IndexTypes
<1>2. /\ Moves(r) /\ run'[r].at = "ended" /\ run'[r].code = code /\ run'[r].item = run[r].item
      /\ run'[r].alone = run[r].alone /\ run'[r].known = Nothing
  BY DEF Ends
<1>3. IndexedRun(r)'
  BY <1>1, <1>2 DEF IndexedRun, Exited
<1> QED BY <1>1, <1>2, <1>3, IndexedWorked

LEMMA IndexedListed ==
  ASSUME ScriptShapes, Overlaps, Indexed, script = "qdrant", NEW r \in Runs, List(r)
  PROVE  Indexed'
<1>1. /\ UnderWay(r) /\ run[r].at = "item" /\ run[r].known = Nothing /\ payload' = payload /\ script' = script
      /\ Stands(r, "item") /\ run'[r].known = {c \in ToSet(CollectionSpecs) : payload[c] # Nothing}
  BY ListChanges DEF Changes
<1>2. run[r] # NotRun /\ IndexedRun(r) /\ Grows
  BY <1>1, BusyIs DEF Indexed, Grows, IndexTypes
<1>3. /\ Moves(r) /\ run'[r].at = "item" /\ run'[r].item = run[r].item /\ run'[r].bad = run[r].bad
  BY <1>1 DEF Stands
<1>4. IndexedRun(r)'
  BY <1>1, <1>2, <1>3 DEF IndexedRun, Exited
<1> QED BY <1>1, <1>2, <1>3, <1>4, IndexedWorked

LEMMA IndexedCreated ==
  ASSUME ScriptShapes, Overlaps, Indexed, script = "qdrant", NEW r \in Runs, Create(r)
  PROVE  Indexed'
<1> DEFINE c == Item(r)
<1>1. /\ UnderWay(r) /\ run[r].at = "item" /\ run[r].known # Nothing /\ script' = script
      /\ \/ /\ c \in run[r].known /\ payload' = payload
            /\ Stands(r, "fields") /\ run'[r].held = {} /\ run'[r].known = run[r].known
         \/ /\ c \notin run[r].known /\ payload[c] = Nothing /\ payload' = [payload EXCEPT ![c] = {}]
            /\ Stands(r, "fields") /\ run'[r].held = {} /\ run'[r].known = run[r].known
         \/ /\ c \notin run[r].known /\ payload[c] # Nothing /\ payload' = payload
            /\ Ends(r, "1") /\ run'[r].bad = run[r].bad
  BY CreateChanges DEF Changes
<1>2. run[r] # NotRun /\ IndexedRun(r) /\ IndexTypes
  BY <1>1, BusyIs DEF Indexed
<1>3. /\ run[r].item \in 1..Len(CollectionSpecs) /\ Len(CollectionSpecs) \in Nat /\ c = CollectionSpecs[run[r].item]
      /\ c \in ToSet(CollectionSpecs) /\ PayloadIndexes # Nothing /\ {} # Nothing
      /\ \A k \in 1..Len(CollectionSpecs) : CollectionSpecs[k] \in ToSet(CollectionSpecs)
      /\ \A i, j \in 1..Len(CollectionSpecs) : CollectionSpecs[i] = CollectionSpecs[j] => i = j
  BY <1>2, CollectionItem
<1> HIDE DEF c
<1>4. CASE /\ c \in run[r].known /\ payload' = payload
           /\ Stands(r, "fields") /\ run'[r].held = {} /\ run'[r].known = run[r].known
  <2>1. /\ Moves(r) /\ run'[r].at = "fields" /\ run'[r].item = run[r].item /\ run'[r].bad = run[r].bad
        /\ run'[r].alone = run[r].alone /\ Grows
    BY <1>2, <1>4 DEF Stands, Grows, IndexTypes
  <2>2. payload[c] # Nothing /\ {} \subseteq payload[c]
    BY <1>1, <1>2, <1>4 DEF IndexedRun
  <2>3. run[r].alone => \A b \in ToSet(CollectionSpecs) : payload[b] # Nothing =>
          b \in run[r].known \/ \E k \in 1..run[r].item : b = CollectionSpecs[k]
    BY <1>1, <1>2, <1>3 DEF IndexedRun
  <2>4. IndexedRun(r)'
    BY <1>1, <1>2, <1>3, <1>4, <2>1, <2>2, <2>3 DEF IndexedRun, Exited
  <2> QED BY <1>1, <2>1, <2>4, IndexedWorked
<1>5. CASE /\ c \notin run[r].known /\ payload[c] = Nothing /\ payload' = [payload EXCEPT ![c] = {}]
           /\ Stands(r, "fields") /\ run'[r].held = {} /\ run'[r].known = run[r].known
  <2>1. /\ Moves(r) /\ run'[r].at = "fields" /\ run'[r].item = run[r].item /\ run'[r].bad = run[r].bad
        /\ run'[r].alone = run[r].alone
    BY <1>5 DEF Stands
  <2>2. payload' = [b \in ToSet(CollectionSpecs) |-> IF b = c THEN {} ELSE payload[b]]
    BY <1>2, <1>5 DEF IndexTypes
  <2>3. Grows
    BY <1>2, <1>3, <1>5, <2>2 DEF Grows, IndexTypes
  <2>4. run[r].alone => \A b \in ToSet(CollectionSpecs) : payload'[b] # Nothing =>
          b \in run[r].known \/ \E k \in 1..run[r].item : b = CollectionSpecs[k]
    BY <1>1, <1>2, <1>3, <2>2 DEF IndexedRun
  <2>5. /\ \A k \in 1..(run[r].item - 1) : payload'[CollectionSpecs[k]] = PayloadIndexes
        /\ run[r].known \in SUBSET {b \in ToSet(CollectionSpecs) : payload'[b] # Nothing}
        /\ payload'[c] = {}
    BY <1>1, <1>2, <1>3, <2>2, <2>3 DEF IndexedRun, Grows
  <2>6. IndexedRun(r)'
    BY <1>1, <1>2, <1>3, <1>5, <2>1, <2>4, <2>5 DEF IndexedRun, Exited
  <2> QED BY <1>1, <2>1, <2>3, <2>6, IndexedWorked
<1>6. CASE /\ c \notin run[r].known /\ payload[c] # Nothing /\ payload' = payload
           /\ Ends(r, "1") /\ run'[r].bad = run[r].bad
  <2>1. ~run[r].alone
    BY <1>1, <1>2, <1>3, <1>6 DEF IndexedRun
  <2> QED BY <1>1, <1>6, <2>1, IndexedEnds
<1> QED BY <1>1, <1>4, <1>5, <1>6

LEMMA IndexedFilled ==
  ASSUME ScriptShapes, Overlaps, Indexed, script = "qdrant", NEW r \in Runs, NEW f \in PayloadIndexes, IndexField(r, f)
  PROVE  Indexed'
<1> DEFINE c == Item(r)
           have == run[r].held \cup {f}
<1>1. /\ UnderWay(r) /\ run[r].at = "fields" /\ script' = script
      /\ payload' = [payload EXCEPT ![c] = @ \cup {f}]
      /\ \/ Passes(r, FALSE) /\ have = PayloadIndexes
         \/ Stands(r, "fields") /\ run'[r].held = have /\ run'[r].known = run[r].known
  BY IndexChanges DEF Changes
<1>2. run[r] # NotRun /\ IndexedRun(r) /\ IndexTypes
  BY <1>1, BusyIs DEF Indexed
<1>3. /\ run[r].items = CollectionSpecs
      /\ run[r].item \in 1..Len(CollectionSpecs) /\ Len(CollectionSpecs) \in Nat /\ c = CollectionSpecs[run[r].item]
      /\ c \in ToSet(CollectionSpecs) /\ PayloadIndexes # Nothing /\ \A some \in SUBSET PayloadIndexes : some # Nothing
      /\ \A k \in 1..Len(CollectionSpecs) : CollectionSpecs[k] \in ToSet(CollectionSpecs)
      /\ \A b \in ToSet(CollectionSpecs) : \E k \in 1..Len(CollectionSpecs) : b = CollectionSpecs[k]
  BY <1>2, CollectionItem
<1> HIDE DEF c
<1>4. payload' = [b \in ToSet(CollectionSpecs) |-> IF b = c THEN payload[c] \cup {f} ELSE payload[b]]
  BY <1>1, <1>2 DEF IndexTypes
<1>5. /\ run[r].held \in SUBSET PayloadIndexes /\ payload[c] # Nothing /\ payload[c] \in SUBSET PayloadIndexes
      /\ run[r].held \subseteq payload[c] /\ run[r].known # Nothing
  BY <1>1, <1>2, <1>3 DEF IndexedRun, IndexTypes
<1>6. Grows
  <2>1. payload[c] \cup {f} \in SUBSET PayloadIndexes
    BY <1>5
  <2> QED BY <1>2, <1>3, <1>4, <1>5, <2>1 DEF Grows, IndexTypes
<1>7. have \in SUBSET PayloadIndexes /\ have \subseteq payload'[c] /\ payload'[c] \in SUBSET PayloadIndexes
      /\ \A b \in ToSet(CollectionSpecs) : payload'[b] # Nothing => payload[b] # Nothing
  BY <1>3, <1>4, <1>5
<1>8. /\ \A k \in 1..(run[r].item - 1) : payload'[CollectionSpecs[k]] = PayloadIndexes
      /\ run[r].known \in SUBSET {b \in ToSet(CollectionSpecs) : payload'[b] # Nothing}
      /\ run[r].alone => \A b \in ToSet(CollectionSpecs) : payload'[b] # Nothing =>
           b \in run[r].known \/ \E k \in 1..run[r].item : b = CollectionSpecs[k]
  BY <1>1, <1>2, <1>3, <1>5, <1>6, <1>7 DEF IndexedRun, Grows
<1> HIDE DEF have
<1>9. CASE Stands(r, "fields") /\ run'[r].held = have /\ run'[r].known = run[r].known
  <2>1. /\ Moves(r) /\ run'[r].at = "fields" /\ run'[r].item = run[r].item /\ run'[r].bad = run[r].bad
        /\ run'[r].alone = run[r].alone
    BY <1>9 DEF Stands
  <2>2. payload'[c] # Nothing
    BY <1>3, <1>7
  <2>3. IndexedRun(r)'
    BY <1>2, <1>3, <1>5, <1>7, <1>8, <1>9, <2>1, <2>2 DEF IndexedRun, Exited
  <2> QED BY <1>1, <1>6, <2>1, <2>3, IndexedWorked
<1>10. CASE Passes(r, FALSE) /\ have = PayloadIndexes
  <2>1. payload'[c] = PayloadIndexes
    BY <1>7, <1>10
  <2>2. \A k \in 1..run[r].item : payload'[CollectionSpecs[k]] = PayloadIndexes
    BY <1>3, <1>8, <2>1
  <2>3. Moves(r) /\ run'[r].bad = FALSE /\ run'[r].alone = run[r].alone
    BY <1>2, <1>10 DEF Passes, IndexedRun
  <2>4. CASE /\ run'[r].item = run[r].item + 1 /\ run'[r].at = "item" /\ run'[r].known = run[r].known
    <3>1. run'[r].item - 1 = run[r].item
      BY <1>3, <2>4
    <3>2. IndexedRun(r)'
      BY <1>5, <1>8, <2>2, <2>3, <2>4, <3>1 DEF IndexedRun, Exited
    <3> QED BY <1>1, <1>6, <2>3, <3>2, IndexedWorked
  <2>5. CASE /\ run[r].item = Len(CollectionSpecs) /\ run'[r].item = run[r].item /\ run'[r].at = "ended"
             /\ run'[r].known = Nothing /\ run'[r].code = "0"
    <3>1. \A b \in ToSet(CollectionSpecs) : payload'[b] = PayloadIndexes
      BY <1>3, <2>2, <2>5
    <3>2. IndexedRun(r)'
      BY <1>8, <2>3, <2>5, <3>1 DEF IndexedRun, Exited
    <3> QED BY <1>1, <1>6, <2>3, <3>2, IndexedWorked
  <2> QED BY <1>3, <1>10, <2>3, <2>4, <2>5 DEF Passes
<1> QED BY <1>1, <1>9, <1>10

LEMMA IndexedStep ==
  ASSUME ScriptShapes, Overlaps, Indexed, [ProvNext]_provars
  PROVE  Indexed'
<1> SUFFICES ASSUME script = "qdrant" PROVE Indexed'
  BY ScriptSteps DEF Indexed
<1>1. script' = script
  BY ScriptSteps
<1>2. ASSUME NEW r \in Runs, Lose(r) \/ Kill(r) PROVE Indexed'
  <2>1. /\ UnderWay(r) /\ payload' = payload /\ run'[r].bad = run[r].bad
        /\ (Ends(r, "1") /\ run'[r].lost = TRUE) \/ Ends(r, "killed")
    BY <1>2, LossIs
  <2> QED BY <1>1, <2>1, IndexedEnds
<1>3. ASSUME UNCHANGED provars PROVE Indexed'
  BY <1>3 DEF provars, Indexed, IndexTypes, IndexedRun, Exited
<1> QED BY <1>1, <1>2, <1>3, ScriptSteps, IndexedBegun, IndexedListed, IndexedCreated, IndexedFilled

\* neo4j: a constraint and two nodes of one id exclude each other.
ConstrainedRun(r) ==
  /\ run[r].bad = FALSE
  /\ \A k \in 1..(run[r].item - 1) : Constraints[k] \in unique
  /\ Exited(r, "0") => ToSet(Constraints) \subseteq unique
  /\ Exited(r, "1") => run[r].lost \/ Constraints[run[r].item] \in twins

Constrained ==
  script = "neo4j" =>
    /\ twins \cap unique = {} /\ twins \subseteq ToSet(Constraints)
    /\ \A r \in Runs : run[r] # NotRun => ConstrainedRun(r)

LEMMA ConstraintItem ==
  ASSUME ScriptShapes, script = "neo4j", NEW r \in Runs, run[r] # NotRun
  PROVE  /\ run[r].items = Constraints /\ run[r].item \in 1..Len(Constraints) /\ Len(Constraints) \in Nat
         /\ Item(r) = Constraints[run[r].item] /\ Item(r) \in ToSet(Constraints)
         /\ \A l \in ToSet(Constraints) : \E k \in 1..Len(Constraints) : l = Constraints[k]
<1>1. run[r].items = Constraints /\ run[r].item \in 1..Len(Constraints) /\ Item(r) = Constraints[run[r].item]
  BY BegunIs DEF Listed, Item
<1>2. Constraints \in Seq(ToSet(Constraints)) /\ DOMAIN Constraints = 1..Len(Constraints) /\ Len(Constraints) \in Nat
  BY ProvisioningAssumption
<1> QED BY <1>1, <1>2 DEF ToSet

LEMMA ConstrainedMoved ==
  ASSUME Constrained, script = "neo4j", NEW r \in Runs, UnderWay(r), Moves(r), ConstrainedRun(r)',
         unique \subseteq unique', twins' = twins, twins \cap unique' = {}
  PROVE  Constrained'
<1>1. ASSUME NEW q \in Runs \ {r}, run'[q] # NotRun PROVE ConstrainedRun(q)'
  <2>1. run'[q] = run[q] /\ ConstrainedRun(q)
    BY <1>1 DEF Moves, Constrained
  <2> QED BY <2>1 DEF ConstrainedRun, Exited
<1> QED BY <1>1 DEF Constrained

LEMMA ConstrainedStep ==
  ASSUME ScriptShapes, Constrained, [ProvNext]_provars
  PROVE  Constrained'
<1> SUFFICES ASSUME script = "neo4j" PROVE Constrained'
  BY ScriptSteps DEF Constrained
<1>0. twins \cap unique = {} /\ twins \subseteq ToSet(Constraints)
  BY DEF Constrained
<1>1. ASSUME NEW r \in Runs, Begins(r), UNCHANGED knowledge PROVE Constrained'
  <2>1. UNCHANGED <<unique, twins>>
    BY <1>1 DEF knowledge
  <2>2. ASSUME NEW q \in Runs \ {r}, run'[q] # NotRun PROVE ConstrainedRun(q)'
    <3>1. /\ run'[q].at = run[q].at /\ run'[q].item = run[q].item /\ run'[q].bad = run[q].bad
          /\ run'[q].lost = run[q].lost /\ run'[q].code = run[q].code /\ run[q] # NotRun
      BY <1>1, <2>2, BusyIs DEF Begins
    <3>2. ConstrainedRun(q)
      BY <3>1 DEF Constrained
    <3> QED BY <2>1, <3>1, <3>2 DEF ConstrainedRun, Exited
  <2>3. ConstrainedRun(r)'
    <3>1. run'[r].at = "item" /\ run'[r].item = 1 /\ run'[r].bad = FALSE
      BY <1>1 DEF Begins
    <3> QED BY <3>1 DEF ConstrainedRun, Exited
  <2> QED BY <1>0, <2>1, <2>2, <2>3 DEF Constrained
<1>2. ASSUME NEW r \in Runs, Lose(r) \/ Kill(r) PROVE Constrained'
  <2>1. /\ UnderWay(r) /\ UNCHANGED <<unique, twins>> /\ run'[r].bad = run[r].bad
        /\ (Ends(r, "1") /\ run'[r].lost = TRUE) \/ Ends(r, "killed")
    BY <1>2, LossIs DEF knowledge
  <2>2. /\ Moves(r) /\ run'[r].item = run[r].item
        /\ (run'[r].code = "1" /\ run'[r].lost = TRUE) \/ run'[r].code = "killed"
    BY <2>1 DEF Ends
  <2>3. ConstrainedRun(r)
    BY <2>1, BusyIs DEF Constrained
  <2>4. ConstrainedRun(r)'
    BY <2>1, <2>2, <2>3 DEF ConstrainedRun, Exited
  <2> QED BY <1>0, <2>1, <2>2, <2>4, ConstrainedMoved
<1>3. ASSUME NEW r \in Runs, Constrain(r) PROVE Constrained'
  <2> DEFINE l == Item(r)
  <2>1. /\ UnderWay(r) /\ twins' = twins
        /\ \/ l \in twins /\ unique' = unique /\ Ends(r, "1") /\ run'[r].bad = run[r].bad
           \/ l \notin twins /\ unique' = unique \cup {l} /\ Passes(r, FALSE)
    BY <1>3, ConstrainChanges DEF Changes
  <2>2. run[r] # NotRun /\ ConstrainedRun(r)
    BY <2>1, BusyIs DEF Constrained
  <2>3. /\ run[r].items = Constraints /\ run[r].item \in 1..Len(Constraints) /\ Len(Constraints) \in Nat
        /\ l = Constraints[run[r].item]
        /\ \A m \in ToSet(Constraints) : \E k \in 1..Len(Constraints) : m = Constraints[k]
    BY <2>2, ConstraintItem
  <2> HIDE DEF l
  <2>4. CASE l \in twins /\ unique' = unique /\ Ends(r, "1") /\ run'[r].bad = run[r].bad
    <3>1. Moves(r) /\ run'[r].item = run[r].item /\ run'[r].code = "1"
      BY <2>4 DEF Ends
    <3>2. ConstrainedRun(r)'
      BY <2>1, <2>2, <2>3, <2>4, <3>1 DEF ConstrainedRun, Exited
    <3> QED BY <1>0, <2>1, <2>4, <3>1, <3>2, ConstrainedMoved
  <2>5. CASE l \notin twins /\ unique' = unique \cup {l} /\ Passes(r, FALSE)
    <3>1. /\ Moves(r) /\ run'[r].bad = FALSE
          /\ \/ run'[r].item = run[r].item + 1 /\ run'[r].at = "item"
             \/ run[r].item = Len(Constraints) /\ run'[r].item = run[r].item /\ run'[r].code = "0"
      BY <2>2, <2>3, <2>5 DEF Passes, ConstrainedRun
    <3>2. \A k \in 1..run[r].item : Constraints[k] \in unique'
      BY <2>2, <2>3, <2>5 DEF ConstrainedRun
    <3>3. ConstrainedRun(r)'
      BY <2>2, <2>3, <3>1, <3>2 DEF ConstrainedRun, Exited
    <3> QED BY <1>0, <2>1, <2>5, <3>1, <3>3, ConstrainedMoved
  <2> QED BY <2>1, <2>4, <2>5
<1>4. ASSUME (\E l \in ToSet(Constraints) : MergeTwice(l)) \/ UNCHANGED provars PROVE Constrained'
  <2>1. UNCHANGED <<run, unique>> /\ twins \subseteq twins'
        /\ twins' \cap unique = {} /\ twins' \subseteq ToSet(Constraints)
    BY <1>0, <1>4 DEF MergeTwice, provars, knowledge
  <2>2. \A q \in Runs : ConstrainedRun(q) => ConstrainedRun(q)'
    BY <2>1 DEF ConstrainedRun, Exited
  <2> QED BY <2>1, <2>2 DEF Constrained
<1> QED BY <1>1, <1>2, <1>3, <1>4, ScriptSteps

\* acl: what the script leaves of a document, and what it holds of it.
Levelled(d) ==
  IF meant[d].acl # Nothing THEN meant[d] ELSE [meant[d] EXCEPT !.acl = LevelOf(meant[d].audience)]

LevelTypes ==
  /\ meant \in [ToSet(Docs) ->
                  [acl : {Nothing, "public", "restricted"}, audience : {"operations", "safety"}, text : {TRUE}]]
  /\ doc = [d \in ToSet(Docs) |-> doc[d]]

LevelKept(d) ==
  \/ doc[d] = meant[d] \/ doc[d] = Levelled(d)
  \/ doc[d] = Blank /\ \E r \in Runs : run[r] # NotRun /\ run[r].at = "truncated" /\ Docs[run[r].item] = d

LevelRun(r) ==
  /\ \A k \in 1..(run[r].item - 1) :
       run[r].at # "ended" /\ Docs[k] \notin Broken => doc[Docs[k]] = Levelled(Docs[k])
  /\ run[r].at = "loaded" =>
       /\ run[r].held = meant[Docs[run[r].item]] /\ doc[Docs[run[r].item]] = meant[Docs[run[r].item]]
       /\ meant[Docs[run[r].item]].acl = Nothing
  /\ run[r].at = "truncated" =>
       /\ run[r].held = meant[Docs[run[r].item]] /\ doc[Docs[run[r].item]] = Blank
       /\ meant[Docs[run[r].item]].acl = Nothing

LevelEnd ==
  Quiet /\ latest # Nothing /\ run[latest].code \in {"0", "1"} =>
    \A d \in ToSet(Docs) \ Broken : doc[d] = Levelled(d)

Levels ==
  script = "acl" =>
    /\ LevelTypes
    /\ ~marred => /\ \A d \in ToSet(Docs) : LevelKept(d)
                  /\ \A r \in Runs : run[r] # NotRun => LevelRun(r)
                  /\ LevelEnd

LEMMA LevelledIs ==
  ASSUME LevelTypes, NEW d \in ToSet(Docs)
  PROVE  /\ meant[d].acl # Nothing => Levelled(d) = meant[d]
         /\ meant[d].acl = Nothing => Levelled(d) = [meant[d] EXCEPT !.acl = LevelOf(meant[d].audience)]
         /\ Levelled(d).acl # Nothing /\ Blank.acl = Nothing /\ meant[d] # Blank /\ Levelled(d) # Blank
         /\ [meant[d] EXCEPT !.acl = "restricted"] = [Levelled(d) EXCEPT !.acl = "restricted"]
<1>1. PICK m : m = meant[d]
  OBVIOUS
<1>2. m \in [acl : {Nothing, "public", "restricted"}, audience : {"operations", "safety"}, text : {TRUE}]
  BY <1>1 DEF LevelTypes
<1>3. m = [acl |-> m.acl, audience |-> m.audience, text |-> m.text] /\ m.text = TRUE
  BY <1>2
<1> DEFINE level == LevelOf(m.audience)
<1>4. level # Nothing
  BY ProvisioningAssumption DEF LevelOf
<1> HIDE DEF level
<1>5. Blank.acl = Nothing
  BY DEF Blank
<1>6. m # Blank
  <2>1. Blank.text = FALSE
    BY DEF Blank
  <2> QED BY <1>3, <2>1
<1>7. CASE m.acl # Nothing
  <2>1. Levelled(d) = m
    BY <1>1, <1>7 DEF Levelled
  <2> QED BY <1>1, <1>5, <1>6, <1>7, <2>1
<1>8. CASE m.acl = Nothing
  <2>1. Levelled(d) = [m EXCEPT !.acl = level]
    BY <1>1, <1>8 DEF Levelled, level
  <2>2. PICK n : n = [m EXCEPT !.acl = level]
    OBVIOUS
  <2>3. n = [acl |-> level, audience |-> m.audience, text |-> m.text] /\ n.acl = level
    BY <1>3, <2>2
  <2>4. n # Blank
    BY <1>4, <1>5, <2>3
  <2>5. [m EXCEPT !.acl = "restricted"] = [n EXCEPT !.acl = "restricted"]
    BY <1>3, <2>3
  <2> QED BY <1>1, <1>4, <1>5, <1>6, <1>8, <2>1, <2>2, <2>3, <2>4, <2>5 DEF level
<1> QED BY <1>7, <1>8

LEMMA DocItem ==
  ASSUME ScriptShapes, script = "acl", NEW r \in Runs, run[r] # NotRun
  PROVE  /\ run[r].items = Docs /\ run[r].item \in 1..Len(Docs) /\ Len(Docs) \in Nat
         /\ Item(r) = Docs[run[r].item] /\ \A k \in 1..Len(Docs) : Docs[k] \in ToSet(Docs)
         /\ \A d \in ToSet(Docs) : \E k \in 1..Len(Docs) : d = Docs[k]
<1>1. run[r].items = Docs /\ run[r].item \in 1..Len(Docs) /\ Item(r) = Docs[run[r].item]
  BY BegunIs DEF Listed, Item
<1>2. Docs \in Seq(ToSet(Docs)) /\ DOMAIN Docs = 1..Len(Docs) /\ Len(Docs) \in Nat
  BY ProvisioningAssumption
<1> QED BY <1>1, <1>2 DEF ToSet

\* The only run under way does something to its document.
LEMMA LevelsMoved ==
  ASSUME ScriptShapes, Overlaps, Levels, script = "acl", NEW r \in Runs, Changes(r), LevelTypes',
         marred' = FALSE => /\ marred = FALSE /\ LevelRun(r)'
                            /\ \A d \in ToSet(Docs) : LevelKept(d)'
                            /\ run'[r].at = "ended" /\ run'[r].code \in {"0", "1"} =>
                                 \A d \in ToSet(Docs) \ Broken : doc'[d] = Levelled(d)',
         marred' \in BOOLEAN
  PROVE  Levels'
<1> SUFFICES ASSUME marred' = FALSE
             PROVE  (\A q \in Runs \ {r} : run'[q] # NotRun => LevelRun(q)') /\ LevelEnd'
  BY DEF Levels
<1>1. \A q \in Runs \ {r} : run'[q] = run[q] /\ ~UnderWay(q)
  BY ChangesAre DEF Overlaps, Moves, Changes
<1>2. ASSUME NEW q \in Runs \ {r}, run'[q] # NotRun PROVE LevelRun(q)'
  <2>1. run[q].at = "ended"
    BY <1>1, <1>2, BegunIs
  <2> QED BY <1>1, <2>1 DEF LevelRun
<1>3. LevelEnd'
  <2>1. Quiet' => run'[r].at = "ended" /\ latest' = r
    BY ChangesAre DEF Quiet, UnderWay, Places
  <2> QED BY <2>1 DEF LevelEnd
<1> QED BY <1>2, <1>3

LEMMA LevelsLoaded ==
  ASSUME ScriptShapes, Overlaps, Levels, script = "acl", NEW r \in Runs, Load(r)
  PROVE  Levels'
<1> DEFINE d == Item(r)
           k0 == run[r].item
<1>1. /\ Changes(r) /\ UnderWay(r) /\ run[r].at = "item" /\ UNCHANGED <<doc, meant>> /\ marred' = marred
      /\ \/ d \in Broken /\ Passes(r, TRUE)
         \/ d \notin Broken /\ doc[d].acl # Nothing /\ Passes(r, FALSE)
         \/ d \notin Broken /\ doc[d].acl = Nothing /\ Stands(r, "loaded") /\ run'[r].held = doc[d]
  BY LoadChanges DEF docs, Changes
<1>2. run[r] # NotRun /\ LevelTypes /\ LevelTypes' /\ marred' \in BOOLEAN
  BY <1>1, BusyIs DEF Levels, LevelTypes, ScriptShapes
<1>3. /\ run[r].items = Docs /\ k0 \in 1..Len(Docs) /\ Len(Docs) \in Nat /\ d = Docs[k0]
      /\ \A k \in 1..Len(Docs) : Docs[k] \in ToSet(Docs)
      /\ \A e \in ToSet(Docs) : \E k \in 1..Len(Docs) : e = Docs[k]
  BY <1>2, DocItem
<1> HIDE DEF d
<1>4. ASSUME marred' = FALSE
      PROVE  /\ LevelRun(r)' /\ \A e \in ToSet(Docs) : LevelKept(e)'
             /\ run'[r].at = "ended" /\ run'[r].code \in {"0", "1"} =>
                  \A e \in ToSet(Docs) \ Broken : doc'[e] = Levelled(e)'
  <2>1. LevelRun(r) /\ \A e \in ToSet(Docs) : LevelKept(e)
    BY <1>1, <1>2, <1>4 DEF Levels
  <2>2. \A q \in Runs : run[q] # NotRun => run[q].at # "truncated"
    BY <1>1, <1>4, BegunIs DEF Overlaps, UnderWay
  <2>3. \A e \in ToSet(Docs) : doc[e] = meant[e] \/ doc[e] = Levelled(e)
    BY <2>1, <2>2 DEF LevelKept
  <2>4. \A e \in ToSet(Docs) : LevelKept(e)' /\ Levelled(e)' = Levelled(e)
    BY <1>1, <2>3 DEF LevelKept, Levelled
  <2>5. d \in ToSet(Docs)
    BY <1>3
  <2>6. CASE Passes(r, TRUE) \/ Passes(r, FALSE)
    <3>1. d \in Broken \/ doc[d] = Levelled(d)
      <4>1. d \in Broken \/ doc[d].acl # Nothing
        BY <1>1, <2>6 DEF Passes, Stands
      <4> QED BY <1>2, <2>3, <2>5, <4>1, LevelledIs
    <3>2. \A k \in 1..k0 : Docs[k] \notin Broken => doc'[Docs[k]] = Levelled(Docs[k])'
      <4> SUFFICES ASSUME NEW k \in 1..k0, Docs[k] \notin Broken PROVE doc'[Docs[k]] = Levelled(Docs[k])'
        OBVIOUS
      <4>1. Docs[k] \in ToSet(Docs)
        BY <1>3
      <4>2. doc[Docs[k]] = Levelled(Docs[k])
        BY <1>1, <1>3, <2>1, <3>1 DEF LevelRun
      <4> QED BY <1>1, <2>4, <4>1, <4>2
    <3>3. \/ run'[r].at = "item" /\ run'[r].item = k0 + 1
          \/ run'[r].at = "ended" /\ k0 = Len(Docs)
      BY <1>3, <2>6 DEF Passes
    <3>4. LevelRun(r)'
      BY <1>3, <3>2, <3>3 DEF LevelRun
    <3>5. run'[r].at = "ended" => \A e \in ToSet(Docs) \ Broken : doc'[e] = Levelled(e)'
      BY <1>3, <3>2, <3>3
    <3> QED BY <2>4, <3>4, <3>5
  <2>7. CASE d \notin Broken /\ doc[d].acl = Nothing /\ Stands(r, "loaded") /\ run'[r].held = doc[d]
    <3>1. doc[d] = meant[d] /\ meant[d].acl = Nothing
      BY <1>2, <2>3, <2>5, <2>7, LevelledIs
    <3>2. run'[r].at = "loaded" /\ run'[r].item = k0
      BY <2>7 DEF Stands
    <3>3. ASSUME NEW k \in 1..(k0 - 1), Docs[k] \notin Broken PROVE doc'[Docs[k]] = Levelled(Docs[k])'
      <4>1. Docs[k] \in ToSet(Docs)
        BY <1>3
      <4> QED BY <1>1, <2>1, <2>4, <3>3, <4>1 DEF LevelRun
    <3> QED BY <1>1, <1>3, <2>4, <2>7, <3>1, <3>2, <3>3 DEF LevelRun
  <2> QED BY <1>1, <2>6, <2>7
<1> QED BY <1>1, <1>2, <1>4, LevelsMoved

LEMMA LevelsTruncated ==
  ASSUME ScriptShapes, Overlaps, Levels, script = "acl", NEW r \in Runs, Truncate(r)
  PROVE  Levels'
<1> DEFINE d == Item(r)
           k0 == run[r].item
<1>1. /\ Changes(r) /\ UnderWay(r) /\ run[r].at = "loaded" /\ meant' = meant /\ marred' = marred
      /\ doc' = [doc EXCEPT ![d] = Blank] /\ Stands(r, "truncated") /\ run'[r].held = run[r].held
  BY TruncateChanges DEF Changes
<1>2. run[r] # NotRun /\ LevelTypes /\ marred' \in BOOLEAN
  BY <1>1, BusyIs DEF Levels, ScriptShapes
<1>3. /\ k0 \in 1..Len(Docs) /\ Len(Docs) \in Nat /\ d = Docs[k0]
      /\ \A k \in 1..Len(Docs) : Docs[k] \in ToSet(Docs)
  BY <1>2, DocItem
<1> HIDE DEF d
<1>4. doc' = [e \in ToSet(Docs) |-> IF e = d THEN Blank ELSE doc[e]]
  BY <1>1, <1>2 DEF LevelTypes
<1>5. LevelTypes'
  BY <1>1, <1>2, <1>4 DEF LevelTypes
<1>6. /\ run'[r].at = "truncated" /\ run'[r].item = k0 /\ Moves(r) /\ d \in ToSet(Docs)
      /\ \A e \in ToSet(Docs) : Levelled(e)' = Levelled(e)
  BY <1>1, <1>3 DEF Stands, Levelled
<1>7. ASSUME marred' = FALSE
      PROVE  LevelRun(r)' /\ \A e \in ToSet(Docs) : LevelKept(e)'
  <2>1. LevelRun(r) /\ \A e \in ToSet(Docs) : LevelKept(e)
    BY <1>1, <1>2, <1>7 DEF Levels
  <2>2. \A q \in Runs : run[q] # NotRun => run[q].at # "truncated"
    BY <1>1, <1>7, BegunIs DEF Overlaps, UnderWay
  <2>3. \A e \in ToSet(Docs) : doc[e] = meant[e] \/ doc[e] = Levelled(e)
    BY <2>1, <2>2 DEF LevelKept
  <2>4. run[r].held = meant[d] /\ doc[d] = meant[d] /\ meant[d].acl = Nothing
    BY <1>1, <1>3, <2>1 DEF LevelRun
  <2>5. ASSUME NEW k \in 1..(k0 - 1), Docs[k] \notin Broken PROVE doc'[Docs[k]] = Levelled(Docs[k])'
    <3>1. Docs[k] \in ToSet(Docs) /\ doc[Docs[k]] = Levelled(Docs[k])
      BY <1>1, <1>3, <2>1, <2>5 DEF LevelRun
    <3>2. Docs[k] # d
      BY <1>2, <2>4, <3>1, LevelledIs, ZenonT(40)
    <3> QED BY <1>4, <1>6, <3>1, <3>2
  <2>6. LevelRun(r)'
    BY <1>1, <1>3, <1>4, <1>6, <2>4, <2>5 DEF LevelRun
  <2>7. ASSUME NEW e \in ToSet(Docs) PROVE LevelKept(e)'
    <3>1. CASE e = d
      <4>1. run'[r] # NotRun
        BY <1>6 DEF NotRun
      <4> QED BY <1>3, <1>4, <1>6, <3>1, <4>1 DEF LevelKept
    <3>2. CASE e # d
      BY <1>1, <1>4, <1>6, <2>3, <3>2 DEF LevelKept
    <3> QED BY <3>1, <3>2
  <2> QED BY <2>6, <2>7
<1> QED BY <1>1, <1>2, <1>5, <1>6, <1>7, LevelsMoved

LEMMA LevelsWritten ==
  ASSUME ScriptShapes, Overlaps, Levels, script = "acl", NEW r \in Runs, WriteDoc(r)
  PROVE  Levels'
<1>0. PICK d : d = Item(r)
  OBVIOUS
<1> DEFINE k0 == run[r].item
           made == [run[r].held EXCEPT !.acl = LevelOf(run[r].held.audience)]
<1>1. /\ Changes(r) /\ UnderWay(r) /\ run[r].at = "truncated" /\ meant' = meant /\ marred' = marred
      /\ doc' = [doc EXCEPT ![d] = made] /\ Passes(r, FALSE)
  BY <1>0, WriteChanges DEF Changes
<1>2. run[r] # NotRun /\ LevelTypes /\ marred' \in BOOLEAN
  BY <1>1, BusyIs DEF Levels, ScriptShapes
<1>3. /\ run[r].items = Docs /\ k0 \in 1..Len(Docs) /\ Len(Docs) \in Nat /\ d = Docs[k0]
      /\ \A k \in 1..Len(Docs) : Docs[k] \in ToSet(Docs)
      /\ \A e \in ToSet(Docs) : \E k \in 1..Len(Docs) : e = Docs[k]
  BY <1>0, <1>2, DocItem
<1>4. run[r].held = meant[d] /\ meant[d].acl = Nothing => made = Levelled(d)
  BY DEF Levelled
<1> HIDE DEF made
<1>5. doc' = [e \in ToSet(Docs) |-> IF e = d THEN made ELSE doc[e]]
  BY <1>1, <1>2 DEF LevelTypes
<1>6. LevelTypes'
  BY <1>1, <1>2, <1>5 DEF LevelTypes
<1>7. d \in ToSet(Docs) /\ \A e \in ToSet(Docs) : Levelled(e)' = Levelled(e)
  BY <1>1, <1>3 DEF Levelled
<1>8. ASSUME marred' = FALSE
      PROVE  /\ LevelRun(r)' /\ \A e \in ToSet(Docs) : LevelKept(e)'
             /\ run'[r].at = "ended" /\ run'[r].code \in {"0", "1"} =>
                  \A e \in ToSet(Docs) \ Broken : doc'[e] = Levelled(e)'
  <2>1. LevelRun(r) /\ \A e \in ToSet(Docs) : LevelKept(e)
    BY <1>1, <1>2, <1>8 DEF Levels
  <2>2. doc'[d] = Levelled(d)'
    BY <1>1, <1>3, <1>4, <1>5, <1>7, <2>1 DEF LevelRun
  <2>3. \A k \in 1..k0 : Docs[k] \notin Broken => doc'[Docs[k]] = Levelled(Docs[k])'
    <3> SUFFICES ASSUME NEW k \in 1..k0, Docs[k] \notin Broken, Docs[k] # d PROVE doc'[Docs[k]] = Levelled(Docs[k])'
      BY <2>2
    <3>1. Docs[k] \in ToSet(Docs) /\ doc[Docs[k]] = Levelled(Docs[k])
      BY <1>1, <1>3, <2>1 DEF LevelRun
    <3> QED BY <1>5, <1>7, <3>1
  <2>4. \/ run'[r].at = "item" /\ run'[r].item = k0 + 1
        \/ run'[r].at = "ended" /\ k0 = Len(Docs)
    BY <1>1, <1>3 DEF Passes
  <2>5. LevelRun(r)'
    BY <1>3, <2>3, <2>4 DEF LevelRun
  <2>6. run'[r].at = "ended" => \A e \in ToSet(Docs) \ Broken : doc'[e] = Levelled(e)'
    BY <1>3, <2>3, <2>4
  <2>7. ASSUME NEW e \in ToSet(Docs) PROVE LevelKept(e)'
    <3>1. CASE e = d
      BY <2>2, <3>1 DEF LevelKept
    <3>2. CASE e # d
      <4>1. ~\E q \in Runs : run[q] # NotRun /\ run[q].at = "truncated" /\ Docs[run[q].item] = e
        BY <1>1, <1>3, <1>8, <3>2, BegunIs DEF Overlaps, UnderWay
      <4>2. doc[e] = meant[e] \/ doc[e] = Levelled(e)
        BY <2>1, <4>1 DEF LevelKept
      <4> QED BY <1>1, <1>5, <1>7, <3>2, <4>2 DEF LevelKept
    <3> QED BY <3>1, <3>2
  <2> QED BY <2>5, <2>6, <2>7
<1> QED BY <1>1, <1>2, <1>6, <1>8, LevelsMoved

LEMMA LevelsEdited ==
  ASSUME ScriptShapes, Overlaps, Levels, script = "acl", NEW d \in ToSet(Docs), EditLevel(d)
  PROVE  Levels'
<1> DEFINE taken == \E r \in Runs : run[r].at = "loaded" /\ Item(r) = d
<1>1. /\ UNCHANGED <<run, latest>> /\ marred' = (marred \/ taken) /\ doc[d].text /\ LevelTypes
      /\ doc' = [doc EXCEPT ![d].acl = "restricted"] /\ meant' = [meant EXCEPT ![d].acl = "restricted"]
  BY DEF EditLevel, Levels
<1>2. doc[d] # Blank
  <2>1. Blank.text = FALSE
    BY DEF Blank
  <2> QED BY <1>1, <2>1
<1>3. /\ doc' = [e \in ToSet(Docs) |-> IF e = d THEN [doc[d] EXCEPT !.acl = "restricted"] ELSE doc[e]]
      /\ meant' = [e \in ToSet(Docs) |-> IF e = d THEN [meant[d] EXCEPT !.acl = "restricted"] ELSE meant[e]]
  BY <1>1 DEF LevelTypes
<1>4. [meant[d] EXCEPT !.acl = "restricted"] \in
        [acl : {Nothing, "public", "restricted"}, audience : {"operations", "safety"}, text : {TRUE}]
      /\ [meant[d] EXCEPT !.acl = "restricted"].acl = "restricted"
  BY <1>1 DEF LevelTypes
<1>5. LevelTypes'
  BY <1>1, <1>3, <1>4 DEF LevelTypes
<1>6. \A e \in ToSet(Docs) \ {d} : meant'[e] = meant[e] /\ doc'[e] = doc[e] /\ Levelled(e)' = Levelled(e)
  BY <1>3 DEF Levelled
<1> SUFFICES ASSUME marred' = FALSE
             PROVE  (\A e \in ToSet(Docs) : LevelKept(e)') /\ (\A r \in Runs : run'[r] # NotRun => LevelRun(r)') /\ LevelEnd'
  BY <1>5, ApartIs DEF Levels, Apart
<1>7. marred = FALSE /\ ~taken
  BY <1>1 DEF ScriptShapes
<1>8. (\A e \in ToSet(Docs) : LevelKept(e)) /\ (\A r \in Runs : run[r] # NotRun => LevelRun(r)) /\ LevelEnd
  BY <1>7 DEF Levels
<1>9. meant'[d] = doc'[d] /\ Levelled(d)' = doc'[d]
  <2>1. doc[d] = meant[d] \/ doc[d] = Levelled(d)
    BY <1>2, <1>8 DEF LevelKept
  <2>2. [doc[d] EXCEPT !.acl = "restricted"] = [meant[d] EXCEPT !.acl = "restricted"]
    BY <1>1, <2>1, LevelledIs
  <2>3. meant'[d] = doc'[d]
    BY <1>3, <2>2
  <2>4. meant'[d].acl # Nothing
    BY <1>3, <1>4, ProvisioningAssumption
  <2> QED BY <2>3, <2>4 DEF Levelled
<1>10. ASSUME NEW e \in ToSet(Docs) PROVE LevelKept(e)'
  <2>1. CASE e = d
    BY <1>9, <2>1 DEF LevelKept
  <2>2. CASE e # d
    BY <1>1, <1>6, <1>8, <2>2 DEF LevelKept
  <2> QED BY <2>1, <2>2
<1>11. ASSUME NEW r \in Runs, run'[r] # NotRun PROVE LevelRun(r)'
  <2> DEFINE k0 == run[r].item
  <2>1. LevelRun(r) /\ run' = run /\ run[r] # NotRun
    BY <1>1, <1>8, <1>11
  <2>2. /\ k0 \in 1..Len(Docs) /\ Len(Docs) \in Nat /\ Item(r) = Docs[k0]
        /\ \A k \in 1..Len(Docs) : Docs[k] \in ToSet(Docs)
    BY <2>1, DocItem
  <2>3. \A k \in 1..(k0 - 1) : run[r].at # "ended" /\ Docs[k] \notin Broken => doc'[Docs[k]] = Levelled(Docs[k])'
    BY <1>6, <1>9, <2>1, <2>2 DEF LevelRun
  <2>4. run[r].at = "loaded" => Docs[k0] # d
    BY <1>7, <2>2
  <2>5. run[r].at = "truncated" => Docs[k0] # d
    BY <1>2, <2>1 DEF LevelRun
  <2>6. Docs[k0] # d => meant'[Docs[k0]] = meant[Docs[k0]] /\ doc'[Docs[k0]] = doc[Docs[k0]]
    BY <1>6, <2>2
  <2> QED BY <2>1, <2>3, <2>4, <2>5, <2>6 DEF LevelRun
<1>12. LevelEnd'
  BY <1>1, <1>6, <1>8, <1>9 DEF LevelEnd, Quiet, UnderWay
<1> QED BY <1>10, <1>11, <1>12

LEMMA LevelsStep ==
  ASSUME ScriptShapes, Overlaps, Levels, [ProvNext]_provars
  PROVE  Levels'
<1> SUFFICES ASSUME script = "acl" PROVE Levels'
  BY ScriptSteps DEF Levels
<1>1. ASSUME NEW r \in Runs, Begins(r), UNCHANGED docs PROVE Levels'
  <2>1. UNCHANGED <<doc, meant>> /\ LevelTypes' /\ \A e \in ToSet(Docs) : Levelled(e)' = Levelled(e)
    BY <1>1 DEF docs, Levels, LevelTypes, Levelled
  <2>2. CASE marred' = FALSE
    <3>1. marred = FALSE /\ Quiet /\ run'[r].at = "item" /\ run'[r].item = 1
          /\ \A q \in Runs \ {r} : run'[q] = run[q]
      BY <1>1, <2>2 DEF Begins, Quiet
    <3>2. \A q \in Runs : run[q] # NotRun => run[q].at = "ended"
      BY <3>1, BegunIs DEF Quiet
    <3>3. \A e \in ToSet(Docs) : LevelKept(e)'
      BY <2>1, <3>1, <3>2 DEF Levels, LevelKept
    <3>4. \A q \in Runs : run'[q] # NotRun => LevelRun(q)'
      BY <3>1, <3>2 DEF LevelRun
    <3>5. LevelEnd'
      BY <3>1 DEF LevelEnd, Quiet, UnderWay
    <3> QED BY <2>1, <3>3, <3>4, <3>5 DEF Levels
  <2>3. CASE marred' # FALSE
    <3>1. marred' = TRUE
      BY <1>1, <2>3 DEF Begins
    <3> QED BY <2>1, <3>1 DEF Levels
  <2> QED BY <2>2, <2>3
<1>2. ASSUME NEW r \in Runs, Kill(r) PROVE Levels'
  <2>1. /\ UnderWay(r) /\ Ends(r, "killed") /\ UNCHANGED <<doc, meant>> /\ marred' \in BOOLEAN
        /\ (marred' = FALSE => marred = FALSE /\ run[r].at # "truncated") /\ Changes(r)
    BY <1>2, LossIs, WorksIs DEF docs, Works
  <2>2. LevelTypes' /\ \A e \in ToSet(Docs) : Levelled(e)' = Levelled(e)
    BY <2>1 DEF Levels, LevelTypes, Levelled
  <2>3. run'[r].at = "ended" /\ run'[r].code = "killed" /\ Moves(r)
    BY <2>1 DEF Ends
  <2>4. marred' = FALSE => LevelRun(r)'
    BY <2>3 DEF LevelRun
  <2>5. ASSUME marred' = FALSE, NEW e \in ToSet(Docs) PROVE LevelKept(e)'
    <3>1. LevelKept(e)
      BY <2>1, <2>5 DEF Levels
    <3>2. \A q \in Runs \ {r} : run'[q] = run[q]
      BY <2>3 DEF Moves
    <3>3. run[r].at # "truncated"
      BY <2>1, <2>5
    <3> QED BY <2>1, <2>2, <3>1, <3>2, <3>3 DEF LevelKept
  <2> QED BY <2>1, <2>2, <2>3, <2>4, <2>5, LevelsMoved
<1>3. ASSUME UNCHANGED provars PROVE Levels'
  <2>1. UNCHANGED <<script, run, doc, meant, latest, marred>>
    BY <1>3 DEF provars, docs
  <2>2. \A d \in ToSet(Docs) : Levelled(d)' = Levelled(d) /\ (LevelKept(d) => LevelKept(d)')
    BY <2>1 DEF LevelKept, Levelled
  <2>3. \A r \in Runs : LevelRun(r) => LevelRun(r)'
    BY <2>1 DEF LevelRun, Levelled
  <2>4. (LevelTypes => LevelTypes') /\ (LevelEnd => LevelEnd')
    BY <2>1, <2>2 DEF LevelTypes, LevelEnd, Quiet, UnderWay
  <2> QED BY <2>1, <2>2, <2>3, <2>4 DEF Levels
<1> QED BY <1>1, <1>2, <1>3, ScriptSteps, LevelsLoaded, LevelsTruncated, LevelsWritten, LevelsEdited

\* datasets: as registered, for a run that is alone and has not failed.
Registered(d) == local[d] # "absent" /\ (sums[d] = Nothing \/ sums[d] = local[d])

DataTypes ==
  /\ local \in [ToSet(Datasets) -> {"absent", "partial", "v1", "v2"}]
  /\ sums \in [ToSet(Datasets) -> {Nothing, "partial", "v1", "v2"}] /\ served \in {"v1", "v2"}

LoneRun(r) ==
  /\ run[r].bad = FALSE => \A k \in 1..(run[r].item - 1) : Registered(Datasets[k])
  /\ run[r].at \in {"fetching", "fetched"} => run[r].held = sums[Datasets[run[r].item]]
  /\ run[r].at = "fetched" => local[Datasets[run[r].item]] # "absent"

Whole ==
  /\ \A d \in ToSet(Datasets) :
       local[d] = "partial" => \E r \in Runs : run[r] # NotRun /\ run[r].at = "fetching" /\ Datasets[run[r].item] = d
  /\ \A d \in ToSet(Datasets) : sums[d] # "partial"

Downloaded ==
  script = "datasets" =>
    /\ DataTypes
    /\ \A r \in Runs : UnderWay(r) /\ run[r].alone => LoneRun(r)
    /\ Settled /\ run[latest].alone => \A d \in ToSet(Datasets) : Registered(d)
    /\ ~marred => Whole

LEMMA DataItem ==
  ASSUME ScriptShapes, script = "datasets", NEW r \in Runs, run[r] # NotRun
  PROVE  /\ run[r].items = Datasets /\ run[r].item \in 1..Len(Datasets) /\ Len(Datasets) \in Nat
         /\ Item(r) = Datasets[run[r].item] /\ \A k \in 1..Len(Datasets) : Datasets[k] \in ToSet(Datasets)
         /\ \A d \in ToSet(Datasets) : \E k \in 1..Len(Datasets) : d = Datasets[k]
         /\ \A i, j \in 1..Len(Datasets) : Datasets[i] = Datasets[j] => i = j
<1>1. run[r].items = Datasets /\ run[r].item \in 1..Len(Datasets) /\ Item(r) = Datasets[run[r].item]
  BY BegunIs DEF Listed, Item
<1>2. Datasets \in Seq(ToSet(Datasets)) /\ DOMAIN Datasets = 1..Len(Datasets) /\ Len(Datasets) \in Nat
      /\ \A i, j \in 1..Len(Datasets) : Datasets[i] = Datasets[j] => i = j
  BY ProvisioningAssumption
<1> QED BY <1>1, <1>2 DEF ToSet

LEMMA DownloadedMoved ==
  ASSUME ScriptShapes, Overlaps, Downloaded, script = "datasets", NEW r \in Runs, Changes(r), DataTypes',
         run[r].alone => /\ UnderWay(r)' => LoneRun(r)'
                         /\ Exited(r, "0")' => \A d \in ToSet(Datasets) : Registered(d)',
         marred' \in BOOLEAN, marred' = FALSE => marred = FALSE /\ Whole'
  PROVE  Downloaded'
<1>1. /\ Moves(r) /\ run'[r].alone = run[r].alone /\ UnderWay(r)
      /\ (run'[r].at = "ended" /\ latest' = r) \/ UnderWay(r)'
  BY ChangesAre DEF Changes, UnderWay, Places
<1>2. \A q \in Runs : UnderWay(q)' /\ run'[q].alone => q = r
  BY <1>1 DEF Moves, Overlaps, UnderWay
<1>3. Settled' => latest' = r /\ Exited(r, "0")'
  BY <1>1 DEF Settled, Exited
<1> QED BY <1>1, <1>2, <1>3 DEF Downloaded

\* An item of a run that is not marred is left whole.
LEMMA WholeKept ==
  ASSUME ScriptShapes, Overlaps, Downloaded, script = "datasets", NEW r \in Runs, UnderWay(r), marred = FALSE,
         Moves(r), NEW d, d = Item(r),
         local'[d] = "partial" => run'[r].at = "fetching" /\ run'[r].item = run[r].item,
         sums'[d] = sums[d] \/ sums'[d] # "partial",
         \A e \in ToSet(Datasets) \ {d} : local'[e] = local[e] /\ sums'[e] = sums[e]
  PROVE  Whole'
<1>1. Whole /\ run[r] # NotRun
  BY BusyIs DEF Downloaded
<1>2. d = Datasets[run[r].item] /\ d \in ToSet(Datasets)
  BY <1>1, DataItem
<1>3. \A q \in Runs : UnderWay(q) => q = r
  BY DEF Overlaps
<1>4. \A e \in ToSet(Datasets) : local[e] = "partial" => e = d
  BY <1>1, <1>2, <1>3 DEF Whole, UnderWay
<1>5. local'[d] = "partial" => run'[r] # NotRun
  BY DEF NotRun
<1> QED BY <1>1, <1>2, <1>4, <1>5 DEF Whole

LEMMA LoneRuns ==
  ASSUME ScriptShapes, Overlaps, Downloaded, script = "datasets", NEW r \in Runs, UnderWay(r), run[r].alone
  PROVE  LoneRun(r)
BY DEF Downloaded

\* A lone run has done with an item; when it has not failed it is registered.
LEMMA LonePasses ==
  ASSUME ScriptShapes, Overlaps, Downloaded, script = "datasets", NEW r \in Runs, UnderWay(r), run[r].alone,
         NEW failed \in BOOLEAN, Passes(r, failed), NEW d, d = Item(r),
         failed = FALSE => Registered(d)',
         \A e \in ToSet(Datasets) \ {d} : local'[e] = local[e] /\ sums'[e] = sums[e]
  PROVE  /\ UnderWay(r)' => LoneRun(r)'
         /\ Exited(r, "0")' => \A e \in ToSet(Datasets) : Registered(e)'
<1> DEFINE k0 == run[r].item
<1>1. run[r] # NotRun /\ LoneRun(r)
  BY BusyIs, LoneRuns
<1>2. /\ run[r].items = Datasets /\ k0 \in 1..Len(Datasets) /\ Len(Datasets) \in Nat /\ d = Datasets[k0]
      /\ \A k \in 1..Len(Datasets) : Datasets[k] \in ToSet(Datasets)
      /\ \A e \in ToSet(Datasets) : \E k \in 1..Len(Datasets) : e = Datasets[k]
      /\ \A i, j \in 1..Len(Datasets) : Datasets[i] = Datasets[j] => i = j
  BY <1>1, DataItem
<1>3. run'[r].bad = FALSE => \A k \in 1..k0 : Registered(Datasets[k])'
  <2> SUFFICES ASSUME run'[r].bad = FALSE, NEW k \in 1..k0 PROVE Registered(Datasets[k])'
    OBVIOUS
  <2>1. run[r].bad = FALSE /\ failed = FALSE
    BY DEF Passes
  <2>2. CASE k = k0
    BY <1>2, <2>1, <2>2
  <2>3. CASE k # k0
    <3>1. k \in 1..(k0 - 1) /\ Datasets[k] \in ToSet(Datasets) \ {d}
      BY <1>2, <2>3
    <3>2. Registered(Datasets[k])
      BY <1>1, <2>1, <3>1 DEF LoneRun
    <3> QED BY <3>1, <3>2 DEF Registered
  <2> QED BY <2>2, <2>3
<1>4. \/ run'[r].at = "item" /\ run'[r].item = k0 + 1
      \/ run'[r].at = "ended" /\ k0 = Len(Datasets) /\ (run'[r].code = "0" => run'[r].bad = FALSE)
  BY <1>2 DEF Passes
<1>5. UnderWay(r)' => LoneRun(r)'
  BY <1>2, <1>3, <1>4 DEF UnderWay, LoneRun
<1>6. Exited(r, "0")' => \A e \in ToSet(Datasets) : Registered(e)'
  BY <1>2, <1>3, <1>4 DEF Exited
<1> QED BY <1>5, <1>6

\* A lone run goes on with its item.
LEMMA LoneStands ==
  ASSUME ScriptShapes, Overlaps, Downloaded, script = "datasets", NEW r \in Runs, UnderWay(r), run[r].alone,
         NEW place \in {"fetching", "fetched"}, Stands(r, place), NEW d, d = Item(r),
         run'[r].held = sums'[d], place = "fetched" => local'[d] # "absent",
         \A e \in ToSet(Datasets) \ {d} : local'[e] = local[e] /\ sums'[e] = sums[e]
  PROVE  LoneRun(r)' /\ ~Exited(r, "0")'
<1> DEFINE k0 == run[r].item
<1>1. run[r] # NotRun /\ LoneRun(r)
  BY BusyIs, LoneRuns
<1>2. /\ k0 \in 1..Len(Datasets) /\ Len(Datasets) \in Nat /\ d = Datasets[k0]
      /\ \A k \in 1..Len(Datasets) : Datasets[k] \in ToSet(Datasets)
      /\ \A i, j \in 1..Len(Datasets) : Datasets[i] = Datasets[j] => i = j
  BY <1>1, DataItem
<1>3. run'[r].at = place /\ run'[r].item = k0 /\ run'[r].bad = run[r].bad
  BY DEF Stands
<1>4. ASSUME run'[r].bad = FALSE, NEW k \in 1..(k0 - 1) PROVE Registered(Datasets[k])'
  <2>1. Datasets[k] \in ToSet(Datasets) \ {d}
    BY <1>2
  <2>2. Registered(Datasets[k])
    BY <1>1, <1>3, <1>4 DEF LoneRun
  <2> QED BY <2>1, <2>2 DEF Registered
<1> QED BY <1>2, <1>3, <1>4 DEF LoneRun, Exited

LEMMA DownloadedChecked ==
  ASSUME ScriptShapes, Overlaps, Downloaded, script = "datasets", NEW r \in Runs, CheckDataset(r)
  PROVE  Downloaded'
<1>0. PICK d : d = Item(r)
  OBVIOUS
<1>1. /\ Changes(r) /\ UnderWay(r) /\ sums' = sums /\ served' = served /\ marred' = marred
      /\ \/ /\ local[d] # "absent" /\ local' = local
            /\ \E failed \in BOOLEAN : /\ Passes(r, failed)
                                       /\ failed = FALSE => sums[d] \in {Nothing, local[d]}
         \/ /\ local' = [local EXCEPT ![d] = "partial"] /\ Stands(r, "fetching") /\ run'[r].held = sums[d]
  BY <1>0, CheckChanges DEF Changes
<1>2. run[r] # NotRun /\ DataTypes /\ marred' \in BOOLEAN /\ Moves(r)
  BY <1>1, BusyIs, ChangesAre DEF Downloaded, ScriptShapes
<1>3. CASE /\ local[d] # "absent" /\ local' = local
           /\ \E failed \in BOOLEAN : /\ Passes(r, failed)
                                      /\ failed = FALSE => sums[d] \in {Nothing, local[d]}
  <2>1. PICK failed \in BOOLEAN : Passes(r, failed) /\ (failed = FALSE => sums[d] \in {Nothing, local[d]})
    BY <1>3
  <2>2. failed = FALSE => Registered(d)'
    BY <1>1, <1>3, <2>1 DEF Registered
  <2>3. run[r].alone => /\ UnderWay(r)' => LoneRun(r)'
                        /\ Exited(r, "0")' => \A e \in ToSet(Datasets) : Registered(e)'
    BY <1>0, <1>1, <1>3, <2>1, <2>2, LonePasses
  <2>4. DataTypes'
    BY <1>1, <1>2, <1>3 DEF DataTypes
  <2>5. run[r].at # "fetching"
    BY CheckChanges
  <2>6. marred' = FALSE => Whole'
    <3>1. marred' = FALSE => Whole
      BY <1>1 DEF Downloaded
    <3>2. \A q \in Runs \ {r} : run'[q] = run[q]
      BY <1>2 DEF Moves
    <3> QED BY <1>1, <1>3, <2>5, <3>1, <3>2 DEF Whole
  <2> QED BY <1>1, <1>2, <2>3, <2>4, <2>6, DownloadedMoved
<1>4. CASE /\ local' = [local EXCEPT ![d] = "partial"] /\ Stands(r, "fetching") /\ run'[r].held = sums[d]
  <2>1. local' = [e \in ToSet(Datasets) |-> IF e = d THEN "partial" ELSE local[e]]
    BY <1>2, <1>4 DEF DataTypes
  <2>2. DataTypes'
    BY <1>1, <1>2, <2>1 DEF DataTypes
  <2>3. run[r].alone => LoneRun(r)' /\ ~Exited(r, "0")'
    BY <1>0, <1>1, <1>4, <2>1, LoneStands
  <2>4. marred' = FALSE => Whole'
    BY <1>0, <1>1, <1>2, <1>4, <2>1, WholeKept, ZenonT(40) DEF Stands
  <2> QED BY <1>1, <1>2, <2>2, <2>3, <2>4, DownloadedMoved
<1> QED BY <1>1, <1>3, <1>4

LEMMA DownloadedFetched ==
  ASSUME ScriptShapes, Overlaps, Downloaded, script = "datasets", NEW r \in Runs, Fetched(r) \/ FetchFails(r)
  PROVE  Downloaded'
<1>0. PICK d : d = Item(r)
  OBVIOUS
<1>1. /\ Changes(r) /\ UnderWay(r) /\ run[r].at = "fetching" /\ sums' = sums /\ served' = served /\ marred' = marred
      /\ \/ /\ local' = [local EXCEPT ![d] = served] /\ Stands(r, "fetched") /\ run'[r].held = run[r].held
         \/ local' = [local EXCEPT ![d] = "absent"] /\ Passes(r, TRUE)
  BY <1>0, FetchChanges DEF Changes
<1>2. run[r] # NotRun /\ DataTypes /\ marred' \in BOOLEAN /\ Moves(r)
  BY <1>1, BusyIs, ChangesAre DEF Downloaded, ScriptShapes
<1>3. d = Datasets[run[r].item] /\ d \in ToSet(Datasets)
  BY <1>0, <1>2, DataItem
<1>4. PICK v \in {"absent", "v1", "v2"} :
        /\ local' = [e \in ToSet(Datasets) |-> IF e = d THEN v ELSE local[e]]
        /\ \/ Passes(r, TRUE)
           \/ v # "absent" /\ Stands(r, "fetched") /\ run'[r].held = run[r].held
  BY <1>1, <1>2 DEF DataTypes
<1>5. DataTypes'
  BY <1>1, <1>2, <1>4 DEF DataTypes
<1>6. run[r].alone => /\ UnderWay(r)' => LoneRun(r)'
                      /\ Exited(r, "0")' => \A e \in ToSet(Datasets) : Registered(e)'
  <2>1. CASE Passes(r, TRUE)
    BY <1>0, <1>1, <1>4, <2>1, LonePasses
  <2>2. CASE v # "absent" /\ Stands(r, "fetched") /\ run'[r].held = run[r].held
    <3>1. run[r].alone => run[r].held = sums[d]
      BY <1>1, <1>3, LoneRuns DEF LoneRun
    <3>2. local'[d] # "absent"
      BY <1>3, <1>4, <2>2
    <3> QED BY <1>0, <1>1, <1>4, <2>2, <3>1, <3>2, LoneStands
  <2> QED BY <1>4, <2>1, <2>2
<1>7. marred' = FALSE => Whole'
  <2>1. local'[d] # "partial" /\ \A e \in ToSet(Datasets) \ {d} : local'[e] = local[e] /\ sums'[e] = sums[e]
    BY <1>1, <1>3, <1>4
  <2> QED BY <1>0, <1>1, <1>2, <2>1, WholeKept
<1> QED BY <1>1, <1>2, <1>5, <1>6, <1>7, DownloadedMoved

LEMMA DownloadedVerified ==
  ASSUME ScriptShapes, Overlaps, Downloaded, script = "datasets", NEW r \in Runs, Verify(r)
  PROVE  Downloaded'
<1>0. PICK d : d = Item(r)
  OBVIOUS
<1>1. /\ Changes(r) /\ UnderWay(r) /\ run[r].at = "fetched" /\ served' = served /\ marred' = marred
      /\ \/ local[d] = "absent" /\ Ends(r, "1") /\ UNCHANGED <<local, sums>>
         \/ /\ local[d] # "absent" /\ run[r].held = Nothing /\ sums' = [sums EXCEPT ![d] = local[d]]
            /\ Passes(r, FALSE) /\ UNCHANGED local
         \/ local[d] # "absent" /\ run[r].held = local[d] /\ Passes(r, FALSE) /\ UNCHANGED <<local, sums>>
         \/ local' = [local EXCEPT ![d] = "absent"] /\ Passes(r, TRUE) /\ UNCHANGED sums
  BY <1>0, VerifyChanges DEF Changes
<1>2. run[r] # NotRun /\ DataTypes /\ marred' \in BOOLEAN /\ Moves(r)
  BY <1>1, BusyIs, ChangesAre DEF Downloaded, ScriptShapes
<1>3. d = Datasets[run[r].item] /\ d \in ToSet(Datasets)
  BY <1>0, <1>2, DataItem
<1>4. marred = FALSE => local[d] # "partial"
  <2>1. marred = FALSE => \A q \in Runs : run[q] # NotRun => run[q].at # "fetching"
    BY <1>1, BegunIs DEF Overlaps, UnderWay
  <2> QED BY <1>3, <2>1 DEF Downloaded, Whole
<1>5. /\ DataTypes' /\ \A e \in ToSet(Datasets) \ {d} : local'[e] = local[e] /\ sums'[e] = sums[e]
      /\ local'[d] \in {local[d], "absent"} /\ sums'[d] \in {sums[d], local[d]} /\ (sums'[d] = sums[d] \/ sums'[d] = local[d])
  <2>1. CASE UNCHANGED <<local, sums>>
    BY <1>1, <1>2, <2>1 DEF DataTypes
  <2>2. CASE local[d] # "absent" /\ sums' = [sums EXCEPT ![d] = local[d]] /\ UNCHANGED local
    <3>1. sums' = [e \in ToSet(Datasets) |-> IF e = d THEN local[d] ELSE sums[e]]
      BY <1>2, <2>2 DEF DataTypes
    <3>2. local[d] \in {"partial", "v1", "v2"}
      BY <1>2, <1>3, <2>2 DEF DataTypes
    <3> QED BY <1>1, <1>2, <1>3, <2>2, <3>1, <3>2 DEF DataTypes
  <2>3. CASE local' = [local EXCEPT ![d] = "absent"] /\ UNCHANGED sums
    <3>1. local' = [e \in ToSet(Datasets) |-> IF e = d THEN "absent" ELSE local[e]]
      BY <1>2, <2>3 DEF DataTypes
    <3> QED BY <1>1, <1>2, <1>3, <2>3, <3>1 DEF DataTypes
  <2> QED BY <1>1, <2>1, <2>2, <2>3
<1>6. marred' = FALSE => Whole'
  BY <1>0, <1>1, <1>2, <1>4, <1>5, WholeKept
<1>7. run[r].alone => /\ UnderWay(r)' => LoneRun(r)'
                      /\ Exited(r, "0")' => \A e \in ToSet(Datasets) : Registered(e)'
  <2> SUFFICES ASSUME run[r].alone
               PROVE  /\ UnderWay(r)' => LoneRun(r)'
                      /\ Exited(r, "0")' => \A e \in ToSet(Datasets) : Registered(e)'
    OBVIOUS
  <2>1. run[r].held = sums[d]
    BY <1>1, <1>3, LoneRuns DEF LoneRun
  <2>2. CASE Ends(r, "1")
    BY <2>2 DEF Ends, UnderWay, Exited
  <2>3. CASE Passes(r, TRUE)
    BY <1>0, <1>1, <1>5, <2>3, LonePasses
  <2>4. CASE /\ local[d] # "absent" /\ run[r].held = Nothing /\ sums' = [sums EXCEPT ![d] = local[d]]
             /\ Passes(r, FALSE) /\ UNCHANGED local
    <3>1. sums'[d] = local'[d] /\ local'[d] # "absent"
      BY <1>2, <1>3, <2>4 DEF DataTypes
    <3>2. Registered(d)'
      BY <3>1 DEF Registered
    <3> QED BY <1>0, <1>1, <1>5, <2>4, <3>2, LonePasses
  <2>5. CASE local[d] # "absent" /\ run[r].held = local[d] /\ Passes(r, FALSE) /\ UNCHANGED <<local, sums>>
    <3>1. Registered(d)'
      BY <2>1, <2>5 DEF Registered
    <3> QED BY <1>0, <1>1, <1>5, <2>5, <3>1, LonePasses
  <2> QED BY <1>1, <2>2, <2>3, <2>4, <2>5
<1> QED BY <1>1, <1>2, <1>5, <1>6, <1>7, DownloadedMoved

LEMMA DownloadedStep ==
  ASSUME ScriptShapes, Overlaps, Downloaded, [ProvNext]_provars
  PROVE  Downloaded'
<1> SUFFICES ASSUME script = "datasets" PROVE Downloaded'
  BY ScriptSteps DEF Downloaded
<1>1. ASSUME NEW r \in Runs, Begins(r), UNCHANGED disk PROVE Downloaded'
  <2>1. UNCHANGED <<local, sums>> /\ DataTypes'
    BY <1>1 DEF disk, Downloaded, DataTypes
  <2>2. LoneRun(r)' /\ ~Settled'
    <3>1. run'[r].at = "item" /\ run'[r].item = 1
      BY <1>1 DEF Begins
    <3> QED BY <3>1 DEF LoneRun, Settled, UnderWay
  <2>3. \A q \in Runs \ {r} : UnderWay(q)' => run'[q].alone = FALSE
    BY <1>1 DEF Begins, UnderWay
  <2>4. marred' \in BOOLEAN /\ (marred' = FALSE => Whole')
    <3>1. marred' \in BOOLEAN /\ (marred' = FALSE => marred = FALSE /\ Quiet)
      BY <1>1 DEF Begins
    <3>2. Quiet => \A q \in Runs : run[q] # NotRun => run[q].at # "fetching"
      BY BegunIs DEF Quiet
    <3> QED BY <2>1, <3>1, <3>2 DEF Downloaded, Whole
  <2> QED BY <2>1, <2>2, <2>3, <2>4 DEF Downloaded
<1>2. ASSUME NEW r \in Runs, Kill(r) PROVE Downloaded'
  <2>1. /\ UnderWay(r) /\ Ends(r, "killed") /\ UNCHANGED <<local, sums, served>> /\ marred' \in BOOLEAN
        /\ (marred' = FALSE => marred = FALSE /\ run[r].at # "fetching") /\ Changes(r) /\ Moves(r)
    BY <1>2, LossIs, WorksIs, ChangesAre DEF disk, Works
  <2>2. ~UnderWay(r)' /\ ~Exited(r, "0")'
    BY <2>1 DEF Ends, UnderWay, Exited
  <2>3. DataTypes'
    BY <2>1 DEF Downloaded, DataTypes
  <2>4. marred' = FALSE => Whole'
    <3>1. \A q \in Runs \ {r} : run'[q] = run[q]
      BY <2>1 DEF Moves
    <3> QED BY <2>1, <3>1 DEF Downloaded, Whole
  <2> QED BY <2>1, <2>2, <2>3, <2>4, DownloadedMoved
<1>3. ASSUME Republish \/ UNCHANGED provars PROVE Downloaded'
  <2>1. UNCHANGED <<script, run, local, sums, latest, marred>> /\ served' \in {served, "v2"}
    BY <1>3 DEF Republish, provars, disk
  <2>2. /\ \A d \in ToSet(Datasets) : Registered(d)' <=> Registered(d)
        /\ \A r \in Runs : (UnderWay(r)' <=> UnderWay(r)) /\ (LoneRun(r) => LoneRun(r)')
        /\ (Settled' <=> Settled) /\ (Whole => Whole') /\ (DataTypes => DataTypes')
    BY <2>1 DEF Registered, UnderWay, LoneRun, Settled, Exited, Whole, DataTypes
  <2> QED BY <2>1, <2>2 DEF Downloaded
<1> QED BY <1>1, <1>2, <1>3, ScriptSteps, DownloadedChecked, DownloadedFetched, DownloadedVerified

-----------------------------------------------------------------------------
(* The scripts keep what they promise.                                     *)

ProvInv == ScriptShapes /\ Overlaps /\ Migrated /\ Indexed /\ Constrained /\ Levels /\ Downloaded

LEMMA ProvStarts ==
  ASSUME ProvInit
  PROVE  ProvInv
<1>1. /\ run = [r \in Runs |-> NotRun] /\ (\A r \in Runs : run[r] = NotRun) /\ latest = Nothing /\ marred = FALSE
      /\ NotRun.at = "idle" /\ (\A r \in Runs : ~UnderWay(r))
  BY DEF ProvInit, NotRun, UnderWay
<1>2. /\ script \in {"migrate", "qdrant", "neo4j", "acl", "datasets"} /\ shipped \in 1..Len(Files)
  <2>1. Len(Files) \in Nat /\ Len(Files) > 0
    BY ProvisioningAssumption
  <2> QED BY <2>1 DEF ProvInit
<1>3. ScriptShapes /\ Overlaps
  BY <1>1, <1>2 DEF ScriptShapes, Overlaps
<1>4. \A r \in Runs, code \in {"0", "1"} : ~Exited(r, code)
  BY <1>1 DEF Exited
<1>5. Migrated /\ Indexed /\ Constrained
  BY <1>1, <1>4 DEF ProvInit, Migrated, Indexed, IndexTypes, Constrained
<1>6. Levels
  BY <1>1 DEF ProvInit, Levels, LevelTypes, LevelKept, LevelEnd
<1>7. Downloaded
  BY <1>1, ProvisioningAssumption DEF ProvInit, Downloaded, DataTypes, Whole, Settled
<1> QED BY <1>3, <1>5, <1>6, <1>7 DEF ProvInv

LEMMA ProvMeans ==
  ASSUME ProvInv
  PROVE  ProvisioningHolds
<1>1. /\ ScriptShapes /\ Overlaps /\ Migrated /\ Indexed /\ Constrained /\ Levels /\ Downloaded
  BY DEF ProvInv
<1>2. \A r \in Runs, code \in {"0", "1"} : Exited(r, code) => run[r] # NotRun
  BY DEF Exited, NotRun
<1>3. MigrationsHold
  <2> SUFFICES ASSUME script = "migrate" PROVE MigrationsHold
    BY DEF MigrationsHold
  <2>1. Settled => /\ Quiet /\ latest # Nothing /\ Exited(latest, "0")
    BY DEF Settled, Quiet
  <2> QED BY <1>1, <2>1 DEF MigrationsHold, Migrated
<1>4. CollectionsReady
  BY <1>1, <1>2 DEF CollectionsReady, Indexed, IndexedRun
<1>5. GraphReady
  <2> SUFFICES ASSUME script = "neo4j" PROVE GraphReady
    BY DEF GraphReady
  <2>1. \A r \in Runs : Exited(r, "0") => ToSet(Constraints) \subseteq unique /\ twins = {}
    BY <1>1, <1>2 DEF Constrained, ConstrainedRun
  <2>2. \A r \in Runs : Exited(r, "1") => run[r].lost \/ Item(r) \in twins
    BY <1>1, <1>2, ConstraintItem DEF Constrained, ConstrainedRun
  <2> QED BY <2>1, <2>2 DEF GraphReady
<1>6. LevelsKept
  BY <1>1 DEF LevelsKept, Levels, LevelEnd, Levelled, Quiet
<1>7. DatasetsKept
  <2> SUFFICES ASSUME script = "datasets" PROVE DatasetsKept
    BY DEF DatasetsKept
  <2>1. Quiet => \A q \in Runs : run[q] # NotRun => run[q].at # "fetching"
    BY <1>1, BegunIs DEF Quiet
  <2> QED BY <1>1, <2>1 DEF DatasetsKept, Downloaded, Registered, Whole, Quiet
<1> QED BY <1>3, <1>4, <1>5, <1>6, <1>7 DEF ProvisioningHolds

\* Whatever runs overlap, lose a call or are killed, the scripts of
\* scripts/ and infra/migrations leave what the services expect, for
\* any files, collections, documents and datasets.
THEOREM ProvisioningStaysSound == ProvSpec => []ProvisioningHolds
<1>1. ProvInit => ProvInv
  BY ProvStarts
<1>2. ProvInv /\ [ProvNext]_provars => ProvInv'
  <2> SUFFICES ASSUME ProvInv, [ProvNext]_provars
               PROVE  ProvInv'
    OBVIOUS
  <2>1. ScriptShapes /\ Overlaps /\ Migrated /\ Indexed /\ Constrained /\ Levels /\ Downloaded
    BY DEF ProvInv
  <2> QED BY <2>1, ShapesStep, OverlapsStep, MigratedStep, IndexedStep, ConstrainedStep, LevelsStep, DownloadedStep
          DEF ProvInv
<1>3. ProvInv => ProvisioningHolds
  BY ProvMeans
<1> QED BY <1>1, <1>2, <1>3, PTL DEF ProvSpec
=============================================================================
