--------------------------- MODULE EventConsumers ---------------------------
(***************************************************************************)
(* The four durable JetStream consumers of the agents: qi (quality events),*)
(* da (downtime events), pm (predict requests), sh (shift boundaries).     *)
(* Each is a loop that fetches a batch and handles its messages one by     *)
(* one: check the payload, do the agent's work, then ack, term or nak.     *)
(* Every replica of the process runs the loop on the same durable consumer.*)
(* The consumer a behaviour is about is chosen in Init.                    *)
(*                                                                         *)
(* JetStream is external: a message is delivered again when it is nak'ed   *)
(* or its ack does not arrive within ack_wait, up to max_deliver times     *)
(* when the consumer was created with that limit.                          *)
(***************************************************************************)
EXTENDS Integers, FiniteSets, Sequences, SequencesExt

CONSTANTS
  Msgs,        \* messages
  Replicas,    \* processes that run the loop
  FetchBatch,  \* messages per fetch (10, sh 5)
  MaxDeliver,  \* max_deliver of the consumers created with a limit (5)
  MaxExpiries, \* bound: ack waits that run out
  MaxFailures  \* bound: calls that fail, processes that are killed

ASSUME ConsumerAssumption ==
  /\ IsFiniteSet(Replicas)
  /\ FetchBatch \in Nat /\ MaxDeliver \in Nat /\ MaxExpiries \in Nat /\ MaxFailures \in Nat

Kinds == {"qi", "da", "pm", "sh"}
Bodies == {"valid", "invalid", "mismatch"}
Tiers == {"auto-log", "supervisor", "manager+safety"}

VARIABLES
  kind,      \* the consumer
  body,      \* what the payload of each message is
  streams,   \* streams that exist
  limit,     \* "none" before the durable is created, "limited", "unlimited"
  msg,       \* [Msgs -> [state, n]]: broker state, deliveries so far
  task,      \* [Replicas -> [pc, batch]]
  written,   \* audit rows of each message (sh: handovers started)
  downtime,  \* messages with a row in maintenance.downtime_events
  asked,     \* <<message, tier>> with a row in hitl.approvals
  expiries, failures

consumervars ==
  <<kind, body, streams, limit, msg, task, written, downtime, asked, expiries, failures>>
effects == <<written, downtime, asked>>
broker == <<streams, limit>>

StreamOf(k) ==
  CASE k = "qi" -> "QUALITY_STREAM" [] k = "sh" -> "KNOWLEDGE_STREAM"
    [] OTHER -> "MAINTENANCE_STREAM"

\* The knowledge stream is created by nobody in the repository: it is there
\* from outside, or it is not.  Only pm compares a payload with its subject.
ConsumersInit ==
  /\ kind \in Kinds
  /\ body \in [Msgs -> IF kind = "pm" THEN Bodies ELSE Bodies \ {"mismatch"}]
  /\ streams \in IF kind = "sh" THEN SUBSET {"KNOWLEDGE_STREAM"} ELSE {{}}
  /\ limit = "none"
  /\ msg = [m \in Msgs |-> [state |-> "unsent", n |-> 0]]
  /\ task = [r \in Replicas |-> [pc |-> "start", batch |-> <<>>]]
  /\ written = [m \in Msgs |-> 0] /\ downtime = {} /\ asked = {}
  /\ expiries = 0 /\ failures = 0

Fault == failures < MaxFailures /\ failures' = failures + 1
Current(r) == Head(task[r].batch)

-----------------------------------------------------------------------------
(* Streams and durables.                                                   *)

\* The bootstrap script creates or updates its streams and stops at the
\* first error.
BootstrapStreams ==
  /\ kind = "qi" /\ "QUALITY_STREAM" \notin streams
  /\ streams' = streams \cup {"QUALITY_STREAM"}
  /\ UNCHANGED <<kind, body, limit, msg, task, effects, expiries, failures>>

\* Its last step creates the quality consumer; one that exists is kept as it is.
BootstrapConsumer ==
  /\ kind = "qi" /\ "QUALITY_STREAM" \in streams /\ limit = "none"
  /\ limit' = "limited"
  /\ UNCHANGED <<kind, body, streams, msg, task, effects, expiries, failures>>

\* pull_subscribe binds the durable or creates it, with a limit for pm only.
\* The pm consumer creates its stream first; the others raise without one,
\* and the task is over.
Subscribe(r) ==
  LET have == IF kind = "pm" THEN streams \cup {"MAINTENANCE_STREAM"} ELSE streams IN
  /\ task[r].pc = "start" /\ streams' = have
  /\ \/ /\ StreamOf(kind) \in have
        /\ limit' = IF limit # "none" THEN limit
                    ELSE IF kind = "pm" THEN "limited" ELSE "unlimited"
        /\ task' = [task EXCEPT ![r].pc = "fetch"]
     \/ /\ StreamOf(kind) \notin have
        /\ task' = [task EXCEPT ![r].pc = "dead"] /\ UNCHANGED limit
  /\ UNCHANGED <<kind, body, msg, effects, expiries, failures>>

\* The maintenance stream is also there when a pm consumer ran elsewhere.
OtherConsumer ==
  /\ kind = "da" /\ "MAINTENANCE_STREAM" \notin streams
  /\ streams' = streams \cup {"MAINTENANCE_STREAM"}
  /\ UNCHANGED <<kind, body, limit, msg, task, effects, expiries, failures>>

\* A producer publishes; without a stream nothing is kept.
Publish(m) ==
  /\ msg[m].state = "unsent" /\ StreamOf(kind) \in streams
  /\ msg' = [msg EXCEPT ![m].state = "ready"]
  /\ UNCHANGED <<kind, body, broker, task, effects, expiries, failures>>

\* Fault variant of Returned: the consumer is created without max_deliver.
ReturnedAlways(m) ==
  IF msg[m].state = "out" THEN [msg[m] EXCEPT !.state = "ready"] ELSE msg[m]

\* A message that is out comes back, unless it used up its deliveries.
\* Above the limit the deliveries of an unlimited consumer are not counted.
Returned(m) ==
  IF msg[m].state # "out" THEN msg[m]
  ELSE IF limit = "limited" /\ msg[m].n >= MaxDeliver
    THEN [msg[m] EXCEPT !.state = "given up"]
    ELSE [msg[m] EXCEPT !.state = "ready"]

AckWaitExpires(m) ==
  /\ msg[m].state = "out" /\ expiries < MaxExpiries
  /\ expiries' = expiries + 1
  /\ msg' = [msg EXCEPT ![m] = Returned(m)]
  /\ UNCHANGED <<kind, body, broker, task, effects, failures>>

\* An ack wait that must run out: no task has the message any more.
AckWaitEnds(m) ==
  /\ msg[m].state = "out"
  /\ \A r \in Replicas : m \notin ToSet(task[r].batch)
  /\ msg' = [msg EXCEPT ![m] = Returned(m)]
  /\ UNCHANGED <<kind, body, broker, task, effects, expiries, failures>>

-----------------------------------------------------------------------------
(* The loop.                                                               *)

\* A payload that fails validation, or for pm one that contradicts its subject.
Refused(b) == b = "invalid" \/ (kind = "pm" /\ b = "mismatch")

\* Where the handling of a message starts: one that is refused is answered at
\* once, by qi with term and by the others with ack.
Entry(b) ==
  IF Refused(b) THEN (IF kind = "qi" THEN "term" ELSE "ack")
  ELSE IF kind = "qi" THEN "dedup" ELSE "work"

\* The ack of a message that was worked on: pm sends it inside the try of the
\* work, the others after it.
Ack == IF kind = "pm" THEN "try ack" ELSE "ack"

\* The task turns to the next message of its batch, or fetches again.
At(batch) ==
  [pc |-> IF batch = <<>> THEN "fetch" ELSE Entry(body[Head(batch)]), batch |-> batch]
NextMessage(r) == task' = [task EXCEPT ![r] = At(Tail(task[r].batch))]

Fetch(r) ==
  /\ task[r].pc = "fetch"
  /\ \E batch \in BoundedSeq({m \in Msgs : msg[m].state = "ready"}, FetchBatch) :
       /\ batch # <<>> /\ IsInjective(batch)
       /\ msg' = [m \in Msgs |-> IF m \notin ToSet(batch) THEN msg[m]
            ELSE [state |-> "out", n |-> IF msg[m].n < MaxDeliver THEN msg[m].n + 1
                                         ELSE MaxDeliver]]
       /\ task' = [task EXCEPT ![r] = At(batch)]
  /\ UNCHANGED <<kind, body, broker, effects, expiries, failures>>

\* The loop reads its stop event between two fetches.
Stop(r) ==
  /\ task[r].pc = "fetch" /\ task' = [task EXCEPT ![r].pc = "stopped"]
  /\ UNCHANGED <<kind, body, broker, msg, effects, expiries, failures>>

Acking == {"ack", "try ack"}

Gone == {"done", "terminated"}

\* ack or term: the broker drops the message, whoever holds it by then.
Settle(r) ==
  /\ task[r].pc \in Acking \cup {"term"}
  /\ msg' = [msg EXCEPT ![Current(r)].state =
       IF @ \in Gone THEN @ ELSE IF task[r].pc = "term" THEN "terminated" ELSE "done"]
  /\ NextMessage(r)
  /\ UNCHANGED <<kind, body, broker, effects, expiries, failures>>

\* The ack or the term gets lost on its way.
SettleLost(r) ==
  /\ task[r].pc \in Acking \cup {"term"} /\ Fault
  /\ NextMessage(r)
  /\ UNCHANGED <<kind, body, broker, msg, effects, expiries>>

\* The answer raises: an ack inside a try is followed by nak; any other
\* exception leaves the loop, and the task is over.
AnswerRaises(r) ==
  /\ task[r].pc \in Acking \cup {"term", "nak"} /\ Fault
  /\ task' = [task EXCEPT ![r] =
       IF task[r].pc = "try ack" THEN [task[r] EXCEPT !.pc = "nak"]
       ELSE [pc |-> "dead", batch |-> <<>>]]
  /\ UNCHANGED <<kind, body, broker, msg, effects, expiries>>

Nak(r) ==
  /\ task[r].pc = "nak"
  /\ msg' = [msg EXCEPT ![Current(r)] = Returned(Current(r))]
  /\ NextMessage(r)
  /\ UNCHANGED <<kind, body, broker, effects, expiries, failures>>

Go(r, pc) == task' = [task EXCEPT ![r].pc = pc]

\* An event that has its row is acked, inside the try of the query.
Dedup(r) ==
  /\ task[r].pc = "dedup"
  /\ Go(r, IF written[Current(r)] > 0 THEN "try ack" ELSE "work")
  /\ UNCHANGED <<kind, body, broker, msg, effects, expiries, failures>>

\* A query, a model call or a statement that raises before it has an effect.
RaisesEarly(r) ==
  /\ task[r].pc \in {"dedup", "work"} /\ Fault /\ Go(r, "nak")
  /\ UNCHANGED <<kind, body, broker, msg, effects, expiries>>

\* qi: what the work derives from the event fails validation; the event, in
\* order as it is, is terminated like one whose payload is refused.
WorkRefused(r) ==
  /\ kind = "qi" /\ task[r].pc = "work" /\ Fault /\ Go(r, "term")
  /\ UNCHANGED <<kind, body, broker, msg, effects, expiries>>

-----------------------------------------------------------------------------
(* The agents' work.                                                       *)

\* The audit row is committed; the call may raise for all that.
WriteRow(r) ==
  /\ written' = [written EXCEPT ![Current(r)] = @ + 1]
  /\ \/ Go(r, Ack) /\ UNCHANGED failures
     \/ Go(r, "nak") /\ Fault

\* qi: the verdict is graded anew, and the tier is the stricter of the one the
\* defect type has and the one the severity has.
Rank == [t \in Tiers |-> IF t = "auto-log" THEN 0 ELSE IF t = "supervisor" THEN 1 ELSE 2]
TierOf(defect, severity) == IF Rank[defect] >= Rank[severity] THEN defect ELSE severity

\* auto-log writes the row whose action_id is the event's; a person is asked by
\* a row whose id comes from the verdict, after which the pause either returns
\* to a graph or, outside of one, raises.
Inspect(r) ==
  \E defect, severity \in Tiers :
    LET tier == TierOf(defect, severity) IN
      \/ tier = "auto-log" /\ WriteRow(r) /\ UNCHANGED <<downtime, asked>>
      \/ /\ tier # "auto-log"
         /\ asked' = asked \cup {<<Current(r), tier>>}
         /\ \E pc \in {Ack, "nak"} : Go(r, pc)
         /\ UNCHANGED <<written, downtime, failures>>

\* da: the row is inserted (again: nothing), then audited.
\* Fault variant of InsertDowntime: acknowledged before it is inserted.
InsertDowntimeLate(r) ==
  /\ Go(r, Ack) /\ UNCHANGED <<written, downtime, asked, failures>>

InsertDowntime(r) ==
  /\ downtime' = downtime \cup {Current(r)}
  /\ \/ Go(r, "audit") /\ UNCHANGED failures
     \/ Go(r, "nak") /\ Fault
  /\ UNCHANGED <<written, asked>>

\* A failed audit write is logged, and the message is acknowledged.
AuditDowntime(r) ==
  /\ task[r].pc = "audit" /\ Go(r, Ack)
  /\ \/ written' = [written EXCEPT ![Current(r)] = @ + 1] /\ UNCHANGED failures
     \/ Fault /\ written' \in {written, [written EXCEPT ![Current(r)] = @ + 1]}
  /\ UNCHANGED <<kind, body, broker, msg, downtime, asked, expiries>>

\* pm: without data or for an asset that is not registered nothing is written;
\* low health pauses for a supervisor, which outside a graph raises; else the
\* estimate is audited under an id of its own.
Predict(r) ==
  /\ \/ Go(r, Ack) /\ UNCHANGED <<written, failures>>
     \/ Go(r, "nak") /\ UNCHANGED <<written, failures>>
     \/ WriteRow(r)
  /\ UNCHANGED <<downtime, asked>>

\* sh: the graph is invoked without a thread of its own, and runs up to the
\* first sign-off; the handover it started is not known to the next delivery.
StartHandover(r) == WriteRow(r) /\ UNCHANGED <<downtime, asked>>

Work(r) ==
  /\ task[r].pc = "work"
  /\ \/ kind = "qi" /\ Inspect(r)
     \/ kind = "da" /\ InsertDowntime(r)
     \/ kind = "pm" /\ Predict(r)
     \/ kind = "sh" /\ StartHandover(r)
  /\ UNCHANGED <<kind, body, broker, msg, expiries>>

\* The process is killed and starts again; its messages stay out.
Crash(r) ==
  /\ task[r].pc \notin {"start", "dead", "stopped"} /\ Fault
  /\ task' = [task EXCEPT ![r] = [pc |-> "start", batch |-> <<>>]]
  /\ UNCHANGED <<kind, body, broker, msg, effects, expiries>>

-----------------------------------------------------------------------------
Loop(r) ==
  \/ Subscribe(r) \/ Fetch(r) \/ Settle(r) \/ SettleLost(r) \/ AnswerRaises(r)
  \/ Nak(r) \/ Dedup(r) \/ RaisesEarly(r) \/ WorkRefused(r) \/ Work(r) \/ AuditDowntime(r)

ConsumersNext ==
  \/ BootstrapStreams \/ BootstrapConsumer \/ OtherConsumer
  \/ \E m \in Msgs : Publish(m) \/ AckWaitExpires(m) \/ AckWaitEnds(m)
  \/ \E r \in Replicas : Loop(r) \/ Stop(r) \/ Crash(r)

ConsumersSpec == ConsumersInit /\ [][ConsumersNext]_consumervars

\* A loop whose calls return goes on; an ack wait nobody answers runs out.
ConsumersLiveSpec ==
  /\ ConsumersSpec
  /\ \A r \in Replicas : WF_consumervars(Loop(r))
  /\ \A m \in Msgs : WF_consumervars(AckWaitEnds(m))

-----------------------------------------------------------------------------
(* Properties.                                                             *)

\* Messages, tasks and effects keep their shapes.
ConsumerTypes ==
  /\ kind \in Kinds /\ body \in [Msgs -> Bodies]
  /\ streams \subseteq {StreamOf(k) : k \in Kinds}
  /\ limit \in {"none", "limited", "unlimited"}
  /\ msg \in [Msgs -> [state : {"unsent", "ready", "out", "given up"} \cup Gone,
                       n : 0..MaxDeliver]]
  /\ task \in [Replicas -> [pc : {"start", "fetch", "dedup", "work", "audit", "term",
                                   "nak", "dead", "stopped"} \cup Acking, batch : Seq(Msgs)]]
  /\ \A r \in Replicas :
       Len(task[r].batch) <= FetchBatch /\
       (task[r].batch = <<>> <=> task[r].pc \in {"start", "fetch", "dead", "stopped"})
  /\ written \in [Msgs -> Nat] /\ downtime \subseteq Msgs
  /\ asked \subseteq Msgs \X Tiers
  /\ expiries \in 0..MaxExpiries /\ failures \in 0..MaxFailures

Handled(m) ==
  CASE kind = "qi" -> written[m] > 0 \/ \E t \in Tiers : <<m, t>> \in asked
    [] kind = "da" -> m \in downtime
    [] kind = "sh" -> written[m] > 0
    [] OTHER -> TRUE

\* A message is acked only when its effect is in the database, if its payload
\* deserves one, and a payload that is refused has no effect at all: effect
\* before ack, whatever is redelivered or killed in between (consumer.py of
\* downtime-analyzer:133, nats_consumer.py:14).  Only qi terminates messages, and
\* one that is in order only after its work raised.
SettledWasHandled ==
  \A m \in Msgs :
    /\ msg[m].state = "done" /\ ~Refused(body[m]) => Handled(m)
    /\ msg[m].state = "terminated" => kind = "qi" /\ (Refused(body[m]) \/ failures > 0)
    /\ body[m] = "invalid" => written[m] = 0 /\ m \notin downtime
    /\ kind = "pm" /\ body[m] = "mismatch" => written[m] = 0

\* The row qi looks for keeps redeliveries from a second one: however often an
\* event is delivered, it has one row per replica at most, because only those
\* that looked before the first row was written can add one
\* (nats_consumer.py:136).  The one row per event of the module's docstring
\* (line 10) holds of one replica only.
QualityRowsBounded ==
  kind = "qi" => \A m \in Msgs : written[m] <= Cardinality(Replicas)

\* Without a fault every downtime row that was acknowledged is audited; the
\* audit rows of an event are as many as its deliveries at most
\* (consumer.py:177 of downtime-analyzer).
DowntimeAudited ==
  kind = "da" => \A m \in Msgs :
    /\ msg[m].state = "done" /\ m \in downtime /\ failures = 0 => written[m] > 0
    /\ written[m] > 0 => m \in downtime

\* Every message ends acknowledged or terminated, or given up by the broker, while a loop
\* runs; only an unlimited quality consumer may hand one out for ever, when
\* the verdicts keep asking a person.
Settles ==
  \A m \in Msgs :
    msg[m].state = "ready" ~>
      \/ msg[m].state \in Gone \cup {"given up"}
      \/ \A r \in Replicas : task[r].pc \in {"dead", "stopped"}
      \/ limit = "unlimited" /\ asked # {}

\* Redelivered, shared between replicas or interrupted, an acknowledged message has
\* had its effect, and no event more effects than its replicas explain.
EffectsFirst ==
  /\ ConsumerTypes
  /\ SettledWasHandled
  /\ QualityRowsBounded
  /\ DowntimeAudited
=============================================================================
