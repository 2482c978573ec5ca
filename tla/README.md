# Verification of the Smart Factory agent platform

TLA+ modules, TLC configurations and TLAPS proofs about the protocols and
calculations of this repository. The code under `src/` is the reference; a
document is only quoted where the code does something else.

1. [What the system is](#1-what-the-system-is)
2. [Which module models what](#2-which-module-models-what)
3. [The runs](#3-the-runs)
4. [Bounds](#4-bounds)
5. [Fairness](#5-fairness)
6. [What is proved](#6-what-is-proved)
7. [What the code does and a document does not say](#7-what-the-code-does-and-a-document-does-not-say)
8. [What is not modelled](#8-what-is-not-modelled)
9. [What could follow](#9-what-could-follow)

To repeat the work, in this directory:

    tlc -workers 2 -config MCHitlRace.cfg MCHitlRace.tla
    tlapm HitlProofs.tla

`PROJECT.json` names, for every definition, the lines it models ("map"), for
every property a definition and a fault variant of it that breaks the property
("mutants"), the hazards the properties are aimed at, and the theorems.

## 1. What the system is

LangGraph agents run in a gateway process (FastAPI), read and write TimescaleDB
and exchange events over NATS JetStream. An agent that proposes something risky
asks a person; everything an agent or a person does leaves a row in
`audit.actions`. All processes are asyncio: one step is the code between two
awaits, and between two steps any other request, loop or replica may run.

| Component | State | Operations | Interacts with |
|---|---|---|---|
| Approval cycle (`sft_agents/hitl`, `runtime/escalation.py`, `routers/approvals.py`, `routers/threads.py`) | `hitl.approvals`, the thread's checkpoint, the supervisor's batch | insert, interrupt, decide, resume, escalate, time out | the graph, the audit writer, replicas of itself (shared tables) |
| Audit dual write and outbox (`sft_agents/audit`) | `audit.actions`, `audit.outbox`, `AUDIT_STREAM` | write, enqueue, retry, back off | everything that writes an audit row; replicas of itself |
| Agents that ask a supervisor (seven, one node each) | checkpoint with pending task and answers, audit rows | start, question, resume, write, return, fail | gateway, LangGraph (replay), audit writer |
| Gateway requests (`routers/*`, `idempotency*.py`) | a map of answers in memory | look up, handle, store, expire, evict, restart | the graph, NATS, the approval table |
| Gateway lifespan (`lifespan.py`, `health.py`) | pool, publisher, checkpointer, three background tasks | start, serve, probe, cancel, stop | the loops of the components above |
| Event streams (`routers/sse.py`), KPI snapshot (`kpi/queries.py`) | what each connection has seen, a window per person; none | poll, emit, refuse; six queries | `audit.actions`, the downtime and order tables |
| Durable consumers (quality, downtime, predictive maintenance, shift handover) | durable consumer, audit rows, downtime rows | fetch, check, handle, acknowledge, refuse | JetStream (at-least-once), agents |
| OT bridge (`services/ot-bridge`) | bounded queue, batch, lock, subscription | receive, publish, push, flush, shut down | OPC UA server, NATS, TimescaleDB |
| Alert limits, governor, budgets (`runtime`) | rows they count and write | scan, count, alert, spend, ask | `audit.actions`, approvals |
| Maintenance coach | thread of an intervention | start, step, resume after help | gateway, audit writer |
| Downtime report, other agents' calculations | none that is shared | read, compute, draft | tables others fill |
| Knowledge ingestion | three stores without a transaction | parse, chunk, upsert, record | Neo4j, Qdrant, PostgreSQL |
| Textile simulator | tasks, profiles, lots | sample, disturb, rotate, emit | the bridge and the consumers |
| Scripts (migrations, bootstraps, downloads, catalogue checks) | files, schemas, collections | read, create, check, generate | the stores, one another's files |

What is hard, and what makes each part correct:

* **Approval cycle.** Node, decide endpoint, one supervisor per replica, budget
  tracker and governor share rows without a lock held across an await. A decided
  row is never overwritten, an action waits in one queue, the links form one
  chain, the trail never records what did not happen, no clock closes a safety
  interlock, every chain with a deadline is settled.
* **Audit.** INSERT and publish are no transaction, acknowledgements are lost,
  replicas retry the same rows. What ships was recorded, nothing is dropped
  without a fault, copies are bounded, the outbox drains.
* **Agents that ask.** A resume executes the node from its first line. No row
  reports an answer that was not given to its thread, copies have a cause, an
  answer leaves a row.
* **Gateway.** Look-up, handler and store are three steps; what a background task
  uses must outlive it. Each rerun under a key has its cause; an approval is decided
  once; tasks end before the pool does.
* **Streams and consumers.** Windows shared by connections, redelivery, failures
  between effect and acknowledgement. Limits hold a person, rows arrive, effects
  come before acknowledgements, messages settle.
* **Bridge.** A full queue, a batch emptied before its INSERT, a shutdown in
  between. An event is in the table, named in a log line, or lost in one of the
  windows the model counts; the bridge drains and ends.
* **Counters and reports.** What is counted first and written later; figures read
  one after the other. Limits are passed by the overlap only, spending is exact,
  figures stay shares.
* **Stores and scripts.** Runs that overlap or are killed, files edited between
  two reads. A file that is skipped is indexed; a run that reports success left its
  store ready.

## 2. Which module models what

### EscalationPolicy, ApprovalLifecycle, HitlApproval

`EscalationPolicy` holds the tables the parts share: tiers, statuses, the chain
of `escalation-sla.yaml`, the tiers that want a motivation, the audit verdict
of a decision. `ApprovalLifecycle` says what the queue promises about one
proposed action: opened once, climbing tier by tier, closed once, by a person or
by the expiry of the last tier. `HitlApproval` is the detailed model: `approvals`
(the table; `overdue` stands for `sla_deadline < NOW()`), `thread`, `finished`,
`request` (the handler of each HTTP request), `scan` (each replica's supervisor),
`audit`, `faults`.

| Actions | Code |
|---|---|
| `Propose`, `Interrupt`, `AgentCrash` | `human_approval_node` up to `interrupt()` |
| `InsertDetached` | the rows of the budget tracker and the governor |
| `DecideSelect`, `DecideUpdate` | `POST /v1/approvals/{id}/decide` up to the resume |
| `ResumeSend` | `POST /v1/threads/{id}/resume` up to the resume |
| `ResumeNode` .. `NodeReturn`, `ResumeFails` | the rest of the node, inside either handler |
| `ScanRows`, `EscalateRow`, `EscalateRowConflict`, `TimeOutRow`, `AuditTransition`, `ScanFault` | `EscalationSupervisor` |

A statement with its `WHERE` is one step; `insert_escalation` is one step because
it runs in one transaction. A row that was fetched is handled as it was fetched.

### AuditOutbox

`AuditWriter.write` of each record, `audit.actions`, the copies on the stream,
`audit.outbox`, one retry loop per replica. `AckLoss`: a publish that raises may
have been stored. `PublishedAt`: does the table have the column the loop's
statements name? Migration 003 does not create it (`outbox_schema`); the other runs
take the table the statements were written for. `Streamless`: records whose
cluster is none of the five, which have no subject; the model has the step that
raises (`SubjectRefused`).

### SignoffReplay, ThreadReplay

Seven agents share one pattern: compute, `interrupt()`, write audit rows. Each is
a script of questions and writes in the order of its `__call__`; a run is one
invocation of the graph. `Start`, `ResumeThread`, `ResumeAgent` are the three ways
in. `ResumeThread` asks for a checkpoint and for nothing else, as `threads.py:62` does: a start that fails
hands out its thread id too, so an answer may come before any question. `Compute`, `Pass`, `Interrupt`, `WriteRow`, `WriteRaises`, `Finish`, `Fail` are one
execution. `Unrouted` are the threads whose agent writes with a cluster that has no
subject: the writer raises after the row. `ThreadReplay` is `replay_thread` with the
episodic queries and the tool that writes an event: rows are read once, then gone
through while the thread goes on; `checked` says whether the table has the CHECK of
the migrations, which refuses the rows a replay writes.

LangGraph and JetStream are not in `src/`; they are modelled from how the code uses
them (external in the map): a dict as input begins a new turn; `Command(resume=...)`
appends an answer and executes the node from its first line; `interrupt()` returns
the n-th answer at the n-th question and raises when there is none; a checkpoint
saved later leaves a run that started from an earlier one behind; nothing
serialises two invocations on one thread.

### GatewayRequests, GatewayLifecycle

`GatewayRequests`: each POST endpoint as `[cached, work, ok, failures]`, the
cache with expiry, eviction and restart, requests that validate, look up, run,
store and answer, the approval that two of them decide. `GatewayLifecycle`: the
steps of `lifespan.py` before and after its `yield`, the three loops, cancellation,
`/v1/ready`. Shutdown guards each close with its own `except`; the start guards nothing.

### LiveStreams, KpiSnapshot, EventConsumers

`LiveStreams`: a generator per connection, polls that fail, rows with the order of
their timestamps, the window per person. `CreatedAt` says whether the database has
the column the queries name. Migration 003 names it `ts`, and with it nothing is delivered
(`alerts_schema`); `events` takes a table that has it. `KpiSnapshot`: six queries in a row. `EventConsumers`: the
four loops over one broker model with ack waits, delivery limits and two replicas;
`kind` is the consumer a behaviour is about. What each loop answers (ack, term, nak) and which of these answers
is inside a `try` differ: the ack of a quality event that is skipped and of a prediction become a nak when they raise, any other
answer that raises ends its loop; a quality event whose handling raises a `ValidationError` is terminated.

### OtBridge, Simulator

`OtBridge`: one action per stretch between two awaits. A cancelled or failed await
may have had its effect. `strangers` and `Killed` follow the double `task_done` of an
unknown node, which ends a worker. `Simulator`: the emitter tasks of each asset,
drift, bursts, storms, lots, downtime tasks.

### AlertLimits, BudgetTracker, MaintenanceCoach, OeeReport, KnowledgeIngest, Provisioning

`AlertLimits`: overlapping scans of the detector, one governor per process, both
counting `audit.actions` before they write to it; the detector's window includes the row at its edge, the
governor's two leave it out. `BudgetTracker`: upsert and
comparison of overlapping steps. `MaintenanceCoach`: start, step and help, each of
which reads the thread, runs and writes it back; `told` is the step the last answer named. LangGraph's `ainvoke` returns
at an interrupt, so the branches behind `except GraphInterrupt` are never taken and no model follows them. `OeeReport`: the report's queries
while events and verdicts arrive. `KnowledgeIngest`: graph, index and state row of a
file, two commands, edits between the two reads of one file, faults. `Provisioning`:
migrations, Qdrant collections, Neo4j constraints, access levels of the SOPs and data
sets, for overlapping and killed runs.

### Calculations

`Scheduling`, `Grading`, `SupplyAgents`, `KnowledgeAgents`, `AgentRuntime` and
`CatalogueChecks` are operators and recursive functions: the planner's heuristic,
verdicts and tiers, the interlock's matching, reorder, forecast, energy and cost figures,
retrieval and ranking, curation, quiz, handover, causal chains, routing and supersteps,
the remaining-life band, and what each catalogue check accepts. `MCCalculations`
picks one input per step (`case`) and compares the result with a reference
definition: `NoRoomLeft` and `MostOrders` with every other plan, `InterlockAsBroker` with the
subjects the broker would match, `InterventionsHeld` with what the agents load.
Divisions are compared as pairs, before rounding.

### Composition

Parts that share no state are put side by side in one run, and a variable `part`
says which one a behaviour is about: `MCServices` (bridge, plant, scripts), `MCAgents`
(the calculations, the agents that keep state, `MCServices`), `MCEvents` (streams, KPI, consumers),
`MCHitlRace` (two sizes of the approval table: people who race, supervisors who race), `MCDelivery` (outbox, bridge), `MCGatewayRequests` (requests, lifespan), `MCSignoffReplay`
(sign-offs, replays). Parts that do share state are one module: the approval table with all its
writers, the trail with its outbox, the two limits that count the same rows, the two endpoints that
share cache and approval. The bridge appears twice: with four events for safety
(`agents`), with three for liveness (`delivery`).

## 3. The runs

| Run | Question | Holds |
|---|---|---|
| `hitl_race` | Two people answer by either endpoint for a thread whose operator row and budget row share the thread id, while a supervisor escalates; or two replicas escalate the same rows while one person answers; with a fault | `TypeOK`, `DecisionsTrue`, `OneOpenRow`, `EscalationChain`, `EscalationsAudited`, `DecidedRowsFrozen` |
| `hitl_settle` | Three actions, a safety interlock among them, compete for the one slot of a scan; the audits of one are refused by the table's CHECK | `InterlockOnlyByHuman`, `ImplementsLifecycle`, `OpenChainsSettle` |
| `hitl_unaudited_decision` | Does the node write the audit row of a decided approval? | violated: `DecisionsAudited` |
| `delivery` | Two replicas retry three records, one without a subject, with two faults and lost acknowledgements; a bridge with two workers | `TypeOK`, `RecordsShip`, `CopiesBounded`, `OutboxDrains`, `BridgeDrains` |
| `outbox_schema` | The table as migration 003 creates it | violated: `OutboxDrains` |
| `outbox_unrouted` | Does the writer raise for a failed statement only? | violated: `RaisedByTheTable` |
| `signoff` | A thread of each agent, four runs that may overlap, a failure, contents that change; a replay of a thread that is written meanwhile | `TypeOK`, `SignedByAnswer`, `RowsExplained`, `ReplayTells`, `AnswerRecorded` |
| `events` | Two streams of two people, in a database with the column their queries name; a snapshot; each consumer in two replicas | `AlertsMetered`, `KpisAgree`, `EffectsFirst`, `StreamsDeliver`, `Settles` |
| `alerts_schema` | The alerts channel over the table as migration 003 creates it | violated: `StreamsDeliver` |
| `gateway` | Two requests over a cache of one entry; a lifespan with a dependency that fails, a call that raises, a cancellation | `AnswersExplained`, `LifecycleHolds`, `Served`, `StartsAndStopsEnd` |
| `agents` | The calculations; two overlapping requests to the coach, scans, governors, budget steps or ingestions, with faults; a report while rows arrive; a bridge whose queue and batch fill, with an unknown node and a shutdown; a plant with bursts and storms; scripts that overlap, fail and are killed | `DraftsHold`, `JudgementsHold`, `LookupsHold`, `ReportsTrue`, `ReportHolds`, `StoresAgree`, `AlertsLimited`, `SpendingWatched`, `EventsAccounted`, `FaultsAsProfiled`, `ProvisioningHolds` |
| `migrations_rerun` | Is running the migrations again safe? | violated: `RerunSafe` |

Most of these are conjunctions of named parts, each stated with a comment where it is defined:

* `DecisionsTrue`: a decide request answers 200 exactly when the row carries its
  decision, and a resume that reports success left its decision on the node's row;
  no record of a decision that was not committed; a thread passes its node only with the
  decision on record.
* `EscalationsAudited`: no record of a hop that did not happen, and no hop without one unless a fault struck.
* `ImplementsLifecycle`: the rows of an action, read through `ChainOf`, behave as `ApprovalLifecycle`.
* `RecordsShip`: what is shipped was recorded, nothing recorded is dropped without a
  fault, a marked row was shipped, attempts overrun `MaxAttempts` by one per replica at most.
* `SignedByAnswer`: a row that reports an answer was written with answers given to its own
  thread, none counted twice, and none given before a question was put unless runs of the thread overlapped or one had failed.
* `RowsExplained`: a run that returned wrote every row, a draft has both sign-offs for the report
  it holds, a copy is due to a later question, a failure, an overlap or a new turn.
* `ReplayTells`: a replay's steps are rows of the trail up to the action asked for, its divergence is one, its
  own rows are told apart, and the memory's queries return what they say.
* `AlertsMetered`: no span shows a person more alerts than the limit, a refusal is due to it and told once.
* `KpisAgree`: availability and downtime cover the planned time, a repair is a failure.
* `EffectsFirst`: an acknowledged message has had its effect, a terminated one was refused or its work raised; the quality row is written once per
  replica at most; acknowledged downtime is audited unless a fault struck.
* `AnswersExplained`: an answer belongs to the request's own body; a rerun under a key is due to an overlap
  or a lost entry; a conflict is one; an approval is decided once and nobody is told 404 while it is pending.
* `LifecycleHolds`: no task works on what was closed; what leaks has a cause; "ready" was true of each dependency.
* `DraftsHold`: a draft schedule is feasible, leaves no room and is the best its rule promises; energy and demand fit their rows.
* `JudgementsHold`: worse is judged worse, no later rule softens a verdict, an interlock covers what the broker would match with a rule whose wildcard ends it,
  an ambiguous request is deferred, what is shown is cited, in its band and true of its figures, two windows or shifts
  add up to the whole, an id resolves, a path of relations is followed unless the query's `LIMIT` fills its answer, and a catalogue check tells what is so.
* `LookupsHold`: no chunk a search could have returned scores higher than one it did; catalogues that passed can be relied on in any order.
* `ReportsTrue`: reports of the coach are filed where they were seen and lost by overlap only; its rows are true.
* `ReportHolds`: the downtime report's later figures cover the earlier ones, its list keeps the worst, its figures are shares.
* `StoresAgree`: a skipped file is indexed as it is, a recorded version is complete, the graph covers the index,
  unless the ingestion was torn.
* `AlertsLimited`: alerts exceed the limit by overlapping scans at most, a trigger has its alert on record, alarms are
  spaced, and an alarm nobody queued is a failure's.
* `SpendingWatched`: each step's spending is counted, the step that crosses a limit asks.
* `EventsAccounted`: an event leaves the bridge unlogged at a shutdown only and then at most workers and a batch; a
  stored event was published; an unknown node is what kills workers; a stopped bridge does nothing.
* `FaultsAsProfiled`: bursts and storms are those of the profile, a lot spans one interval.
* `ProvisioningHolds`: a run that reports success left its store ready, nothing of what it found is lost, except as
  section 7 lists.

Every property of a passing run has a mutant in `PROJECT.json`: a fault variant
of one definition (the operator before it, marked "Fault variant") that breaks it
under the run's own configuration.

## 4. Bounds

The constants of each configuration are its bounds; the guards name them.

* **Approval cycle.** Two requests are enough for a race for a row: every guarded
  UPDATE compares one writer with the row's status. A supervisor is the third kind of
  writer; two supervisors are taken with one request, in the second part of `hitl_race`. Two fresh ids let
  a row climb to the manager and a budget row compete for the second. `ScanLimit = 1` makes
  rows compete for a scan, as a limit of 100 does with more rows.
* **Delivery.** Two records tell a row in hand from the rest of the batch, a third has no
  subject; two replicas are the least that race; `MaxAttempts = 2` has a row that failed and one
  that failed for good; two faults allow a crash after a publish and another on the repeat. For the bridge a
  queue and a batch of two are the least that can be full and partial.
* **Sign-offs.** Four runs let a handover start, take both sign-offs and meet one more
  run; threads of the agents with a `/resume` of their own take three. Two contents tell two executions apart. Three audit rows, of which a replay reads two, tell a
  replay's row from one it did not see.
* **Streams, consumers.** A limit of one alert in a window of one tick, three rows and two
  connections have a window fill and empty, and a reconnect that finds rows. Two
  messages and two replicas have one redelivered to the other; `MaxDeliver = 2` has a message given up. The quality
  consumer, the one with the most states, meets one mishap (a failure or an ack wait that runs out), the others one of each;
  that what holds for them holds for any number is proved.
* **Gateway.** A cache of one entry evicts with the second key's path; three requests allow two
  in flight and a retry. A restart is combined with one path at a time. One failing dependency, one exception and one cancellation each meet every step of the lifespan.
* **Agents.** The inputs of the calculations are enumerated in `MCCalculations`, small
  enough for a reference definition that searches all alternatives (three orders on two
  assets, seasons of two, three chunks, two languages, three assets). Two
  requests, commands, detectors, gateways, three steps of two budget keys: the least that overlap.
  Provisioning takes two runs that may overlap and one after them, with one lost call
  and one kill.

What holds for every value of the constants is proved where section 6 lists it.
Symmetry is used in runs without a liveness property, over sets no definition tells apart.

## 5. Fairness

Weak fairness, of what the event loop or a loop of the code keeps doing, and of nothing a person,
a client or a server of others does:

* `hitl_settle`: the supervisor's scan, row and audit steps, and time. `run` sleeps 30
  seconds and scans again whatever the last scan raised.
* `delivery`: each retry loop's query and row steps and the backoffs (`run` in `outbox.py` catches
  everything and wakes again; a publish may fail for ever, which is why `OutboxDrains` ends in "or ran out of attempts");
  the tasks of the bridge, its flush loop and its shutdown.
* `signoff`: a run under way goes on. Nobody has to answer, and a run may fail.
* `events`: each open stream's generator, each consumer's loop, the broker's ack wait. A client may
  disconnect and a poll may fail, but not for ever: failures are bounded.
* `gateway`: a handler goes on, and so do the lifespan and the tasks it has started or cancelled.

In `MCEvents`, `MCDelivery`, `MCGatewayRequests` and `MCSignoffReplay` the conditions are stated over the composed
variables. Deadlock is not checked: a table in which everything is decided, a stream with
nothing to ship, a calculation that was made are states in which the system rightly waits.

## 6. What is proved

For every value of the constants (any number of actions, requests, replicas,
records, clients, streams, threads and runs, any bound), from the assumptions the
modules name and TLC evaluates: distinct names and types of the constants, finite sets of
replicas, keys, bodies, detectors, gateways, steps, workers, sources and clients where something
is counted, a queue and batches of at least one, sequences of collections and data sets without a repetition,
and the rows being told apart from `NoRow`. `FiniteSums` holds what the proofs share: counts, sums over
finite sets, and the least element that induction is replaced with.

| Module | Theorem | Property | What it says |
|---|---|---|---|
| `HitlProofs` | `TypeCorrect` | `TypeOK` | every variable keeps the shape of its table or process |
| | `DecidedRowsStayFrozen` | `DecidedRowsFrozen` | no step of any process changes a row that has left `pending` |
| | `ChainsWellFormed` | `EscalationChain` | the links form one chain per action, climbing the tiers one by one |
| | `OneQueueAtATime` | `OneOpenRow` | an action is open in at most one queue |
| | `InterlockStaysHuman` | `InterlockOnlyByHuman` | no clock closes or moves a row behind a safety interlock |
| | `DecisionsAreTrue` | `DecisionsTrue` | what people are told and what the trail says is so |
| | `EscalationsAreAudited` | `EscalationsAudited` | hops and their records agree, but for faults and hops just made |
| | `TableImplementsLifecycle` | `ImplementsLifecycle` | the table implements `ApprovalLifecycle` |
| `AuditOutboxProofs` | `TypeCorrect` | `TypeOK` | shapes; a loop only holds rows of the outbox |
| | `RecordedBeforeShipped` | in `RecordsShip` | no copy of a record before its row |
| | `NothingDropped` | in `RecordsShip` | without a fault a recorded row is on the stream, in the outbox or with its writer |
| | `MarkedRowsShipped` | in `RecordsShip` | a row is marked only when the stream has its record |
| | `AttemptsStayBounded` | in `RecordsShip` | replicas overrun `MaxAttempts` by one attempt each at most |
| | `RecordsAlwaysShip` | `RecordsShip` | the four together |
| | `CopiesStayBounded` | `CopiesBounded` | copies of a record: one per replica, fault, counted attempt, and one for its writer |
| `SignoffReplayProofs` | `TypeCorrect` | `TypeOK` | shapes of checkpoints, runs and rows |
| | `AnswersAtHand` | `SignedByAnswer` | a row that reports an answer was written with that answer, given to that thread, in reply to a question unless runs failed or overlapped |
| | `RowsAreExplained` | `RowsExplained` | a finished run wrote its rows, a signed draft has two sign-offs, copies have a cause |
| `GatewayProofs` | `AnswersAreExplained` | `AnswersExplained` | answers are of the request's own run, reruns have a cause, an approval is decided once |
| | `LifecycleAlwaysHolds` | `LifecycleHolds` | tasks never outlive what they use, what leaks has a cause, "ready" was true |
| | `KpisAlwaysAgree` | `KpisAgree` | a snapshot's figures fit together whatever arrives between its queries |
| `EventsProofs` | `AlertsStayMetered` | `AlertsMetered` | the limit of alerts holds a person, a refusal has its reason and is told once |
| | `EffectsComeFirst` | `EffectsFirst` | an acknowledged message has had its effect, and not more than its replicas explain |
| `AgentsProofs` | `AlertsStayLimited` | `AlertsLimited` | overlapping scans and governors pass their limits by the overlap only |
| | `SpendingStaysWatched` | `SpendingWatched` | sums are exact, and the step that crosses a limit asks |
| | `StoresStayAgreed` | `StoresAgree` | graph, index and state row of a file agree unless its ingestion was torn |
| | `ReportsStayTrue` | `ReportsTrue` | reports are filed where they were seen, lost by overlap only, and audited |
| | `JudgementsAreSound` | `JudgementsHold` | every judgement, for any figures, tables and lists |
| | `JudgementsAlwaysHold` | `JudgementsHold` | the calculations of the runs among them |
| `ServicesProofs` | `BridgeKeepsAccount` | `EventsAccounted` | every event received is in the table, logged, or lost in a window that is bounded |
| | `ProvisioningStaysSound` | `ProvisioningHolds` | a run that reports success left its store ready, whatever overlapped it or was killed |

Each safety proof is one inductive invariant, its conjuncts kept one step per action:

* **HitlApproval.** `Shape` is `TypeOK` with what a program counter implies: a handler
  past its SELECT holds a row, a supervisor's batch holds rows of the table. `RowEffects`
  says that any step touches `approvals` in one of five ways: a row is opened, decided, hopped to a
  copy, expired, or gets older. The invariants about rows are proved from the five
  effects instead of from the actions. `ChainInv` is what makes the chains inductive: an
  action's first row is the root, a pending row has no link, a link leads to a fresh row of the next
  tier, no two rows lead to the same one. Exactly one row of an opened action is its
  end (`OneEnd`, `SomeEnd`), and only the end can be pending, which gives `OneOpenRow`.
* **Decisions and records.** `OwnedRowStep` refines the five effects: a row is decided on behalf of
  one request, by its own UPDATE or by the node it resumed. `DecisionInv` says what a request
  knows at each program counter (`RequestKnows`) and what a supervisor knows of each row in hand
  (`ScanKnows`: the copy agrees with the row in what never changes, the interlock among it). Neither is undone by
  others, because a row that has left `pending` is frozen. A record of a hop agrees with the row's link
  (`LinkAuditInv`), because the copy in hand did and links do not change; and while no fault struck, a
  row that a clock moved or a node decided is recorded or in the hand of whoever will record it (`NothingLost`).
* **The abstract approval.** The mapping `ChainOf` reads the state of an action at the one end of
  its chain (`EndsTell`). Each of the five effects then is one step of the action whose row it
  touches: opening, climbing, deciding, expiring, or, for a row that gets older, none.
* **AuditOutbox.** `WriterKnows` (a writer past its INSERT has its row) gives the order of record and copy.
  `SentIsStored` (a loop about to mark has been acknowledged) makes "marked rows are shipped"
  inductive: the acknowledgement and the UPDATE are two steps, and another replica
  may mark the row between them. The bound on attempts is not inductive as it stands:
  `AttemptsRoom` counts the replicas that hold a row they have not yet tried, and keeps
  attempts plus holders below `MaxAttempts + |Replicas|`. The bound on copies counts in the same way: before
  the row is marked the replicas that carry it (`Carriers`), after it those that still have it in their batch (`Fetchers`).
* **SignoffReplay.** `IInv` adds that every answer a run or a checkpoint holds was given to that
  thread, that a thread which has put no question has a run under way or one that failed (`OpenHasRun`), so that whoever answers it is excused, and that a run has passed only the questions its answers cover (`AsksPassed`): a run started from an earlier
  checkpoint has fewer answers than the thread, never others. For `RowsExplained`, `RowsTell` relates the rows of a
  run to how far it has come, and a copy is counted by the run that wrote it: it failed, it overlapped another, or it
  is the one run of its turn that writes the row and returns (`TurnsCounted`: a turn ends with that run, and the next
  begins by starting over). Runs of a handover with its second question still to ask are counted apart, one of them per thread (`HandoverTurns`).
* **Gateway requests.** A step moves one request and touches cache and counters in one of a few ways (`StepsAre`),
  and the invariant is a conjunction over requests, entries and keys. The runs under a key are a sum
  over its requests, so the proof first shows that the library's fold over a finite set does not depend on the order in
  which it picks. That is an induction over sets, made without an operator parameter: among the subsets
  for which the claim fails a smallest one exists (`SmallestSubset`), and it cannot fail. The accounting then keeps
  runs and handlers at work below one plus the excuses (`Accounted`), every entry and answer goes back to a run (`Backed`),
  and without an excuse one request at a time is on a key (`Alone`); `DecidedOnce` follows the approval.
* **Lifespan.** `LifeInv` says of each step of the start what is held by then, of the teardown which tasks have been
  signalled and ended by then, of a task that is awake that pool and connection are held, and of
  the probe what it has seen so far.
* **KPI snapshot.** Minutes only grow (`RowsOnlyCome`), so whatever the last query would answer now already covers what
  the first left open (`SharesTell`), and the count of failures can only catch up with the repairs (`RepairsTell`).
* **LiveStreams.** The window the code keeps is a list that forgets. `Metered` says that what it forgot is
  older than any span that reaches the present, and that one life of the process adds at most
  one limit to a span; `Rightly` ties each stream's refusals and notices to the list of what its owner was shown.
* **EventConsumers.** `TasksTell` says what each loop has done to the message it holds: the effect comes before the
  program counter that settles. `MessagesTell` says that a settled message was settled by one of those. The bound on
  quality rows counts the loops that have looked and not yet written (`FewRows`): rows plus those are at most `|Replicas|`.

* **AlertLimits.** A limit is checked in one step and used in a later one, so the invariant speaks of the room: the alerts
  of the last hour plus the scans that were allowed and have not yet written stay below the limit plus one per further
  detector (`AlertsRoom`), and the same with gateways past the cool-down (`GovernorRoom`). That any hour of the
  past is spaced follows from the hour that ended with its last row.
* **BudgetTracker.** `SumsExact`: the row of a key is the sum over the steps that have written it, their snapshots are told apart
  by the count, and the last of them is the row. So the step that made a sum cross its limit has seen it, and
  `ExcessAsked` follows it to the approval.
* **KnowledgeIngest.** `TaskOK` says what a command knows at each stage; `Alone`, that two commands on one file tear it;
  `Exact`, that the row of a file that is neither torn nor being written names chunks that are in the index. A
  command that begins on a file of another ends `Alone` for it and marks it in the same step.
* **MaintenanceCoach.** Under `overlaps = 0` one call runs at a time and its view is the thread (`OneByOne`). A report filed under another
  step, or without a row, is paid for by a fault or a resume; `Running` keeps the account while a call is under way, where
  the step last named may be one behind (`Off`), `Settled` between calls.
* **Calculations.** Each conjunct of `JudgementsHold` is a theorem of its own about the operators of its module, for inputs
  `Judgeable` types: whole figures, finite tables, lists of any length, a baseline whose bands are in order, a discount curve that
  rises. `FurtherOutIsWorse` follows the order of the bands, `TierIsNeverLowered` the order of the tiers through the later rules;
  `InterlockIsAsBroker` compares the two matchings token by token, for rules of any length with wildcards anywhere: of those
the interlock does not know as such (`Understood`) nothing is claimed but that they forbid no more than the broker would; `CostsAddUp` uses that sums over a
  finite set do not depend on the order (`TotalOverlaps`: two overlapping windows count twice what they share), and
  `HandoverIsComplete` counts the rows of two shifts the same way. `JudgementsAlwaysHold` then shows that every input of the
  runs is `Judgeable`. A handover reads the places of its rows (`FetchWindow`) and a catalogue check the files it
  takes (`Checked`) as sets, since what is counted and looked for there does not depend on their order.
* **OtBridge.** `Locks`: who holds the lock of the writer is at the program counter that says so. `Accounted` bounds what is lost by
  workers, batch and what is in hand at the phase of the shutdown (`Phases`); `Published` says a buffered event has been
  published before; `Counted` pays the queue's counter and the deaths of workers with the strangers received.
* **Provisioning.** Of every run, what it has passed is done: indexed, constrained, labelled, registered, by itself or by
  an earlier one (`IndexedRun`, `ConstrainedRun`, `LevelRun`, `LoneRun`). Where a second run may undo that, overlapping runs mark
  each other (`Overlaps`), and a run that was alone decides. A step touches one of the stores in one
  of a few ways (`Moves`, `Passes`, `Ends`), from which the conjuncts are kept.

Left to the model checker:

* liveness: the prover does not reason about `ENABLED`;
* `ReplayTells`, `FaultsAsProfiled` and `ReportHolds`: the order of a replay, a burst's samples and the report's list are computed with the library's
  folds and selections over sequences, recursive definitions of which the provers know only what an induction would tell;
* `DraftsHold` and `LookupsHold`, for the same reason: a draft is what a heuristic leaves after a sorted list of orders, a
  ranking or a page what a sort and `SelectSeq` leave of a sequence, and what those compute for every input takes an induction whose
  theorem has an operator for a parameter, which the provers cannot instantiate. Where a smallest counterexample does, as for
  the sums above, it is not needed.

## 7. What the code does and a document does not say

Shown by a run, with its counterexample:

* **`hitl_unaudited_decision`**: the decide endpoint UPDATEs the row, then resumes the
  thread; the node's own UPDATE of the same row finds it decided and raises
  (`interrupt.py:200`), so the record that follows it is never written and the node
  never returns. The comment at `approvals.py:244` says the node writes it.
* **`outbox_schema`**: the retry loop's statements name `published_at`, a column no
  migration creates (`outbox.py:44`, `003_create_audit_actions.sql:88`).
* **`outbox_unrouted`**: the knowledge agents use the cluster `knowledge`, which is none of the
  five; `publish_audit` raises and the handler repeats the call outside of its try (`writer.py:92`): `write` raises with the row
  committed. Lines 77-78 say errors of NATS are caught.
* **`alerts_schema`**: the alerts query orders by `created_at` (`sse.py:288`), a column `audit.actions` does not have
  (`003_create_audit_actions.sql:25` names it `ts`): every poll raises, is logged and repeated. Line 261 says new
  rows are emitted as `alert_new`.
* **`migrations_rerun`**: files 007, 009, 010, 012 and 014 each drop the CHECK on the action types and add
  their own; once a row of a later type exists, a second run stops at 007. `migrate.py:11` says re-running is safe.

Read in the code while modelling it, part of the models unless said otherwise, not stated as a property:

*Approvals and audit*

* `mark_timed_out` does not look at its row count and `_handle_row` writes a `timed_out` record whatever
  happened (`escalation.py:124`): the trail may say so of a row that was decided meanwhile.
* After an escalation the node still addresses its first row (`interrupt.py:152`): the thread cannot be
  resumed whatever is decided on the open copy (`hitl-cycle.md:63`).
* `BUDGET_EXHAUSTED` and `BUDGET_SOFT_LIMIT` are not in the CHECK of `audit.actions`
  (`014_extend_audit_phase11.sql:36`): the record of such a row's escalation always raises and ends the scan.
* The verb `escalate` marks a row escalated and creates no successor (`approval_queue.py:152`); `hitl-cycle.md:122` says
  it is linked. `POST /v1/threads/{id}/resume` accepts a blank motivation at any tier (`threads.py:73`).
* A resume names a thread and no row (`approvals.py:230`): by the time it arrives the thread may wait for
  another action, which takes the decision.
* A rejection at the operator tier is recorded as `hitl_operator` (`interrupt.py:49`), and the poll for pending approvals
  reads that decision.
* Every budget step past the limit raises one more approval (`budget.py:156`); nobody calls the tracker, and the
  model wrapper keeps the last usage per instance.

*Agents that ask, replay, tools*

* The second resume of a handover writes the first sign-off again (`agent.py:388`; `knowledge-cluster.md:92` says two
  rows), and one person may give both. A rejected SOP is indexed (`documentation-synthesizer/agent.py:383`). The quiz is generated again on
  resume (`training-coach/agent.py:194`). The agents' own `/resume` endpoints pass a state and so
  begin a new turn (`supply_agents.py:431`). `threads.py:62` resumes any thread that has a checkpoint, and the
  bodies of failed starts carry its id (`supply_agents.py:315`, `knowledge_agents.py:236`): an answer may be given before its question. `threads.py:87` reports `completed=True` when the resumed run stopped at a
  further question. `chain_id` of an analysis is new at each execution.
* The escalation tool calls the safety check with a context LangChain never passes: it raises a TypeError before it
  asks, and it would create no approval row (not modelled). The event tool files under `unknown-thread`.
* No agent writes a hash that `_hash_prompt` reproduces: a replay with a model diverges at its first step. The
  rows a replay writes are refused by the CHECK of the table. It is cut at the first row of an action id, an unknown id cuts
  nothing; the query by thread returns the oldest rows, the one by agent the newest.

*Gateway*

* The approvals channel has the query error of `alerts_schema` too (`sse.py:220`); five of the six KPI queries use
  columns the migrations do not create and give None. A token is checked at the connection only.
* `app.state.maintenance_children` is set by nobody; attributes of `app.state` outlive the teardown, although
  `dependencies.py:5` promises 503; a start that fails leaks what it had opened; readiness does not look at the background tasks.
* A recursion error returns the input state, so the operator assistant's answer is the user's question. The coach is wired nowhere. Since `ainvoke` returns at an
  interrupt, its start says "Intervention started and completed." and writes no row (`agent.py:619`), each step says "Intervention complete."
  with the state `completed` (`agent.py:763`), no answer holds the guidance, a request for help is filed as the report of the
  step, and `resume_after_help` raises after the graph has moved on, because its row lacks the motivation its decision asks for (`agent.py:887`).
  `AgentState` drops keys it does not know, so the guard of the coach's endpoint never fires. The technician the
  coach is given is discarded (`build_coach_graph` returns `{}`).

*Consumers, bridge, simulator*

* The docstring of the quality consumer promises one audit row per event (`nats_consumer.py:10`); two replicas that both looked
  before either wrote leave one each (`QualityRowsBounded`). A `ValidationError` from the handler terminates an event that is in order (line 159).
* None of the four consumers is started under `src/`; `KNOWLEDGE_STREAM` is created by nothing. A low health score makes the
  predict consumer call `interrupt()` outside of a graph: it raises, and the message is given up unaudited after five deliveries.
  A verdict that asks a person is filed under another id than its event, so a redelivery asks again.
* `TimescaleWriter` empties its buffer before the INSERT; a `disconnect()` that raises skips `close()`. `A-006.md:25` speaks of
  buffering without loss.
* Quality and downtime tasks of the simulator are started by nothing under `src/`; an alarm storm counts every sample; the first tag after
  a late sample escapes a burst; a failed emitter may end silently; a lot id may be drawn again; the rotation is
  not scaled by the time scale.

*Reports and calculations*

* `oee.py` and the report: a verdict's score 0..4 is read as a share of good parts; all assets' downtime is divided by one window; the Pareto
  percentages are taken after the LIMIT. Suppressed alerts count towards the alert limit.
* The setup minutes of failure modes are looked up under an asset's name and never apply. Equal severity thresholds
  resolve to the lower label. The demand plan's MAPE compares months with forecasts of the months after them.
  Inventory looks at the first SKU only; the cost analyser reads keys nobody writes.
* A handover's evidence has no asset or work order, so its equipment status is empty; two consecutive shifts both
  have the events of their boundary. The curator's known hashes are never added to. The n-th anchor of an SOP is mapped to
  the n-th citation. The roles of the user are not passed to the retrieval tool of the analysis.
* The record of a restricted read holds a count and eight digits of the query's hash (`retrieval/pipeline.py:403`); the
  docstring's chunk ids and hash "in the details" (lines 22, 372) go to the log only. There is no record without an `audit_writer`, and one
  that fails is swallowed with the text returned (line 452). Not modelled: nothing links the record to what was read.
* The interlock takes a wildcard for one only where it ends a rule of several tokens (`safety_interlock.py:79`), and reads `*`
  there like `>`: an inner `*` or a bare wildcard is a literal, and such a rule lets through what the broker would match. The rules
  shipped have none. The query on the plant's graph returns 100 nodes at most, in no order (`graph.py:143`).
* The table `documents` is created by no migration: the validator of causal chains and the reuse rate raise (not modelled).

*Ingestion, scripts, catalogues*

* A crash after the index write and before an edit is undone leaves an index nobody refreshes; a demoted document stays
  indexed; the purge per version change that `qdrant.py:14` lists has no caller, so the chunks of old versions stay findable; one failing file ends the command; skipping does not look at the collection.
* `migrate-sop-acl.py` truncates before it writes: a kill leaves an empty file that the next run labels `internal`. A killed download leaves
  a partial file the next run accepts when no checksum is registered; a registered one with a stale file fails for
  ever without `--force`. Two bootstraps of Qdrant conflict; the configuration of an existing collection is
  not compared. A unique constraint of Neo4j cannot be created once there are twins. `nats-bootstrap-streams.py` never updates
  a consumer it finds.
* A profile's tag may belong to an asset of another family; the number in an SOP's file name is never compared with its
  id; an SOP that cannot be parsed only warns, and so does a missing one without `--strict-sop`; pairing does not compare
  access levels; an empty corpus passes two checks; stale glossary warnings name terms spelled with blanks, and Italian terms
  only English pages use; duplicate ids of failure modes are not noticed and the later wins; pages of assumptions that were removed stay.

## 8. What is not modelled

* **Within the modelled parts.** NATS notifications of the approval cycle (a failed publish is swallowed); contents of records,
  prompts, wording, traces; who answers a sign-off and with what decision (no agent looks at either before it
  writes); unit conversions of the bridge; embeddings and the model reranker; waveforms of the simulator; the list
  endpoints, each one SELECT of committed rows; a budget upsert that commits and whose answer is lost (`budget.py:123`, the
  model's failing upsert writes nothing); rows of the downtime report that do not parse and are skipped (`repository.py:228`); two
  downloads that overwrite each other's lines of `CHECKSUMS.txt`, and an SOP cut in the middle of its write (`migrate-sop-acl.py:117`;
  the model has the empty file).
* **Parts left out.** The scheduler (a library's cron trigger and one HTTP call; that it gives up after 60 seconds while the gateway goes on
  is why scans overlap in `AlertLimits`), model access, tracing, token verification, the UI, the empty
  orchestrator, generated schemas, training and data-set readers, evaluation scripts: no state that another part
  reads, or none that is this repository's. Each is listed in `PROJECT.json`.

## 9. What could follow

Proofs about the calculations and the replay, by smallest counterexample; a run with the schema of the migrations throughout, once the columns the statements
name exist; the replay with the tables' CHECK relaxed; alerts and escalations in one module, so that
an alarm of the governor is followed up to the decision about it.
