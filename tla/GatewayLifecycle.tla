--------------------------- MODULE GatewayLifecycle ---------------------------
(***************************************************************************)
(* The lifespan of the gateway: what it opens, the background tasks it     *)
(* runs, and the order in which it gives everything back.  Only what comes *)
(* after the start is guarded by a finally: a start that fails keeps what  *)
(* it had opened.                                                          *)
(*                                                                         *)
(* The server (uvicorn, external) takes requests between start and stop,   *)
(* and stops when none is left.                                            *)
(***************************************************************************)
EXTENDS Integers, FiniteSets, Sequences

CONSTANTS
  MaxDrops,   \* bound: times a dependency goes down
  MaxRaises,  \* bound: calls that raise while their dependency is up
  MaxCancels  \* bound: cancellations of the lifespan itself

Resources == {"pool", "nats", "checkpointer"}
Tasks == {"outbox_retry", "escalator", "governor"}
Dependencies == {"pg", "nats"}

Startup == <<"config", "pool", "nats", "checkpointer", "build", "tasks", "agents", "wire">>

\* Fault variant of Teardown: the pool is closed first.
TeardownPoolFirst == <<"pool", "outbox_retry", "escalator", "governor", "nats", "checkpointer">>

Teardown == <<"outbox_retry", "escalator", "governor", "nats", "checkpointer", "pool">>

VARIABLES
  stage,     \* of the lifespan
  step,      \* index in Startup or Teardown
  held,      \* resources that are open
  task,      \* [Tasks -> "none", "asleep", "scanning" or "ended"]
  signalled, \* tasks that were told to stop and cancelled
  up,        \* [Dependencies -> BOOLEAN]
  probe,     \* GET /v1/ready: where it is, what it found, its answer
  troubles,  \* what went wrong: history
  drops, raises, cancels

lifevars ==
  <<stage, step, held, task, signalled, up, probe, troubles, drops, raises, cancels>>
bounds == <<drops, raises, cancels>>

Idle == [at |-> "idle", pg |-> FALSE, answer |-> "none", absent |-> {}, missed |-> {}]

LifeInit ==
  /\ stage = "starting" /\ step = 1 /\ held = {}
  /\ task = [t \in Tasks |-> "none"] /\ signalled = {}
  /\ up \in [Dependencies -> BOOLEAN]
  /\ probe = Idle /\ troubles = {}
  /\ drops = 0 /\ raises = 0 /\ cancels = 0

-----------------------------------------------------------------------------
(* Start.                                                                  *)

Needs(s) ==
  CASE s \in {"pool", "checkpointer"} -> {"pg"} [] s = "nats" -> {"nats"} [] OTHER -> {}

Unmet == {d \in Needs(Startup[step]) : ~up[d]}

\* create_pool, connect and __aenter__ are awaited; the other steps are not,
\* so the tasks do not run before the application serves.
StartStep ==
  /\ stage = "starting"
  /\ Unmet = {}
  /\ held' = held \cup ({Startup[step]} \cap Resources)
  /\ task' = IF Startup[step] = "tasks" THEN [t \in Tasks |-> "asleep"] ELSE task
  /\ IF step = Len(Startup) THEN stage' = "serving" /\ step' = 1
                            ELSE step' = step + 1 /\ UNCHANGED stage
  /\ UNCHANGED <<signalled, up, probe, troubles, bounds>>

StartEnds ==
  /\ stage' = "failed" /\ troubles' = troubles \cup {"start"}
  /\ UNCHANGED <<step, held, task, signalled, up, probe, drops, cancels>>

\* Fault variant of StartRefused: the dependency is waited for.
StartWaits == stage = "starting" /\ Unmet # {} /\ UNCHANGED lifevars

\* A dependency that is down: its call raises, and the lifespan ends there.
StartRefused == stage = "starting" /\ Unmet # {} /\ StartEnds /\ UNCHANGED raises

\* A missing setting, an import or a constructor that raises.
StartRaises ==
  /\ stage = "starting" /\ Startup[step] \notin {"tasks", "wire"}
  /\ raises < MaxRaises /\ raises' = raises + 1
  /\ StartEnds

-----------------------------------------------------------------------------
(* The background tasks: sleep, scan, until the shutdown event is set.     *)

\* Once started they run whatever became of the lifespan.
Runs(t) == stage # "starting" /\ task[t] \in {"asleep", "scanning"}

Goes(t, where) ==
  /\ task' = [task EXCEPT ![t] = where]
  /\ UNCHANGED <<stage, step, held, signalled, up, probe, troubles, drops, cancels>>

Wake(t) ==
  /\ Runs(t) /\ task[t] = "asleep" /\ t \notin signalled
  /\ Goes(t, "scanning") /\ UNCHANGED raises

ScanEnds(t) == task[t] = "scanning" /\ Runs(t) /\ Goes(t, "asleep") /\ UNCHANGED raises

\* Whatever a scan raises is logged, and the loop goes on.
ScanRaises(t) ==
  /\ task[t] = "scanning" /\ Runs(t)
  /\ raises < MaxRaises /\ raises' = raises + 1
  /\ Goes(t, "asleep")

\* The event ends a sleep, the cancellation a scan.
Leave(t) == Runs(t) /\ t \in signalled /\ Goes(t, "ended") /\ UNCHANGED raises

-----------------------------------------------------------------------------
(* Stop.                                                                   *)

\* The server is done with its requests.
Stop ==
  /\ stage = "serving" /\ probe.at = "idle"
  /\ stage' = "stopping"
  /\ UNCHANGED <<step, held, task, signalled, up, probe, troubles, bounds>>

AtTask(t) == stage = "stopping" /\ Teardown[step] = t

Proceed ==
  /\ IF step = Len(Teardown) THEN stage' = "stopped" /\ UNCHANGED step
                             ELSE step' = step + 1 /\ UNCHANGED stage

\* stop() sets the event, cancel() follows at once.
StopTask(t) ==
  /\ AtTask(t) /\ t \notin signalled /\ signalled' = signalled \cup {t}
  /\ UNCHANGED <<stage, step, held, task, up, probe, troubles, bounds>>

AwaitTask(t) ==
  /\ AtTask(t) /\ t \in signalled /\ task[t] = "ended"
  /\ Proceed
  /\ UNCHANGED <<held, task, signalled, up, probe, troubles, bounds>>

AtClose(r) == stage = "stopping" /\ Teardown[step] = r

\* drain, __aexit__, close; the pool waits for the connections in use.
Close(r) ==
  /\ AtClose(r)
  /\ r = "pool" => \A t \in Tasks : task[t] # "scanning"
  /\ held' = held \ {r}
  /\ Proceed
  /\ UNCHANGED <<task, signalled, up, probe, troubles, bounds>>

\* What a close raises is logged, and the next one is tried.
CloseRaises(r) ==
  /\ AtClose(r)
  /\ \/ r = "nats" /\ ~up["nats"] /\ UNCHANGED raises
     \/ raises < MaxRaises /\ raises' = raises + 1
  /\ troubles' = troubles \cup {"close"}
  /\ Proceed
  /\ UNCHANGED <<held, task, signalled, up, probe, drops, cancels>>

\* The lifespan is itself cancelled.  Where it awaits a task the handler meant
\* for the task takes it for the task's; elsewhere no handler takes it, and the
\* rest is not closed.
Cancel ==
  /\ cancels < MaxCancels /\ cancels' = cancels + 1
  /\ \/ stage = "starting" /\ Startup[step] \in Resources /\ stage' = "failed"
     \/ stage = "stopping" /\ Teardown[step] \in signalled /\ UNCHANGED stage
     \/ stage = "stopping" /\ Teardown[step] \in Resources /\ stage' = "aborted"
  /\ troubles' = troubles \cup (IF stage' = stage THEN {} ELSE {"cancel"})
  /\ UNCHANGED <<step, held, task, signalled, up, probe, drops, raises>>

-----------------------------------------------------------------------------
(* Dependencies and the readiness probe.                                   *)

\* missed: dependencies that were down at some time of the probe; absent:
\* those that were down all the time.
Drop(d) ==
  /\ up[d] /\ drops < MaxDrops /\ drops' = drops + 1
  /\ up' = [up EXCEPT ![d] = FALSE]
  /\ probe' = [probe EXCEPT !.missed = IF probe.at = "idle" THEN @ ELSE @ \cup {d}]
  /\ UNCHANGED <<stage, step, held, task, signalled, troubles, raises, cancels>>

Return(d) ==
  /\ ~up[d] /\ up' = [up EXCEPT ![d] = TRUE]
  /\ probe' = [probe EXCEPT !.absent = IF probe.at = "idle" THEN @ ELSE @ \ {d}]
  /\ UNCHANGED <<stage, step, held, task, signalled, troubles, bounds>>

Ask ==
  /\ stage = "serving" /\ probe.at = "idle"
  /\ LET down == {d \in Dependencies : ~up[d]} IN
     probe' = [at |-> "pg", pg |-> FALSE, answer |-> "none", absent |-> down, missed |-> down]
  /\ UNCHANGED <<stage, step, held, task, signalled, up, troubles, bounds>>

\* SELECT 1 on a connection of the pool.
CheckPg ==
  /\ probe.at = "pg"
  /\ probe' = [probe EXCEPT !.at = "nats", !.pg = up["pg"] /\ "pool" \in held]
  /\ UNCHANGED <<stage, step, held, task, signalled, up, troubles, bounds>>

\* The state of the connection is read without asking the server.
CheckNats ==
  /\ probe.at = "nats"
  /\ probe' = [probe EXCEPT !.at = "idle",
                 !.answer = IF probe.pg /\ up["nats"] /\ "nats" \in held THEN "ready" ELSE "degraded"]
  /\ UNCHANGED <<stage, step, held, task, signalled, up, troubles, bounds>>

-----------------------------------------------------------------------------
\* What the lifespan does on its own: nothing here waits for anybody but a task.
LifespanStep ==
  \/ StartStep \/ StartRefused
  \/ \E t \in Tasks : StopTask(t) \/ AwaitTask(t)
  \/ \E r \in Resources : Close(r)

LifeNext ==
  \/ LifespanStep \/ StartRaises \/ Stop \/ Cancel \/ Ask \/ CheckPg \/ CheckNats
  \/ \E t \in Tasks : Wake(t) \/ ScanEnds(t) \/ ScanRaises(t) \/ Leave(t)
  \/ \E r \in Resources : CloseRaises(r)
  \/ \E d \in Dependencies : Drop(d) \/ Return(d)

LifeSpec == LifeInit /\ [][LifeNext]_lifevars

-----------------------------------------------------------------------------
(* Properties.                                                             *)

\* Nobody scans on a pool or a connection that is gone, and while the gateway
\* serves no task is lost (lifespan.py:326).
NothingAfterClose ==
  \A t \in Tasks :
    /\ task[t] = "scanning" => {"pool", "nats"} \subseteq held
    /\ stage = "serving" => task[t] # "ended"

\* A lifespan that returned has ended its tasks and closed everything, but for
\* a close that raised; only a start that failed or a cancellation between the
\* closes leaves more behind, and never a task without its resources.
LeaksExplained ==
  /\ stage = "stopped" =>
       /\ \A t \in Tasks : task[t] = "ended"
       /\ held # {} => "close" \in troubles
  /\ stage = "aborted" => \A t \in Tasks : task[t] = "ended"
  /\ stage = "serving" => held = Resources
  /\ stage \in {"failed", "aborted"} => troubles # {}

\* Ready means that each dependency was up at some time of the probe, degraded
\* that one was down; the two were not looked at together (health.py).
ReadyTrue ==
  /\ probe.answer = "ready" => probe.absent = {}
  /\ probe.answer = "degraded" => probe.missed # {}

\* A start or a stop comes to its end, with the dependencies up or down.
LifespanEnds ==
  stage \in {"starting", "stopping"} ~> stage \in {"serving", "failed", "stopped", "aborted"}

\* The gateway holds what its tasks use, gives it back, and knows when it is fit.
LifecycleHolds == NothingAfterClose /\ LeaksExplained /\ ReadyTrue
=============================================================================
