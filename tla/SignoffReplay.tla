---------------------------- MODULE SignoffReplay ----------------------------
(***************************************************************************)
(* The agents that stop in the middle of a node to ask a supervisor        *)
(* (langgraph interrupt) and write audit rows once they are answered.      *)
(* LangGraph keeps no program counter: a thread that is resumed runs the   *)
(* agent's __call__ again from its first line, with the answers so far,    *)
(* and interrupt() returns the n-th answer at the n-th question.  Whatever *)
(* the node computes before a question is computed again, by a language    *)
(* model or from tables that may have changed, and whatever it writes      *)
(* before a later question is written again.                               *)
(*                                                                         *)
(* A run is one invocation of the graph on a thread: it starts the thread, *)
(* resumes it (POST /v1/threads/{id}/resume), or comes from the agent's    *)
(* own /resume endpoint.  Nothing serialises the runs of a thread.  A step *)
(* of a run ends where the code awaits.                                    *)
(***************************************************************************)
EXTENDS FiniteSets, Naturals, Sequences

CONSTANTS
  Threads,    \* graph threads
  AgentOf,    \* thread -> the agent its target_agent names
  Runs,       \* invocations of the graph, each used once
  Contents,   \* what an execution may find to be signed
  Nothing,    \* an execution found nothing to be signed
  Unrouted,   \* threads of agents whose cluster has no audit subject: those of
              \* the cluster "knowledge" once they are wired to AuditWriter
  MaxFaults   \* bound on the runs that raise or die half-way

Agents == {"shift-handover", "documentation-synthesizer", "training-coach", "rca-specialist",
           "inventory-manager", "energy-optimizer", "demand-forecaster"}

ASSUME ReplayConstants ==
  /\ AgentOf \in [Threads -> Agents]
  /\ Nothing \notin Contents
  /\ Unrouted \subseteq Threads
  /\ MaxFaults \in Nat

VARIABLES
  thread,  \* what the newest checkpoint of each thread says
  run,     \* where each run stands
  rows,    \* rows written (audit.actions, and the index of the SOPs)
  faults   \* runs that raised or died so far

vars == <<thread, run, rows, faults>>

-----------------------------------------------------------------------------
(* What each agent does, question by question *)

Ask(n) == [op |-> "ask", kind |-> "question", needs |-> n]

\* needs: how many answers have been read when the row is written.
Write(kind, n) == [op |-> "write", kind |-> kind, needs |-> n]

HandoverScript ==
  << Ask(1), Write("HANDOVER_SIGNOFF", 1),
     Ask(2), Write("HANDOVER_SIGNOFF", 2), Write("HANDOVER_DRAFT", 2) >>

SopScript == << Ask(1), Write("INDEX", 1), Write("SOP_DRAFT", 1) >>

\* A session that was not passed is recorded at once and asks nobody.
PassedScript == << Ask(1), Write("TRAINING_SESSION", 1), Write("TRAINING_SIGNOFF", 1) >>

FailedScript == << Write("TRAINING_SESSION", 0) >>

\* Fault variant of RcaScript: the row is written before the question.
RcaWrittenFirst == << Write("RCA_CHAIN", 1), Ask(1) >>

RcaScript == << Ask(1), Write("RCA_CHAIN", 1) >>

PurchaseScript ==
  << Ask(1), Write("PURCHASE_RECOMMENDATION_DRAFT", 1), Write("PURCHASE_SIGNOFF", 1) >>

EnergyScript == << Ask(1), Write("ENERGY_PROPOSAL", 1), Write("ENERGY_SIGNOFF", 1) >>

DemandScript == << Ask(1), Write("DEMAND_PLAN_DRAFT", 1), Write("DEMAND_PLAN_SIGNOFF", 1) >>

\* No SKU below its reorder point, no valid reading, or a quiz not passed.
MayFindNothing == {"inventory-manager", "energy-optimizer", "training-coach"}

Outcomes(a) == IF a \in MayFindNothing THEN Contents \cup {Nothing} ELSE Contents

Script(a, content) ==
  CASE content = Nothing -> IF a = "training-coach" THEN FailedScript ELSE << >>
    [] a = "shift-handover" /\ content # Nothing -> HandoverScript
    [] a = "documentation-synthesizer" /\ content # Nothing -> SopScript
    [] a = "training-coach" /\ content # Nothing -> PassedScript
    [] a = "rca-specialist" /\ content # Nothing -> RcaScript
    [] a = "inventory-manager" /\ content # Nothing -> PurchaseScript
    [] a = "energy-optimizer" /\ content # Nothing -> EnergyScript
    [] a = "demand-forecaster" /\ content # Nothing -> DemandScript

Kinds == {"question", "HANDOVER_SIGNOFF", "HANDOVER_DRAFT", "INDEX", "SOP_DRAFT",
          "TRAINING_SESSION", "TRAINING_SIGNOFF", "RCA_CHAIN", "PURCHASE_RECOMMENDATION_DRAFT",
          "PURCHASE_SIGNOFF", "ENERGY_PROPOSAL", "ENERGY_SIGNOFF", "DEMAND_PLAN_DRAFT",
          "DEMAND_PLAN_SIGNOFF"}

\* The agents with a /resume endpoint of their own.
OwnResume == {"training-coach", "inventory-manager", "energy-optimizer", "demand-forecaster"}

-----------------------------------------------------------------------------
(* State *)

\* epoch counts the checkpoints that superseded all that was pending; answers
\* are those stored with the pending task, named by the runs that brought them;
\* shown is what its question shows.
Thread == [status : {"new", "open", "done"}, epoch : Nat, answers : Seq(Runs),
           shown : Contents \cup {Nothing}]

Checkpoint(status, epoch, answers, shown) ==
  [status |-> status, epoch |-> epoch, answers |-> answers, shown |-> shown]

\* saw: what the question showed when the run brought its answer.  Who answers
\* and what is not kept: no agent looks at either.
\* overlaps: the run began while another run of its thread was under way.
Run == [pc : {"computing", "running", "asked", "ended", "failed"},
        via : {"start", "thread", "agent"}, of : Threads, epoch : Nat,
        answers : Seq(Runs), content : Contents \cup {Nothing}, at : Nat \ {0},
        saw : Contents \cup {Nothing}, overlaps : BOOLEAN]

Recorded == [of : Threads, by : Runs, kind : Kinds, needs : Nat, answers : Seq(Runs),
          content : Contents \cup {Nothing}]

Idle == [pc |-> "idle"]

Init ==
  /\ thread = [t \in Threads |-> Checkpoint("new", 0, << >>, Nothing)]
  /\ run = [r \in Runs |-> Idle]
  /\ rows = {}
  /\ faults = 0

Active(r) == run[r].pc \in {"computing", "running"}

Busy(t) == \E r \in Runs : Active(r) /\ run[r].of = t

Begin(r, t, via, epoch, answers) ==
  run' = [run EXCEPT ![r] =
            [pc |-> "computing", via |-> via, of |-> t, epoch |-> epoch, answers |-> answers,
             content |-> Nothing, at |-> 1, saw |-> thread[t].shown, overlaps |-> Busy(t)]]

-----------------------------------------------------------------------------
(* Invocations *)

\* A graph invoked with a state (a dict) begins a new turn of the thread: the
\* pending question is discarded with its answers.
NewTurn(r, t, via) ==
  /\ thread' = [thread EXCEPT ![t] = Checkpoint("open", @.epoch + 1, << >>, @.shown)]
  /\ Begin(r, t, via, thread[t].epoch + 1, << >>)
  /\ UNCHANGED <<rows, faults>>

\* POST .../compile, /draft, /session, /check, /optimize, /forecast, /analyze.
Start(r, t) ==
  /\ run[r].pc = "idle"
  /\ thread[t].status = "new"
  /\ NewTurn(r, t, "start")

\* Fault variant of ResumeThread: the answer is filed under its thread.
ResumeFiledByThread(r, t) ==
  /\ run[r].pc = "idle"
  /\ thread[t].status = "open"
  /\ Begin(r, t, "thread", thread[t].epoch, Append(thread[t].answers, t))
  /\ UNCHANGED <<thread, rows, faults>>

\* Fault variant of ResumeThread: the answer travels in a state.
ResumeWithState(r, t) ==
  /\ run[r].pc = "idle"
  /\ thread[t].status = "open"
  /\ NewTurn(r, t, "thread")

\* POST /v1/threads/{id}/resume, Command(resume=...): a checkpoint is all it asks
\* for, so the answer may come while the thread has put no question: a start
\* that fails returns the id of the thread like one that asks.  A thread that is
\* done has nothing pending, and the call returns.
ResumeThread(r, t) ==
  /\ run[r].pc = "idle"
  /\ thread[t].status = "open"
  /\ Begin(r, t, "thread", thread[t].epoch, Append(thread[t].answers, r))
  /\ UNCHANGED <<thread, rows, faults>>

\* POST .../{agent}/resume: the decision travels in a state dict, to whatever
\* thread the caller names.
ResumeAgent(r, t) ==
  /\ run[r].pc = "idle"
  /\ AgentOf[t] \in OwnResume
  /\ NewTurn(r, t, "agent")

-----------------------------------------------------------------------------
(* One execution of __call__ *)

\* Everything before the first question: queries, retrieval, language model.
Compute(r, content) ==
  /\ run[r].pc = "computing"
  /\ content \in Outcomes(AgentOf[run[r].of])
  /\ run' = [run EXCEPT ![r].pc = "running", ![r].content = content]
  /\ UNCHANGED <<thread, rows, faults>>

RunScript(r) == Script(AgentOf[run[r].of], run[r].content)

AtStep(r, op) ==
  /\ run[r].pc = "running"
  /\ run[r].at <= Len(RunScript(r))
  /\ RunScript(r)[run[r].at].op = op

Answered(r) == Len(run[r].answers) >= RunScript(r)[run[r].at].needs

Advance(r) == run' = [run EXCEPT ![r].at = @ + 1]

\* interrupt() returns: the answer is there.
Pass(r) ==
  /\ AtStep(r, "ask")
  /\ Answered(r)
  /\ Advance(r)
  /\ UNCHANGED <<thread, rows, faults>>

\* interrupt() raises: the answers are stored with the question, unless a
\* later checkpoint of the thread left this run behind.
Interrupt(r) ==
  LET t == run[r].of IN
  /\ AtStep(r, "ask")
  /\ ~Answered(r)
  /\ run' = [run EXCEPT ![r].pc = "asked"]
  /\ thread' = IF run[r].epoch # thread[t].epoch THEN thread
               ELSE [thread EXCEPT
                       ![t] = Checkpoint(@.status, @.epoch, run[r].answers, run[r].content)]
  /\ UNCHANGED <<rows, faults>>

Row(r) ==
  LET s == RunScript(r)[run[r].at] IN
  [of |-> run[r].of, by |-> r, kind |-> s.kind, needs |-> s.needs, answers |-> run[r].answers,
   content |-> run[r].content]

\* AuditWriter.write raises when it cannot name the subject (AuditOutbox,
\* SubjectRefused); the row is committed by then.
Refused(r) == run[r].of \in Unrouted /\ RunScript(r)[run[r].at].kind # "INDEX"

WriteRaises(r) ==
  /\ AtStep(r, "write")
  /\ Refused(r)
  /\ rows' = rows \cup {Row(r)}
  /\ run' = [run EXCEPT ![r].pc = "failed"]
  /\ UNCHANGED <<thread, faults>>

\* await self._audit.write(...), or the indexer's upsert.
WriteRow(r) ==
  /\ AtStep(r, "write")
  /\ ~Refused(r)
  /\ rows' = rows \cup {Row(r)}
  /\ Advance(r)
  /\ UNCHANGED <<thread, faults>>

\* Fault variant of Finish: the last write is skipped.
FinishEarly(r) ==
  /\ run[r].pc = "running"
  /\ run[r].at >= Len(RunScript(r))
  /\ run' = [run EXCEPT ![r].pc = "ended"]
  /\ thread' = [thread EXCEPT
                   ![run[r].of] = Checkpoint("done", @.epoch + 1, << >>, @.shown)]
  /\ UNCHANGED <<rows, faults>>

\* The node returns; its checkpoint supersedes whatever was pending.
Finish(r) ==
  /\ run[r].pc = "running"
  /\ run[r].at > Len(RunScript(r))
  /\ run' = [run EXCEPT ![r].pc = "ended"]
  /\ thread' = [thread EXCEPT
                   ![run[r].of] = Checkpoint("done", @.epoch + 1, << >>, @.shown)]
  /\ UNCHANGED <<rows, faults>>

\* A query, a model call, an upsert or an INSERT raises, or the process dies:
\* the rows written stay, the thread keeps the answers it had.
Fail(r) ==
  /\ Active(r)
  /\ faults < MaxFaults
  /\ faults' = faults + 1
  /\ run' = [run EXCEPT ![r].pc = "failed"]
  /\ UNCHANGED <<thread, rows>>

Invoke(r, t) == Start(r, t) \/ ResumeThread(r, t) \/ ResumeAgent(r, t)

\* What the code does on its own once a run is under way.
Execute(r) ==
  \/ \E content \in Contents \cup {Nothing} : Compute(r, content)
  \/ Pass(r)
  \/ Interrupt(r)
  \/ WriteRow(r)
  \/ WriteRaises(r)
  \/ Finish(r)

Next ==
  \E r \in Runs :
    \/ \E t \in Threads : Invoke(r, t)
    \/ Execute(r)
    \/ Fail(r)

Spec == Init /\ [][Next]_vars

-----------------------------------------------------------------------------
(* Properties *)

\* Shapes of the checkpoints, the runs and the rows.
TypeOK ==
  /\ thread \in [Threads -> Thread]
  /\ run \in [Runs -> Run \cup {Idle}]
  /\ rows \subseteq Recorded
  /\ faults \in 0..MaxFaults

RunsOn(t) == {r \in Runs : run[r].pc # "idle" /\ run[r].of = t}

Failed(t) == {r \in RunsOn(t) : run[r].pc = "failed"}

\* An answer to a question that was put; a thread that has put none is resumed
\* only while a run of it is under way, or after one failed.
Prompted(a) == a.saw # Nothing \/ a.overlaps \/ Failed(a.of) # {}

\* CR-02: whatever raced, failed or was replayed, a row that reports a
\* supervisor's answer was written with that answer at hand; the answers were
\* given to this very thread, none counts twice, and none came before a question
\* of the thread was put unless runs of it overlapped or one had failed.
SignedByAnswer ==
  \A x \in rows :
    /\ Len(x.answers) >= x.needs
    /\ \A i \in DOMAIN x.answers :
         LET a == run[x.answers[i]] IN
         a.pc # "idle" /\ a.of = x.of /\ a.via = "thread" /\ Prompted(a)
    /\ \A i, j \in DOMAIN x.answers : i # j => x.answers[i] # x.answers[j]

CopiesOf(x) == {y \in rows : y.of = x.of /\ y.kind = x.kind /\ y.needs = x.needs}

QuestionsAfter(x) ==
  LET s == Script(AgentOf[x.of], x.content) IN
  {i \in DOMAIN s : s[i].op = "ask" /\ s[i].needs > x.needs}

Overlapping(t) == {r \in RunsOn(t) : run[r].overlaps}

StartedOver(t) == {r \in RunsOn(t) : run[r].via = "agent"}

\* A row is written once, and once more for every later question of its agent:
\* any other copy takes a run that failed after it wrote, two runs at once, or
\* a thread that was made to start over.
CopiesExplained ==
  \A x \in rows :
    Cardinality(CopiesOf(x)) <=
      1 + Cardinality(QuestionsAfter(x)) + Cardinality(Failed(x.of))
        + Cardinality(Overlapping(x.of)) + Cardinality(StartedOver(x.of))

\* A run that returned has written every row of its agent, whatever happened
\* to the other runs of the thread.
FinishedRecorded ==
  \A r \in Runs : run[r].pc = "ended" =>
    \A i \in DOMAIN RunScript(r) : RunScript(r)[i].op = "write" =>
      \E x \in rows : /\ x.by = r
                      /\ x.kind = RunScript(r)[i].kind
                      /\ x.needs = RunScript(r)[i].needs

\* A handover is drafted only with both sign-offs on record for the very report
\* the draft holds.
DraftFullySigned ==
  \A x \in rows : x.kind = "HANDOVER_DRAFT" =>
    \A n \in 1..2 : \E y \in rows : /\ y.kind = "HANDOVER_SIGNOFF"
                                    /\ y.needs = n
                                    /\ y.by = x.by
                                    /\ y.content = x.content
                                    /\ y.answers = x.answers

\* Under the agents that always find something to sign, an answer leaves a row
\* in the end, unless the run that brought it failed.
AnswerRecorded ==
  \A r \in Runs :
    (run[r].pc = "computing" /\ run[r].via = "thread"
       /\ AgentOf[run[r].of] \notin MayFindNothing)
    ~> (run[r].pc = "failed" \/ \E x \in rows : x.by = r /\ r \in {x.answers[i] : i \in DOMAIN x.answers})

\* The rows of a thread tell its story: a run that returned wrote them all, a
\* draft is signed twice, and every copy has its cause.
RowsExplained ==
  /\ FinishedRecorded
  /\ DraftFullySigned
  /\ CopiesExplained
=============================================================================
