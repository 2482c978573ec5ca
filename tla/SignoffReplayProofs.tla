-------------------------- MODULE SignoffReplayProofs --------------------------
(***************************************************************************)
(* Proofs about SignoffReplay, for any threads, agents, people, contents   *)
(* and number of runs and failures.                                        *)
(*                                                                         *)
(* SignedByAnswer is not inductive: a row is good because the run that     *)
(* writes it has read the answer of every question it passed (AsksPassed), *)
(* because the answers it carries, and those stored with the threads, were *)
(* given to the thread (AnswersUsable), and because a thread that is open  *)
(* and has put no question still has the run that began its turn, under    *)
(* way or failed (OpenHasRun).                                             *)
(***************************************************************************)
EXTENDS SignoffReplay, FiniteSetTheorems, TLAPS

-----------------------------------------------------------------------------
(* The scripts *)

Step == [op : {"ask", "write"}, kind : Kinds, needs : Nat]

\* Every row that reports answers comes after the question it reports.
AsksFirst(s) ==
  \A i \in DOMAIN s : s[i].op = "write" /\ s[i].needs > 0 =>
    \E j \in 1..(i - 1) : s[j].op = "ask" /\ s[j].needs = s[i].needs

\* A step of any agent's script is a question or a row.
LEMMA StepShape ==
  ASSUME NEW n \in Nat, NEW k \in Kinds
  PROVE  Ask(n) \in Step /\ Write(k, n) \in Step
<1>1. Ask(n) \in Step
  BY DEF Ask, Step, Kinds
<1>2. Write(k, n) \in Step
  BY DEF Write, Step
<1>. QED  BY <1>1, <1>2

\* The shapes of the scripts, whatever was found.
LEMMA ScriptShape ==
  ASSUME NEW a \in Agents, NEW c \in Contents \cup {Nothing}
  PROVE  Script(a, c) \in Seq(Step)
<1>1. /\ HandoverScript \in Seq(Step) /\ SopScript \in Seq(Step)
      /\ PassedScript \in Seq(Step) /\ FailedScript \in Seq(Step)
  BY StepShape DEF Kinds, HandoverScript, SopScript, PassedScript, FailedScript
<1>2. /\ RcaScript \in Seq(Step) /\ PurchaseScript \in Seq(Step)
      /\ EnergyScript \in Seq(Step) /\ DemandScript \in Seq(Step) /\ << >> \in Seq(Step)
  BY StepShape DEF Kinds, RcaScript, PurchaseScript, EnergyScript, DemandScript
<1>. QED  BY <1>1, <1>2 DEF Script, Agents

\* No agent writes a row that reports an answer before it asks for it.
LEMMA ScriptAsksFirst ==
  ASSUME NEW a \in Agents, NEW c \in Contents \cup {Nothing}
  PROVE  AsksFirst(Script(a, c))
<1>1. AsksFirst(HandoverScript)
  BY DEF AsksFirst, HandoverScript, Ask, Write
<1>2. AsksFirst(SopScript) /\ AsksFirst(PassedScript) /\ AsksFirst(FailedScript)
  BY DEF AsksFirst, SopScript, PassedScript, FailedScript, Ask, Write
<1>3. AsksFirst(RcaScript) /\ AsksFirst(PurchaseScript) /\ AsksFirst(EnergyScript)
  BY DEF AsksFirst, RcaScript, PurchaseScript, EnergyScript, Ask, Write
<1>4. AsksFirst(DemandScript) /\ AsksFirst(<< >>)
  BY DEF AsksFirst, DemandScript, Ask, Write
<1>. QED  BY <1>1, <1>2, <1>3, <1>4 DEF Script, Agents

-----------------------------------------------------------------------------
(* Shapes *)

\* A run that is not idle has every field of a run.
LEMMA RunShape ==
  ASSUME TypeOK, NEW r \in Runs, run[r].pc # "idle"
  PROVE  run[r] \in Run
  BY DEF TypeOK, Idle

\* The script of a run under way is a script.
LEMMA RunScriptShape ==
  ASSUME TypeOK, NEW r \in Runs, run[r].pc # "idle"
  PROVE  /\ RunScript(r) \in Seq(Step)
         /\ AsksFirst(RunScript(r))
<1>1. run[r].of \in Threads /\ run[r].content \in Contents \cup {Nothing}
  BY RunShape DEF Run
<1>2. AgentOf[run[r].of] \in Agents
  BY <1>1, ReplayConstants
<1>. QED  BY <1>1, <1>2, ScriptShape, ScriptAsksFirst DEF RunScript

\* What Begin leaves is a run.
LEMMA BeginShape ==
  ASSUME TypeOK, NEW r \in Runs, NEW t \in Threads, NEW via \in {"start", "thread", "agent"},
         NEW e \in Nat, NEW answers \in Seq(Runs),
         Begin(r, t, via, e, answers)
  PROVE  run' \in [Runs -> Run \cup {Idle}]
<1>1. thread[t].shown \in Contents \cup {Nothing}
  BY DEF TypeOK, Thread
<1>2. Busy(t) \in BOOLEAN
  BY DEF Busy
<1>. QED  BY <1>1, <1>2 DEF Begin, Run, TypeOK

\* Checkpoints are well formed.
LEMMA CheckpointShape ==
  ASSUME NEW s \in {"new", "open", "done"}, NEW e \in Nat, NEW a \in Seq(Runs),
         NEW c \in Contents \cup {Nothing}
  PROVE  Checkpoint(s, e, a, c) \in Thread
  BY DEF Checkpoint, Thread

\* A new turn leaves checkpoints and runs.
LEMMA NewTurnShape ==
  ASSUME TypeOK, NEW r \in Runs, NEW t \in Threads, NEW via \in {"start", "agent"},
         NewTurn(r, t, via)
  PROVE  TypeOK'
<1>1. thread[t] \in Thread
  BY DEF TypeOK
<1>2. thread[t].epoch + 1 \in Nat /\ thread[t].shown \in Contents \cup {Nothing}
  BY <1>1 DEF Thread
<1>3. << >> \in Seq(Runs)
  OBVIOUS
<1>4. Checkpoint("open", thread[t].epoch + 1, << >>, thread[t].shown) \in Thread
  BY <1>2, <1>3, CheckpointShape
<1>5. thread' \in [Threads -> Thread]
  BY <1>4 DEF NewTurn, TypeOK
<1>6. run' \in [Runs -> Run \cup {Idle}]
  BY <1>2, <1>3, BeginShape DEF NewTurn
<1>. QED  BY <1>5, <1>6 DEF NewTurn, TypeOK

-----------------------------------------------------------------------------
(* Type correctness *)

LEMMA TypeInit == Init => TypeOK
<1>. SUFFICES ASSUME Init PROVE TypeOK
  OBVIOUS
<1>1. << >> \in Seq(Runs)
  OBVIOUS
<1>2. Checkpoint("new", 0, << >>, Nothing) \in Thread
  BY <1>1, CheckpointShape
<1>. QED  BY <1>2, ReplayConstants DEF Init, TypeOK

\* An invocation keeps the shapes.
LEMMA TypeInvoke ==
  ASSUME TypeOK, NEW r \in Runs, NEW t \in Threads, Invoke(r, t)
  PROVE  TypeOK'
<1>1. CASE Start(r, t)
  BY <1>1, NewTurnShape DEF Start
<1>2. CASE ResumeThread(r, t)
  <2>1. thread[t].epoch \in Nat /\ thread[t].answers \in Seq(Runs)
    BY DEF TypeOK, Thread
  <2>2. Append(thread[t].answers, r) \in Seq(Runs)
    BY <2>1
  <2>3. run' \in [Runs -> Run \cup {Idle}]
    BY <1>2, <2>1, <2>2, BeginShape DEF ResumeThread
  <2>. QED  BY <1>2, <2>3 DEF ResumeThread, TypeOK
<1>3. CASE ResumeAgent(r, t)
  BY <1>3, NewTurnShape DEF ResumeAgent
<1>. QED  BY <1>1, <1>2, <1>3 DEF Invoke

\* Setting one field of a run leaves a run.
LEMMA FieldShape ==
  ASSUME TypeOK, NEW r \in Runs, run[r].pc # "idle"
  PROVE  /\ \A pc \in {"computing", "running", "asked", "ended", "failed"} :
              [run EXCEPT ![r].pc = pc] \in [Runs -> Run \cup {Idle}]
         /\ \A c \in Contents \cup {Nothing} :
              [run EXCEPT ![r].pc = "running", ![r].content = c] \in [Runs -> Run \cup {Idle}]
         /\ [run EXCEPT ![r].at = @ + 1] \in [Runs -> Run \cup {Idle}]
<1>0. run[r] \in Run
  BY RunShape
<1>1. ASSUME NEW pc \in {"computing", "running", "asked", "ended", "failed"}
      PROVE  [run EXCEPT ![r].pc = pc] \in [Runs -> Run \cup {Idle}]
  <2>1. [run[r] EXCEPT !.pc = pc] \in Run
    BY <1>0 DEF Run
  <2>. QED  BY <2>1 DEF TypeOK
<1>2. ASSUME NEW c \in Contents \cup {Nothing}
      PROVE  [run EXCEPT ![r].pc = "running", ![r].content = c] \in [Runs -> Run \cup {Idle}]
  <2>1. [run[r] EXCEPT !.pc = "running", !.content = c] \in Run
    BY <1>0 DEF Run
  <2>. QED  BY <2>1 DEF TypeOK
<1>3. [run EXCEPT ![r].at = @ + 1] \in [Runs -> Run \cup {Idle}]
  <2>1. [run[r] EXCEPT !.at = @ + 1] \in Run
    BY <1>0 DEF Run
  <2>. QED  BY <2>1 DEF TypeOK
<1>. QED  BY <1>1, <1>2, <1>3

\* A row carries what its run found and was answered.
LEMMA RowShape ==
  ASSUME TypeOK, NEW r \in Runs, AtStep(r, "write")
  PROVE  Row(r) \in Recorded
<1>1. run[r].pc # "idle"
  BY DEF AtStep
<1>2. run[r] \in Run /\ RunScript(r) \in Seq(Step)
  BY <1>1, RunShape, RunScriptShape
<1>3. RunScript(r)[run[r].at] \in Step
  BY <1>2 DEF AtStep, Run
<1>. QED  BY <1>2, <1>3 DEF Row, Recorded, Run, Step

\* A step of a run keeps the shapes.
LEMMA TypeExecute ==
  ASSUME TypeOK, NEW r \in Runs, Execute(r)
  PROVE  TypeOK'
<1>1. CASE \E content \in Contents \cup {Nothing} : Compute(r, content)
  <2>. PICK c \in Contents \cup {Nothing} : Compute(r, c)
    BY <1>1
  <2>1. run[r].pc # "idle"
    BY DEF Compute
  <2>2. run' \in [Runs -> Run \cup {Idle}]
    BY <2>1, FieldShape DEF Compute
  <2>. QED  BY <2>2 DEF Compute, TypeOK
<1>2. CASE Pass(r)
  BY <1>2, FieldShape DEF Pass, AtStep, Advance, TypeOK
<1>3. CASE Interrupt(r)
  <2>. DEFINE t == run[r].of
  <2>1. run[r].pc = "running" /\ run[r].pc # "idle"
    BY <1>3 DEF Interrupt, AtStep
  <2>2. run[r] \in Run /\ t \in Threads
    BY <2>1, RunShape DEF Run
  <2>3. thread[t] \in Thread
    BY <2>2 DEF TypeOK
  <2>4. Checkpoint(thread[t].status, thread[t].epoch, run[r].answers, run[r].content) \in Thread
    BY <2>2, <2>3, CheckpointShape DEF Thread, Run
  <2>5. thread' \in [Threads -> Thread]
    BY <1>3, <2>2, <2>4 DEF Interrupt, TypeOK
  <2>6. run' \in [Runs -> Run \cup {Idle}]
    BY <1>3, <2>1, FieldShape DEF Interrupt
  <2>. QED  BY <1>3, <2>5, <2>6 DEF Interrupt, TypeOK
<1>4. CASE WriteRow(r)
  <2>1. Row(r) \in Recorded
    BY <1>4, RowShape DEF WriteRow
  <2>2. run' \in [Runs -> Run \cup {Idle}]
    BY <1>4, FieldShape DEF WriteRow, AtStep, Advance
  <2>. QED  BY <1>4, <2>1, <2>2 DEF WriteRow, TypeOK
<1>5. CASE Finish(r)
  <2>. DEFINE t == run[r].of
  <2>1. run[r].pc # "idle" /\ t \in Threads
    BY <1>5, RunShape DEF Finish, Run
  <2>2. thread[t] \in Thread /\ << >> \in Seq(Runs)
    BY <2>1 DEF TypeOK
  <2>3. thread[t].epoch + 1 \in Nat /\ thread[t].shown \in Contents \cup {Nothing}
    BY <2>2 DEF Thread
  <2>4. Checkpoint("done", thread[t].epoch + 1, << >>, thread[t].shown) \in Thread
    BY <2>2, <2>3, CheckpointShape
  <2>5. thread' \in [Threads -> Thread]
    BY <1>5, <2>1, <2>4 DEF Finish, TypeOK
  <2>6. run' \in [Runs -> Run \cup {Idle}]
    BY <1>5, <2>1, FieldShape DEF Finish
  <2>. QED  BY <1>5, <2>5, <2>6 DEF Finish, TypeOK
<1>6. CASE WriteRaises(r)
  <2>1. Row(r) \in Recorded
    BY <1>6, RowShape DEF WriteRaises
  <2>2. run' \in [Runs -> Run \cup {Idle}]
    BY <1>6, FieldShape DEF WriteRaises, AtStep
  <2>. QED  BY <1>6, <2>1, <2>2 DEF WriteRaises, TypeOK
<1>. QED  BY <1>1, <1>2, <1>3, <1>4, <1>5, <1>6 DEF Execute

\* Every step keeps the shapes.
LEMMA TypeNext == TypeOK /\ [Next]_vars => TypeOK'
<1>. SUFFICES ASSUME TypeOK, [Next]_vars PROVE TypeOK'
  OBVIOUS
<1>1. CASE UNCHANGED vars
  BY <1>1 DEF vars, TypeOK
<1>2. ASSUME NEW r \in Runs, NEW t \in Threads, Invoke(r, t) PROVE TypeOK'
  BY <1>2, TypeInvoke
<1>3. ASSUME NEW r \in Runs, Execute(r) PROVE TypeOK'
  BY <1>3, TypeExecute
<1>4. ASSUME NEW r \in Runs, Fail(r) PROVE TypeOK'
  <2>1. run' \in [Runs -> Run \cup {Idle}]
    BY <1>4, FieldShape DEF Fail, Active
  <2>2. faults' \in 0..MaxFaults
    BY <1>4, ReplayConstants DEF Fail, TypeOK
  <2>. QED  BY <1>4, <2>1, <2>2 DEF Fail, TypeOK
<1>. QED  BY <1>1, <1>2, <1>3, <1>4 DEF Next

\* The checkpoints, the runs and the rows keep their shapes for ever.
THEOREM TypeCorrect == Spec => []TypeOK
<1>. QED  BY TypeInit, TypeNext, PTL DEF Spec

-----------------------------------------------------------------------------
(* What the steps do to the runs, field by field *)

\* Run r now stands here; the other runs are as before.
RunBecomes(r, pc, at, content) ==
  /\ run[r] \in Run /\ run'[r] \in Run
  /\ run'[r].pc = pc /\ run'[r].at = at /\ run'[r].content = content
  /\ run'[r].of = run[r].of /\ run'[r].answers = run[r].answers
  /\ run'[r].via = run[r].via /\ run'[r].overlaps = run[r].overlaps
  /\ run'[r].epoch = run[r].epoch
  /\ \A q \in Runs \ {r} : run'[q] = run[q]

LEMMA RunUpdate ==
  ASSUME TypeOK, NEW r \in Runs, run[r].pc # "idle"
  PROVE  /\ \A pc \in {"computing", "running", "asked", "ended", "failed"} :
              run' = [run EXCEPT ![r].pc = pc]
                => RunBecomes(r, pc, run[r].at, run[r].content)
         /\ \A c \in Contents \cup {Nothing} :
              run' = [run EXCEPT ![r].pc = "running", ![r].content = c]
                => RunBecomes(r, "running", run[r].at, c)
         /\ run' = [run EXCEPT ![r].at = @ + 1]
              => RunBecomes(r, run[r].pc, run[r].at + 1, run[r].content)
<1>1. run[r] \in Run /\ run \in [Runs -> Run \cup {Idle}]
  BY RunShape DEF TypeOK
<1>2. ASSUME NEW pc \in {"computing", "running", "asked", "ended", "failed"},
             run' = [run EXCEPT ![r].pc = pc]
      PROVE  RunBecomes(r, pc, run[r].at, run[r].content)
  <2>1. [run[r] EXCEPT !.pc = pc] \in Run
    BY <1>1 DEF Run
  <2> QED BY <1>1, <1>2, <2>1 DEF RunBecomes, Run
<1>3. ASSUME NEW c \in Contents \cup {Nothing},
             run' = [run EXCEPT ![r].pc = "running", ![r].content = c]
      PROVE  RunBecomes(r, "running", run[r].at, c)
  <2>1. [run[r] EXCEPT !.pc = "running", !.content = c] \in Run
    BY <1>1 DEF Run
  <2> QED BY <1>1, <1>3, <2>1 DEF RunBecomes, Run
<1>4. ASSUME run' = [run EXCEPT ![r].at = @ + 1]
      PROVE  RunBecomes(r, run[r].pc, run[r].at + 1, run[r].content)
  <2>1. [run[r] EXCEPT !.at = @ + 1] \in Run
    BY <1>1 DEF Run
  <2> QED BY <1>1, <1>4, <2>1 DEF RunBecomes, Run
<1> QED BY <1>2, <1>3, <1>4

\* Run r begins.
RunBegins(r, t, via, answers) ==
  /\ run[r].pc = "idle" /\ run'[r] \in Run
  /\ run'[r].pc = "computing" /\ run'[r].at = 1
  /\ run'[r].of = t /\ run'[r].via = via /\ run'[r].answers = answers
  /\ run'[r].overlaps = Busy(t)
  /\ \A q \in Runs \ {r} : run'[q] = run[q]

LEMMA BeginEffect ==
  ASSUME TypeOK, NEW r \in Runs, NEW t \in Threads, NEW via \in {"start", "thread", "agent"},
         NEW e \in Nat, NEW answers \in Seq(Runs), run[r].pc = "idle",
         Begin(r, t, via, e, answers)
  PROVE  RunBegins(r, t, via, answers)
<1>1. run' \in [Runs -> Run \cup {Idle}]
  BY BeginShape
<1>2. /\ run'[r].pc = "computing" /\ run'[r].at = 1
      /\ run'[r].of = t /\ run'[r].via = via /\ run'[r].answers = answers
      /\ run'[r].overlaps = Busy(t)
      /\ \A q \in Runs \ {r} : run'[q] = run[q]
  BY DEF Begin, TypeOK
<1>3. run'[r] \in Run
  BY <1>1, <1>2 DEF Idle
<1> QED BY <1>2, <1>3 DEF RunBegins

LEMMA InvokeEffect ==
  ASSUME TypeOK, NEW r \in Runs, NEW t \in Threads, Invoke(r, t)
  PROVE  /\ \E via \in {"start", "thread", "agent"}, answers \in Seq(Runs) :
              RunBegins(r, t, via, answers)
         /\ UNCHANGED <<rows, faults>>
<1>1. thread[t].epoch \in Nat /\ thread[t].answers \in Seq(Runs) /\ << >> \in Seq(Runs)
  BY DEF TypeOK, Thread
<1>2. Append(thread[t].answers, r) \in Seq(Runs) /\ thread[t].epoch + 1 \in Nat
  BY <1>1
<1>3. CASE Start(r, t)
  BY <1>1, <1>2, <1>3, BeginEffect DEF Start, NewTurn
<1>4. CASE ResumeThread(r, t)
  BY <1>1, <1>2, <1>4, BeginEffect DEF ResumeThread
<1>5. CASE ResumeAgent(r, t)
  <2>1. run[r].pc = "idle"
    BY <1>5 DEF ResumeAgent
  <2> QED BY <1>1, <1>2, <1>5, <2>1, BeginEffect DEF ResumeAgent, NewTurn
<1> QED BY <1>3, <1>4, <1>5 DEF Invoke

LEMMA ComputeEffect ==
  ASSUME TypeOK, NEW r \in Runs, NEW c \in Contents \cup {Nothing}, Compute(r, c)
  PROVE  RunBecomes(r, "running", run[r].at, c) /\ UNCHANGED <<thread, rows>>
BY RunUpdate DEF Compute

LEMMA PassEffect ==
  ASSUME TypeOK, NEW r \in Runs, Pass(r)
  PROVE  RunBecomes(r, "running", run[r].at + 1, run[r].content)
         /\ UNCHANGED <<thread, rows>>
BY RunUpdate DEF Pass, AtStep, Advance

LEMMA InterruptEffect ==
  ASSUME TypeOK, NEW r \in Runs, Interrupt(r)
  PROVE  RunBecomes(r, "asked", run[r].at, run[r].content) /\ UNCHANGED rows
BY RunUpdate DEF Interrupt, AtStep

LEMMA WriteRowEffect ==
  ASSUME TypeOK, NEW r \in Runs, WriteRow(r)
  PROVE  RunBecomes(r, "running", run[r].at + 1, run[r].content)
         /\ UNCHANGED thread /\ rows' = rows \cup {Row(r)}
BY RunUpdate DEF WriteRow, AtStep, Advance

LEMMA WriteRaisesEffect ==
  ASSUME TypeOK, NEW r \in Runs, WriteRaises(r)
  PROVE  RunBecomes(r, "failed", run[r].at, run[r].content)
         /\ UNCHANGED thread /\ rows' = rows \cup {Row(r)}
BY RunUpdate DEF WriteRaises, AtStep

LEMMA FinishEffect ==
  ASSUME TypeOK, NEW r \in Runs, Finish(r)
  PROVE  RunBecomes(r, "ended", run[r].at, run[r].content) /\ UNCHANGED rows
BY RunUpdate DEF Finish

LEMMA FailEffect ==
  ASSUME TypeOK, NEW r \in Runs, Fail(r)
  PROVE  RunBecomes(r, "failed", run[r].at, run[r].content) /\ UNCHANGED <<thread, rows>>
BY RunUpdate DEF Fail, Active

-----------------------------------------------------------------------------
(* Answers are at hand when a row reports them *)

\* The runs named in s each brought an answer to thread t.
Given(t, s) ==
  \A i \in DOMAIN s : /\ run[s[i]].pc # "idle"
                      /\ run[s[i]].of = t
                      /\ run[s[i]].via = "thread"
                      /\ Prompted(run[s[i]])

NoneTwice(s) == \A i, j \in DOMAIN s : i # j => s[i] # s[j]

AnswersUsable ==
  /\ \A t \in Threads : Given(t, thread[t].answers) /\ NoneTwice(thread[t].answers)
  /\ \A r \in Runs : run[r].pc # "idle" =>
       Given(run[r].of, run[r].answers) /\ NoneTwice(run[r].answers)

\* The questions a run has passed are answered.
AsksPassed ==
  \A r \in Runs : run[r].pc # "idle" =>
    /\ run[r].pc = "computing" => run[r].at = 1
    /\ \A j \in DOMAIN RunScript(r) : j < run[r].at /\ RunScript(r)[j].op = "ask" =>
         Len(run[r].answers) >= RunScript(r)[j].needs

\* The run that began the turn of a thread that has put no question.
OpenHasRun ==
  \A t \in Threads : thread[t].status = "open" /\ thread[t].shown = Nothing =>
    \E r \in Runs : /\ run[r].pc \in {"computing", "running", "failed"}
                    /\ run[r].of = t
                    /\ run[r].epoch = thread[t].epoch

IInv == TypeOK /\ AsksPassed /\ AnswersUsable /\ OpenHasRun /\ SignedByAnswer

\* Nobody takes back whom a run belongs to, what it saw, what it was told and
\* that it failed.
LEMMA Kept ==
  ASSUME TypeOK, [Next]_vars
  PROVE  \A q \in Runs : run[q].pc # "idle" =>
           /\ run'[q].pc # "idle"
           /\ run'[q].of = run[q].of
           /\ run'[q].via = run[q].via
           /\ run'[q].saw = run[q].saw
           /\ run'[q].overlaps = run[q].overlaps
           /\ run'[q].answers = run[q].answers
           /\ run[q].pc = "failed" => run'[q].pc = "failed"
<1>. SUFFICES ASSUME NEW q \in Runs, run[q].pc # "idle"
              PROVE  /\ run'[q].pc # "idle"
                     /\ run'[q].of = run[q].of
                     /\ run'[q].via = run[q].via
                     /\ run'[q].saw = run[q].saw
                     /\ run'[q].overlaps = run[q].overlaps
                     /\ run'[q].answers = run[q].answers
                     /\ run[q].pc = "failed" => run'[q].pc = "failed"
  OBVIOUS
<1>. DEFINE Same == /\ run'[q].pc # "idle"
                    /\ run'[q].of = run[q].of
                    /\ run'[q].via = run[q].via
                    /\ run'[q].saw = run[q].saw
                    /\ run'[q].overlaps = run[q].overlaps
                    /\ run'[q].answers = run[q].answers
                    /\ run[q].pc = "failed" => run'[q].pc = "failed"
<1>0. run[q] \in Run /\ run \in [Runs -> Run \cup {Idle}]
  BY RunShape DEF TypeOK
<1>1. CASE UNCHANGED vars
  BY <1>1 DEF vars
<1>2. ASSUME NEW r \in Runs, NEW t \in Threads, Invoke(r, t) PROVE Same
  <2>1. run[r].pc = "idle"
    BY <1>2 DEF Invoke, Start, ResumeThread, ResumeAgent
  <2>2. run'[q] = run[q]
    BY <1>2, <1>0, <2>1 DEF Invoke, Start, ResumeThread, ResumeAgent, NewTurn, Begin
  <2>. QED  BY <2>2
<1>3. ASSUME NEW r \in Runs, Execute(r) PROVE Same
  <2>1. CASE \E content \in Contents \cup {Nothing} : Compute(r, content)
    BY <2>1, <1>0 DEF Compute, Run
  <2>2. CASE Pass(r)
    BY <2>2, <1>0 DEF Pass, Advance, AtStep, Run
  <2>3. CASE Interrupt(r)
    BY <2>3, <1>0 DEF Interrupt, AtStep, Run
  <2>4. CASE WriteRow(r)
    BY <2>4, <1>0 DEF WriteRow, Advance, AtStep, Run
  <2>5. CASE Finish(r)
    BY <2>5, <1>0 DEF Finish, Run
  <2>6. CASE WriteRaises(r)
    BY <2>6, <1>0 DEF WriteRaises, AtStep, Run
  <2>. QED  BY <1>3, <2>1, <2>2, <2>3, <2>4, <2>5, <2>6 DEF Execute
<1>4. ASSUME NEW r \in Runs, Fail(r) PROVE Same
  BY <1>4, <1>0 DEF Fail, Active, Run
<1>. QED  BY <1>1, <1>2, <1>3, <1>4 DEF Next

\* A thread on which a run failed stays one.
LEMMA FailedStays ==
  ASSUME TypeOK, [Next]_vars, NEW t \in Threads, Failed(t) # {}
  PROVE  Failed(t)' # {}
<1>1. PICK q \in Runs : run[q].pc = "failed" /\ run[q].of = t
  BY DEF Failed, RunsOn
<1>2. run'[q].pc = "failed" /\ run'[q].of = t
  BY <1>1, Kept
<1>. QED  BY <1>2 DEF Failed, RunsOn

\* Hence answers that were usable stay so.
LEMMA GivenStays ==
  ASSUME TypeOK, [Next]_vars, NEW t \in Threads, NEW s \in Seq(Runs), Given(t, s)
  PROVE  \A i \in DOMAIN s : /\ run'[s[i]].pc # "idle"
                             /\ run'[s[i]].of = t
                             /\ run'[s[i]].via = "thread"
                             /\ Prompted(run[s[i]])'
<1>. TAKE i \in DOMAIN s
<1>1. s[i] \in Runs
  OBVIOUS
<1>2. run[s[i]].pc # "idle" /\ run[s[i]].of = t /\ Prompted(run[s[i]])
  BY DEF Given
<1>3. Prompted(run[s[i]])'
  BY <1>1, <1>2, Kept, FailedStays DEF Prompted
<1>. QED  BY <1>1, <1>3, Kept DEF Given

\* What the rows promise, in terms of Given and NoneTwice.
LEMMA SignedMeans ==
  SignedByAnswer <=>
    \A x \in rows : Len(x.answers) >= x.needs /\ Given(x.of, x.answers) /\ NoneTwice(x.answers)
  BY DEF SignedByAnswer, Given, NoneTwice

LEMMA IInvInit == Init => IInv
<1>. SUFFICES ASSUME Init PROVE IInv
  OBVIOUS
<1>1. TypeOK
  BY TypeInit
<1>2. AsksPassed
  BY DEF AsksPassed, Init, Idle
<1>3. AnswersUsable
  BY DEF AnswersUsable, Init, Idle, Checkpoint, Given, NoneTwice
<1>4. SignedByAnswer
  BY DEF SignedByAnswer, Init
<1>5. OpenHasRun
  BY DEF OpenHasRun, Init, Checkpoint
<1>. QED  BY <1>1, <1>2, <1>3, <1>4, <1>5 DEF IInv

\* A run that found nothing to be signed asks nothing.
LEMMA NothingAsksNothing ==
  ASSUME TypeOK, NEW r \in Runs, AtStep(r, "ask")
  PROVE  run[r].content # Nothing
<1>. SUFFICES ASSUME run[r].content = Nothing PROVE FALSE
  OBVIOUS
<1>1. RunScript(r) = FailedScript \/ RunScript(r) = << >>
  BY DEF RunScript, Script
<1>2. run[r] \in Run
  BY RunShape DEF AtStep
<1>3. run[r].at \in Nat \ {0}
  BY <1>2 DEF Run
<1>. QED  BY <1>1, <1>3 DEF AtStep, FailedScript, Write

\* Until its question is put, the run that began a turn is under way or failed.
LEMMA OpenHasRunStep ==
  ASSUME TypeOK, OpenHasRun, [Next]_vars
  PROVE  OpenHasRun'
<1>. SUFFICES ASSUME NEW t \in Threads,
                     thread'[t].status = "open", thread'[t].shown = Nothing
              PROVE  \E r \in Runs : /\ run'[r].pc \in {"computing", "running", "failed"}
                                     /\ run'[r].of = t
                                     /\ run'[r].epoch = thread'[t].epoch
  BY DEF OpenHasRun
<1>. DEFINE Began(r) == /\ run[r].pc \in {"computing", "running", "failed"}
                        /\ run[r].of = t
                        /\ run[r].epoch = thread[t].epoch
<1>0. thread \in [Threads -> Thread] /\ run \in [Runs -> Run \cup {Idle}]
  BY DEF TypeOK
<1>1. CASE UNCHANGED vars
  BY <1>1 DEF vars, OpenHasRun
<1>2. ASSUME thread'[t] = thread[t],
             NEW r \in Runs, \A q \in Runs \ {r} : run'[q] = run[q],
             Began(r) => Began(r)'
      PROVE  \E q \in Runs : Began(q)'
  BY <1>2 DEF OpenHasRun
<1>3. ASSUME NEW r \in Runs, NEW u \in Threads, Invoke(r, u)
      PROVE  \E q \in Runs : Began(q)'
  <2>1. run[r].pc = "idle" /\ \A q \in Runs \ {r} : run'[q] = run[q]
    BY <1>3, InvokeEffect DEF RunBegins
  <2>2. CASE u = t /\ \E via : NewTurn(r, u, via)
    <3>1. PICK via : NewTurn(r, t, via)
      BY <2>2
    <3>2. Began(r)'
      BY <1>0, <3>1 DEF NewTurn, Begin, Checkpoint
    <3>. QED  BY <3>2
  <2>3. CASE u # t \/ ResumeThread(r, u)
    <3>1. thread'[t] = thread[t]
      BY <1>0, <1>3, <2>3 DEF Invoke, Start, ResumeThread, ResumeAgent, NewTurn
    <3>. QED  BY <1>2, <2>1, <3>1
  <2>. QED  BY <1>3, <2>2, <2>3 DEF Invoke, Start, ResumeAgent
<1>4. ASSUME NEW r \in Runs, NEW pc \in {"running", "failed"}, NEW at, NEW c,
             RunBecomes(r, pc, at, c), thread'[t] = thread[t]
      PROVE  \E q \in Runs : Began(q)'
  BY <1>2, <1>4 DEF RunBecomes
<1>5. ASSUME NEW r \in Runs, Interrupt(r)
      PROVE  \E q \in Runs : Began(q)'
  <2>1. RunBecomes(r, "asked", run[r].at, run[r].content) /\ run[r].content # Nothing
    BY <1>5, InterruptEffect, NothingAsksNothing DEF Interrupt
  <2>2. ~(run[r].of = t /\ run[r].epoch = thread[t].epoch)
    BY <1>0, <1>5, <2>1 DEF Interrupt, Checkpoint
  <2>3. thread'[t] = thread[t]
    BY <1>0, <1>5, <2>2 DEF Interrupt
  <2>. QED  BY <1>2, <2>1, <2>2, <2>3 DEF RunBecomes
<1>6. ASSUME NEW r \in Runs, Finish(r)
      PROVE  \E q \in Runs : Began(q)'
  <2>1. RunBecomes(r, "ended", run[r].at, run[r].content)
    BY <1>6, FinishEffect
  <2>2. run[r].of # t
    BY <1>0, <1>6 DEF Finish, Checkpoint
  <2>3. thread'[t] = thread[t]
    BY <1>0, <1>6, <2>2 DEF Finish
  <2>. QED  BY <1>2, <2>1, <2>2, <2>3 DEF RunBecomes
<1>7. ASSUME NEW r \in Runs, Execute(r) \/ Fail(r), ~Interrupt(r), ~Finish(r)
      PROVE  \E q \in Runs : Began(q)'
  <2>1. UNCHANGED thread
    BY <1>7 DEF Execute, Compute, Pass, WriteRow, WriteRaises, Fail
  <2>2. \E pc \in {"running", "failed"} : \E at, c : RunBecomes(r, pc, at, c)
    BY <1>7, ComputeEffect, PassEffect, WriteRowEffect, WriteRaisesEffect, FailEffect
       DEF Execute
  <2>. QED  BY <1>4, <2>1, <2>2
<1>. QED  BY <1>1, <1>3, <1>5, <1>6, <1>7 DEF Next

\* The answer an invocation adds to those of its thread is usable like them.
LEMMA AppendUsable ==
  ASSUME IInv, [Next]_vars, NEW r \in Runs, NEW t \in Threads,
         ResumeThread(r, t)
  PROVE  Given(t, run[r].answers)' /\ NoneTwice(run[r].answers)'
<1>0. PICK old \in Seq(Runs) : old = thread[t].answers
  BY DEF IInv, TypeOK, Thread
<1>. DEFINE new == Append(old, r)
<1>1. old \in Seq(Runs) /\ run[r] = Idle /\ run \in [Runs -> Run \cup {Idle}]
  BY RunShape DEF IInv, TypeOK, Thread, ResumeThread, Run
<1>2. /\ run'[r] # Idle /\ run'[r].answers = new /\ run'[r].pc # "idle" /\ run'[r].of = t
      /\ run'[r].via = "thread" /\ Prompted(run[r])'
  <2>1. /\ run'[r] # Idle /\ run'[r].answers = new /\ run'[r].pc # "idle"
        /\ run'[r].of = t /\ run'[r].via = "thread"
        /\ run'[r].saw = thread[t].shown /\ run'[r].overlaps = Busy(t)
        /\ thread[t].status = "open"
    BY <1>0, <1>1 DEF ResumeThread, Begin, Idle
  <2>2. CASE thread[t].shown # Nothing
    BY <2>1, <2>2 DEF Prompted
  <2>3. CASE thread[t].shown = Nothing
    <3>1. PICK q \in Runs : run[q].pc \in {"computing", "running", "failed"} /\ run[q].of = t
      BY <2>1, <2>3 DEF IInv, OpenHasRun
    <3>2. CASE run[q].pc = "failed"
      <4>1. Failed(t) # {}
        BY <3>1, <3>2 DEF Failed, RunsOn
      <4>. QED  BY <2>1, <4>1, FailedStays DEF Prompted, IInv
    <3>3. CASE run[q].pc # "failed"
      <4>1. Busy(t)
        BY <3>1, <3>3 DEF Busy, Active
      <4>. QED  BY <2>1, <4>1 DEF Prompted
    <3>. QED  BY <3>2, <3>3
  <2>. QED  BY <2>1, <2>2, <2>3
<1>3. /\ \A i \in DOMAIN old : /\ run'[old[i]].pc # "idle"
                               /\ run'[old[i]].of = t
                               /\ run'[old[i]].via = "thread"
                               /\ Prompted(run[old[i]])'
      /\ NoneTwice(old)
      /\ \A i \in DOMAIN old : old[i] # r
  <2>1. Given(t, old) /\ NoneTwice(old)
    BY <1>0 DEF IInv, AnswersUsable
  <2>2. \A i \in DOMAIN old : old[i] # r
    BY <1>1, <2>1 DEF Given, Idle
  <2>. QED  BY <1>1, <2>1, <2>2, GivenStays DEF IInv
<1>4. /\ DOMAIN new = 1..(Len(old) + 1) /\ DOMAIN old = 1..Len(old) /\ Len(old) \in Nat
      /\ \A i \in DOMAIN old : new[i] = old[i]
      /\ new[Len(old) + 1] = r
  BY <1>1
<1>. HIDE DEF new
<1>5. Given(t, run[r].answers)'
  <2>. SUFFICES ASSUME NEW i \in DOMAIN new
                PROVE  /\ run'[new[i]].pc # "idle"
                       /\ run'[new[i]].of = t
                       /\ run'[new[i]].via = "thread"
                       /\ Prompted(run[new[i]])'
    BY <1>2 DEF Given
  <2>1. CASE i \in DOMAIN old
    BY <2>1, <1>3, <1>4
  <2>2. CASE i = Len(old) + 1
    BY <2>2, <1>2, <1>4
  <2>. QED  BY <2>1, <2>2, <1>4
<1>6. NoneTwice(run[r].answers)'
  <2>. SUFFICES ASSUME NEW i \in DOMAIN new, NEW j \in DOMAIN new, i # j
                PROVE  new[i] # new[j]
    BY <1>2 DEF NoneTwice
  <2>1. CASE i \in DOMAIN old /\ j \in DOMAIN old
    <3>1. old[i] # old[j]
      BY <2>1, <1>3 DEF NoneTwice
    <3>. QED  BY <2>1, <3>1, <1>4
  <2>2. CASE i \in DOMAIN old /\ j = Len(old) + 1
    BY <2>2, <1>3, <1>4
  <2>3. CASE j \in DOMAIN old /\ i = Len(old) + 1
    BY <2>3, <1>3, <1>4
  <2>4. i \in DOMAIN old \/ i = Len(old) + 1
    BY <1>4
  <2>5. j \in DOMAIN old \/ j = Len(old) + 1
    BY <1>4
  <2>. QED  BY <2>1, <2>2, <2>3, <2>4, <2>5
<1>. QED  BY <1>5, <1>6

\* The answers of the runs stay usable.
LEMMA RunAnswersStep ==
  ASSUME IInv, [Next]_vars, NEW q \in Runs, run'[q].pc # "idle"
  PROVE  Given(run[q].of, run[q].answers)' /\ NoneTwice(run[q].answers)'
<1>1. CASE run[q].pc # "idle"
  <2>1. run[q] \in Run
    BY <1>1, RunShape DEF IInv
  <2>2. Given(run[q].of, run[q].answers) /\ NoneTwice(run[q].answers)
    BY <1>1 DEF IInv, AnswersUsable
  <2>3. run'[q].of = run[q].of /\ run'[q].answers = run[q].answers
    BY <1>1, Kept DEF IInv
  <2>4. run[q].answers \in Seq(Runs) /\ run[q].of \in Threads
    BY <2>1 DEF Run
  <2>5. Given(run[q].of, run[q].answers)'
    BY <2>2, <2>3, <2>4, GivenStays DEF IInv, Given
  <2>6. NoneTwice(run[q].answers)'
    BY <2>2, <2>3 DEF NoneTwice
  <2>. QED  BY <2>5, <2>6
<1>2. CASE run[q].pc = "idle"
  <2>0. run \in [Runs -> Run \cup {Idle}]
    BY DEF IInv, TypeOK
  <2>1. PICK t \in Threads : Invoke(q, t)
    <3>1. ~UNCHANGED vars
      BY <1>2 DEF vars
    <3>2. ASSUME NEW r \in Runs, Execute(r) PROVE FALSE
      BY <3>2, <1>2, <2>0 DEF Execute, Compute, Pass, Interrupt, WriteRow, WriteRaises, Finish, AtStep, Advance
    <3>3. ASSUME NEW r \in Runs, Fail(r) PROVE FALSE
      BY <3>3, <1>2, <2>0 DEF Fail, Active
    <3>4. ASSUME NEW r \in Runs, NEW t \in Threads, Invoke(r, t) PROVE r = q
      BY <3>4, <1>2, <2>0 DEF Invoke, Start, ResumeThread, ResumeAgent, NewTurn, Begin
    <3>. QED  BY <3>1, <3>2, <3>3, <3>4 DEF Next
  <2>2. Start(q, t) \/ ResumeThread(q, t) \/ ResumeAgent(q, t)
    BY <2>1 DEF Invoke
  <2>3. ASSUME ResumeThread(q, t)
        PROVE  Given(run[q].of, run[q].answers)' /\ NoneTwice(run[q].answers)'
    <3>1. Given(t, run[q].answers)' /\ NoneTwice(run[q].answers)'
      BY <2>3, AppendUsable
    <3>2. run'[q].of = t
      BY <2>3, <2>0 DEF ResumeThread, Begin
    <3>. QED  BY <3>1, <3>2 DEF Given
  <2>4. CASE run'[q].answers = << >>
    BY <2>4 DEF Given, NoneTwice
  <2>5. ASSUME NEW via, NewTurn(q, t, via) PROVE run'[q].answers = << >>
    BY <2>5, <2>0 DEF NewTurn, Begin
  <2>. QED  BY <2>2, <2>3, <2>4, <2>5 DEF Start, ResumeAgent
<1>. QED  BY <1>1, <1>2

\* The answers stored with the threads stay usable.
LEMMA ThreadAnswersStep ==
  ASSUME IInv, [Next]_vars, NEW t \in Threads
  PROVE  Given(t, thread[t].answers)' /\ NoneTwice(thread[t].answers)'
<1>0. thread \in [Threads -> Thread] /\ thread[t].answers \in Seq(Runs)
  BY DEF IInv, TypeOK, Thread
<1>1. CASE thread'[t].answers = thread[t].answers
  <2>1. Given(t, thread[t].answers) /\ NoneTwice(thread[t].answers)
    BY DEF IInv, AnswersUsable
  <2>. QED  BY <1>0, <1>1, <2>1, GivenStays DEF IInv, Given, NoneTwice
<1>2. CASE thread'[t].answers = << >>
  BY <1>2 DEF Given, NoneTwice
<1>3. ASSUME NEW r \in Runs, run[r].pc # "idle", run[r].of = t,
             thread'[t].answers = run[r].answers
      PROVE  Given(t, thread[t].answers)' /\ NoneTwice(thread[t].answers)'
  <2>1. run[r].answers \in Seq(Runs)
    BY <1>3, RunShape DEF IInv, Run
  <2>2. Given(t, run[r].answers) /\ NoneTwice(run[r].answers)
    BY <1>3 DEF IInv, AnswersUsable
  <2>. QED  BY <1>3, <2>1, <2>2, GivenStays DEF IInv, Given, NoneTwice
<1>4. \/ thread'[t].answers = thread[t].answers
      \/ thread'[t].answers = << >>
      \/ \E r \in Runs : run[r].pc # "idle" /\ run[r].of = t /\ thread'[t].answers = run[r].answers
  <2>1. CASE UNCHANGED vars
    BY <2>1 DEF vars
  <2>2. ASSUME NEW r \in Runs, NEW u \in Threads, Invoke(r, u)
        PROVE  thread'[t].answers = thread[t].answers \/ thread'[t].answers = << >>
    <3>1. ASSUME NEW via, NewTurn(r, u, via)
          PROVE  thread'[t].answers = thread[t].answers \/ thread'[t].answers = << >>
      BY <3>1, <1>0 DEF NewTurn, Checkpoint
    <3>. QED  BY <2>2, <3>1 DEF Invoke, Start, ResumeThread, ResumeAgent
  <2>3. ASSUME NEW r \in Runs, Interrupt(r)
        PROVE  \/ thread'[t].answers = thread[t].answers
               \/ run[r].pc # "idle" /\ run[r].of = t /\ thread'[t].answers = run[r].answers
    BY <2>3, <1>0 DEF Interrupt, AtStep, Checkpoint
  <2>4. ASSUME NEW r \in Runs, Finish(r)
        PROVE  thread'[t].answers = thread[t].answers \/ thread'[t].answers = << >>
    BY <2>4, <1>0 DEF Finish, Checkpoint
  <2>5. ASSUME NEW r \in Runs, Execute(r), ~Interrupt(r), ~Finish(r)
        PROVE  thread'[t].answers = thread[t].answers
    BY <2>5 DEF Execute, Compute, Pass, WriteRow, WriteRaises
  <2>6. ASSUME NEW r \in Runs, Fail(r) PROVE thread'[t].answers = thread[t].answers
    BY <2>6 DEF Fail
  <2>. QED  BY <2>1, <2>2, <2>3, <2>4, <2>5, <2>6 DEF Next
<1>. QED  BY <1>1, <1>2, <1>3, <1>4

\* A run only passes questions it has the answer to.
LEMMA AsksPassedStep ==
  ASSUME IInv, [Next]_vars, TypeOK'
  PROVE  AsksPassed'
<1>. SUFFICES ASSUME NEW q \in Runs, run'[q].pc # "idle"
              PROVE  /\ run'[q].pc = "computing" => run'[q].at = 1
                     /\ \A j \in DOMAIN RunScript(q)' :
                          j < run'[q].at /\ RunScript(q)'[j].op = "ask" =>
                            Len(run'[q].answers) >= RunScript(q)'[j].needs
  BY DEF AsksPassed
<1>. DEFINE Good == /\ run'[q].pc = "computing" => run'[q].at = 1
                    /\ \A j \in DOMAIN RunScript(q)' :
                         j < run'[q].at /\ RunScript(q)'[j].op = "ask" =>
                           Len(run'[q].answers) >= RunScript(q)'[j].needs
<1>0. run \in [Runs -> Run \cup {Idle}] /\ TypeOK
  BY DEF IInv, TypeOK
<1>1. RunScript(q)' \in Seq(Step)
  <2>1. run'[q] \in Run
    BY DEF TypeOK, Idle
  <2>2. run'[q].of \in Threads /\ run'[q].content \in Contents \cup {Nothing}
    BY <2>1 DEF Run
  <2>3. AgentOf[run'[q].of] \in Agents
    BY <2>2, ReplayConstants
  <2>. QED  BY <2>2, <2>3, ScriptShape DEF RunScript
<1>2. CASE run'[q].at = 1
  <2>1. \A j \in DOMAIN RunScript(q)' : ~(j < 1)
    BY <1>1
  <2>. QED  BY <1>2, <2>1
<1>3. ASSUME run[q].pc # "idle", run'[q].at = run[q].at, run'[q].content = run[q].content,
             run'[q].pc # "computing" \/ run'[q].pc = run[q].pc
      PROVE  Good
  <2>1. run'[q].of = run[q].of /\ run'[q].answers = run[q].answers
    BY <1>3, Kept, <1>0
  <2>2. RunScript(q)' = RunScript(q)
    BY <1>3, <2>1 DEF RunScript
  <2>. QED  BY <1>3, <2>1, <2>2 DEF IInv, AsksPassed
<1>4. ASSUME NEW r \in Runs, NEW t \in Threads, Invoke(r, t) PROVE Good
  <2>1. CASE q # r
    <3>1. run'[q] = run[q]
      BY <2>1, <1>4, <1>0 DEF Invoke, Start, ResumeThread, ResumeAgent, NewTurn, Begin
    <3>. QED  BY <3>1, <1>3
  <2>2. CASE q = r
    <3>1. run'[q].at = 1
      BY <2>2, <1>4, <1>0 DEF Invoke, Start, ResumeThread, ResumeAgent, NewTurn, Begin
    <3>. QED  BY <3>1, <1>2
  <2>. QED  BY <2>1, <2>2
<1>5. ASSUME NEW r \in Runs, NEW c \in Contents \cup {Nothing}, Compute(r, c) PROVE Good
  <2>0. run[r] \in Run
    BY <1>5, <1>0, RunShape DEF Compute
  <2>1. CASE q # r
    <3>1. run'[q] = run[q]
      BY <2>1, <1>5, <1>0 DEF Compute
    <3>. QED  BY <3>1, <1>3
  <2>2. CASE q = r
    <3>1. run[r].at = 1
      BY <1>5 DEF Compute, IInv, AsksPassed
    <3>2. run'[r].at = run[r].at
      BY <1>5, <2>0, <1>0 DEF Compute, Run
    <3>. QED  BY <2>2, <3>1, <3>2, <1>2
  <2>. QED  BY <2>1, <2>2
<1>6. ASSUME NEW r \in Runs, run[r].pc = "running", Advance(r),
             RunScript(r)[run[r].at].op = "ask" =>
               Len(run[r].answers) >= RunScript(r)[run[r].at].needs
      PROVE  Good
  <2>0. run[r] \in Run
    BY <1>6, <1>0, RunShape
  <2>1. CASE q # r
    <3>1. run'[q] = run[q]
      BY <2>1, <1>6, <1>0 DEF Advance
    <3>. QED  BY <3>1, <1>3
  <2>2. CASE q = r
    <3>1. /\ run'[r].at = run[r].at + 1 /\ run'[r].content = run[r].content
          /\ run'[r].of = run[r].of /\ run'[r].answers = run[r].answers
          /\ run'[r].pc = "running" /\ run[r].at \in Nat
      BY <1>6, <2>0, <1>0 DEF Advance, Run
    <3>2. RunScript(r)' = RunScript(r)
      BY <3>1 DEF RunScript
    <3>3. ASSUME NEW j \in DOMAIN RunScript(r), j < run[r].at + 1, RunScript(r)[j].op = "ask"
          PROVE  Len(run[r].answers) >= RunScript(r)[j].needs
      <4>1. j \in Nat
        BY <1>1, <2>2, <3>2
      <4>2. CASE j < run[r].at
        BY <3>3, <4>2, <1>6 DEF IInv, AsksPassed
      <4>3. CASE j = run[r].at
        BY <3>3, <4>3, <1>6
      <4>. QED  BY <3>1, <3>3, <4>1, <4>2, <4>3
    <3>. QED  BY <2>2, <3>1, <3>2, <3>3
  <2>. QED  BY <2>1, <2>2
<1>7. ASSUME NEW r \in Runs, NEW pc \in {"asked", "ended", "failed"}, run[r].pc # "idle",
             run' = [run EXCEPT ![r].pc = pc]
      PROVE  Good
  <2>1. CASE q # r
    <3>1. run'[q] = run[q]
      BY <2>1, <1>7, <1>0
    <3>. QED  BY <3>1, <1>3
  <2>2. CASE q = r
    <3>1. run[r] \in Run
      BY <1>7, <1>0, RunShape
    <3>2. run'[r].at = run[r].at /\ run'[r].content = run[r].content /\ run'[r].pc = pc
      BY <1>7, <3>1, <1>0 DEF Run
    <3>. QED  BY <2>2, <3>2, <1>3, <1>7
  <2>. QED  BY <2>1, <2>2
<1>8. CASE UNCHANGED vars
  BY <1>8, <1>3 DEF vars
<1>9. ASSUME NEW r \in Runs, Execute(r) PROVE Good
  <2>1. CASE \E c \in Contents \cup {Nothing} : Compute(r, c)
    BY <2>1, <1>5
  <2>2. CASE Pass(r)
    BY <2>2, <1>6 DEF Pass, AtStep, Answered
  <2>3. CASE Interrupt(r)
    BY <2>3, <1>7 DEF Interrupt, AtStep
  <2>4. CASE WriteRow(r)
    BY <2>4, <1>6 DEF WriteRow, AtStep
  <2>5. CASE Finish(r)
    BY <2>5, <1>7 DEF Finish
  <2>6. CASE WriteRaises(r)
    BY <2>6, <1>7 DEF WriteRaises, AtStep
  <2>. QED  BY <1>9, <2>1, <2>2, <2>3, <2>4, <2>5, <2>6 DEF Execute
<1>10. ASSUME NEW r \in Runs, Fail(r) PROVE Good
  BY <1>10, <1>7 DEF Fail, Active
<1>. QED  BY <1>4, <1>8, <1>9, <1>10 DEF Next

\* A row is written with the answers it reports.
LEMMA SignedStep ==
  ASSUME IInv, [Next]_vars
  PROVE  SignedByAnswer'
<1>. DEFINE Signed(x) == Len(x.answers) >= x.needs /\ Given(x.of, x.answers) /\ NoneTwice(x.answers)
<1>1. ASSUME NEW x \in rows PROVE Signed(x)'
  <2>1. x.answers \in Seq(Runs) /\ x.of \in Threads
    BY DEF IInv, TypeOK, Recorded
  <2>2. Len(x.answers) >= x.needs /\ Given(x.of, x.answers) /\ NoneTwice(x.answers)
    BY SignedMeans DEF IInv
  <2>. QED  BY <2>1, <2>2, GivenStays DEF IInv, Given, NoneTwice
<1>2. ASSUME NEW r \in Runs, WriteRow(r) \/ WriteRaises(r), NEW x, x = Row(r) PROVE Signed(x)'
  <2>. DEFINE s == RunScript(r)
  <2>. DEFINE k == run[r].at
  <2>1. run[r].pc # "idle" /\ run[r] \in Run
    BY <1>2, RunShape DEF WriteRow, WriteRaises, AtStep, IInv
  <2>2. s \in Seq(Step) /\ AsksFirst(s) /\ k \in DOMAIN s /\ s[k].op = "write"
    BY <1>2, <2>1, RunScriptShape DEF WriteRow, WriteRaises, AtStep, IInv, Run
  <2>. HIDE DEF s, k
  <2>3. s[k].needs \in Nat /\ Len(run[r].answers) \in Nat
    <3>1. s[k] \in Step
      BY <2>2
    <3>2. run[r].answers \in Seq(Runs)
      BY <2>1 DEF Run
    <3>. QED  BY <3>1, <3>2 DEF Step
  <2>4. Len(run[r].answers) >= s[k].needs
    <3>1. CASE s[k].needs = 0
      BY <2>3, <3>1
    <3>2. CASE s[k].needs > 0
      <4>1. PICK j \in 1..(k - 1) : s[j].op = "ask" /\ s[j].needs = s[k].needs
        BY <2>2, <3>2 DEF AsksFirst
      <4>2. j \in DOMAIN s /\ j < k
        BY <2>2
      <4>. QED  BY <2>1, <4>1, <4>2 DEF IInv, AsksPassed, s, k
    <3>. QED  BY <2>3, <3>1, <3>2
  <2>5. x.of = run[r].of /\ x.answers = run[r].answers /\ x.needs = s[k].needs
    BY <1>2 DEF Row, s, k
  <2>6. Given(run[r].of, run[r].answers) /\ NoneTwice(run[r].answers)
    BY <2>1 DEF IInv, AnswersUsable
  <2>7. run[r].of \in Threads /\ run[r].answers \in Seq(Runs)
    BY <2>1 DEF Run
  <2>8. Given(x.of, x.answers)'
    BY <2>5, <2>6, <2>7, GivenStays DEF IInv, Given
  <2>9. NoneTwice(x.answers)'
    BY <2>5, <2>6 DEF NoneTwice
  <2>. QED  BY <2>4, <2>5, <2>8, <2>9
<1>3. \A x \in rows' : x \in rows \/ \E r \in Runs : (WriteRow(r) \/ WriteRaises(r)) /\ x = Row(r)
  <2>1. ASSUME NEW r \in Runs, NEW t \in Threads, Invoke(r, t) PROVE rows' = rows
    BY <2>1 DEF Invoke, Start, ResumeThread, ResumeAgent, NewTurn
  <2>2. ASSUME NEW r \in Runs, Execute(r), ~WriteRow(r), ~WriteRaises(r) PROVE rows' = rows
    BY <2>2 DEF Execute, Compute, Pass, Interrupt, Finish
  <2>3. ASSUME NEW r \in Runs, WriteRow(r) \/ WriteRaises(r) PROVE rows' = rows \cup {Row(r)}
    BY <2>3 DEF WriteRow, WriteRaises
  <2>4. ASSUME NEW r \in Runs, Fail(r) PROVE rows' = rows
    BY <2>4 DEF Fail
  <2>. QED  BY <2>1, <2>2, <2>3, <2>4 DEF Next, vars
<1>4. \A x \in rows' : Signed(x)'
  BY <1>1, <1>2, <1>3
<1>. QED  BY <1>4 DEF SignedByAnswer, Given, NoneTwice

LEMMA IInvNext == IInv /\ [Next]_vars => IInv'
<1>. SUFFICES ASSUME IInv, [Next]_vars PROVE IInv'
  OBVIOUS
<1>1. TypeOK'
  BY TypeNext DEF IInv
<1>2. AsksPassed'
  BY <1>1, AsksPassedStep
<1>3. AnswersUsable'
  BY ThreadAnswersStep, RunAnswersStep DEF AnswersUsable
<1>4. SignedByAnswer'
  BY SignedStep
<1>5. OpenHasRun'
  BY OpenHasRunStep DEF IInv
<1>. QED  BY <1>1, <1>2, <1>3, <1>4, <1>5 DEF IInv

\* CR-02 for every agent, any number of runs at once, failures and replays: a
\* row that reports an answer was written with that answer, given to its thread,
\* and not before a question of the thread was put unless runs of the thread
\* overlapped or one had failed.
THEOREM AnswersAtHand == Spec => []SignedByAnswer
<1>1. Spec => []IInv
  BY IInvInit, IInvNext, PTL DEF Spec
<1>2. IInv => SignedByAnswer
  BY DEF IInv
<1>. QED  BY <1>1, <1>2, PTL

-----------------------------------------------------------------------------
(*************************************************************************)
(* RowsExplained: what the rows of a thread tell of its runs, and how    *)
(* many copies of a row there may be.                                    *)
(*************************************************************************)

-----------------------------------------------------------------------------
(* The rows of a run tell how far it came *)

Executing(r) == run[r].pc \notin {"idle", "computing"}

Wrote(r, kind, needs) == \E x \in rows : x.by = r /\ x.kind = kind /\ x.needs = needs

\* Row x carries what its run was told and found, and the run is past the step
\* that wrote it, or stopped there.
RowOf(x, r) ==
  /\ Executing(r)
  /\ x.of = run[r].of /\ x.answers = run[r].answers /\ x.content = run[r].content
  /\ \E i \in DOMAIN RunScript(r) :
       /\ i < run[r].at \/ (i = run[r].at /\ run[r].pc = "failed")
       /\ RunScript(r)[i].op = "write"
       /\ RunScript(r)[i].kind = x.kind
       /\ RunScript(r)[i].needs = x.needs

\* Whatever a run has passed is written.
PassedWritten(r) ==
  \A i \in DOMAIN RunScript(r) : i < run[r].at /\ RunScript(r)[i].op = "write" =>
    Wrote(r, RunScript(r)[i].kind, RunScript(r)[i].needs)

Tells(r) ==
  /\ \A x \in rows : x.by = r => RowOf(x, r)
  /\ Executing(r) => PassedWritten(r)
  /\ run[r].pc = "ended" => run[r].at > Len(RunScript(r))

RowsTell == \A r \in Runs : Tells(r)

\* A run that does not move, and writes no row, tells what it told.
LEMMA TellsStays ==
  ASSUME NEW q \in Runs, Tells(q), run'[q] = run[q], rows \subseteq rows',
         \A x \in rows' : x.by = q => x \in rows
  PROVE  Tells(q)'
<1>1. RunScript(q)' = RunScript(q) /\ (Executing(q)' <=> Executing(q))
  BY DEF RunScript, Executing
<1>2. ASSUME NEW x \in rows', x.by = q
      PROVE  RowOf(x, q)'
  <2>1. RowOf(x, q)
    BY <1>2 DEF Tells
  <2> QED BY <1>1, <2>1 DEF RowOf
<1>3. Executing(q)' => PassedWritten(q)'
  BY <1>1 DEF Tells, PassedWritten, Wrote
<1>4. (run[q].pc = "ended" => run[q].at > Len(RunScript(q)))'
  BY <1>1 DEF Tells
<1> QED BY <1>2, <1>3, <1>4 DEF Tells

\* The row a run writes is one of its own.
LEMMA RowIsOwn ==
  ASSUME TypeOK, NEW r \in Runs, AtStep(r, "write")
  PROVE  /\ Row(r).by = r /\ Row(r).of = run[r].of
         /\ Row(r).answers = run[r].answers /\ Row(r).content = run[r].content
         /\ Row(r).kind = RunScript(r)[run[r].at].kind
         /\ Row(r).needs = RunScript(r)[run[r].at].needs
BY DEF Row

\* A running run that stops, passes a step, or writes one.
LEMMA TellsMoves ==
  ASSUME TypeOK, NEW r \in Runs, Tells(r), run[r].pc = "running",
         NEW pc \in {"running", "asked", "ended", "failed"}, NEW at,
         RunBecomes(r, pc, at, run[r].content),
         \/ rows' = rows /\ at = run[r].at
         \/ rows' = rows /\ at = run[r].at + 1 /\ AtStep(r, "ask")
         \/ rows' = rows \cup {Row(r)} /\ at = run[r].at + 1 /\ AtStep(r, "write")
         \/ rows' = rows \cup {Row(r)} /\ at = run[r].at /\ AtStep(r, "write")
              /\ pc = "failed",
         pc = "ended" => at > Len(RunScript(r))
  PROVE  Tells(r)'
<1> DEFINE k == run[r].at
           s == RunScript(r)
<1>1. /\ s' = s /\ Executing(r) /\ Executing(r)'
      /\ run'[r].at = at /\ run'[r].pc = pc
      /\ run'[r].of = run[r].of /\ run'[r].answers = run[r].answers
      /\ run'[r].content = run[r].content
  BY DEF RunBecomes, RunScript, Executing
<1>2. s \in Seq(Step) /\ k \in Nat /\ Len(s) \in Nat /\ DOMAIN s = 1..Len(s)
  BY RunScriptShape DEF RunBecomes, Run
<1> HIDE DEF s, k
<1>3. (at = k \/ at = k + 1) /\ at >= k /\ rows \subseteq rows'
  BY <1>2 DEF k
<1>4. ASSUME NEW x \in rows, x.by = r
      PROVE  RowOf(x, r)'
  <2>1. RowOf(x, r)
    BY <1>4 DEF Tells
  <2>2. PICK i \in DOMAIN s :
          i < k /\ s[i].op = "write" /\ s[i].kind = x.kind /\ s[i].needs = x.needs
    BY <2>1 DEF RowOf, s, k
  <2>3. i < at
    BY <1>2, <1>3, <2>2
  <2> QED BY <1>1, <2>1, <2>2, <2>3 DEF RowOf, s
<1>5. ASSUME NEW x, x = Row(r), AtStep(r, "write"), at = k + 1 \/ (at = k /\ pc = "failed")
      PROVE  RowOf(x, r)'
  <2>1. k \in DOMAIN s /\ s[k].op = "write"
    BY <1>2, <1>5 DEF AtStep, s, k, RunBecomes, Run
  <2>2. k < at \/ (k = at /\ pc = "failed")
    BY <1>2, <1>5
  <2>3. /\ x.of = run[r].of /\ x.answers = run[r].answers /\ x.content = run[r].content
        /\ x.kind = s[k].kind /\ x.needs = s[k].needs
    BY <1>5, RowIsOwn DEF s, k
  <2> QED BY <1>1, <2>1, <2>2, <2>3 DEF RowOf, s
<1>6. ASSUME NEW x \in rows', x.by = r
      PROVE  RowOf(x, r)'
  <2>1. CASE x \in rows
    BY <1>4, <1>6, <2>1
  <2>2. CASE x \notin rows
    BY <1>5, <1>6, <2>2 DEF k
  <2> QED BY <2>1, <2>2
<1>7. PassedWritten(r)'
  <2> SUFFICES ASSUME NEW i \in DOMAIN s, i < at, s[i].op = "write"
               PROVE  Wrote(r, s[i].kind, s[i].needs)'
    BY <1>1 DEF PassedWritten, s
  <2>1. CASE i < k
    <3>1. Wrote(r, s[i].kind, s[i].needs)
      BY <1>1, <2>1 DEF Tells, PassedWritten, s, k
    <3> QED BY <1>1, <1>3, <3>1 DEF Wrote
  <2>2. CASE i = k /\ at = k + 1
    <3>1. AtStep(r, "write") /\ Row(r) \in rows'
      BY <2>2 DEF AtStep, s, k
    <3>2. Row(r).by = r /\ Row(r).kind = s[i].kind /\ Row(r).needs = s[i].needs
      BY <2>2, <3>1, RowIsOwn DEF s, k
    <3> QED BY <1>1, <3>1, <3>2 DEF Wrote
  <2>3. i < k \/ (i = k /\ at = k + 1)
    BY <1>2, <1>3
  <2> QED BY <2>1, <2>2, <2>3
<1>8. (run[r].pc = "ended" => run[r].at > Len(RunScript(r)))'
  BY <1>1 DEF s
<1> QED BY <1>6, <1>7, <1>8 DEF Tells

\* A run that has not found anything yet has no row.
LEMMA TellsNothing ==
  ASSUME NEW r \in Runs, Tells(r), ~Executing(r), UNCHANGED rows,
         run'[r].at = 1, run'[r].pc # "ended", RunScript(r)' \in Seq(Step)
  PROVE  Tells(r)'
<1>1. \A x \in rows' : x.by # r
  BY DEF Tells, RowOf
<1>2. \A i \in DOMAIN RunScript(r)' : ~(i < 1)
  OBVIOUS
<1>3. PassedWritten(r)'
  BY <1>2 DEF PassedWritten
<1> QED BY <1>1, <1>3 DEF Tells

LEMMA RowsTellStep ==
  ASSUME IInv, RowsTell, [Next]_vars
  PROVE  RowsTell'
<1> SUFFICES ASSUME NEW q \in Runs
             PROVE  Tells(q)'
  BY DEF RowsTell
<1>0. TypeOK /\ TypeOK' /\ Tells(q)
  BY TypeNext DEF IInv, RowsTell
<1>1. CASE UNCHANGED vars
  BY <1>0, <1>1, TellsStays DEF vars
<1>2. ASSUME NEW r \in Runs, \A p \in Runs \ {r} : run'[p] = run[p],
             UNCHANGED rows \/ (AtStep(r, "write") /\ rows' = rows \cup {Row(r)}),
             q # r
      PROVE  Tells(q)'
  <2>1. rows \subseteq rows' /\ \A x \in rows' : x.by = q => x \in rows
    BY <1>0, <1>2, RowIsOwn
  <2> QED BY <1>0, <1>2, <2>1, TellsStays
<1>3. ASSUME run'[q].pc # "idle"
      PROVE  RunScript(q)' \in Seq(Step)
  <2>1. run'[q] \in Run
    BY <1>0, <1>3 DEF TypeOK, Idle
  <2>2. run'[q].of \in Threads /\ run'[q].content \in Contents \cup {Nothing}
    BY <2>1 DEF Run
  <2>3. AgentOf[run'[q].of] \in Agents
    BY <2>2, ReplayConstants
  <2> QED BY <2>2, <2>3, ScriptShape DEF RunScript
<1>4. ASSUME NEW r \in Runs, NEW t \in Threads, Invoke(r, t)
      PROVE  Tells(q)'
  <2>1. PICK via \in {"start", "thread", "agent"}, answers \in Seq(Runs) :
          RunBegins(r, t, via, answers) /\ UNCHANGED rows
    BY <1>0, <1>4, InvokeEffect
  <2>2. CASE q # r
    BY <1>2, <2>1, <2>2 DEF RunBegins
  <2>3. CASE q = r
    BY <1>0, <1>3, <2>1, <2>3, TellsNothing DEF RunBegins, Executing
  <2> QED BY <2>2, <2>3
<1>5. ASSUME NEW r \in Runs, NEW c \in Contents \cup {Nothing}, Compute(r, c)
      PROVE  Tells(q)'
  <2>1. RunBecomes(r, "running", run[r].at, c) /\ UNCHANGED rows
    BY <1>0, <1>5, ComputeEffect
  <2>2. run[r].pc = "computing" /\ run[r].at = 1
    BY <1>5 DEF Compute, IInv, AsksPassed
  <2>3. CASE q # r
    BY <1>2, <2>1, <2>3 DEF RunBecomes
  <2>4. CASE q = r
    BY <1>0, <1>3, <2>1, <2>2, <2>4, TellsNothing DEF RunBecomes, Executing
  <2> QED BY <2>3, <2>4
<1>6. ASSUME NEW r \in Runs, run[r].pc = "running",
             NEW pc \in {"running", "asked", "ended", "failed"}, NEW at,
             RunBecomes(r, pc, at, run[r].content),
             \/ rows' = rows /\ at = run[r].at
             \/ rows' = rows /\ at = run[r].at + 1 /\ AtStep(r, "ask")
             \/ rows' = rows \cup {Row(r)} /\ at = run[r].at + 1 /\ AtStep(r, "write")
             \/ rows' = rows \cup {Row(r)} /\ at = run[r].at /\ AtStep(r, "write")
                  /\ pc = "failed",
             pc = "ended" => at > Len(RunScript(r))
      PROVE  Tells(q)'
  <2>1. CASE q # r
    BY <1>2, <1>6, <2>1 DEF RunBecomes
  <2>2. CASE q = r
    BY <1>0, <1>6, <2>2, TellsMoves
  <2> QED BY <2>1, <2>2
<1>7. ASSUME NEW r \in Runs, Pass(r) \/ Interrupt(r) \/ WriteRow(r) \/ WriteRaises(r)
                             \/ Finish(r)
      PROVE  Tells(q)'
  <2>1. run[r].pc = "running"
    BY <1>7 DEF Pass, Interrupt, WriteRow, WriteRaises, Finish, AtStep
  <2>2. CASE Pass(r)
    BY <1>0, <1>6, <2>1, <2>2, PassEffect DEF Pass
  <2>3. CASE Interrupt(r)
    BY <1>0, <1>6, <2>1, <2>3, InterruptEffect
  <2>4. CASE WriteRow(r)
    BY <1>0, <1>6, <2>1, <2>4, WriteRowEffect DEF WriteRow
  <2>5. CASE WriteRaises(r)
    BY <1>0, <1>6, <2>1, <2>5, WriteRaisesEffect DEF WriteRaises
  <2>6. CASE Finish(r)
    BY <1>0, <1>6, <2>1, <2>6, FinishEffect DEF Finish
  <2> QED BY <1>7, <2>2, <2>3, <2>4, <2>5, <2>6
<1>8. ASSUME NEW r \in Runs, Fail(r)
      PROVE  Tells(q)'
  <2>1. RunBecomes(r, "failed", run[r].at, run[r].content) /\ UNCHANGED rows
    BY <1>0, <1>8, FailEffect
  <2>2. CASE run[r].pc = "running"
    BY <1>6, <2>1, <2>2
  <2>3. CASE run[r].pc = "computing"
    <3>1. run[r].at = 1
      BY <2>3 DEF IInv, AsksPassed
    <3>2. CASE q # r
      BY <1>2, <2>1, <3>2 DEF RunBecomes
    <3>3. CASE q = r
      BY <1>0, <1>3, <2>1, <2>3, <3>1, <3>3, TellsNothing DEF RunBecomes, Executing
    <3> QED BY <3>2, <3>3
  <2> QED BY <1>8, <2>2, <2>3 DEF Fail, Active
<1> QED BY <1>1, <1>4, <1>5, <1>7, <1>8 DEF Next, Execute

LEMMA RowsTellAlways == Spec => [](IInv /\ RowsTell)
<1>1. Init => RowsTell
  BY DEF Init, Idle, RowsTell, Tells, Executing
<1>2. IInv /\ RowsTell /\ [Next]_vars => RowsTell'
  BY RowsTellStep
<1> QED BY <1>1, <1>2, IInvInit, IInvNext, PTL DEF Spec

\* A handover is the only script with a draft, and its sign-offs come first.
LEMMA DraftLast ==
  ASSUME NEW a \in Agents, NEW c \in Contents \cup {Nothing},
         NEW i \in DOMAIN Script(a, c), Script(a, c)[i].kind = "HANDOVER_DRAFT",
         NEW n \in 1..2
  PROVE  \E j \in DOMAIN Script(a, c) :
           /\ j < i /\ Script(a, c)[j].op = "write"
           /\ Script(a, c)[j].kind = "HANDOVER_SIGNOFF" /\ Script(a, c)[j].needs = n
<1>1. \A s \in {SopScript, PassedScript, FailedScript, << >>} :
        \A m \in DOMAIN s : s[m].kind # "HANDOVER_DRAFT"
  BY DEF SopScript, PassedScript, FailedScript, Ask, Write
<1>2. \A s \in {RcaScript, PurchaseScript, EnergyScript, DemandScript} :
        \A m \in DOMAIN s : s[m].kind # "HANDOVER_DRAFT"
  BY DEF RcaScript, PurchaseScript, EnergyScript, DemandScript, Ask, Write
<1>3. Script(a, c) = HandoverScript
  BY <1>1, <1>2 DEF Script, Agents
<1>4. i = 5
  BY <1>3 DEF HandoverScript, Ask, Write
<1>5. CASE n = 1
  <2>1. 2 \in DOMAIN HandoverScript /\ HandoverScript[2] = Write("HANDOVER_SIGNOFF", 1)
    BY DEF HandoverScript
  <2> QED BY <1>3, <1>4, <1>5, <2>1 DEF Write
<1>6. CASE n = 2
  <2>1. 4 \in DOMAIN HandoverScript /\ HandoverScript[4] = Write("HANDOVER_SIGNOFF", 2)
    BY DEF HandoverScript
  <2> QED BY <1>3, <1>4, <1>6, <2>1 DEF Write
<1> QED BY <1>5, <1>6

LEMMA RowsTellFinished ==
  ASSUME TypeOK, RowsTell
  PROVE  FinishedRecorded
<1> SUFFICES ASSUME NEW r \in Runs, run[r].pc = "ended",
                    NEW i \in DOMAIN RunScript(r), RunScript(r)[i].op = "write"
             PROVE  \E x \in rows : /\ x.by = r
                                    /\ x.kind = RunScript(r)[i].kind
                                    /\ x.needs = RunScript(r)[i].needs
  BY DEF FinishedRecorded
<1>1. run[r] \in Run /\ RunScript(r) \in Seq(Step)
  BY RunShape, RunScriptShape
<1>2. i < run[r].at
  <2>1. run[r].at > Len(RunScript(r))
    BY DEF RowsTell, Tells
  <2> QED BY <1>1, <2>1 DEF Run
<1> QED BY <1>2 DEF RowsTell, Tells, Executing, PassedWritten, Wrote

\* Whose row a row is.
LEMMA RowOwner ==
  ASSUME TypeOK, RowsTell, NEW x \in rows
  PROVE  /\ x.by \in Runs /\ RowOf(x, x.by) /\ run[x.by].pc # "idle" /\ run[x.by] \in Run
         /\ AgentOf[run[x.by].of] \in Agents
         /\ RunScript(x.by) \in Seq(Step)
<1>1. x.by \in Runs
  BY DEF TypeOK, Recorded
<1>2. RowOf(x, x.by)
  BY <1>1 DEF RowsTell, Tells
<1>3. run[x.by].pc # "idle"
  BY <1>2 DEF RowOf, Executing
<1>4. run[x.by] \in Run /\ RunScript(x.by) \in Seq(Step)
  BY <1>1, <1>3, RunShape, RunScriptShape
<1>5. run[x.by].of \in Threads
  BY <1>4 DEF Run
<1> QED BY <1>1, <1>2, <1>3, <1>4, <1>5, ReplayConstants

LEMMA RowsTellDrafts ==
  ASSUME TypeOK, RowsTell
  PROVE  DraftFullySigned
<1> SUFFICES ASSUME NEW x \in rows, x.kind = "HANDOVER_DRAFT", NEW n \in 1..2
             PROVE  \E y \in rows : /\ y.kind = "HANDOVER_SIGNOFF"
                                    /\ y.needs = n
                                    /\ y.by = x.by
                                    /\ y.content = x.content
                                    /\ y.answers = x.answers
  BY DEF DraftFullySigned
<1> DEFINE r == x.by
           s == RunScript(r)
<1>1. /\ r \in Runs /\ RowOf(x, r) /\ run[r] \in Run /\ s \in Seq(Step)
      /\ AgentOf[run[r].of] \in Agents /\ run[r].content \in Contents \cup {Nothing}
  BY RowOwner DEF Run
<1>2. PICK i \in DOMAIN s : i <= run[r].at /\ s[i].kind = "HANDOVER_DRAFT"
  BY <1>1 DEF RowOf, Run
<1>3. PICK j \in DOMAIN s : /\ j < i /\ s[j].op = "write"
                            /\ s[j].kind = "HANDOVER_SIGNOFF" /\ s[j].needs = n
  BY <1>1, <1>2, DraftLast DEF RunScript
<1>4. i \in Nat /\ j \in Nat /\ run[r].at \in Nat
  BY <1>1, <1>2, <1>3 DEF Run
<1>5. j < run[r].at
  BY <1>2, <1>3, <1>4
<1>6. Wrote(r, "HANDOVER_SIGNOFF", n)
  BY <1>1, <1>3, <1>5 DEF RowsTell, Tells, RowOf, PassedWritten
<1>7. PICK y \in rows : y.by = r /\ y.kind = "HANDOVER_SIGNOFF" /\ y.needs = n
  BY <1>6 DEF Wrote
<1>8. RowOf(y, r)
  BY <1>1, <1>7 DEF RowsTell, Tells
<1> QED BY <1>1, <1>7, <1>8 DEF RowOf

-----------------------------------------------------------------------------
(* Scripts: what a run that wrote a row may still ask *)

\* Only a handover asks again after it wrote a row, and its last question is
\* the second.
LEMMA AsksAgain ==
  ASSUME NEW a \in Agents, NEW c \in Contents \cup {Nothing},
         NEW i \in DOMAIN Script(a, c), NEW j \in DOMAIN Script(a, c), i < j,
         Script(a, c)[i].op = "write", Script(a, c)[j].op = "ask"
  PROVE  a = "shift-handover" /\ Script(a, c)[i].needs = 1 /\ Script(a, c)[j].needs = 2
<1>1. \A s \in {SopScript, PassedScript, FailedScript, << >>} :
        \A m \in DOMAIN s : s[m].op = "ask" => m = 1
  BY DEF SopScript, PassedScript, FailedScript, Ask, Write
<1>2. \A s \in {RcaScript, PurchaseScript, EnergyScript, DemandScript} :
        \A m \in DOMAIN s : s[m].op = "ask" => m = 1
  BY DEF RcaScript, PurchaseScript, EnergyScript, DemandScript, Ask, Write
<1>3. i \in Nat /\ j \in Nat /\ i >= 1 /\ j # 1
  <2>1. Script(a, c) \in Seq(Step)
    BY ScriptShape
  <2> QED BY <2>1
<1>4. Script(a, c) = HandoverScript /\ a = "shift-handover"
  BY <1>1, <1>2, <1>3 DEF Script, Agents
<1>5. i = 2 /\ j = 3
  BY <1>3, <1>4 DEF HandoverScript, Ask, Write
<1> QED BY <1>4, <1>5 DEF HandoverScript, Ask, Write

\* Every row of a handover reports an answer; one that reports the first has a
\* question to come.
LEMMA HandoverNeeds ==
  ASSUME NEW c \in Contents \cup {Nothing}, NEW i \in DOMAIN Script("shift-handover", c),
         Script("shift-handover", c)[i].op = "write"
  PROVE  /\ Script("shift-handover", c) = HandoverScript
         /\ Script("shift-handover", c)[i].needs \in 1..2
<1>1. Script("shift-handover", c) = HandoverScript
  BY DEF Script
<1> QED BY <1>1 DEF HandoverScript, Ask, Write

-----------------------------------------------------------------------------
(* Turns.  A turn of a thread begins when it is started, or started over,  *)
(* and is closed by the first run that returns.  Among the runs that       *)
(* neither failed nor overlapped another, one per turn writes a row and    *)
(* returns: the next one finds the thread done.  The others of that kind   *)
(* are those of a handover that still have its second question to ask.     *)

Clean(r, t) ==
  run[r].pc \notin {"idle", "failed"} /\ run[r].of = t /\ ~run[r].overlaps

\* The answers of a run cover the first question of a handover and no more.
HalfSigned(r) ==
  AgentOf[run[r].of] = "shift-handover" /\ Len(run[r].answers) = 1

Closes(r, t, k, n) == Clean(r, t) /\ ~HalfSigned(r) /\ Wrote(r, k, n)

Hopeful(r, t, k, n) == Active(r) /\ Clean(r, t) /\ ~HalfSigned(r) /\ ~Wrote(r, k, n)

Closers(t, k, n) == {r \in Runs : Closes(r, t, k, n)}

\* Somebody may still become a closer in this turn.
Pending(t, k, n) ==
  \/ \E r \in Runs : Hopeful(r, t, k, n)
  \/ thread[t].status = "open" /\ \A r \in Runs : Closes(r, t, k, n) => ~Active(r)

TurnsCounted(t, k, n) ==
  Cardinality(Closers(t, k, n)) + (IF Pending(t, k, n) THEN 1 ELSE 0)
    <= 1 + Cardinality(StartedOver(t))

\* Two runs of a thread at once, and one of them saw the other begin.
OneAtATime ==
  \A r, q \in Runs : Active(r) /\ Active(q) /\ run[r].of = run[q].of
                       /\ ~run[r].overlaps /\ ~run[q].overlaps => r = q

NewIsNew == \A t \in Threads : thread[t].status = "new" => RunsOn(t) = {}

FewStarted == IsFiniteSet({r \in Runs : run[r].pc # "idle"})

\* Sets of runs that were started are finite.
LEMMA FewRuns ==
  ASSUME FewStarted, NEW S \in SUBSET {r \in Runs : run[r].pc # "idle"}
  PROVE  /\ IsFiniteSet(S) /\ Cardinality(S) \in Nat
         /\ \A T \in SUBSET S : Cardinality(T) <= Cardinality(S)
         /\ \A r \in S : Cardinality(S \ {r}) = Cardinality(S) - 1
         /\ \A r : r \notin S => Cardinality(S \cup {r}) = Cardinality(S) + 1
<1>1. IsFiniteSet(S) /\ Cardinality(S) \in Nat
  BY FS_Subset, FS_CardinalityType DEF FewStarted
<1> QED BY <1>1, FS_Subset, FS_RemoveElement, FS_AddElement

LEMMA FewCounted ==
  ASSUME FewStarted, NEW t \in Threads, NEW k, NEW n
  PROVE  /\ Closers(t, k, n) \in SUBSET {r \in Runs : run[r].pc # "idle"}
         /\ StartedOver(t) \in SUBSET {r \in Runs : run[r].pc # "idle"}
         /\ Cardinality(Closers(t, k, n)) \in Nat /\ Cardinality(StartedOver(t)) \in Nat
<1>1. /\ Closers(t, k, n) \in SUBSET {r \in Runs : run[r].pc # "idle"}
      /\ StartedOver(t) \in SUBSET {r \in Runs : run[r].pc # "idle"}
  BY DEF Closers, Closes, Clean, StartedOver, RunsOn
<1> QED BY <1>1, FewRuns

\* The steps of run r change nothing in what the other runs are.
OthersStay(r) ==
  /\ \A q \in Runs \ {r} : run'[q] = run[q]
  /\ rows \subseteq rows' /\ \A x \in rows' \ rows : x.by = r

LEMMA OthersCount ==
  ASSUME NEW r \in Runs, OthersStay(r), NEW q \in Runs \ {r}, NEW t, NEW k, NEW n
  PROVE  /\ Closes(q, t, k, n)' <=> Closes(q, t, k, n)
         /\ Hopeful(q, t, k, n)' <=> Hopeful(q, t, k, n)
         /\ Active(q)' <=> Active(q)
         /\ q \in StartedOver(t)' <=> q \in StartedOver(t)
<1>1. /\ Clean(q, t)' <=> Clean(q, t)
      /\ Active(q)' <=> Active(q)
      /\ HalfSigned(q)' <=> HalfSigned(q)
      /\ q \in StartedOver(t)' <=> q \in StartedOver(t)
  BY DEF OthersStay, Clean, Active, HalfSigned, StartedOver, RunsOn
<1>2. Wrote(q, k, n)' <=> Wrote(q, k, n)
  BY DEF OthersStay, Wrote
<1> QED BY <1>1, <1>2 DEF Closes, Hopeful

\* The turn of a thread: nothing is written, and nobody begins to hope.
LEMMA TurnStays ==
  ASSUME FewStarted, FewStarted', NEW t \in Threads, NEW k, NEW n, TurnsCounted(t, k, n),
         Closers(t, k, n)' = Closers(t, k, n), StartedOver(t)' = StartedOver(t),
         Pending(t, k, n)' => Pending(t, k, n)
  PROVE  TurnsCounted(t, k, n)'
BY FewCounted DEF TurnsCounted

\* A run starts the thread over.
LEMMA TurnBegins ==
  ASSUME FewStarted, FewStarted', NEW t \in Threads, NEW k, NEW n, TurnsCounted(t, k, n),
         Closers(t, k, n)' = Closers(t, k, n), NEW r \in Runs \ StartedOver(t),
         StartedOver(t)' = StartedOver(t) \cup {r}
  PROVE  TurnsCounted(t, k, n)'
<1>1. Cardinality(StartedOver(t)') = Cardinality(StartedOver(t)) + 1
  BY FewCounted, FewRuns
<1> QED BY <1>1, FewCounted DEF TurnsCounted

\* A closer writes its row.
LEMMA TurnCloses ==
  ASSUME FewStarted, FewStarted', NEW t \in Threads, NEW k, NEW n, TurnsCounted(t, k, n),
         NEW r \in Runs \ Closers(t, k, n), Closers(t, k, n)' = Closers(t, k, n) \cup {r},
         StartedOver(t)' = StartedOver(t), Pending(t, k, n), ~Pending(t, k, n)'
  PROVE  TurnsCounted(t, k, n)'
<1>1. Cardinality(Closers(t, k, n)') = Cardinality(Closers(t, k, n)) + 1
  BY FewCounted, FewRuns
<1> QED BY <1>1, FewCounted DEF TurnsCounted

\* A closer fails.
LEMMA TurnReopens ==
  ASSUME FewStarted, FewStarted', NEW t \in Threads, NEW k, NEW n, TurnsCounted(t, k, n),
         NEW r \in Closers(t, k, n), Closers(t, k, n)' = Closers(t, k, n) \ {r},
         StartedOver(t)' = StartedOver(t)
  PROVE  TurnsCounted(t, k, n)'
<1>1. Cardinality(Closers(t, k, n)') = Cardinality(Closers(t, k, n)) - 1
  BY FewCounted, FewRuns
<1> QED BY <1>1, FewCounted DEF TurnsCounted

\* The sets and the hopes of a turn depend on the run that moves.
LEMMA SetsStay ==
  ASSUME NEW r \in Runs, OthersStay(r), NEW t \in Threads, NEW k, NEW n,
         Closes(r, t, k, n)' <=> Closes(r, t, k, n),
         r \in StartedOver(t)' <=> r \in StartedOver(t)
  PROVE  Closers(t, k, n)' = Closers(t, k, n) /\ StartedOver(t)' = StartedOver(t)
<1>1. \A q \in Runs : Closes(q, t, k, n)' <=> Closes(q, t, k, n)
  BY OthersCount
<1>2. \A q \in Runs : q \in StartedOver(t)' <=> q \in StartedOver(t)
  BY OthersCount
<1>3. StartedOver(t)' = StartedOver(t)
  BY <1>2 DEF StartedOver, RunsOn
<1> QED BY <1>1, <1>3 DEF Closers

LEMMA HopeStays ==
  ASSUME NEW r \in Runs, OthersStay(r), NEW t \in Threads, NEW k, NEW n,
         Hopeful(r, t, k, n)' => Pending(t, k, n),
         thread'[t].status = "open" /\ ~(Closes(r, t, k, n)' /\ Active(r)') =>
           \/ Pending(t, k, n)
           \/ thread[t].status = "open" /\ ~(Closes(r, t, k, n) /\ Active(r))
  PROVE  Pending(t, k, n)' => Pending(t, k, n)
<1>1. ASSUME NEW q \in Runs, Hopeful(q, t, k, n)'
      PROVE  Pending(t, k, n)
  <2>1. CASE q = r
    BY <1>1, <2>1
  <2>2. CASE q # r
    BY <1>1, <2>2, OthersCount DEF Pending
  <2> QED BY <2>1, <2>2
<1>2. ASSUME thread'[t].status = "open",
             \A q \in Runs : Closes(q, t, k, n)' => ~Active(q)'
      PROVE  Pending(t, k, n)
  <2>1. CASE thread[t].status = "open" /\ ~(Closes(r, t, k, n) /\ Active(r))
    <3>1. \A q \in Runs : Closes(q, t, k, n) => ~Active(q)
      BY <1>2, <2>1, OthersCount
    <3> QED BY <2>1, <3>1 DEF Pending
  <2> QED BY <1>2, <2>1
<1> QED BY <1>1, <1>2 DEF Pending

\* A run that moves without failing remains what it was to its turn.
LEMMA SelfKept ==
  ASSUME NEW r \in Runs, NEW pc \in {"running", "asked", "ended"}, NEW at, NEW c,
         RunBecomes(r, pc, at, c), Active(r), NEW t
  PROVE  /\ Clean(r, t)' <=> Clean(r, t)
         /\ HalfSigned(r)' <=> HalfSigned(r)
         /\ r \in StartedOver(t)' <=> r \in StartedOver(t)
         /\ Active(r)' <=> pc = "running"
BY DEF RunBecomes, Active, Clean, HalfSigned, StartedOver, RunsOn

LEMMA OthersStayMoves ==
  ASSUME TypeOK, NEW r \in Runs, NEW pc, NEW at, NEW c, RunBecomes(r, pc, at, c),
         \/ UNCHANGED rows
         \/ AtStep(r, "write") /\ rows' = rows \cup {Row(r)}
  PROVE  OthersStay(r)
BY RowIsOwn DEF RunBecomes, OthersStay

\* An invocation opens a turn, or goes on with an open one nobody works on.
LEMMA TurnInvoke ==
  ASSUME TypeOK, RowsTell, NewIsNew, FewStarted, FewStarted', NEW r \in Runs,
         NEW u \in Threads, Invoke(r, u),
         NEW t \in Threads, NEW k, NEW n, TurnsCounted(t, k, n)
  PROVE  TurnsCounted(t, k, n)'
<1>1. PICK via \in {"start", "thread", "agent"}, answers \in Seq(Runs) :
        RunBegins(r, u, via, answers) /\ UNCHANGED rows
  BY InvokeEffect
<1>2. OthersStay(r)
  BY <1>1 DEF RunBegins, OthersStay
<1>3. \A x \in rows : x.by # r
  BY <1>1 DEF RowsTell, Tells, RowOf, Executing, RunBegins
<1>4. ~Closes(r, t, k, n) /\ ~Closes(r, t, k, n)' /\ r \notin StartedOver(t)
  BY <1>1, <1>3 DEF Closes, Wrote, Clean, RunBegins, StartedOver, RunsOn
<1>5. Closers(t, k, n)' = Closers(t, k, n)
  <2>1. \A q \in Runs : Closes(q, t, k, n)' <=> Closes(q, t, k, n)
    BY <1>2, <1>4, OthersCount
  <2> QED BY <2>1 DEF Closers
<1>6. CASE t = u /\ Start(r, u)
  <2>1. RunsOn(t) = {}
    BY <1>6 DEF NewIsNew, Start
  <2>2. Closers(t, k, n) = {}
    BY <2>1 DEF Closers, Closes, Clean, RunsOn
  <2>3. Cardinality(Closers(t, k, n)') = 0
    BY <1>5, <2>2, FS_EmptySet
  <2>4. r \notin StartedOver(t)'
    BY <1>6 DEF Start, NewTurn, Begin, TypeOK, StartedOver, RunsOn
  <2>5. Cardinality(StartedOver(t)') \in Nat
    BY <1>2, <1>4, <2>4, SetsStay, FewCounted
  <2> QED BY <2>3, <2>5 DEF TurnsCounted
<1>7. CASE t = u /\ ResumeAgent(r, u)
  <2>1. run'[r].via = "agent" /\ run'[r].of = t
    BY <1>7 DEF ResumeAgent, NewTurn, Begin, TypeOK
  <2>2. r \in StartedOver(t)'
    BY <1>1, <2>1 DEF StartedOver, RunsOn, RunBegins
  <2>3. StartedOver(t)' = StartedOver(t) \cup {r}
    <3>1. \A q \in Runs \ {r} : q \in StartedOver(t)' <=> q \in StartedOver(t)
      BY <1>2, OthersCount
    <3> QED BY <2>2, <3>1 DEF StartedOver, RunsOn
  <2> QED BY <1>4, <1>5, <2>3, TurnBegins
<1>8. CASE t # u \/ ResumeThread(r, u)
  <2>1. r \notin StartedOver(t)'
    BY <1>1, <1>8 DEF StartedOver, RunsOn, RunBegins, ResumeThread, Begin, TypeOK
  <2>2. StartedOver(t)' = StartedOver(t)
    BY <1>2, <1>4, <2>1, SetsStay
  <2>3. thread'[t] = thread[t]
    BY <1>8 DEF Invoke, Start, ResumeThread, ResumeAgent, NewTurn, TypeOK
  <2>4. ASSUME Hopeful(r, t, k, n)'
        PROVE  Pending(t, k, n)
    <3>1. t = u /\ ResumeThread(r, u) /\ ~Busy(t)
      BY <1>1, <1>8, <2>4 DEF Hopeful, Clean, RunBegins
    <3>2. \A q \in Runs : Closes(q, t, k, n) => ~Active(q)
      BY <3>1 DEF Closes, Clean, Busy
    <3> QED BY <3>1, <3>2 DEF Pending, ResumeThread
  <2>5. Pending(t, k, n)' => Pending(t, k, n)
    BY <1>2, <1>4, <2>3, <2>4, HopeStays
  <2> QED BY <1>5, <2>2, <2>5, TurnStays
<1> QED BY <1>6, <1>7, <1>8 DEF Invoke

\* A run that computes or is answered leaves its turn as it is.
LEMMA TurnMoves ==
  ASSUME TypeOK, FewStarted, FewStarted', NEW r \in Runs, Active(r), NEW at, NEW c,
         RunBecomes(r, "running", at, c), UNCHANGED <<thread, rows>>,
         NEW t \in Threads, NEW k, NEW n, TurnsCounted(t, k, n)
  PROVE  TurnsCounted(t, k, n)'
<1>1. OthersStay(r)
  BY OthersStayMoves
<1>2. Wrote(r, k, n)' <=> Wrote(r, k, n)
  BY DEF Wrote
<1>3. /\ Closes(r, t, k, n)' <=> Closes(r, t, k, n)
      /\ Hopeful(r, t, k, n)' <=> Hopeful(r, t, k, n)
      /\ r \in StartedOver(t)' <=> r \in StartedOver(t)
      /\ Active(r)' <=> Active(r)
  BY <1>2, SelfKept DEF Closes, Hopeful
<1>4. Hopeful(r, t, k, n)' => Pending(t, k, n)
  BY <1>3 DEF Pending
<1>5. Pending(t, k, n)' => Pending(t, k, n)
  BY <1>1, <1>3, <1>4, HopeStays
<1> QED BY <1>1, <1>3, <1>5, SetsStay, TurnStays

\* A row closes the turn for the others, if its run is one that closes.
LEMMA TurnWrites ==
  ASSUME TypeOK, OneAtATime, FewStarted, FewStarted', NEW r \in Runs, WriteRow(r),
         NEW t \in Threads, NEW k, NEW n, TurnsCounted(t, k, n)
  PROVE  TurnsCounted(t, k, n)'
<1>1. /\ RunBecomes(r, "running", run[r].at + 1, run[r].content)
      /\ UNCHANGED thread /\ rows' = rows \cup {Row(r)}
  BY WriteRowEffect
<1>2. AtStep(r, "write") /\ Active(r)
  BY DEF WriteRow, AtStep, Active
<1>3. OthersStay(r)
  BY <1>1, <1>2, OthersStayMoves
<1>4. /\ Clean(r, t)' <=> Clean(r, t)
      /\ HalfSigned(r)' <=> HalfSigned(r)
      /\ r \in StartedOver(t)' <=> r \in StartedOver(t)
      /\ Active(r)'
  BY <1>1, <1>2, SelfKept
<1>5. Wrote(r, k, n) => Wrote(r, k, n)'
  BY <1>1 DEF Wrote
<1>6. CASE Closes(r, t, k, n)' <=> Closes(r, t, k, n)
  <2>1. Hopeful(r, t, k, n)' => Hopeful(r, t, k, n)
    BY <1>2, <1>4, <1>5 DEF Hopeful
  <2>2. Hopeful(r, t, k, n)' => Pending(t, k, n)
    BY <2>1 DEF Pending
  <2>3. Pending(t, k, n)' => Pending(t, k, n)
    BY <1>1, <1>2, <1>3, <1>4, <1>6, <2>2, HopeStays
  <2> QED BY <1>3, <1>4, <1>6, <2>3, SetsStay, TurnStays
<1>7. CASE ~(Closes(r, t, k, n)' <=> Closes(r, t, k, n))
  <2>1. ~Closes(r, t, k, n) /\ Closes(r, t, k, n)' /\ Hopeful(r, t, k, n)
    BY <1>2, <1>4, <1>5, <1>7 DEF Closes, Hopeful
  <2>2. Pending(t, k, n)
    BY <2>1 DEF Pending
  <2>3. ~Pending(t, k, n)'
    <3>1. ASSUME NEW q \in Runs, Hopeful(q, t, k, n)'
          PROVE  FALSE
      <4>1. CASE q = r
        BY <2>1, <3>1, <4>1 DEF Hopeful, Closes
      <4>2. CASE q # r
        <5>1. Hopeful(q, t, k, n)
          BY <1>3, <3>1, <4>2, OthersCount
        <5> QED BY <2>1, <4>2, <5>1 DEF OneAtATime, Hopeful, Clean
      <4> QED BY <4>1, <4>2
    <3> QED BY <1>4, <2>1, <3>1 DEF Pending
  <2>4. Closers(t, k, n)' = Closers(t, k, n) \cup {r} /\ r \notin Closers(t, k, n)
    <3>1. \A q \in Runs \ {r} : Closes(q, t, k, n)' <=> Closes(q, t, k, n)
      BY <1>3, OthersCount
    <3> QED BY <2>1, <3>1 DEF Closers
  <2>5. StartedOver(t)' = StartedOver(t)
    <3>1. \A q \in Runs : q \in StartedOver(t)' <=> q \in StartedOver(t)
      BY <1>3, <1>4, OthersCount
    <3> QED BY <3>1 DEF StartedOver, RunsOn
  <2> QED BY <2>2, <2>3, <2>4, <2>5, TurnCloses
<1> QED BY <1>6, <1>7

\* A closer has no question left to ask.
LEMMA ClosersAskNoMore ==
  ASSUME IInv, RowsTell, NEW r \in Runs, Interrupt(r), NEW t \in Threads, NEW k, NEW n
  PROVE  ~Closes(r, t, k, n)
<1> SUFFICES ASSUME Closes(r, t, k, n)
             PROVE  FALSE
  OBVIOUS
<1> DEFINE s == RunScript(r)
           a == AgentOf[run[r].of]
<1>1. PICK x \in rows : x.by = r /\ x.kind = k /\ x.needs = n
  BY DEF Closes, Wrote
<1>2. /\ RowOf(x, r) /\ run[r] \in Run /\ a \in Agents /\ s \in Seq(Step)
      /\ run[r].content \in Contents \cup {Nothing}
  BY <1>1, RowOwner DEF IInv, Run
<1>3. /\ run[r].pc = "running" /\ run[r].at \in DOMAIN s /\ s[run[r].at].op = "ask"
      /\ Len(run[r].answers) < s[run[r].at].needs
  <2>1. s[run[r].at] \in Step /\ run[r].at \in DOMAIN s
    BY <1>2 DEF Interrupt, AtStep, Run
  <2>2. s[run[r].at].needs \in Nat /\ Len(run[r].answers) \in Nat
    BY <1>2, <2>1 DEF Step, Run
  <2> QED BY <2>1, <2>2 DEF Interrupt, AtStep, Answered
<1>4. PICK i \in DOMAIN s : i < run[r].at /\ s[i].op = "write" /\ s[i].needs = n
  BY <1>1, <1>2, <1>3 DEF RowOf
<1>5. a = "shift-handover" /\ n = 1 /\ s[run[r].at].needs = 2
  BY <1>2, <1>3, <1>4, AsksAgain DEF RunScript
<1>6. Len(x.answers) >= 1 /\ x.answers = run[r].answers
  BY <1>1, <1>2, <1>5 DEF IInv, SignedByAnswer, RowOf
<1>7. Len(run[r].answers) # 1
  BY <1>5 DEF Closes, HalfSigned
<1>8. PICK m \in Nat : m = Len(run[r].answers)
  BY <1>2 DEF Run
<1>9. m < 2 /\ m >= 1 /\ m # 1
  BY <1>3, <1>5, <1>6, <1>7, <1>8
<1> QED BY <1>9

\* A run that asks leaves the turn open for the one that is answered.
LEMMA TurnAsks ==
  ASSUME IInv, RowsTell, FewStarted, FewStarted', NEW r \in Runs, Interrupt(r),
         NEW t \in Threads, NEW k, NEW n, TurnsCounted(t, k, n)
  PROVE  TurnsCounted(t, k, n)'
<1>1. TypeOK /\ Active(r) /\ RunBecomes(r, "asked", run[r].at, run[r].content) /\ UNCHANGED rows
  BY InterruptEffect DEF IInv, Interrupt, AtStep, Active
<1>2. OthersStay(r)
  BY <1>1, OthersStayMoves
<1>3. Wrote(r, k, n)' <=> Wrote(r, k, n)
  BY <1>1 DEF Wrote
<1>4. /\ Clean(r, t)' <=> Clean(r, t)
      /\ HalfSigned(r)' <=> HalfSigned(r)
      /\ r \in StartedOver(t)' <=> r \in StartedOver(t)
      /\ ~Active(r)'
  BY <1>1, SelfKept
<1>5. Closes(r, t, k, n)' <=> Closes(r, t, k, n)
  BY <1>3, <1>4 DEF Closes
<1>6. ~Closes(r, t, k, n) /\ ~Hopeful(r, t, k, n)'
  BY <1>4, ClosersAskNoMore DEF Hopeful
<1>7. thread'[t].status = thread[t].status
  <2> DEFINE u == run[r].of
  <2>1. thread \in [Threads -> Thread]
    BY <1>1 DEF TypeOK
  <2>2. \/ thread' = thread
        \/ thread' = [thread EXCEPT ![u] = Checkpoint(thread[u].status, thread[u].epoch,
                                                      run[r].answers, run[r].content)]
    BY DEF Interrupt
  <2> QED BY <2>1, <2>2 DEF Checkpoint
<1>8. Pending(t, k, n)' => Pending(t, k, n)
  BY <1>2, <1>6, <1>7, HopeStays
<1> QED BY <1>2, <1>4, <1>5, <1>8, SetsStay, TurnStays

\* A run that returns ends the turn.
LEMMA TurnEnds ==
  ASSUME TypeOK, FewStarted, FewStarted', NEW r \in Runs, Finish(r),
         NEW t \in Threads, NEW k, NEW n, TurnsCounted(t, k, n)
  PROVE  TurnsCounted(t, k, n)'
<1>1. Active(r) /\ RunBecomes(r, "ended", run[r].at, run[r].content) /\ UNCHANGED rows
  BY FinishEffect DEF Finish, Active
<1>2. OthersStay(r)
  BY <1>1, OthersStayMoves
<1>3. Wrote(r, k, n)' <=> Wrote(r, k, n)
  BY <1>1 DEF Wrote
<1>4. /\ Clean(r, t)' <=> Clean(r, t)
      /\ HalfSigned(r)' <=> HalfSigned(r)
      /\ r \in StartedOver(t)' <=> r \in StartedOver(t)
      /\ ~Active(r)'
  BY <1>1, SelfKept
<1>5. Closes(r, t, k, n)' <=> Closes(r, t, k, n)
  BY <1>3, <1>4 DEF Closes
<1>6. ~Hopeful(r, t, k, n)'
  BY <1>4 DEF Hopeful
<1>7. thread'[t].status = "open" => thread[t].status = "open" /\ run[r].of # t
  BY DEF Finish, TypeOK, Thread, Checkpoint
<1>8. run[r].of # t => ~Closes(r, t, k, n)
  BY DEF Closes, Clean
<1>9. Pending(t, k, n)' => Pending(t, k, n)
  BY <1>2, <1>6, <1>7, <1>8, HopeStays
<1> QED BY <1>2, <1>4, <1>5, <1>9, SetsStay, TurnStays

\* A run that fails leaves its turn to others, and takes its closing with it.
LEMMA TurnFails ==
  ASSUME TypeOK, FewStarted, FewStarted', NEW r \in Runs, Active(r),
         RunBecomes(r, "failed", run[r].at, run[r].content), UNCHANGED thread,
         \/ UNCHANGED rows
         \/ AtStep(r, "write") /\ rows' = rows \cup {Row(r)},
         NEW t \in Threads, NEW k, NEW n, TurnsCounted(t, k, n)
  PROVE  TurnsCounted(t, k, n)'
<1>1. OthersStay(r)
  BY OthersStayMoves
<1>2. ~Closes(r, t, k, n)' /\ ~Hopeful(r, t, k, n)'
  BY DEF RunBecomes, Closes, Hopeful, Clean
<1>3. r \in StartedOver(t)' <=> r \in StartedOver(t)
  BY DEF RunBecomes, StartedOver, RunsOn, Active
<1>4. CASE Closes(r, t, k, n)
  <2>1. Closers(t, k, n)' = Closers(t, k, n) \ {r} /\ r \in Closers(t, k, n)
    <3>1. \A q \in Runs \ {r} : Closes(q, t, k, n)' <=> Closes(q, t, k, n)
      BY <1>1, OthersCount
    <3> QED BY <1>2, <1>4, <3>1 DEF Closers
  <2>2. StartedOver(t)' = StartedOver(t)
    <3>1. \A q \in Runs : q \in StartedOver(t)' <=> q \in StartedOver(t)
      BY <1>1, <1>3, OthersCount
    <3> QED BY <3>1 DEF StartedOver, RunsOn
  <2> QED BY <2>1, <2>2, TurnReopens
<1>5. CASE ~Closes(r, t, k, n)
  <2>1. Pending(t, k, n)' => Pending(t, k, n)
    BY <1>1, <1>2, <1>5, HopeStays
  <2> QED BY <1>1, <1>2, <1>3, <1>5, <2>1, SetsStay, TurnStays
<1> QED BY <1>4, <1>5

LEMMA TurnsCountedStep ==
  ASSUME IInv, RowsTell, OneAtATime, NewIsNew, FewStarted, FewStarted', [Next]_vars,
         NEW t \in Threads, NEW k, NEW n, TurnsCounted(t, k, n)
  PROVE  TurnsCounted(t, k, n)'
<1>0. TypeOK
  BY DEF IInv
<1>1. CASE UNCHANGED vars
  BY <1>1 DEF vars, TurnsCounted, Closers, Closes, Clean, HalfSigned, Wrote, Pending,
              Hopeful, Active, StartedOver, RunsOn
<1>2. ASSUME NEW r \in Runs, NEW u \in Threads, Invoke(r, u)
      PROVE  TurnsCounted(t, k, n)'
  BY <1>0, <1>2, TurnInvoke
<1>3. ASSUME NEW r \in Runs, NEW c \in Contents \cup {Nothing}, Compute(r, c)
      PROVE  TurnsCounted(t, k, n)'
  BY <1>0, <1>3, ComputeEffect, TurnMoves DEF Compute, Active
<1>4. ASSUME NEW r \in Runs, Pass(r)
      PROVE  TurnsCounted(t, k, n)'
  BY <1>0, <1>4, PassEffect, TurnMoves DEF Pass, AtStep, Active
<1>5. ASSUME NEW r \in Runs, Interrupt(r)
      PROVE  TurnsCounted(t, k, n)'
  BY <1>5, TurnAsks
<1>6. ASSUME NEW r \in Runs, WriteRow(r)
      PROVE  TurnsCounted(t, k, n)'
  BY <1>0, <1>6, TurnWrites
<1>7. ASSUME NEW r \in Runs, WriteRaises(r)
      PROVE  TurnsCounted(t, k, n)'
  <2>1. Active(r) /\ AtStep(r, "write")
    BY <1>7 DEF WriteRaises, AtStep, Active
  <2> QED BY <1>0, <1>7, <2>1, WriteRaisesEffect, TurnFails
<1>8. ASSUME NEW r \in Runs, Finish(r)
      PROVE  TurnsCounted(t, k, n)'
  BY <1>0, <1>8, TurnEnds
<1>9. ASSUME NEW r \in Runs, Fail(r)
      PROVE  TurnsCounted(t, k, n)'
  <2>1. Active(r)
    BY <1>9 DEF Fail
  <2> QED BY <1>0, <1>9, <2>1, FailEffect, TurnFails
<1> QED BY <1>1, <1>2, <1>3, <1>4, <1>5, <1>6, <1>7, <1>8, <1>9 DEF Next, Execute

-----------------------------------------------------------------------------
(* Who runs when *)

\* What a step does to the runs: one of them begins, or goes on, or stops.
LEMMA RunsStep ==
  ASSUME TypeOK, [Next]_vars
  PROVE  \/ UNCHANGED vars
         \/ \E r \in Runs, t \in Threads : Invoke(r, t)
         \/ \E r \in Runs :
              /\ Active(r)
              /\ \E pc \in {"running", "asked", "ended", "failed"} : \E at, c :
                   RunBecomes(r, pc, at, c)
<1>1. ASSUME NEW r \in Runs, Execute(r) \/ Fail(r)
      PROVE  /\ Active(r)
             /\ \E pc \in {"running", "asked", "ended", "failed"} : \E at, c :
                  RunBecomes(r, pc, at, c)
  <2>1. Active(r)
    BY <1>1 DEF Execute, Compute, Pass, Interrupt, WriteRow, WriteRaises, Finish, Fail,
                AtStep, Active
  <2>2. CASE \E c \in Contents \cup {Nothing} : Compute(r, c)
    BY <2>1, <2>2, ComputeEffect
  <2>3. CASE Pass(r)
    BY <2>1, <2>3, PassEffect
  <2>4. CASE Interrupt(r)
    BY <2>1, <2>4, InterruptEffect
  <2>5. CASE WriteRow(r)
    BY <2>1, <2>5, WriteRowEffect
  <2>6. CASE WriteRaises(r)
    BY <2>1, <2>6, WriteRaisesEffect
  <2>7. CASE Finish(r)
    BY <2>1, <2>7, FinishEffect
  <2>8. CASE Fail(r)
    BY <2>1, <2>8, FailEffect
  <2> QED BY <1>1, <2>2, <2>3, <2>4, <2>5, <2>6, <2>7, <2>8 DEF Execute
<1> QED BY <1>1 DEF Next

LEMMA OneAtATimeStep ==
  ASSUME TypeOK, OneAtATime, [Next]_vars
  PROVE  OneAtATime'
<1>1. CASE UNCHANGED vars
  BY <1>1 DEF vars, OneAtATime, Active
<1>2. ASSUME NEW r \in Runs, NEW t \in Threads, Invoke(r, t)
      PROVE  OneAtATime'
  <2>1. PICK via \in {"start", "thread", "agent"}, answers \in Seq(Runs) :
          RunBegins(r, t, via, answers)
    BY <1>2, InvokeEffect
  <2>2. ASSUME NEW q \in Runs \ {r}, Active(q)', run'[q].of = t
        PROVE  run'[r].overlaps
    BY <2>1, <2>2 DEF RunBegins, Busy, Active
  <2> QED BY <2>1, <2>2 DEF RunBegins, OneAtATime, Active
<1>3. ASSUME NEW r \in Runs, Active(r),
             NEW pc \in {"running", "asked", "ended", "failed"}, NEW at, NEW c,
             RunBecomes(r, pc, at, c)
      PROVE  OneAtATime'
  <2>1. \A q \in Runs : /\ Active(q)' => Active(q)
                        /\ run'[q].of = run[q].of /\ run'[q].overlaps = run[q].overlaps
    BY <1>3 DEF RunBecomes, Active
  <2> QED BY <2>1 DEF OneAtATime
<1> QED BY <1>1, <1>2, <1>3, RunsStep

LEMMA FewStartedStep ==
  ASSUME TypeOK, FewStarted, [Next]_vars
  PROVE  FewStarted'
<1> DEFINE started == {q \in Runs : run[q].pc # "idle"}
<1>1. \E r : started' \subseteq started \cup {r}
  <2>1. CASE UNCHANGED vars
    BY <2>1 DEF vars
  <2>2. ASSUME NEW r \in Runs, NEW t \in Threads, Invoke(r, t)
        PROVE  started' \subseteq started \cup {r}
    BY <2>2, InvokeEffect DEF RunBegins
  <2>3. ASSUME NEW r \in Runs, NEW pc, NEW at, NEW c, RunBecomes(r, pc, at, c)
        PROVE  started' \subseteq started \cup {r}
    BY <2>3 DEF RunBecomes
  <2> QED BY <2>1, <2>2, <2>3, RunsStep
<1>2. PICK r : started' \subseteq started \cup {r}
  BY <1>1
<1>3. IsFiniteSet(started \cup {r})
  BY FS_AddElement DEF FewStarted
<1>4. IsFiniteSet(started')
  BY <1>2, <1>3, FS_Subset
<1> QED BY <1>4 DEF FewStarted

LEMMA NewIsNewStep ==
  ASSUME TypeOK, NewIsNew, [Next]_vars
  PROVE  NewIsNew'
<1> SUFFICES ASSUME NEW t \in Threads, thread'[t].status = "new"
             PROVE  RunsOn(t)' = {}
  BY DEF NewIsNew
<1>0. thread \in [Threads -> Thread]
  BY DEF TypeOK
<1>1. CASE UNCHANGED vars
  BY <1>1 DEF vars, NewIsNew, RunsOn
<1>2. ASSUME NEW r \in Runs, NEW u \in Threads, Invoke(r, u)
      PROVE  RunsOn(t)' = {}
  <2>1. PICK via \in {"start", "thread", "agent"}, answers \in Seq(Runs) :
          RunBegins(r, u, via, answers)
    BY <1>2, InvokeEffect
  <2>2. t # u /\ thread'[t] = thread[t]
    BY <1>0, <1>2 DEF Invoke, Start, ResumeThread, ResumeAgent, NewTurn, Checkpoint
  <2>3. RunsOn(t) = {}
    BY <2>2 DEF NewIsNew
  <2> QED BY <2>1, <2>2, <2>3 DEF RunBegins, RunsOn
<1>3. ASSUME NEW r \in Runs, Execute(r) \/ Fail(r)
      PROVE  RunsOn(t)' = {}
  <2>1. thread[t].status = "new"
    <3>1. CASE Interrupt(r)
      <4> DEFINE u == run[r].of
      <4>1. \/ thread' = thread
            \/ thread' = [thread EXCEPT ![u] = Checkpoint(thread[u].status, thread[u].epoch,
                                                          run[r].answers, run[r].content)]
        BY <3>1 DEF Interrupt
      <4> QED BY <1>0, <4>1 DEF Checkpoint
    <3>2. CASE Finish(r)
      BY <1>0, <3>2 DEF Finish, Checkpoint
    <3>3. CASE ~Interrupt(r) /\ ~Finish(r)
      BY <1>3, <3>3 DEF Execute, Compute, Pass, WriteRow, WriteRaises, Fail
    <3> QED BY <3>1, <3>2, <3>3
  <2>2. RunsOn(t) = {}
    BY <2>1 DEF NewIsNew
  <2>3. \E pc \in {"running", "asked", "ended", "failed"} : \E at, c : RunBecomes(r, pc, at, c)
    BY <1>3, ComputeEffect, PassEffect, InterruptEffect, WriteRowEffect,
       WriteRaisesEffect, FinishEffect, FailEffect DEF Execute
  <2>4. Active(r)
    BY <1>3 DEF Execute, Compute, Pass, Interrupt, WriteRow, WriteRaises, Finish, Fail,
                AtStep, Active
  <2> QED BY <2>2, <2>3, <2>4 DEF RunBecomes, RunsOn, Active
<1> QED BY <1>1, <1>2, <1>3 DEF Next

-----------------------------------------------------------------------------
(* Handovers: of the runs that neither failed nor overlapped another, one  *)
(* brings the first answer                                                 *)

\* Whoever comes before the run that starts the thread has asked, overlaps.
FirstAlone(t) ==
  \A r \in RunsOn(t) : Active(r) /\ Len(run[r].answers) = 0 =>
    \A q \in RunsOn(t) \ {r} : run[q].overlaps

\* Nothing supersedes the checkpoint of a run but the end of the thread.
InStep(t) ==
  \A r \in RunsOn(t) : run[r].epoch = thread[t].epoch \/ thread[t].status = "done"

Half(r, t) == Clean(r, t) /\ HalfSigned(r)

\* The first answer is stored once its run asks for the second.
HalfGoesOn(t) ==
  \A r \in Runs : Half(r, t) =>
    Active(r) \/ Len(thread[t].answers) >= 1 \/ thread[t].status = "done"

OneHalf(t) == \A r, q \in Runs : Half(r, t) /\ Half(q, t) => r = q

HandoverTurn(t) == FirstAlone(t) /\ InStep(t) /\ HalfGoesOn(t) /\ OneHalf(t)

\* Steps of other threads.
LEMMA HandoverElsewhere ==
  ASSUME NEW t \in Threads, HandoverTurn(t), NEW r \in Runs,
         \A q \in Runs \ {r} : run'[q] = run[q],
         r \notin RunsOn(t), r \notin RunsOn(t)', thread'[t] = thread[t]
  PROVE  HandoverTurn(t)'
<1>1. RunsOn(t)' = RunsOn(t) /\ \A q \in RunsOn(t) : run'[q] = run[q]
  BY DEF RunsOn
<1>2. \A q \in RunsOn(t) : /\ Active(q)' <=> Active(q)
                           /\ Half(q, t)' <=> Half(q, t)
  BY <1>1 DEF Active, Half, Clean, HalfSigned
<1>3. \A q \in Runs : (Half(q, t) => q \in RunsOn(t)) /\ (Half(q, t)' => q \in RunsOn(t))
  <2>1. \A q \in Runs : (Half(q, t) => q \in RunsOn(t)) /\ (Half(q, t)' => q \in RunsOn(t)')
    BY DEF Half, Clean, RunsOn
  <2> QED BY <1>1, <2>1
<1>4. FirstAlone(t)'
  BY <1>1, <1>2 DEF HandoverTurn, FirstAlone
<1>5. InStep(t)'
  BY <1>1 DEF HandoverTurn, InStep
<1>6. HalfGoesOn(t)'
  BY <1>2, <1>3 DEF HandoverTurn, HalfGoesOn
<1>7. OneHalf(t)'
  BY <1>2, <1>3 DEF HandoverTurn, OneHalf
<1> QED BY <1>4, <1>5, <1>6, <1>7 DEF HandoverTurn

LEMMA HandoverStarts ==
  ASSUME TypeOK, NewIsNew, NEW t \in Threads, HandoverTurn(t), NEW r \in Runs, Start(r, t)
  PROVE  HandoverTurn(t)'
<1>1. RunsOn(t) = {} /\ thread[t].epoch \in Nat
  BY DEF Start, NewIsNew, TypeOK, Thread
<1>2. thread'[t].status = "open" /\ thread'[t].epoch = thread[t].epoch + 1
  BY <1>1 DEF Start, NewTurn, TypeOK, Checkpoint
<1>3. /\ run'[r].answers = << >> /\ run'[r].epoch = thread[t].epoch + 1
      /\ run'[r].of = t /\ run'[r].pc = "computing"
      /\ \A q \in Runs \ {r} : run'[q] = run[q]
  BY DEF Start, NewTurn, Begin, TypeOK
<1>4. RunsOn(t)' = {r}
  BY <1>1, <1>3 DEF RunsOn
<1>5. FirstAlone(t)'
  BY <1>4 DEF FirstAlone
<1>6. InStep(t)'
  BY <1>2, <1>3, <1>4 DEF InStep
<1>7. \A q \in Runs : ~Half(q, t)'
  <2>1. Len(run'[r].answers) # 1
    BY <1>3
  <2>2. \A q \in Runs : Half(q, t)' => q \in RunsOn(t)'
    BY DEF Half, Clean, RunsOn
  <2> QED BY <1>4, <2>1, <2>2 DEF Half, HalfSigned
<1> QED BY <1>5, <1>6, <1>7 DEF HandoverTurn, HalfGoesOn, OneHalf

LEMMA HandoverResumes ==
  ASSUME TypeOK, NEW t \in Threads, HandoverTurn(t), NEW r \in Runs, ResumeThread(r, t)
  PROVE  HandoverTurn(t)'
<1> DEFINE old == thread[t].answers
<1>1. /\ run[r].pc = "idle" /\ UNCHANGED thread /\ thread[t].status = "open"
      /\ old \in Seq(Runs)
  BY DEF ResumeThread, TypeOK, Thread
<1>2. /\ run'[r].answers = Append(old, r) /\ run'[r].epoch = thread[t].epoch
      /\ run'[r].of = t /\ run'[r].pc = "computing" /\ run'[r].overlaps = Busy(t)
      /\ \A q \in Runs \ {r} : run'[q] = run[q]
  BY DEF ResumeThread, Begin, TypeOK
<1>3. RunsOn(t)' = RunsOn(t) \cup {r} /\ r \notin RunsOn(t) /\ Active(r)'
  BY <1>1, <1>2 DEF RunsOn, Active
<1>4. \A q \in Runs \ {r} : /\ Half(q, t)' <=> Half(q, t)
                            /\ Active(q)' <=> Active(q)
  BY <1>2 DEF Half, Clean, HalfSigned, Active
<1>5. Len(old) \in Nat /\ Len(run'[r].answers) = Len(old) + 1
  BY <1>1, <1>2
<1>6. FirstAlone(t)'
  <2>1. Len(run'[r].answers) # 0
    BY <1>5
  <2> SUFFICES ASSUME NEW p \in RunsOn(t)', Active(p)', Len(run'[p].answers) = 0,
                      NEW q \in RunsOn(t)' \ {p}
               PROVE  run'[q].overlaps
    BY DEF FirstAlone
  <2>2. p \in RunsOn(t) /\ p # r /\ Active(p) /\ Len(run[p].answers) = 0
    BY <1>2, <1>3, <1>4, <2>1 DEF RunsOn
  <2>3. CASE q = r
    BY <1>2, <2>2, <2>3 DEF Busy, RunsOn
  <2>4. CASE q # r
    BY <1>2, <1>3, <2>2, <2>4 DEF HandoverTurn, FirstAlone, RunsOn
  <2> QED BY <2>3, <2>4
<1>7. InStep(t)'
  BY <1>1, <1>2, <1>3 DEF HandoverTurn, InStep, RunsOn
<1>8. HalfGoesOn(t)'
  BY <1>1, <1>3, <1>4 DEF HandoverTurn, HalfGoesOn
<1>9. OneHalf(t)'
  <2>1. ASSUME Half(r, t)', NEW q \in Runs \ {r}, Half(q, t)
        PROVE  FALSE
    <3>1. Len(old) = 0
      <4>1. PICK m \in Nat : m = Len(old) /\ m + 1 = Len(run'[r].answers)
        BY <1>5
      <4>2. Len(run'[r].answers) = 1
        BY <2>1 DEF Half, HalfSigned
      <4>3. m = 0
        BY <4>1, <4>2
      <4> QED BY <4>1, <4>3
    <3>2. ~Busy(t)
      BY <1>2, <2>1 DEF Half, Clean
    <3>3. ~Active(q)
      BY <2>1, <3>2 DEF Half, Clean, Busy
    <3>4. Len(old) >= 1
      BY <1>1, <2>1, <3>3 DEF HandoverTurn, HalfGoesOn
    <3> QED BY <3>1, <3>4
  <2> QED BY <1>4, <2>1 DEF HandoverTurn, OneHalf
<1> QED BY <1>6, <1>7, <1>8, <1>9 DEF HandoverTurn

\* A run that goes on, or fails, leaves the thread as it is.
LEMMA HandoverMoves ==
  ASSUME TypeOK, NEW t \in Threads, HandoverTurn(t), NEW r \in Runs, Active(r),
         NEW pc \in {"running", "failed"}, NEW at, NEW c, RunBecomes(r, pc, at, c),
         UNCHANGED thread
  PROVE  HandoverTurn(t)'
<1>1. RunsOn(t)' = RunsOn(t)
  BY DEF RunBecomes, RunsOn, Active
<1>2. \A q \in Runs : /\ Active(q)' => Active(q)
                      /\ run'[q].answers = run[q].answers /\ run'[q].epoch = run[q].epoch
                      /\ run'[q].overlaps = run[q].overlaps
  BY DEF RunBecomes, Active
<1>3. \A q \in Runs : Half(q, t)' => Half(q, t) /\ (Active(q) => Active(q)')
  BY DEF RunBecomes, Active, Half, Clean, HalfSigned
<1>4. FirstAlone(t)'
  BY <1>1, <1>2 DEF HandoverTurn, FirstAlone, RunsOn
<1>5. InStep(t)'
  BY <1>1, <1>2 DEF HandoverTurn, InStep, RunsOn
<1>6. HalfGoesOn(t)'
  BY <1>3 DEF HandoverTurn, HalfGoesOn
<1>7. OneHalf(t)'
  BY <1>3 DEF HandoverTurn, OneHalf
<1> QED BY <1>4, <1>5, <1>6, <1>7 DEF HandoverTurn

LEMMA HandoverAsks ==
  ASSUME TypeOK, NewIsNew, NEW t \in Threads, HandoverTurn(t), NEW r \in Runs,
         Interrupt(r), run[r].of = t
  PROVE  HandoverTurn(t)'
<1>1. /\ RunBecomes(r, "asked", run[r].at, run[r].content) /\ r \in RunsOn(t)
      /\ Active(r) /\ ~Active(r)' /\ run[r].answers \in Seq(Runs)
  BY InterruptEffect DEF Interrupt, AtStep, Active, RunsOn, RunBecomes, Run
<1>2. RunsOn(t)' = RunsOn(t)
  BY <1>1 DEF RunBecomes, RunsOn, Active
<1>3. \A q \in Runs : /\ Active(q)' => Active(q) /\ q # r
                      /\ q # r => (Active(q)' <=> Active(q))
                      /\ run'[q].answers = run[q].answers /\ run'[q].epoch = run[q].epoch
                      /\ run'[q].overlaps = run[q].overlaps
                      /\ Half(q, t)' <=> Half(q, t)
  BY <1>1 DEF RunBecomes, Active, Half, Clean, HalfSigned
<1>4. /\ thread'[t].status = thread[t].status /\ thread'[t].epoch = thread[t].epoch
      /\ \/ thread'[t] = thread[t] /\ run[r].epoch # thread[t].epoch
         \/ thread'[t].answers = run[r].answers
  BY DEF Interrupt, TypeOK, Checkpoint
<1>5. FirstAlone(t)'
  BY <1>2, <1>3 DEF HandoverTurn, FirstAlone, RunsOn
<1>6. InStep(t)'
  BY <1>2, <1>3, <1>4 DEF HandoverTurn, InStep, RunsOn
<1>7. HalfGoesOn(t)'
  <2> SUFFICES ASSUME NEW q \in Runs, Half(q, t)
               PROVE  Active(q)' \/ Len(thread'[t].answers) >= 1 \/ thread'[t].status = "done"
    BY <1>3 DEF HalfGoesOn
  <2>1. q \in RunsOn(t)
    BY DEF Half, Clean, RunsOn
  <2>2. CASE q = r
    <3>1. Len(run[r].answers) = 1
      BY <2>2 DEF Half, HalfSigned
    <3>2. CASE thread'[t].answers = run[r].answers
      <4>1. Len(thread'[t].answers) = 1
        BY <3>1, <3>2
      <4> QED BY <4>1
    <3>3. CASE run[r].epoch # thread[t].epoch
      BY <1>1, <1>4, <3>3 DEF HandoverTurn, InStep
    <3> QED BY <1>4, <3>2, <3>3
  <2>3. CASE q # r
    <3>1. Len(run[r].answers) # 0 /\ Len(run[r].answers) \in Nat
      BY <1>1, <2>1, <2>3 DEF HandoverTurn, FirstAlone, Half, Clean
    <3>2. Len(run[r].answers) >= 1
      BY <3>1
    <3> QED BY <1>3, <1>4, <2>3, <3>2 DEF HandoverTurn, HalfGoesOn
  <2> QED BY <2>2, <2>3
<1>8. OneHalf(t)'
  BY <1>3 DEF HandoverTurn, OneHalf
<1> QED BY <1>5, <1>6, <1>7, <1>8 DEF HandoverTurn

LEMMA HandoverEnds ==
  ASSUME TypeOK, NEW t \in Threads, HandoverTurn(t), NEW r \in Runs, Finish(r),
         run[r].of = t
  PROVE  HandoverTurn(t)'
<1>1. /\ RunBecomes(r, "ended", run[r].at, run[r].content) /\ r \in RunsOn(t)
      /\ Active(r) /\ ~Active(r)'
  BY FinishEffect DEF Finish, Active, RunsOn, RunBecomes
<1>2. RunsOn(t)' = RunsOn(t)
  BY <1>1 DEF RunBecomes, RunsOn, Active
<1>3. \A q \in Runs : /\ Active(q)' => Active(q) /\ q # r
                      /\ run'[q].answers = run[q].answers
                      /\ run'[q].overlaps = run[q].overlaps
                      /\ Half(q, t)' <=> Half(q, t)
  BY <1>1 DEF RunBecomes, Active, Half, Clean, HalfSigned
<1>4. thread'[t].status = "done"
  BY DEF Finish, TypeOK, Checkpoint
<1>5. FirstAlone(t)'
  BY <1>2, <1>3 DEF HandoverTurn, FirstAlone, RunsOn
<1>6. InStep(t)' /\ HalfGoesOn(t)'
  BY <1>4 DEF InStep, HalfGoesOn
<1>7. OneHalf(t)'
  BY <1>3 DEF HandoverTurn, OneHalf
<1> QED BY <1>5, <1>6, <1>7 DEF HandoverTurn

HandoverTurns == \A t \in Threads : AgentOf[t] = "shift-handover" => HandoverTurn(t)

LEMMA HandoverTurnsStep ==
  ASSUME TypeOK, NewIsNew, HandoverTurns, [Next]_vars
  PROVE  HandoverTurns'
<1> SUFFICES ASSUME NEW t \in Threads, AgentOf[t] = "shift-handover"
             PROVE  HandoverTurn(t)'
  BY DEF HandoverTurns
<1>0. HandoverTurn(t) /\ thread \in [Threads -> Thread]
  BY DEF HandoverTurns, TypeOK
<1>1. CASE UNCHANGED vars
  BY <1>0, <1>1 DEF vars, HandoverTurn, FirstAlone, InStep, HalfGoesOn, OneHalf, Half,
                    Clean, HalfSigned, RunsOn, Active
<1>2. ASSUME NEW r \in Runs, NEW u \in Threads, Invoke(r, u)
      PROVE  HandoverTurn(t)'
  <2>1. CASE u # t
    <3>1. /\ r \notin RunsOn(t) /\ r \notin RunsOn(t)'
          /\ \A q \in Runs \ {r} : run'[q] = run[q]
      BY <1>2, <2>1, InvokeEffect DEF RunBegins, RunsOn
    <3>2. thread'[t] = thread[t]
      BY <1>0, <1>2, <2>1 DEF Invoke, Start, ResumeThread, ResumeAgent, NewTurn
    <3> QED BY <1>0, <3>1, <3>2, HandoverElsewhere
  <2>2. CASE u = t
    <3>1. ~ResumeAgent(r, u)
      BY <2>2 DEF ResumeAgent, OwnResume
    <3> QED BY <1>0, <1>2, <2>2, <3>1, HandoverStarts, HandoverResumes DEF Invoke
  <2> QED BY <2>1, <2>2
<1>3. ASSUME NEW r \in Runs, NEW pc, NEW at, NEW c, RunBecomes(r, pc, at, c),
             run[r].of # t, thread'[t] = thread[t]
      PROVE  HandoverTurn(t)'
  <2>1. r \notin RunsOn(t) /\ r \notin RunsOn(t)' /\ \A q \in Runs \ {r} : run'[q] = run[q]
    BY <1>3 DEF RunBecomes, RunsOn
  <2> QED BY <1>0, <1>3, <2>1, HandoverElsewhere
<1>4. ASSUME NEW r \in Runs, Interrupt(r)
      PROVE  HandoverTurn(t)'
  <2>1. CASE run[r].of = t
    BY <1>0, <1>4, <2>1, HandoverAsks
  <2>2. CASE run[r].of # t
    <3>1. thread'[t] = thread[t]
      BY <1>0, <1>4, <2>2 DEF Interrupt
    <3> QED BY <1>3, <1>4, <2>2, <3>1, InterruptEffect
  <2> QED BY <2>1, <2>2
<1>5. ASSUME NEW r \in Runs, Finish(r)
      PROVE  HandoverTurn(t)'
  <2>1. CASE run[r].of = t
    BY <1>0, <1>5, <2>1, HandoverEnds
  <2>2. CASE run[r].of # t
    <3>1. thread'[t] = thread[t]
      BY <1>0, <1>5, <2>2 DEF Finish
    <3> QED BY <1>3, <1>5, <2>2, <3>1, FinishEffect
  <2> QED BY <2>1, <2>2
<1>6. ASSUME NEW r \in Runs, Execute(r) \/ Fail(r), ~Interrupt(r), ~Finish(r)
      PROVE  HandoverTurn(t)'
  <2>1. Active(r) /\ UNCHANGED thread
    BY <1>6 DEF Execute, Compute, Pass, WriteRow, WriteRaises, Fail, AtStep, Active
  <2>2. \E pc \in {"running", "failed"} : \E at, c : RunBecomes(r, pc, at, c)
    BY <1>6, ComputeEffect, PassEffect, WriteRowEffect, WriteRaisesEffect, FailEffect
       DEF Execute
  <2> QED BY <1>0, <2>1, <2>2, HandoverMoves
<1> QED BY <1>1, <1>2, <1>4, <1>5, <1>6 DEF Next

-----------------------------------------------------------------------------
(* The count *)

Writers(x) == {r \in Runs : \E y \in CopiesOf(x) : y.by = r}

\* The writers that had the second question of a handover still to ask.
HalfWriters(x) == {r \in Writers(x) : Half(r, x.of)}

AllTurns == \A t \in Threads : \A k \in Kinds : \A n \in Nat : TurnsCounted(t, k, n)

CopiesInv ==
  /\ IInv /\ RowsTell
  /\ OneAtATime /\ NewIsNew /\ FewStarted /\ HandoverTurns
  /\ AllTurns

\* A run writes one copy of a row.
LEMMA CopiesAreWriters ==
  ASSUME TypeOK, RowsTell, FewStarted, NEW x \in rows
  PROVE  /\ Writers(x) \in SUBSET {r \in Runs : run[r].pc # "idle"}
         /\ Cardinality(CopiesOf(x)) <= Cardinality(Writers(x))
         /\ Cardinality(CopiesOf(x)) \in Nat
<1>1. ASSUME NEW y \in CopiesOf(x)
      PROVE  /\ y.by \in Writers(x) /\ run[y.by].pc # "idle" /\ y \in Recorded
             /\ y.of = x.of /\ y.kind = x.kind /\ y.needs = x.needs
             /\ y.answers = run[y.by].answers /\ y.content = run[y.by].content
  BY RowOwner DEF CopiesOf, Writers, RowOf, TypeOK
<1>2. Writers(x) \in SUBSET {r \in Runs : run[r].pc # "idle"}
  BY <1>1 DEF Writers
<1>3. ASSUME NEW y \in CopiesOf(x), NEW z \in CopiesOf(x), y.by = z.by
      PROVE  y = z
  <2>1. /\ y.of = z.of /\ y.kind = z.kind /\ y.needs = z.needs
        /\ y.answers = z.answers /\ y.content = z.content
        /\ y \in Recorded /\ z \in Recorded
    BY <1>1, <1>3
  <2> QED BY <1>3, <2>1 DEF Recorded
<1> DEFINE by == [y \in CopiesOf(x) |-> y.by]
<1>4. by \in Injection(CopiesOf(x), Writers(x))
  BY <1>1, <1>3 DEF Injection, IsInjective
<1>5. IsFiniteSet(Writers(x))
  BY <1>2, FewRuns
<1>6. IsFiniteSet(CopiesOf(x)) /\ Cardinality(CopiesOf(x)) <= Cardinality(Writers(x))
  BY <1>4, <1>5, FS_Injection
<1>7. Cardinality(CopiesOf(x)) \in Nat
  BY <1>6, FS_CardinalityType
<1> QED BY <1>2, <1>6, <1>7

\* Who wrote a copy failed, overlapped another run, closed a turn, or was half
\* way through a handover.
LEMMA WritersAre ==
  ASSUME TypeOK, RowsTell, NEW x \in rows
  PROVE  Writers(x) \subseteq Failed(x.of) \cup Overlapping(x.of)
                                \cup Closers(x.of, x.kind, x.needs) \cup HalfWriters(x)
<1> SUFFICES ASSUME NEW r \in Writers(x), r \notin Failed(x.of), r \notin Overlapping(x.of),
                    r \notin HalfWriters(x)
             PROVE  r \in Closers(x.of, x.kind, x.needs)
  OBVIOUS
<1>1. PICK y \in rows : y.by = r /\ y.of = x.of /\ y.kind = x.kind /\ y.needs = x.needs
  BY DEF Writers, CopiesOf
<1>2. r \in Runs /\ run[r].pc # "idle" /\ run[r].of = x.of
  BY <1>1, RowOwner DEF RowOf
<1>3. Clean(r, x.of)
  BY <1>2 DEF Clean, Failed, Overlapping, RunsOn
<1>4. ~HalfSigned(r)
  BY <1>3 DEF HalfWriters, Half
<1>5. Wrote(r, x.kind, x.needs)
  BY <1>1 DEF Wrote
<1> QED BY <1>2, <1>3, <1>4, <1>5 DEF Closers, Closes

\* Half of a handover is signed once by such a run, and the row it writes has a
\* question after it.
LEMMA HalfWritersAsk ==
  ASSUME IInv, RowsTell, FewStarted, HandoverTurns, NEW x \in rows
  PROVE  /\ Cardinality(HalfWriters(x)) <= Cardinality(QuestionsAfter(x))
         /\ Cardinality(QuestionsAfter(x)) \in Nat
<1> DEFINE s == Script(AgentOf[x.of], x.content)
           p == x.by
<1>1. /\ p \in Runs /\ RowOf(x, p) /\ run[p] \in Run /\ RunScript(p) \in Seq(Step)
      /\ RunScript(p) = s
  BY RowOwner DEF IInv, RowOf, RunScript
<1>2. QuestionsAfter(x) \subseteq 1..Len(s) /\ Len(s) \in Nat
  BY <1>1 DEF QuestionsAfter
<1>3. IsFiniteSet(QuestionsAfter(x)) /\ Cardinality(QuestionsAfter(x)) \in Nat
  <2>1. PICK m \in Nat : QuestionsAfter(x) \subseteq 1..m
    BY <1>2
  <2>2. IsFiniteSet(1..m)
    BY <2>1, FS_Interval
  <2>3. IsFiniteSet(QuestionsAfter(x))
    BY <2>1, <2>2, FS_Subset
  <2> QED BY <2>3, FS_CardinalityType
<1>4. CASE HalfWriters(x) = {}
  BY <1>3, <1>4, FS_EmptySet
<1>5. CASE HalfWriters(x) # {}
  <2>1. PICK r \in HalfWriters(x) : TRUE
    BY <1>5
  <2>2. r \in Runs /\ Half(r, x.of) /\ x.of \in Threads
    BY <2>1 DEF HalfWriters, Writers, IInv, TypeOK, Recorded
  <2>3. AgentOf[x.of] = "shift-handover"
    BY <2>2 DEF Half, Clean, HalfSigned
  <2>4. HandoverTurn(x.of)
    BY <2>2, <2>3 DEF HandoverTurns
  <2>5. HalfWriters(x) = {r}
    <3>1. \A q \in HalfWriters(x) : q \in Runs /\ Half(q, x.of)
      BY DEF HalfWriters, Writers
    <3> QED BY <2>1, <2>2, <2>4, <3>1 DEF HandoverTurn, OneHalf
  <2>6. x.needs = 1
    <3>1. PICK y \in rows : y.by = r /\ y.needs = x.needs
      BY <2>1 DEF HalfWriters, Writers, CopiesOf
    <3>2. RowOf(y, r) /\ run[r].content \in Contents \cup {Nothing} /\ run[r].of = x.of
      BY <2>2, <3>1, RowOwner DEF IInv, Run, Half, Clean
    <3>3. y.needs \in 1..2
      BY <2>3, <3>2, HandoverNeeds DEF RowOf, RunScript
    <3>4. Len(y.answers) = 1 /\ Len(y.answers) >= y.needs
      BY <2>2, <3>2 DEF Half, HalfSigned, RowOf, IInv, SignedByAnswer
    <3> QED BY <3>1, <3>3, <3>4
  <2>7. s = HandoverScript
    BY <1>1, <2>3, HandoverNeeds DEF RowOf, RunScript, Run
  <2>8. 3 \in QuestionsAfter(x)
    <3>1. 3 \in DOMAIN HandoverScript /\ HandoverScript[3] = Ask(2)
      BY DEF HandoverScript
    <3> QED BY <2>6, <2>7, <3>1 DEF QuestionsAfter, Ask
  <2>9. Cardinality(QuestionsAfter(x)) # 0
    BY <1>3, <2>8, FS_EmptySet
  <2> QED BY <1>3, <2>5, <2>9, FS_Singleton
<1> QED BY <1>3, <1>4, <1>5

LEMMA FourSets ==
  ASSUME NEW A, NEW B, NEW C, NEW D, NEW S \in SUBSET (A \cup B \cup C \cup D),
         IsFiniteSet(A), IsFiniteSet(B), IsFiniteSet(C), IsFiniteSet(D)
  PROVE  Cardinality(S)
           <= Cardinality(A) + Cardinality(B) + Cardinality(C) + Cardinality(D)
<1>1. ASSUME NEW U, NEW V, IsFiniteSet(U), IsFiniteSet(V)
      PROVE  /\ IsFiniteSet(U \cup V)
             /\ Cardinality(U \cup V) <= Cardinality(U) + Cardinality(V)
             /\ Cardinality(U) \in Nat
  <2>1. /\ IsFiniteSet(U \cup V) /\ IsFiniteSet(U \cap V)
        /\ Cardinality(U \cup V) = Cardinality(U) + Cardinality(V) - Cardinality(U \cap V)
    BY <1>1, FS_Union, FS_Subset
  <2>2. Cardinality(U) \in Nat /\ Cardinality(V) \in Nat /\ Cardinality(U \cap V) \in Nat
    BY <1>1, <2>1, FS_CardinalityType
  <2> QED BY <2>1, <2>2
<1>2. /\ IsFiniteSet(A \cup B)
      /\ Cardinality(A \cup B) <= Cardinality(A) + Cardinality(B)
  BY <1>1
<1>3. /\ IsFiniteSet(A \cup B \cup C)
      /\ Cardinality(A \cup B \cup C) <= Cardinality(A \cup B) + Cardinality(C)
  BY <1>1, <1>2
<1>4. /\ IsFiniteSet(A \cup B \cup C \cup D)
      /\ Cardinality(A \cup B \cup C \cup D) <= Cardinality(A \cup B \cup C) + Cardinality(D)
  BY <1>1, <1>3
<1>5. Cardinality(S) <= Cardinality(A \cup B \cup C \cup D)
  BY <1>4, FS_Subset
<1>6. /\ Cardinality(A) \in Nat /\ Cardinality(B) \in Nat /\ Cardinality(C) \in Nat
      /\ Cardinality(D) \in Nat /\ Cardinality(S) \in Nat /\ Cardinality(A \cup B) \in Nat
      /\ Cardinality(A \cup B \cup C) \in Nat /\ Cardinality(A \cup B \cup C \cup D) \in Nat
  BY <1>2, <1>3, <1>4, FS_CardinalityType, FS_Subset
<1> QED BY <1>2, <1>3, <1>4, <1>5, <1>6

LEMMA CopiesCounted ==
  ASSUME CopiesInv
  PROVE  CopiesExplained
<1> SUFFICES ASSUME NEW x \in rows
             PROVE  Cardinality(CopiesOf(x)) <=
                      1 + Cardinality(QuestionsAfter(x)) + Cardinality(Failed(x.of))
                        + Cardinality(Overlapping(x.of)) + Cardinality(StartedOver(x.of))
  BY DEF CopiesExplained
<1> USE DEF CopiesInv
<1> DEFINE t == x.of
           F == Failed(t)
           O == Overlapping(t)
           C == Closers(t, x.kind, x.needs)
           H == HalfWriters(x)
<1>1. TypeOK /\ t \in Threads /\ x.kind \in Kinds /\ x.needs \in Nat
  BY DEF IInv, TypeOK, Recorded
<1>2. /\ Writers(x) \in SUBSET {r \in Runs : run[r].pc # "idle"}
      /\ Cardinality(CopiesOf(x)) <= Cardinality(Writers(x))
      /\ Cardinality(CopiesOf(x)) \in Nat
  BY <1>1, CopiesAreWriters
<1>3. /\ F \in SUBSET {r \in Runs : run[r].pc # "idle"}
      /\ O \in SUBSET {r \in Runs : run[r].pc # "idle"}
      /\ C \in SUBSET {r \in Runs : run[r].pc # "idle"}
      /\ H \in SUBSET {r \in Runs : run[r].pc # "idle"}
      /\ StartedOver(t) \in SUBSET {r \in Runs : run[r].pc # "idle"}
      /\ CopiesOf(x) \subseteq rows
  BY <1>1, <1>2, FewCounted
     DEF Failed, Overlapping, RunsOn, HalfWriters, CopiesOf
<1>4. /\ IsFiniteSet(F) /\ Cardinality(F) \in Nat /\ IsFiniteSet(O) /\ Cardinality(O) \in Nat
      /\ IsFiniteSet(C) /\ Cardinality(C) \in Nat /\ IsFiniteSet(H) /\ Cardinality(H) \in Nat
      /\ Cardinality(StartedOver(t)) \in Nat /\ Cardinality(Writers(x)) \in Nat
  BY <1>2, <1>3, FewRuns
<1>5. Writers(x) \in SUBSET (F \cup O \cup C \cup H)
  BY <1>1, WritersAre
<1>6. Cardinality(Writers(x))
        <= Cardinality(F) + Cardinality(O) + Cardinality(C) + Cardinality(H)
  BY <1>4, <1>5, FourSets
<1>7. Cardinality(C) <= 1 + Cardinality(StartedOver(t))
  <2>1. TurnsCounted(t, x.kind, x.needs)
    BY <1>1 DEF AllTurns
  <2> QED BY <1>4, <2>1 DEF TurnsCounted
<1>8. Cardinality(H) <= Cardinality(QuestionsAfter(x)) /\ Cardinality(QuestionsAfter(x)) \in Nat
  BY HalfWritersAsk
<1>9. Cardinality(CopiesOf(x)) <= 1 + Cardinality(H) + Cardinality(F) + Cardinality(O)
                                    + Cardinality(StartedOver(t))
  <2> HIDE DEF F, O, C, H, t
  <2> QED BY <1>2, <1>4, <1>6, <1>7
<1> QED BY <1>2, <1>4, <1>8, <1>9

LEMMA CopiesInit == Init => CopiesInv
<1> SUFFICES ASSUME Init
             PROVE  CopiesInv
  OBVIOUS
<1>1. /\ \A r \in Runs : run[r].pc = "idle"
      /\ \A t \in Threads : thread[t].status = "new" /\ thread[t].shown = Nothing
      /\ rows = {}
  BY DEF Init, Idle, Checkpoint
<1>2. IInv /\ RowsTell
  BY <1>1, IInvInit DEF RowsTell, Tells, Executing
<1>3. OneAtATime /\ NewIsNew
  BY <1>1 DEF OneAtATime, NewIsNew, RunsOn, Active
<1>4. FewStarted
  <2>1. {r \in Runs : run[r].pc # "idle"} = {}
    BY <1>1
  <2> QED BY <2>1, FS_EmptySet DEF FewStarted
<1>5. HandoverTurns
  BY <1>1 DEF HandoverTurns, HandoverTurn, FirstAlone, InStep, HalfGoesOn, OneHalf, Half,
              Clean, RunsOn
<1>6. AllTurns
  <2> SUFFICES ASSUME NEW t \in Threads, NEW k \in Kinds, NEW n \in Nat
               PROVE  TurnsCounted(t, k, n)
    BY DEF AllTurns
  <2>1. Closers(t, k, n) = {} /\ StartedOver(t) = {} /\ ~Pending(t, k, n)
    BY <1>1 DEF Closers, Closes, Clean, StartedOver, RunsOn, Pending, Hopeful, Active
  <2>2. Cardinality({}) = 0
    BY FS_EmptySet
  <2> QED BY <2>1, <2>2 DEF TurnsCounted
<1> QED BY <1>2, <1>3, <1>4, <1>5, <1>6 DEF CopiesInv

LEMMA CopiesStep == CopiesInv /\ [Next]_vars => CopiesInv'
<1> SUFFICES ASSUME CopiesInv, [Next]_vars
             PROVE  CopiesInv'
  OBVIOUS
<1>1. /\ IInv /\ TypeOK /\ RowsTell /\ OneAtATime /\ NewIsNew /\ FewStarted
      /\ HandoverTurns /\ AllTurns
  BY DEF CopiesInv, IInv
<1>2. IInv' /\ RowsTell'
  BY <1>1, IInvNext, RowsTellStep
<1>3. OneAtATime' /\ NewIsNew' /\ FewStarted' /\ HandoverTurns'
  BY <1>1, OneAtATimeStep, NewIsNewStep, FewStartedStep, HandoverTurnsStep
<1>4. AllTurns'
  <2> SUFFICES ASSUME NEW t \in Threads, NEW k \in Kinds, NEW n \in Nat
               PROVE  TurnsCounted(t, k, n)'
    BY DEF AllTurns
  <2>1. TurnsCounted(t, k, n)
    BY <1>1 DEF AllTurns
  <2> QED BY <1>1, <1>3, <2>1, TurnsCountedStep
<1> QED BY <1>2, <1>3, <1>4 DEF CopiesInv

-----------------------------------------------------------------------------
(* The theorem *)

\* The rows of a thread tell its story, for any number of threads, runs and
\* faults: a run that returned has written every row of its agent; a handover
\* is drafted only with both sign-offs on record; and a row has at most one
\* copy for every later question of its agent, every run that failed, every run
\* that overlapped another and every time its thread was started over.
THEOREM RowsAreExplained == Spec => []RowsExplained
<1>1. CopiesInv => RowsExplained
  <2> SUFFICES ASSUME CopiesInv
               PROVE  RowsExplained
    OBVIOUS
  <2>1. TypeOK /\ RowsTell
    BY DEF CopiesInv, IInv
  <2> QED BY <2>1, RowsTellFinished, RowsTellDrafts, CopiesCounted DEF RowsExplained
<1> QED BY <1>1, CopiesInit, CopiesStep, PTL DEF Spec
=============================================================================
