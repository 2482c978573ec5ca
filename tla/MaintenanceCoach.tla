-------------------------- MODULE MaintenanceCoach --------------------------
(***************************************************************************)
(* The maintenance coach: a graph that prepares one step of a procedure,   *)
(* stops, takes the answer as that step's report, and goes on.  A run that *)
(* stops returns to its caller like one that ends, so every call answers   *)
(* with the number of the current step and no guidance.                    *)
(* The thread of an intervention lives in the checkpointer; start, step    *)
(* and resume_after_help each read it, run the graph on what they read up  *)
(* to the next interrupt, and write it back.  Nothing orders two such      *)
(* calls: the last checkpoint written is the one the next call reads.      *)
(* Interventions do not interact, so there is one.                         *)
(*                                                                         *)
(* A report is the answer (the id of the call that brought it) with the    *)
(* step it was filed under and the step the last answer of the coach had   *)
(* named when it was sent.                                                 *)
(***************************************************************************)
EXTENDS Integers, FiniteSets, Sequences, SequencesExt

CONSTANTS
  Clients,   \* concurrent requests for the intervention
  MaxSteps,  \* _MAX_STEPS (100)
  MaxCalls, MaxErrors \* bounds

ASSUME CoachAssumption ==
  /\ IsFiniteSet(Clients) /\ MaxSteps \in Nat \ {0}
  /\ MaxCalls \in Nat /\ MaxErrors \in Nat

VARIABLES
  thread,    \* the latest checkpoint
  call,      \* [Clients -> the request that runs]
  told,      \* current step the last answer named, -1 before the first
  auditRows,     \* rows: [id of the call, step, answer the row carries (0: none)]
  made,      \* reports ever checkpointed
  calls, errors, overlaps, restarts, resumes  \* counters, history

vars == <<thread, call, told, auditRows, made, calls, errors, overlaps, restarts, resumes>>

Absent == [state |-> "absent", technician |-> FALSE, step |-> 0, reports |-> <<>>]
Idle == [op |-> "none"]
Unassigned(t) == ~t.technician /\ t.step = 0
LastStepDone(t) == t.step >= MaxSteps
Complete(t) == [t EXCEPT !.state = "ended"]
Busy == {c \in Clients : call[c].op # "none"}
Answers(reports) == {reports[k].answer : k \in DOMAIN reports}
LastAnswer(reports) == IF reports = <<>> THEN 0 ELSE Last(reports).answer
Before(step) == IF step = 0 THEN 0 ELSE step - 1

Init ==
  /\ thread = Absent /\ call = [c \in Clients |-> Idle]
  /\ told = -1 /\ auditRows = {} /\ made = {}
  /\ calls = 0 /\ errors = 0 /\ overlaps = 0 /\ restarts = 0 /\ resumes = 0

\* A request begins: id, what it read, and the step its sender was told.
Begin(c, op, at, view) ==
  /\ call[c].op = "none" /\ calls < MaxCalls
  /\ calls' = calls + 1
  /\ overlaps' = overlaps + (IF Busy = {} THEN 0 ELSE 1)
  /\ call' = [call EXCEPT ![c] = [op |-> op, at |-> at, view |-> view,
                                  id |-> calls + 1, saw |-> told]]

\* start gives the graph a fresh state, also when the thread has progress.
StartSession(c) ==
  /\ \E technician \in BOOLEAN :
       LET fresh == [Absent EXCEPT !.state = "open", !.technician = technician]
       IN Begin(c, "start", "node", fresh) /\ thread' = fresh
  /\ restarts' = restarts + (IF thread.state = "absent" THEN 0 ELSE 1)
  /\ UNCHANGED <<told, auditRows, made, errors, resumes>>

\* step and resume_after_help give it a Command(resume=...).  A thread that
\* does not exist makes them fail; one that ended has nothing left to run, and
\* after the last step only the complete node is.
Resume(c) ==
  /\ thread.state # "absent"
  /\ \E op \in {"step", "resume_after_help"} :
       /\ Begin(c, op,
            CASE thread.state = "ended" -> "finished"
              [] thread.state = "open" /\ LastStepDone(thread) -> "node"
              [] OTHER -> "input", thread)
       /\ resumes' = resumes + (IF op = "step" THEN 0 ELSE 1)
  /\ UNCHANGED <<thread, told, auditRows, made, errors, restarts>>

\* The step node runs again from its top and its interrupt returns the input.
\* Without a technician the input is dropped.
TakeInput(c) ==
  /\ call[c].op # "none" /\ call[c].at = "input"
  /\ LET t == call[c].view
         report == [step |-> t.step, answer |-> call[c].id, saw |-> call[c].saw]
         next == IF Unassigned(t) THEN t
                 ELSE [t EXCEPT !.step = @ + 1, !.reports = Append(@, report)]
     IN /\ thread' = next
        /\ made' = made \cup (Range(next.reports) \ Range(t.reports))
        /\ call' = [call EXCEPT ![c].view = next, ![c].at = "node"]
  /\ UNCHANGED <<told, auditRows, calls, errors, overlaps, restarts, resumes>>

\* The next node: complete after the last step, else the step node up to its
\* interrupt, which asks for an assignment or holds the guidance.
RunNode(c) ==
  /\ call[c].op # "none" /\ call[c].at = "node"
  /\ IF LastStepDone(call[c].view)
     THEN /\ thread' = Complete(call[c].view)
          /\ call' = [call EXCEPT ![c].view = thread', ![c].at = "finished"]
     ELSE call' = [call EXCEPT ![c].at = "interrupted"] /\ UNCHANGED thread
  /\ UNCHANGED <<told, auditRows, made, calls, errors, overlaps, restarts, resumes>>

\* An audit row; a writer that fails is logged and the answer returned.
WriteAudit(c, step, answer) ==
  \/ auditRows' = auditRows \cup {[id |-> call[c].id, step |-> step, answer |-> answer]} /\ UNCHANGED errors
  \/ errors < MaxErrors /\ errors' = errors + 1 /\ UNCHANGED auditRows

End(c) == call' = [call EXCEPT ![c] = Idle]

\* start returns at the first interrupt, with a technician or without, and
\* writes no row.
StartReturns(c) ==
  /\ call[c].op = "start" /\ call[c].at = "interrupted"
  /\ told' = 0 /\ End(c)
  /\ UNCHANGED <<thread, auditRows, made, calls, errors, overlaps, restarts, resumes>>

\* Fault variant of StepReturns: the step just done is named.
StepReturnsOld(c) ==
  /\ call[c].op = "step" /\ call[c].at \in {"interrupted", "finished"}
  /\ WriteAudit(c, Before(call[c].view.step), LastAnswer(call[c].view.reports))
  /\ told' = Before(call[c].view.step) /\ End(c)
  /\ UNCHANGED <<thread, made, calls, overlaps, restarts, resumes>>

\* step, at an interrupt or at the end: the row and the answer are made of the
\* run's own result, and the row names the step before the current one.
StepReturns(c) ==
  /\ call[c].op = "step" /\ call[c].at \in {"interrupted", "finished"}
  /\ WriteAudit(c, Before(call[c].view.step), LastAnswer(call[c].view.reports))
  /\ told' = call[c].view.step /\ End(c)
  /\ UNCHANGED <<thread, made, calls, overlaps, restarts, resumes>>

\* resume_after_help: the row with decision hitl_supervisor is built without its
\* motivation and is refused by AuditRecord outside the try; the call raises,
\* after the graph moved on.
SupervisorRowRefused(c) ==
  /\ call[c].op = "resume_after_help" /\ call[c].at \in {"interrupted", "finished"}
  /\ End(c)
  /\ UNCHANGED <<thread, told, auditRows, made, calls, errors, overlaps, restarts, resumes>>

\* The checkpointer fails or the process stops while the call runs.
Fail(c) ==
  /\ call[c].op # "none" /\ errors < MaxErrors /\ errors' = errors + 1
  /\ End(c)
  /\ UNCHANGED <<thread, told, auditRows, made, calls, overlaps, restarts, resumes>>

Next ==
  \E c \in Clients :
    \/ StartSession(c) \/ Resume(c) \/ TakeInput(c) \/ RunNode(c)
    \/ StartReturns(c) \/ StepReturns(c) \/ SupervisorRowRefused(c) \/ Fail(c)

Spec == Init /\ [][Next]_vars

-----------------------------------------------------------------------------
Reports == [step : 0..(MaxSteps - 1), answer : 1..MaxCalls, saw : -1..MaxSteps]
IsThread(t) ==
  /\ DOMAIN t = {"state", "technician", "step", "reports"}
  /\ t.state \in {"absent", "open", "ended"} /\ t.technician \in BOOLEAN
  /\ t.step \in 0..MaxSteps /\ t.reports \in Seq(Reports)

\* The types of the variables.
TypeOK ==
  /\ IsThread(thread)
  /\ \A c \in Busy :
       /\ call[c].op \in {"start", "step", "resume_after_help"}
       /\ call[c].at \in {"input", "node", "interrupted", "finished"}
       /\ IsThread(call[c].view) /\ call[c].id \in 1..calls /\ call[c].saw \in -1..MaxSteps
  /\ told \in -1..MaxSteps
  /\ auditRows \subseteq [id : 1..MaxCalls, step : 0..MaxSteps, answer : 0..MaxCalls]
  /\ made \subseteq Reports
  /\ {calls, errors, overlaps, restarts, resumes} \subseteq Nat

\* Whatever calls overlap, the checkpoint is one history: the reports are
\* those of steps 0, 1, ... in order up to the current step, none was filed
\* before a technician was assigned, and only the last step ends it.
OneHistory ==
  /\ Len(thread.reports) = thread.step
  /\ \A k \in DOMAIN thread.reports : thread.reports[k].step = k - 1
  /\ thread.reports # <<>> => thread.technician
  /\ thread.state = "ended" => thread.step = MaxSteps

\* A report leaves the thread only when two calls overlapped or the
\* intervention was started again; a failed call loses none.
ReportsKept ==
  overlaps = 0 /\ restarts = 0 => {r.answer : r \in made} \subseteq Answers(thread.reports)

\* An answer is filed under the step its sender was told to be at.  When calls
\* do not overlap each exception needs a call that failed after the graph moved
\* on, or a resume by a supervisor, which returns nothing.
FiledWhereSeen ==
  overlaps = 0 =>
    Cardinality({r \in Range(thread.reports) : r.saw # r.step}) <= errors + resumes

\* A row that carries a report names that report's step, whichever calls overlap
\* and whatever of their reports the thread still has.
RowsTrue ==
  \A row \in auditRows : \A r \in made : row.answer = r.answer => row.step = r.step

\* Once no call runs, every report has a row, those the thread lost too; each
\* exception is a fault or a supervisor's resume.
ReportsAudited ==
  Busy = {} =>
    Cardinality({r \in made : \A row \in auditRows : row.answer # r.answer}) <= errors + resumes

\* The reports of an intervention tell what the technicians did, whoever resumes
\* whose session and whatever fails.
ReportsTrue ==
  /\ TypeOK
  /\ OneHistory
  /\ ReportsKept
  /\ FiledWhereSeen
  /\ RowsTrue
  /\ ReportsAudited
=============================================================================
