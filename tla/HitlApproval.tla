---------------------------- MODULE HitlApproval ----------------------------
(***************************************************************************)
(* The human-in-the-loop approval cycle: the hitl.approvals table and the  *)
(* concurrent processes that write it.                                     *)
(*   - an agent's graph thread inserts a pending row and stops at          *)
(*     interrupt() (sft_agents/hitl/interrupt.py, human_approval_node);    *)
(*   - the budget tracker and the governor insert rows no thread waits for *)
(*     (runtime/budget.py, runtime/governor.py);                           *)
(*   - the gateway decides a row and resumes the row's thread              *)
(*     (routers/approvals.py), or resumes a thread by name                 *)
(*     (routers/threads.py); a resume runs the rest of the node;           *)
(*   - one escalation supervisor per gateway replica scans the overdue     *)
(*     rows and escalates or times them out (runtime/escalation.py).       *)
(* A step of a process is one SQL statement or transaction together with   *)
(* the code up to the next await; anything may happen between two steps.   *)
(* NATS notifications are not modelled here: every publish is              *)
(* fire-and-forget and a failed one is swallowed.                          *)
(***************************************************************************)
EXTENDS EscalationPolicy, FiniteSets, Naturals

CONSTANTS
  Actions,      \* proposed actions; each is also the id of its first row, the
                \* digest of (thread, action) or the uuid4 of a detached row
  FreshIds,     \* uuid4 ids the escalation transaction draws from
  Threads,      \* graph threads
  Requests,     \* HTTP requests, each sent once
  Supervisors,  \* escalation supervisors, one per gateway replica
  ThreadOf,     \* the thread_id column of an action's rows
  TierOf,       \* the tier at which an action asks for approval
  Detached,     \* actions whose row no node waits for (budget, governor)
  Unauditable,  \* detached actions whose action_type the CHECK constraint of
                \* audit.actions refuses (BUDGET_EXHAUSTED, BUDGET_SOFT_LIMIT)
  Verbs,        \* the verbs the requests may carry
  Motivations,  \* the motivations they may carry
  ScanLimit,    \* LIMIT of the supervisor's query
  MaxFaults,    \* bound on the crashes, lost requests and failed statements
  NoRow, None

Ids == Actions \cup FreshIds

\* "placeholder" is what a handler records when the caller sent a blank one.
Motivation == {"given", "placeholder"}

ASSUME DistinctNames ==
  /\ Actions \cap FreshIds = {}
  /\ None \notin Ids \cup Threads \cup Requests \cup Supervisors

ASSUME ConstantTypes ==
  /\ ThreadOf \in [Actions -> Threads]
  /\ TierOf \in [Actions -> Tier]
  /\ Unauditable \subseteq Detached
  /\ Detached \subseteq Actions
  /\ Verbs \subseteq Verb
  /\ Motivations \subseteq Motivation
  /\ ScanLimit \in Nat \ {0}
  /\ MaxFaults \in Nat

VARIABLES
  approvals,  \* hitl.approvals: id -> row or NoRow
  thread,     \* where each graph thread stands with respect to its node
  finished,   \* actions whose node has returned
  request,    \* the gateway's handler of each request
  scan,       \* each supervisor: the rows its query returned, the row in hand
  audit,      \* audit.actions rows about approvals
  faults      \* crashes, lost requests and failed statements so far

vars == <<approvals, thread, finished, request, scan, audit, faults>>

-----------------------------------------------------------------------------
(* State *)

\* overdue stands for sla_deadline < NOW().
Row ==
  [action : Actions, tier : Tier, status : Status, overdue : BOOLEAN,
   escalated_to_id : Ids \cup {None}, decided_by : Requests \cup {None},
   motivation : Motivation \cup {None}]

ASSUME NoRowIsNoRow == NoRow \notin Row

\* at is the action the thread's node is working on.
Thread ==
  [phase : {"idle", "inserted", "interrupted"}, at : Actions \cup {None}]

\* The program counter of a handler.  "node" to "recorded" is the part of
\* human_approval_node that runs inside the resume.
Pc == {"unsent", "selected", "updated", "node", "audit", "recorded", "done", "lost"}

\* The status code of the answer; 0 before there is one.
Code == {0, 200, 400, 404}

Request ==
  [pc : Pc, path : {"decide", "resume"}, id : Ids \cup {None},
   thread : Threads \cup {None}, verb : Verb, motivation : Motivation,
   node : Actions \cup {None},        \* the action of the node being resumed
   code : Code, resumed : BOOLEAN]

Unsent ==
  [pc |-> "unsent", path |-> "decide", id |-> None, thread |-> None,
   verb |-> "approve", motivation |-> "given", node |-> None, code |-> 0,
   resumed |-> FALSE]

\* batch: rows fetched and not handled yet; row: a row that was moved and is
\* about to be audited, with the row it was escalated to, if any.
Scan ==
  [batch : SUBSET Ids, row : Ids \cup {None}, escalated_to_id : Ids \cup {None}]

Sleeping == [batch |-> {}, row |-> None, escalated_to_id |-> None]

\* about is the row the record speaks of: approval_id when a person decided,
\* the original_id of input_summary when the supervisor moved it.
AuditRecord ==
  [decision : AuditDecision, approval_id : Ids \cup {None}, about : Ids,
   escalated_to_id : Ids \cup {None}, actor : Requests \cup Supervisors]

Init ==
  /\ approvals = [i \in Ids |-> NoRow]
  /\ thread = [t \in Threads |-> [phase |-> "idle", at |-> None]]
  /\ finished = {}
  /\ request = [r \in Requests |-> Unsent]
  /\ scan = [s \in Supervisors |-> Sleeping]
  /\ audit = {}
  /\ faults = 0

-----------------------------------------------------------------------------
(* The statements of ApprovalQueueWriter *)

Exists(i) == approvals[i] # NoRow

\* Fault variant of Pending: the statements test the id only.
PendingAnyStatus(i) == Exists(i)

\* WHERE id = $1 AND status = 'pending'
Pending(i) == Exists(i) /\ approvals[i].status = "pending"

NewRow(a, tier) ==
  [action |-> a, tier |-> tier, status |-> "pending", overdue |-> FALSE,
   escalated_to_id |-> None, decided_by |-> None, motivation |-> None]

\* INSERT ... ON CONFLICT (id) DO NOTHING
Insert(a) ==
  approvals' = IF Exists(a) THEN approvals
               ELSE [approvals EXCEPT ![a] = NewRow(a, TierOf[a])]

\* UPDATE ... SET status, decided_by, decision_json; the callers test Pending.
UpdateDecision(i, r) ==
  approvals' = [approvals EXCEPT ![i].status = StatusOf(request[r].verb),
                                 ![i].decided_by = r,
                                 ![i].motivation = request[r].motivation]

\* Fault variant of InsertEscalation: the original is not linked to the copy.
InsertEscalationUnlinked(i, new) ==
  approvals' = [approvals EXCEPT
                  ![new] = NewRow(approvals[i].action, NextTier(approvals[i].tier)),
                  ![i].status = "escalated"]

\* One transaction: a copy of the row at the next tier, and the link to it.
InsertEscalation(i, new) ==
  approvals' = [approvals EXCEPT
                  ![new] = NewRow(approvals[i].action, NextTier(approvals[i].tier)),
                  ![i].status = "escalated",
                  ![i].escalated_to_id = new]

\* Fault variant of MarkTimedOut: an UPDATE without its status guard.
MarkTimedOutUnguarded(i) == approvals' = [approvals EXCEPT ![i].status = "timed_out"]

\* The affected row count is not looked at.
MarkTimedOut(i) ==
  approvals' = IF Pending(i) THEN [approvals EXCEPT ![i].status = "timed_out"]
               ELSE approvals

Fault == faults < MaxFaults /\ faults' = faults + 1

-----------------------------------------------------------------------------
(* The agent's thread: human_approval_node up to interrupt() *)

\* The graph reaches the node (again, after a crash) and inserts the row.
Propose(a) ==
  /\ a \notin Detached \cup finished
  /\ thread[ThreadOf[a]].phase = "idle"
  /\ Insert(a)
  /\ thread' = [thread EXCEPT ![ThreadOf[a]] = [phase |-> "inserted", at |-> a]]
  /\ UNCHANGED <<finished, request, scan, audit, faults>>

\* interrupt(): the checkpoint is saved and the run ends.
Interrupt(t) ==
  /\ thread[t].phase = "inserted"
  /\ thread' = [thread EXCEPT ![t].phase = "interrupted"]
  /\ UNCHANGED <<approvals, finished, request, scan, audit, faults>>

\* The agent dies between the insert and the checkpoint; the row stays.
AgentCrash(t) ==
  /\ thread[t].phase = "inserted"
  /\ Fault
  /\ thread' = [thread EXCEPT ![t] = [phase |-> "idle", at |-> None]]
  /\ UNCHANGED <<approvals, finished, request, scan, audit>>

\* BudgetTracker._emit_approval, Governor._scan_once: a row with a uuid4 id.
InsertDetached(a) ==
  /\ a \in Detached
  /\ ~Exists(a)
  /\ Insert(a)
  /\ UNCHANGED <<thread, finished, request, scan, audit, faults>>

\* The clock passes the row's deadline.
DeadlinePasses(i) ==
  /\ Pending(i)
  /\ ~approvals[i].overdue
  /\ approvals' = [approvals EXCEPT ![i].overdue = TRUE]
  /\ UNCHANGED <<thread, finished, request, scan, audit, faults>>

-----------------------------------------------------------------------------
(* POST /v1/approvals/{id}/decide and POST /v1/threads/{id}/resume, for     *)
(* requests without an Idempotency-Key header                               *)

Respond(r, code, resumed) ==
  request' = [request EXCEPT
                ![r] = [@ EXCEPT !.pc = "done", !.code = code, !.resumed = resumed]]

\* decide: SELECT the row, refuse a row that is missing or decided, refuse a
\* blank motivation where the tier wants one.
DecideSelect(r, i, verb, motivation) ==
  /\ request[r].pc = "unsent"
  /\ LET sent == [Unsent EXCEPT !.id = i, !.verb = verb, !.motivation = motivation]
         blank == motivation = "placeholder" /\ verb \in {"approve", "reject"}
         answer == IF ~Pending(i) THEN 404
                   ELSE IF blank /\ MotivationRequired(approvals[i].tier) THEN 400
                   ELSE 0
     IN request' = [request EXCEPT ![r] =
          IF answer = 0
          THEN [sent EXCEPT !.pc = "selected",
                            !.thread = ThreadOf[approvals[i].action]]
          ELSE [sent EXCEPT !.pc = "done", !.code = answer]]
  /\ UNCHANGED <<approvals, thread, finished, scan, audit, faults>>

\* Fault variant of DecideUpdate: the check of the SELECT is relied upon.
DecideUpdateUnguarded(r) ==
  /\ request[r].pc = "selected"
  /\ UpdateDecision(request[r].id, r)
  /\ request' = [request EXCEPT ![r].pc = "updated"]
  /\ UNCHANGED <<thread, finished, scan, audit, faults>>

\* decide: the guarded UPDATE; 404 when another writer came first.
DecideUpdate(r) ==
  /\ request[r].pc = "selected"
  /\ IF Pending(request[r].id)
     THEN /\ UpdateDecision(request[r].id, r)
          /\ request' = [request EXCEPT ![r].pc = "updated"]
     ELSE /\ Respond(r, 404, FALSE)
          /\ UNCHANGED approvals
  /\ UNCHANGED <<thread, finished, scan, audit, faults>>

\* resume: the caller names a thread and one of its rows; the handler uses the
\* thread, and only logs the approval_id.
ResumeSend(r, t, i, verb, motivation) ==
  /\ request[r].pc = "unsent"
  /\ Exists(i) /\ ThreadOf[approvals[i].action] = t
  /\ request' = [request EXCEPT ![r] =
       [Unsent EXCEPT !.pc = "updated", !.path = "resume", !.id = i,
                      !.thread = t, !.verb = verb, !.motivation = motivation]]
  /\ UNCHANGED <<approvals, thread, finished, scan, audit, faults>>

\* ainvoke(Command(resume=...)) on a thread stopped at its interrupt runs the
\* node from the top; the insert conflicts and does nothing.
ResumeNode(r) ==
  /\ request[r].pc = "updated"
  /\ LET t == request[r].thread
     IN /\ thread[t].phase = "interrupted"
        /\ Insert(thread[t].at)
        /\ request' = [request EXCEPT ![r] = [@ EXCEPT !.pc = "node",
                                                       !.node = thread[t].at]]
  /\ UNCHANGED <<thread, finished, scan, audit, faults>>

\* ainvoke on a thread that is not stopped at an interrupt: the node does not
\* run, and whether the call fails is the graph library's business.  Only
\* resume_thread answers 404, when the thread has no checkpoint.
ResumeNothing(r) ==
  /\ request[r].pc = "updated"
  /\ thread[request[r].thread].phase # "interrupted"
  /\ \/ \E resumed \in BOOLEAN : Respond(r, 200, resumed)
     \/ request[r].path = "resume" /\ Respond(r, 404, FALSE)
  /\ UNCHANGED <<approvals, thread, finished, scan, audit, faults>>

\* The node's UPDATE, on the row of the node's own action; a row that is not
\* pending raises, and the handler answers resumed=False.
NodeUpdate(r) ==
  /\ request[r].pc = "node"
  /\ IF Pending(request[r].node)
     THEN /\ UpdateDecision(request[r].node, r)
          /\ request' = [request EXCEPT ![r].pc = "audit"]
     ELSE /\ Respond(r, 200, FALSE)
          /\ UNCHANGED approvals
  /\ UNCHANGED <<thread, finished, scan, audit, faults>>

\* The node's audit record, under the tier the node was built with.
NodeAudit(r) ==
  /\ request[r].pc = "audit"
  /\ LET a == request[r].node
     IN audit' = audit \cup
          {[decision |-> TierToDecision(TierOf[a], request[r].verb),
            approval_id |-> a, about |-> a, escalated_to_id |-> None, actor |-> r]}
  /\ request' = [request EXCEPT ![r].pc = "recorded"]
  /\ UNCHANGED <<approvals, thread, finished, scan, faults>>

\* Any exception inside ainvoke (the checkpointer, the UPDATE, the audit INSERT,
\* which AuditWriter re-raises) abandons the node; the handler swallows it.
ResumeFails(r) ==
  /\ request[r].pc \in {"updated", "node", "audit", "recorded"}
  /\ Fault
  /\ Respond(r, 200, FALSE)
  /\ UNCHANGED <<approvals, thread, finished, scan, audit>>

\* The node returns: the thread moves past it and the handler answers.
NodeReturn(r) ==
  /\ request[r].pc = "recorded"
  /\ thread' = [thread EXCEPT ![request[r].thread] = [phase |-> "idle", at |-> None]]
  /\ finished' = finished \cup {request[r].node}
  /\ Respond(r, 200, TRUE)
  /\ UNCHANGED <<approvals, scan, audit, faults>>

\* The replica dies, the caller goes away and the handler is cancelled, or a
\* statement of its own fails and the answer is a 500.
RequestLost(r) ==
  /\ request[r].pc \notin {"unsent", "done", "lost"}
  /\ Fault
  /\ request' = [request EXCEPT ![r].pc = "lost"]
  /\ UNCHANGED <<approvals, thread, finished, scan, audit>>

-----------------------------------------------------------------------------
(* EscalationSupervisor *)

\* Fault variant of Stale: the query forgets to leave the safety interlock out.
StaleEveryTier == {i \in Ids : Pending(i) /\ approvals[i].overdue}

\* Rows of the supervisor's query.
Stale == {i \in Ids : /\ Pending(i)
                      /\ approvals[i].overdue
                      /\ HasDeadline(approvals[i].tier)}

\* _SCAN_SQL: at most ScanLimit rows; the connection is then released.
ScanRows(s) ==
  /\ scan[s] = Sleeping
  /\ Stale # {}
  /\ \E rows \in SUBSET Stale :
       /\ rows # {}
       /\ \/ rows = Stale /\ Cardinality(rows) <= ScanLimit
          \/ Cardinality(rows) = ScanLimit
       /\ scan' = [scan EXCEPT ![s].batch = rows]
  /\ UNCHANGED <<approvals, thread, finished, request, audit, faults>>

\* Fault variant of Handling: the rows of a batch are handled concurrently.
HandlingTogether(s, i) == i \in scan[s].batch

Handling(s, i) == scan[s].row = None /\ i \in scan[s].batch

\* Fault variant of EscalateRow: the copy is inserted outside the transaction.
EscalateRowNoTransaction(s, i, new) ==
  /\ Handling(s, i)
  /\ NextTier(approvals[i].tier) # NoTier
  /\ ~Exists(new)
  /\ InsertEscalation(i, new)
  /\ scan' = [scan EXCEPT ![s] = [batch |-> @.batch \ {i}, row |-> i,
                                  escalated_to_id |-> new]]
  /\ UNCHANGED <<thread, finished, request, audit, faults>>

\* Fault variant of EscalateRow: the end of the chain is not tested.
EscalateRowPastTheLast(s, i, new) ==
  /\ Handling(s, i)
  /\ Pending(i)
  /\ ~Exists(new)
  /\ InsertEscalation(i, new)
  /\ scan' = [scan EXCEPT ![s] = [batch |-> @.batch \ {i}, row |-> i,
                                  escalated_to_id |-> new]]
  /\ UNCHANGED <<thread, finished, request, audit, faults>>

\* _handle_row on a row with a next tier, as it was fetched: the transaction
\* commits if the row is still pending, and the record follows.
EscalateRow(s, i, new) ==
  /\ Handling(s, i)
  /\ NextTier(approvals[i].tier) # NoTier
  /\ Pending(i)
  /\ ~Exists(new)
  /\ InsertEscalation(i, new)
  /\ scan' = [scan EXCEPT ![s] = [batch |-> @.batch \ {i}, row |-> i,
                                  escalated_to_id |-> new]]
  /\ UNCHANGED <<thread, finished, request, audit, faults>>

\* The row was decided or escalated since it was fetched: the transaction
\* rolls back, and the exception ends the scan with the rows left unhandled.
EscalateRowConflict(s, i) ==
  /\ Handling(s, i)
  /\ NextTier(approvals[i].tier) # NoTier
  /\ ~Pending(i)
  /\ scan' = [scan EXCEPT ![s] = Sleeping]
  /\ UNCHANGED <<approvals, thread, finished, request, audit, faults>>

\* _handle_row on a row of the last tier.
TimeOutRow(s, i) ==
  /\ Handling(s, i)
  /\ NextTier(approvals[i].tier) = NoTier
  /\ MarkTimedOut(i)
  /\ scan' = [scan EXCEPT ![s] = [batch |-> @.batch \ {i}, row |-> i,
                                  escalated_to_id |-> None]]
  /\ UNCHANGED <<thread, finished, request, audit, faults>>

\* Fault variant of AuditTransition: a refused record is tried for ever.
AuditTransitionRetried(s) ==
  /\ scan[s].row # None
  /\ approvals[scan[s].row].action \notin Unauditable
  /\ scan' = [scan EXCEPT ![s].row = None, ![s].escalated_to_id = None]
  /\ audit' = audit \cup
       {[decision |-> IF scan[s].escalated_to_id = None
                      THEN "timed_out" ELSE "escalated",
         approval_id |-> None, about |-> scan[s].row,
         escalated_to_id |-> scan[s].escalated_to_id, actor |-> s]}
  /\ UNCHANGED <<approvals, thread, finished, request, faults>>

\* The record of the row in hand.  An action_type the table's CHECK refuses
\* raises, which ends the scan.
AuditTransition(s) ==
  /\ scan[s].row # None
  /\ IF approvals[scan[s].row].action \in Unauditable
     THEN /\ scan' = [scan EXCEPT ![s] = Sleeping]
          /\ UNCHANGED audit
     ELSE /\ scan' = [scan EXCEPT ![s].row = None, ![s].escalated_to_id = None]
          /\ audit' = audit \cup
               {[decision |-> IF scan[s].escalated_to_id = None
                              THEN "timed_out" ELSE "escalated",
                 approval_id |-> None, about |-> scan[s].row,
                 escalated_to_id |-> scan[s].escalated_to_id, actor |-> s]}
  /\ UNCHANGED <<approvals, thread, finished, request, faults>>

\* A statement fails or the replica dies: what was fetched is forgotten, and
\* the loop sleeps until the next scan.
ScanFault(s) ==
  /\ scan[s] # Sleeping
  /\ Fault
  /\ scan' = [scan EXCEPT ![s] = Sleeping]
  /\ UNCHANGED <<approvals, thread, finished, request, audit>>

-----------------------------------------------------------------------------

AgentStep ==
  \/ \E a \in Actions : Propose(a) \/ InsertDetached(a)
  \/ \E t \in Threads : Interrupt(t) \/ AgentCrash(t)

SendStep(r) ==
  \E verb \in Verbs, motivation \in Motivations :
    \/ \E i \in Ids : DecideSelect(r, i, verb, motivation)
    \/ \E t \in Threads, i \in Ids : ResumeSend(r, t, i, verb, motivation)

RequestStep(r) ==
  \/ DecideUpdate(r) \/ ResumeNode(r) \/ ResumeNothing(r)
  \/ NodeUpdate(r) \/ NodeAudit(r) \/ NodeReturn(r)
  \/ ResumeFails(r) \/ RequestLost(r)

HandleRow(s) ==
  \E i \in Ids :
    \/ \E new \in FreshIds : EscalateRow(s, i, new)
    \/ EscalateRowConflict(s, i)
    \/ TimeOutRow(s, i)

Next ==
  \/ AgentStep
  \/ \E i \in Ids : DeadlinePasses(i)
  \/ \E r \in Requests : SendStep(r) \/ RequestStep(r)
  \/ \E s \in Supervisors :
       ScanRows(s) \/ HandleRow(s) \/ AuditTransition(s) \/ ScanFault(s)

Spec == Init /\ [][Next]_vars

\* The background loops keep running: a scan is retried every 30 seconds
\* whatever it raised, and time passes.  Nothing is assumed of people.
Fairness ==
  /\ \A s \in Supervisors : /\ WF_vars(ScanRows(s))
                            /\ WF_vars(HandleRow(s))
                            /\ WF_vars(AuditTransition(s))
  /\ \A i \in Ids : WF_vars(DeadlinePasses(i))

LiveSpec == Spec /\ Fairness

-----------------------------------------------------------------------------
(* Properties *)

\* Every variable keeps to the shape of its table or of its process.
TypeOK ==
  /\ approvals \in [Ids -> Row \cup {NoRow}]
  /\ thread \in [Threads -> Thread]
  /\ finished \subseteq Actions
  /\ request \in [Requests -> Request]
  /\ scan \in [Supervisors -> Scan]
  /\ audit \subseteq AuditRecord
  /\ faults \in 0..MaxFaults

RowsOf(a) == {i \in Ids : Exists(i) /\ approvals[i].action = a}

\* A proposed action waits in at most one tier's queue at a time, however many
\* supervisors escalate its row while people decide it: the transaction of
\* insert_escalation never leaves the copy behind when the original moved.
OneOpenRow ==
  \A a \in Actions : \A i, j \in RowsOf(a) : Pending(i) /\ Pending(j) => i = j

\* The links of the escalated rows form, for each action, one chain that starts
\* at the row the agent inserted and climbs the tiers one by one: the history
\* the recursive query of hitl-cycle.md reads.
EscalationChain ==
  /\ \A i \in Ids : Exists(i) /\ approvals[i].escalated_to_id # None =>
       LET j == approvals[i].escalated_to_id
       IN /\ approvals[i].status = "escalated"
          /\ j \in RowsOf(approvals[i].action) \cap FreshIds
          /\ approvals[j].tier = NextTier(approvals[i].tier)
  /\ \A j \in FreshIds : Exists(j) =>
       \E i \in Ids : Exists(i) /\ approvals[i].escalated_to_id = j
  /\ \A i, k \in Ids :
       /\ Exists(i) /\ Exists(k)
       /\ approvals[i].escalated_to_id = approvals[k].escalated_to_id
       /\ approvals[i].escalated_to_id # None
       => i = k

\* A row that left the pending state never changes again: no decision, node,
\* escalation or timeout overwrites another one, whatever was read before.
DecidedRowsFrozen ==
  [][\A i \in Ids : Exists(i) /\ ~Pending(i) => approvals'[i] = approvals[i]]_vars

\* A decide request is told the truth: it answers 200 exactly when the row it
\* names carries its decision, so of any number of concurrent ones at most one
\* does, and a request that was refused changed nothing.  A resume that reports
\* success after running the node left its decision on the node's row.
AnswersTruthful ==
  \A r \in Requests : request[r].pc = "done" =>
    /\ request[r].path = "decide" =>
         (request[r].code = 200
            <=> Exists(request[r].id) /\ approvals[request[r].id].decided_by = r)
    /\ request[r].resumed /\ request[r].node # None =>
         approvals[request[r].node].decided_by = r

\* The audit record of a human decision names the person whose decision the row
\* carries, and says escalated exactly when the row is: two resumes of the same
\* interrupt never leave a record of the one that lost.
HumanAuditTrue ==
  \A rec \in audit : rec.approval_id # None =>
    LET row == approvals[rec.approval_id]
    IN /\ row.decided_by = rec.actor
       /\ rec.decision = "escalated" <=> row.status = "escalated"

\* The record of a tier hop is written only for a hop that was committed.
EscalationAuditTrue ==
  \A rec \in audit : rec.escalated_to_id # None =>
    approvals[rec.about].escalated_to_id = rec.escalated_to_id

\* A thread goes past its approval node only when the decision is on record:
\* a failed audit INSERT, or a crash before it, leaves the thread at its
\* interrupt (the PG-first rule of AuditWriter).
FinishedAudited ==
  \A a \in finished :
    \E rec \in audit : rec.approval_id = a /\ rec.actor = approvals[a].decided_by

Audited(i) == \E rec \in audit : rec.about = i

\* Without a fault, every transition the supervisor commits and every decision
\* a node commits is on record, or about to be; an exception on another row of
\* the batch does not lose one.  (Rows of a refused action_type apart.)
OnlyFaultsLoseAudits ==
  \A i \in Ids :
    /\ faults = 0
    /\ Exists(i) /\ approvals[i].action \notin Unauditable
    => /\ approvals[i].status = "timed_out" \/ approvals[i].escalated_to_id # None
            => Audited(i) \/ \E s \in Supervisors : scan[s].row = i
       /\ \A r \in Requests :
            /\ approvals[i].decided_by = r
            /\ request[r].path = "resume" \/ request[r].id # i
            => Audited(i) \/ request[r].pc = "audit"

\* No clock ever moves a safety interlock row, even a year after its placeholder
\* deadline: only a person closes it.
InterlockOnlyByHuman ==
  \A i \in Ids : Exists(i) /\ approvals[i].tier = "safety_interlock" =>
    approvals[i].status # "timed_out" /\ approvals[i].escalated_to_id = None

\* The row at the end of an action's chain.
Tail(a) == CHOOSE i \in RowsOf(a) : approvals[i].escalated_to_id = None

\* What the rows of an action say of it.
ChainOf(a) ==
  IF RowsOf(a) = {} THEN [phase |-> "unopened", tier |-> NoTier, outcome |-> "none"]
  ELSE LET row == approvals[Tail(a)]
       IN IF row.status = "pending"
          THEN [phase |-> "open", tier |-> row.tier, outcome |-> "none"]
          ELSE [phase |-> "closed", tier |-> row.tier, outcome |-> row.status]

Lifecycle == INSTANCE ApprovalLifecycle WITH chain <- [a \in Actions |-> ChainOf(a)]

\* The table implements the abstract approval: opened once, climbing one tier
\* at a time, closed once and for good.
ImplementsLifecycle == Lifecycle!Spec

OpenWithDeadline(a) ==
  \E i \in RowsOf(a) : Pending(i) /\ HasDeadline(approvals[i].tier)

\* No action waits for ever in a queue whose tier has a deadline, although
\* nobody answers, audits are refused, scans are cut short by conflicts and the
\* query returns only ScanLimit rows.
OpenChainsSettle ==
  \A a \in Actions : OpenWithDeadline(a) ~> ~OpenWithDeadline(a)

\* What a person decided is what every place says: the answer they got, the
\* audit record, and the thread that goes on only with the record written.
DecisionsTrue ==
  /\ AnswersTruthful
  /\ HumanAuditTrue
  /\ FinishedAudited

\* The records of the supervisors tell the hops that were committed, all of them
\* unless a fault lost one.
EscalationsAudited ==
  /\ EscalationAuditTrue
  /\ OnlyFaultsLoseAudits

-----------------------------------------------------------------------------
(* What the documents and comments say, and the code does not do *)

\* approvals.py:244: the audit row of a decided approval is written by
\* human_approval_node when the graph resumes, as it did for this request.
DecisionsAudited ==
  \A r \in Requests :
    /\ request[r].pc = "done" /\ request[r].path = "decide"
    /\ request[r].node = request[r].id
    => Audited(request[r].id)

=============================================================================
