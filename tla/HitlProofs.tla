------------------------- MODULE HitlProofs -------------------------
(***************************************************************************)
(* Theorems about HitlApproval, for every set of actions, requests and     *)
(* supervisors and every ScanLimit and MaxFaults.                          *)
(*                                                                         *)
(* The argument has three layers.  Shape strengthens TypeOK with what the  *)
(* program counters imply, so that it is inductive.  RowEffects then says  *)
(* that a step touches hitl.approvals in one of five ways only, whatever   *)
(* process takes it.  The invariants about rows are proved from those five *)
(* effects, without going back to the actions.                             *)
(***************************************************************************)
EXTENDS HitlApproval, TLAPS

-----------------------------------------------------------------------------
(* Layer 1: shape *)

Rows == [Ids -> Row \cup {NoRow}]

\* A thread that is in its node works on an action of its own.
ThreadAt ==
  \A t \in Threads : thread[t].phase # "idle" =>
    thread[t].at \in Actions /\ ThreadOf[thread[t].at] = t

\* What each handler has bound by the time it reaches a program counter.
RequestAt ==
  \A r \in Requests :
    /\ request[r].pc # "unsent" => request[r].id \in Ids
    /\ request[r].pc \in {"selected", "updated", "node", "audit", "recorded"} =>
         request[r].thread \in Threads
    /\ request[r].pc \in {"node", "audit", "recorded"} => request[r].node \in Actions

Shape == TypeOK /\ ThreadAt /\ RequestAt

\* The end of the chain is no tier, and every other tier climbs to a tier.
LEMMA NextTierType ==
  ASSUME NEW tier \in Tier, NextTier(tier) # NoTier
  PROVE  NextTier(tier) \in Tier /\ HasDeadline(tier)
BY DEF Tier, NextTier, NoTier, HasDeadline

\* A verb leads to a status that is not pending.
LEMMA StatusOfType ==
  ASSUME NEW verb \in Verb
  PROVE  /\ StatusOf(verb) \in Status \ {"pending", "timed_out"}
         /\ StatusOf(verb) = "escalated" <=> verb = "escalate"
BY DEF Verb, StatusOf, Status

LEMMA TierToDecisionType ==
  ASSUME NEW tier \in Tier, NEW verb \in Verb
  PROVE  /\ TierToDecision(tier, verb) \in AuditDecision
         /\ TierToDecision(tier, verb) = "escalated" <=> verb = "escalate"
<1>1. CASE verb = "escalate"
  BY <1>1 DEF TierToDecision, AuditDecision
<1>2. CASE verb # "escalate"
  <2>1. TierToDecision(tier, verb) \in HitlDecision \cup {"interlock_reject"}
    BY <1>2 DEF Tier, TierToDecision, HitlDecision
  <2> QED BY <2>1, <1>2 DEF AuditDecision, HitlDecision
<1> QED BY <1>1, <1>2

\* NoRow is told apart from every row.
LEMMA ExistingRow ==
  ASSUME approvals \in Rows, NEW i \in Ids, Exists(i)
  PROVE  approvals[i] \in Row
BY DEF Rows, Exists

LEMMA NewRowType ==
  ASSUME NEW a \in Actions, NEW tier \in Tier
  PROVE  NewRow(a, tier) \in Row /\ NewRow(a, tier) # NoRow
<1>1. NewRow(a, tier) \in Row
  BY DEF NewRow, Row, Status
<1> QED BY <1>1, NoRowIsNoRow

-----------------------------------------------------------------------------
(* Layer 2: the five ways in which a step touches a row *)

Opened(a) ==
  /\ a \in Actions /\ ~Exists(a)
  /\ approvals' = [approvals EXCEPT ![a] = NewRow(a, TierOf[a])]

Decided(i, r) == i \in Ids /\ r \in Requests /\ Pending(i) /\ UpdateDecision(i, r)

Hopped(i, new) ==
  /\ i \in Ids /\ new \in FreshIds
  /\ Pending(i) /\ ~Exists(new) /\ NextTier(approvals[i].tier) # NoTier
  /\ InsertEscalation(i, new)

Expired(i) ==
  /\ i \in Ids /\ Pending(i) /\ NextTier(approvals[i].tier) = NoTier
  /\ \E s \in Supervisors : i \in scan[s].batch
  /\ approvals' = [approvals EXCEPT ![i].status = "timed_out"]

Aged(i) ==
  /\ i \in Ids /\ Pending(i)
  /\ approvals' = [approvals EXCEPT ![i].overdue = TRUE]

RowStep ==
  \/ approvals' = approvals
  \/ \E a \in Actions : Opened(a)
  \/ \E i \in Ids, r \in Requests : Decided(i, r)
  \/ \E i \in Ids, new \in FreshIds : Hopped(i, new)
  \/ \E i \in Ids : Expired(i)
  \/ \E i \in Ids : Aged(i)

LEMMA OpenedType ==
  ASSUME approvals \in Rows, NEW a \in Actions, Opened(a)
  PROVE  approvals' \in Rows
BY NewRowType, ConstantTypes DEF Rows, Opened, Ids

LEMMA DecidedType ==
  ASSUME Shape, NEW i \in Ids, NEW r \in Requests, Decided(i, r)
  PROVE  approvals' \in Rows
<1>1. approvals \in Rows /\ approvals[i] \in Row /\ request[r] \in Request
  BY ExistingRow DEF Shape, TypeOK, Rows, Decided, Pending
<1>2. StatusOf(request[r].verb) \in Status
  BY <1>1, StatusOfType DEF Request
<1>3. [approvals[i] EXCEPT !.status = StatusOf(request[r].verb), !.decided_by = r,
                           !.motivation = request[r].motivation] \in Row
  BY <1>1, <1>2 DEF Row, Request
<1> QED BY <1>1, <1>3 DEF Rows, Decided, UpdateDecision

LEMMA HoppedType ==
  ASSUME approvals \in Rows, NEW i \in Ids, NEW new \in FreshIds, Hopped(i, new)
  PROVE  approvals' \in Rows
<1>1. approvals[i] \in Row /\ new \in Ids
  BY ExistingRow DEF Hopped, Pending, Ids
<1>2. NewRow(approvals[i].action, NextTier(approvals[i].tier)) \in Row
  BY <1>1, NextTierType, NewRowType DEF Hopped, Row
<1>3. [approvals[i] EXCEPT !.status = "escalated", !.escalated_to_id = new] \in Row
  BY <1>1 DEF Row, Status
<1>4. i # new
  BY DEF Hopped, Pending
<1> QED BY <1>1, <1>2, <1>3, <1>4 DEF Rows, Hopped, InsertEscalation

LEMMA ExpiredType ==
  ASSUME approvals \in Rows, NEW i \in Ids, Expired(i)
  PROVE  approvals' \in Rows
<1>1. approvals[i] \in Row
  BY ExistingRow DEF Expired, Pending
<1>2. [approvals[i] EXCEPT !.status = "timed_out"] \in Row
  BY <1>1 DEF Row, Status
<1> QED BY <1>1, <1>2 DEF Rows, Expired

LEMMA AgedType ==
  ASSUME approvals \in Rows, NEW i \in Ids, Aged(i)
  PROVE  approvals' \in Rows
<1>1. approvals[i] \in Row
  BY ExistingRow DEF Aged, Pending
<1>2. [approvals[i] EXCEPT !.overdue = TRUE] \in Row
  BY <1>1 DEF Row
<1> QED BY <1>1, <1>2 DEF Rows, Aged

LEMMA RowStepType ==
  ASSUME Shape, RowStep
  PROVE  approvals' \in Rows
<1>1. approvals \in Rows
  BY DEF Shape, TypeOK, Rows
<1> QED
  BY <1>1, OpenedType, DecidedType, HoppedType, ExpiredType, AgedType DEF RowStep

\* The same, with the action that did it: a row is decided by the UPDATE of a
\* request or of its node, hopped or expired by a supervisor that has it in hand.
OwnedRowStep ==
  \/ approvals' = approvals
  \/ \E a \in Actions : Opened(a)
  \/ \E i \in Ids : Aged(i)
  \/ \E r \in Requests : DecideUpdate(r) /\ Decided(request[r].id, r)
  \/ \E r \in Requests : NodeUpdate(r) /\ Decided(request[r].node, r)
  \/ \E s \in Supervisors, i \in Ids, new \in FreshIds :
       EscalateRow(s, i, new) /\ Hopped(i, new)
  \/ \E s \in Supervisors, i \in Ids : TimeOutRow(s, i) /\ Expired(i)

\* Whatever process takes it, a step touches the table in one of the five ways.
LEMMA RowOrigins ==
  ASSUME Shape, [Next]_vars
  PROVE  OwnedRowStep
<1> USE DEF Shape
<1>0. ASSUME NEW a \in Actions, Insert(a) PROVE OwnedRowStep
  BY <1>0 DEF Insert, OwnedRowStep, Opened
<1>1. ASSUME NEW a \in Actions, Propose(a) \/ InsertDetached(a) PROVE OwnedRowStep
  BY <1>0, <1>1 DEF Propose, InsertDetached
<1>2. ASSUME NEW t \in Threads, Interrupt(t) \/ AgentCrash(t) PROVE OwnedRowStep
  BY <1>2 DEF Interrupt, AgentCrash, OwnedRowStep
<1>3. ASSUME NEW i \in Ids, DeadlinePasses(i) PROVE OwnedRowStep
  BY <1>3 DEF DeadlinePasses, OwnedRowStep, Aged
<1>4. ASSUME NEW r \in Requests, SendStep(r) PROVE OwnedRowStep
  BY <1>4 DEF SendStep, DecideSelect, ResumeSend, OwnedRowStep
<1>5. ASSUME NEW r \in Requests, RequestStep(r) PROVE OwnedRowStep
  <2>1. CASE DecideUpdate(r)
    <3>1. request[r].id \in Ids
      BY <2>1 DEF DecideUpdate, RequestAt
    <3>2. Decided(request[r].id, r) \/ approvals' = approvals
      BY <2>1, <3>1 DEF DecideUpdate, Decided
    <3> QED BY <2>1, <3>2 DEF OwnedRowStep
  <2>2. CASE NodeUpdate(r)
    <3>1. request[r].node \in Ids
      BY <2>2 DEF NodeUpdate, RequestAt, Ids
    <3>2. Decided(request[r].node, r) \/ approvals' = approvals
      BY <2>2, <3>1 DEF NodeUpdate, Decided
    <3> QED BY <2>2, <3>2 DEF OwnedRowStep
  <2>3. CASE ResumeNode(r)
    <3>1. request[r].thread \in Threads
      BY <2>3 DEF ResumeNode, RequestAt
    <3>2. thread[request[r].thread].at \in Actions
      BY <2>3, <3>1 DEF ResumeNode, ThreadAt
    <3> QED BY <1>0, <2>3, <3>2 DEF ResumeNode
  <2>4. CASE ResumeNothing(r) \/ NodeAudit(r) \/ NodeReturn(r)
             \/ ResumeFails(r) \/ RequestLost(r)
    BY <2>4 DEF ResumeNothing, NodeAudit, NodeReturn, ResumeFails, RequestLost, OwnedRowStep
  <2> QED BY <1>5, <2>1, <2>2, <2>3, <2>4 DEF RequestStep
<1>6. ASSUME NEW s \in Supervisors,
             ScanRows(s) \/ AuditTransition(s) \/ ScanFault(s)
      PROVE  OwnedRowStep
  BY <1>6 DEF ScanRows, AuditTransition, ScanFault, OwnedRowStep
<1>7. ASSUME NEW s \in Supervisors, HandleRow(s) PROVE OwnedRowStep
  <2>1. PICK i \in Ids : \/ \E new \in FreshIds : EscalateRow(s, i, new)
                         \/ EscalateRowConflict(s, i)
                         \/ TimeOutRow(s, i)
    BY <1>7 DEF HandleRow
  <2>2. ASSUME NEW new \in FreshIds, EscalateRow(s, i, new) PROVE OwnedRowStep
    <3>1. Hopped(i, new)
      BY <2>2 DEF EscalateRow, Hopped
    <3> QED BY <2>2, <3>1 DEF OwnedRowStep
  <2>3. CASE EscalateRowConflict(s, i)
    BY <2>3 DEF EscalateRowConflict, OwnedRowStep
  <2>4. CASE TimeOutRow(s, i)
    <3>1. Expired(i) \/ approvals' = approvals
      BY <2>4 DEF TimeOutRow, MarkTimedOut, Handling, Expired
    <3> QED BY <2>4, <3>1 DEF OwnedRowStep
  <2> QED BY <2>1, <2>2, <2>3, <2>4
<1>8. CASE UNCHANGED vars
  BY <1>8 DEF vars, OwnedRowStep
<1> QED BY <1>1, <1>2, <1>3, <1>4, <1>5, <1>6, <1>7, <1>8 DEF Next, AgentStep

LEMMA RowEffects ==
  ASSUME Shape, [Next]_vars
  PROVE  RowStep
BY RowOrigins DEF OwnedRowStep, RowStep, Decided

-----------------------------------------------------------------------------
(* Shape is inductive *)

\* What a handler has bound by the time it reaches a program counter.
Bound(q) ==
  /\ q.pc # "unsent" => q.id \in Ids
  /\ q.pc \in {"selected", "updated", "node", "audit", "recorded"} => q.thread \in Threads
  /\ q.pc \in {"node", "audit", "recorded"} => q.node \in Actions

RequestOK == request \in [Requests -> Request] /\ RequestAt

ThreadOK == thread \in [Threads -> Thread] /\ ThreadAt

LEMMA RequestUpdate ==
  ASSUME RequestOK, NEW r \in Requests, NEW q \in Request, Bound(q),
         request' = [request EXCEPT ![r] = q]
  PROVE  RequestOK'
BY DEF RequestOK, RequestAt, Bound

LEMMA RequestBound ==
  ASSUME RequestOK, NEW r \in Requests
  PROVE  request[r] \in Request /\ Bound(request[r])
BY DEF RequestOK, RequestAt, Bound

\* A handler with one field replaced by a value of the field's type.
LEMMA RequestField ==
  ASSUME NEW q \in Request
  PROVE  /\ \A v \in Pc : [q EXCEPT !.pc = v] \in Request
         /\ \A v \in {"decide", "resume"} : [q EXCEPT !.path = v] \in Request
         /\ \A v \in Ids : [q EXCEPT !.id = v] \in Request
         /\ \A v \in Threads : [q EXCEPT !.thread = v] \in Request
         /\ \A v \in Verb : [q EXCEPT !.verb = v] \in Request
         /\ \A v \in Motivation : [q EXCEPT !.motivation = v] \in Request
         /\ \A v \in Actions : [q EXCEPT !.node = v] \in Request
         /\ \A v \in Code : [q EXCEPT !.code = v] \in Request
         /\ \A v \in BOOLEAN : [q EXCEPT !.resumed = v] \in Request
BY DEF Request

LEMMA AnswerType ==
  ASSUME NEW q \in Request, NEW code \in Code, NEW resumed \in BOOLEAN
  PROVE  [q EXCEPT !.pc = "done", !.code = code, !.resumed = resumed] \in Request
<1> DEFINE q1 == [q EXCEPT !.pc = "done"]
           q2 == [q1 EXCEPT !.code = code]
           q3 == [q2 EXCEPT !.resumed = resumed]
<1>1. "done" \in Pc
  BY DEF Pc
<1>2. q1 \in Request
  BY <1>1, RequestField
<1> HIDE DEF q1
<1>3. q2 \in Request
  BY <1>2, RequestField
<1> HIDE DEF q2
<1>4. q3 \in Request
  BY <1>3, RequestField
<1>5. q3 = [q EXCEPT !.pc = "done", !.code = code, !.resumed = resumed]
  BY Zenon DEF q1, q2
<1> QED BY <1>4, <1>5

\* Every answer keeps a handler well-shaped.
LEMMA RespondOK ==
  ASSUME RequestOK, NEW r \in Requests, NEW code \in Code,
         NEW resumed \in BOOLEAN, request[r].pc # "unsent", Respond(r, code, resumed)
  PROVE  RequestOK'
<1> DEFINE answered == [request[r] EXCEPT !.pc = "done", !.code = code,
                                          !.resumed = resumed]
<1>1. request[r] \in Request /\ Bound(request[r])
  BY RequestBound, Zenon
<1>2. answered \in Request
  BY <1>1, AnswerType, Zenon
<1>3. answered.pc = "done" /\ answered.id = request[r].id
  BY <1>1 DEF Request
<1>4. request' = [request EXCEPT ![r] = answered]
  BY Zenon DEF Respond
<1>5. \E q \in Request : Bound(q) /\ request' = [request EXCEPT ![r] = q]
  <2> HIDE DEF answered
  <2>1. Bound(answered)
    BY <1>1, <1>3 DEF Bound
  <2> QED BY <1>2, <1>4, <2>1, Zenon
<1> QED BY <1>5, RequestUpdate, Zenon

\* Moving a handler to a later program counter keeps what it has bound.
LEMMA PcStepOK ==
  ASSUME RequestOK, NEW r \in Requests, NEW pc \in Pc \ {"unsent"},
         request[r].pc \in {"selected", "updated", "node", "audit", "recorded"},
         pc \in {"node", "audit", "recorded"} => request[r].node \in Actions,
         request' = [request EXCEPT ![r].pc = pc]
  PROVE  RequestOK'
<1> DEFINE q == [request[r] EXCEPT !.pc = pc]
<1>1. request[r] \in Request /\ Bound(request[r])
  BY RequestBound
<1>2. q \in Request
  BY <1>1 DEF Request
<1>3. Bound(q)
  BY <1>1 DEF Request, Bound
<1>4. request' = [request EXCEPT ![r] = q]
  BY DEF RequestOK
<1> HIDE DEF q
<1> QED BY <1>2, <1>3, <1>4, RequestUpdate

\* A handler is fresh when it takes its request in.
LEMMA UnsentType == Unsent \in Request
BY DEF Unsent, Request, Pc, Code, Verb, Motivation

LEMMA DecideSelectOK ==
  ASSUME Shape, NEW r \in Requests, NEW i \in Ids, NEW verb \in Verb,
         NEW motivation \in Motivation, DecideSelect(r, i, verb, motivation)
  PROVE  RequestOK'
<1> DEFINE sent == [Unsent EXCEPT !.id = i, !.verb = verb, !.motivation = motivation]
           taken == [sent EXCEPT !.pc = "selected",
                                 !.thread = ThreadOf[approvals[i].action]]
           refused(code) == [sent EXCEPT !.pc = "done", !.code = code]
<1>1. RequestOK
  BY DEF Shape, TypeOK, RequestOK
<1>2. \/ Pending(i) /\ request' = [request EXCEPT ![r] = taken]
      \/ \E code \in {400, 404} : request' = [request EXCEPT ![r] = refused(code)]
  <2> HIDE DEF sent
  <2> HIDE DEF taken, refused
  <2>1. CASE Pending(i) /\ ~(/\ motivation = "placeholder" /\ verb \in {"approve", "reject"}
                            /\ MotivationRequired(approvals[i].tier))
    <3>1. request' = [request EXCEPT ![r] = taken]
      BY <2>1 DEF DecideSelect, sent, taken
    <3> QED BY <2>1, <3>1
  <2>2. CASE ~Pending(i)
    <3>1. request' = [request EXCEPT ![r] = refused(404)]
      BY <2>2 DEF DecideSelect, sent, refused
    <3> QED BY <3>1
  <2>3. CASE /\ Pending(i) /\ motivation = "placeholder" /\ verb \in {"approve", "reject"}
             /\ MotivationRequired(approvals[i].tier)
    <3>1. request' = [request EXCEPT ![r] = refused(400)]
      BY <2>3 DEF DecideSelect, sent, refused
    <3> QED BY <3>1
  <2> QED BY <2>1, <2>2, <2>3
<1>3. sent \in Request
  <2> DEFINE q1 == [Unsent EXCEPT !.id = i]
             q2 == [q1 EXCEPT !.verb = verb]
             q3 == [q2 EXCEPT !.motivation = motivation]
  <2>1. q1 \in Request
    BY UnsentType, RequestField
  <2> HIDE DEF q1
  <2>2. q2 \in Request
    BY <2>1, RequestField
  <2> HIDE DEF q2
  <2>3. q3 \in Request
    BY <2>2, RequestField
  <2>4. sent = q3
    BY Zenon DEF q1, q2
  <2> QED BY <2>3, <2>4
<1>4. sent.id = i
  BY UnsentType DEF Request
<1> HIDE DEF sent
<1>5. "selected" \in Pc /\ "done" \in Pc
  BY DEF Pc
<1>6. ASSUME NEW code \in {400, 404} PROVE refused(code) \in Request /\ Bound(refused(code))
  <2> DEFINE q1 == [sent EXCEPT !.pc = "done"]
             q2 == [q1 EXCEPT !.code = code]
  <2>0. code \in Code
    BY <1>6 DEF Code
  <2>1. q1 \in Request
    BY <1>3, <1>5, RequestField
  <2> HIDE DEF q1
  <2>2. q2 \in Request
    BY <2>0, <2>1, RequestField, Zenon
  <2>3. refused(code) = q2
    BY Zenon DEF q1
  <2>4. refused(code).pc = "done" /\ refused(code).id = i
    BY <1>3, <1>4 DEF Request
  <2> QED BY <2>2, <2>3, <2>4 DEF Bound
<1>7. ASSUME Pending(i) PROVE taken \in Request /\ Bound(taken)
  <2> DEFINE t == ThreadOf[approvals[i].action]
             q1 == [sent EXCEPT !.pc = "selected"]
             q2 == [q1 EXCEPT !.thread = t]
  <2>1. t \in Threads
    BY <1>7, ExistingRow, ConstantTypes DEF Shape, TypeOK, Rows, Pending, Row
  <2> HIDE DEF t
  <2>2. q1 \in Request
    BY <1>3, <1>5, RequestField
  <2> HIDE DEF q1
  <2>3. q2 \in Request
    BY <2>1, <2>2, RequestField
  <2>4. taken = q2
    BY Zenon DEF q1, t
  <2>5. taken.pc = "selected" /\ taken.id = i /\ taken.thread \in Threads
    BY <1>3, <1>4, <2>1 DEF Request, t
  <2> QED BY <2>3, <2>4, <2>5 DEF Bound
<1> HIDE DEF taken, refused
<1> QED BY <1>1, <1>2, <1>6, <1>7, RequestUpdate

LEMMA ResumeSendOK ==
  ASSUME Shape, NEW r \in Requests, NEW t \in Threads, NEW i \in Ids, NEW verb \in Verb,
         NEW motivation \in Motivation, ResumeSend(r, t, i, verb, motivation)
  PROVE  RequestOK'
<1> DEFINE q == [Unsent EXCEPT !.pc = "updated", !.path = "resume", !.id = i,
                               !.thread = t, !.verb = verb, !.motivation = motivation]
<1>1. q \in Request
  <2> DEFINE q1 == [Unsent EXCEPT !.pc = "updated"]
             q2 == [q1 EXCEPT !.path = "resume"]
             q3 == [q2 EXCEPT !.id = i]
             q4 == [q3 EXCEPT !.thread = t]
             q5 == [q4 EXCEPT !.verb = verb]
             q6 == [q5 EXCEPT !.motivation = motivation]
  <2>1. "updated" \in Pc
    BY DEF Pc
  <2>2. q1 \in Request
    BY <2>1, UnsentType, RequestField
  <2> HIDE DEF q1
  <2>3. q2 \in Request
    BY <2>2, RequestField
  <2> HIDE DEF q2
  <2>4. q3 \in Request
    BY <2>3, RequestField
  <2> HIDE DEF q3
  <2>5. q4 \in Request
    BY <2>4, RequestField
  <2> HIDE DEF q4
  <2>6. q5 \in Request
    BY <2>5, RequestField
  <2> HIDE DEF q5
  <2>7. q6 \in Request
    BY <2>6, RequestField
  <2>8. q = q6
    BY Zenon DEF q1, q2, q3, q4, q5
  <2> QED BY <2>7, <2>8
<1>2. q.id = i /\ q.thread = t /\ q.pc = "updated"
  BY UnsentType DEF Request
<1>3. request' = [request EXCEPT ![r] = q]
  BY Zenon DEF ResumeSend
<1>4. RequestOK
  BY DEF Shape, TypeOK, RequestOK
<1> HIDE DEF q
<1> QED BY <1>1, <1>2, <1>3, <1>4, RequestUpdate DEF Bound

LEMMA SendOK ==
  ASSUME Shape, NEW r \in Requests, SendStep(r)
  PROVE  RequestOK'
<1>1. PICK verb \in Verbs, motivation \in Motivations :
        \/ \E i \in Ids : DecideSelect(r, i, verb, motivation)
        \/ \E t \in Threads, i \in Ids : ResumeSend(r, t, i, verb, motivation)
  BY DEF SendStep
<1>2. verb \in Verb /\ motivation \in Motivation
  BY ConstantTypes
<1> QED BY <1>1, <1>2, DecideSelectOK, ResumeSendOK

LEMMA RequestStepOK ==
  ASSUME Shape, NEW r \in Requests, RequestStep(r)
  PROVE  RequestOK'
<1>1. RequestOK
  BY DEF Shape, TypeOK, RequestOK
<1> 200 \in Code /\ 404 \in Code
  BY DEF Code
<1>2. CASE DecideUpdate(r)
  BY <1>1, <1>2, RespondOK, PcStepOK DEF DecideUpdate, Pc
<1>3. CASE ResumeNode(r)
  <2> DEFINE a == thread[request[r].thread].at
             q == [request[r] EXCEPT !.pc = "node", !.node = a]
  <2>1. request[r] \in Request /\ Bound(request[r]) /\ request[r].pc = "updated"
    BY <1>1, <1>3, RequestBound DEF ResumeNode
  <2>2. a \in Actions
    BY <1>3, <2>1 DEF ResumeNode, Shape, ThreadAt, Bound
  <2> HIDE DEF a
  <2>3. q \in Request
    <3> DEFINE q1 == [request[r] EXCEPT !.pc = "node"]
               q2 == [q1 EXCEPT !.node = a]
    <3>1. "node" \in Pc
      BY DEF Pc
    <3>2. q1 \in Request
      BY <2>1, <3>1, RequestField
    <3> HIDE DEF q1
    <3>3. q2 \in Request
      BY <2>2, <3>2, RequestField
    <3>4. q = q2
      BY Zenon DEF q1
    <3> QED BY <3>3, <3>4
  <2>4. Bound(q)
    <3>1. /\ q.pc = "node" /\ q.id = request[r].id /\ q.node = a
          /\ q.thread = request[r].thread
      BY <2>1 DEF Request
    <3> HIDE DEF q
    <3> QED BY <2>1, <2>2, <3>1 DEF Bound
  <2>5. request' = [request EXCEPT ![r] = q]
    BY <1>3, Zenon DEF ResumeNode, a
  <2> HIDE DEF q
  <2> QED BY <1>1, <2>3, <2>4, <2>5, RequestUpdate
<1>4. CASE ResumeNothing(r)
  <2>1. \E resumed \in BOOLEAN, code \in Code : Respond(r, code, resumed)
    BY <1>4 DEF ResumeNothing, Code
  <2>2. request[r].pc # "unsent"
    BY <1>4 DEF ResumeNothing
  <2> QED BY <1>1, <2>1, <2>2, RespondOK
<1>5. CASE NodeUpdate(r)
  <2>1. request[r].node \in Actions /\ request[r].pc = "node"
    BY <1>1, <1>5 DEF NodeUpdate, RequestOK, RequestAt
  <2>2. Respond(r, 200, FALSE) \/ request' = [request EXCEPT ![r].pc = "audit"]
    BY <1>5 DEF NodeUpdate
  <2>3. CASE Respond(r, 200, FALSE)
    BY <1>1, <2>1, <2>3, RespondOK
  <2>4. CASE request' = [request EXCEPT ![r].pc = "audit"]
    BY <1>1, <2>1, <2>4, PcStepOK DEF Pc
  <2> QED BY <2>2, <2>3, <2>4
<1>6. CASE NodeAudit(r)
  <2>1. request[r].node \in Actions /\ request[r].pc = "audit"
    BY <1>1, <1>6 DEF NodeAudit, RequestOK, RequestAt
  <2> QED BY <1>1, <1>6, <2>1, PcStepOK DEF NodeAudit, Pc
<1>7. CASE NodeReturn(r)
  BY <1>1, <1>7, RespondOK DEF NodeReturn
<1>8. CASE ResumeFails(r)
  <2>1. request[r].pc # "unsent" /\ Respond(r, 200, FALSE)
    BY <1>8 DEF ResumeFails
  <2> QED BY <1>1, <2>1, RespondOK
<1>9. CASE RequestLost(r)
  <2>1. request[r].pc \in {"selected", "updated", "node", "audit", "recorded"}
    BY <1>1, <1>9 DEF RequestLost, RequestOK, Request, Pc
  <2> QED BY <1>1, <1>9, <2>1, PcStepOK DEF RequestLost, Pc
<1> QED BY <1>2, <1>3, <1>4, <1>5, <1>6, <1>7, <1>8, <1>9 DEF RequestStep

LEMMA AgentOK ==
  ASSUME Shape, AgentStep
  PROVE  /\ ThreadOK'
         /\ UNCHANGED <<finished, request, scan, audit>>
         /\ faults' \in 0..MaxFaults
<1>1. ThreadOK /\ faults \in 0..MaxFaults /\ MaxFaults \in Nat
  BY ConstantTypes DEF Shape, TypeOK, ThreadOK
<1>2. ASSUME NEW a \in Actions, Propose(a) PROVE ThreadOK'
  <2> DEFINE new == [phase |-> "inserted", at |-> a]
  <2>1. new \in Thread /\ ThreadOf[a] \in Threads
    BY ConstantTypes DEF Thread
  <2> HIDE DEF new
  <2>2. thread' = [thread EXCEPT ![ThreadOf[a]] = new] /\ new.at = a
    BY <1>2 DEF Propose, new
  <2> QED BY <1>1, <2>1, <2>2 DEF ThreadOK, ThreadAt
<1>3. ASSUME NEW t \in Threads, Interrupt(t) PROVE ThreadOK'
  BY <1>1, <1>3 DEF Interrupt, ThreadOK, ThreadAt, Thread
<1>4. ASSUME NEW t \in Threads, AgentCrash(t) PROVE ThreadOK' /\ faults' \in 0..MaxFaults
  BY <1>1, <1>4 DEF AgentCrash, Fault, ThreadOK, ThreadAt, Thread
<1> QED BY <1>1, <1>2, <1>3, <1>4
     DEF AgentStep, Propose, InsertDetached, Interrupt, AgentCrash, ThreadOK, ThreadAt

LEMMA RequestRestOK ==
  ASSUME Shape, NEW r \in Requests, RequestStep(r)
  PROVE  /\ ThreadOK' /\ finished' \subseteq Actions
         /\ UNCHANGED scan
         /\ audit' \subseteq AuditRecord
         /\ faults' \in 0..MaxFaults
<1>1. /\ ThreadOK /\ RequestOK /\ finished \subseteq Actions /\ audit \subseteq AuditRecord
      /\ faults \in 0..MaxFaults /\ MaxFaults \in Nat
  BY ConstantTypes DEF Shape, TypeOK, ThreadOK, RequestOK
<1>2. request[r] \in Request /\ Bound(request[r])
  BY <1>1, RequestBound
<1>3. CASE NodeAudit(r)
  <2>1. request[r].node \in Actions /\ request[r].verb \in Verb
    BY <1>2, <1>3 DEF NodeAudit, Bound, Request
  <2> DEFINE a == request[r].node
             decision == TierToDecision(TierOf[a], request[r].verb)
  <2>2. decision \in AuditDecision
    BY <2>1, TierToDecisionType, ConstantTypes
  <2> HIDE DEF decision
  <2>3. [decision |-> decision, approval_id |-> a, about |-> a,
         escalated_to_id |-> None, actor |-> r] \in AuditRecord
    BY <2>1, <2>2 DEF AuditRecord, Ids
  <2>4. audit' \subseteq AuditRecord
    BY <1>1, <1>3, <2>3 DEF NodeAudit, decision
  <2> QED BY <1>1, <1>3, <2>4 DEF NodeAudit, ThreadOK, ThreadAt
<1>4. CASE NodeReturn(r)
  <2> DEFINE idle == [phase |-> "idle", at |-> None]
  <2>1. request[r].node \in Actions /\ request[r].thread \in Threads
    BY <1>2, <1>4 DEF NodeReturn, Bound
  <2>2. idle \in Thread /\ idle.phase = "idle"
    BY DEF Thread
  <2> HIDE DEF idle
  <2>3. thread' = [thread EXCEPT ![request[r].thread] = idle]
    BY <1>4 DEF NodeReturn, idle
  <2>4. ThreadOK'
    BY <1>1, <2>1, <2>2, <2>3 DEF ThreadOK, ThreadAt
  <2> QED BY <1>1, <1>4, <2>1, <2>4 DEF NodeReturn
<1>5. CASE DecideUpdate(r) \/ ResumeNode(r) \/ ResumeNothing(r) \/ NodeUpdate(r)
  BY <1>1, <1>5
     DEF DecideUpdate, ResumeNode, ResumeNothing, NodeUpdate, ThreadOK, ThreadAt
<1>6. CASE ResumeFails(r) \/ RequestLost(r)
  <2>1. Fault /\ UNCHANGED <<thread, finished, scan, audit>>
    BY <1>6, Zenon DEF ResumeFails, RequestLost
  <2> QED BY <1>1, <2>1 DEF Fault, ThreadOK, ThreadAt
<1> QED BY <1>3, <1>4, <1>5, <1>6 DEF RequestStep

\* A step of a supervisor.
SupervisorStep(s) ==
  ScanRows(s) \/ HandleRow(s) \/ AuditTransition(s) \/ ScanFault(s)

LEMMA ScanUpdate ==
  ASSUME scan \in [Supervisors -> Scan], NEW s \in Supervisors, NEW q \in Scan,
         scan' = [scan EXCEPT ![s] = q]
  PROVE  scan' \in [Supervisors -> Scan]
OBVIOUS

LEMMA SupervisorOK ==
  ASSUME Shape, NEW s \in Supervisors, SupervisorStep(s)
  PROVE  /\ UNCHANGED <<thread, finished, request>>
         /\ scan' \in [Supervisors -> Scan]
         /\ audit' \subseteq AuditRecord
         /\ faults' \in 0..MaxFaults
<1>1. /\ scan \in [Supervisors -> Scan] /\ audit \subseteq AuditRecord
      /\ faults \in 0..MaxFaults /\ MaxFaults \in Nat
  BY ConstantTypes DEF Shape, TypeOK
<1>2. Sleeping \in Scan
  BY DEF Sleeping, Scan
<1>3. CASE ScanRows(s)
  <2>1. PICK rows \in SUBSET Stale : scan' = [scan EXCEPT ![s].batch = rows]
    BY <1>3 DEF ScanRows
  <2>2. [scan[s] EXCEPT !.batch = rows] \in Scan
    BY <1>1 DEF Scan, Stale
  <2>3. scan' = [scan EXCEPT ![s] = [scan[s] EXCEPT !.batch = rows]]
    BY <1>1, <2>1
  <2>4. scan' \in [Supervisors -> Scan]
    BY <1>1, <2>2, <2>3, ScanUpdate
  <2> QED BY <1>1, <1>3, <2>4 DEF ScanRows
<1>4. CASE HandleRow(s)
  <2>1. PICK i \in Ids : \/ \E new \in FreshIds : EscalateRow(s, i, new)
                         \/ EscalateRowConflict(s, i)
                         \/ TimeOutRow(s, i)
    BY <1>4 DEF HandleRow
  <2>2. ASSUME NEW new \in FreshIds \cup {None}
        PROVE  [batch |-> scan[s].batch \ {i}, row |-> i, escalated_to_id |-> new] \in Scan
    BY <1>1, <2>2 DEF Scan, Ids
  <2>3. \E q \in Scan : scan' = [scan EXCEPT ![s] = q]
    <3>1. ASSUME NEW new \in FreshIds, EscalateRow(s, i, new)
          PROVE  \E q \in Scan : scan' = [scan EXCEPT ![s] = q]
      BY <1>1, <2>2, <3>1 DEF EscalateRow
    <3>2. CASE EscalateRowConflict(s, i)
      BY <1>2, <3>2 DEF EscalateRowConflict
    <3>3. CASE TimeOutRow(s, i)
      BY <1>1, <2>2, <3>3 DEF TimeOutRow
    <3> QED BY <2>1, <3>1, <3>2, <3>3
  <2>4. scan' \in [Supervisors -> Scan]
    BY <1>1, <2>3, ScanUpdate
  <2> QED BY <1>1, <2>1, <2>4 DEF EscalateRow, EscalateRowConflict, TimeOutRow
<1>5. CASE AuditTransition(s)
  <2> DEFINE released == [scan[s] EXCEPT !.row = None, !.escalated_to_id = None]
             rec == [decision |-> IF scan[s].escalated_to_id = None
                                  THEN "timed_out" ELSE "escalated",
                     approval_id |-> None, about |-> scan[s].row,
                     escalated_to_id |-> scan[s].escalated_to_id, actor |-> s]
  <2>1. scan[s] \in Scan /\ scan[s].row \in Ids
    BY <1>1, <1>5 DEF AuditTransition, Scan
  <2>2. released \in Scan
    BY <2>1 DEF Scan
  <2>3. rec \in AuditRecord
    BY <2>1 DEF AuditRecord, AuditDecision, Scan
  <2>4. \/ scan' = [scan EXCEPT ![s] = Sleeping] /\ audit' = audit
        \/ scan' = [scan EXCEPT ![s] = released] /\ audit' = audit \cup {rec}
    BY <1>1, <1>5 DEF AuditTransition
  <2> HIDE DEF released, rec
  <2>5. scan' \in [Supervisors -> Scan] /\ audit' \subseteq AuditRecord
    BY <1>1, <1>2, <2>2, <2>3, <2>4, ScanUpdate
  <2> QED BY <1>1, <1>5, <2>5 DEF AuditTransition
<1>6. CASE ScanFault(s)
  BY <1>1, <1>2, <1>6 DEF ScanFault, Fault
<1> QED BY <1>3, <1>4, <1>5, <1>6 DEF SupervisorStep

LEMMA ShapeInit == Init => Shape
<1> SUFFICES ASSUME Init PROVE Shape
  OBVIOUS
<1>1. approvals \in [Ids -> Row \cup {NoRow}]
  BY DEF Init
<1>2. thread \in [Threads -> Thread] /\ ThreadAt
  BY DEF Init, Thread, ThreadAt
<1>3. request \in [Requests -> Request] /\ RequestAt
  BY UnsentType DEF Init, RequestAt, Unsent
<1>4. scan \in [Supervisors -> Scan]
  BY DEF Init, Sleeping, Scan
<1>5. finished \subseteq Actions /\ audit \subseteq AuditRecord /\ faults \in 0..MaxFaults
  BY ConstantTypes DEF Init
<1> QED BY <1>1, <1>2, <1>3, <1>4, <1>5 DEF Shape, TypeOK

LEMMA ShapeStep ==
  ASSUME Shape, [Next]_vars
  PROVE  Shape'
<1>1. approvals' \in [Ids -> Row \cup {NoRow}]
  BY RowEffects, RowStepType DEF Rows
<1>2. /\ ThreadOK /\ RequestOK /\ finished \subseteq Actions /\ audit \subseteq AuditRecord
      /\ scan \in [Supervisors -> Scan] /\ faults \in 0..MaxFaults
  BY DEF Shape, TypeOK, ThreadOK, RequestOK
<1> SUFFICES /\ ThreadOK' /\ RequestOK' /\ finished' \subseteq Actions
             /\ audit' \subseteq AuditRecord
             /\ scan' \in [Supervisors -> Scan] /\ faults' \in 0..MaxFaults
  BY <1>1 DEF Shape, TypeOK, ThreadOK, RequestOK
<1>3. CASE AgentStep
  BY <1>2, <1>3, AgentOK DEF RequestOK, RequestAt
<1>4. ASSUME NEW i \in Ids, DeadlinePasses(i)
      PROVE  UNCHANGED <<thread, finished, request, scan, audit, faults>>
  BY <1>4 DEF DeadlinePasses
<1>5. ASSUME NEW r \in Requests, SendStep(r)
      PROVE  RequestOK' /\ UNCHANGED <<thread, finished, scan, audit, faults>>
  BY <1>5, SendOK DEF SendStep, DecideSelect, ResumeSend
<1>6. ASSUME NEW r \in Requests, RequestStep(r)
      PROVE  /\ ThreadOK' /\ RequestOK' /\ finished' \subseteq Actions
             /\ audit' \subseteq AuditRecord /\ UNCHANGED scan /\ faults' \in 0..MaxFaults
  BY <1>6, RequestStepOK, RequestRestOK
<1>7. ASSUME NEW s \in Supervisors, SupervisorStep(s)
      PROVE  /\ UNCHANGED <<thread, finished, request>>
             /\ scan' \in [Supervisors -> Scan]
             /\ audit' \subseteq AuditRecord /\ faults' \in 0..MaxFaults
  BY <1>7, SupervisorOK
<1>8. CASE UNCHANGED vars
  BY <1>2, <1>8 DEF vars, ThreadOK, ThreadAt, RequestOK, RequestAt
<1>9. ASSUME UNCHANGED thread PROVE ThreadOK'
  BY <1>2, <1>9 DEF ThreadOK, ThreadAt
<1>10. ASSUME UNCHANGED request PROVE RequestOK'
  BY <1>2, <1>10 DEF RequestOK, RequestAt
<1>11. \/ AgentStep
       \/ \E i \in Ids : DeadlinePasses(i)
       \/ \E r \in Requests : SendStep(r) \/ RequestStep(r)
       \/ \E s \in Supervisors : SupervisorStep(s)
       \/ UNCHANGED vars
  BY DEF Next, SupervisorStep
<1>12. CASE \E i \in Ids : DeadlinePasses(i)
  BY <1>2, <1>4, <1>9, <1>10, <1>12
<1>13. CASE \E r \in Requests : SendStep(r)
  BY <1>2, <1>5, <1>9, <1>13
<1>14. CASE \E r \in Requests : RequestStep(r)
  BY <1>2, <1>6, <1>14
<1>15. CASE \E s \in Supervisors : SupervisorStep(s)
  BY <1>2, <1>7, <1>9, <1>10, <1>15
<1> QED BY <1>3, <1>8, <1>11, <1>12, <1>13, <1>14, <1>15

LEMMA ShapeAlways == Spec => []Shape
BY ShapeInit, ShapeStep, PTL DEF Spec

\* Whatever the processes do, every variable keeps to the shape of its table or
\* of its process, for every set of actions, requests and supervisors.
THEOREM TypeCorrect == Spec => []TypeOK
<1>1. Shape => TypeOK
  BY DEF Shape
<1> QED BY <1>1, ShapeAlways, PTL

-----------------------------------------------------------------------------
(* What each effect does, row by row *)

Others(S) == \A j \in Ids \ S : approvals'[j] = approvals[j]

LEMMA OpenedEffect ==
  ASSUME Shape, NEW a \in Actions, Opened(a)
  PROVE  /\ ~Exists(a)
         /\ approvals'[a] = NewRow(a, TierOf[a])
         /\ Others({a})
BY DEF Shape, TypeOK, Opened, Others, Ids

LEMMA DecidedEffect ==
  ASSUME Shape, NEW i \in Ids, NEW r \in Requests, Decided(i, r)
  PROVE  /\ Pending(i) /\ approvals[i] \in Row /\ approvals'[i] \in Row
         /\ approvals'[i].status = StatusOf(request[r].verb)
         /\ approvals'[i].status \in {"approved", "rejected", "escalated"}
         /\ approvals'[i].decided_by = r
         /\ approvals'[i].action = approvals[i].action
         /\ approvals'[i].tier = approvals[i].tier
         /\ approvals'[i].escalated_to_id = approvals[i].escalated_to_id
         /\ Others({i})
<1>1. approvals \in Rows /\ Pending(i) /\ approvals[i] \in Row
  BY ExistingRow DEF Shape, TypeOK, Rows, Decided, Pending
<1>2. request[r].verb \in Verb
  BY DEF Shape, TypeOK, Request
<1>3. StatusOf(request[r].verb) \in {"approved", "rejected", "escalated"}
  BY <1>2, StatusOfType DEF Status
<1>4. approvals' = [approvals EXCEPT ![i].status = StatusOf(request[r].verb),
                                     ![i].decided_by = r,
                                     ![i].motivation = request[r].motivation]
  BY DEF Decided, UpdateDecision
<1>5. /\ approvals'[i].status = StatusOf(request[r].verb)
      /\ approvals'[i].decided_by = r
      /\ approvals'[i].action = approvals[i].action
      /\ approvals'[i].tier = approvals[i].tier
      /\ approvals'[i].escalated_to_id = approvals[i].escalated_to_id
  BY <1>1, <1>4 DEF Rows, Row
<1>6. Others({i})
  BY <1>1, <1>4 DEF Rows, Others
<1>7. approvals'[i] \in Row
  <2>1. StatusOf(request[r].verb) \in Status /\ request[r].motivation \in Motivation
    BY <1>3 DEF Status, Shape, TypeOK, Request
  <2>2. approvals'[i] = [approvals[i] EXCEPT !.status = StatusOf(request[r].verb),
                                            !.decided_by = r,
                                            !.motivation = request[r].motivation]
    BY <1>1, <1>4 DEF Rows
  <2> QED BY <1>1, <2>1, <2>2 DEF Row
<1> QED BY <1>1, <1>3, <1>5, <1>6, <1>7

LEMMA HoppedEffect ==
  ASSUME Shape, NEW i \in Ids, NEW new \in FreshIds, Hopped(i, new)
  PROVE  /\ Pending(i) /\ approvals[i] \in Row /\ ~Exists(new) /\ new \in Ids /\ i # new
         /\ NextTier(approvals[i].tier) # NoTier
         /\ approvals'[new] = NewRow(approvals[i].action, NextTier(approvals[i].tier))
         /\ approvals'[i] = [approvals[i] EXCEPT !.status = "escalated",
                                                 !.escalated_to_id = new]
         /\ Others({i, new})
<1>1. approvals \in Rows /\ Pending(i) /\ approvals[i] \in Row /\ new \in Ids /\ i # new
  BY ExistingRow DEF Shape, TypeOK, Rows, Hopped, Pending, Ids
<1> QED BY <1>1 DEF Rows, Hopped, InsertEscalation, Others

LEMMA ExpiredEffect ==
  ASSUME Shape, NEW i \in Ids, Expired(i)
  PROVE  /\ Pending(i) /\ approvals[i] \in Row
         /\ approvals'[i] = [approvals[i] EXCEPT !.status = "timed_out"]
         /\ Others({i})
<1>1. approvals \in Rows /\ Pending(i) /\ approvals[i] \in Row
  BY ExistingRow DEF Shape, TypeOK, Rows, Expired, Pending
<1> QED BY <1>1 DEF Rows, Expired, Others

LEMMA AgedEffect ==
  ASSUME Shape, NEW i \in Ids, Aged(i)
  PROVE  /\ Pending(i) /\ approvals[i] \in Row
         /\ approvals'[i] = [approvals[i] EXCEPT !.overdue = TRUE]
         /\ Others({i})
<1>1. approvals \in Rows /\ Pending(i) /\ approvals[i] \in Row
  BY ExistingRow DEF Shape, TypeOK, Rows, Aged, Pending
<1> QED BY <1>1 DEF Rows, Aged, Others

-----------------------------------------------------------------------------
(* Layer 3: a row that left the pending state is frozen *)

LEMMA RowStepFreezes ==
  ASSUME Shape, RowStep, NEW j \in Ids, Exists(j), ~Pending(j)
  PROVE  approvals'[j] = approvals[j]
<1>1. ASSUME NEW a \in Actions, Opened(a) PROVE approvals'[j] = approvals[j]
  <2>1. ~Exists(a) /\ Others({a})
    BY <1>1, OpenedEffect
  <2> QED BY <2>1 DEF Others
<1>2. ASSUME NEW i \in Ids, NEW r \in Requests, Decided(i, r)
      PROVE  approvals'[j] = approvals[j]
  <2>1. Pending(i) /\ Others({i})
    BY <1>2, DecidedEffect
  <2> QED BY <2>1 DEF Others
<1>3. ASSUME NEW i \in Ids, NEW new \in FreshIds, Hopped(i, new)
      PROVE  approvals'[j] = approvals[j]
  <2>1. Pending(i) /\ ~Exists(new) /\ Others({i, new})
    BY <1>3, HoppedEffect
  <2> QED BY <2>1 DEF Others
<1>4. ASSUME NEW i \in Ids, Expired(i) \/ Aged(i) PROVE approvals'[j] = approvals[j]
  <2>1. Pending(i) /\ Others({i})
    BY <1>4, ExpiredEffect, AgedEffect
  <2> QED BY <2>1 DEF Others
<1> QED BY <1>1, <1>2, <1>3, <1>4 DEF RowStep

\* No step of any process overwrites a decision, an escalation or a timeout:
\* the WHERE status = 'pending' of each statement is enough, whatever was read
\* before it.
THEOREM DecidedRowsStayFrozen == Spec => DecidedRowsFrozen
<1>1. Shape /\ [Next]_vars =>
        [\A i \in Ids : Exists(i) /\ ~Pending(i) => approvals'[i] = approvals[i]]_vars
  BY RowEffects, RowStepFreezes
<1> QED BY <1>1, ShapeAlways, PTL DEF Spec, DecidedRowsFrozen

-----------------------------------------------------------------------------
(* The rows of an action: ChainInv strengthens OneOpenRow and EscalationChain *)

\* A row of the agent's is a row of the action it is named after, and every
\* action that has a row has that one.
RootRow ==
  /\ \A a \in Actions : Exists(a) => approvals[a].action = a
  /\ \A i \in Ids : Exists(i) => Exists(approvals[i].action)

\* Only an escalated row is linked to another one.
PendingUnlinked ==
  \A i \in Ids : Pending(i) => approvals[i].escalated_to_id = None

\* A row is linked to a row that was created for it, one tier further.
LinkTarget ==
  \A i \in Ids : Exists(i) /\ approvals[i].escalated_to_id # None =>
    /\ approvals[i].status = "escalated"
    /\ approvals[i].escalated_to_id \in FreshIds
    /\ Exists(approvals[i].escalated_to_id)
    /\ approvals[approvals[i].escalated_to_id].action = approvals[i].action
    /\ approvals[approvals[i].escalated_to_id].tier = NextTier(approvals[i].tier)

\* A row with an id of its own was created by an escalation.
LinkSource ==
  \A j \in FreshIds : Exists(j) =>
    \E i \in Ids : Exists(i) /\ approvals[i].escalated_to_id = j

LinksInjective ==
  \A i, k \in Ids :
    /\ Exists(i) /\ Exists(k)
    /\ approvals[i].escalated_to_id = approvals[k].escalated_to_id
    /\ approvals[i].escalated_to_id # None
    => i = k

\* The rows of an action have exactly one end.
OneEnd ==
  \A i, j \in Ids :
    /\ Exists(i) /\ Exists(j)
    /\ approvals[i].action = approvals[j].action
    /\ approvals[i].escalated_to_id = None /\ approvals[j].escalated_to_id = None
    => i = j

SomeEnd ==
  \A a \in Actions : Exists(a) =>
    \E i \in Ids : /\ Exists(i) /\ approvals[i].action = a
                   /\ approvals[i].escalated_to_id = None

ChainInv ==
  /\ RootRow /\ PendingUnlinked /\ LinkTarget /\ LinkSource
  /\ LinksInjective /\ OneEnd /\ SomeEnd

\* Steps that neither create a row nor link one.
SameLinks ==
  \A j \in Ids :
    /\ approvals'[j] = NoRow <=> approvals[j] = NoRow
    /\ approvals[j] # NoRow =>
         /\ approvals'[j].action = approvals[j].action
         /\ approvals'[j].tier = approvals[j].tier
         /\ approvals'[j].escalated_to_id = approvals[j].escalated_to_id
         /\ approvals'[j].status = "pending" => approvals[j].status = "pending"
         /\ approvals[j].status = "escalated" => approvals'[j].status = "escalated"

LEMMA SameLinksStep ==
  ASSUME Shape, RowStep, ~\E a \in Actions : Opened(a),
         ~\E i \in Ids, new \in FreshIds : Hopped(i, new)
  PROVE  SameLinks
<1>1. approvals' \in Rows
  BY RowStepType
<1>2. CASE approvals' = approvals
  BY <1>2 DEF SameLinks
<1>3. ASSUME NEW i \in Ids, NEW r \in Requests, Decided(i, r) PROVE SameLinks
  <2>1. /\ approvals[i] \in Row /\ approvals[i].status = "pending"
        /\ approvals'[i].status \in {"approved", "rejected", "escalated"}
        /\ approvals'[i].action = approvals[i].action
        /\ approvals'[i].tier = approvals[i].tier
        /\ approvals'[i].escalated_to_id = approvals[i].escalated_to_id
        /\ Others({i})
    BY <1>3, DecidedEffect DEF Pending
  <2>2. approvals'[i] # NoRow
    BY <1>3, DecidedEffect, NoRowIsNoRow
  <2> QED BY <2>1, <2>2, NoRowIsNoRow DEF SameLinks, Others
<1>4. ASSUME NEW i \in Ids, Expired(i) PROVE SameLinks
  <2>1. /\ approvals[i] \in Row /\ approvals[i].status = "pending"
        /\ approvals'[i] = [approvals[i] EXCEPT !.status = "timed_out"]
        /\ Others({i})
    BY <1>4, ExpiredEffect DEF Pending
  <2>2. approvals'[i] \in Row
    BY <2>1 DEF Row, Status
  <2> QED BY <2>1, <2>2, NoRowIsNoRow DEF SameLinks, Others, Row
<1>5. ASSUME NEW i \in Ids, Aged(i) PROVE SameLinks
  <2>1. /\ approvals[i] \in Row /\ approvals[i].status = "pending"
        /\ approvals'[i] = [approvals[i] EXCEPT !.overdue = TRUE]
        /\ Others({i})
    BY <1>5, AgedEffect DEF Pending
  <2>2. approvals'[i] \in Row
    BY <2>1 DEF Row
  <2> QED BY <2>1, <2>2, NoRowIsNoRow DEF SameLinks, Others, Row
<1> QED BY <1>2, <1>3, <1>4, <1>5 DEF RowStep

LEMMA ChainSame ==
  ASSUME Shape, ChainInv, SameLinks
  PROVE  ChainInv'
<1>1. \A i \in Ids : Exists(i) => approvals[i].action \in Ids
  BY ExistingRow DEF Shape, TypeOK, Rows, Row, Ids
<1>2. Actions \subseteq Ids /\ FreshIds \subseteq Ids
  BY DEF Ids
<1>3. RootRow'
  BY <1>1, <1>2 DEF ChainInv, RootRow, SameLinks, Exists
<1>4. PendingUnlinked'
  BY DEF ChainInv, PendingUnlinked, SameLinks, Exists, Pending
<1>5. LinkTarget'
  BY <1>2 DEF ChainInv, LinkTarget, SameLinks, Exists
<1>6. LinkSource'
  BY <1>2 DEF ChainInv, LinkSource, SameLinks, Exists
<1>7. LinksInjective'
  BY DEF ChainInv, LinksInjective, SameLinks, Exists
<1>8. OneEnd'
  BY DEF ChainInv, OneEnd, SameLinks, Exists
<1>9. SomeEnd'
  BY <1>2 DEF ChainInv, SomeEnd, SameLinks, Exists
<1> QED BY <1>3, <1>4, <1>5, <1>6, <1>7, <1>8, <1>9 DEF ChainInv

LEMMA ChainOpened ==
  ASSUME Shape, ChainInv, NEW a \in Actions, Opened(a)
  PROVE  ChainInv'
<1>1. /\ approvals[a] = NoRow
      /\ approvals'[a] = NewRow(a, TierOf[a])
      /\ Others({a})
  BY OpenedEffect DEF Exists
<1>2. /\ approvals'[a] # NoRow /\ approvals'[a].action = a
      /\ approvals'[a].escalated_to_id = None /\ approvals'[a].status = "pending"
  BY <1>1, NewRowType, ConstantTypes DEF NewRow
<1>3. \A i \in Ids : Exists(i) => approvals[i].action \in Ids /\ approvals[i].action # a
  BY <1>1, ExistingRow DEF Shape, TypeOK, Rows, Row, Ids, ChainInv, RootRow, Exists
<1>4. Actions \subseteq Ids /\ FreshIds \subseteq Ids /\ a \notin FreshIds /\ None \notin Ids
  BY DistinctNames DEF Ids
<1>5. RootRow'
  BY <1>1, <1>2, <1>3, <1>4 DEF ChainInv, RootRow, Others, Exists
<1>6. PendingUnlinked'
  BY <1>1, <1>2 DEF ChainInv, PendingUnlinked, Others, Exists, Pending
<1>7. LinkTarget'
  BY <1>1, <1>2, <1>4 DEF ChainInv, LinkTarget, Others, Exists
<1>8. LinkSource'
  BY <1>1, <1>2, <1>4 DEF ChainInv, LinkSource, Others, Exists
<1>9. LinksInjective'
  BY <1>1, <1>2 DEF ChainInv, LinksInjective, Others, Exists
<1>10. OneEnd'
  BY <1>1, <1>2, <1>3 DEF ChainInv, OneEnd, Others, Exists
<1>11. SomeEnd'
  BY <1>1, <1>2, <1>4 DEF ChainInv, SomeEnd, Others, Exists
<1> QED BY <1>5, <1>6, <1>7, <1>8, <1>9, <1>10, <1>11 DEF ChainInv

LEMMA ChainHopped ==
  ASSUME Shape, ChainInv, NEW i \in Ids, NEW new \in FreshIds, Hopped(i, new)
  PROVE  ChainInv'
<1>0. /\ approvals[i] \in Row
      /\ NextTier(approvals[i].tier) # NoTier
      /\ approvals'[new] = NewRow(approvals[i].action, NextTier(approvals[i].tier))
      /\ approvals'[i] = [approvals[i] EXCEPT !.status = "escalated",
                                              !.escalated_to_id = new]
  BY HoppedEffect
<1>1. /\ approvals[i] # NoRow /\ approvals[i].status = "pending"
      /\ approvals[new] = NoRow /\ new \in Ids /\ i # new
      /\ Others({i, new})
  BY HoppedEffect DEF Pending, Exists
<1>2. /\ approvals'[new] # NoRow /\ approvals'[new].action = approvals[i].action
      /\ approvals'[new].tier = NextTier(approvals[i].tier)
      /\ approvals'[new].escalated_to_id = None /\ approvals'[new].status = "pending"
  <2>1. approvals[i].action \in Actions /\ NextTier(approvals[i].tier) \in Tier
    BY <1>0, NextTierType DEF Row
  <2> QED BY <1>0, <2>1, NewRowType DEF NewRow
<1>3. /\ approvals'[i].action = approvals[i].action /\ approvals'[i].tier = approvals[i].tier
      /\ approvals'[i].escalated_to_id = new /\ approvals'[i].status = "escalated"
  BY <1>0 DEF Row
<1>4. approvals'[i] # NoRow
  <2>1. approvals'[i] \in Row
    BY <1>0, <1>1 DEF Row, Status
  <2> QED BY <2>1, NoRowIsNoRow
<1>5. approvals[i].escalated_to_id = None
  BY <1>1 DEF ChainInv, PendingUnlinked, Pending, Exists
<1>6. Actions \subseteq Ids /\ FreshIds \subseteq Ids /\ new \notin Actions /\ None \notin Ids
  BY DistinctNames DEF Ids
<1>7. \A j \in Ids : Exists(j) => approvals[j].action \in Ids /\ approvals[j].action # new
  BY <1>1, ExistingRow DEF Shape, TypeOK, Rows, Row, Ids, ChainInv, RootRow, Exists
<1>8. \A j \in Ids : Exists(j) => approvals[j].escalated_to_id # new
  BY <1>1, <1>6 DEF ChainInv, LinkTarget, Exists
<1>9. RootRow'
  BY <1>1, <1>2, <1>3, <1>4, <1>6, <1>7 DEF ChainInv, RootRow, Others, Exists
<1>10. PendingUnlinked'
  BY <1>1, <1>2, <1>3 DEF ChainInv, PendingUnlinked, Others, Exists, Pending
<1>11. LinkTarget'
  BY <1>1, <1>2, <1>3, <1>4, <1>6, <1>8 DEF ChainInv, LinkTarget, Others, Exists
<1>12. LinkSource'
  BY <1>1, <1>2, <1>3, <1>4, <1>5, <1>6 DEF ChainInv, LinkSource, Others, Exists
<1>13. LinksInjective'
  BY <1>1, <1>2, <1>3, <1>8 DEF ChainInv, LinksInjective, Others, Exists
<1>14. OneEnd'
  BY <1>1, <1>2, <1>3, <1>5, <1>6 DEF ChainInv, OneEnd, Others, Exists
<1>15. SomeEnd'
  BY <1>1, <1>2, <1>3, <1>4, <1>6 DEF ChainInv, SomeEnd, Others, Exists
<1> QED BY <1>9, <1>10, <1>11, <1>12, <1>13, <1>14, <1>15 DEF ChainInv

LEMMA ChainInit == Init => ChainInv
<1> SUFFICES ASSUME Init PROVE ChainInv
  OBVIOUS
<1>1. \A i \in Ids : ~Exists(i)
  BY DEF Init, Exists
<1> QED
  BY <1>1 DEF ChainInv, RootRow, PendingUnlinked, LinkTarget, LinkSource, LinksInjective,
              OneEnd, SomeEnd, Pending, Ids

LEMMA ChainStep ==
  ASSUME Shape, ChainInv, [Next]_vars
  PROVE  ChainInv'
<1>1. RowStep
  BY RowEffects
<1>2. CASE \E a \in Actions : Opened(a)
  BY <1>2, ChainOpened
<1>3. CASE \E i \in Ids, new \in FreshIds : Hopped(i, new)
  BY <1>3, ChainHopped
<1>4. CASE /\ ~\E a \in Actions : Opened(a)
           /\ ~\E i \in Ids, new \in FreshIds : Hopped(i, new)
  BY <1>1, <1>4, SameLinksStep, ChainSame
<1> QED BY <1>2, <1>3, <1>4

LEMMA ChainAlways == Spec => []ChainInv
BY ShapeAlways, ChainInit, ChainStep, PTL DEF Spec

\* The links of the escalated rows form one chain per action, whatever the number
\* of supervisors and people that work on it.
THEOREM ChainsWellFormed == Spec => []EscalationChain
<1>1. ChainInv => EscalationChain
  <2> SUFFICES ASSUME ChainInv PROVE EscalationChain
    OBVIOUS
  <2>1. FreshIds \subseteq Ids
    BY DEF Ids
  <2> QED
    BY <2>1 DEF ChainInv, LinkTarget, LinkSource, LinksInjective, EscalationChain, RowsOf
<1> QED BY <1>1, ChainAlways, PTL

\* An action waits in one queue at a time.
THEOREM OneQueueAtATime == Spec => []OneOpenRow
<1>1. ChainInv => OneOpenRow
  BY DEF ChainInv, PendingUnlinked, OneEnd, OneOpenRow, RowsOf, Pending
<1> QED BY <1>1, ChainAlways, PTL

-----------------------------------------------------------------------------
(*************************************************************************)
(* What people and supervisors are told, what the trail says of them,    *)
(* and the abstract approval the table implements, for every set of      *)
(* actions, requests and supervisors. The arguments go on from the       *)
(* effects of HitlApprovalProofs: a step decides a row on behalf of one  *)
(* request only, by its own UPDATE or its node's, and what a request or  *)
(* a supervisor has learnt of a row that is no longer pending stays      *)
(* true, because such a row is frozen.                                   *)
(*************************************************************************)

-----------------------------------------------------------------------------
(* Rows: who decided them *)

DecidedBy(i) == IF Exists(i) THEN approvals[i].decided_by ELSE None

\* Nobody has decided a pending row.
PendingUndecided == \A i \in Ids : Pending(i) => approvals[i].decided_by = None

\* A row stays, with its action and its tier.
LEMMA RowPersists ==
  ASSUME Shape, RowStep, NEW j \in Ids, Exists(j)
  PROVE  /\ Exists(j)'
         /\ approvals'[j].action = approvals[j].action
         /\ approvals'[j].tier = approvals[j].tier
<1> DEFINE Kept == /\ approvals'[j] # NoRow
                   /\ approvals'[j].action = approvals[j].action
                   /\ approvals'[j].tier = approvals[j].tier
<1> SUFFICES Kept
  BY DEF Exists
<1>0. approvals' \in Rows
  BY RowStepType
<1>1. ASSUME NEW a \in Actions, Opened(a) PROVE Kept
  <2>1. ~Exists(a) /\ Others({a})
    BY <1>1, OpenedEffect
  <2> QED BY <2>1 DEF Others, Exists
<1>2. ASSUME NEW i \in Ids, NEW r \in Requests, Decided(i, r) PROVE Kept
  <2>1. /\ approvals'[i] \in Row /\ approvals'[i].action = approvals[i].action
        /\ approvals'[i].tier = approvals[i].tier /\ Others({i})
    BY <1>2, DecidedEffect
  <2> QED BY <2>1, NoRowIsNoRow DEF Others, Exists
<1>3. ASSUME NEW i \in Ids, NEW new \in FreshIds, Hopped(i, new) PROVE Kept
  <2>1. /\ approvals[i] \in Row /\ ~Exists(new) /\ Others({i, new}) /\ new \in Ids
        /\ approvals'[i] = [approvals[i] EXCEPT !.status = "escalated",
                                                !.escalated_to_id = new]
    BY <1>3, HoppedEffect
  <2>2. approvals'[i] \in Row
    BY <2>1 DEF Row, Status
  <2>3. approvals'[i].action = approvals[i].action /\ approvals'[i].tier = approvals[i].tier
    BY <2>1 DEF Row
  <2> QED BY <2>1, <2>2, <2>3, NoRowIsNoRow DEF Others, Exists
<1>4. ASSUME NEW i \in Ids, Expired(i) PROVE Kept
  <2>1. /\ approvals[i] \in Row /\ Others({i})
        /\ approvals'[i] = [approvals[i] EXCEPT !.status = "timed_out"]
    BY <1>4, ExpiredEffect
  <2>2. approvals'[i] \in Row
    BY <2>1 DEF Row, Status
  <2>3. approvals'[i].action = approvals[i].action /\ approvals'[i].tier = approvals[i].tier
    BY <2>1 DEF Row
  <2> QED BY <2>1, <2>2, <2>3, NoRowIsNoRow DEF Others, Exists
<1>5. ASSUME NEW i \in Ids, Aged(i) PROVE Kept
  <2>1. /\ approvals[i] \in Row /\ Others({i})
        /\ approvals'[i] = [approvals[i] EXCEPT !.overdue = TRUE]
    BY <1>5, AgedEffect
  <2>2. approvals'[i] \in Row
    BY <2>1 DEF Row
  <2>3. approvals'[i].action = approvals[i].action /\ approvals'[i].tier = approvals[i].tier
    BY <2>1 DEF Row
  <2> QED BY <2>1, <2>2, <2>3, NoRowIsNoRow DEF Others, Exists
<1>6. CASE approvals' = approvals
  BY <1>6 DEF Exists
<1> HIDE DEF Kept
<1> QED BY <1>1, <1>2, <1>3, <1>4, <1>5, <1>6 DEF RowStep

\* Only a Decided step names somebody: any other one leaves DecidedBy alone.
LEMMA UndecidedStep ==
  ASSUME Shape, PendingUndecided, RowStep,
         ~\E i \in Ids, r \in Requests : Decided(i, r)
  PROVE  PendingUndecided' /\ \A j \in Ids : DecidedBy(j)' = DecidedBy(j)
<1> DEFINE SameNames == \A j \in Ids : DecidedBy(j)' = DecidedBy(j)
<1>1. ASSUME NEW a \in Actions, Opened(a) PROVE PendingUndecided' /\ SameNames
  <2>1. /\ ~Exists(a) /\ approvals'[a] = NewRow(a, TierOf[a]) /\ Others({a})
    BY <1>1, OpenedEffect
  <2>2. approvals'[a].decided_by = None
    BY <2>1 DEF NewRow
  <2> QED BY <2>1, <2>2 DEF PendingUndecided, Pending, DecidedBy, Exists, Others
<1>2. ASSUME NEW i \in Ids, NEW new \in FreshIds, Hopped(i, new) PROVE PendingUndecided' /\ SameNames
  <2>1. /\ Pending(i) /\ approvals[i] \in Row /\ ~Exists(new) /\ Others({i, new}) /\ new \in Ids
        /\ approvals'[new] = NewRow(approvals[i].action, NextTier(approvals[i].tier))
        /\ approvals'[i] = [approvals[i] EXCEPT !.status = "escalated",
                                                !.escalated_to_id = new]
    BY <1>2, HoppedEffect
  <2>2. approvals'[new].decided_by = None
    BY <2>1 DEF NewRow
  <2>3. approvals'[i].decided_by = approvals[i].decided_by /\ approvals'[i].status = "escalated"
    BY <2>1 DEF Row
  <2>4. approvals[i].decided_by = None
    BY <2>1 DEF PendingUndecided
  <2> QED
    BY <2>1, <2>2, <2>3, <2>4 DEF PendingUndecided, Pending, DecidedBy, Exists, Others
<1>3. ASSUME NEW i \in Ids, Expired(i) \/ Aged(i) PROVE PendingUndecided' /\ SameNames
  <2>1. /\ Pending(i) /\ approvals[i] \in Row /\ Others({i})
        /\ \/ approvals'[i] = [approvals[i] EXCEPT !.status = "timed_out"]
           \/ approvals'[i] = [approvals[i] EXCEPT !.overdue = TRUE]
    BY <1>3, ExpiredEffect, AgedEffect
  <2>3. approvals'[i].decided_by = approvals[i].decided_by
    BY <2>1 DEF Row
  <2>4. Exists(i) /\ approvals'[i].decided_by = None /\ Others({i})
    BY <2>1, <2>3 DEF PendingUndecided, Pending
  <2> QED BY <2>3, <2>4 DEF PendingUndecided, Pending, DecidedBy, Exists, Others
<1>4. CASE approvals' = approvals
  BY <1>4 DEF PendingUndecided, Pending, DecidedBy, Exists
<1> QED BY <1>1, <1>2, <1>3, <1>4 DEF RowStep

LEMMA DecidedNames ==
  ASSUME Shape, PendingUndecided, NEW i \in Ids, NEW r \in Requests, Decided(i, r)
  PROVE  /\ PendingUndecided'
         /\ DecidedBy(i) = None /\ DecidedBy(i)' = r
         /\ approvals'[i].status = StatusOf(request[r].verb)
         /\ \A j \in Ids \ {i} : DecidedBy(j)' = DecidedBy(j)
<1>1. /\ Pending(i) /\ approvals'[i] \in Row /\ approvals'[i].decided_by = r /\ Others({i})
      /\ approvals'[i].status = StatusOf(request[r].verb)
      /\ approvals'[i].status \in {"approved", "rejected", "escalated"}
  BY DecidedEffect
<1>2. approvals'[i] # NoRow
  BY <1>1, NoRowIsNoRow
<1> QED BY <1>1, <1>2 DEF PendingUndecided, Pending, DecidedBy, Exists, Others

LEMMA UndecidedInit == Init => PendingUndecided
BY DEF Init, PendingUndecided, Pending, Exists

LEMMA UndecidedInductive ==
  ASSUME Shape, PendingUndecided, [Next]_vars
  PROVE  PendingUndecided'
BY RowEffects, UndecidedStep, DecidedNames

-----------------------------------------------------------------------------
(* Who changes what: the steps that touch each of the other variables *)

LEMMA ScanSteps ==
  ASSUME [Next]_vars
  PROVE  scan' = scan \/ \E s \in Supervisors : SupervisorStep(s)
<1>1. ASSUME NEW a \in Actions, Propose(a) \/ InsertDetached(a) PROVE scan' = scan
  BY <1>1 DEF Propose, InsertDetached
<1>2. ASSUME NEW t \in Threads, Interrupt(t) \/ AgentCrash(t) PROVE scan' = scan
  BY <1>2 DEF Interrupt, AgentCrash
<1>3. ASSUME NEW i \in Ids, DeadlinePasses(i) PROVE scan' = scan
  BY <1>3 DEF DeadlinePasses
<1>4. ASSUME NEW r \in Requests, SendStep(r) PROVE scan' = scan
  BY <1>4 DEF SendStep, DecideSelect, ResumeSend
<1>5. ASSUME NEW r \in Requests, RequestStep(r) PROVE scan' = scan
  BY <1>5 DEF RequestStep, DecideUpdate, ResumeNode, ResumeNothing, NodeUpdate, NodeAudit,
              NodeReturn, ResumeFails, RequestLost
<1>6. CASE UNCHANGED vars
  BY <1>6 DEF vars
<1> QED BY <1>1, <1>2, <1>3, <1>4, <1>5, <1>6 DEF Next, AgentStep, SupervisorStep

LEMMA AuditSteps ==
  ASSUME [Next]_vars
  PROVE  \/ audit' = audit
         \/ \E r \in Requests : NodeAudit(r)
         \/ \E s \in Supervisors : AuditTransition(s)
<1>1. ASSUME NEW a \in Actions, Propose(a) \/ InsertDetached(a) PROVE audit' = audit
  BY <1>1 DEF Propose, InsertDetached
<1>2. ASSUME NEW t \in Threads, Interrupt(t) \/ AgentCrash(t) PROVE audit' = audit
  BY <1>2 DEF Interrupt, AgentCrash
<1>3. ASSUME NEW i \in Ids, DeadlinePasses(i) PROVE audit' = audit
  BY <1>3 DEF DeadlinePasses
<1>4. ASSUME NEW r \in Requests, SendStep(r) PROVE audit' = audit
  BY <1>4 DEF SendStep, DecideSelect, ResumeSend
<1>5. ASSUME NEW r \in Requests, RequestStep(r) PROVE audit' = audit \/ NodeAudit(r)
  BY <1>5 DEF RequestStep, DecideUpdate, ResumeNode, ResumeNothing, NodeUpdate,
              NodeReturn, ResumeFails, RequestLost
<1>6. ASSUME NEW s \in Supervisors, ScanRows(s) \/ HandleRow(s) \/ ScanFault(s)
      PROVE  audit' = audit
  BY <1>6 DEF ScanRows, HandleRow, EscalateRow, EscalateRowConflict, TimeOutRow, ScanFault
<1>7. CASE UNCHANGED vars
  BY <1>7 DEF vars
<1> QED BY <1>1, <1>2, <1>3, <1>4, <1>5, <1>6, <1>7 DEF Next, AgentStep

LEMMA RequestSteps ==
  ASSUME [Next]_vars
  PROVE  request' = request \/ \E r \in Requests : SendStep(r) \/ RequestStep(r)
<1>1. ASSUME NEW a \in Actions, Propose(a) \/ InsertDetached(a) PROVE request' = request
  BY <1>1 DEF Propose, InsertDetached
<1>2. ASSUME NEW t \in Threads, Interrupt(t) \/ AgentCrash(t) PROVE request' = request
  BY <1>2 DEF Interrupt, AgentCrash
<1>3. ASSUME NEW i \in Ids, DeadlinePasses(i) PROVE request' = request
  BY <1>3 DEF DeadlinePasses
<1>4. ASSUME NEW s \in Supervisors,
             ScanRows(s) \/ HandleRow(s) \/ AuditTransition(s) \/ ScanFault(s)
      PROVE  request' = request
  BY <1>4 DEF ScanRows, HandleRow, EscalateRow, EscalateRowConflict, TimeOutRow,
              AuditTransition, ScanFault
<1>5. CASE UNCHANGED vars
  BY <1>5 DEF vars
<1> QED BY <1>1, <1>2, <1>3, <1>4, <1>5 DEF Next, AgentStep

LEMMA FinishedSteps ==
  ASSUME [Next]_vars
  PROVE  finished' = finished \/ \E r \in Requests : NodeReturn(r)
<1>1. ASSUME NEW a \in Actions, Propose(a) \/ InsertDetached(a) PROVE finished' = finished
  BY <1>1 DEF Propose, InsertDetached
<1>2. ASSUME NEW t \in Threads, Interrupt(t) \/ AgentCrash(t) PROVE finished' = finished
  BY <1>2 DEF Interrupt, AgentCrash
<1>3. ASSUME NEW i \in Ids, DeadlinePasses(i) PROVE finished' = finished
  BY <1>3 DEF DeadlinePasses
<1>4. ASSUME NEW r \in Requests, SendStep(r) PROVE finished' = finished
  BY <1>4 DEF SendStep, DecideSelect, ResumeSend
<1>5. ASSUME NEW r \in Requests, RequestStep(r) PROVE finished' = finished \/ NodeReturn(r)
  BY <1>5 DEF RequestStep, DecideUpdate, ResumeNode, ResumeNothing, NodeUpdate, NodeAudit,
              ResumeFails, RequestLost
<1>6. ASSUME NEW s \in Supervisors,
             ScanRows(s) \/ HandleRow(s) \/ AuditTransition(s) \/ ScanFault(s)
      PROVE  finished' = finished
  BY <1>6 DEF ScanRows, HandleRow, EscalateRow, EscalateRowConflict, TimeOutRow,
              AuditTransition, ScanFault
<1>7. CASE UNCHANGED vars
  BY <1>7 DEF vars
<1> QED BY <1>1, <1>2, <1>3, <1>4, <1>5, <1>6, <1>7 DEF Next, AgentStep

-----------------------------------------------------------------------------
(* What a supervisor knows of the rows it fetched and of the row in hand *)

\* A fetched row has a deadline, whatever became of it since; the link that is
\* about to be audited was committed.
ScanKnows ==
  \A s \in Supervisors :
    /\ \A i \in scan[s].batch : Exists(i) /\ HasDeadline(approvals[i].tier)
    /\ scan[s].row # None =>
         /\ Exists(scan[s].row)
         /\ scan[s].escalated_to_id # None =>
              approvals[scan[s].row].escalated_to_id = scan[s].escalated_to_id

LEMMA LinkKept ==
  ASSUME Shape, ChainInv, RowStep, NEW j \in Ids, Exists(j),
         approvals[j].escalated_to_id # None
  PROVE  approvals'[j] = approvals[j]
BY RowStepFreezes DEF ChainInv, PendingUnlinked

\* What a supervisor knows stays true whatever happens to the table.
LEMMA ScanKnowledgeKept ==
  ASSUME Shape, ChainInv, ScanKnows, RowStep, NEW s \in Supervisors,
         NEW q \in Scan, q.batch \subseteq scan[s].batch,
         \/ q.row = None
         \/ q.row = scan[s].row /\ q.escalated_to_id = scan[s].escalated_to_id
  PROVE  /\ \A i \in q.batch : Exists(i)' /\ HasDeadline(approvals'[i].tier)
         /\ q.row # None =>
              /\ approvals'[q.row] # NoRow
              /\ q.escalated_to_id # None =>
                   approvals'[q.row].escalated_to_id = q.escalated_to_id
<1>1. scan[s] \in Scan
  BY DEF Shape, TypeOK
<1>2. ASSUME NEW i \in q.batch PROVE Exists(i)' /\ HasDeadline(approvals'[i].tier)
  <2>1. i \in Ids /\ Exists(i) /\ HasDeadline(approvals[i].tier)
    BY <1>1 DEF Scan, ScanKnows
  <2> QED BY <2>1, RowPersists
<1>3. ASSUME q.row # None
      PROVE  /\ approvals'[q.row] # NoRow
             /\ q.escalated_to_id # None =>
                  approvals'[q.row].escalated_to_id = q.escalated_to_id
  <2>1. /\ q.row \in Ids /\ Exists(q.row)
        /\ q.escalated_to_id # None => approvals[q.row].escalated_to_id = q.escalated_to_id
    BY <1>1, <1>3 DEF Scan, ScanKnows
  <2> QED BY <2>1, RowPersists, LinkKept DEF Exists
<1> QED BY <1>2, <1>3

LEMMA ScanRowsKnows ==
  ASSUME Shape, ChainInv, ScanKnows, RowStep, NEW s \in Supervisors, SupervisorStep(s)
  PROVE  /\ \A i \in scan'[s].batch : Exists(i)' /\ HasDeadline(approvals'[i].tier)
         /\ scan'[s].row # None =>
              /\ approvals'[scan'[s].row] # NoRow
              /\ scan'[s].escalated_to_id # None =>
                   approvals'[scan'[s].row].escalated_to_id = scan'[s].escalated_to_id
         /\ \A other \in Supervisors \ {s} : scan'[other] = scan[other]
<1> DEFINE Known(q) == /\ \A i \in q.batch : Exists(i)' /\ HasDeadline(approvals'[i].tier)
                       /\ q.row # None =>
                            /\ approvals'[q.row] # NoRow
                            /\ q.escalated_to_id # None =>
                                 approvals'[q.row].escalated_to_id = q.escalated_to_id
<1>1. scan \in [Supervisors -> Scan] /\ scan[s] \in Scan
  BY DEF Shape, TypeOK
<1>2. Known(Sleeping)
  BY DEF Sleeping
<1> SUFFICES Known(scan'[s]) /\ \A other \in Supervisors \ {s} : scan'[other] = scan[other]
  OBVIOUS
<1>3. CASE ScanRows(s)
  <2>1. PICK rows \in SUBSET Stale : scan' = [scan EXCEPT ![s].batch = rows]
    BY <1>3 DEF ScanRows
  <2>2. scan'[s].batch = rows /\ scan'[s].row = None
    BY <1>1, <1>3, <2>1 DEF ScanRows, Sleeping, Scan
  <2>3. approvals' = approvals
    BY <1>3 DEF ScanRows
  <2>4. \A i \in rows : Exists(i)' /\ HasDeadline(approvals'[i].tier)
    BY <2>3 DEF Stale, Pending, Exists
  <2> QED BY <1>1, <2>1, <2>2, <2>4
<1>4. ASSUME NEW i \in Ids, NEW new \in FreshIds, EscalateRow(s, i, new)
      PROVE  Known(scan'[s]) /\ \A other \in Supervisors \ {s} : scan'[other] = scan[other]
  <2> DEFINE rest == [batch |-> scan[s].batch \ {i}, row |-> None, escalated_to_id |-> None]
  <2>1. /\ scan'[s].batch = scan[s].batch \ {i} /\ scan'[s].row = i
        /\ scan'[s].escalated_to_id = new
        /\ \A other \in Supervisors \ {s} : scan'[other] = scan[other]
    BY <1>1, <1>4 DEF EscalateRow
  <2>2. rest \in Scan /\ rest.batch \subseteq scan[s].batch /\ rest.row = None
    BY <1>1 DEF Scan
  <2>3. \A j \in scan[s].batch \ {i} : Exists(j)' /\ HasDeadline(approvals'[j].tier)
    BY <2>2, ScanKnowledgeKept
  <2>4. Hopped(i, new)
    BY <1>4 DEF EscalateRow, Hopped
  <2>5. approvals[i] \in Row
        /\ approvals'[i] = [approvals[i] EXCEPT !.status = "escalated", !.escalated_to_id = new]
    BY <2>4, HoppedEffect
  <2>6. approvals'[i].escalated_to_id = new /\ approvals'[i] \in Row
    BY <2>5 DEF Row, Status, Ids
  <2> QED BY <2>1, <2>3, <2>6, NoRowIsNoRow
<1>5. ASSUME NEW i \in Ids, TimeOutRow(s, i)
      PROVE  Known(scan'[s]) /\ \A other \in Supervisors \ {s} : scan'[other] = scan[other]
  <2> DEFINE rest == [batch |-> scan[s].batch \ {i}, row |-> None, escalated_to_id |-> None]
  <2>1. /\ scan'[s].batch = scan[s].batch \ {i} /\ scan'[s].row = i
        /\ scan'[s].escalated_to_id = None
        /\ \A other \in Supervisors \ {s} : scan'[other] = scan[other]
    BY <1>1, <1>5 DEF TimeOutRow
  <2>2. rest \in Scan /\ rest.batch \subseteq scan[s].batch /\ rest.row = None
    BY <1>1 DEF Scan
  <2>3. \A j \in scan[s].batch \ {i} : Exists(j)' /\ HasDeadline(approvals'[j].tier)
    BY <2>2, ScanKnowledgeKept
  <2>4. Exists(i)
    BY <1>5 DEF TimeOutRow, Handling, ScanKnows
  <2>5. Exists(i)'
    BY <2>4, RowPersists
  <2> QED BY <2>1, <2>3, <2>5 DEF Exists
<1>6. CASE AuditTransition(s) \/ ScanFault(s) \/ \E i \in Ids : EscalateRowConflict(s, i)
  <2>1. CASE scan' = [scan EXCEPT ![s] = Sleeping]
    BY <1>1, <1>2, <2>1
  <2>2. CASE scan' = [scan EXCEPT ![s].row = None, ![s].escalated_to_id = None]
    <3>1. /\ scan'[s].batch = scan[s].batch /\ scan'[s].row = None /\ scan'[s] \in Scan
          /\ \A other \in Supervisors \ {s} : scan'[other] = scan[other]
      BY <1>1, <2>2 DEF Scan
    <3> QED BY <3>1, ScanKnowledgeKept
  <2> QED BY <1>6, <2>1, <2>2 DEF AuditTransition, ScanFault, EscalateRowConflict
<1> HIDE DEF Known
<1> QED BY <1>3, <1>4, <1>5, <1>6 DEF SupervisorStep, HandleRow

LEMMA ScanKnowsInit == Init => ScanKnows
BY DEF Init, ScanKnows, Sleeping

LEMMA ScanKnowsStep ==
  ASSUME Shape, ChainInv, ScanKnows, [Next]_vars
  PROVE  ScanKnows'
<1>1. RowStep
  BY RowEffects
<1> DEFINE Known(q) == /\ \A i \in q.batch : Exists(i)' /\ HasDeadline(approvals'[i].tier)
                       /\ q.row # None =>
                            /\ approvals'[q.row] # NoRow
                            /\ q.escalated_to_id # None =>
                                 approvals'[q.row].escalated_to_id = q.escalated_to_id
<1>2. ASSUME NEW s \in Supervisors, scan'[s] = scan[s] PROVE Known(scan'[s])
  <2>1. scan[s] \in Scan
    BY DEF Shape, TypeOK
  <2> QED BY <1>1, <1>2, <2>1, ScanKnowledgeKept
<1>3. ASSUME NEW s \in Supervisors PROVE Known(scan'[s])
  <2>1. CASE scan' = scan
    BY <1>2, <2>1
  <2>2. ASSUME NEW q \in Supervisors, SupervisorStep(q) PROVE Known(scan'[s])
    <3>1. CASE s = q
      BY <1>1, <2>2, <3>1, ScanRowsKnows
    <3>2. CASE s # q
      <4>1. scan'[s] = scan[s]
        BY <1>1, <2>2, <3>2, ScanRowsKnows
      <4> QED BY <1>2, <4>1
    <3> QED BY <3>1, <3>2
  <2> QED BY <2>1, <2>2, ScanSteps
<1> QED BY <1>3 DEF ScanKnows, Exists

LEMMA ScanKnowsAlways == Spec => []ScanKnows
BY ShapeAlways, ChainAlways, ScanKnowsInit, ScanKnowsStep, PTL DEF Spec

-----------------------------------------------------------------------------
(* The safety interlock *)

LEMMA InterlockStep ==
  ASSUME Shape, ScanKnows, RowStep, InterlockOnlyByHuman
  PROVE  InterlockOnlyByHuman'
<1> DEFINE Human(j) == /\ approvals'[j] # NoRow
                       /\ approvals'[j].tier = "safety_interlock"
                       => /\ approvals'[j].status # "timed_out"
                          /\ approvals'[j].escalated_to_id = None
<1>1. ASSUME NEW j \in Ids, approvals'[j] = approvals[j] PROVE Human(j)
  BY <1>1 DEF InterlockOnlyByHuman, Exists
<1>2. ASSUME NEW a \in Actions, Opened(a), NEW j \in Ids PROVE Human(j)
  <2>1. approvals'[a] = NewRow(a, TierOf[a]) /\ Others({a})
    BY <1>2, OpenedEffect
  <2>2. approvals'[a].status = "pending" /\ approvals'[a].escalated_to_id = None
    BY <2>1 DEF NewRow
  <2> QED BY <1>1, <2>1, <2>2 DEF Others
<1>3. ASSUME NEW i \in Ids, NEW r \in Requests, Decided(i, r), NEW j \in Ids PROVE Human(j)
  <2>1. /\ approvals'[i].status \in {"approved", "rejected", "escalated"}
        /\ approvals'[i].tier = approvals[i].tier /\ Pending(i)
        /\ approvals'[i].escalated_to_id = approvals[i].escalated_to_id /\ Others({i})
    BY <1>3, DecidedEffect
  <2>2. Human(i)
    BY <2>1 DEF InterlockOnlyByHuman, Pending
  <2> QED BY <1>1, <2>1, <2>2 DEF Others
<1>4. ASSUME NEW i \in Ids, NEW new \in FreshIds, Hopped(i, new), NEW j \in Ids PROVE Human(j)
  <2>1. /\ approvals[i] \in Row /\ NextTier(approvals[i].tier) # NoTier /\ Others({i, new})
        /\ approvals'[new] = NewRow(approvals[i].action, NextTier(approvals[i].tier))
        /\ approvals'[i] = [approvals[i] EXCEPT !.status = "escalated",
                                                !.escalated_to_id = new]
    BY <1>4, HoppedEffect
  <2>2. approvals'[new].status = "pending" /\ approvals'[new].escalated_to_id = None
    BY <2>1 DEF NewRow
  <2>3. approvals'[i].tier = approvals[i].tier
    BY <2>1 DEF Row
  <2>4. approvals[i].tier # "safety_interlock"
    BY <2>1 DEF NextTier, NoTier
  <2> QED BY <1>1, <2>1, <2>2, <2>3, <2>4 DEF Others
<1>5. ASSUME NEW i \in Ids, Expired(i), NEW j \in Ids PROVE Human(j)
  <2>1. /\ approvals[i] \in Row /\ Others({i})
        /\ approvals'[i] = [approvals[i] EXCEPT !.status = "timed_out"]
    BY <1>5, ExpiredEffect
  <2>2. HasDeadline(approvals[i].tier)
    BY <1>5 DEF Expired, ScanKnows
  <2>3. approvals'[i].tier = approvals[i].tier
    BY <2>1 DEF Row
  <2> QED BY <1>1, <2>1, <2>2, <2>3 DEF Others, HasDeadline
<1>6. ASSUME NEW i \in Ids, Aged(i), NEW j \in Ids PROVE Human(j)
  <2>1. /\ approvals[i] \in Row /\ Others({i}) /\ Pending(i)
        /\ approvals'[i] = [approvals[i] EXCEPT !.overdue = TRUE]
    BY <1>6, AgedEffect
  <2>2. /\ approvals'[i].tier = approvals[i].tier /\ approvals'[i].status = approvals[i].status
        /\ approvals'[i].escalated_to_id = approvals[i].escalated_to_id
    BY <2>1 DEF Row
  <2>3. Human(i)
    BY <2>1, <2>2 DEF InterlockOnlyByHuman, Pending
  <2> QED BY <1>1, <2>1, <2>3 DEF Others
<1>7. ASSUME NEW j \in Ids PROVE Human(j)
  <2> HIDE DEF Human
  <2> QED BY <1>1, <1>2, <1>3, <1>4, <1>5, <1>6 DEF RowStep
<1> QED BY <1>7 DEF InterlockOnlyByHuman, Exists

\* No clock closes a safety interlock, however many supervisors scan: a row of
\* that tier never comes into a batch, and nothing climbs to or from it.
THEOREM InterlockStaysHuman == Spec => []InterlockOnlyByHuman
<1>1. Init => InterlockOnlyByHuman
  BY DEF Init, InterlockOnlyByHuman, Exists
<1>2. Shape /\ ScanKnows /\ InterlockOnlyByHuman /\ [Next]_vars => InterlockOnlyByHuman'
  BY RowEffects, InterlockStep
<1> QED BY <1>1, <1>2, ShapeAlways, ScanKnowsAlways, PTL DEF Spec

-----------------------------------------------------------------------------
(* What a request knows of the rows it decided *)

\* A request decides the row it names, through the decide endpoint, and the row
\* of the node it resumed, nothing else; each of them has its decision from the
\* UPDATE on, and the node's has a record once the handler is past it.
RequestKnows(r) ==
  LET q == request[r] IN
  /\ q.pc \in {"unsent", "selected"} => q.path = "decide"
  /\ q.pc \in {"unsent", "selected", "updated"} => q.node = None
  /\ q.resumed => q.pc = "done"
  /\ \A i \in Ids : DecidedBy(i) = r =>
       \/ q.path = "decide" /\ i = q.id /\ q.pc \notin {"unsent", "selected"}
       \/ i = q.node /\ q.pc \notin {"unsent", "selected", "updated", "node"}
  /\ q.path = "decide" /\ q.pc \in {"updated", "node", "audit", "recorded"} =>
       DecidedBy(q.id) = r
  /\ q.pc \in {"audit", "recorded"} =>
       DecidedBy(q.node) = r /\ approvals[q.node].status = StatusOf(q.verb)
  /\ q.pc = "recorded" => \E rec \in audit : rec.approval_id = q.node /\ rec.actor = r
  /\ q.pc = "done" =>
       /\ q.path = "decide" => (q.code = 200 <=> DecidedBy(q.id) = r)
       /\ q.resumed /\ q.node # None => DecidedBy(q.node) = r

DecisionInv == PendingUndecided /\ \A r \in Requests : RequestKnows(r)

\* Who is not None did not decide a pending row, and so the row is frozen.
LEMMA DecidedKept ==
  ASSUME Shape, PendingUndecided, RowStep, NEW r \in Requests, NEW i \in Ids, DecidedBy(i) = r
  PROVE  approvals'[i] = approvals[i] /\ DecidedBy(i)' = r
<1>1. Exists(i) /\ approvals[i].decided_by = r /\ r # None
  BY DistinctNames DEF DecidedBy
<1>2. ~Pending(i)
  BY <1>1 DEF PendingUndecided
<1>3. approvals'[i] = approvals[i]
  BY <1>1, <1>2, RowStepFreezes
<1> QED BY <1>1, <1>3 DEF DecidedBy, Exists

\* A request decides a row only in a step of its own.
LEMMA DecidesItself ==
  ASSUME Shape, PendingUndecided, [Next]_vars, NEW r \in Requests, NEW i \in Ids,
         DecidedBy(i)' = r, DecidedBy(i) # r
  PROVE  \/ DecideUpdate(r) /\ i = request[r].id /\ Decided(i, r)
         \/ NodeUpdate(r) /\ i = request[r].node /\ Decided(i, r)
<1>1. RowStep /\ OwnedRowStep
  BY RowOrigins, RowEffects
<1>2. CASE ~\E j \in Ids, t \in Requests : Decided(j, t)
  BY <1>1, <1>2, UndecidedStep
<1>3. ASSUME NEW t \in Requests, NEW j \in Ids, Decided(j, t) PROVE t = r /\ j = i
  <2>1. DecidedBy(j)' = t /\ \A k \in Ids \ {j} : DecidedBy(k)' = DecidedBy(k)
    BY <1>3, DecidedNames
  <2> QED BY <2>1
<1>4. ASSUME NEW t \in Requests, DecideUpdate(t), Decided(request[t].id, t)
      PROVE  t = r /\ request[t].id = i
  BY <1>3, <1>4 DEF Decided
<1>5. ASSUME NEW t \in Requests, NodeUpdate(t), Decided(request[t].node, t)
      PROVE  t = r /\ request[t].node = i
  BY <1>3, <1>5 DEF Decided
<1>6. CASE \E t \in Requests : DecideUpdate(t) /\ Decided(request[t].id, t)
  BY <1>4, <1>6
<1>7. CASE \E t \in Requests : NodeUpdate(t) /\ Decided(request[t].node, t)
  BY <1>5, <1>7
<1>8. ASSUME NEW a \in Actions, Opened(a) PROVE FALSE
  <2>1. ~Exists(a) /\ approvals'[a] = NewRow(a, TierOf[a]) /\ Others({a})
    BY <1>8, OpenedEffect
  <2>2. approvals'[a].decided_by = None
    BY <2>1 DEF NewRow
  <2> QED BY <2>1, <2>2, DistinctNames DEF Others, DecidedBy, Exists
<1>9. ASSUME NEW j \in Ids, Aged(j) \/ Expired(j) PROVE FALSE
  <2>1. /\ Pending(j) /\ approvals[j] \in Row /\ Others({j})
        /\ \/ approvals'[j] = [approvals[j] EXCEPT !.status = "timed_out"]
           \/ approvals'[j] = [approvals[j] EXCEPT !.overdue = TRUE]
    BY <1>9, ExpiredEffect, AgedEffect
  <2>2. Exists(j) /\ approvals'[j].decided_by = approvals[j].decided_by
    BY <2>1 DEF Row, Pending
  <2> QED BY <2>1, <2>2, DistinctNames DEF Others, DecidedBy, Exists
<1>10. ASSUME NEW j \in Ids, NEW new \in FreshIds, Hopped(j, new) PROVE FALSE
  <2>1. /\ Pending(j) /\ approvals[j] \in Row /\ Others({j, new})
        /\ approvals'[new] = NewRow(approvals[j].action, NextTier(approvals[j].tier))
        /\ approvals'[j] = [approvals[j] EXCEPT !.status = "escalated",
                                                !.escalated_to_id = new]
    BY <1>10, HoppedEffect
  <2>2. /\ Exists(j) /\ approvals'[j].decided_by = approvals[j].decided_by
        /\ approvals'[new].decided_by = None
    BY <2>1 DEF Row, Pending, NewRow
  <2> QED BY <2>1, <2>2, DistinctNames DEF Others, DecidedBy, Exists
<1>11. CASE approvals' = approvals
  BY <1>11 DEF DecidedBy, Exists
<1> QED BY <1>1, <1>6, <1>7, <1>8, <1>9, <1>10, <1>11 DEF OwnedRowStep

\* The trail only grows.
LEMMA AuditGrows ==
  ASSUME [Next]_vars
  PROVE  audit \subseteq audit'
BY AuditSteps DEF NodeAudit, AuditTransition

\* A request that takes no step knows what it knew.
LEMMA RequestKnowledgeKept ==
  ASSUME Shape, DecisionInv, [Next]_vars, NEW r \in Requests, request'[r] = request[r]
  PROVE  RequestKnows(r)'
<1> DEFINE q == request[r]
<1>1. RequestKnows(r) /\ PendingUndecided /\ RowStep
  BY RowEffects DEF DecisionInv
<1>2. \A i \in Ids : DecidedBy(i)' = r => DecidedBy(i) = r
  <2>1. ASSUME NEW i \in Ids, DecidedBy(i)' = r, DecidedBy(i) # r PROVE FALSE
    <3>0. \/ DecideUpdate(r) /\ i = request[r].id /\ Decided(i, r)
          \/ NodeUpdate(r) /\ i = request[r].node /\ Decided(i, r)
      BY <1>1, <2>1, DecidesItself
    <3>1. Pending(i)
      BY <3>0 DEF Decided
    <3>2. request \in [Requests -> Request]
      BY DEF Shape, TypeOK
    <3>3. CASE i = request[r].id /\ DecideUpdate(r)
      <4>1. request[r].pc = "selected" /\ request'[r].pc = "updated"
        BY <3>1, <3>2, <3>3 DEF DecideUpdate, Request
      <4> QED BY <4>1
    <3>4. CASE i = request[r].node /\ NodeUpdate(r)
      <4>1. request[r].pc = "node" /\ request'[r].pc = "audit"
        BY <3>1, <3>2, <3>4 DEF NodeUpdate, Request
      <4> QED BY <4>1
    <3> QED BY <3>0, <3>3, <3>4
  <2> QED BY <2>1
<1>3. \A i \in Ids : DecidedBy(i) = r => DecidedBy(i)' = r /\ approvals'[i] = approvals[i]
  BY <1>1, DecidedKept
<1>4. audit \subseteq audit'
  BY AuditGrows
<1>5. /\ q.pc # "unsent" => q.id \in Ids
      /\ q.pc \in {"node", "audit", "recorded"} => q.node \in Ids
      /\ q.node # None => q.node \in Ids
  BY DEF Shape, TypeOK, RequestAt, Request, Ids
<1> QED
  BY <1>1, <1>2, <1>3, <1>4, <1>5 DEF RequestKnows

\* Steps of a handler that change nothing but its program counter and its answer.
LEMMA KnowsAfterAnswer ==
  ASSUME Shape, DecisionInv, NEW r \in Requests, NEW code \in Code, NEW resumed \in BOOLEAN,
         Respond(r, code, resumed), UNCHANGED <<approvals, audit>>,
         request[r].pc \in {"selected", "updated", "node", "audit", "recorded"},
         request[r].path = "decide" =>
           (code = 200 <=> request[r].pc # "selected"),
         resumed => request[r].pc \in {"updated", "recorded"}
  PROVE  RequestKnows(r)'
<1>1. RequestKnows(r) /\ request[r] \in Request
  BY DEF DecisionInv, Shape, TypeOK
<1>2. /\ request'[r].pc = "done" /\ request'[r].code = code /\ request'[r].resumed = resumed
      /\ request'[r].path = request[r].path /\ request'[r].id = request[r].id
      /\ request'[r].node = request[r].node /\ request'[r].verb = request[r].verb
  <2>1. request'[r] = [request[r] EXCEPT !.pc = "done", !.code = code, !.resumed = resumed]
    BY DEF Respond, Shape, TypeOK
  <2> QED BY <1>1, <2>1 DEF Request
<1>3. \A i \in Ids \cup {None} : DecidedBy(i)' = DecidedBy(i)
  BY DEF DecidedBy, Exists
<1>4. request[r].id \in Ids /\ (request[r].node # None => request[r].node \in Ids)
  BY <1>1 DEF Shape, RequestAt, Request, Ids
<1>5. request[r].path = "decide" => (code = 200 <=> DecidedBy(request[r].id) = r)
  <2>1. CASE request[r].pc = "selected"
    <3>1. DecidedBy(request[r].id) # r
      BY <1>1, <1>4, <2>1 DEF RequestKnows
    <3> QED BY <2>1, <3>1
  <2>2. CASE request[r].pc # "selected"
    BY <1>1, <1>4, <2>2 DEF RequestKnows
  <2> QED BY <2>1, <2>2
<1>6. resumed /\ request[r].node # None => DecidedBy(request[r].node) = r
  BY <1>1 DEF RequestKnows
<1>7. \A i \in Ids : DecidedBy(i) = r =>
        \/ request[r].path = "decide" /\ i = request[r].id
        \/ i = request[r].node
  BY <1>1 DEF RequestKnows
<1> QED BY <1>2, <1>3, <1>4, <1>5, <1>6, <1>7 DEF RequestKnows

\* What a handler starts with: a row it has not decided, no node and no answer yet.
LEMMA SendFields ==
  ASSUME Shape, NEW r \in Requests, SendStep(r)
  PROVE  /\ request[r].pc = "unsent" /\ UNCHANGED <<approvals, audit>>
         /\ request'[r].id \in Ids /\ request'[r].node = None /\ request'[r].resumed = FALSE
         /\ \/ request'[r].path = "decide" /\ request'[r].pc = "selected"
            \/ /\ request'[r].path = "decide" /\ request'[r].pc = "done"
               /\ request'[r].code \in {400, 404}
            \/ request'[r].path = "resume" /\ request'[r].pc = "updated"
<1>1. request \in [Requests -> Request] /\ Unsent \in Request
  BY UnsentType DEF Shape, TypeOK
<1>2. Unsent.path = "decide" /\ Unsent.node = None /\ Unsent.resumed = FALSE
  BY DEF Unsent
<1>3. ASSUME NEW verb \in Verbs, NEW motivation \in Motivations, NEW i \in Ids,
             DecideSelect(r, i, verb, motivation)
      PROVE  /\ request'[r].id = i /\ request'[r].node = None /\ request'[r].resumed = FALSE
             /\ request'[r].path = "decide"
             /\ \/ request'[r].pc = "selected"
                \/ request'[r].pc = "done" /\ request'[r].code \in {400, 404}
  <2> DEFINE sent == [Unsent EXCEPT !.id = i, !.verb = verb, !.motivation = motivation]
             taken == [sent EXCEPT !.pc = "selected",
                                   !.thread = ThreadOf[approvals[i].action]]
             refused(code) == [sent EXCEPT !.pc = "done", !.code = code]
  <2>1. \/ request' = [request EXCEPT ![r] = taken]
        \/ request' = [request EXCEPT ![r] = refused(400)]
        \/ request' = [request EXCEPT ![r] = refused(404)]
    <3> HIDE DEF sent
    <3> HIDE DEF taken, refused
    <3>1. CASE Pending(i) /\ ~(/\ motivation = "placeholder" /\ verb \in {"approve", "reject"}
                              /\ MotivationRequired(approvals[i].tier))
      BY <1>3, <3>1 DEF DecideSelect, sent, taken
    <3>2. CASE ~Pending(i)
      <4>1. request' = [request EXCEPT ![r] = refused(404)]
        BY <1>3, <3>2 DEF DecideSelect, sent, refused
      <4> QED BY <4>1
    <3>3. CASE /\ Pending(i) /\ motivation = "placeholder" /\ verb \in {"approve", "reject"}
               /\ MotivationRequired(approvals[i].tier)
      <4>1. request' = [request EXCEPT ![r] = refused(400)]
        BY <1>3, <3>3 DEF DecideSelect, sent, refused
      <4> QED BY <4>1
    <3> QED BY <3>1, <3>2, <3>3
  <2>2. \/ request'[r] = taken
        \/ request'[r] = refused(400)
        \/ request'[r] = refused(404)
    <3> HIDE DEF taken, refused
    <3> QED BY <1>1, <2>1
  <2>3. sent.id = i /\ sent.node = None /\ sent.resumed = FALSE /\ sent.path = "decide"
    BY <1>1, <1>2 DEF Request
  <2>4. sent \in Request
    <3> DEFINE q1 == [Unsent EXCEPT !.id = i]
               q2 == [q1 EXCEPT !.verb = verb]
               q3 == [q2 EXCEPT !.motivation = motivation]
    <3>0. verb \in Verb /\ motivation \in Motivation
      BY ConstantTypes
    <3>1. q1 \in Request
      BY <1>1, RequestField
    <3> HIDE DEF q1
    <3>2. q2 \in Request
      BY <3>0, <3>1, RequestField
    <3> HIDE DEF q2
    <3>3. q3 \in Request
      BY <3>0, <3>2, RequestField
    <3>4. sent = q3
      BY Zenon DEF q1, q2
    <3> QED BY <3>3, <3>4
  <2> HIDE DEF sent
  <2>5. /\ taken.id = i /\ taken.node = None /\ taken.resumed = FALSE /\ taken.path = "decide"
        /\ taken.pc = "selected"
    BY <2>3, <2>4 DEF Request
  <2>6. CASE request'[r] = taken
    <3> HIDE DEF taken
    <3> QED BY <2>5, <2>6
  <2>7. CASE request'[r] = refused(400)
    <3> DEFINE answered == refused(400)
    <3>1. /\ answered.id = i /\ answered.node = None /\ answered.resumed = FALSE
          /\ answered.path = "decide" /\ answered.pc = "done" /\ answered.code = 400
      BY <2>3, <2>4 DEF Request
    <3>2. request'[r] = answered
      BY <2>7
    <3> HIDE DEF answered
    <3> QED BY <3>1, <3>2
  <2>8. CASE request'[r] = refused(404)
    <3> DEFINE answered == refused(404)
    <3>1. /\ answered.id = i /\ answered.node = None /\ answered.resumed = FALSE
          /\ answered.path = "decide" /\ answered.pc = "done" /\ answered.code = 404
      BY <2>3, <2>4 DEF Request
    <3>2. request'[r] = answered
      BY <2>8
    <3> HIDE DEF answered
    <3> QED BY <3>1, <3>2
  <2> HIDE DEF taken, refused
  <2> QED BY <2>2, <2>6, <2>7, <2>8
<1>4. ASSUME NEW verb \in Verbs, NEW motivation \in Motivations, NEW i \in Ids,
             NEW t \in Threads, ResumeSend(r, t, i, verb, motivation)
      PROVE  /\ request'[r].id = i /\ request'[r].node = None /\ request'[r].resumed = FALSE
             /\ request'[r].path = "resume" /\ request'[r].pc = "updated"
  <2> DEFINE q == [Unsent EXCEPT !.pc = "updated", !.path = "resume", !.id = i,
                                 !.thread = t, !.verb = verb, !.motivation = motivation]
  <2>1. request'[r] = q
    BY <1>1, <1>4 DEF ResumeSend
  <2>2. /\ q.id = i /\ q.node = None /\ q.resumed = FALSE
        /\ q.path = "resume" /\ q.pc = "updated"
    BY DEF Unsent
  <2> HIDE DEF q
  <2> QED BY <2>1, <2>2
<1>5. request[r].pc = "unsent" /\ UNCHANGED <<approvals, audit>>
  BY DEF SendStep, DecideSelect, ResumeSend
<1>6. PICK verb \in Verbs, motivation \in Motivations :
        \/ \E i \in Ids : DecideSelect(r, i, verb, motivation)
        \/ \E t \in Threads, i \in Ids : ResumeSend(r, t, i, verb, motivation)
  BY DEF SendStep
<1>7. CASE \E i \in Ids : DecideSelect(r, i, verb, motivation)
  <2>1. PICK i \in Ids : DecideSelect(r, i, verb, motivation)
    BY <1>7
  <2>2. /\ request'[r].id = i /\ request'[r].node = None /\ request'[r].resumed = FALSE
        /\ request'[r].path = "decide"
        /\ \/ request'[r].pc = "selected"
           \/ request'[r].pc = "done" /\ request'[r].code \in {400, 404}
    BY <1>3, <2>1
  <2> QED BY <1>5, <2>2
<1>8. CASE \E t \in Threads, i \in Ids : ResumeSend(r, t, i, verb, motivation)
  <2>1. PICK t \in Threads, i \in Ids : ResumeSend(r, t, i, verb, motivation)
    BY <1>8
  <2>2. /\ request'[r].id = i /\ request'[r].node = None /\ request'[r].resumed = FALSE
        /\ request'[r].path = "resume" /\ request'[r].pc = "updated"
    BY <1>4, <2>1
  <2> QED BY <1>5, <2>2
<1> QED BY <1>6, <1>7, <1>8

\* A request that has just been taken in has decided nothing.
LEMMA KnowsAfterSend ==
  ASSUME Shape, DecisionInv, NEW r \in Requests, SendStep(r)
  PROVE  RequestKnows(r)'
<1>1. RequestKnows(r) /\ request[r].pc = "unsent" /\ UNCHANGED <<approvals, audit>>
  BY SendFields DEF DecisionInv
<1>2. \A i \in Ids : DecidedBy(i) # r
  BY <1>1 DEF RequestKnows
<1>3. \A i \in Ids : DecidedBy(i)' # r
  BY <1>1, <1>2 DEF DecidedBy, Exists
<1>4. /\ request'[r].id \in Ids /\ request'[r].node = None /\ request'[r].resumed = FALSE
      /\ \/ request'[r].path = "decide" /\ request'[r].pc = "selected"
         \/ /\ request'[r].path = "decide" /\ request'[r].pc = "done"
            /\ request'[r].code \in {400, 404}
         \/ request'[r].path = "resume" /\ request'[r].pc = "updated"
  BY SendFields
<1> QED BY <1>3, <1>4 DEF RequestKnows

\* A step that only moves the program counter.
LEMMA PcFields ==
  ASSUME Shape, NEW r \in Requests, NEW pc, request' = [request EXCEPT ![r].pc = pc]
  PROVE  /\ request'[r].pc = pc
         /\ request'[r].path = request[r].path /\ request'[r].id = request[r].id
         /\ request'[r].node = request[r].node /\ request'[r].verb = request[r].verb
         /\ request'[r].resumed = request[r].resumed
BY DEF Shape, TypeOK, Request

\* Outside its own two UPDATEs a request has decided what it had decided.
LEMMA DecidedSame ==
  ASSUME Shape, PendingUndecided, [Next]_vars, NEW r \in Requests,
         request[r].pc \notin {"selected", "node"}
  PROVE  \A i \in Ids : /\ DecidedBy(i)' = r <=> DecidedBy(i) = r
                        /\ DecidedBy(i) = r => approvals'[i] = approvals[i]
<1>1. RowStep
  BY RowEffects
<1>2. ASSUME NEW i \in Ids, DecidedBy(i)' = r, DecidedBy(i) # r PROVE FALSE
  <2>1. DecideUpdate(r) \/ NodeUpdate(r)
    BY <1>2, DecidesItself
  <2> QED BY <2>1 DEF DecideUpdate, NodeUpdate
<1> QED BY <1>1, <1>2, DecidedKept

\* The handler's own UPDATE.
LEMMA KnowsAfterDecideUpdate ==
  ASSUME Shape, DecisionInv, NEW r \in Requests, DecideUpdate(r)
  PROVE  RequestKnows(r)'
<1>1. RequestKnows(r) /\ PendingUndecided /\ request[r].pc = "selected"
  BY DEF DecisionInv, DecideUpdate
<1> PICK i \in Ids : i = request[r].id
  BY <1>1 DEF Shape, RequestAt
<1>2. CASE Pending(i)
  <2>1. Decided(i, r) /\ request' = [request EXCEPT ![r].pc = "updated"]
    BY <1>1, <1>2 DEF DecideUpdate, Decided
  <2>2. DecidedBy(i)' = r /\ \A j \in Ids \ {i} : DecidedBy(j)' = DecidedBy(j)
    BY <1>1, <2>1, DecidedNames
  <2>3. /\ request'[r].pc = "updated"
        /\ request'[r].path = request[r].path /\ request'[r].id = i
        /\ request'[r].node = request[r].node /\ request'[r].verb = request[r].verb
        /\ request'[r].resumed = request[r].resumed
    BY <2>1, PcFields
  <2>4. /\ request[r].path = "decide" /\ request[r].node = None /\ request[r].resumed = FALSE
        /\ \A j \in Ids : DecidedBy(j) # r
    <3>1. request[r].resumed \in BOOLEAN
      BY DEF Shape, TypeOK, Request
    <3> QED BY <1>1, <3>1 DEF RequestKnows
  <2> QED BY <1>1, <2>2, <2>3, <2>4 DEF RequestKnows
<1>3. CASE ~Pending(i)
  <2>1. Respond(r, 404, FALSE) /\ UNCHANGED <<approvals, audit>> /\ 404 \in Code
    BY <1>3 DEF DecideUpdate, Code
  <2>2. 404 = 200 <=> request[r].pc # "selected"
    BY <1>1
  <2>3. PICK code \in Code, resumed \in BOOLEAN : code = 404 /\ resumed = FALSE
    BY <2>1
  <2>4. Respond(r, code, resumed) /\ (code = 200 <=> request[r].pc # "selected") /\ ~resumed
    BY <2>1, <2>2, <2>3
  <2> QED BY <1>1, <2>1, <2>4, KnowsAfterAnswer
<1> QED BY <1>2, <1>3

\* The graph runs the node again; its insert conflicts or opens a row of nobody's.
LEMMA KnowsAfterResumeNode ==
  ASSUME Shape, DecisionInv, [Next]_vars, NEW r \in Requests, ResumeNode(r)
  PROVE  RequestKnows(r)'
<1>1. RequestKnows(r) /\ PendingUndecided /\ request[r].pc = "updated" /\ request[r] \in Request
  BY DEF DecisionInv, ResumeNode, Shape, TypeOK
<1>2. /\ request'[r].pc = "node"
      /\ request'[r].path = request[r].path /\ request'[r].id = request[r].id
      /\ request'[r].resumed = request[r].resumed
  BY <1>1 DEF ResumeNode, Shape, TypeOK, Request
<1>3. \A i \in Ids : DecidedBy(i)' = r <=> DecidedBy(i) = r
  BY <1>1, DecidedSame
<1>4. request[r].id \in Ids
  BY <1>1 DEF Shape, RequestAt
<1> QED BY <1>1, <1>2, <1>3, <1>4 DEF RequestKnows

\* The node's UPDATE.
LEMMA KnowsAfterNodeUpdate ==
  ASSUME Shape, DecisionInv, [Next]_vars, NEW r \in Requests, NodeUpdate(r)
  PROVE  RequestKnows(r)'
<1>1. /\ RequestKnows(r) /\ PendingUndecided /\ RowStep
      /\ request[r].pc = "node" /\ request[r].id \in Ids
  BY RowEffects DEF DecisionInv, NodeUpdate, Shape, RequestAt
<1> PICK a \in Ids : a = request[r].node
  BY <1>1 DEF Shape, RequestAt, Ids
<1>2. CASE Pending(a)
  <2>1. Decided(a, r) /\ request' = [request EXCEPT ![r].pc = "audit"]
    BY <1>1, <1>2 DEF NodeUpdate, Decided
  <2>2. /\ DecidedBy(a)' = r /\ approvals'[a].status = StatusOf(request[r].verb)
        /\ \A j \in Ids \ {a} : DecidedBy(j)' = DecidedBy(j)
    BY <1>1, <2>1, DecidedNames
  <2>3. /\ request'[r].pc = "audit"
        /\ request'[r].path = request[r].path /\ request'[r].id = request[r].id
        /\ request'[r].node = a /\ request'[r].verb = request[r].verb
        /\ request'[r].resumed = request[r].resumed
    BY <2>1, PcFields
  <2>4. \A j \in Ids : DecidedBy(j) = r => DecidedBy(j)' = r
    BY <1>1, DecidedKept
  <2> QED BY <1>1, <2>2, <2>3, <2>4 DEF RequestKnows
<1>3. CASE ~Pending(a)
  <2>1. Respond(r, 200, FALSE) /\ UNCHANGED <<approvals, audit>> /\ 200 \in Code
    BY <1>3 DEF NodeUpdate, Code
  <2> QED BY <1>1, <2>1, KnowsAfterAnswer
<1> QED BY <1>2, <1>3

\* The node's audit record.
LEMMA KnowsAfterNodeAudit ==
  ASSUME Shape, DecisionInv, NEW r \in Requests, NodeAudit(r)
  PROVE  RequestKnows(r)'
<1>1. /\ RequestKnows(r) /\ request[r].pc = "audit" /\ request' = [request EXCEPT ![r].pc = "recorded"]
      /\ approvals' = approvals /\ request[r].id \in Ids /\ request[r].node \in Ids
  BY DEF DecisionInv, NodeAudit, Shape, RequestAt, Ids
<1>2. /\ request'[r].pc = "recorded"
      /\ request'[r].path = request[r].path /\ request'[r].id = request[r].id
      /\ request'[r].node = request[r].node /\ request'[r].verb = request[r].verb
      /\ request'[r].resumed = request[r].resumed
  BY <1>1, PcFields
<1>3. \A i \in Ids : DecidedBy(i)' = DecidedBy(i)
  BY <1>1 DEF DecidedBy, Exists
<1>4. \E rec \in audit' : rec.approval_id = request[r].node /\ rec.actor = r
  <2> DEFINE rec == [decision |-> TierToDecision(TierOf[request[r].node], request[r].verb),
                     approval_id |-> request[r].node, about |-> request[r].node,
                     escalated_to_id |-> None, actor |-> r]
  <2>1. rec \in audit' /\ rec.approval_id = request[r].node /\ rec.actor = r
    BY DEF NodeAudit
  <2> HIDE DEF rec
  <2> QED BY <2>1
<1> QED BY <1>1, <1>2, <1>3, <1>4 DEF RequestKnows

LEMMA KnowsAfterLost ==
  ASSUME Shape, DecisionInv, NEW r \in Requests, RequestLost(r)
  PROVE  RequestKnows(r)'
<1>1. /\ RequestKnows(r) /\ request' = [request EXCEPT ![r].pc = "lost"]
      /\ request[r].pc \notin {"unsent", "done", "lost"} /\ UNCHANGED approvals
  BY DEF DecisionInv, RequestLost
<1>2. /\ request'[r].pc = "lost"
      /\ request'[r].path = request[r].path /\ request'[r].id = request[r].id
      /\ request'[r].node = request[r].node /\ request'[r].resumed = request[r].resumed
  BY <1>1, PcFields
<1>3. \A i \in Ids : DecidedBy(i)' = DecidedBy(i)
  BY <1>1 DEF DecidedBy, Exists
<1> QED BY <1>1, <1>2, <1>3 DEF RequestKnows

\* Each request knows, after a step of its own, what it is to know.
LEMMA KnowsAfterStep ==
  ASSUME Shape, DecisionInv, [Next]_vars, NEW r \in Requests, SendStep(r) \/ RequestStep(r)
  PROVE  RequestKnows(r)'
<1>1. 200 \in Code /\ 404 \in Code
  BY DEF Code
<1>2. CASE ResumeNothing(r)
  <2>1. request[r].pc = "updated" /\ UNCHANGED <<approvals, audit>>
    BY <1>2 DEF ResumeNothing
  <2>2. ASSUME NEW resumed \in BOOLEAN, Respond(r, 200, resumed) PROVE RequestKnows(r)'
    BY <1>1, <2>1, <2>2, KnowsAfterAnswer
  <2>3. CASE request[r].path = "resume" /\ Respond(r, 404, FALSE)
    BY <1>1, <2>1, <2>3, KnowsAfterAnswer
  <2> QED BY <1>2, <2>2, <2>3 DEF ResumeNothing
<1>3. CASE NodeReturn(r)
  <2>1. request[r].pc = "recorded" /\ UNCHANGED <<approvals, audit>> /\ Respond(r, 200, TRUE)
    BY <1>3 DEF NodeReturn
  <2> QED BY <1>1, <2>1, KnowsAfterAnswer
<1>4. CASE ResumeFails(r)
  <2>1. /\ request[r].pc \in {"updated", "node", "audit", "recorded"}
        /\ UNCHANGED <<approvals, audit>> /\ Respond(r, 200, FALSE)
    BY <1>4 DEF ResumeFails
  <2> QED BY <1>1, <2>1, KnowsAfterAnswer
<1> QED
  BY <1>2, <1>3, <1>4, KnowsAfterSend, KnowsAfterDecideUpdate, KnowsAfterResumeNode,
     KnowsAfterNodeUpdate, KnowsAfterNodeAudit, KnowsAfterLost DEF RequestStep

LEMMA OthersAsked ==
  ASSUME Shape, NEW r \in Requests, SendStep(r) \/ RequestStep(r), NEW q \in Requests \ {r}
  PROVE  request'[q] = request[q]
<1>1. request \in [Requests -> Request]
  BY DEF Shape, TypeOK
<1>2. CASE SendStep(r)
  BY <1>1, <1>2 DEF SendStep, DecideSelect, ResumeSend
<1>3. CASE DecideUpdate(r) \/ ResumeNode(r) \/ ResumeNothing(r)
  BY <1>1, <1>3 DEF DecideUpdate, ResumeNode, ResumeNothing, Respond
<1>4. CASE NodeUpdate(r) \/ NodeAudit(r) \/ NodeReturn(r) \/ ResumeFails(r) \/ RequestLost(r)
  BY <1>1, <1>4 DEF NodeUpdate, NodeAudit, NodeReturn, ResumeFails, RequestLost, Respond
<1> QED BY <1>2, <1>3, <1>4 DEF RequestStep

LEMMA DecisionInit == Init => DecisionInv
<1> SUFFICES ASSUME Init PROVE DecisionInv
  OBVIOUS
<1>1. \A r \in Requests : request[r] = Unsent
  BY DEF Init
<1>2. \A i \in Ids : DecidedBy(i) = None
  BY DEF Init, DecidedBy, Exists
<1>3. None \notin Requests
  BY DistinctNames
<1>4. ASSUME NEW r \in Requests PROVE RequestKnows(r)
  BY <1>1, <1>2, <1>3 DEF RequestKnows, Unsent
<1> QED BY <1>4, UndecidedInit DEF DecisionInv

LEMMA DecisionStep ==
  ASSUME Shape, DecisionInv, [Next]_vars
  PROVE  DecisionInv'
<1>1. PendingUndecided'
  BY UndecidedInductive DEF DecisionInv
<1>2. ASSUME NEW r \in Requests PROVE RequestKnows(r)'
  <2>1. CASE request'[r] = request[r]
    BY <2>1, RequestKnowledgeKept
  <2>2. CASE request'[r] # request[r]
    <3>1. PICK q \in Requests : SendStep(q) \/ RequestStep(q)
      BY <2>2, RequestSteps
    <3>2. q = r
      BY <2>2, <3>1, OthersAsked
    <3> QED BY <3>1, <3>2, KnowsAfterStep
  <2> QED BY <2>1, <2>2
<1> QED BY <1>1, <1>2 DEF DecisionInv

LEMMA DecisionAlways == Spec => []DecisionInv
BY ShapeAlways, DecisionInit, DecisionStep, PTL DEF Spec

-----------------------------------------------------------------------------
(* The trail of the people *)

\* The record of a decision names the request whose decision the row carries.
HumanAuditInv ==
  \A rec \in audit : rec.approval_id # None =>
    /\ rec.approval_id \in Ids /\ rec.actor \in Requests
    /\ DecidedBy(rec.approval_id) = rec.actor
    /\ rec.decision = "escalated" <=> approvals[rec.approval_id].status = "escalated"

LEMMA HumanAuditStep ==
  ASSUME Shape, DecisionInv, HumanAuditInv, [Next]_vars
  PROVE  HumanAuditInv'
<1> DEFINE True(rec) == rec.approval_id # None =>
             /\ rec.approval_id \in Ids /\ rec.actor \in Requests
             /\ DecidedBy(rec.approval_id)' = rec.actor
             /\ rec.decision = "escalated" <=> approvals'[rec.approval_id].status = "escalated"
<1>1. ASSUME NEW rec \in audit PROVE True(rec)
  <2> SUFFICES ASSUME rec.approval_id # None PROVE True(rec)
    OBVIOUS
  <2>1. PICK i \in Ids, r \in Requests : i = rec.approval_id /\ r = rec.actor
    BY DEF HumanAuditInv
  <2>2. DecidedBy(i) = r /\ (rec.decision = "escalated" <=> approvals[i].status = "escalated")
    BY <2>1 DEF HumanAuditInv
  <2>3. approvals'[i] = approvals[i] /\ DecidedBy(i)' = r
    BY <2>2, DecidedKept, RowEffects DEF DecisionInv
  <2> QED BY <2>1, <2>2, <2>3
<1>2. ASSUME NEW r \in Requests, NodeAudit(r), NEW rec \in audit' PROVE True(rec)
  <2>1. request[r].pc = "audit" /\ RequestKnows(r) /\ approvals' = approvals
    BY <1>2 DEF NodeAudit, DecisionInv
  <2>2. PICK a \in Actions : a = request[r].node
    BY <2>1 DEF Shape, RequestAt
  <2>3. PICK verb \in Verb : verb = request[r].verb
    BY DEF Shape, TypeOK, Request
  <2>4. /\ DecidedBy(a) = r /\ approvals[a].status = StatusOf(verb)
        /\ a \in Ids /\ TierOf[a] \in Tier
    BY <2>1, <2>2, <2>3, ConstantTypes DEF RequestKnows, Ids
  <2>5. TierToDecision(TierOf[a], verb) = "escalated" <=> approvals[a].status = "escalated"
    BY <2>4, TierToDecisionType, StatusOfType
  <2>6. DecidedBy(a)' = r
    BY <2>1, <2>4 DEF DecidedBy, Exists
  <2>7. rec \in audit \/ /\ rec.approval_id = a /\ rec.actor = r
                         /\ rec.decision = TierToDecision(TierOf[a], verb)
    BY <1>2, <2>2, <2>3 DEF NodeAudit
  <2> HIDE DEF True
  <2>8. CASE rec \in audit
    BY <1>1, <2>8
  <2>9. CASE /\ rec.approval_id = a /\ rec.actor = r
             /\ rec.decision = TierToDecision(TierOf[a], verb)
    BY <2>1, <2>4, <2>5, <2>6, <2>9 DEF True
  <2> QED BY <2>7, <2>8, <2>9
<1>3. ASSUME NEW s \in Supervisors, AuditTransition(s), NEW rec \in audit' PROVE True(rec)
  <2>1. rec \in audit \/ rec.approval_id = None
    BY <1>3 DEF AuditTransition
  <2> QED BY <1>1, <2>1
<1>4. \A rec \in audit' : True(rec)
  <2> HIDE DEF True
  <2> QED BY <1>1, <1>2, <1>3, AuditSteps
<1> QED BY <1>4 DEF HumanAuditInv

LEMMA FinishedAuditedStep ==
  ASSUME Shape, DecisionInv, HumanAuditInv, FinishedAudited, [Next]_vars
  PROVE  FinishedAudited'
<1>1. audit \subseteq audit' /\ RowStep /\ PendingUndecided
  BY AuditGrows, RowEffects DEF DecisionInv
<1>2. ASSUME NEW a \in finished
      PROVE  \E rec \in audit' : rec.approval_id = a /\ rec.actor = approvals'[a].decided_by
  <2>1. a \in Ids
    BY DEF Shape, TypeOK, Ids
  <2>2. PICK rec \in audit : rec.approval_id = a /\ rec.actor = approvals[a].decided_by
    BY DEF FinishedAudited
  <2>3. a # None
    BY <2>1, DistinctNames
  <2>4. PICK r \in Requests : DecidedBy(a) = r
    BY <2>2, <2>3 DEF HumanAuditInv
  <2>5. approvals'[a] = approvals[a]
    BY <1>1, <2>1, <2>4, DecidedKept
  <2> QED BY <1>1, <2>2, <2>5
<1>3. ASSUME NEW r \in Requests, NodeReturn(r), NEW a \in finished', a \notin finished
      PROVE  \E rec \in audit' : rec.approval_id = a /\ rec.actor = approvals'[a].decided_by
  <2>1. /\ a = request[r].node /\ request[r].pc = "recorded"
        /\ approvals' = approvals /\ audit' = audit
    BY <1>3 DEF NodeReturn
  <2>2. RequestKnows(r)
    BY DEF DecisionInv
  <2>3. DecidedBy(a) = r /\ \E rec \in audit : rec.approval_id = a /\ rec.actor = r
    BY <2>1, <2>2 DEF RequestKnows
  <2>4. approvals[a].decided_by = r
    BY <2>3, DistinctNames DEF DecidedBy
  <2> QED BY <2>1, <2>3, <2>4
<1> QED BY <1>2, <1>3, FinishedSteps DEF FinishedAudited

LEMMA HumanAuditAlways == Spec => [](HumanAuditInv /\ FinishedAudited)
<1>1. Init => HumanAuditInv /\ FinishedAudited
  BY DEF Init, HumanAuditInv, FinishedAudited
<1>2. ASSUME Shape, DecisionInv, HumanAuditInv /\ FinishedAudited, [Next]_vars
      PROVE  (HumanAuditInv /\ FinishedAudited)'
  BY <1>2, HumanAuditStep, FinishedAuditedStep
<1> QED BY <1>1, <1>2, ShapeAlways, DecisionAlways, PTL DEF Spec

\* What a person decided is what every place says: the answer they got, the
\* audit record of it, and the thread that goes on only with the record written.
THEOREM DecisionsAreTrue == Spec => []DecisionsTrue
<1>1. DecisionInv /\ HumanAuditInv /\ FinishedAudited => DecisionsTrue
  <2> SUFFICES ASSUME DecisionInv, HumanAuditInv, FinishedAudited PROVE DecisionsTrue
    OBVIOUS
  <2>1. AnswersTruthful
    <3> SUFFICES ASSUME NEW r \in Requests, request[r].pc = "done"
                 PROVE  /\ request[r].path = "decide" =>
                             (request[r].code = 200
                                <=> Exists(request[r].id) /\ approvals[request[r].id].decided_by = r)
                        /\ request[r].resumed /\ request[r].node # None =>
                             approvals[request[r].node].decided_by = r
      BY DEF AnswersTruthful
    <3>1. RequestKnows(r) /\ r # None
      BY DistinctNames DEF DecisionInv
    <3>2. ASSUME request[r].path = "decide"
          PROVE  request[r].code = 200
                   <=> Exists(request[r].id) /\ approvals[request[r].id].decided_by = r
      BY <3>1, <3>2 DEF RequestKnows, DecidedBy
    <3>3. ASSUME request[r].resumed, request[r].node # None
          PROVE  approvals[request[r].node].decided_by = r
      BY <3>1, <3>3 DEF RequestKnows, DecidedBy
    <3> QED BY <3>2, <3>3
  <2>2. HumanAuditTrue
    <3>1. ASSUME NEW rec \in audit, rec.approval_id # None
          PROVE  /\ approvals[rec.approval_id].decided_by = rec.actor
                 /\ rec.decision = "escalated" <=> approvals[rec.approval_id].status = "escalated"
      <4>1. rec.actor # None
        BY <3>1, DistinctNames DEF HumanAuditInv
      <4> QED BY <3>1, <4>1 DEF HumanAuditInv, DecidedBy
    <3> QED BY <3>1 DEF HumanAuditTrue
  <2> QED BY <2>1, <2>2 DEF DecisionsTrue
<1> QED BY <1>1, DecisionAlways, HumanAuditAlways, PTL

-----------------------------------------------------------------------------
(* The trail of the supervisors *)

\* A supervisor's record names the link of the row it speaks of.
LinkAuditInv ==
  \A rec \in audit : rec.escalated_to_id # None =>
    /\ Exists(rec.about)
    /\ approvals[rec.about].escalated_to_id = rec.escalated_to_id

LEMMA LinkAuditStep ==
  ASSUME Shape, ChainInv, ScanKnows, LinkAuditInv, [Next]_vars
  PROVE  LinkAuditInv'
<1> DEFINE True(rec) == rec.escalated_to_id # None =>
             /\ approvals'[rec.about] # NoRow
             /\ approvals'[rec.about].escalated_to_id = rec.escalated_to_id
<1>1. ASSUME NEW rec \in audit PROVE True(rec)
  <2> SUFFICES ASSUME rec.escalated_to_id # None PROVE True(rec)
    OBVIOUS
  <2>1. PICK i \in Ids : i = rec.about
    BY DEF Shape, TypeOK, AuditRecord
  <2>2. Exists(i) /\ approvals[i].escalated_to_id = rec.escalated_to_id
    BY <2>1 DEF LinkAuditInv
  <2>3. approvals'[i] = approvals[i]
    BY <2>2, RowEffects, LinkKept
  <2> QED BY <2>1, <2>2, <2>3 DEF Exists
<1>2. ASSUME NEW r \in Requests, NodeAudit(r), NEW rec \in audit' PROVE True(rec)
  <2>1. rec \in audit \/ rec.escalated_to_id = None
    BY <1>2 DEF NodeAudit
  <2> QED BY <1>1, <2>1
<1>3. ASSUME NEW s \in Supervisors, AuditTransition(s), NEW rec \in audit' PROVE True(rec)
  <2>1. \/ rec \in audit
        \/ rec.about = scan[s].row /\ rec.escalated_to_id = scan[s].escalated_to_id
    BY <1>3 DEF AuditTransition
  <2>2. /\ Exists(scan[s].row)
        /\ scan[s].escalated_to_id # None =>
             approvals[scan[s].row].escalated_to_id = scan[s].escalated_to_id
    BY <1>3 DEF AuditTransition, ScanKnows
  <2>3. approvals' = approvals
    BY <1>3 DEF AuditTransition
  <2> QED BY <1>1, <2>1, <2>2, <2>3 DEF Exists
<1>4. \A rec \in audit' : True(rec)
  <2> HIDE DEF True
  <2> QED BY <1>1, <1>2, <1>3, AuditSteps
<1> QED BY <1>4 DEF LinkAuditInv, Exists

\* A row that a clock moved, and the supervisor that has it in hand.
Moved(i) == approvals[i].status = "timed_out" \/ approvals[i].escalated_to_id # None

InHand(i) == \E s \in Supervisors : scan[s].row = i

Auditable(i) == Exists(i) /\ approvals[i].action \notin Unauditable

\* A request whose decision of a row its node is to record.
NodeDecided(i, r) ==
  DecidedBy(i) = r /\ (request[r].path = "resume" \/ request[r].id # i)

TransitionsAudited == \A i \in Ids : Auditable(i) /\ Moved(i) => Audited(i) \/ InHand(i)

NodesAudited ==
  \A i \in Ids, r \in Requests :
    Auditable(i) /\ NodeDecided(i, r) => Audited(i) \/ request[r].pc = "audit"

NothingLost == faults = 0 => TransitionsAudited /\ NodesAudited

LEMMA AuditedStays ==
  ASSUME [Next]_vars, NEW i \in Ids, Audited(i)
  PROVE  Audited(i)'
BY AuditGrows DEF Audited

\* A step after which there has been no fault is none, and there was none before.
LEMMA FaultFree ==
  ASSUME Shape, [Next]_vars, faults' = 0
  PROVE  /\ faults = 0
         /\ \A s \in Supervisors : ~ScanFault(s)
         /\ \A r \in Requests : ~ResumeFails(r) /\ ~RequestLost(r)
<1>1. faults \in Nat
  BY ConstantTypes DEF Shape, TypeOK
<1>2. ~Fault
  BY <1>1 DEF Fault
<1>3. \/ Fault \/ faults' = faults
  <2>1. ASSUME NEW a \in Actions, Propose(a) \/ InsertDetached(a) PROVE faults' = faults
    BY <2>1 DEF Propose, InsertDetached
  <2>2. ASSUME NEW t \in Threads, Interrupt(t) \/ AgentCrash(t) PROVE Fault \/ faults' = faults
    BY <2>2 DEF Interrupt, AgentCrash
  <2>3. ASSUME NEW i \in Ids, DeadlinePasses(i) PROVE faults' = faults
    BY <2>3 DEF DeadlinePasses
  <2>4. ASSUME NEW r \in Requests, SendStep(r) PROVE faults' = faults
    BY <2>4 DEF SendStep, DecideSelect, ResumeSend
  <2>5. ASSUME NEW r \in Requests, RequestStep(r) PROVE Fault \/ faults' = faults
    BY <2>5 DEF RequestStep, DecideUpdate, ResumeNode, ResumeNothing, NodeUpdate, NodeAudit,
                NodeReturn, ResumeFails, RequestLost
  <2>6. ASSUME NEW s \in Supervisors, SupervisorStep(s) PROVE Fault \/ faults' = faults
    BY <2>6 DEF SupervisorStep, ScanRows, HandleRow, EscalateRow, EscalateRowConflict,
                TimeOutRow, AuditTransition, ScanFault
  <2>7. CASE UNCHANGED vars
    BY <2>7 DEF vars
  <2> QED BY <2>1, <2>2, <2>3, <2>4, <2>5, <2>6, <2>7 DEF Next, AgentStep, SupervisorStep
<1> QED BY <1>2, <1>3 DEF ScanFault, ResumeFails, RequestLost

\* A row moves only into the hand of the supervisor that moved it.
LEMMA MovedInHand ==
  ASSUME Shape, [Next]_vars, NEW i \in Ids, Exists(i)', Moved(i)', ~(Exists(i) /\ Moved(i))
  PROVE  InHand(i)'
<1>0. scan \in [Supervisors -> Scan]
  BY DEF Shape, TypeOK
<1>1. ASSUME NEW a \in Actions, Opened(a) PROVE FALSE
  <2>1. approvals'[a] = NewRow(a, TierOf[a]) /\ Others({a})
    BY <1>1, OpenedEffect
  <2>2. approvals'[a].status = "pending" /\ approvals'[a].escalated_to_id = None
    BY <2>1 DEF NewRow
  <2> QED BY <2>1, <2>2 DEF Others, Moved, Exists
<1>2. ASSUME NEW j \in Ids, Aged(j) PROVE FALSE
  <2>1. /\ Pending(j) /\ approvals[j] \in Row /\ Others({j})
        /\ approvals'[j] = [approvals[j] EXCEPT !.overdue = TRUE]
    BY <1>2, AgedEffect
  <2>2. /\ approvals'[j].status = approvals[j].status /\ Exists(j)
        /\ approvals'[j].escalated_to_id = approvals[j].escalated_to_id
    BY <2>1 DEF Row, Pending
  <2> QED BY <2>1, <2>2 DEF Others, Moved, Exists
<1>3. ASSUME NEW j \in Ids, NEW r \in Requests, Decided(j, r) PROVE FALSE
  <2>1. /\ approvals'[j].status \in {"approved", "rejected", "escalated"} /\ Pending(j)
        /\ approvals'[j].escalated_to_id = approvals[j].escalated_to_id /\ Others({j})
    BY <1>3, DecidedEffect
  <2> QED BY <2>1 DEF Others, Moved, Exists, Pending
<1>4. ASSUME NEW s \in Supervisors, NEW j \in Ids, NEW new \in FreshIds,
             EscalateRow(s, j, new), Hopped(j, new)
      PROVE  InHand(i)'
  <2>1. /\ Others({j, new})
        /\ approvals'[new] = NewRow(approvals[j].action, NextTier(approvals[j].tier))
    BY <1>4, HoppedEffect
  <2>2. approvals'[new].status = "pending" /\ approvals'[new].escalated_to_id = None
    BY <2>1 DEF NewRow
  <2>3. i = j
    BY <2>1, <2>2 DEF Others, Moved, Exists
  <2>4. scan'[s].row = j
    BY <1>0, <1>4 DEF EscalateRow
  <2> QED BY <2>3, <2>4 DEF InHand
<1>5. ASSUME NEW s \in Supervisors, NEW j \in Ids, TimeOutRow(s, j), Expired(j)
      PROVE  InHand(i)'
  <2>1. Others({j})
    BY <1>5, ExpiredEffect
  <2>2. i = j
    BY <2>1 DEF Others, Moved, Exists
  <2>3. scan'[s].row = j
    BY <1>0, <1>5 DEF TimeOutRow
  <2> QED BY <2>2, <2>3 DEF InHand
<1>6. CASE approvals' = approvals
  BY <1>6 DEF Moved, Exists
<1>7. OwnedRowStep
  BY RowOrigins
<1>8. CASE \E r \in Requests : DecideUpdate(r) /\ Decided(request[r].id, r)
  BY <1>3, <1>8 DEF Decided
<1>9. CASE \E r \in Requests : NodeUpdate(r) /\ Decided(request[r].node, r)
  BY <1>3, <1>9 DEF Decided
<1> QED BY <1>1, <1>2, <1>4, <1>5, <1>6, <1>7, <1>8, <1>9 DEF OwnedRowStep

\* What a supervisor has in hand it keeps until it has put it on record.
LEMMA HandReleases ==
  ASSUME Shape, [Next]_vars, NEW i \in Ids, Auditable(i), InHand(i),
         \A s \in Supervisors : ~ScanFault(s)
  PROVE  InHand(i)' \/ Audited(i)'
<1>0. scan \in [Supervisors -> Scan] /\ i # None
  BY DistinctNames DEF Shape, TypeOK
<1>1. PICK s \in Supervisors : scan[s].row = i
  BY DEF InHand
<1>2. CASE scan'[s].row = scan[s].row
  BY <1>1, <1>2 DEF InHand
<1>3. CASE scan'[s].row # scan[s].row
  <2>1. PICK q \in Supervisors : SupervisorStep(q)
    BY <1>3, ScanSteps
  <2>2. q = s
    BY <1>0, <1>3, <2>1
       DEF SupervisorStep, ScanRows, HandleRow, EscalateRow, EscalateRowConflict, TimeOutRow,
           AuditTransition, ScanFault
  <2>3. ~ScanRows(s) /\ ~HandleRow(s)
    BY <1>0, <1>1 DEF ScanRows, Sleeping, HandleRow, EscalateRow, EscalateRowConflict,
                      TimeOutRow, Handling
  <2>4. AuditTransition(s)
    BY <2>1, <2>2, <2>3 DEF SupervisorStep
  <2> DEFINE rec == [decision |-> IF scan[s].escalated_to_id = None
                                  THEN "timed_out" ELSE "escalated",
                     approval_id |-> None, about |-> scan[s].row,
                     escalated_to_id |-> scan[s].escalated_to_id, actor |-> s]
  <2>5. rec \in audit' /\ rec.about = i
    BY <1>1, <2>4 DEF AuditTransition, Auditable
  <2> HIDE DEF rec
  <2> QED BY <2>5 DEF Audited
<1> QED BY <1>2, <1>3

LEMMA TransitionsAuditedStep ==
  ASSUME Shape, TransitionsAudited, [Next]_vars, \A s \in Supervisors : ~ScanFault(s)
  PROVE  TransitionsAudited'
<1>1. ASSUME NEW i \in Ids, Auditable(i)', Moved(i)' PROVE Audited(i)' \/ InHand(i)'
  <2>1. CASE ~(Exists(i) /\ Moved(i))
    BY <1>1, <2>1, MovedInHand DEF Auditable
  <2>2. CASE Exists(i) /\ Moved(i)
    <3>1. approvals'[i].action = approvals[i].action
      BY <2>2, RowEffects, RowPersists
    <3>2. Auditable(i)
      BY <1>1, <2>2, <3>1 DEF Auditable
    <3>3. Audited(i) \/ InHand(i)
      BY <2>2, <3>2 DEF TransitionsAudited
    <3> QED BY <3>2, <3>3, AuditedStays, HandReleases
  <2> QED BY <2>1, <2>2
<1> QED BY <1>1 DEF TransitionsAudited

\* What was asked stays what was asked.
LEMMA RequestNamed ==
  ASSUME Shape, NEW r \in Requests, RequestStep(r)
  PROVE  request'[r].path = request[r].path /\ request'[r].id = request[r].id
<1>1. request \in [Requests -> Request] /\ request[r] \in Request
  BY DEF Shape, TypeOK
<1>2. ASSUME NEW code, NEW resumed, Respond(r, code, resumed)
      PROVE  request'[r].path = request[r].path /\ request'[r].id = request[r].id
  BY <1>1, <1>2 DEF Respond, Request
<1>3. CASE DecideUpdate(r)
  BY <1>2, <1>3, PcFields DEF DecideUpdate
<1>4. CASE ResumeNode(r)
  BY <1>1, <1>4 DEF ResumeNode, Request
<1>5. CASE ResumeNothing(r)
  BY <1>2, <1>5 DEF ResumeNothing
<1>6. CASE NodeUpdate(r)
  BY <1>2, <1>6, PcFields DEF NodeUpdate
<1>7. CASE NodeAudit(r) \/ RequestLost(r)
  BY <1>7, PcFields DEF NodeAudit, RequestLost
<1>8. CASE NodeReturn(r) \/ ResumeFails(r)
  BY <1>2, <1>8 DEF NodeReturn, ResumeFails
<1> QED BY <1>3, <1>4, <1>5, <1>6, <1>7, <1>8 DEF RequestStep

LEMMA NodesAuditedStep ==
  ASSUME Shape, ChainInv, DecisionInv, NodesAudited, [Next]_vars,
         \A r \in Requests : ~ResumeFails(r) /\ ~RequestLost(r)
  PROVE  NodesAudited'
<1> SUFFICES ASSUME NEW i \in Ids, NEW r \in Requests, Auditable(i)', NodeDecided(i, r)'
             PROVE  Audited(i)' \/ request'[r].pc = "audit"
  BY DEF NodesAudited
<1>1. /\ PendingUndecided /\ RowStep /\ RequestKnows(r) /\ r # None
      /\ request \in [Requests -> Request]
  BY RowEffects, DistinctNames DEF DecisionInv, Shape, TypeOK
<1>2. CASE DecidedBy(i) # r
  <2>1. \/ DecideUpdate(r) /\ i = request[r].id /\ Decided(i, r)
        \/ NodeUpdate(r) /\ i = request[r].node /\ Decided(i, r)
    BY <1>1, <1>2, DecidesItself DEF NodeDecided
  <2>2. CASE DecideUpdate(r) /\ i = request[r].id
    <3>1. request[r].path = "decide"
      BY <1>1, <2>2 DEF DecideUpdate, RequestKnows
    <3>2. request'[r].path = request[r].path /\ request'[r].id = request[r].id
      BY <2>2, RequestNamed DEF RequestStep
    <3> QED BY <2>2, <3>1, <3>2 DEF NodeDecided
  <2>3. CASE NodeUpdate(r) /\ Decided(i, r) /\ i = request[r].node
    <3>1. request' = [request EXCEPT ![r].pc = "audit"]
      BY <2>3 DEF NodeUpdate, Decided
    <3>2. request'[r].pc = "audit"
      BY <3>1, PcFields
    <3> QED BY <3>2
  <2> QED BY <2>1, <2>2, <2>3
<1>3. CASE DecidedBy(i) = r
  <2>1. Exists(i) /\ approvals'[i] = approvals[i]
    BY <1>1, <1>3, DecidedKept DEF DecidedBy
  <2>2. Auditable(i)
    BY <2>1 DEF Auditable, Exists
  <2>3. CASE request'[r] = request[r]
    <3>1. NodeDecided(i, r)
      BY <1>3, <2>3 DEF NodeDecided
    <3>2. Audited(i) \/ request[r].pc = "audit"
      BY <2>2, <3>1 DEF NodesAudited
    <3> QED BY <2>3, <3>2, AuditedStays
  <2>4. CASE request'[r] # request[r]
    <3>1. PICK q \in Requests : SendStep(q) \/ RequestStep(q)
      BY <2>4, RequestSteps
    <3>2. q = r
      BY <2>4, <3>1, OthersAsked
    <3>3. request[r].pc # "unsent"
      BY <1>1, <1>3 DEF RequestKnows
    <3>4. RequestStep(r)
      BY <3>1, <3>2, <3>3 DEF SendStep, DecideSelect, ResumeSend
    <3>5. NodeDecided(i, r)
      <4>1. request'[r].path = request[r].path /\ request'[r].id = request[r].id
        BY <3>4, RequestNamed
      <4> QED BY <1>3, <4>1 DEF NodeDecided
    <3>6. Audited(i) \/ request[r].pc = "audit"
      BY <2>2, <3>5 DEF NodesAudited
    <3>7. CASE request[r].pc = "audit"
      <4>1. NodeAudit(r)
        BY <3>4, <3>7 DEF RequestStep, DecideUpdate, ResumeNode, ResumeNothing, NodeUpdate,
                          NodeReturn
      <4>2. i = request[r].node
        BY <1>1, <3>5 DEF RequestKnows, NodeDecided
      <4> DEFINE rec == [decision |-> TierToDecision(TierOf[request[r].node], request[r].verb),
                         approval_id |-> request[r].node, about |-> request[r].node,
                         escalated_to_id |-> None, actor |-> r]
      <4>3. rec \in audit' /\ rec.about = i
        BY <4>1, <4>2 DEF NodeAudit
      <4> HIDE DEF rec
      <4> QED BY <4>3 DEF Audited
    <3> QED BY <3>6, <3>7, AuditedStays
  <2> QED BY <2>3, <2>4
<1> QED BY <1>2, <1>3

LEMMA NothingLostStep ==
  ASSUME Shape, ChainInv, DecisionInv, NothingLost, [Next]_vars
  PROVE  NothingLost'
<1> SUFFICES ASSUME faults' = 0 PROVE TransitionsAudited' /\ NodesAudited'
  BY DEF NothingLost
<1>1. /\ faults = 0
      /\ \A s \in Supervisors : ~ScanFault(s)
      /\ \A r \in Requests : ~ResumeFails(r) /\ ~RequestLost(r)
  BY FaultFree
<1> QED BY <1>1, TransitionsAuditedStep, NodesAuditedStep DEF NothingLost

LEMMA EscalationAuditAlways == Spec => [](LinkAuditInv /\ NothingLost)
<1>1. Init => LinkAuditInv /\ NothingLost
  <2> SUFFICES ASSUME Init PROVE LinkAuditInv /\ NothingLost
    OBVIOUS
  <2> QED
    BY DEF Init, LinkAuditInv, NothingLost, TransitionsAudited, NodesAudited, Auditable, Exists
<1>2. ASSUME Shape, ChainInv, DecisionInv, ScanKnows, LinkAuditInv /\ NothingLost, [Next]_vars
      PROVE  (LinkAuditInv /\ NothingLost)'
  BY <1>2, LinkAuditStep, NothingLostStep
<1> QED BY <1>1, <1>2, ShapeAlways, ChainAlways, DecisionAlways, ScanKnowsAlways, PTL DEF Spec

\* The records of the supervisors tell hops that were committed; and as long as
\* nothing fails, every transition of a clock and every decision a node commits
\* is on record or about to be, whatever else the batches meet.
THEOREM EscalationsAreAudited == Spec => []EscalationsAudited
<1>1. LinkAuditInv /\ NothingLost => EscalationsAudited
  <2> SUFFICES ASSUME LinkAuditInv, NothingLost PROVE EscalationsAudited
    OBVIOUS
  <2>1. EscalationAuditTrue
    BY DEF LinkAuditInv, EscalationAuditTrue
  <2>2. ASSUME NEW i \in Ids, faults = 0, Exists(i), approvals[i].action \notin Unauditable
        PROVE  /\ approvals[i].status = "timed_out" \/ approvals[i].escalated_to_id # None
                    => Audited(i) \/ \E s \in Supervisors : scan[s].row = i
               /\ \A r \in Requests :
                    /\ approvals[i].decided_by = r
                    /\ request[r].path = "resume" \/ request[r].id # i
                    => Audited(i) \/ request[r].pc = "audit"
    <3>1. Auditable(i) /\ TransitionsAudited /\ NodesAudited
      BY <2>2 DEF Auditable, NothingLost
    <3>2. Moved(i) => Audited(i) \/ InHand(i)
      BY <3>1 DEF TransitionsAudited
    <3>3. ASSUME NEW r \in Requests, approvals[i].decided_by = r,
                 request[r].path = "resume" \/ request[r].id # i
          PROVE  Audited(i) \/ request[r].pc = "audit"
      BY <2>2, <3>1, <3>3 DEF NodesAudited, NodeDecided, DecidedBy
    <3> QED BY <3>2, <3>3 DEF Moved, InHand
  <2>3. OnlyFaultsLoseAudits
    BY <2>2 DEF OnlyFaultsLoseAudits
  <2> QED BY <2>1, <2>3 DEF EscalationsAudited
<1> QED BY <1>1, EscalationAuditAlways, PTL


-----------------------------------------------------------------------------
(*************************************************************************)
(* The table implements the abstract approval of ApprovalLifecycle. The  *)
(* state of an action is read from the one end of its chain of rows;     *)
(* each of the five effects of a step on the table is then one step of   *)
(* the action whose row it touches, and no step of any other action.     *)
(*************************************************************************)

-----------------------------------------------------------------------------
(* The refinement mapping, at the end of the chain *)

Bar == [a \in Actions |-> ChainOf(a)]

IsEnd(i, a) ==
  /\ i \in Ids /\ Exists(i) /\ approvals[i].action = a
  /\ approvals[i].escalated_to_id = None

\* What an end of the rows of an action says of the action.
Told(row) ==
  IF row.status = "pending" THEN Lifecycle!Open(row.tier)
  ELSE Lifecycle!Closed(row.tier, row.status)

\* An action without a row is unopened; any end of its rows is the end.
EndsTell ==
  \A a \in Actions :
    /\ ~Exists(a) => ChainOf(a) = Lifecycle!Unopened
    /\ \A i \in Ids : IsEnd(i, a) => ChainOf(a) = Told(approvals[i])

LEMMA ChainTells == Shape /\ ChainInv => EndsTell
<1> SUFFICES ASSUME Shape, ChainInv PROVE EndsTell
  OBVIOUS
<1>1. ASSUME NEW a \in Actions, ~Exists(a) PROVE ChainOf(a) = Lifecycle!Unopened
  <2>1. RowsOf(a) = {}
    BY <1>1 DEF RowsOf, ChainInv, RootRow
  <2> QED BY <2>1 DEF ChainOf, Lifecycle!Unopened, Lifecycle!NoTier, NoTier
<1>2. ASSUME NEW a \in Actions, NEW i \in Ids, IsEnd(i, a) PROVE ChainOf(a) = Told(approvals[i])
  <2>1. i \in RowsOf(a) /\ approvals[i].escalated_to_id = None
    BY <1>2 DEF IsEnd, RowsOf
  <2>2. Tail(a) \in RowsOf(a) /\ approvals[Tail(a)].escalated_to_id = None
    BY <2>1 DEF Tail
  <2>3. Tail(a) = i
    BY <2>1, <2>2 DEF RowsOf, ChainInv, OneEnd
  <2>4. ChainOf(a) = IF approvals[i].status = "pending"
                     THEN [phase |-> "open", tier |-> approvals[i].tier, outcome |-> "none"]
                     ELSE [phase |-> "closed", tier |-> approvals[i].tier,
                           outcome |-> approvals[i].status]
    BY <2>1, <2>3 DEF ChainOf
  <2> QED BY <2>4 DEF Told, Lifecycle!Open, Lifecycle!Closed
<1> QED BY <1>1, <1>2 DEF EndsTell

LEMMA ChainTellsNext ==
  ASSUME Shape, ChainInv, [Next]_vars
  PROVE  EndsTell /\ EndsTell'
<1>1. Shape' /\ ChainInv'
  BY ShapeStep, ChainStep
<1>2. (Shape /\ ChainInv => EndsTell)'
  BY ChainTells, PTL
<1> QED BY <1>1, <1>2, ChainTells

\* An action whose end is left alone stays where it is.
LEMMA SameEnd ==
  ASSUME Shape, ChainInv, EndsTell, EndsTell', NEW b \in Actions,
         Exists(b)' => Exists(b),
         \A j \in Ids : IsEnd(j, b) => Told(approvals'[j]) = Told(approvals[j]) /\ IsEnd(j, b)'
  PROVE  ChainOf(b)' = ChainOf(b)
<1>1. CASE ~Exists(b)
  BY <1>1 DEF EndsTell
<1>2. CASE Exists(b)
  <2>1. PICK j \in Ids : IsEnd(j, b)
    BY <1>2 DEF IsEnd, ChainInv, SomeEnd
  <2>2. IsEnd(j, b)' /\ Told(approvals'[j]) = Told(approvals[j])
    BY <2>1
  <2>3. ChainOf(b) = Told(approvals[j]) /\ ChainOf(b)' = Told(approvals'[j])
    BY <2>1, <2>2 DEF EndsTell
  <2> QED BY <2>2, <2>3
<1> QED BY <1>1, <1>2

\* A step that touches rows of one action only, or creates one for it.
LEMMA OtherChains ==
  ASSUME Shape, ChainInv, EndsTell, EndsTell', NEW a \in Actions, NEW S \in SUBSET Ids, Others(S),
         \A i \in S : Exists(i) => approvals[i].action = a,
         \A i \in S : Exists(i)' /\ i \in Actions => i = a \/ Exists(i),
         NEW b \in Actions, b # a
  PROVE  ChainOf(b)' = ChainOf(b)
<1>1. b \in Ids
  BY DEF Ids
<1>2. Exists(b)' => Exists(b)
  BY <1>1 DEF Others, Exists
<1>3. ASSUME NEW j \in Ids, IsEnd(j, b)
      PROVE  Told(approvals'[j]) = Told(approvals[j]) /\ IsEnd(j, b)'
  <2>1. approvals'[j] = approvals[j]
    BY <1>3 DEF IsEnd, Others
  <2> QED BY <1>3, <2>1 DEF IsEnd, Exists
<1> QED BY <1>2, <1>3, SameEnd

LEMMA OneChain ==
  ASSUME NEW a \in Actions, NEW X, ChainOf(a)' = X,
         \A b \in Actions \ {a} : ChainOf(b)' = ChainOf(b)
  PROVE  Bar' = [Bar EXCEPT ![a] = X]
BY DEF Bar

\* A pending row is the end of its action, which is open at its tier.
LEMMA PendingIsOpen ==
  ASSUME Shape, ChainInv, EndsTell, NEW i \in Ids, Pending(i)
  PROVE  /\ approvals[i].action \in Actions
         /\ IsEnd(i, approvals[i].action)
         /\ ChainOf(approvals[i].action) = Lifecycle!Open(approvals[i].tier)
<1>1. approvals[i] \in Row
  BY ExistingRow DEF Pending, Shape, TypeOK, Rows
<1>2. IsEnd(i, approvals[i].action)
  BY DEF IsEnd, Pending, ChainInv, PendingUnlinked
<1>3. approvals[i].action \in Actions
  BY <1>1 DEF Row
<1>4. ChainOf(approvals[i].action) = Told(approvals[i])
  BY <1>2, <1>3 DEF EndsTell
<1> QED BY <1>2, <1>3, <1>4 DEF Told, Pending

\* The abstract module reads the same escalation policy.
LEMMA SamePolicy ==
  /\ Lifecycle!NoTier = NoTier /\ Lifecycle!Verb = Verb
  /\ \A tier : Lifecycle!NextTier(tier) = NextTier(tier)
  /\ \A tier : Lifecycle!HasDeadline(tier) = HasDeadline(tier)
  /\ \A verb : Lifecycle!StatusOf(verb) = StatusOf(verb)
BY DEF Lifecycle!NoTier, NoTier, Lifecycle!Verb, Verb, Lifecycle!NextTier, NextTier,
       Lifecycle!HasDeadline, HasDeadline, Lifecycle!StatusOf, StatusOf

-----------------------------------------------------------------------------
(* Each effect on the table is a step of the abstract approval *)

LEMMA OpenedMaps ==
  ASSUME Shape, ChainInv, EndsTell, EndsTell', NEW a \in Actions, Opened(a)
  PROVE  Lifecycle!OpenChain(a)
<1>1. ~Exists(a) /\ approvals'[a] = NewRow(a, TierOf[a]) /\ Others({a}) /\ a \in Ids
  BY OpenedEffect DEF Ids
<1>2. /\ approvals'[a] # NoRow /\ approvals'[a].action = a
      /\ approvals'[a].status = "pending" /\ approvals'[a].tier = TierOf[a]
      /\ approvals'[a].escalated_to_id = None
  BY <1>1, NewRowType, ConstantTypes DEF NewRow
<1>3. ChainOf(a) = Lifecycle!Unopened
  BY <1>1 DEF EndsTell
<1>4. ChainOf(a)' = Lifecycle!Open(TierOf[a])
  <2>1. IsEnd(a, a)'
    BY <1>1, <1>2 DEF IsEnd, Exists
  <2>2. ChainOf(a)' = Told(approvals'[a])
    BY <1>1, <2>1 DEF EndsTell
  <2> QED BY <1>2, <2>2 DEF Told
<1>5. ASSUME NEW b \in Actions \ {a} PROVE ChainOf(b)' = ChainOf(b)
  BY <1>1, OtherChains
<1>6. Bar' = [Bar EXCEPT ![a] = Lifecycle!Open(TierOf[a])]
  BY <1>4, <1>5, OneChain
<1> QED BY <1>3, <1>6 DEF Lifecycle!OpenChain, Bar

LEMMA DecidedMaps ==
  ASSUME Shape, ChainInv, EndsTell, EndsTell', NEW i \in Ids, NEW r \in Requests, Decided(i, r)
  PROVE  \E a \in Actions : Lifecycle!Decide(a)
<1>1. /\ Pending(i) /\ approvals[i] \in Row /\ approvals'[i] \in Row
      /\ approvals'[i].status = StatusOf(request[r].verb)
      /\ approvals'[i].status \in {"approved", "rejected", "escalated"}
      /\ approvals'[i].action = approvals[i].action
      /\ approvals'[i].tier = approvals[i].tier
      /\ approvals'[i].escalated_to_id = approvals[i].escalated_to_id
      /\ Others({i})
  BY DecidedEffect
<1>2. PICK a \in Actions, tier \in Tier, verb \in Verb :
        a = approvals[i].action /\ tier = approvals[i].tier /\ verb = request[r].verb
  BY <1>1 DEF Row, Shape, TypeOK, Request
<1>3. IsEnd(i, a) /\ ChainOf(a) = Lifecycle!Open(tier)
  BY <1>1, <1>2, PendingIsOpen
<1>4. ChainOf(a)' = Lifecycle!Closed(tier, StatusOf(verb))
  <2>1. IsEnd(i, a)'
    BY <1>1, <1>3, NoRowIsNoRow DEF IsEnd, Exists
  <2>2. ChainOf(a)' = Told(approvals'[i])
    BY <2>1 DEF EndsTell
  <2> QED BY <1>1, <1>2, <2>2 DEF Told
<1>5. ASSUME NEW b \in Actions \ {a} PROVE ChainOf(b)' = ChainOf(b)
  BY <1>1, <1>2, OtherChains DEF Pending
<1>6. Bar' = [Bar EXCEPT ![a] = Lifecycle!Closed(tier, StatusOf(verb))]
  BY <1>4, <1>5, OneChain
<1>7. Bar[a].phase = "open" /\ Bar[a].tier = tier
  BY <1>3 DEF Bar, Lifecycle!Open
<1>8. verb \in Lifecycle!Verb /\ Lifecycle!StatusOf(verb) = StatusOf(verb)
  BY SamePolicy
<1>9. Lifecycle!Decide(a)
  BY <1>6, <1>7, <1>8 DEF Lifecycle!Decide, Bar
<1> QED BY <1>9

LEMMA HoppedMaps ==
  ASSUME Shape, ChainInv, EndsTell, EndsTell', NEW i \in Ids, NEW new \in FreshIds, Hopped(i, new)
  PROVE  \E a \in Actions : Lifecycle!Climb(a)
<1>1. /\ Pending(i) /\ approvals[i] \in Row /\ ~Exists(new) /\ new \in Ids
      /\ NextTier(approvals[i].tier) # NoTier /\ Others({i, new})
      /\ approvals'[new] = NewRow(approvals[i].action, NextTier(approvals[i].tier))
  BY HoppedEffect
<1>2. PICK a \in Actions, tier \in Tier : a = approvals[i].action /\ tier = approvals[i].tier
  BY <1>1 DEF Row
<1>3. ChainOf(a) = Lifecycle!Open(tier)
  BY <1>1, <1>2, PendingIsOpen
<1>4. ChainOf(a)' = Lifecycle!Open(NextTier(tier))
  <2>1. /\ approvals'[new] # NoRow /\ approvals'[new].action = a
        /\ approvals'[new].status = "pending" /\ approvals'[new].tier = NextTier(tier)
        /\ approvals'[new].escalated_to_id = None
    BY <1>1, <1>2, NextTierType, NewRowType DEF NewRow
  <2>2. IsEnd(new, a)'
    BY <1>1, <2>1 DEF IsEnd, Exists
  <2>3. ChainOf(a)' = Told(approvals'[new])
    BY <1>1, <2>2 DEF EndsTell
  <2> QED BY <2>1, <2>3 DEF Told
<1>5. ASSUME NEW b \in Actions \ {a} PROVE ChainOf(b)' = ChainOf(b)
  <2>1. new \notin Actions
    BY DistinctNames
  <2>2. Exists(i)
    BY <1>1 DEF Pending
  <2> QED BY <1>1, <1>2, <2>1, <2>2, OtherChains
<1>6. Bar' = [Bar EXCEPT ![a] = Lifecycle!Open(NextTier(tier))]
  BY <1>4, <1>5, OneChain
<1>7. Bar[a].phase = "open" /\ Bar[a].tier = tier
  BY <1>3 DEF Bar, Lifecycle!Open
<1>8. Lifecycle!NextTier(tier) = NextTier(tier) /\ Lifecycle!NoTier = NoTier
  BY SamePolicy
<1>9. Lifecycle!Climb(a)
  BY <1>1, <1>2, <1>6, <1>7, <1>8 DEF Lifecycle!Climb, Bar
<1> QED BY <1>9

LEMMA ExpiredMaps ==
  ASSUME Shape, ChainInv, ScanKnows, EndsTell, EndsTell', NEW i \in Ids, Expired(i)
  PROVE  \E a \in Actions : Lifecycle!Expire(a)
<1>1. /\ Pending(i) /\ approvals[i] \in Row /\ Others({i})
      /\ approvals'[i] = [approvals[i] EXCEPT !.status = "timed_out"]
  BY ExpiredEffect
<1>2. PICK a \in Actions, tier \in Tier : a = approvals[i].action /\ tier = approvals[i].tier
  BY <1>1 DEF Row
<1>3. NextTier(tier) = NoTier /\ HasDeadline(tier)
  BY <1>2 DEF Expired, ScanKnows
<1>4. IsEnd(i, a) /\ ChainOf(a) = Lifecycle!Open(tier)
  BY <1>1, <1>2, PendingIsOpen
<1>5. ChainOf(a)' = Lifecycle!Closed(tier, "timed_out")
  <2>1. approvals'[i] \in Row
    BY <1>1 DEF Row, Status
  <2>2. /\ approvals'[i].status = "timed_out" /\ approvals'[i].action = approvals[i].action
        /\ approvals'[i].tier = approvals[i].tier
        /\ approvals'[i].escalated_to_id = approvals[i].escalated_to_id
    BY <1>1 DEF Row
  <2>3. IsEnd(i, a)'
    BY <1>4, <2>1, <2>2, NoRowIsNoRow DEF IsEnd, Exists
  <2>4. ChainOf(a)' = Told(approvals'[i])
    BY <2>3 DEF EndsTell
  <2> QED BY <1>2, <2>2, <2>4 DEF Told
<1>6. ASSUME NEW b \in Actions \ {a} PROVE ChainOf(b)' = ChainOf(b)
  BY <1>1, <1>2, OtherChains DEF Pending
<1>7. Bar' = [Bar EXCEPT ![a] = Lifecycle!Closed(tier, "timed_out")]
  BY <1>5, <1>6, OneChain
<1>8. Bar[a].phase = "open" /\ Bar[a].tier = tier
  BY <1>4 DEF Bar, Lifecycle!Open
<1>9. /\ Lifecycle!NextTier(tier) = NextTier(tier) /\ Lifecycle!NoTier = NoTier
      /\ Lifecycle!HasDeadline(tier)
  BY <1>3, SamePolicy
<1>10. Lifecycle!Expire(a)
  BY <1>3, <1>7, <1>8, <1>9 DEF Lifecycle!Expire, Bar
<1> QED BY <1>10

LEMMA AgedMaps ==
  ASSUME Shape, ChainInv, EndsTell, EndsTell', NEW i \in Ids, Aged(i)
  PROVE  Bar' = Bar
<1>1. /\ Pending(i) /\ approvals[i] \in Row /\ Others({i})
      /\ approvals'[i] = [approvals[i] EXCEPT !.overdue = TRUE]
  BY AgedEffect
<1>2. approvals'[i] \in Row
  BY <1>1 DEF Row
<1>3. /\ approvals'[i].status = approvals[i].status /\ approvals'[i].action = approvals[i].action
      /\ approvals'[i].tier = approvals[i].tier
      /\ approvals'[i].escalated_to_id = approvals[i].escalated_to_id
  BY <1>1 DEF Row
<1>4. ASSUME NEW b \in Actions PROVE ChainOf(b)' = ChainOf(b)
  <2>1. Exists(b)' => Exists(b)
    BY <1>1 DEF Others, Exists, Pending, Ids
  <2>2. ASSUME NEW j \in Ids, IsEnd(j, b)
        PROVE  Told(approvals'[j]) = Told(approvals[j]) /\ IsEnd(j, b)'
    <3>1. CASE j = i
      BY <1>2, <1>3, <2>2, <3>1, NoRowIsNoRow DEF IsEnd, Exists, Told
    <3>2. CASE j # i
      BY <1>1, <2>2, <3>2 DEF IsEnd, Exists, Others
    <3> QED BY <3>1, <3>2
  <2> QED BY <2>1, <2>2, SameEnd
<1> QED BY <1>4 DEF Bar

LEMMA StepMaps ==
  ASSUME Shape, ChainInv, ScanKnows, [Next]_vars
  PROVE  Lifecycle!Next \/ Bar' = Bar
<1>1. RowStep /\ EndsTell /\ EndsTell'
  BY RowEffects, ChainTellsNext
<1>2. CASE approvals' = approvals
  <2>1. ASSUME NEW b \in Actions PROVE ChainOf(b)' = ChainOf(b)
    BY <1>2 DEF ChainOf, RowsOf, Tail, Exists
  <2> QED BY <2>1 DEF Bar
<1>3. CASE \E a \in Actions : Opened(a)
  BY <1>1, <1>3, OpenedMaps DEF Lifecycle!Next
<1>4. CASE \E i \in Ids, r \in Requests : Decided(i, r)
  BY <1>1, <1>4, DecidedMaps DEF Lifecycle!Next
<1>5. CASE \E i \in Ids, new \in FreshIds : Hopped(i, new)
  BY <1>1, <1>5, HoppedMaps DEF Lifecycle!Next
<1>6. CASE \E i \in Ids : Expired(i)
  BY <1>1, <1>6, ExpiredMaps DEF Lifecycle!Next
<1>7. CASE \E i \in Ids : Aged(i)
  BY <1>1, <1>7, AgedMaps
<1> QED BY <1>1, <1>2, <1>3, <1>4, <1>5, <1>6, <1>7 DEF RowStep

LEMMA InitMaps == Init => Lifecycle!Init
<1> SUFFICES ASSUME Init PROVE Lifecycle!Init
  OBVIOUS
<1>1. ASSUME NEW a \in Actions PROVE ChainOf(a) = Lifecycle!Unopened
  <2>1. ~Exists(a)
    BY DEF Init, Exists, Ids
  <2>2. EndsTell
    BY ShapeInit, ChainInit, ChainTells
  <2> QED BY <2>1, <2>2 DEF EndsTell
<1> QED BY <1>1 DEF Lifecycle!Init

\* The table of approvals implements the abstract approval, for any number of
\* actions, requests, supervisors and faults: each action is opened once at the
\* tier it asked for, climbs the chain one tier at a time, and is closed once
\* and for good, by a person or by the deadline of the last tier that has one.
THEOREM TableImplementsLifecycle == Spec => ImplementsLifecycle
<1>1. Shape /\ ChainInv /\ ScanKnows /\ [Next]_vars
        => [Lifecycle!Next]_[a \in Actions |-> ChainOf(a)]
  BY StepMaps DEF Bar
<1> QED
  BY <1>1, InitMaps, ShapeAlways, ChainAlways, ScanKnowsAlways, PTL
     DEF Spec, ImplementsLifecycle, Lifecycle!Spec
=============================================================================
