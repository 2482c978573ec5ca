-------------------------- MODULE AuditOutboxProofs --------------------------
(***************************************************************************)
(* Theorems about AuditOutbox, for every set of records and replicas, any  *)
(* number of attempts and faults, and whatever becomes of a publish that   *)
(* raised.                                                                 *)
(*                                                                         *)
(* TypeOK is inductive.  What ties the stream to the table is not: it      *)
(* needs that a writer past its INSERT has a recorded record (WriterKnows) *)
(* and that a loop about to mark a row has seen it stored (SentIsStored).  *)
(* The bound on attempts counts the loops that may still add one.  The     *)
(* bound on copies counts those that have a copy which is no failure yet,  *)
(* and, once the row is marked, those that fetched it before.              *)
(***************************************************************************)
EXTENDS AuditOutbox, FiniteSetTheorems, TLAPS

-----------------------------------------------------------------------------
(* What the steps do to a row, to a loop and to the stream, field by field *)

\* Loop k now has this batch, row in hand and outcome; the others are as before.
LoopBecomes(k, batch, row, sent) ==
  /\ retry' \in [Replicas -> Retry]
  /\ retry'[k].batch = batch /\ retry'[k].row = row /\ retry'[k].sent = sent
  /\ \A j \in Replicas \ {k} : retry'[j] = retry[j]

LEMMA LoopUpdate ==
  ASSUME TypeOK, NEW k \in Replicas, NEW loop \in Retry,
         retry' = [retry EXCEPT ![k] = loop]
  PROVE  LoopBecomes(k, loop.batch, loop.row, loop.sent)
BY DEF TypeOK, LoopBecomes

LEMMA DoneEffect ==
  ASSUME TypeOK, NEW k \in Replicas, Done(k)
  PROVE  LoopBecomes(k, retry[k].batch, None, FALSE)
<1> DEFINE cleared == [retry[k] EXCEPT !.row = None]
           loop == [cleared EXCEPT !.sent = FALSE]
<1>1. retry[k] \in Retry
  BY DEF TypeOK
<1>2. cleared \in Retry /\ cleared.batch = retry[k].batch /\ cleared.row = None
  BY <1>1 DEF Retry
<1> HIDE DEF cleared
<1>3. loop \in Retry /\ loop.batch = cleared.batch /\ loop.row = cleared.row
        /\ loop.sent = FALSE
  BY <1>2 DEF Retry
<1>4. retry' = [retry EXCEPT ![k] = loop]
  BY DEF Done, cleared
<1> HIDE DEF loop
<1> QED BY <1>2, <1>3, <1>4, LoopUpdate

LEMMA TakenFromEffect ==
  ASSUME TypeOK, NEW k \in Replicas, NEW r \in Records, NEW sent \in BOOLEAN,
         TakenFrom(k, r, sent)
  PROVE  LoopBecomes(k, retry[k].batch \ {r}, r, sent)
<1> DEFINE loop == [batch |-> retry[k].batch \ {r}, row |-> r, sent |-> sent]
<1>1. retry[k] \in Retry
  BY DEF TypeOK
<1>2. loop \in Retry
  BY <1>1 DEF Retry
<1>3. retry' = [retry EXCEPT ![k] = loop]
  BY DEF TakenFrom
<1> QED BY <1>2, <1>3, LoopUpdate

LEMMA SleepingEffect ==
  ASSUME TypeOK, NEW k \in Replicas, RetryFault(k)
  PROVE  LoopBecomes(k, {}, None, FALSE)
<1>1. Sleeping \in Retry
  BY DEF Sleeping, Retry
<1> QED BY <1>1, LoopUpdate DEF RetryFault, Sleeping

LEMMA SelectEffect ==
  ASSUME TypeOK, NEW k \in Replicas, SelectRows(k)
  PROVE  \E rows \in SUBSET Eligible : LoopBecomes(k, rows, None, FALSE)
<1>1. PICK rows \in SUBSET Eligible :
        retry' = [retry EXCEPT ![k] = [retry[k] EXCEPT !.batch = rows]]
  BY DEF SelectRows
<1> DEFINE loop == [retry[k] EXCEPT !.batch = rows]
<1>2. retry[k] \in Retry
  BY DEF TypeOK
<1>3. retry[k].row = None /\ retry[k].sent = FALSE
  BY DEF SelectRows, Sleeping
<1>4. loop \in Retry /\ loop.batch = rows /\ loop.row = None /\ loop.sent = FALSE
  BY <1>2, <1>3 DEF Retry, Eligible
<1>5. retry' = [retry EXCEPT ![k] = loop]
  BY <1>1
<1> HIDE DEF loop
<1>6. LoopBecomes(k, rows, None, FALSE)
  BY <1>4, <1>5, LoopUpdate
<1> QED BY <1>6

\* Row r of the table now reads so; the others are as before.
RowBecomes(r, attempts, published) ==
  /\ outbox' \in [Records -> Row \cup {NoRow}]
  /\ outbox'[r] \in Row
  /\ outbox'[r].attempts = attempts /\ outbox'[r].published = published
  /\ \A q \in Records \ {r} : outbox'[q] = outbox[q]

LEMMA RowUpdate ==
  ASSUME TypeOK, NEW r \in Records, NEW row \in Row,
         outbox' = [outbox EXCEPT ![r] = row]
  PROVE  RowBecomes(r, row.attempts, row.published)
BY DEF TypeOK, RowBecomes

LEMMA EnqueuedRow ==
  ASSUME TypeOK, NEW r \in Records, Enqueued(r)
  PROVE  outbox[r] \in Row
BY DEF TypeOK, Enqueued

LEMMA RowInHand ==
  ASSUME TypeOK, NEW k \in Replicas, retry[k].row # None
  PROVE  retry[k].row \in Records /\ outbox[retry[k].row] \in Row
<1>1. retry[k] \in Retry
  BY DEF TypeOK
<1>2. retry[k].row \in Records
  BY <1>1 DEF Retry
<1>3. Enqueued(retry[k].row)
  BY DEF TypeOK, Held
<1> QED BY <1>2, <1>3, EnqueuedRow

LEMMA EnqueueEffect ==
  ASSUME TypeOK, NEW r \in Records, Enqueue(r)
  PROVE  RowBecomes(r, 0, FALSE)
<1> DEFINE row == [attempts |-> 0, waiting |-> FALSE, published |-> FALSE]
<1>1. row \in Row
  BY DEF Row
<1> QED BY <1>1, RowUpdate DEF Enqueue

LEMMA MarkEffect ==
  ASSUME TypeOK, NEW k \in Replicas, MarkPublished(k)
  PROVE  RowBecomes(retry[k].row, outbox[retry[k].row].attempts, TRUE)
<1> DEFINE r == retry[k].row
           row == [outbox[r] EXCEPT !.published = TRUE]
<1>1. r \in Records /\ outbox[r] \in Row
  BY RowInHand DEF MarkPublished
<1>2. row \in Row /\ row.attempts = outbox[r].attempts /\ row.published = TRUE
  BY <1>1 DEF Row
<1>3. outbox' = [outbox EXCEPT ![r] = row]
  BY DEF MarkPublished
<1> HIDE DEF row
<1> QED BY <1>1, <1>2, <1>3, RowUpdate

LEMMA BumpEffect ==
  ASSUME TypeOK, NEW k \in Replicas, BumpFailure(k)
  PROVE  RowBecomes(retry[k].row, outbox[retry[k].row].attempts + 1,
                    outbox[retry[k].row].published)
<1> DEFINE r == retry[k].row
           counted == [outbox[r] EXCEPT !.attempts = outbox[r].attempts + 1]
           row == [counted EXCEPT !.waiting = TRUE]
<1>1. r \in Records /\ outbox[r] \in Row
  BY RowInHand DEF BumpFailure
<1>2. counted \in Row /\ counted.attempts = outbox[r].attempts + 1
        /\ counted.published = outbox[r].published
  BY <1>1 DEF Row
<1> HIDE DEF counted
<1>3. row \in Row /\ row.attempts = counted.attempts
        /\ row.published = counted.published
  BY <1>2 DEF Row
<1>4. outbox' = [outbox EXCEPT ![r] = row]
  BY DEF BumpFailure, counted
<1> HIDE DEF row
<1> QED BY <1>1, <1>2, <1>3, <1>4, RowUpdate

LEMMA BackoffEffect ==
  ASSUME TypeOK, NEW r \in Records, BackoffElapses(r)
  PROVE  RowBecomes(r, outbox[r].attempts, outbox[r].published)
<1> DEFINE row == [outbox[r] EXCEPT !.waiting = FALSE]
<1>1. outbox[r] \in Row
  BY EnqueuedRow DEF BackoffElapses
<1>2. row \in Row /\ row.attempts = outbox[r].attempts
        /\ row.published = outbox[r].published
  BY <1>1 DEF Row
<1>3. outbox' = [outbox EXCEPT ![r] = row]
  BY DEF BackoffElapses
<1> HIDE DEF row
<1> QED BY <1>2, <1>3, RowUpdate

\* The stream never loses a copy.
StreamGrows ==
  /\ stream' \in [Records -> Nat]
  /\ \A r \in Records : stream'[r] >= stream[r]

LEMMA SendEffect ==
  ASSUME TypeOK, NEW q \in Records, Send(q)
  PROVE  /\ StreamGrows
         /\ stream'[q] > 0
         /\ \A r \in Records \ {q} : stream'[r] = stream[r]
<1>1. /\ stream'[q] = stream[q] + 1
      /\ stream' \in [Records -> Nat]
      /\ \A r \in Records \ {q} : stream'[r] = stream[r]
  BY DEF TypeOK, Send
<1> QED BY <1>1 DEF TypeOK, StreamGrows

LEMMA SendFailsEffect ==
  ASSUME TypeOK, NEW q \in Records, SendFails(q)
  PROVE  /\ StreamGrows
         /\ \A r \in Records \ {q} : stream'[r] = stream[r]
<1>1. CASE Send(q)
  BY <1>1, SendEffect
<1>2. CASE UNCHANGED stream
  BY <1>2 DEF TypeOK, StreamGrows
<1> QED BY <1>1, <1>2 DEF SendFails

-----------------------------------------------------------------------------
(* Types *)

\* Rows stay in the table.
RowsStay ==
  /\ outbox' \in [Records -> Row \cup {NoRow}]
  /\ \A r \in Records : Enqueued(r) => Enqueued(r)'

LEMMA RowsStayOnUpdate ==
  ASSUME TypeOK, NEW r \in Records, NEW attempts, NEW published,
         RowBecomes(r, attempts, published)
  PROVE  RowsStay /\ Enqueued(r)'
BY NoRowIsNoRow DEF TypeOK, RowBecomes, RowsStay, Enqueued

LEMMA RowsStayOtherwise ==
  ASSUME TypeOK, UNCHANGED outbox
  PROVE  RowsStay
BY DEF TypeOK, RowsStay, Enqueued

\* The conjunct of TypeOK about the loops.
LoopsHoldRows ==
  \A k \in Replicas : /\ \A r \in Held(k) : Enqueued(r)
                      /\ retry[k].sent => retry[k].row # None

LEMMA LoopsKeepRows ==
  ASSUME TypeOK, RowsStay, UNCHANGED retry
  PROVE  retry' \in [Replicas -> Retry] /\ LoopsHoldRows'
<1>1. ASSUME NEW k \in Replicas, NEW r \in Held(k)'
      PROVE  Enqueued(r)'
  <2>1. r \in Held(k) /\ r \in Records
    BY <1>1 DEF TypeOK, Retry, Held
  <2> QED BY <2>1 DEF TypeOK, RowsStay
<1>2. ASSUME NEW k \in Replicas
      PROVE  (retry[k].sent => retry[k].row # None)'
  BY DEF TypeOK
<1> QED BY <1>1, <1>2 DEF TypeOK, LoopsHoldRows

LEMMA LoopTakesRows ==
  ASSUME TypeOK, RowsStay, NEW k \in Replicas, NEW batch, NEW row, NEW sent,
         LoopBecomes(k, batch, row, sent),
         \A r \in batch \cup ({row} \ {None}) : Enqueued(r),
         sent => row # None
  PROVE  retry' \in [Replicas -> Retry] /\ LoopsHoldRows'
<1>1. ASSUME NEW j \in Replicas, NEW r \in Held(j)'
      PROVE  Enqueued(r)'
  <2>1. r \in Records
    BY <1>1 DEF LoopBecomes, Retry, Held
  <2>2. Enqueued(r)
    BY <1>1 DEF LoopBecomes, Held, TypeOK
  <2> QED BY <2>1, <2>2 DEF RowsStay
<1>2. ASSUME NEW j \in Replicas
      PROVE  (retry[j].sent => retry[j].row # None)'
  BY DEF LoopBecomes, TypeOK
<1> QED BY <1>1, <1>2 DEF LoopBecomes, LoopsHoldRows

LEMMA InitType ==
  ASSUME Init
  PROVE  TypeOK
<1>1. Sleeping \in Retry /\ Sleeping.batch = {} /\ Sleeping.row = None
        /\ Sleeping.sent = FALSE
  BY DEF Sleeping, Retry
<1>2. ASSUME NEW k \in Replicas
      PROVE  Held(k) = {} /\ ~retry[k].sent
  BY <1>1 DEF Init, Held
<1>3. 0 \in 0..MaxFaults
  BY RetryConstants
<1> QED BY <1>1, <1>2, <1>3 DEF Init, TypeOK, Writer

LEMMA FaultType ==
  ASSUME TypeOK, Fault \/ UNCHANGED faults
  PROVE  faults' \in 0..MaxFaults
BY RetryConstants DEF TypeOK, Fault

LEMMA TypeStep ==
  ASSUME TypeOK, [Next]_vars
  PROVE  TypeOK'
<1>1. ASSUME NEW r \in Records, WriteStep(r)
      PROVE  TypeOK'
  <2>1. actions' \subseteq Records /\ writer' \in [Records -> Writer]
          /\ faults' \in 0..MaxFaults
    BY <1>1, FaultType
       DEF TypeOK, Writer, WriteStep, InsertAction, InsertFails, Publish,
           PublishFails, Enqueue, EnqueueFails, SubjectRefused, WriterDies
  <2>2. stream' \in [Records -> Nat]
    BY <1>1, SendEffect, SendFailsEffect
       DEF TypeOK, StreamGrows, WriteStep, InsertAction, InsertFails, Publish,
           PublishFails, Enqueue, EnqueueFails, SubjectRefused, WriterDies
  <2>3. RowsStay /\ UNCHANGED retry
    BY <1>1, EnqueueEffect, RowsStayOnUpdate, RowsStayOtherwise
       DEF WriteStep, InsertAction, InsertFails, Publish,
           PublishFails, Enqueue, EnqueueFails, SubjectRefused, WriterDies
  <2> QED BY <2>1, <2>2, <2>3, LoopsKeepRows DEF TypeOK, RowsStay, LoopsHoldRows
<1>2. ASSUME NEW r \in Records, BackoffElapses(r)
      PROVE  TypeOK'
  <2>1. RowsStay
    BY <1>2, BackoffEffect, RowsStayOnUpdate
  <2> QED BY <1>2, <2>1, LoopsKeepRows
          DEF BackoffElapses, TypeOK, RowsStay, LoopsHoldRows
<1>3. ASSUME NEW k \in Replicas, SelectRows(k)
      PROVE  TypeOK'
  <2>1. PICK rows \in SUBSET Eligible : LoopBecomes(k, rows, None, FALSE)
    BY <1>3, SelectEffect
  <2>2. RowsStay
    BY <1>3, RowsStayOtherwise DEF SelectRows
  <2>3. \A r \in rows \cup ({None} \ {None}) : Enqueued(r)
    BY DEF Eligible
  <2>4. retry' \in [Replicas -> Retry] /\ LoopsHoldRows'
    BY <2>1, <2>2, <2>3, LoopTakesRows
  <2> QED BY <1>3, <2>2, <2>4 DEF SelectRows, TypeOK, RowsStay, LoopsHoldRows
<1>4. ASSUME NEW k \in Replicas, NEW r \in Records, NEW sent \in BOOLEAN,
             NextRow(k, r), TakenFrom(k, r, sent), Send(r) \/ SendFails(r),
             UNCHANGED <<actions, outbox, writer, faults>>
      PROVE  TypeOK'
  <2>1. RowsStay
    BY <1>4, RowsStayOtherwise
  <2>2. \A q \in (retry[k].batch \ {r}) \cup ({r} \ {None}) : Enqueued(q)
    BY <1>4 DEF TypeOK, Held, NextRow
  <2>3. LoopBecomes(k, retry[k].batch \ {r}, r, sent)
    BY <1>4, TakenFromEffect
  <2>4. sent => r # None
    BY RetryConstants
  <2>5. retry' \in [Replicas -> Retry] /\ LoopsHoldRows'
    BY <2>1, <2>2, <2>3, <2>4, LoopTakesRows
  <2>6. stream' \in [Records -> Nat]
    BY <1>4, SendEffect, SendFailsEffect DEF StreamGrows
  <2> QED BY <1>4, <2>1, <2>5, <2>6 DEF TypeOK, RowsStay, LoopsHoldRows
<1>5. ASSUME NEW k \in Replicas, MarkPublished(k) \/ BumpFailure(k)
      PROVE  TypeOK'
  <2>1. retry[k].row \in Records
    BY <1>5, RowInHand DEF MarkPublished, BumpFailure
  <2>2. RowsStay
    BY <1>5, <2>1, MarkEffect, BumpEffect, RowsStayOnUpdate
  <2>3. LoopBecomes(k, retry[k].batch, None, FALSE)
    BY <1>5, DoneEffect DEF MarkPublished, BumpFailure
  <2>4. \A q \in retry[k].batch \cup ({None} \ {None}) : Enqueued(q)
    BY DEF TypeOK, Held
  <2>5. retry' \in [Replicas -> Retry] /\ LoopsHoldRows'
    BY <2>2, <2>3, <2>4, LoopTakesRows
  <2> QED BY <1>5, <2>2, <2>5
          DEF MarkPublished, BumpFailure, TypeOK, RowsStay, LoopsHoldRows
<1>6. ASSUME NEW k \in Replicas, RetryFault(k)
      PROVE  TypeOK'
  <2>1. RowsStay
    BY <1>6, RowsStayOtherwise DEF RetryFault
  <2>2. retry' \in [Replicas -> Retry] /\ LoopsHoldRows'
    BY <1>6, <2>1, SleepingEffect, LoopTakesRows
  <2>3. faults' \in 0..MaxFaults
    BY <1>6, FaultType DEF RetryFault
  <2> QED BY <1>6, <2>1, <2>2, <2>3 DEF RetryFault, TypeOK, RowsStay, LoopsHoldRows
<1>7. CASE UNCHANGED vars
  <2>1. retry' \in [Replicas -> Retry] /\ LoopsHoldRows'
    BY <1>7, RowsStayOtherwise, LoopsKeepRows DEF vars
  <2> QED BY <1>7, <2>1 DEF vars, TypeOK, LoopsHoldRows
<1> QED
  BY <1>1, <1>2, <1>3, <1>4, <1>5, <1>6, <1>7
     DEF Next, RetryRow, Republish, RepublishFails

\* Every variable keeps to the shape of its table, stream or process, and a
\* retry loop holds rows of the table only.
THEOREM TypeCorrect == Spec => []TypeOK
<1>1. Init => TypeOK
  BY InitType
<1>2. TypeOK /\ [Next]_vars => TypeOK'
  BY TypeStep
<1> QED BY <1>1, <1>2, PTL DEF Spec

-----------------------------------------------------------------------------
(* What reaches the stream and the outbox was recorded first *)

WriterKnows ==
  \A r \in Records : writer[r] \in {"inserted", "unpublished"} => r \in actions

ShippedRecorded ==
  \A r \in Records : stream[r] > 0 \/ Enqueued(r) => r \in actions

\* Where a copy, a row or a writer past its INSERT can come from in one step.
LEMMA Origins ==
  ASSUME TypeOK, WriterKnows, [Next]_vars, NEW q \in Records
  PROVE  /\ actions \subseteq actions'
         /\ stream'[q] > 0 =>
              stream[q] > 0 \/ writer[q] = "inserted" \/ Enqueued(q)
         /\ Enqueued(q)' => Enqueued(q) \/ writer[q] = "unpublished"
         /\ writer'[q] \in {"inserted", "unpublished"} => q \in actions'
<1>1. ASSUME NEW r \in Records, InsertAction(r) \/ InsertFails(r) \/ EnqueueFails(r)
                                \/ SubjectRefused(r) \/ WriterDies(r)
      PROVE  /\ actions \subseteq actions'
             /\ UNCHANGED <<stream, outbox>>
             /\ writer'[q] \in {"inserted", "unpublished"} =>
                  q \in actions'
  BY <1>1 DEF WriterKnows, InsertAction, InsertFails, EnqueueFails,
              SubjectRefused, WriterDies, TypeOK
<1>2. ASSUME NEW r \in Records, Publish(r) \/ PublishFails(r)
      PROVE  /\ stream'[q] > 0 => stream[q] > 0 \/ writer[q] = "inserted"
             /\ UNCHANGED <<actions, outbox>>
             /\ writer'[q] \in {"inserted", "unpublished"} => q \in actions
  BY <1>2, SendEffect, SendFailsEffect DEF WriterKnows, Publish, PublishFails, TypeOK
<1>3. ASSUME NEW r \in Records, Enqueue(r)
      PROVE  /\ UNCHANGED <<actions, stream>>
             /\ Enqueued(q)' => Enqueued(q) \/ writer[q] = "unpublished"
             /\ writer'[q] \in {"inserted", "unpublished"} => q \in actions
  BY <1>3 DEF WriterKnows, Enqueue, Enqueued, TypeOK
<1>4. ASSUME NEW r \in Records, BackoffElapses(r)
      PROVE  UNCHANGED <<actions, stream, writer>> /\ (Enqueued(q)' => Enqueued(q))
  BY <1>4 DEF BackoffElapses, Enqueued, TypeOK
<1>5. ASSUME NEW k \in Replicas, SelectRows(k) \/ RetryFault(k)
      PROVE  UNCHANGED <<actions, stream, outbox, writer>>
  BY <1>5 DEF SelectRows, RetryFault
<1>6. ASSUME NEW k \in Replicas, NEW r \in Records,
             Republish(k, r) \/ RepublishFails(k, r)
      PROVE  /\ UNCHANGED <<actions, outbox, writer>>
             /\ stream'[q] > 0 => stream[q] > 0 \/ Enqueued(q)
  BY <1>6, SendEffect, SendFailsEffect
     DEF Republish, RepublishFails, NextRow, TypeOK, Held
<1>7. ASSUME NEW k \in Replicas, MarkPublished(k) \/ BumpFailure(k)
      PROVE  UNCHANGED <<actions, stream, writer>> /\ (Enqueued(q)' => Enqueued(q))
  <2>1. retry[k].row \in Records /\ Enqueued(retry[k].row)
    BY <1>7, RowInHand DEF MarkPublished, BumpFailure, TypeOK, Held
  <2>2. q # retry[k].row => outbox'[q] = outbox[q]
    BY <1>7, MarkEffect, BumpEffect DEF RowBecomes
  <2>3. UNCHANGED <<actions, stream, writer>>
    BY <1>7 DEF MarkPublished, BumpFailure
  <2>4. Enqueued(q)' => Enqueued(q)
    BY <2>1, <2>2 DEF Enqueued
  <2> QED BY <2>3, <2>4
<1>8. CASE UNCHANGED vars
  BY <1>8 DEF vars, Enqueued, WriterKnows
<1> QED
  BY <1>1, <1>2, <1>3, <1>4, <1>5, <1>6, <1>7, <1>8
     DEF Next, WriteStep, RetryRow, Enqueued, WriterKnows

RecordedFirst == WriterKnows /\ ShippedRecorded

LEMMA RecordedFirstStep ==
  ASSUME TypeOK, RecordedFirst, [Next]_vars
  PROVE  RecordedFirst'
<1>1. ASSUME NEW q \in Records, writer'[q] \in {"inserted", "unpublished"}
      PROVE  q \in actions'
  BY <1>1, Origins DEF RecordedFirst
<1>2. ASSUME NEW q \in Records, stream'[q] > 0 \/ Enqueued(q)'
      PROVE  q \in actions'
  <2>1. stream[q] > 0 \/ Enqueued(q) \/ writer[q] \in {"inserted", "unpublished"}
    BY <1>2, Origins DEF RecordedFirst
  <2>2. q \in actions
    BY <2>1 DEF RecordedFirst, WriterKnows, ShippedRecorded
  <2> QED BY <2>2, Origins DEF RecordedFirst
<1> QED BY <1>1, <1>2 DEF RecordedFirst, WriterKnows, ShippedRecorded

\* D-56: nothing is on the stream, in the outbox or in a loop's hands before
\* it is in audit.actions.
THEOREM RecordedBeforeShipped == Spec => []OnlyRecordedShip
<1>1. Init => RecordedFirst
  BY DEF Init, RecordedFirst, WriterKnows, ShippedRecorded, Enqueued
<1>2. TypeOK /\ RecordedFirst /\ [Next]_vars => RecordedFirst'
  BY RecordedFirstStep
<1>3. TypeOK /\ RecordedFirst => OnlyRecordedShip
  BY DEF TypeOK, RecordedFirst, ShippedRecorded, OnlyRecordedShip
<1> QED BY <1>1, <1>2, <1>3, TypeCorrect, PTL DEF Spec

-----------------------------------------------------------------------------
(* Without a fault a recorded record is always somewhere *)

LEMMA NotDroppedStep ==
  ASSUME TypeOK, NoRecordDropped, [Next]_vars
  PROVE  NoRecordDropped'
<1> SUFFICES ASSUME NEW q \in actions' \ Streamless, faults' = 0
             PROVE  stream'[q] > 0 \/ Enqueued(q)'
                      \/ writer'[q] \in {"inserted", "unpublished"}
  BY DEF NoRecordDropped
<1> USE DEF NoRecordDropped
<1>1. ASSUME NEW r \in Records, InsertAction(r) \/ Publish(r) \/ PublishFails(r)
                                \/ Enqueue(r)
      PROVE  stream'[q] > 0 \/ Enqueued(q)'
               \/ writer'[q] \in {"inserted", "unpublished"}
  <2>1. CASE q = r
    <3>1. CASE InsertAction(r) \/ PublishFails(r)
      BY <2>1, <3>1 DEF InsertAction, PublishFails, TypeOK
    <3>2. CASE Publish(r)
      BY <2>1, <3>2, SendEffect DEF Publish
    <3>3. CASE Enqueue(r)
      BY <2>1, <3>3, EnqueueEffect, RowsStayOnUpdate
    <3> QED BY <1>1, <3>1, <3>2, <3>3
  <2>2. CASE q # r
    <3>1. q \in actions /\ faults = 0 /\ writer'[q] = writer[q]
      BY <1>1, <2>2 DEF InsertAction, Publish, PublishFails, Enqueue, TypeOK
    <3>2. q \in Records /\ stream'[q] >= stream[q] /\ stream'[q] \in Nat
            /\ stream[q] \in Nat
      BY <1>1, <3>1, SendEffect, SendFailsEffect
         DEF InsertAction, Publish, PublishFails, Enqueue, StreamGrows, TypeOK
    <3>3. Enqueued(q) => Enqueued(q)'
      BY <1>1, <3>2, EnqueueEffect, RowsStayOnUpdate
         DEF InsertAction, Publish, PublishFails, RowsStay, Enqueued
    <3>4. CASE stream[q] > 0
      BY <3>2, <3>4
    <3> QED BY <3>1, <3>3, <3>4
  <2> QED BY <2>1, <2>2
<1>2. ASSUME NEW r \in Records,
             InsertFails(r) \/ EnqueueFails(r) \/ WriterDies(r)
      PROVE  FALSE
  BY <1>2 DEF InsertFails, EnqueueFails, WriterDies, Fault, TypeOK
<1>3. ASSUME NEW k \in Replicas, RetryFault(k)
      PROVE  FALSE
  BY <1>3 DEF RetryFault, Fault, TypeOK
<1>4. ASSUME UNCHANGED <<actions, writer, faults>>, StreamGrows, RowsStay
      PROVE  stream'[q] > 0 \/ Enqueued(q)'
               \/ writer'[q] \in {"inserted", "unpublished"}
  BY <1>4 DEF StreamGrows, RowsStay, TypeOK
<1>5. ASSUME NEW r \in Records, BackoffElapses(r)
      PROVE  UNCHANGED <<actions, writer, faults, stream>> /\ RowsStay
  BY <1>5, BackoffEffect, RowsStayOnUpdate DEF BackoffElapses
<1>6. ASSUME NEW k \in Replicas, SelectRows(k)
      PROVE  UNCHANGED <<actions, writer, faults, stream>> /\ RowsStay
  BY <1>6, RowsStayOtherwise DEF SelectRows
<1>7. ASSUME NEW k \in Replicas, NEW r \in Records,
             Republish(k, r) \/ RepublishFails(k, r)
      PROVE  UNCHANGED <<actions, writer, faults>> /\ StreamGrows /\ RowsStay
  BY <1>7, SendEffect, SendFailsEffect, RowsStayOtherwise DEF Republish, RepublishFails
<1>8. ASSUME NEW k \in Replicas, MarkPublished(k) \/ BumpFailure(k)
      PROVE  UNCHANGED <<actions, writer, faults, stream>> /\ RowsStay
  <2>1. retry[k].row \in Records
    BY <1>8, RowInHand DEF MarkPublished, BumpFailure
  <2>2. RowsStay
    BY <1>8, <2>1, MarkEffect, BumpEffect, RowsStayOnUpdate
  <2>3. UNCHANGED <<actions, writer, faults, stream>>
    BY <1>8 DEF MarkPublished, BumpFailure
  <2> QED BY <2>2, <2>3
<1>9. CASE UNCHANGED vars
  BY <1>9 DEF vars, Enqueued
<1>10. ASSUME NEW r \in Records, SubjectRefused(r)
      PROVE  stream'[q] > 0 \/ Enqueued(q)'
               \/ writer'[q] \in {"inserted", "unpublished"}
  BY <1>10 DEF SubjectRefused, Enqueued, TypeOK
<1>11. UNCHANGED stream => StreamGrows
  BY DEF StreamGrows, TypeOK
<1> QED
  BY <1>1, <1>2, <1>3, <1>4, <1>5, <1>6, <1>7, <1>8, <1>9, <1>11, <1>10
     DEF Next, WriteStep, RetryRow, vars

\* As long as no process dies and no statement fails, a record that is in
\* audit.actions is on the stream, in the outbox or still with its writer.
THEOREM NothingDropped == Spec => []NoRecordDropped
<1>1. Init => NoRecordDropped
  BY DEF Init, NoRecordDropped
<1>2. TypeOK /\ NoRecordDropped /\ [Next]_vars => NoRecordDropped'
  BY NotDroppedStep
<1> QED BY <1>1, <1>2, TypeCorrect, PTL DEF Spec

-----------------------------------------------------------------------------
(* A row is marked published only when the stream has its record *)

SentIsStored ==
  \A k \in Replicas : retry[k].sent => stream[retry[k].row] > 0

StoredWhenMarked == SentIsStored /\ PublishedRowsShipped

\* Copies that are on the stream stay there.
LEMMA StoredStays ==
  ASSUME TypeOK, StreamGrows, NEW q \in Records, stream[q] > 0
  PROVE  stream'[q] > 0
BY DEF TypeOK, StreamGrows

LEMMA SentStays ==
  ASSUME TypeOK, SentIsStored, StreamGrows, UNCHANGED retry
  PROVE  SentIsStored'
<1>1. ASSUME NEW k \in Replicas, retry'[k].sent
      PROVE  stream'[retry'[k].row] > 0
  <2>1. retry[k].sent /\ retry[k].row # None /\ stream[retry[k].row] > 0
    BY <1>1 DEF SentIsStored, TypeOK
  <2>2. retry[k].row \in Records
    BY <2>1, RowInHand
  <2> QED BY <2>1, <2>2, StoredStays
<1> QED BY <1>1 DEF SentIsStored

LEMMA SentByOne ==
  ASSUME TypeOK, SentIsStored, StreamGrows, NEW k \in Replicas, NEW batch,
         NEW row, NEW sent, LoopBecomes(k, batch, row, sent),
         sent => stream'[row] > 0
  PROVE  SentIsStored'
<1>1. ASSUME NEW j \in Replicas \ {k}, retry'[j].sent
      PROVE  stream'[retry'[j].row] > 0
  <2>1. retry'[j] = retry[j]
    BY DEF LoopBecomes
  <2>2. retry[j].sent /\ retry[j].row # None /\ stream[retry[j].row] > 0
    BY <1>1, <2>1 DEF SentIsStored, TypeOK
  <2>3. retry[j].row \in Records
    BY <2>2, RowInHand
  <2> QED BY <2>1, <2>2, <2>3, StoredStays
<1>2. retry'[k].sent => stream'[retry'[k].row] > 0
  BY DEF LoopBecomes
<1> QED BY <1>1, <1>2 DEF SentIsStored

LEMMA PublishedStays ==
  ASSUME TypeOK, PublishedRowsShipped, StreamGrows, UNCHANGED outbox
  PROVE  PublishedRowsShipped'
<1>1. ASSUME NEW q \in Records, Enqueued(q)', outbox'[q].published
      PROVE  stream'[q] > 0
  BY <1>1, StoredStays DEF PublishedRowsShipped, Enqueued
<1> QED BY <1>1 DEF PublishedRowsShipped

LEMMA PublishedByOne ==
  ASSUME TypeOK, PublishedRowsShipped, UNCHANGED stream, NEW r \in Records,
         NEW attempts, NEW published, RowBecomes(r, attempts, published),
         published => stream[r] > 0
  PROVE  PublishedRowsShipped'
<1>1. ASSUME NEW q \in Records, Enqueued(q)', outbox'[q].published
      PROVE  stream'[q] > 0
  <2>1. CASE q = r
    BY <1>1, <2>1 DEF RowBecomes
  <2>2. CASE q # r
    BY <1>1, <2>2 DEF RowBecomes, PublishedRowsShipped, Enqueued
  <2> QED BY <2>1, <2>2
<1> QED BY <1>1 DEF PublishedRowsShipped

LEMMA StoredWhenMarkedStep ==
  ASSUME TypeOK, StoredWhenMarked, [Next]_vars
  PROVE  StoredWhenMarked'
<1> USE DEF StoredWhenMarked
<1>0. UNCHANGED stream => StreamGrows
  BY DEF StreamGrows, TypeOK
<1>1. ASSUME NEW r \in Records, WriteStep(r), ~Enqueue(r)
      PROVE  StoredWhenMarked'
  <2>1. UNCHANGED <<outbox, retry>> /\ StreamGrows
    BY <1>0, <1>1, SendEffect, SendFailsEffect
       DEF WriteStep, InsertAction, InsertFails, Publish, PublishFails,
           EnqueueFails, SubjectRefused, WriterDies
  <2> QED BY <2>1, SentStays, PublishedStays
<1>2. ASSUME NEW r \in Records, Enqueue(r)
      PROVE  StoredWhenMarked'
  <2>1. UNCHANGED <<stream, retry>> /\ StreamGrows
    BY <1>0, <1>2 DEF Enqueue
  <2> QED BY <1>2, <2>1, EnqueueEffect, SentStays, PublishedByOne
<1>3. ASSUME NEW r \in Records, BackoffElapses(r)
      PROVE  StoredWhenMarked'
  <2>1. UNCHANGED <<stream, retry>> /\ StreamGrows
    BY <1>0, <1>3 DEF BackoffElapses
  <2>2. RowBecomes(r, outbox[r].attempts, outbox[r].published)
    BY <1>3, BackoffEffect
  <2>3. outbox[r].published => stream[r] > 0
    BY <1>3 DEF BackoffElapses, PublishedRowsShipped
  <2>4. PublishedRowsShipped'
    BY <2>1, <2>2, <2>3, PublishedByOne
  <2> QED BY <2>1, <2>4, SentStays
<1>4. ASSUME NEW k \in Replicas, SelectRows(k) \/ RetryFault(k)
      PROVE  StoredWhenMarked'
  <2>1. UNCHANGED <<stream, outbox>> /\ StreamGrows
    BY <1>0, <1>4 DEF SelectRows, RetryFault
  <2>2. \E batch : LoopBecomes(k, batch, None, FALSE)
    BY <1>4, SelectEffect, SleepingEffect
  <2>3. SentIsStored'
    BY <2>1, <2>2, SentByOne
  <2> QED BY <2>1, <2>3, PublishedStays
<1>5. ASSUME NEW k \in Replicas, NEW r \in Records, Republish(k, r)
      PROVE  StoredWhenMarked'
  <2>1. UNCHANGED outbox /\ StreamGrows /\ stream'[r] > 0
    BY <1>5, SendEffect DEF Republish
  <2>2. LoopBecomes(k, retry[k].batch \ {r}, r, TRUE)
    BY <1>5, TakenFromEffect DEF Republish
  <2> QED BY <2>1, <2>2, SentByOne, PublishedStays
<1>6. ASSUME NEW k \in Replicas, NEW r \in Records, RepublishFails(k, r)
      PROVE  StoredWhenMarked'
  <2>1. UNCHANGED outbox /\ StreamGrows
    BY <1>6, SendFailsEffect DEF RepublishFails
  <2>2. LoopBecomes(k, retry[k].batch \ {r}, r, FALSE)
    BY <1>6, TakenFromEffect DEF RepublishFails
  <2> QED BY <2>1, <2>2, SentByOne, PublishedStays
<1>7. ASSUME NEW k \in Replicas, MarkPublished(k) \/ BumpFailure(k)
      PROVE  StoredWhenMarked'
  <2> DEFINE r == retry[k].row
  <2>1. r \in Records /\ Enqueued(r)
    BY <1>7, RowInHand DEF MarkPublished, BumpFailure, TypeOK, Held
  <2>2. UNCHANGED stream /\ StreamGrows
    BY <1>0, <1>7 DEF MarkPublished, BumpFailure
  <2>3. SentIsStored'
    BY <1>7, <2>2, DoneEffect, SentByOne DEF MarkPublished, BumpFailure
  <2>4. CASE MarkPublished(k)
    <3>1. RowBecomes(r, outbox[r].attempts, TRUE) /\ stream[r] > 0
      BY <2>4, MarkEffect DEF MarkPublished, SentIsStored
    <3> QED BY <2>1, <2>2, <2>3, <3>1, PublishedByOne
  <2>5. CASE BumpFailure(k)
    <3>1. RowBecomes(r, outbox[r].attempts + 1, outbox[r].published)
      BY <2>5, BumpEffect
    <3>2. outbox[r].published => stream[r] > 0
      BY <2>1 DEF PublishedRowsShipped
    <3>3. PublishedRowsShipped'
      BY <2>1, <2>2, <3>1, <3>2, PublishedByOne
    <3> QED BY <2>3, <3>3
  <2> QED BY <1>7, <2>4, <2>5
<1>8. CASE UNCHANGED vars
  BY <1>0, <1>8, SentStays, PublishedStays DEF vars
<1> QED
  BY <1>1, <1>2, <1>3, <1>4, <1>5, <1>6, <1>7, <1>8 DEF Next, WriteStep, RetryRow

\* However the replicas race and whatever fails, a row marked published has a
\* copy of its record on the stream.
THEOREM MarkedRowsShipped == Spec => []PublishedRowsShipped
<1>1. Init => StoredWhenMarked
  BY DEF Init, Sleeping, StoredWhenMarked, SentIsStored, PublishedRowsShipped, Enqueued
<1>2. TypeOK /\ StoredWhenMarked /\ [Next]_vars => StoredWhenMarked'
  BY StoredWhenMarkedStep
<1>3. StoredWhenMarked => PublishedRowsShipped
  BY DEF StoredWhenMarked
<1> QED BY <1>1, <1>2, <1>3, TypeCorrect, PTL DEF Spec

-----------------------------------------------------------------------------
(* Attempts: each loop that holds a row may still count one failure of it *)

Holders(r) == {k \in Replicas : r \in Held(k)}

\* The row in hand was taken out of the batch: a loop counts it once.
RowApart == \A k \in Replicas : retry[k].row \notin retry[k].batch

AttemptsRoom ==
  \A r \in Records : Enqueued(r) =>
    outbox[r].attempts + Cardinality(Holders(r)) < MaxAttempts + Cardinality(Replicas)

LEMMA HoldersBounded ==
  ASSUME NEW r \in Records
  PROVE  /\ Cardinality(Holders(r)) \in Nat /\ Cardinality(Holders(r)') \in Nat
         /\ Cardinality(Replicas) \in Nat
         /\ Cardinality(Holders(r)) <= Cardinality(Replicas)
         /\ Cardinality(Holders(r)') <= Cardinality(Replicas)
         /\ Holders(r)' \subseteq Holders(r) =>
              Cardinality(Holders(r)') <= Cardinality(Holders(r))
         /\ \A k \in Holders(r) : Holders(r)' \subseteq Holders(r) \ {k} =>
              Cardinality(Holders(r)') < Cardinality(Holders(r))
<1>1. Holders(r) \in SUBSET Replicas /\ Holders(r)' \in SUBSET Replicas
  BY DEF Holders
<1>2. /\ IsFiniteSet(Holders(r)) /\ IsFiniteSet(Holders(r)')
      /\ Cardinality(Holders(r)) <= Cardinality(Replicas)
      /\ Cardinality(Holders(r)') <= Cardinality(Replicas)
  BY <1>1, RetryConstants, FS_Subset
<1>3. /\ Cardinality(Holders(r)) \in Nat /\ Cardinality(Holders(r)') \in Nat
      /\ Cardinality(Replicas) \in Nat
  BY <1>2, RetryConstants, FS_CardinalityType
<1>4. Holders(r)' \subseteq Holders(r) =>
        Cardinality(Holders(r)') <= Cardinality(Holders(r))
  BY <1>2, FS_Subset
<1>5. ASSUME NEW k \in Holders(r), Holders(r)' \subseteq Holders(r) \ {k}
      PROVE  Cardinality(Holders(r)') < Cardinality(Holders(r))
  <2>1. IsFiniteSet(Holders(r) \ {k})
          /\ Cardinality(Holders(r) \ {k}) = Cardinality(Holders(r)) - 1
    BY <1>2, <1>5, FS_RemoveElement
  <2>2. Cardinality(Holders(r)') <= Cardinality(Holders(r) \ {k})
    BY <1>5, <2>1, FS_Subset
  <2> QED BY <1>3, <2>1, <2>2
<1> QED BY <1>2, <1>3, <1>4, <1>5

\* Nobody takes row r and no failure of it is counted.
LEMMA RoomStays ==
  ASSUME TypeOK, AttemptsRoom, NEW r \in Records, Enqueued(r),
         outbox'[r].attempts = outbox[r].attempts, Holders(r)' \subseteq Holders(r)
  PROVE  outbox'[r].attempts + Cardinality(Holders(r)')
           < MaxAttempts + Cardinality(Replicas)
<1>1. outbox[r].attempts \in Nat
  BY EnqueuedRow DEF Row
<1> QED BY <1>1, HoldersBounded, RetryConstants DEF AttemptsRoom

\* A row that passes the query's WHERE, or is new, has room for every replica.
LEMMA RoomForAll ==
  ASSUME NEW r \in Records, outbox'[r].attempts \in Nat,
         outbox'[r].attempts < MaxAttempts
  PROVE  outbox'[r].attempts + Cardinality(Holders(r)')
           < MaxAttempts + Cardinality(Replicas)
BY HoldersBounded, RetryConstants

\* A loop's batch and row in hand do not grow.
LEMMA HoldersShrink ==
  ASSUME NEW k \in Replicas, NEW batch, NEW row, NEW sent,
         LoopBecomes(k, batch, row, sent),
         batch \cup ({row} \ {None}) \subseteq Held(k), NEW r \in Records
  PROVE  Holders(r)' \subseteq Holders(r)
BY DEF LoopBecomes, Holders, Held

LEMMA RowApartStep ==
  ASSUME TypeOK, RowApart, [Next]_vars
  PROVE  RowApart'
<1>1. ASSUME NEW k \in Replicas, NEW batch, NEW row, NEW sent,
             LoopBecomes(k, batch, row, sent), row \notin batch
      PROVE  RowApart'
  BY <1>1 DEF LoopBecomes, RowApart
<1>2. \A k \in Replicas : None \notin retry[k].batch
  BY RetryConstants DEF TypeOK, Retry
<1>3. ASSUME NEW k \in Replicas, SelectRows(k)
      PROVE  RowApart'
  <2>1. PICK rows \in SUBSET Eligible : LoopBecomes(k, rows, None, FALSE)
    BY <1>3, SelectEffect
  <2>2. None \notin rows
    BY RetryConstants DEF Eligible
  <2> QED BY <1>1, <2>1, <2>2
<1>4. ASSUME NEW k \in Replicas, RetryFault(k)
      PROVE  RowApart'
  BY <1>1, <1>4, SleepingEffect
<1>5. ASSUME NEW k \in Replicas, MarkPublished(k) \/ BumpFailure(k)
      PROVE  RowApart'
  BY <1>1, <1>2, <1>5, DoneEffect DEF MarkPublished, BumpFailure
<1>6. ASSUME NEW k \in Replicas, NEW r \in Records,
             Republish(k, r) \/ RepublishFails(k, r)
      PROVE  RowApart'
  <2>1. \E sent \in BOOLEAN : LoopBecomes(k, retry[k].batch \ {r}, r, sent)
    BY <1>6, TakenFromEffect DEF Republish, RepublishFails
  <2> QED BY <1>1, <2>1
<1>7. CASE UNCHANGED retry
  BY <1>7 DEF RowApart
<1> QED
  BY <1>3, <1>4, <1>5, <1>6, <1>7
     DEF Next, WriteStep, RetryRow, InsertAction, InsertFails, Publish, PublishFails,
         Enqueue, EnqueueFails, SubjectRefused, WriterDies, BackoffElapses, vars

LEMMA AttemptsRoomStep ==
  ASSUME TypeOK, RowApart, AttemptsRoom, [Next]_vars
  PROVE  AttemptsRoom'
<1> SUFFICES ASSUME NEW q \in Records, Enqueued(q)'
             PROVE  outbox'[q].attempts + Cardinality(Holders(q)')
                      < MaxAttempts + Cardinality(Replicas)
  BY DEF AttemptsRoom
<1> DEFINE Room == outbox'[q].attempts + Cardinality(Holders(q)')
                     < MaxAttempts + Cardinality(Replicas)
<1>1. CASE UNCHANGED <<outbox, retry>>
  <2>1. Enqueued(q) /\ Holders(q)' = Holders(q) /\ outbox'[q] = outbox[q]
    BY <1>1 DEF Enqueued, Holders, Held
  <2> QED BY <2>1, RoomStays
<1>2. ASSUME NEW r \in Records, Enqueue(r)
      PROVE  Room
  <2>1. RowBecomes(r, 0, FALSE) /\ Holders(q)' = Holders(q)
    BY <1>2, EnqueueEffect DEF Enqueue, Holders, Held
  <2>2. CASE q = r
    BY <2>1, <2>2, RoomForAll, RetryConstants DEF RowBecomes
  <2>3. CASE q # r
    BY <2>1, <2>3, RoomStays DEF RowBecomes, Enqueued
  <2> QED BY <2>2, <2>3
<1>3. ASSUME NEW r \in Records, BackoffElapses(r)
      PROVE  Room
  <2>1. /\ RowBecomes(r, outbox[r].attempts, outbox[r].published)
        /\ Holders(q)' = Holders(q)
    BY <1>3, BackoffEffect DEF BackoffElapses, Holders, Held
  <2>2. Enqueued(q) /\ outbox'[q].attempts = outbox[q].attempts
    BY <1>3, <2>1 DEF BackoffElapses, RowBecomes, Enqueued
  <2> QED BY <2>1, <2>2, RoomStays
<1>4. ASSUME NEW k \in Replicas, SelectRows(k)
      PROVE  Room
  <2>1. PICK rows \in SUBSET Eligible : LoopBecomes(k, rows, None, FALSE)
    BY <1>4, SelectEffect
  <2>2. UNCHANGED outbox /\ Enqueued(q)
    BY <1>4 DEF SelectRows, Enqueued
  <2>3. CASE q \in rows
    <3>1. outbox'[q].attempts < MaxAttempts
      BY <2>2, <2>3 DEF Eligible
    <3>2. outbox'[q].attempts \in Nat
      BY <2>2, EnqueuedRow DEF Row
    <3> QED BY <3>1, <3>2, RoomForAll
  <2>4. CASE q \notin rows
    <3>1. Holders(q)' \subseteq Holders(q)
      BY <2>1, <2>4 DEF LoopBecomes, Holders, Held
    <3> QED BY <2>2, <3>1, RoomStays
  <2> QED BY <2>3, <2>4
<1>5. ASSUME NEW k \in Replicas, NEW r \in Records,
             Republish(k, r) \/ RepublishFails(k, r)
      PROVE  Room
  <2>1. PICK sent \in BOOLEAN : LoopBecomes(k, retry[k].batch \ {r}, r, sent)
    BY <1>5, TakenFromEffect DEF Republish, RepublishFails
  <2>2. UNCHANGED outbox /\ Enqueued(q)
    BY <1>5 DEF Republish, RepublishFails, Enqueued
  <2>3. (retry[k].batch \ {r}) \cup ({r} \ {None}) \subseteq Held(k)
    BY <1>5 DEF Republish, RepublishFails, NextRow, Held
  <2>4. Holders(q)' \subseteq Holders(q)
    BY <2>1, <2>3, HoldersShrink
  <2> QED BY <2>2, <2>4, RoomStays
<1>6. ASSUME NEW k \in Replicas, RetryFault(k)
      PROVE  Room
  <2>1. UNCHANGED outbox /\ Enqueued(q)
    BY <1>6 DEF RetryFault, Enqueued
  <2>2. Holders(q)' \subseteq Holders(q)
    BY <1>6, SleepingEffect DEF LoopBecomes, Holders, Held
  <2> QED BY <2>1, <2>2, RoomStays
<1>7. ASSUME NEW k \in Replicas, MarkPublished(k) \/ BumpFailure(k)
      PROVE  Room
  <2> DEFINE r == retry[k].row
  <2>1. r \in Records /\ r # None /\ outbox[r] \in Row /\ Enqueued(r)
    BY <1>7, RowInHand DEF MarkPublished, BumpFailure, TypeOK, Held
  <2>2. LoopBecomes(k, retry[k].batch, None, FALSE)
    BY <1>7, DoneEffect DEF MarkPublished, BumpFailure
  <2>3. Holders(q)' \subseteq Holders(q)
    BY <2>2 DEF LoopBecomes, Holders, Held
  <2>4. CASE q # r \/ MarkPublished(k)
    <3>1. Enqueued(q) /\ outbox'[q].attempts = outbox[q].attempts
      BY <1>7, <2>1, <2>4, MarkEffect, BumpEffect DEF RowBecomes, Enqueued
    <3> QED BY <2>3, <3>1, RoomStays
  <2>5. CASE q = r /\ BumpFailure(k)
    <3>1. outbox'[q].attempts = outbox[q].attempts + 1 /\ outbox[q].attempts \in Nat
      BY <2>1, <2>5, BumpEffect DEF RowBecomes, Row
    <3>2. k \in Holders(q)
      BY <2>1, <2>5 DEF Holders, Held
    <3>3. k \notin Holders(q)'
      BY <2>2, <2>5 DEF LoopBecomes, Holders, Held, RowApart
    <3>4. Cardinality(Holders(q)') < Cardinality(Holders(q))
      BY <2>3, <3>2, <3>3, HoldersBounded
    <3>5. outbox[q].attempts + Cardinality(Holders(q))
            < MaxAttempts + Cardinality(Replicas)
      BY <2>1, <2>5 DEF AttemptsRoom
    <3> QED BY <3>1, <3>4, <3>5, HoldersBounded, RetryConstants
  <2> QED BY <1>7, <2>4, <2>5
<1> QED
  BY <1>1, <1>2, <1>3, <1>4, <1>5, <1>6, <1>7
     DEF Next, WriteStep, RetryRow, InsertAction, InsertFails, Publish, PublishFails,
         EnqueueFails, SubjectRefused, WriterDies, vars

\* No row collects more than MaxAttempts - 1 failures plus one for each replica
\* that had fetched it by then, whatever the number of replicas.
THEOREM AttemptsStayBounded == Spec => []AttemptsBounded
<1>1. Init => RowApart /\ AttemptsRoom
  BY DEF Init, Sleeping, RowApart, AttemptsRoom, Enqueued
<1>2. TypeOK /\ RowApart /\ AttemptsRoom /\ [Next]_vars => RowApart' /\ AttemptsRoom'
  BY RowApartStep, AttemptsRoomStep
<1>3. TypeOK /\ AttemptsRoom => AttemptsBounded
  <2> SUFFICES ASSUME TypeOK, AttemptsRoom, NEW r \in Records, Enqueued(r)
               PROVE  outbox[r].attempts < MaxAttempts + Cardinality(Replicas)
    BY DEF AttemptsBounded
  <2>1. outbox[r].attempts \in Nat
    BY EnqueuedRow DEF Row
  <2> QED BY <2>1, HoldersBounded, RetryConstants DEF AttemptsRoom
<1> QED BY <1>1, <1>2, <1>3, TypeCorrect, PTL DEF Spec

\* The four together: whatever the stream, the loops and the processes do, the
\* table comes first and what it holds is shipped or can be accounted for.
THEOREM RecordsAlwaysShip == Spec => []RecordsShip
BY RecordedBeforeShipped, NothingDropped, MarkedRowsShipped, AttemptsStayBounded, PTL
   DEF RecordsShip


-----------------------------------------------------------------------------
(* Copies: a loop that has a row in hand may have added one copy that is   *)
(* not counted as a failure yet; a loop that fetched a row before it was   *)
(* marked will add one after.                                              *)

Carriers(r) == {k \in Replicas : retry[k].row = r}

Fetchers(r) == {k \in Replicas : r \in retry[k].batch}

\* Where the copies of a record come from before its row is in the table.
WriterCopies ==
  \A r \in Records :
    /\ Enqueued(r) => writer[r] = "returned"
    /\ writer[r] \in {"idle", "inserted"} => stream[r] = 0
    /\ ~Enqueued(r) => stream[r] <= 1

UnmarkedCopies(r) ==
  Enqueued(r) /\ ~outbox[r].published =>
    stream[r] <= 1 + outbox[r].attempts + faults + Cardinality(Carriers(r))

MarkedCopies(r) ==
  Enqueued(r) /\ outbox[r].published =>
    stream[r] + Cardinality(Fetchers(r))
      <= 1 + outbox[r].attempts + faults + Cardinality(Replicas)

CopiesRoom == \A r \in Records : UnmarkedCopies(r) /\ MarkedCopies(r)

\* Sets of replicas are counted like numbers.
LEMMA Counting ==
  ASSUME NEW S \in SUBSET Replicas
  PROVE  /\ IsFiniteSet(S) /\ Cardinality(S) \in Nat /\ Cardinality(Replicas) \in Nat
         /\ Cardinality(S) <= Cardinality(Replicas)
         /\ \A k \in S : Cardinality(S \ {k}) = Cardinality(S) - 1
         /\ \A k \in Replicas \ S : Cardinality(S \cup {k}) = Cardinality(S) + 1
         /\ \A T \in SUBSET Replicas :
              T \cap S = {} => Cardinality(S) + Cardinality(T) <= Cardinality(Replicas)
<1>1. /\ IsFiniteSet(Replicas) /\ IsFiniteSet(S)
      /\ Cardinality(S) <= Cardinality(Replicas)
  BY RetryConstants, FS_Subset
<1>2. Cardinality(S) \in Nat /\ Cardinality(Replicas) \in Nat
  BY <1>1, FS_CardinalityType
<1>3. \A k \in S : Cardinality(S \ {k}) = Cardinality(S) - 1
  BY <1>1, FS_RemoveElement
<1>4. \A k \in Replicas \ S : Cardinality(S \cup {k}) = Cardinality(S) + 1
  BY <1>1, FS_AddElement
<1>5. ASSUME NEW T \in SUBSET Replicas, T \cap S = {}
      PROVE  Cardinality(S) + Cardinality(T) <= Cardinality(Replicas)
  <2>1. IsFiniteSet(T) /\ Cardinality(T) \in Nat
    BY <1>1, FS_Subset, FS_CardinalityType
  <2>2. Cardinality(S \cup T)
          = Cardinality(S) + Cardinality(T) - Cardinality(S \cap T)
    BY <1>1, <2>1, FS_Union
  <2>3. S \cap T = {} /\ S \cup T \in SUBSET Replicas
    BY <1>5
  <2>4. Cardinality(S \cap T) = 0
    BY <2>3, FS_EmptySet
  <2>5. Cardinality(S \cup T) <= Cardinality(Replicas)
    BY <1>1, <2>3, FS_Subset
  <2> QED BY <1>2, <2>1, <2>2, <2>4, <2>5
<1> QED BY <1>1, <1>2, <1>3, <1>4, <1>5

\* The loops that carry or wait for record q, once loop k reads so.
LEMMA LoopCounts ==
  ASSUME NEW k \in Replicas, NEW batch, NEW row, NEW sent,
         LoopBecomes(k, batch, row, sent), NEW q \in Records
  PROVE  /\ row = q => Carriers(q)' = Carriers(q) \cup {k}
         /\ row # q => Carriers(q)' = Carriers(q) \ {k}
         /\ q \in batch => Fetchers(q)' = Fetchers(q) \cup {k}
         /\ q \notin batch => Fetchers(q)' = Fetchers(q) \ {k}
BY DEF LoopBecomes, Carriers, Fetchers

LEMMA CountsAreNat ==
  ASSUME TypeOK, NEW q \in Records
  PROVE  /\ Carriers(q) \in SUBSET Replicas /\ Carriers(q)' \in SUBSET Replicas
         /\ Fetchers(q) \in SUBSET Replicas /\ Fetchers(q)' \in SUBSET Replicas
         /\ Cardinality(Carriers(q)) \in Nat /\ Cardinality(Carriers(q)') \in Nat
         /\ Cardinality(Fetchers(q)) \in Nat /\ Cardinality(Fetchers(q)') \in Nat
         /\ Cardinality(Replicas) \in Nat
         /\ stream[q] \in Nat /\ faults \in Nat
         /\ Enqueued(q) => outbox[q].attempts \in Nat /\ outbox[q].published \in BOOLEAN
<1>1. /\ Carriers(q) \in SUBSET Replicas /\ Carriers(q)' \in SUBSET Replicas
      /\ Fetchers(q) \in SUBSET Replicas /\ Fetchers(q)' \in SUBSET Replicas
  BY DEF Carriers, Fetchers
<1>2. stream[q] \in Nat /\ faults \in Nat
  BY RetryConstants DEF TypeOK
<1>3. Enqueued(q) => outbox[q].attempts \in Nat /\ outbox[q].published \in BOOLEAN
  BY EnqueuedRow DEF Row
<1> QED BY <1>1, <1>2, <1>3, Counting

\* A send is one copy of one record; a failed one at most that.
LEMMA SendCounts ==
  ASSUME TypeOK, NEW q \in Records, Send(q) \/ SendFails(q)
  PROVE  /\ stream'[q] \in Nat /\ stream'[q] <= stream[q] + 1
         /\ \A r \in Records \ {q} : stream'[r] = stream[r]
<1>1. CASE Send(q)
  BY <1>1 DEF TypeOK, Send
<1>2. CASE UNCHANGED stream
  BY <1>2 DEF TypeOK
<1> QED BY <1>1, <1>2 DEF SendFails

LEMMA WriterCopiesStep ==
  ASSUME TypeOK, WriterCopies, [Next]_vars
  PROVE  WriterCopies'
<1>1. ASSUME NEW r \in Records, WriteStep(r), ~Enqueue(r), ~Publish(r), ~PublishFails(r)
      PROVE  WriterCopies'
  BY <1>1 DEF WriterCopies, TypeOK, Writer, Enqueued, WriteStep, InsertAction,
              InsertFails, EnqueueFails, SubjectRefused, WriterDies
<1>2. ASSUME NEW r \in Records, Publish(r) \/ PublishFails(r)
      PROVE  WriterCopies'
  <2>1. /\ stream[r] = 0 /\ stream'[r] \in Nat /\ stream'[r] <= stream[r] + 1
        /\ \A q \in Records \ {r} : stream'[q] = stream[q]
    BY <1>2, SendCounts DEF WriterCopies, Publish, PublishFails
  <2>2. /\ UNCHANGED outbox /\ ~Enqueued(r)
        /\ writer'[r] \in {"returned", "unpublished"}
        /\ \A q \in Records \ {r} : writer'[q] = writer[q]
    BY <1>2 DEF WriterCopies, TypeOK, Publish, PublishFails
  <2> QED BY <2>1, <2>2 DEF WriterCopies, Enqueued
<1>3. ASSUME NEW r \in Records, Enqueue(r)
      PROVE  WriterCopies'
  <2>1. RowBecomes(r, 0, FALSE)
    BY <1>3, EnqueueEffect
  <2> QED BY <1>3, <2>1 DEF WriterCopies, TypeOK, Enqueue, RowBecomes, Enqueued
<1>4. ASSUME RowsStay, UNCHANGED <<stream, writer>>,
             \A q \in Records : Enqueued(q)' => Enqueued(q)
      PROVE  WriterCopies'
  BY <1>4 DEF WriterCopies, RowsStay, Enqueued
<1>5. ASSUME NEW r \in Records, BackoffElapses(r)
      PROVE  WriterCopies'
  <2>1. RowsStay /\ \A q \in Records : Enqueued(q)' => Enqueued(q)
    BY <1>5, BackoffEffect, RowsStayOnUpdate DEF RowBecomes, BackoffElapses, Enqueued
  <2> QED BY <1>4, <1>5, <2>1 DEF BackoffElapses
<1>6. ASSUME NEW k \in Replicas, MarkPublished(k) \/ BumpFailure(k)
      PROVE  WriterCopies'
  <2>1. retry[k].row \in Records /\ Enqueued(retry[k].row)
    BY <1>6, RowInHand DEF MarkPublished, BumpFailure, TypeOK, Held
  <2>2. RowsStay
    BY <1>6, <2>1, MarkEffect, BumpEffect, RowsStayOnUpdate
  <2>3. \A q \in Records : Enqueued(q)' => Enqueued(q)
    BY <1>6, <2>1, MarkEffect, BumpEffect DEF RowBecomes, Enqueued
  <2> QED BY <1>4, <1>6, <2>2, <2>3 DEF MarkPublished, BumpFailure
<1>7. ASSUME NEW k \in Replicas, NEW r \in Records,
             Republish(k, r) \/ RepublishFails(k, r)
      PROVE  WriterCopies'
  <2>1. Enqueued(r) /\ UNCHANGED <<outbox, writer>>
    BY <1>7 DEF Republish, RepublishFails, NextRow, TypeOK, Held
  <2>2. \A q \in Records \ {r} : stream'[q] = stream[q]
    BY <1>7, SendCounts DEF Republish, RepublishFails
  <2> QED BY <2>1, <2>2 DEF WriterCopies, Enqueued
<1>8. CASE UNCHANGED <<stream, outbox, writer>>
  BY <1>8 DEF WriterCopies, Enqueued
<1> QED
  BY <1>1, <1>2, <1>3, <1>5, <1>6, <1>7, <1>8
     DEF Next, RetryRow, SelectRows, RetryFault, vars

\* Nothing is sent, and no loop lets go of row q or fetches it anew; a failure
\* more or a fault more only leaves more room.
LEMMA CopiesStay ==
  ASSUME TypeOK, NEW q \in Records, UnmarkedCopies(q), MarkedCopies(q), Enqueued(q),
         stream'[q] = stream[q], faults' \in Nat, faults' >= faults,
         outbox'[q].attempts = outbox[q].attempts,
         outbox'[q].published = outbox[q].published,
         Cardinality(Carriers(q)') + faults' >= Cardinality(Carriers(q)) + faults,
         outbox[q].published => Cardinality(Fetchers(q)') <= Cardinality(Fetchers(q))
  PROVE  UnmarkedCopies(q)' /\ MarkedCopies(q)'
<1>1. UnmarkedCopies(q)'
  BY CountsAreNat DEF UnmarkedCopies
<1>2. MarkedCopies(q)'
  BY CountsAreNat DEF MarkedCopies
<1> QED BY <1>1, <1>2

LEMMA CopiesRoomStep ==
  ASSUME TypeOK, RowApart, WriterCopies, CopiesRoom, [Next]_vars
  PROVE  CopiesRoom'
<1> SUFFICES ASSUME NEW q \in Records, Enqueued(q)'
             PROVE  UnmarkedCopies(q)' /\ MarkedCopies(q)'
  BY DEF CopiesRoom, UnmarkedCopies, MarkedCopies
<1> DEFINE Room == UnmarkedCopies(q)' /\ MarkedCopies(q)'
<1>0. UnmarkedCopies(q) /\ MarkedCopies(q)
  BY DEF CopiesRoom
<1>a. faults' \in Nat /\ faults' >= faults
  <2>1. faults \in Nat
    BY CountsAreNat
  <2>2. Fault \/ UNCHANGED faults
    BY DEF Next, WriteStep, RetryRow, InsertAction, InsertFails, Publish, PublishFails,
           Enqueue, EnqueueFails, SubjectRefused, WriterDies, SelectRows, Republish,
           RepublishFails, MarkPublished, BumpFailure, RetryFault, BackoffElapses, vars
  <2> QED BY <2>1, <2>2 DEF Fault
<1>1. CASE UNCHANGED <<outbox, retry>>
  <2>1. /\ Enqueued(q) /\ outbox'[q] = outbox[q]
        /\ Carriers(q)' = Carriers(q) /\ Fetchers(q)' = Fetchers(q)
    BY <1>1 DEF Enqueued, Carriers, Fetchers
  <2>2. stream'[q] = stream[q]
    <3>1. writer[q] = "returned"
      BY <2>1 DEF WriterCopies
    <3>2. ASSUME NEW r \in Records, Publish(r) \/ PublishFails(r)
          PROVE  stream'[q] = stream[q]
      BY <3>1, <3>2, SendCounts DEF Publish, PublishFails
    <3>3. ASSUME NEW r \in Records, NEW k \in Replicas,
                 Republish(k, r) \/ RepublishFails(k, r)
          PROVE  FALSE
      <4>1. \E sent \in BOOLEAN : LoopBecomes(k, retry[k].batch \ {r}, r, sent)
        BY <3>3, TakenFromEffect DEF Republish, RepublishFails
      <4> QED BY <1>1, <3>3, <4>1 DEF Republish, RepublishFails, NextRow, LoopBecomes
    <3> QED
      BY <3>2, <3>3
         DEF Next, WriteStep, RetryRow, InsertAction, InsertFails, Enqueue,
             EnqueueFails, SubjectRefused, WriterDies, SelectRows, MarkPublished,
             BumpFailure, RetryFault, BackoffElapses, vars
  <2> QED BY <1>0, <1>a, <2>1, <2>2, CountsAreNat, CopiesStay
<1>2. ASSUME NEW r \in Records, Enqueue(r)
      PROVE  Room
  <2>1. /\ RowBecomes(r, 0, FALSE) /\ UNCHANGED <<stream, faults>>
        /\ Carriers(q)' = Carriers(q) /\ Fetchers(q)' = Fetchers(q)
    BY <1>2, EnqueueEffect DEF Enqueue, Carriers, Fetchers
  <2>2. CASE q = r
    <3>1. /\ stream'[q] <= 1 /\ outbox'[q].attempts = 0
          /\ ~outbox'[q].published
      BY <1>2, <2>1, <2>2 DEF WriterCopies, Enqueue, RowBecomes
    <3>2. UnmarkedCopies(q)'
      BY <1>a, <2>1, <3>1, CountsAreNat DEF UnmarkedCopies
    <3>3. MarkedCopies(q)'
      BY <3>1 DEF MarkedCopies
    <3> QED BY <3>2, <3>3
  <2>3. CASE q # r
    <3>1. Enqueued(q) /\ outbox'[q] = outbox[q]
      BY <2>1, <2>3 DEF RowBecomes, Enqueued
    <3> QED BY <1>0, <1>a, <2>1, <3>1, CountsAreNat, CopiesStay
  <2> QED BY <2>2, <2>3
<1>3. ASSUME NEW r \in Records, BackoffElapses(r)
      PROVE  Room
  <2>1. /\ RowBecomes(r, outbox[r].attempts, outbox[r].published)
        /\ UNCHANGED <<stream, faults>>
        /\ Carriers(q)' = Carriers(q) /\ Fetchers(q)' = Fetchers(q)
    BY <1>3, BackoffEffect DEF BackoffElapses, Carriers, Fetchers
  <2>2. /\ Enqueued(q) /\ outbox'[q].attempts = outbox[q].attempts
        /\ outbox'[q].published = outbox[q].published
    BY <1>3, <2>1 DEF BackoffElapses, RowBecomes, Enqueued
  <2> QED BY <1>0, <1>a, <2>1, <2>2, CountsAreNat, CopiesStay
<1>4. ASSUME NEW k \in Replicas, SelectRows(k)
      PROVE  Room
  <2>1. PICK rows \in SUBSET Eligible : LoopBecomes(k, rows, None, FALSE)
    BY <1>4, SelectEffect
  <2>2. UNCHANGED <<stream, faults, outbox>> /\ Enqueued(q)
    BY <1>4 DEF SelectRows, Enqueued
  <2>3. /\ retry[k].row = None /\ retry[k].batch = {}
        /\ q # None
    BY <1>4, RetryConstants DEF SelectRows, Sleeping
  <2>4. Carriers(q)' = Carriers(q)
    BY <2>1, <2>3 DEF LoopBecomes, Carriers
  <2>5. ASSUME outbox[q].published
        PROVE  Fetchers(q)' = Fetchers(q)
    <3>1. q \notin rows
      BY <2>5 DEF Eligible
    <3> QED BY <2>1, <2>3, <3>1 DEF LoopBecomes, Fetchers
  <2> QED BY <1>0, <1>a, <2>2, <2>4, <2>5, CountsAreNat, CopiesStay
<1>5. ASSUME NEW k \in Replicas, NEW r \in Records,
             Republish(k, r) \/ RepublishFails(k, r)
      PROVE  Room
  <2>1. PICK sent \in BOOLEAN : LoopBecomes(k, retry[k].batch \ {r}, r, sent)
    BY <1>5, TakenFromEffect DEF Republish, RepublishFails
  <2>2. UNCHANGED <<outbox, faults>> /\ Enqueued(q)
    BY <1>5 DEF Republish, RepublishFails, Enqueued
  <2>3. /\ stream'[r] \in Nat /\ stream'[r] <= stream[r] + 1
        /\ \A p \in Records \ {r} : stream'[p] = stream[p]
    BY <1>5, SendCounts DEF Republish, RepublishFails
  <2>4. retry[k].row = None /\ r \in retry[k].batch /\ q # None
    BY <1>5, RetryConstants DEF Republish, RepublishFails, NextRow
  <2>5. CASE q = r
    <3>1. Carriers(q)' = Carriers(q) \cup {k} /\ k \in Replicas \ Carriers(q)
      BY <2>1, <2>4, <2>5, LoopCounts DEF Carriers
    <3>2. Fetchers(q)' = Fetchers(q) \ {k} /\ k \in Fetchers(q)
      <4>1. q \notin retry[k].batch \ {r}
        BY <2>5
      <4> QED BY <2>1, <2>4, <2>5, <4>1, LoopCounts DEF Fetchers
    <3>3. Cardinality(Carriers(q)') = Cardinality(Carriers(q)) + 1
      BY <3>1, CountsAreNat, Counting
    <3>4. Cardinality(Fetchers(q)') = Cardinality(Fetchers(q)) - 1
      BY <3>2, CountsAreNat, Counting
    <3>5. UnmarkedCopies(q)'
      BY <1>0, <2>2, <2>3, <2>5, <3>3, CountsAreNat DEF UnmarkedCopies
    <3>6. MarkedCopies(q)'
      BY <1>0, <2>2, <2>3, <2>5, <3>4, CountsAreNat DEF MarkedCopies
    <3> QED BY <3>5, <3>6
  <2>6. CASE q # r
    <3>1. Carriers(q)' = Carriers(q)
      BY <2>1, <2>4, <2>6, LoopCounts DEF Carriers
    <3>2. Fetchers(q)' = Fetchers(q)
      BY <2>1, <2>6, LoopCounts DEF Fetchers
    <3> QED BY <1>0, <1>a, <2>2, <2>3, <2>6, <3>1, <3>2, CountsAreNat, CopiesStay
  <2> QED BY <2>5, <2>6
<1>6. ASSUME NEW k \in Replicas, RetryFault(k)
      PROVE  Room
  <2>1. LoopBecomes(k, {}, None, FALSE) /\ q # None
    BY <1>6, SleepingEffect, RetryConstants
  <2>2. UNCHANGED <<stream, outbox>> /\ Enqueued(q) /\ faults' = faults + 1
    BY <1>6 DEF RetryFault, Fault, Enqueued
  <2>3. Carriers(q)' = Carriers(q) \ {k} /\ Fetchers(q)' = Fetchers(q) \ {k}
    BY <2>1 DEF LoopBecomes, Carriers, Fetchers
  <2>4. Cardinality(Carriers(q)') + 1 >= Cardinality(Carriers(q))
    <3>1. CASE k \in Carriers(q)
      BY <2>3, <3>1, CountsAreNat, Counting
    <3>2. CASE k \notin Carriers(q)
      <4>1. Carriers(q)' = Carriers(q)
        BY <2>3, <3>2
      <4> QED BY <4>1, CountsAreNat
    <3> QED BY <3>1, <3>2
  <2>5. Cardinality(Fetchers(q)') <= Cardinality(Fetchers(q))
    <3>1. CASE k \in Fetchers(q)
      BY <2>3, <3>1, CountsAreNat, Counting
    <3>2. CASE k \notin Fetchers(q)
      <4>1. Fetchers(q)' = Fetchers(q)
        BY <2>3, <3>2
      <4> QED BY <4>1, CountsAreNat
    <3> QED BY <3>1, <3>2
  <2> QED BY <1>0, <1>a, <2>2, <2>4, <2>5, CountsAreNat, CopiesStay
<1>7. ASSUME NEW k \in Replicas, MarkPublished(k) \/ BumpFailure(k)
      PROVE  Room
  <2> DEFINE r == retry[k].row
  <2>1. r \in Records /\ r # None /\ outbox[r] \in Row /\ Enqueued(r) /\ q # None
    BY <1>7, RowInHand, RetryConstants DEF MarkPublished, BumpFailure, TypeOK, Held
  <2>2. /\ LoopBecomes(k, retry[k].batch, None, FALSE)
        /\ UNCHANGED <<stream, faults>>
    BY <1>7, DoneEffect DEF MarkPublished, BumpFailure
  <2>3. Carriers(q)' = Carriers(q) \ {k} /\ Fetchers(q)' = Fetchers(q)
    BY <2>1, <2>2 DEF LoopBecomes, Carriers, Fetchers
  <2>4. CASE q # r
    <3>1. Enqueued(q) /\ outbox'[q] = outbox[q]
      BY <1>7, <2>1, <2>4, MarkEffect, BumpEffect DEF RowBecomes, Enqueued
    <3>2. Carriers(q)' = Carriers(q)
      BY <2>3, <2>4 DEF Carriers
    <3> QED BY <1>0, <1>a, <2>2, <2>3, <3>1, <3>2, CountsAreNat, CopiesStay
  <2>5. ASSUME q = r
        PROVE  Cardinality(Carriers(q)') = Cardinality(Carriers(q)) - 1
    <3>1. k \in Carriers(q)
      BY <2>5 DEF Carriers
    <3> QED BY <2>3, <3>1, CountsAreNat, Counting
  <2>6. CASE q = r /\ MarkPublished(k)
    <3>1. outbox'[q].attempts = outbox[q].attempts /\ outbox'[q].published
      BY <2>1, <2>6, MarkEffect DEF RowBecomes
    <3>2. Fetchers(q) \cap Carriers(q) = {}
      BY DEF RowApart, Fetchers, Carriers
    <3>3. Cardinality(Fetchers(q)) + Cardinality(Carriers(q)) <= Cardinality(Replicas)
      BY <3>2, CountsAreNat, Counting
    <3>4. Cardinality(Fetchers(q)) <= Cardinality(Replicas)
      BY CountsAreNat, Counting
    <3>5. stream[q] <= 1 + outbox[q].attempts + faults + Cardinality(Carriers(q))
          \/ stream[q] + Cardinality(Fetchers(q))
               <= 1 + outbox[q].attempts + faults + Cardinality(Replicas)
      BY <1>0, <2>1, <2>6 DEF UnmarkedCopies, MarkedCopies
    <3>6. MarkedCopies(q)'
      BY <2>1, <2>2, <2>3, <2>6, <3>1, <3>3, <3>5, CountsAreNat DEF MarkedCopies
    <3>7. UnmarkedCopies(q)'
      BY <3>1 DEF UnmarkedCopies
    <3> QED BY <3>6, <3>7
  <2>7. CASE q = r /\ BumpFailure(k)
    <3>1. /\ outbox'[q].attempts = outbox[q].attempts + 1
          /\ outbox'[q].published = outbox[q].published
      BY <2>1, <2>7, BumpEffect DEF RowBecomes
    <3>2. Cardinality(Carriers(q)') = Cardinality(Carriers(q)) - 1
      BY <2>5, <2>7
    <3>3. UnmarkedCopies(q)'
      BY <1>0, <2>1, <2>2, <2>7, <3>1, <3>2, CountsAreNat DEF UnmarkedCopies
    <3>4. MarkedCopies(q)'
      BY <1>0, <2>1, <2>2, <2>3, <2>7, <3>1, CountsAreNat DEF MarkedCopies
    <3> QED BY <3>3, <3>4
  <2> QED BY <1>7, <2>4, <2>6, <2>7
<1> QED
  BY <1>1, <1>2, <1>3, <1>4, <1>5, <1>6, <1>7
     DEF Next, WriteStep, RetryRow, InsertAction, InsertFails, Publish, PublishFails,
         EnqueueFails, SubjectRefused, WriterDies, vars

\* However often an acknowledgement is lost, a mark fails or replicas fetch the
\* same row, the copies of a record stay within one for each replica, each fault
\* and each failure counted against its row, and the writer's own.
THEOREM CopiesStayBounded == Spec => []CopiesBounded
<1>1. Init => RowApart /\ WriterCopies /\ CopiesRoom
  BY DEF Init, Sleeping, RowApart, WriterCopies, CopiesRoom, UnmarkedCopies,
         MarkedCopies, Enqueued
<1>2. TypeOK /\ RowApart /\ WriterCopies /\ CopiesRoom /\ [Next]_vars
        => RowApart' /\ WriterCopies' /\ CopiesRoom'
  BY RowApartStep, WriterCopiesStep, CopiesRoomStep
<1>3. TypeOK /\ WriterCopies /\ CopiesRoom => CopiesBounded
  <2> SUFFICES ASSUME TypeOK, WriterCopies, CopiesRoom, NEW r \in Records
               PROVE  stream[r] <= Cardinality(Replicas) + faults + 1
                        + (IF Enqueued(r) THEN outbox[r].attempts ELSE 0)
    BY DEF CopiesBounded
  <2>1. Cardinality(Carriers(r)) <= Cardinality(Replicas)
    BY CountsAreNat, Counting
  <2>2. CASE ~Enqueued(r)
    BY <2>2, CountsAreNat DEF WriterCopies
  <2>3. CASE Enqueued(r) /\ ~outbox[r].published
    BY <2>1, <2>3, CountsAreNat DEF CopiesRoom, UnmarkedCopies
  <2>4. CASE Enqueued(r) /\ outbox[r].published
    BY <2>4, CountsAreNat DEF CopiesRoom, MarkedCopies
  <2> QED BY <2>2, <2>3, <2>4
<1> QED BY <1>1, <1>2, <1>3, TypeCorrect, PTL DEF Spec

=============================================================================
