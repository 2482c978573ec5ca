----------------------------- MODULE AuditOutbox -----------------------------
(***************************************************************************)
(* The audit dual write (sft_agents/audit): AuditWriter.write inserts each *)
(* record in audit.actions, then publishes it on AUDIT_STREAM; a record    *)
(* whose publish raised goes to audit.outbox, and one OutboxRetry loop per *)
(* gateway replica publishes the outbox rows again, with a backoff, up to  *)
(* MaxAttempts times.  A publish that raises may have been stored all the  *)
(* same: only its acknowledgement was lost.  A step is one statement or    *)
(* one publish; no statement of the retry loop runs in a transaction.      *)
(***************************************************************************)
EXTENDS FiniteSets, Naturals

CONSTANTS
  Records,       \* audit records, each written once
  Streamless,    \* those of a cluster that subject_for_audit refuses ("knowledge",
                 \* the cluster of all four knowledge agents, is no VALID_CLUSTERS)
  Replicas,      \* gateway replicas, one retry loop each
  MaxAttempts,   \* rows that failed this often are no longer selected
  BatchSize,     \* LIMIT of the retry loop's query
  AckLoss,       \* what may become of a publish that raised: subset of
                 \* BOOLEAN, TRUE when the stream stored it
  PublishedAt,   \* whether audit.outbox has the column published_at, which the
                 \* loop's statements name and migration 003 does not create
  MaxFaults,     \* bound on the crashes and failed statements
  NoRow, None

ASSUME RetryConstants ==
  /\ IsFiniteSet(Replicas)
  /\ Streamless \subseteq Records
  /\ MaxAttempts \in Nat \ {0}
  /\ BatchSize \in Nat \ {0}
  /\ AckLoss \subseteq BOOLEAN
  /\ PublishedAt \in BOOLEAN
  /\ MaxFaults \in Nat
  /\ None \notin Records

VARIABLES
  actions,  \* audit.actions: the records it holds
  stream,   \* AUDIT_STREAM: how many copies of each record it holds
  outbox,   \* audit.outbox: record -> row or NoRow
  writer,   \* where AuditWriter.write stands with each record
  retry,    \* each retry loop: the rows fetched, the row in hand
  faults    \* crashes and failed statements so far

vars == <<actions, stream, outbox, writer, retry, faults>>

-----------------------------------------------------------------------------
(* State *)

\* waiting stands for next_attempt_at > NOW().
Row == [attempts : Nat, waiting : BOOLEAN, published : BOOLEAN]

ASSUME NoRowIsNoRow == NoRow \notin Row

Writer == {"idle", "inserted", "unpublished", "returned", "raised", "dead"}

\* sent: whether the publish of the row in hand succeeded.
Retry == [batch : SUBSET Records, row : Records \cup {None}, sent : BOOLEAN]

Sleeping == [batch |-> {}, row |-> None, sent |-> FALSE]

Init ==
  /\ actions = {}
  /\ stream = [r \in Records |-> 0]
  /\ outbox = [r \in Records |-> NoRow]
  /\ writer = [r \in Records |-> "idle"]
  /\ retry = [k \in Replicas |-> Sleeping]
  /\ faults = 0

Fault == faults < MaxFaults /\ faults' = faults + 1

-----------------------------------------------------------------------------
(* AuditWriter.write *)

\* AuditPgWriter.insert: blocking, and first.
InsertAction(r) ==
  /\ writer[r] = "idle"
  /\ actions' = actions \cup {r}
  /\ writer' = [writer EXCEPT ![r] = "inserted"]
  /\ UNCHANGED <<stream, outbox, retry, faults>>

\* The INSERT raises, having committed or not, and so does write.
InsertFails(r) ==
  /\ writer[r] = "idle"
  /\ Fault
  /\ \E committed \in BOOLEAN :
       actions' = IF committed THEN actions \cup {r} ELSE actions
  /\ writer' = [writer EXCEPT ![r] = "raised"]
  /\ UNCHANGED <<stream, outbox, retry>>

Send(r) == stream' = [stream EXCEPT ![r] = @ + 1]

\* A publish that raised; one without a subject never reached the stream.
SendFails(r) ==
  \E stored \in AckLoss : IF stored /\ r \notin Streamless THEN Send(r) ELSE UNCHANGED stream

\* Fault variant of Publish: the stream is not made to wait for the table.
PublishFirst(r) ==
  /\ writer[r] \in {"idle", "inserted"}
  /\ Send(r)
  /\ writer' = [writer EXCEPT ![r] = "returned"]
  /\ UNCHANGED <<actions, outbox, retry, faults>>

\* publish_audit succeeds, and write returns.
Publish(r) ==
  /\ writer[r] = "inserted"
  /\ r \notin Streamless
  /\ Send(r)
  /\ writer' = [writer EXCEPT ![r] = "returned"]
  /\ UNCHANGED <<actions, outbox, retry, faults>>

\* publish_audit raises; the exception is caught.
PublishFails(r) ==
  /\ writer[r] = "inserted"
  /\ SendFails(r)
  /\ writer' = [writer EXCEPT ![r] = "unpublished"]
  /\ UNCHANGED <<actions, outbox, retry, faults>>

\* OutboxWriter.enqueue.
Enqueue(r) ==
  /\ writer[r] = "unpublished"
  /\ r \notin Streamless
  /\ outbox' = [outbox EXCEPT
                  ![r] = [attempts |-> 0, waiting |-> FALSE, published |-> FALSE]]
  /\ writer' = [writer EXCEPT ![r] = "returned"]
  /\ UNCHANGED <<actions, stream, retry, faults>>

\* The INSERT into the outbox raises: logged, and write returns.
EnqueueFails(r) ==
  /\ writer[r] = "unpublished"
  /\ r \notin Streamless
  /\ Fault
  /\ writer' = [writer EXCEPT ![r] = "returned"]
  /\ UNCHANGED <<actions, stream, outbox, retry>>

\* The handler asks for the subject again, outside of its try: write raises,
\* the record is in the table and nowhere else.
SubjectRefused(r) ==
  /\ writer[r] = "unpublished"
  /\ r \in Streamless
  /\ writer' = [writer EXCEPT ![r] = "raised"]
  /\ UNCHANGED <<actions, stream, outbox, retry, faults>>

\* The process dies, or the task is cancelled, between two steps of write.
WriterDies(r) ==
  /\ writer[r] \in {"inserted", "unpublished"}
  /\ Fault
  /\ writer' = [writer EXCEPT ![r] = "dead"]
  /\ UNCHANGED <<actions, stream, outbox, retry>>

-----------------------------------------------------------------------------
(* OutboxRetry.run_once *)

Enqueued(r) == outbox[r] # NoRow

\* Rows of the loop's query.
Eligible ==
  {r \in Records : /\ Enqueued(r)
                   /\ ~outbox[r].published
                   /\ ~outbox[r].waiting
                   /\ outbox[r].attempts < MaxAttempts}

\* The query.  Without the column it raises and the loop goes back to sleep.
SelectRows(k) ==
  /\ retry[k] = Sleeping
  /\ PublishedAt
  /\ \E rows \in SUBSET Eligible :
       /\ rows # {}
       /\ \/ rows = Eligible /\ Cardinality(rows) <= BatchSize
          \/ Cardinality(rows) = BatchSize
       /\ retry' = [retry EXCEPT ![k] = [@ EXCEPT !.batch = rows]]
  /\ UNCHANGED <<actions, stream, outbox, writer, faults>>

NextRow(k, r) == retry[k].row = None /\ r \in retry[k].batch

TakenFrom(k, r, sent) ==
  retry' = [retry EXCEPT ![k] = [batch |-> @.batch \ {r}, row |-> r, sent |-> sent]]

\* publish_raw succeeds; the row is not marked yet.
Republish(k, r) ==
  /\ NextRow(k, r)
  /\ Send(r)
  /\ TakenFrom(k, r, TRUE)
  /\ UNCHANGED <<actions, outbox, writer, faults>>

RepublishFails(k, r) ==
  /\ NextRow(k, r)
  /\ SendFails(r)
  /\ TakenFrom(k, r, FALSE)
  /\ UNCHANGED <<actions, outbox, writer, faults>>

\* Fault variant of Done: the outcome of the row outlives it.
DoneKeepsOutcome(k) == retry' = [retry EXCEPT ![k] = [@ EXCEPT !.row = None]]

\* The row in hand is dealt with.
Done(k) == retry' = [retry EXCEPT ![k] = [@ EXCEPT !.row = None, !.sent = FALSE]]

\* Fault variant of MarkPublished: the UPDATE is forgotten.
MarkForgotten(k) ==
  /\ retry[k].row # None
  /\ retry[k].sent
  /\ Done(k)
  /\ UNCHANGED <<actions, stream, outbox, writer, faults>>

\* UPDATE ... SET published_at = NOW()
MarkPublished(k) ==
  /\ retry[k].row # None
  /\ retry[k].sent
  /\ outbox' = [outbox EXCEPT ![retry[k].row] = [@ EXCEPT !.published = TRUE]]
  /\ Done(k)
  /\ UNCHANGED <<actions, stream, writer, faults>>

\* Fault variant of BumpFailure: the failure is not counted.
BackOffOnly(k) ==
  /\ retry[k].row # None
  /\ ~retry[k].sent
  /\ outbox' = [outbox EXCEPT ![retry[k].row] = [@ EXCEPT !.waiting = TRUE]]
  /\ Done(k)
  /\ UNCHANGED <<actions, stream, writer, faults>>

\* UPDATE ... SET attempts = attempts + 1, next_attempt_at = NOW() + backoff
BumpFailure(k) ==
  /\ retry[k].row # None
  /\ ~retry[k].sent
  /\ LET r == retry[k].row IN
       outbox' = [outbox EXCEPT ![r] = [@ EXCEPT !.attempts = outbox[r].attempts + 1,
                                                 !.waiting = TRUE]]
  /\ Done(k)
  /\ UNCHANGED <<actions, stream, writer, faults>>

\* A statement raises, or the replica dies: the rest of the batch is forgotten.
RetryFault(k) ==
  /\ retry[k] # Sleeping
  /\ Fault
  /\ retry' = [retry EXCEPT ![k] = Sleeping]
  /\ UNCHANGED <<actions, stream, outbox, writer>>

\* min(2 ^ (attempts + 1), 3600) seconds went by.
BackoffElapses(r) ==
  /\ Enqueued(r)
  /\ outbox[r].waiting
  /\ outbox' = [outbox EXCEPT ![r] = [@ EXCEPT !.waiting = FALSE]]
  /\ UNCHANGED <<actions, stream, writer, retry, faults>>

-----------------------------------------------------------------------------

WriteStep(r) ==
  \/ InsertAction(r) \/ InsertFails(r)
  \/ Publish(r) \/ PublishFails(r)
  \/ Enqueue(r) \/ EnqueueFails(r) \/ SubjectRefused(r)
  \/ WriterDies(r)

\* One row of a batch.
RetryRow(k) ==
  \/ \E r \in Records : Republish(k, r) \/ RepublishFails(k, r)
  \/ MarkPublished(k)
  \/ BumpFailure(k)

Next ==
  \/ \E r \in Records : WriteStep(r) \/ BackoffElapses(r)
  \/ \E k \in Replicas : SelectRows(k) \/ RetryRow(k) \/ RetryFault(k)

Spec == Init /\ [][Next]_vars

\* The loops wake up every 30 seconds whatever the last batch raised, and
\* time passes.  Nothing is assumed of the stream: any publish may fail.
Fairness ==
  /\ \A k \in Replicas : WF_vars(SelectRows(k)) /\ WF_vars(RetryRow(k))
  /\ \A r \in Records : WF_vars(BackoffElapses(r))

LiveSpec == Spec /\ Fairness

-----------------------------------------------------------------------------
(* Properties *)

\* Rows a retry loop has fetched and not dealt with.
Held(k) == retry[k].batch \cup ({retry[k].row} \ {None})

\* Every variable keeps to the shape of its table, stream or process; a retry
\* loop holds rows of the table only, and an outcome only with a row.
TypeOK ==
  /\ actions \subseteq Records
  /\ stream \in [Records -> Nat]
  /\ outbox \in [Records -> Row \cup {NoRow}]
  /\ writer \in [Records -> Writer]
  /\ retry \in [Replicas -> Retry]
  /\ \A k \in Replicas : /\ \A r \in Held(k) : Enqueued(r)
                         /\ retry[k].sent => retry[k].row # None
  /\ faults \in 0..MaxFaults

\* The PG-first rule (D-56): whatever is on the stream, in the outbox or in a
\* retry loop's hands is in audit.actions, so no subscriber ever sees a record
\* the forensic table does not have.
OnlyRecordedShip ==
  \A r \in Records :
    \/ stream[r] > 0
    \/ Enqueued(r)
    \/ \E k \in Replicas : r \in Held(k)
    => r \in actions

\* Without a fault, no record is lost on its way: once inserted it is on the
\* stream, in the outbox, or in the hands of its writer, if its cluster has a
\* subject.
NoRecordDropped ==
  \A r \in actions \ Streamless :
    faults = 0 => \/ stream[r] > 0
                  \/ Enqueued(r)
                  \/ writer[r] \in {"inserted", "unpublished"}

\* A row is marked published only when the stream has the record, whichever
\* replica published it and whatever failed in between.
PublishedRowsShipped ==
  \A r \in Records : Enqueued(r) /\ outbox[r].published => stream[r] > 0

\* The replicas take no lock on the rows, so each of them may count a failure
\* of a row it fetched in time; no more than that.
AttemptsBounded ==
  \A r \in Records : Enqueued(r) =>
    outbox[r].attempts < MaxAttempts + Cardinality(Replicas)

\* A record is copied to the stream at most once by each replica that had
\* fetched its row, once more for each failure counted against the row and for
\* each fault, and once by the writer: an acknowledgement that is lost over and
\* over, or a mark that fails, never lets the copies grow past that.
CopiesBounded ==
  \A r \in Records :
    stream[r] <= Cardinality(Replicas) + faults + 1
                 + (IF Enqueued(r) THEN outbox[r].attempts ELSE 0)

\* writer.py:7: a record whose publish failed is shipped later by the retry
\* loop; or MaxAttempts publishes of it failed.
OutboxDrains ==
  \A r \in Records :
    Enqueued(r) ~> /\ Enqueued(r)
                   /\ outbox[r].published \/ outbox[r].attempts >= MaxAttempts

\* writer.py:78: errors of the publish are caught, so that write raises for a
\* statement that failed and for nothing else.
RaisedByTheTable == faults = 0 => \A r \in Records : writer[r] # "raised"

\* What is shipped was recorded, what was recorded is never dropped, a row marked
\* published was shipped, and no row is tried for ever.
RecordsShip ==
  /\ OnlyRecordedShip
  /\ NoRecordDropped
  /\ PublishedRowsShipped
  /\ AttemptsBounded
=============================================================================
