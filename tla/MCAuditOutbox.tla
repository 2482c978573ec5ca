---------------------------- MODULE MCAuditOutbox ----------------------------
(***************************************************************************)
(* Instances of AuditOutbox for TLC: a behaviour has one size of batch,    *)
(* and its records have subjects or have none.                             *)
(***************************************************************************)
EXTENDS AuditOutbox, TLC

VARIABLES
  batch,   \* rows of one SELECT
  subject  \* the records it is about

One == INSTANCE AuditOutbox WITH BatchSize <- 1

MCInit ==
  /\ Init /\ batch \in {1, BatchSize}
  /\ subject \in {Streamless, Records \ Streamless}
\* Only the SELECT depends on the size of the batch.
Select(k) == \/ batch = 1 /\ One!SelectRows(k)
             \/ batch # 1 /\ SelectRows(k)
MCNext ==
  /\ \/ \E r \in subject : WriteStep(r) \/ BackoffElapses(r)
     \/ \E k \in Replicas : Select(k) \/ RetryRow(k) \/ RetryFault(k)
  /\ UNCHANGED <<batch, subject>>
MCFairness ==
  /\ \A k \in Replicas : /\ WF_<<vars, batch, subject>>(Select(k) /\ UNCHANGED <<batch, subject>>)
                         /\ WF_<<vars, batch, subject>>(RetryRow(k) /\ UNCHANGED <<batch, subject>>)
  /\ \A r \in Records : WF_<<vars, batch, subject>>(BackoffElapses(r) /\ UNCHANGED <<batch, subject>>)
MCSpec == MCInit /\ [][MCNext]_<<vars, batch, subject>> /\ MCFairness
=============================================================================
