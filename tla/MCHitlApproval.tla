--------------------------- MODULE MCHitlApproval ---------------------------
(* Instances of HitlApproval for TLC. *)
EXTENDS HitlApproval, TLC

CONSTANTS
  asked, other,    \* actions a graph thread asks about
  budget,          \* a budget row, raised by the first thread
  t1,              \* threads
  n1, n2, n3       \* ids for escalated rows

\* One thread whose operator action and budget row share a thread_id.
OneThreadOf == (asked :> t1) @@ (budget :> t1)

OneThreadTier == (asked :> "operator") @@ (budget :> "supervisor")

\* One thread, one action at the first tier.
AskedThreadOf == (asked :> t1)

AskedTier == (asked :> "operator")

\* One thread that asks a supervisor and then the safety interlock, and its
\* budget row.
TwoActionThreadOf == (asked :> t1) @@ (other :> t1) @@ (budget :> t1)

TwoActionTier ==
  (asked :> "supervisor") @@ (other :> "safety_interlock") @@ (budget :> "supervisor")

Symmetric == Permutations(Requests) \cup Permutations(Supervisors) \cup Permutations(FreshIds)
=============================================================================
