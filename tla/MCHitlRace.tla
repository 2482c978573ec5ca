------------------------------ MODULE MCHitlRace ------------------------------
(* Two instances of HitlApproval in one run: part says which a behaviour is   *)
(* about.  Both have a thread whose operator action and budget row share the  *)
(* thread_id.                                                                 *)
EXTENDS MCHitlApproval

VARIABLE part  \* which of two instances a behaviour is about

\* "answers": two people answer while one supervisor, one row at a time,
\* escalates.
Supervising == {s \in Supervisors : scan[s] # Sleeping \/ \E a \in audit : a.actor = s}
Answers ==
  /\ Cardinality(Supervising) <= 1 /\ \A s \in Supervisors : Cardinality(scan[s].batch) <= 1
  /\ \A r \in Requests : request[r].motivation = "given"
\* "chains": two supervisors escalate while one person approves.
Chains ==
  /\ Cardinality({r \in Requests : request[r] # Unsent}) <= 1
  /\ \A r \in Requests : request[r].verb = "approve"

MCInit == part \in {"answers", "chains"} /\ Init
MCNext ==
  /\ Next /\ UNCHANGED part
  /\ IF part = "answers" THEN Answers' ELSE Chains'
MCSpec == MCInit /\ [][MCNext]_<<vars, part>>
=============================================================================
