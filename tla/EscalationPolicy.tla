-------------------------- MODULE EscalationPolicy --------------------------
(***************************************************************************)
(* The escalation policy every part of the human-in-the-loop cycle shares: *)
(* the approval tiers and statuses (models/enums.py), the chain that       *)
(* policies/escalation-sla.yaml declares, the tiers on which a reviewer    *)
(* must justify a decision (routers/approvals.py) and the audit verdict a  *)
(* human decision is recorded under (hitl/interrupt.py).                   *)
(***************************************************************************)

Tier == {"operator", "supervisor", "manager", "safety_interlock"}

\* The end of the chain: next_tier is null in the policy file.
NoTier == "none"

Status == {"pending", "approved", "rejected", "escalated", "timed_out"}

Verb == {"approve", "reject", "escalate"}

(***************************************************************************)
(* next_tier of escalation-sla.yaml.  The manager is the last tier of the  *)
(* chain, and the safety interlock stands outside it.                      *)
(***************************************************************************)
NextTier(tier) ==
  CASE tier = "operator"   -> "supervisor"
    [] tier = "supervisor" -> "manager"
    [] OTHER               -> NoTier

\* sla_minutes is null for the safety interlock only: its rows get a deadline
\* a year away and the supervisor's query leaves the tier out.
HasDeadline(tier) == tier # "safety_interlock"

\* Tiers on which approve and reject need a motivation (HITL-07).
MotivationRequired(tier) == tier \in {"supervisor", "manager", "safety_interlock"}

\* The status a verb leaves the row in.
StatusOf(verb) ==
  CASE verb = "approve" -> "approved"
    [] verb = "reject"  -> "rejected"
    [] OTHER            -> "escalated"

\* audit.actions.decision for a human decision taken at a tier.
TierToDecision(tier, verb) ==
  IF verb = "escalate" THEN "escalated"
  ELSE CASE tier = "operator"   -> "hitl_operator"
         [] tier = "supervisor" -> "hitl_supervisor"
         [] tier = "manager"    -> "hitl_manager"
         [] OTHER               -> "interlock_reject"

HitlDecision == {"hitl_operator", "hitl_supervisor", "hitl_manager"}

AuditDecision == HitlDecision \cup {"interlock_reject", "escalated", "timed_out"}
=============================================================================
