------------------------- MODULE ApprovalLifecycle -------------------------
(***************************************************************************)
(* What the approval queue promises about one proposed action, whatever    *)
(* rows, requests and background tasks implement it: the action is opened  *)
(* once, at the tier it asked for; while it is open it climbs the chain    *)
(* one tier at a time; it is closed once, by a person at any tier or by    *)
(* the expiry of the last tier that has a deadline; and it stays closed.   *)
(***************************************************************************)
EXTENDS EscalationPolicy

CONSTANTS
  Actions,   \* proposed actions
  TierOf     \* the tier at which each of them asks for approval

VARIABLE chain

Unopened == [phase |-> "unopened", tier |-> NoTier, outcome |-> "none"]

Open(tier) == [phase |-> "open", tier |-> tier, outcome |-> "none"]

Closed(tier, outcome) == [phase |-> "closed", tier |-> tier, outcome |-> outcome]

Init == chain = [a \in Actions |-> Unopened]

\* A row is inserted for the action.
OpenChain(a) ==
  /\ chain[a] = Unopened
  /\ chain' = [chain EXCEPT ![a] = Open(TierOf[a])]

\* The deadline of a tier passed and the next tier takes over.
Climb(a) ==
  /\ chain[a].phase = "open"
  /\ NextTier(chain[a].tier) # NoTier
  /\ chain' = [chain EXCEPT ![a] = Open(NextTier(chain[a].tier))]

\* A person decided.
Decide(a) ==
  /\ chain[a].phase = "open"
  /\ \E verb \in Verb :
       chain' = [chain EXCEPT ![a] = Closed(chain[a].tier, StatusOf(verb))]

\* The last tier of the chain let its deadline pass.
Expire(a) ==
  /\ chain[a].phase = "open"
  /\ HasDeadline(chain[a].tier)
  /\ NextTier(chain[a].tier) = NoTier
  /\ chain' = [chain EXCEPT ![a] = Closed(chain[a].tier, "timed_out")]

Next == \E a \in Actions : OpenChain(a) \/ Climb(a) \/ Decide(a) \/ Expire(a)

Spec == Init /\ [][Next]_chain
=============================================================================
