---------------------------- MODULE BudgetTracker ----------------------------
(***************************************************************************)
(* The budget of an agent on a thread: every step adds its tokens and cost *)
(* to one row by a single INSERT ... ON CONFLICT DO UPDATE and asks for an *)
(* approval when the sums it gets back are past a limit.  Steps of several *)
(* agents and processes run at once; nothing stops a step.                 *)
(***************************************************************************)
EXTENDS Integers, FiniteSets, FiniteSetsExt

CONSTANTS
  Steps,       \* steps to be tracked, each once
  Keys,        \* (thread, agent) pairs
  Deltas,      \* what a step may spend: [tokens, cost, ms]
  Limits,      \* [tokens, cost, ms]; 0 is no limit
  MaxLost      \* bound on the statements that fail

ASSUME BudgetAssumption ==
  /\ IsFiniteSet(Steps)
  /\ Deltas \subseteq [tokens : Nat, cost : Nat, ms : Nat]
  /\ Limits \in [{"tokens", "cost", "ms"} -> Nat]
  /\ MaxLost \in Nat

VARIABLES
  spent,       \* key -> row of budget.executions
  step,        \* where each step stands
  asked,       \* approvals: [step, kind]
  lost         \* approvals that could not be stored

budgetvars == <<spent, step, asked, lost>>

Measures == {"tokens", "cost", "ms"}
Unspent == [tokens |-> 0, cost |-> 0, ms |-> 0, count |-> 0]
Unused == [pc |-> "unused"]

BudgetInit == /\ spent = [k \in Keys |-> Unspent]
        /\ step = [s \in Steps |-> Unused]
        /\ asked = {} /\ lost = {}

\* Fault variant of Added: the statement stores what is new, without the old.
AddedOver(row, delta) ==
  [tokens |-> delta.tokens, cost |-> delta.cost, ms |-> delta.ms, count |-> row.count + 1]
Added(row, delta) ==
  [tokens |-> row.tokens + delta.tokens, cost |-> row.cost + delta.cost,
   ms |-> row.ms + delta.ms, count |-> row.count + 1]
\* Tokens warn at four fifths of their limit, cost and time past theirs.
Exceeded(row, delta) ==
  {f \in Measures : /\ Limits[f] > 0
                  /\ IF f = "tokens" THEN 5 * row[f] > 4 * Limits[f] ELSE row[f] > Limits[f]}

Upsert(s, key, delta) ==
  /\ step[s] = Unused
  /\ spent' = [spent EXCEPT ![key] = Added(@, delta)]
  /\ step' = [step EXCEPT ![s] = [pc |-> "asking", key |-> key, delta |-> delta,
                                  snapshot |-> spent'[key], todo |-> Exceeded(spent'[key], delta)]]
  /\ UNCHANGED <<asked, lost>>
\* The statement fails: the step raises and its spending is not recorded.
UpsertFails(s) ==
  /\ step[s] = Unused /\ Cardinality(lost) < MaxLost
  /\ step' = [step EXCEPT ![s] = [pc |-> "failed"]]
  /\ lost' = lost \cup {[step |-> s, kind |-> "row"]}
  /\ UNCHANGED <<spent, asked>>
NextField(S) == CHOOSE f \in S : /\ "tokens" \in S => f = "tokens"
                             /\ "tokens" \notin S /\ "cost" \in S => f = "cost"
\* One approval after the other; one that cannot be stored is logged and left.
AskApproval(s, f) ==
  /\ step[s].pc = "asking" /\ step[s].todo # {} /\ f = NextField(step[s].todo)
  /\ \/ asked' = asked \cup {[step |-> s, kind |-> f]} /\ UNCHANGED lost
     \/ /\ Cardinality(lost) < MaxLost
        /\ lost' = lost \cup {[step |-> s, kind |-> f]} /\ UNCHANGED asked
  /\ step' = [step EXCEPT ![s].todo = @ \ {f}]
  /\ UNCHANGED spent
Return(s) ==
  /\ step[s].pc = "asking" /\ step[s].todo = {}
  /\ step' = [step EXCEPT ![s].pc = "done"]
  /\ UNCHANGED <<spent, asked, lost>>

BudgetNext ==
  \E s \in Steps : \/ \E key \in Keys, delta \in Deltas : Upsert(s, key, delta)
                   \/ UpsertFails(s) \/ (\E f \in Measures : AskApproval(s, f)) \/ Return(s)

BudgetSpec == BudgetInit /\ [][BudgetNext]_budgetvars

-----------------------------------------------------------------------------
(* Properties.                                                             *)

Tracked(key) == {s \in Steps : step[s].pc \in {"asking", "done"} /\ step[s].key = key}
SpentOn(key, f) == [s \in Tracked(key) |-> step[s].delta[f]]

\* No step's spending is lost or counted twice, however the steps overlap, and
\* no two steps of a key see the same sums' row.
SpendingExact ==
  \A key \in Keys :
    /\ spent[key].count = Cardinality(Tracked(key))
    /\ \A f \in Measures : spent[key][f] = LET on == SpentOn(key, f) IN MapThenSumSet(LAMBDA s : on[s], Tracked(key))
    /\ \A s, t \in Tracked(key) : step[s].snapshot.count = step[t].snapshot.count => s = t

\* When every step has returned, a key past one of its limits has been put
\* before a person for that limit, unless the approval could not be stored.
OverspendingAsked ==
  \A key \in Keys : \A f \in Measures :
    /\ Limits[f] > 0 /\ spent[key][f] > Limits[f]
    /\ \A s \in Tracked(key) : step[s].pc = "done"
    => \E s \in Tracked(key) : [step |-> s, kind |-> f] \in asked \cup lost

\* What is spent is added up exactly, and whoever goes over a limit is asked.
SpendingWatched ==
  /\ SpendingExact
  /\ OverspendingAsked
=============================================================================
