------------------------------ MODULE KpiSnapshot ------------------------------
(***************************************************************************)
(* The KPI snapshot of the gateway: six queries, one after the other, over *)
(* windows that end when the snapshot starts.  No transaction holds them   *)
(* together, so rows that arrive late and repairs that end in between are  *)
(* seen by the later queries only.  A query that raises gives None.        *)
(* Minutes, orders and verdict scores are small integers; the divisions of *)
(* the code are kept as pairs <<dividend, divisor>>.                       *)
(***************************************************************************)
EXTENDS Integers, FiniteSets, FiniteSetsExt, Sequences

CONSTANTS
  Planned,             \* _PLANNED_PRODUCTION_MINUTES (480)
  MaxEvents, MaxMinutes, \* bounds: downtime rows, minutes of one
  MaxOrders,           \* bound: kilograms ordered in the window
  None

Names == {"oee", "mttr", "mtbf", "scrap_rate", "throughput", "downtime"}

VARIABLES
  events,   \* downtime rows of the 30 days: [minutes, recent, resolved]
  verdicts, \* <<sum of the scores in percent, how many>> of the quality verdicts
  orders,   \* kilograms ordered in the window
  next,     \* the query that runs next, or "done"
  kpi       \* [Names -> value]

ASSUME KpiAssumption == Planned \in Nat /\ MaxMinutes \in Nat

kpivars == <<events, verdicts, orders, next, kpi>>

RowSet == [minutes : 0..MaxMinutes, recent : BOOLEAN, resolved : BOOLEAN]
Minutes(S) == MapThenSumSet(LAMBDA i : events[i].minutes, S)
RecentMinutes == Minutes({i \in DOMAIN events : events[i].recent})

KpiInit ==
  /\ events = <<>> /\ verdicts \in {<<0, 0>>, <<150, 2>>}
  /\ orders \in 0..MaxOrders
  /\ next = "oee" /\ kpi = [n \in Names |-> None]

-----------------------------------------------------------------------------
(* The queries.                                                            *)

Clamp(x, low, high) == IF x < low THEN low ELSE IF x > high THEN high ELSE x

\* Minutes available, of the planned ones.
\* Fault variant of Oee: the clamp is left out.
OeeUnclamped == Planned - RecentMinutes

Oee == Clamp(Planned - RecentMinutes, 0, Planned)

\* The mean duration of the repairs that ended.
Mttr ==
  LET done == {i \in DOMAIN events : events[i].resolved} IN
  IF done = {} THEN None ELSE <<Minutes(done), Cardinality(done)>>

\* The hours of the 30 days over the failures.
Mtbf == IF events = <<>> THEN None ELSE <<720, Len(events)>>

\* 100 minus the mean score, and 0 without verdicts.
ScrapRate ==
  IF verdicts[2] = 0 THEN <<0, 1>>
  ELSE <<Clamp(100 * verdicts[2] - verdicts[1], 0, 100 * verdicts[2]), verdicts[2]>>

Throughput == IF orders <= 0 THEN <<0, 1>> ELSE <<orders, 8>>

\* Minutes down, of the planned ones.
DowntimePct == Clamp(RecentMinutes, 0, Planned)

After ==
  [oee |-> "mttr", mttr |-> "mtbf", mtbf |-> "scrap_rate", scrap_rate |-> "throughput",
   throughput |-> "downtime", downtime |-> "done"]

Value(n) ==
  CASE n = "oee" -> Oee [] n = "mttr" -> Mttr [] n = "mtbf" -> Mtbf
    [] n = "scrap_rate" -> ScrapRate [] n = "throughput" -> Throughput
    [] OTHER -> DowntimePct

\* _run_all_kpis: the next query answers or raises.
RunQuery ==
  /\ next # "done"
  /\ \E v \in {Value(next), None} : kpi' = [kpi EXCEPT ![next] = v]
  /\ next' = After[next]
  /\ UNCHANGED <<events, verdicts, orders>>

\* The consumer inserts an event of the window; a repair ends.
LateRow ==
  /\ Len(events) < MaxEvents
  /\ \E row \in RowSet : events' = Append(events, row)
  /\ UNCHANGED <<verdicts, orders, next, kpi>>

Repaired ==
  /\ \E i \in DOMAIN events : ~events[i].resolved /\ events' = [events EXCEPT ![i].resolved = TRUE]
  /\ UNCHANGED <<verdicts, orders, next, kpi>>

KpiNext == RunQuery \/ LateRow \/ Repaired

KpiSpec == KpiInit /\ [][KpiNext]_kpivars

-----------------------------------------------------------------------------
(* Properties.                                                             *)

\* A mean time to repair comes with a mean time between failures, unless that
\* query raised after the other answered: a snapshot never averages failures
\* it then does not count (queries.py:97, :120).
RepairsAreFailures ==
  kpi["mttr"] # None /\ kpi["mtbf"] # None => kpi["mttr"][2] <= kpi["mtbf"][2]

\* Availability and downtime are shares of the same hours read at different
\* times: together they cover them all, and they exceed them only by rows that
\* arrived in between (queries.py:60, :216).
SharesCover ==
  kpi["oee"] # None /\ kpi["downtime"] # None =>
    /\ kpi["oee"] + kpi["downtime"] >= Planned
    /\ kpi["oee"] \in 0..Planned /\ kpi["downtime"] \in 0..Planned

\* The figures of one snapshot, read one after the other, fit together.
KpisAgree ==
  /\ RepairsAreFailures
  /\ SharesCover
=============================================================================
