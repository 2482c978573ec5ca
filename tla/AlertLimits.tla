----------------------------- MODULE AlertLimits -----------------------------
(***************************************************************************)
(* Two limits that are computed from the audit trail itself: the anomaly   *)
(* detector emits at most Limit alerts an hour, and the governor raises an *)
(* alarm when too large a share of the last hour's decisions was automatic,*)
(* at most one in a cool-down.  Both count rows first and write one later; *)
(* several scans and several gateways do so at once.                       *)
(*                                                                         *)
(* Time is counted in steps; an hour is Hour steps.                        *)
(***************************************************************************)
EXTENDS Integers, FiniteSets, Sequences, SequencesExt

CONSTANTS
  Detectors,   \* scans that may overlap
  Gateways,    \* processes with a governor each
  Hour,        \* steps in the window of an hour
  CoolDown,    \* steps in the governor's cool-down
  Limit,       \* alerts an hour
  MinSample,   \* decisions below which the governor keeps quiet
  MaxRows,     \* bound on the audit rows
  MaxTime,     \* bound on the time
  MaxFailures  \* bound on the writes and publishes that fail

ASSUME LimitsAssumption ==
  /\ IsFiniteSet(Detectors) /\ IsFiniteSet(Gateways)
  /\ Hour \in Nat /\ CoolDown \in Nat \ {0} /\ Limit \in Nat /\ MinSample \in Nat
  /\ MaxRows \in Nat /\ MaxTime \in Nat /\ MaxFailures \in Nat

VARIABLES
  now,
  rows,        \* audit.actions: [at, decision, severity]
  scan,        \* detector -> where its scan stands
  triggers,    \* rows whose trigger reached predictive maintenance
  governor,    \* gateway -> where its scan stands
  approvals,       \* approvals the governors asked for, by the row of the alert
  failures

limitvars == <<now, rows, scan, triggers, governor, approvals, failures>>

Severities == {"minor", "major"}
Decisions == {"auto", "suppressed", "human", "governor_alert"}
Quiet == [pc |-> "quiet"]
LimitsInit == /\ now = 0
        /\ rows = <<>>
        /\ scan = [d \in Detectors |-> Quiet]
        /\ triggers = {}
        /\ governor = [g \in Gateways |-> Quiet]
        /\ approvals = {}
        /\ failures = 0

Tick == /\ now < MaxTime /\ now' = now + 1
        /\ UNCHANGED <<rows, scan, triggers, governor, approvals, failures>>

\* A row carries the time at which its process built it.
\* The detector's window includes the row at its very edge; the governor's two
\* leave it out.
Within(span) == {k \in DOMAIN rows : rows[k].at >= now - span}
Since(span) == {k \in DOMAIN rows : rows[k].at > now - span}
Write(decision, severity) ==
  /\ Len(rows) < MaxRows
  /\ rows' = Append(rows, [at |-> now, decision |-> decision, severity |-> severity])

-----------------------------------------------------------------------------
(* The anomaly detector: for each reading out of its band, count, write,   *)
(* publish.  A suppressed alert is written under the same action type.     *)

\* Fault variant of Counted: only what was written in this very step counts.
CountedNow == {k \in Within(0) : rows[k].decision \in {"auto", "suppressed"}}
Counted == {k \in Within(Hour) : rows[k].decision \in {"auto", "suppressed"}}
Find(d, severity) ==
  /\ scan[d] = Quiet
  /\ scan' = [scan EXCEPT ![d] = [pc |-> "write", severity |-> severity,
                                  allowed |-> Cardinality(Counted) < Limit]]
  /\ UNCHANGED <<now, rows, triggers, governor, approvals, failures>>
WriteAlert(d) ==
  /\ scan[d].pc = "write"
  /\ Write(IF scan[d].allowed THEN "auto" ELSE "suppressed", scan[d].severity)
  /\ scan' = [scan EXCEPT ![d] =
                IF scan[d].allowed /\ scan[d].severity = "major"
                THEN [pc |-> "publish", row |-> Len(rows')] ELSE Quiet]
  /\ UNCHANGED <<now, triggers, governor, approvals, failures>>
\* A failed audit write ends the scan: the reading is forgotten with it.
WriteAlertFails(d) ==
  /\ scan[d].pc = "write" /\ failures < MaxFailures
  /\ scan' = [scan EXCEPT ![d] = Quiet]
  /\ failures' = failures + 1
  /\ UNCHANGED <<now, rows, triggers, governor, approvals>>
PublishTrigger(d) ==
  /\ scan[d].pc = "publish"
  /\ \/ /\ triggers' = triggers \cup {scan[d].row} /\ UNCHANGED failures
     \/ /\ failures < MaxFailures /\ failures' = failures + 1 /\ UNCHANGED triggers
  /\ scan' = [scan EXCEPT ![d] = Quiet]
  /\ UNCHANGED <<now, rows, governor, approvals>>

-----------------------------------------------------------------------------
(* The governor, and a person whose decision counts against the share.     *)

HumanDecides ==
  /\ Write("human", "minor")
  /\ UNCHANGED <<now, scan, triggers, governor, approvals, failures>>

Sample == {k \in Since(Hour) : rows[k].decision # "governor_alert"}
Automatic == {k \in Sample : rows[k].decision = "auto"}
Cooling == \E k \in Since(CoolDown) : rows[k].decision = "governor_alert"
TooAutomatic == Cardinality(Sample) >= MinSample /\ 5 * Cardinality(Automatic) > 4 * Cardinality(Sample)
\* The cool-down and the counts are read on one connection, row after row.
ReadCoolDown(g) ==
  /\ governor[g] = Quiet /\ ~Cooling
  /\ governor' = [governor EXCEPT ![g] = [pc |-> "count"]]
  /\ UNCHANGED <<now, rows, scan, triggers, approvals, failures>>
ReadCounts(g) ==
  /\ governor[g].pc = "count"
  /\ governor' = [governor EXCEPT ![g] = IF TooAutomatic THEN [pc |-> "alert"] ELSE Quiet]
  /\ UNCHANGED <<now, rows, scan, triggers, approvals, failures>>
\* A failed audit write ends the governor's scan; the next one starts afresh.
WriteGovernorAlert(g) ==
  /\ governor[g].pc = "alert"
  /\ \/ /\ Write("governor_alert", "major")
        /\ governor' = [governor EXCEPT ![g] = [pc |-> "queue", row |-> Len(rows')]]
        /\ UNCHANGED failures
     \/ /\ failures < MaxFailures /\ failures' = failures + 1
        /\ governor' = [governor EXCEPT ![g] = Quiet]
        /\ UNCHANGED rows
  /\ UNCHANGED <<now, scan, triggers, approvals>>
\* The message is lost without notice, the approval too.
Enqueue(g) ==
  /\ governor[g].pc = "queue"
  /\ \/ /\ approvals' = approvals \cup {governor[g].row} /\ UNCHANGED failures
     \/ /\ failures < MaxFailures /\ failures' = failures + 1 /\ UNCHANGED approvals
  /\ governor' = [governor EXCEPT ![g] = Quiet]
  /\ UNCHANGED <<now, rows, scan, triggers>>

LimitsNext ==
  \/ Tick \/ HumanDecides
  \/ \E d \in Detectors : \/ \E severity \in Severities : Find(d, severity)
                          \/ WriteAlert(d) \/ WriteAlertFails(d) \/ PublishTrigger(d)
  \/ \E g \in Gateways : ReadCoolDown(g) \/ ReadCounts(g) \/ WriteGovernorAlert(g) \/ Enqueue(g)

LimitsSpec == LimitsInit /\ [][LimitsNext]_limitvars

-----------------------------------------------------------------------------
(* Properties.                                                             *)

Of(decision) == {k \in DOMAIN rows : rows[k].decision = decision}
InOneHour(S, k) == {j \in S : rows[k].at - Hour <= rows[j].at /\ rows[j].at <= rows[k].at}

\* Counting before writing lets overlapping scans exceed the limit, by no more
\* than one alert each: any hour has at most Limit + scans - 1.
AlertsBounded ==
  \A k \in Of("auto") : Cardinality(InOneHour(Of("auto"), k)) <= Limit + Cardinality(Detectors) - 1

\* Only an alert that was emitted, and is in the trail, and is worth it,
\* triggers a prediction.
TriggersRecorded ==
  \A k \in triggers : k \in DOMAIN rows /\ rows[k].decision = "auto" /\ rows[k].severity = "major"

\* Gateways that read the cool-down together alert together, but no gateway
\* alerts twice within it: the cool-down that ends with an alert, without its
\* first instant, holds at most one alert for each.
GovernorAlertsSpaced ==
  \A k \in Of("governor_alert") :
    Cardinality({j \in Of("governor_alert") :
                   rows[k].at - CoolDown < rows[j].at /\ rows[j].at <= rows[k].at}) <= Cardinality(Gateways)

\* Each approval asked for belongs to an alert, and an alert without one is
\* still being handled or a fault's.
AlertsQueued ==
  /\ approvals \subseteq Of("governor_alert")
  /\ Cardinality({k \in Of("governor_alert") \ approvals :
        \A g \in Gateways : governor[g] # [pc |-> "queue", row |-> k]}) <= failures

\* Alerts are bounded by their limit, recorded with what triggered them, spaced
\* and queued.
AlertsLimited ==
  /\ AlertsBounded
  /\ TriggersRecorded
  /\ GovernorAlertsSpaced
  /\ AlertsQueued
=============================================================================
