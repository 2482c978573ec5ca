----------------------------- MODULE AgentsProofs -----------------------------
(***************************************************************************)
(* Proofs about the agents that keep state: AlertsLimited of AlertLimits,  *)
(* SpendingWatched of BudgetTracker, StoresAgree of KnowledgeIngest,       *)
(* ReportsTrue of MaintenanceCoach, for any number of scans, gateways,     *)
(* steps, commands, files, requests and failures and any limits; and about *)
(* what the agents and scripts calculate: JudgementsHold of MCCalculations,*)
(* for every input.                                                        *)
(***************************************************************************)
EXTENDS AlertLimits, BudgetTracker, KnowledgeIngest, MaintenanceCoach, MCCalculations,
        FiniteSums, SequenceTheorems, NaturalsInduction, TLAPS

-----------------------------------------------------------------------------
(* Rows of the trail in a span of time.                                    *)

AuditRow == [at : Nat, decision : Decisions, severity : Severities]

\* Those of the last span steps, and those up to row k in the span it ends.
LastOf(rs, dec, span, n) == {j \in DOMAIN rs : rs[j].decision = dec /\ rs[j].at >= n - span}
UpTo(rs, dec, span, k) ==
  {j \in DOMAIN rs : rs[j].decision = dec /\ rs[k].at - span <= rs[j].at /\ rs[j].at <= rs[k].at}
Spaced(rs, dec, span, most) ==
  \A k \in DOMAIN rs : rs[k].decision = dec => Cardinality(UpTo(rs, dec, span, k)) <= most

LEMMA RowTypes ==
  ASSUME NEW rs \in Seq(AuditRow)
  PROVE  \A j \in DOMAIN rs : rs[j] \in AuditRow /\ rs[j].at \in Nat /\ rs[j].decision \in Decisions
<1>1. \A j \in DOMAIN rs : rs[j] \in AuditRow
  OBVIOUS
<1>2. \A r \in AuditRow : r.at \in Nat /\ r.decision \in Decisions
  BY DEF AuditRow
<1> QED BY <1>1, <1>2

LEMMA RowsFinite ==
  ASSUME NEW rs \in Seq(AuditRow), NEW S \in SUBSET (DOMAIN rs)
  PROVE  IsFiniteSet(S) /\ Cardinality(S) \in Nat
<1>1. DOMAIN rs = 1..Len(rs) /\ Len(rs) \in Nat
  OBVIOUS
<1>2. IsFiniteSet(1..Len(rs))
  BY <1>1, FS_Interval
<1>3. IsFiniteSet(S)
  BY <1>1, <1>2, FS_Subset
<1> QED BY <1>3, FS_CardinalityType

LEMMA LastOfAppend ==
  ASSUME NEW rs \in Seq(AuditRow), NEW row \in AuditRow, NEW dec, NEW span \in Nat, row.at \in Nat
  PROVE  /\ row.decision # dec =>
              LastOf(Append(rs, row), dec, span, row.at) = LastOf(rs, dec, span, row.at)
         /\ row.decision = dec =>
              /\ LastOf(Append(rs, row), dec, span, row.at) = LastOf(rs, dec, span, row.at) \cup {Len(rs) + 1}
              /\ Cardinality(LastOf(Append(rs, row), dec, span, row.at))
                   = Cardinality(LastOf(rs, dec, span, row.at)) + 1
<1> DEFINE m == Len(rs) + 1
           new == Append(rs, row)
<1>1. /\ DOMAIN new = DOMAIN rs \cup {m} /\ m \notin DOMAIN rs
      /\ new[m] = row /\ \A j \in DOMAIN rs : new[j] = rs[j]
  OBVIOUS
<1>2. row.at >= row.at - span
  OBVIOUS
<1>3. ASSUME row.decision = dec
      PROVE  LastOf(new, dec, span, row.at) = LastOf(rs, dec, span, row.at) \cup {m}
  <2> HIDE DEF new, m
  <2> QED BY <1>1, <1>2, <1>3 DEF LastOf
<1>4. ASSUME row.decision # dec
      PROVE  LastOf(new, dec, span, row.at) = LastOf(rs, dec, span, row.at)
  <2> HIDE DEF new, m
  <2> QED BY <1>1, <1>4 DEF LastOf
<1>5. IsFiniteSet(LastOf(rs, dec, span, row.at)) /\ m \notin LastOf(rs, dec, span, row.at)
  <2>1. LastOf(rs, dec, span, row.at) \in SUBSET (DOMAIN rs)
    BY DEF LastOf
  <2> QED BY <1>1, <2>1, RowsFinite
<1>6. Cardinality(LastOf(rs, dec, span, row.at) \cup {m}) = Cardinality(LastOf(rs, dec, span, row.at)) + 1
  BY <1>5, FS_AddElement
<1> QED BY <1>3, <1>4, <1>6

\* A row written now counts with those of the last span only, and the rows
\* written before keep the spans they end.
LEMMA SpacedAppend ==
  ASSUME NEW rs \in Seq(AuditRow), NEW row \in AuditRow, NEW dec, NEW span \in Nat, NEW most \in Int,
         \A j \in DOMAIN rs : rs[j].at <= row.at,
         Spaced(rs, dec, span, most),
         row.decision = dec => Cardinality(LastOf(rs, dec, span, row.at)) + 1 <= most
  PROVE  Spaced(Append(rs, row), dec, span, most)
<1> DEFINE m == Len(rs) + 1
           new == Append(rs, row)
<1>1. /\ DOMAIN new = DOMAIN rs \cup {m} /\ m \notin DOMAIN rs
      /\ new[m] = row /\ \A j \in DOMAIN rs : new[j] = rs[j]
  OBVIOUS
<1>2. row.at \in Nat /\ \A j \in DOMAIN rs : rs[j].at \in Nat
  <2>1. row.at \in Nat
    BY DEF AuditRow
  <2> QED BY <2>1, RowTypes
<1>3. ASSUME NEW k \in DOMAIN new, new[k].decision = dec
      PROVE  Cardinality(UpTo(new, dec, span, k)) <= most
  <2> HIDE DEF new, m
  <2>1. CASE row.decision = dec /\ new[k].at = row.at
    <3>1. UpTo(new, dec, span, k) = LastOf(rs, dec, span, row.at) \cup {m}
      BY <1>1, <1>2, <2>1 DEF UpTo, LastOf
    <3>2. LastOf(rs, dec, span, row.at) \cup {m} = LastOf(new, dec, span, row.at)
      BY <2>1, LastOfAppend, <1>2, ZenonT(40) DEF new, m
    <3>3. Cardinality(LastOf(new, dec, span, row.at)) = Cardinality(LastOf(rs, dec, span, row.at)) + 1
      BY <1>2, <2>1, LastOfAppend DEF new
    <3>4. Cardinality(LastOf(new, dec, span, row.at)) <= most
      BY <2>1, <3>3
    <3> QED BY <3>1, <3>2, <3>4
  <2>2. CASE row.decision # dec \/ new[k].at # row.at
    <3>1. k \in DOMAIN rs /\ rs[k].decision = dec
      BY <1>1, <1>3, <2>2
    <3>2. UpTo(new, dec, span, k) = UpTo(rs, dec, span, k)
      <4>1. m \notin UpTo(new, dec, span, k)
        BY <1>1, <1>2, <2>2, <3>1 DEF UpTo
      <4> QED BY <1>1, <3>1, <4>1 DEF UpTo
    <3> QED BY <3>1, <3>2 DEF Spaced
  <2> QED BY <2>1, <2>2
<1> QED BY <1>3 DEF Spaced

\* As time passes fewer rows are recent.
LEMMA LastOfPasses ==
  ASSUME NEW rs \in Seq(AuditRow), NEW dec, NEW span \in Nat, NEW n \in Nat
  PROVE  /\ Cardinality(LastOf(rs, dec, span, n + 1)) <= Cardinality(LastOf(rs, dec, span, n))
         /\ Cardinality(LastOf(rs, dec, span, n)) \in Nat
         /\ Cardinality(LastOf(rs, dec, span, n + 1)) \in Nat
<1>1. \A j \in DOMAIN rs : rs[j].at \in Nat
  BY RowTypes
<1>2. /\ LastOf(rs, dec, span, n + 1) \in SUBSET LastOf(rs, dec, span, n)
      /\ LastOf(rs, dec, span, n) \in SUBSET DOMAIN rs
      /\ LastOf(rs, dec, span, n + 1) \in SUBSET DOMAIN rs
  BY <1>1 DEF LastOf
<1> QED BY <1>2, RowsFinite, FS_Subset

-----------------------------------------------------------------------------
(* AlertLimits: what each scan and each governor may still write counts    *)
(* against the limit it has read.                                          *)

ScanStates ==
  {Quiet} \cup [pc : {"write"}, severity : Severities, allowed : BOOLEAN] \cup [pc : {"publish"}, row : Nat]
GovernorStates == {Quiet} \cup [pc : {"count", "alert"}] \cup [pc : {"queue"}, row : Nat]

LimitsTypes ==
  /\ now \in Nat /\ failures \in Nat
  /\ rows \in Seq(AuditRow) /\ \A k \in DOMAIN rows : rows[k].at <= now
  /\ scan \in [Detectors -> ScanStates]
  /\ governor \in [Gateways -> GovernorStates]

\* The scans that will emit an alert, the gateways past the cool-down's check,
\* the alerts of which nobody asks an approval any more.
Allowed == {d \in Detectors : scan[d].pc = "write" /\ scan[d].allowed}
Checked == {g \in Gateways : governor[g].pc \in {"count", "alert"}}
Unqueued ==
  {k \in Of("governor_alert") \ approvals : \A g \in Gateways : governor[g] # [pc |-> "queue", row |-> k]}

Most == Limit + Cardinality(Detectors) - 1
AlertsRoom ==
  /\ Allowed # {} => Cardinality(LastOf(rows, "auto", Hour, now)) + Cardinality(Allowed) <= Most
  /\ Spaced(rows, "auto", Hour, Most)
GovernorRoom ==
  /\ Checked # {} =>
       Cardinality(LastOf(rows, "governor_alert", CoolDown - 1, now)) + Cardinality(Checked) <= Cardinality(Gateways)
  /\ Spaced(rows, "governor_alert", CoolDown - 1, Cardinality(Gateways))
WorthPredicting(rs, k) == k \in DOMAIN rs /\ rs[k].decision = "auto" /\ rs[k].severity = "major"
PublishesRecorded ==
  /\ \A k \in triggers : WorthPredicting(rows, k)
  /\ \A d \in Detectors : scan[d].pc = "publish" => WorthPredicting(rows, scan[d].row)
QueueRecorded ==
  /\ approvals \subseteq Of("governor_alert")
  /\ \A g \in Gateways : governor[g].pc = "queue" => governor[g].row \in Of("governor_alert")
  /\ Cardinality(Unqueued) <= failures

LimitsIInv == LimitsTypes /\ AlertsRoom /\ GovernorRoom /\ PublishesRecorded /\ QueueRecorded

LEMMA LimitsCounts ==
  /\ Cardinality(Detectors) \in Nat /\ Cardinality(Gateways) \in Nat /\ Most \in Int
  /\ Hour \in Nat /\ CoolDown - 1 \in Nat /\ Limit \in Nat
BY LimitsAssumption, FS_CardinalityType DEF Most

LEMMA ScanFields ==
  ASSUME NEW s \in ScanStates
  PROVE  /\ s.pc \in {"quiet", "write", "publish"}
         /\ s.pc = "quiet" => s = Quiet
         /\ s.pc = "write" => s.severity \in Severities /\ s.allowed \in BOOLEAN
         /\ s.pc = "publish" => s.row \in Nat
BY DEF ScanStates, Quiet

LEMMA GovernorFields ==
  ASSUME NEW s \in GovernorStates
  PROVE  /\ s.pc \in {"quiet", "count", "alert", "queue"}
         /\ s.pc = "quiet" => s = Quiet
         /\ s.pc = "queue" => s.row \in Nat /\ s = [pc |-> "queue", row |-> s.row]
BY DEF GovernorStates, Quiet

LEMMA WriteAppends ==
  ASSUME LimitsTypes, NEW dec \in Decisions, NEW sev \in Severities, Write(dec, sev)
  PROVE  \E row \in AuditRow :
            /\ row.at = now /\ row.decision = dec /\ row.severity = sev
            /\ rows' = Append(rows, row) /\ rows' \in Seq(AuditRow)
            /\ Len(rows) \in Nat /\ Len(rows') = Len(rows) + 1
            /\ DOMAIN rows' = DOMAIN rows \cup {Len(rows')} /\ Len(rows') \notin DOMAIN rows
            /\ rows'[Len(rows')] = row /\ \A j \in DOMAIN rows : rows'[j] = rows[j]
            /\ \A j \in DOMAIN rows : rows[j].at <= row.at
            /\ \A j \in DOMAIN rows' : rows'[j].at <= now
<1> DEFINE row == [at |-> now, decision |-> dec, severity |-> sev]
<1>1. row \in AuditRow /\ row.at = now /\ row.decision = dec /\ row.severity = sev
  BY DEF AuditRow, LimitsTypes
<1>2. rows' = Append(rows, row)
  BY DEF Write
<1>3. rows \in Seq(AuditRow) /\ now \in Nat /\ \A j \in DOMAIN rows : rows[j].at <= now
  BY DEF LimitsTypes
<1> HIDE DEF row
<1>4. /\ rows' \in Seq(AuditRow)
      /\ Len(rows) \in Nat /\ Len(rows') = Len(rows) + 1
      /\ DOMAIN rows' = DOMAIN rows \cup {Len(rows')} /\ Len(rows') \notin DOMAIN rows
      /\ rows'[Len(rows')] = row /\ \A j \in DOMAIN rows : rows'[j] = rows[j]
  BY <1>1, <1>2, <1>3
<1>5. \A j \in DOMAIN rows' : rows'[j].at <= now
  BY <1>1, <1>3, <1>4
<1> QED BY <1>1, <1>2, <1>3, <1>4, <1>5

LEMMA LimitsTypesHold ==
  ASSUME LimitsTypes, [LimitsNext]_limitvars
  PROVE  LimitsTypes'
<1> USE DEF LimitsTypes
<1>1. CASE Tick
  <2>1. now' = now + 1 /\ UNCHANGED <<rows, scan, governor, failures>>
    BY <1>1 DEF Tick
  <2>2. \A k \in DOMAIN rows : rows[k].at \in Nat
    BY RowTypes
  <2> QED BY <2>1, <2>2
<1>2. CASE HumanDecides
  <2>1. Write("human", "minor") /\ UNCHANGED <<now, scan, governor, failures>>
    BY <1>2 DEF HumanDecides
  <2>2. rows' \in Seq(AuditRow) /\ \A j \in DOMAIN rows' : rows'[j].at <= now
    <3> HIDE DEF LimitsTypes
    <3> QED BY <2>1, WriteAppends DEF Decisions, Severities
  <2> QED BY <2>1, <2>2
<1>3. ASSUME NEW d \in Detectors, NEW severity \in Severities, Find(d, severity)
      PROVE  LimitsTypes'
  <2>1. [pc |-> "write", severity |-> severity, allowed |-> Cardinality(Counted) < Limit] \in ScanStates
    BY DEF ScanStates
  <2> QED BY <1>3, <2>1 DEF Find
<1>4. ASSUME NEW d \in Detectors, WriteAlert(d)
      PROVE  LimitsTypes'
  <2>1. scan[d].severity \in Severities /\ UNCHANGED <<now, governor, failures>>
    BY <1>4, ScanFields DEF WriteAlert
  <2>2. Write(IF scan[d].allowed THEN "auto" ELSE "suppressed", scan[d].severity)
    BY <1>4 DEF WriteAlert
  <2>3. rows' \in Seq(AuditRow) /\ Len(rows') \in Nat /\ \A j \in DOMAIN rows' : rows'[j].at <= now
    <3>1. (IF scan[d].allowed THEN "auto" ELSE "suppressed") \in Decisions
      BY DEF Decisions
    <3> HIDE DEF LimitsTypes
    <3> QED BY <2>1, <2>2, <3>1, WriteAppends
  <2>4. Quiet \in ScanStates /\ [pc |-> "publish", row |-> Len(rows')] \in ScanStates
    BY <2>3 DEF ScanStates
  <2>5. scan' \in [Detectors -> ScanStates]
    BY <1>4, <2>4 DEF WriteAlert
  <2> QED BY <2>1, <2>3, <2>5
<1>5. ASSUME NEW d \in Detectors, WriteAlertFails(d) \/ PublishTrigger(d)
      PROVE  LimitsTypes'
  <2>1. Quiet \in ScanStates
    BY DEF ScanStates
  <2> QED BY <1>5, <2>1 DEF WriteAlertFails, PublishTrigger
<1>6. ASSUME NEW g \in Gateways, ReadCoolDown(g) \/ ReadCounts(g) \/ Enqueue(g)
      PROVE  LimitsTypes'
  <2>1. Quiet \in GovernorStates /\ [pc |-> "count"] \in GovernorStates /\ [pc |-> "alert"] \in GovernorStates
    BY DEF GovernorStates
  <2> QED BY <1>6, <2>1 DEF ReadCoolDown, ReadCounts, Enqueue
<1>7. ASSUME NEW g \in Gateways, WriteGovernorAlert(g)
      PROVE  LimitsTypes'
  <2>1. CASE Write("governor_alert", "major")
                /\ governor' = [governor EXCEPT ![g] = [pc |-> "queue", row |-> Len(rows')]]
                /\ UNCHANGED failures
    <3>1. rows' \in Seq(AuditRow) /\ Len(rows') \in Nat /\ \A j \in DOMAIN rows' : rows'[j].at <= now
      <4> HIDE DEF LimitsTypes
      <4> QED BY <2>1, WriteAppends DEF Decisions, Severities
    <3>2. [pc |-> "queue", row |-> Len(rows')] \in GovernorStates
      BY <3>1 DEF GovernorStates
    <3> QED BY <1>7, <2>1, <3>1, <3>2 DEF WriteGovernorAlert
  <2>2. CASE failures' = failures + 1 /\ governor' = [governor EXCEPT ![g] = Quiet] /\ UNCHANGED rows
    <3>1. Quiet \in GovernorStates
      BY DEF GovernorStates
    <3> QED BY <1>7, <2>2, <3>1 DEF WriteGovernorAlert
  <2> QED BY <1>7, <2>1, <2>2 DEF WriteGovernorAlert
<1>8. CASE UNCHANGED limitvars
  BY <1>8 DEF limitvars
<1> QED BY <1>1, <1>2, <1>3, <1>4, <1>5, <1>6, <1>7, <1>8 DEF LimitsNext

\* A limit that counts what is written and what may still be written is kept:
\* by a row of another kind, by a step that only lets fewer write, as time
\* passes, and by the row of one that may write.
LEMMA RoomKept ==
  ASSUME NEW rs \in Seq(AuditRow), NEW n \in Nat, \A j \in DOMAIN rs : rs[j].at <= n,
         NEW rs2, NEW n2, NEW dec, NEW span \in Nat, NEW most \in Int,
         NEW P, IsFiniteSet(P), NEW A \in SUBSET P, NEW B \in SUBSET P,
         A # {} => Cardinality(LastOf(rs, dec, span, n)) + Cardinality(A) <= most,
         Spaced(rs, dec, span, most),
         \/ B \in SUBSET A /\ rs2 = rs /\ n2 \in {n, n + 1}
         \/ /\ n2 = n
            /\ \E row \in AuditRow :
                 /\ rs2 = Append(rs, row) /\ row.at = n
                 /\ \/ B \in SUBSET A /\ row.decision # dec
                    \/ row.decision = dec /\ \E p \in A : B = A \ {p}
  PROVE  /\ B # {} => Cardinality(LastOf(rs2, dec, span, n2)) + Cardinality(B) <= most
         /\ Spaced(rs2, dec, span, most)
<1> DEFINE L == Cardinality(LastOf(rs, dec, span, n))
           L2 == Cardinality(LastOf(rs2, dec, span, n2))
<1>2. /\ Cardinality(A) \in Nat /\ Cardinality(B) \in Nat /\ IsFiniteSet(A)
      /\ \A p \in A : Cardinality(A \ {p}) = Cardinality(A) - 1
      /\ B \in SUBSET A => Cardinality(B) <= Cardinality(A)
  <2>1. IsFiniteSet(A) /\ IsFiniteSet(B)
    BY FS_Subset
  <2>2. Cardinality(A) \in Nat /\ Cardinality(B) \in Nat
    BY <2>1, FS_CardinalityType
  <2>3. \A p \in A : Cardinality(A \ {p}) = Cardinality(A) - 1
    BY <2>1, FS_RemoveElement
  <2>4. B \in SUBSET A => Cardinality(B) <= Cardinality(A)
    BY <2>1, FS_Subset
  <2> QED BY <2>1, <2>2, <2>3, <2>4
<1>3. L \in Nat
  BY LastOfPasses
<1>4. CASE B \in SUBSET A /\ rs2 = rs /\ n2 \in {n, n + 1}
  <2>1. L2 <= L /\ L2 \in Nat
    <3>1. CASE n2 = n
      <4>1. L2 = L
        BY <1>4, <3>1
      <4> HIDE DEF L, L2
      <4> QED BY <1>3, <4>1
    <3>2. CASE n2 = n + 1
      <4>1. L2 = Cardinality(LastOf(rs, dec, span, n + 1))
        BY <1>4, <3>2
      <4>2. Cardinality(LastOf(rs, dec, span, n + 1)) <= L /\ Cardinality(LastOf(rs, dec, span, n + 1)) \in Nat
        BY LastOfPasses
      <4> HIDE DEF L, L2
      <4> QED BY <4>1, <4>2
    <3> QED BY <1>4, <3>1, <3>2
  <2>2. B # {} => A # {}
    BY <1>4
  <2> HIDE DEF L, L2
  <2>3. B # {} => L2 + Cardinality(B) <= most
    BY <1>2, <1>3, <1>4, <2>1, <2>2 DEF L
  <2> QED BY <1>4, <2>3 DEF L2
<1>5. ASSUME NEW row \in AuditRow, n2 = n, rs2 = Append(rs, row), row.at = n,
             \/ B \in SUBSET A /\ row.decision # dec
             \/ row.decision = dec /\ \E p \in A : B = A \ {p}
      PROVE  /\ B # {} => L2 + Cardinality(B) <= most
             /\ Spaced(rs2, dec, span, most)
  <2>1. CASE B \in SUBSET A /\ row.decision # dec
    <3>1. L2 = L
      <4>1. LastOf(Append(rs, row), dec, span, row.at) = LastOf(rs, dec, span, row.at)
        BY <1>5, <2>1, LastOfAppend
      <4> QED BY <1>5, <4>1
    <3>2. Spaced(rs2, dec, span, most)
      BY <1>5, <2>1, SpacedAppend
    <3>3. B # {} => A # {}
      BY <2>1
    <3> HIDE DEF L, L2
    <3> QED BY <1>2, <1>3, <2>1, <3>1, <3>2, <3>3 DEF L
  <2>2. CASE row.decision = dec /\ \E p \in A : B = A \ {p}
    <3>1. L2 = L + 1
      BY <1>5, <2>2, LastOfAppend, ZenonT(40)
    <3>2. A # {} /\ Cardinality(B) = Cardinality(A) - 1
      BY <1>2, <2>2
    <3>3. L + Cardinality(A) <= most
      BY <3>2
    <3>4. L + 1 <= most /\ L2 + Cardinality(B) <= most
      <4> HIDE DEF L, L2
      <4> QED BY <1>2, <1>3, <3>1, <3>2, <3>3
    <3>5. Spaced(rs2, dec, span, most)
      BY <1>5, <3>4, SpacedAppend
    <3> QED BY <3>4, <3>5
  <2> QED BY <1>5, <2>1, <2>2
<1> HIDE DEF L, L2
<1> QED BY <1>4, <1>5 DEF L2

LEMMA AlertsRoomHolds ==
  ASSUME LimitsTypes, AlertsRoom, [LimitsNext]_limitvars
  PROVE  AlertsRoom'
<1> DEFINE Kept(row) == Allowed' \in SUBSET Allowed /\ row.decision # "auto"
           Taken(row) == row.decision = "auto" /\ \E d \in Allowed : Allowed' = Allowed \ {d}
           Waits == Allowed' \in SUBSET Allowed /\ rows' = rows /\ now' \in {now, now + 1}
           Writes == now' = now /\ \E row \in AuditRow :
                       rows' = Append(rows, row) /\ row.at = now /\ (Kept(row) \/ Taken(row))
<1>1. ASSUME Waits \/ Writes
      PROVE  AlertsRoom'
  <2>1. /\ rows \in Seq(AuditRow) /\ now \in Nat /\ \A j \in DOMAIN rows : rows[j].at <= now
        /\ Allowed \in SUBSET Detectors /\ Allowed' \in SUBSET Detectors
        /\ IsFiniteSet(Detectors)
    BY LimitsAssumption DEF LimitsTypes, Allowed
  <2>2. /\ Allowed # {} => Cardinality(LastOf(rows, "auto", Hour, now)) + Cardinality(Allowed) <= Most
        /\ Spaced(rows, "auto", Hour, Most)
    BY DEF AlertsRoom
  <2>3. /\ Allowed' # {} => Cardinality(LastOf(rows', "auto", Hour, now')) + Cardinality(Allowed') <= Most
        /\ Spaced(rows', "auto", Hour, Most)
    BY <1>1, <2>1, <2>2, LimitsCounts, RoomKept
  <2>4. Most' = Most
    BY DEF Most
  <2> QED BY <2>3, <2>4 DEF AlertsRoom
<1>2. CASE Tick
  BY <1>1, <1>2 DEF Tick, Allowed
<1>3. CASE HumanDecides
  <2>1. /\ Write("human", "minor") /\ now' = now /\ Allowed' = Allowed
        /\ "human" \in Decisions /\ "minor" \in Severities
    BY <1>3 DEF HumanDecides, Allowed, Decisions, Severities
  <2>2. PICK row \in AuditRow : row.at = now /\ row.decision = "human" /\ rows' = Append(rows, row)
    BY <2>1, WriteAppends
  <2>3. Kept(row)
    BY <2>1, <2>2
  <2> HIDE DEF Kept, Taken
  <2> QED BY <1>1, <2>1, <2>2, <2>3
<1>4. ASSUME NEW d \in Detectors, NEW severity \in Severities, Find(d, severity)
      PROVE  AlertsRoom'
  <2> DEFINE found == [pc |-> "write", severity |-> severity, allowed |-> Cardinality(Counted) < Limit]
  <2>1. /\ scan[d] = Quiet /\ scan' = [scan EXCEPT ![d] = found]
        /\ rows' = rows /\ now' = now /\ scan \in [Detectors -> ScanStates]
    BY <1>4 DEF Find, LimitsTypes
  <2>2. CASE ~ (Cardinality(Counted) < Limit)
    <3>1. Allowed' \in SUBSET Allowed
      BY <2>1, <2>2 DEF Allowed
    <3> QED BY <1>1, <2>1, <3>1
  <2>3. CASE Cardinality(Counted) < Limit
    <3>1. Counted \in SUBSET DOMAIN rows /\ LastOf(rows, "auto", Hour, now) \in SUBSET Counted
      BY DEF Counted, Within, LastOf
    <3>2. rows \in Seq(AuditRow)
      BY DEF LimitsTypes
    <3>3. IsFiniteSet(Counted) /\ Cardinality(Counted) \in Nat
      BY <3>1, <3>2, RowsFinite
    <3>4. PICK n \in Nat : n = Cardinality(LastOf(rows, "auto", Hour, now)) /\ n < Limit
      <4>1. Cardinality(LastOf(rows, "auto", Hour, now)) <= Cardinality(Counted)
        BY <3>1, <3>3, FS_Subset
      <4>2. Cardinality(LastOf(rows, "auto", Hour, now)) \in Nat
        BY <3>1, <3>2, RowsFinite
      <4> QED BY <2>3, <3>3, <4>1, <4>2, LimitsCounts
    <3>5. PICK m \in Nat : m = Cardinality(Allowed') /\ m <= Cardinality(Detectors)
      <4>1. Allowed' \in SUBSET Detectors /\ IsFiniteSet(Detectors)
        BY LimitsAssumption DEF Allowed
      <4> QED BY <4>1, FS_Subset, FS_CardinalityType
    <3>6. n + m <= Most
      <4> QED BY <3>4, <3>5, LimitsCounts DEF Most
    <3>7. Most' = Most
      BY DEF Most
    <3> QED BY <2>1, <3>4, <3>5, <3>6, <3>7 DEF AlertsRoom
  <2> QED BY <2>2, <2>3
<1>5. ASSUME NEW d \in Detectors, WriteAlert(d)
      PROVE  AlertsRoom'
  <2> DEFINE dec == IF scan[d].allowed THEN "auto" ELSE "suppressed"
  <2>1. /\ Write(dec, scan[d].severity) /\ now' = now /\ scan[d].pc = "write"
        /\ scan[d].severity \in Severities /\ dec \in Decisions
        /\ scan \in [Detectors -> ScanStates]
    BY <1>5, ScanFields DEF WriteAlert, LimitsTypes, Decisions
  <2>2. PICK row \in AuditRow : row.at = now /\ row.decision = dec /\ rows' = Append(rows, row)
    <3> HIDE DEF dec
    <3> QED BY <2>1, WriteAppends
  <2>3. Allowed' = Allowed \ {d}
    <3>1. scan'[d].pc # "write" /\ \A e \in Detectors \ {d} : scan'[e] = scan[e]
      BY <1>5, <2>1 DEF WriteAlert, Quiet
    <3> QED BY <3>1 DEF Allowed
  <2>4. Kept(row) \/ Taken(row)
    <3>1. CASE scan[d].allowed
      <4>1. d \in Allowed
        BY <2>1, <3>1 DEF Allowed
      <4> QED BY <2>2, <2>3, <3>1, <4>1
    <3>2. CASE ~ scan[d].allowed
      BY <2>2, <2>3, <3>2
    <3> QED BY <3>1, <3>2
  <2> HIDE DEF Kept, Taken
  <2> QED BY <1>1, <2>1, <2>2, <2>4
<1>6. ASSUME NEW d \in Detectors, WriteAlertFails(d) \/ PublishTrigger(d)
      PROVE  AlertsRoom'
  <2>1. Allowed' \in SUBSET Allowed
    BY <1>6 DEF WriteAlertFails, PublishTrigger, Allowed, LimitsTypes, Quiet
  <2> QED BY <1>1, <1>6, <2>1 DEF WriteAlertFails, PublishTrigger
<1>7. ASSUME NEW g \in Gateways, ReadCoolDown(g) \/ ReadCounts(g) \/ Enqueue(g)
      PROVE  AlertsRoom'
  BY <1>1, <1>7 DEF ReadCoolDown, ReadCounts, Enqueue, Allowed
<1>8. ASSUME NEW g \in Gateways, WriteGovernorAlert(g)
      PROVE  AlertsRoom'
  <2>1. now' = now /\ Allowed' = Allowed /\ "governor_alert" \in Decisions /\ "major" \in Severities
    BY <1>8 DEF WriteGovernorAlert, Allowed, Decisions, Severities
  <2>2. CASE Write("governor_alert", "major")
    <3>1. PICK row \in AuditRow : row.at = now /\ row.decision = "governor_alert" /\ rows' = Append(rows, row)
      BY <2>1, <2>2, WriteAppends
    <3>2. Kept(row)
      BY <2>1, <3>1
    <3> HIDE DEF Kept, Taken
    <3> QED BY <1>1, <2>1, <3>1, <3>2
  <2>3. CASE UNCHANGED rows
    BY <1>1, <2>1, <2>3
  <2> QED BY <1>8, <2>2, <2>3 DEF WriteGovernorAlert
<1>9. CASE UNCHANGED limitvars
  BY <1>1, <1>9 DEF limitvars, Allowed
<1> QED BY <1>2, <1>3, <1>4, <1>5, <1>6, <1>7, <1>8, <1>9 DEF LimitsNext

LEMMA GovernorRoomHolds ==
  ASSUME LimitsTypes, GovernorRoom, [LimitsNext]_limitvars
  PROVE  GovernorRoom'
<1> DEFINE Kept(row) == Checked' \in SUBSET Checked /\ row.decision # "governor_alert"
           Taken(row) == row.decision = "governor_alert" /\ \E g \in Checked : Checked' = Checked \ {g}
           Waits == Checked' \in SUBSET Checked /\ rows' = rows /\ now' \in {now, now + 1}
           Writes == now' = now /\ \E row \in AuditRow :
                       rows' = Append(rows, row) /\ row.at = now /\ (Kept(row) \/ Taken(row))
<1>1. ASSUME Waits \/ Writes
      PROVE  GovernorRoom'
  <2>1. /\ rows \in Seq(AuditRow) /\ now \in Nat /\ \A j \in DOMAIN rows : rows[j].at <= now
        /\ Checked \in SUBSET Gateways /\ Checked' \in SUBSET Gateways
        /\ IsFiniteSet(Gateways) /\ Cardinality(Gateways) \in Int
    BY LimitsAssumption, LimitsCounts DEF LimitsTypes, Checked
  <2>2. PICK span \in Nat : span = CoolDown - 1
    BY LimitsCounts
  <2>3. /\ Checked # {} => Cardinality(LastOf(rows, "governor_alert", span, now)) + Cardinality(Checked)
                             <= Cardinality(Gateways)
        /\ Spaced(rows, "governor_alert", span, Cardinality(Gateways))
    BY <2>2 DEF GovernorRoom
  <2>4. /\ Checked' # {} => Cardinality(LastOf(rows', "governor_alert", span, now')) + Cardinality(Checked')
                              <= Cardinality(Gateways)
        /\ Spaced(rows', "governor_alert", span, Cardinality(Gateways))
    BY <1>1, <2>1, <2>3, LimitsCounts, RoomKept
  <2> QED BY <2>2, <2>4 DEF GovernorRoom
<1>2. ASSUME NEW dec \in Decisions, NEW sev \in Severities, Write(dec, sev), dec # "governor_alert",
             now' = now, Checked' = Checked
      PROVE  GovernorRoom'
  <2>1. PICK row \in AuditRow : row.at = now /\ row.decision = dec /\ rows' = Append(rows, row)
    BY <1>2, WriteAppends
  <2>2. Kept(row)
    BY <1>2, <2>1
  <2> HIDE DEF Kept, Taken
  <2> QED BY <1>1, <1>2, <2>1, <2>2
<1>3. CASE Tick
  BY <1>1, <1>3 DEF Tick, Checked
<1>4. CASE HumanDecides
  BY <1>2, <1>4 DEF HumanDecides, Checked, Decisions, Severities
<1>5. ASSUME NEW d \in Detectors, WriteAlert(d)
      PROVE  GovernorRoom'
  <2>1. Write(IF scan[d].allowed THEN "auto" ELSE "suppressed", scan[d].severity) /\ now' = now /\ Checked' = Checked
    BY <1>5 DEF WriteAlert, Checked
  <2>2. /\ scan[d].severity \in Severities
        /\ (IF scan[d].allowed THEN "auto" ELSE "suppressed") \in Decisions \ {"governor_alert"}
    BY <1>5, ScanFields DEF WriteAlert, LimitsTypes, Decisions
  <2> QED BY <1>2, <2>1, <2>2
<1>6. ASSUME NEW d \in Detectors, (\E severity \in Severities : Find(d, severity)) \/ WriteAlertFails(d) \/ PublishTrigger(d)
      PROVE  GovernorRoom'
  BY <1>1, <1>6 DEF Find, WriteAlertFails, PublishTrigger, Checked
<1>7. ASSUME NEW g \in Gateways, ReadCoolDown(g)
      PROVE  GovernorRoom'
  <2>1. rows' = rows /\ now' = now
    BY <1>7 DEF ReadCoolDown
  <2>2. LastOf(rows, "governor_alert", CoolDown - 1, now) = {}
    <3>1. now \in Nat /\ CoolDown \in Nat /\ \A j \in DOMAIN rows : rows[j].at \in Nat
      BY LimitsAssumption, RowTypes DEF LimitsTypes
    <3>2. \A j \in DOMAIN rows : rows[j].at > now - CoolDown <=> rows[j].at >= now - (CoolDown - 1)
      BY <3>1
    <3>3. \A j \in DOMAIN rows : rows[j].at > now - CoolDown => rows[j].decision # "governor_alert"
      BY <1>7 DEF ReadCoolDown, Cooling, Since
    <3> QED BY <3>2, <3>3 DEF LastOf
  <2>3. Cardinality(LastOf(rows', "governor_alert", CoolDown - 1, now')) = 0
    BY <2>1, <2>2, FS_EmptySet
  <2>4. PICK m \in Nat : m = Cardinality(Checked') /\ m <= Cardinality(Gateways)
    <3>1. Checked' \in SUBSET Gateways /\ IsFiniteSet(Gateways)
      BY LimitsAssumption DEF Checked
    <3> QED BY <3>1, FS_Subset, FS_CardinalityType
  <2> QED BY <2>1, <2>3, <2>4 DEF GovernorRoom
<1>8. ASSUME NEW g \in Gateways, ReadCounts(g) \/ Enqueue(g)
      PROVE  GovernorRoom'
  <2>1. Checked' \in SUBSET Checked
    BY <1>8 DEF ReadCounts, Enqueue, Checked, LimitsTypes, Quiet
  <2> QED BY <1>1, <1>8, <2>1 DEF ReadCounts, Enqueue
<1>9. ASSUME NEW g \in Gateways, WriteGovernorAlert(g)
      PROVE  GovernorRoom'
  <2>1. now' = now /\ g \in Checked /\ "governor_alert" \in Decisions /\ "major" \in Severities
    BY <1>9 DEF WriteGovernorAlert, Checked, Decisions, Severities
  <2>2. Checked' = Checked \ {g}
    <3>1. governor'[g].pc \notin {"count", "alert"} /\ \A h \in Gateways \ {g} : governor'[h] = governor[h]
      BY <1>9 DEF WriteGovernorAlert, Quiet, LimitsTypes
    <3> QED BY <3>1 DEF Checked
  <2>3. CASE Write("governor_alert", "major")
    <3>1. PICK row \in AuditRow : row.at = now /\ row.decision = "governor_alert" /\ rows' = Append(rows, row)
      BY <2>1, <2>3, WriteAppends
    <3>2. Taken(row)
      BY <2>1, <2>2, <3>1
    <3> HIDE DEF Kept, Taken
    <3> QED BY <1>1, <2>1, <3>1, <3>2
  <2>4. CASE UNCHANGED rows
    BY <1>1, <2>1, <2>2, <2>4
  <2> QED BY <1>9, <2>3, <2>4 DEF WriteGovernorAlert
<1>10. CASE UNCHANGED limitvars
  BY <1>1, <1>10 DEF limitvars, Checked
<1> QED BY <1>3, <1>4, <1>5, <1>6, <1>7, <1>8, <1>9, <1>10 DEF LimitsNext

\* A row is never rewritten.
LEMMA RowsStay ==
  ASSUME LimitsTypes, [LimitsNext]_limitvars
  PROVE  \A k \in DOMAIN rows : k \in DOMAIN rows' /\ rows'[k] = rows[k]
<1>1. CASE UNCHANGED rows
  BY <1>1
<1>2. ASSUME NEW dec, NEW sev, Write(dec, sev)
      PROVE  \A k \in DOMAIN rows : k \in DOMAIN rows' /\ rows'[k] = rows[k]
  BY <1>2 DEF Write, LimitsTypes
<1>3. UNCHANGED rows \/ \E dec, sev : Write(dec, sev)
  BY DEF LimitsNext, limitvars, Tick, HumanDecides, Find, WriteAlert, WriteAlertFails, PublishTrigger,
         ReadCoolDown, ReadCounts, WriteGovernorAlert, Enqueue
<1> QED BY <1>1, <1>2, <1>3

LEMMA PublishesRecordedHold ==
  ASSUME LimitsTypes, PublishesRecorded, [LimitsNext]_limitvars
  PROVE  PublishesRecorded'
<1>1. \A k : WorthPredicting(rows, k) => WorthPredicting(rows', k)
  BY RowsStay DEF WorthPredicting
<1>2. ASSUME triggers' = triggers, scan' = scan
      PROVE  PublishesRecorded'
  BY <1>1, <1>2 DEF PublishesRecorded
<1>3. ASSUME NEW d \in Detectors, NEW severity \in Severities, Find(d, severity)
      PROVE  PublishesRecorded'
  BY <1>1, <1>3 DEF PublishesRecorded, Find, LimitsTypes
<1>4. ASSUME NEW d \in Detectors, WriteAlert(d)
      PROVE  PublishesRecorded'
  <2>1. /\ Write(IF scan[d].allowed THEN "auto" ELSE "suppressed", scan[d].severity)
        /\ scan[d].severity \in Severities /\ triggers' = triggers
        /\ scan \in [Detectors -> ScanStates]
        /\ scan' = [scan EXCEPT ![d] = IF scan[d].allowed /\ scan[d].severity = "major"
                                       THEN [pc |-> "publish", row |-> Len(rows')] ELSE Quiet]
    BY <1>4, ScanFields DEF WriteAlert, LimitsTypes
  <2>2. scan[d].allowed /\ scan[d].severity = "major" => WorthPredicting(rows', Len(rows'))
    <3>1. ASSUME scan[d].allowed, scan[d].severity = "major"
          PROVE  Write("auto", "major")
      BY <2>1, <3>1
    <3> QED BY <2>1, <3>1, WriteAppends DEF WorthPredicting, Decisions, Severities
  <2>3. \A e \in Detectors \ {d} : scan'[e] = scan[e]
    BY <2>1
  <2>4. scan'[d].pc = "publish" => WorthPredicting(rows', scan'[d].row)
    BY <2>1, <2>2 DEF Quiet
  <2> QED BY <1>1, <2>1, <2>3, <2>4 DEF PublishesRecorded
<1>5. ASSUME NEW d \in Detectors, WriteAlertFails(d) \/ PublishTrigger(d)
      PROVE  PublishesRecorded'
  <2>1. \A e \in Detectors : scan'[e] = scan[e] \/ scan'[e] = Quiet
    BY <1>5 DEF WriteAlertFails, PublishTrigger, LimitsTypes
  <2>2. triggers' = triggers \/ (scan[d].pc = "publish" /\ triggers' = triggers \cup {scan[d].row})
    BY <1>5 DEF WriteAlertFails, PublishTrigger
  <2> QED BY <1>1, <2>1, <2>2 DEF PublishesRecorded, Quiet
<1>6. CASE Tick \/ HumanDecides
  BY <1>2, <1>6 DEF Tick, HumanDecides
<1>7. ASSUME NEW g \in Gateways, ReadCoolDown(g) \/ ReadCounts(g) \/ WriteGovernorAlert(g) \/ Enqueue(g)
      PROVE  PublishesRecorded'
  BY <1>2, <1>7 DEF ReadCoolDown, ReadCounts, WriteGovernorAlert, Enqueue
<1>8. CASE UNCHANGED limitvars
  BY <1>2, <1>8 DEF limitvars
<1> QED BY <1>3, <1>4, <1>5, <1>6, <1>7, <1>8 DEF LimitsNext

LEMMA QueueRecordedHolds ==
  ASSUME LimitsTypes, LimitsTypes', QueueRecorded, [LimitsNext]_limitvars
  PROVE  QueueRecorded'
<1>1. /\ rows \in Seq(AuditRow) /\ rows' \in Seq(AuditRow) /\ failures \in Nat
      /\ governor \in [Gateways -> GovernorStates]
      /\ \A k \in Of("governor_alert") : k \in Of("governor_alert")'
  BY RowsStay DEF LimitsTypes, Of
<1>2. Unqueued \in SUBSET DOMAIN rows /\ IsFiniteSet(Unqueued) /\ Cardinality(Unqueued) \in Nat
  BY <1>1, RowsFinite DEF Unqueued, Of
<1>3. ASSUME approvals' \subseteq Of("governor_alert")', Unqueued' \subseteq Unqueued, failures' >= failures, failures' \in Nat,
             \A g \in Gateways : governor'[g].pc = "queue" => governor'[g].row \in Of("governor_alert")'
      PROVE  QueueRecorded'
  <2>1. Cardinality(Unqueued') <= Cardinality(Unqueued) /\ Cardinality(Unqueued') \in Nat
    BY <1>2, <1>3, FS_Subset, FS_CardinalityType
  <2>2. Cardinality(Unqueued') <= failures'
    BY <1>1, <1>2, <1>3, <2>1 DEF QueueRecorded
  <2> QED BY <1>3, <2>2 DEF QueueRecorded
<1>4. ASSUME NEW dec \in Decisions, NEW sev \in Severities, Write(dec, sev), dec # "governor_alert"
      PROVE  Of("governor_alert")' = Of("governor_alert")
  BY <1>4, WriteAppends DEF Of
<1>5. ASSUME Of("governor_alert")' = Of("governor_alert"), approvals' = approvals, governor' = governor,
             failures' \in {failures, failures + 1}
      PROVE  QueueRecorded'
  <2>1. Unqueued' = Unqueued
    BY <1>5 DEF Unqueued
  <2> QED BY <1>1, <1>3, <1>5, <2>1 DEF QueueRecorded
<1>6. CASE Tick
  BY <1>5, <1>6 DEF Tick, Of
<1>7. CASE HumanDecides
  BY <1>4, <1>5, <1>7 DEF HumanDecides, Decisions, Severities
<1>8. ASSUME NEW d \in Detectors, WriteAlert(d)
      PROVE  QueueRecorded'
  <2>1. Write(IF scan[d].allowed THEN "auto" ELSE "suppressed", scan[d].severity)
    BY <1>8 DEF WriteAlert
  <2>2. /\ scan[d].severity \in Severities
        /\ (IF scan[d].allowed THEN "auto" ELSE "suppressed") \in Decisions \ {"governor_alert"}
    BY <1>8, ScanFields DEF WriteAlert, LimitsTypes, Decisions
  <2>3. Of("governor_alert")' = Of("governor_alert")
    BY <1>4, <2>1, <2>2
  <2> QED BY <1>5, <1>8, <2>3 DEF WriteAlert
<1>9. ASSUME NEW d \in Detectors, (\E severity \in Severities : Find(d, severity)) \/ WriteAlertFails(d) \/ PublishTrigger(d)
      PROVE  QueueRecorded'
  <2>1. Of("governor_alert")' = Of("governor_alert")
    BY <1>9 DEF Find, WriteAlertFails, PublishTrigger, Of
  <2> QED BY <1>5, <1>9, <2>1 DEF Find, WriteAlertFails, PublishTrigger
<1>10. ASSUME NEW g \in Gateways, ReadCoolDown(g) \/ ReadCounts(g)
       PROVE  QueueRecorded'
  <2>1. /\ rows' = rows /\ approvals' = approvals /\ failures' = failures
        /\ governor[g].pc # "queue" /\ governor'[g].pc # "queue"
        /\ \A h \in Gateways \ {g} : governor'[h] = governor[h]
    BY <1>1, <1>10 DEF ReadCoolDown, ReadCounts, Quiet
  <2>2. Unqueued' \subseteq Unqueued
    <3>1. \A k : governor[g] # [pc |-> "queue", row |-> k]
      BY <2>1
    <3> QED BY <2>1, <3>1 DEF Unqueued, Of
  <2>3. \A h \in Gateways : governor'[h].pc = "queue" => governor'[h].row \in Of("governor_alert")'
    BY <1>1, <2>1 DEF QueueRecorded
  <2> QED BY <1>1, <1>3, <2>1, <2>2, <2>3 DEF QueueRecorded
<1>11. ASSUME NEW g \in Gateways, WriteGovernorAlert(g)
       PROVE  QueueRecorded'
  <2>1. CASE /\ Write("governor_alert", "major")
             /\ governor' = [governor EXCEPT ![g] = [pc |-> "queue", row |-> Len(rows')]]
             /\ UNCHANGED failures
    <3>1. Of("governor_alert")' = Of("governor_alert") \cup {Len(rows')} /\ Len(rows') \notin DOMAIN rows
      BY <2>1, WriteAppends DEF Of, Decisions, Severities
    <3>2. /\ governor[g].pc = "alert" /\ governor'[g] = [pc |-> "queue", row |-> Len(rows')]
          /\ \A h \in Gateways \ {g} : governor'[h] = governor[h]
          /\ approvals' = approvals
      BY <1>1, <1>11, <2>1 DEF WriteGovernorAlert
    <3>3. Unqueued' \subseteq Unqueued
      <4>1. \A k : governor[g] # [pc |-> "queue", row |-> k]
        BY <3>2
      <4> QED BY <3>1, <3>2, <4>1 DEF Unqueued
    <3>4. \A h \in Gateways : governor'[h].pc = "queue" => governor'[h].row \in Of("governor_alert")'
      BY <1>1, <3>1, <3>2 DEF QueueRecorded
    <3> QED BY <1>1, <1>3, <2>1, <3>1, <3>2, <3>3, <3>4 DEF QueueRecorded
  <2>2. CASE failures' = failures + 1 /\ governor' = [governor EXCEPT ![g] = Quiet] /\ UNCHANGED rows
    <3>1. /\ governor[g].pc = "alert" /\ governor'[g] = Quiet
          /\ \A h \in Gateways \ {g} : governor'[h] = governor[h]
          /\ approvals' = approvals
      BY <1>1, <1>11, <2>2 DEF WriteGovernorAlert
    <3>2. Unqueued' \subseteq Unqueued
      <4>1. \A k : governor[g] # [pc |-> "queue", row |-> k]
        BY <3>1
      <4> QED BY <2>2, <3>1, <4>1 DEF Unqueued, Of
    <3>3. \A h \in Gateways : governor'[h].pc = "queue" => governor'[h].row \in Of("governor_alert")'
      BY <1>1, <3>1 DEF QueueRecorded, Quiet
    <3> QED BY <1>1, <1>3, <2>2, <3>1, <3>2, <3>3 DEF QueueRecorded
  <2> QED BY <1>11, <2>1, <2>2 DEF WriteGovernorAlert
<1>12. ASSUME NEW g \in Gateways, Enqueue(g)
       PROVE  QueueRecorded'
  <2> DEFINE r == governor[g].row
  <2>1. /\ governor[g].pc = "queue" /\ governor'[g] = Quiet /\ rows' = rows
        /\ \A h \in Gateways \ {g} : governor'[h] = governor[h]
        /\ r \in Of("governor_alert") /\ governor[g] = [pc |-> "queue", row |-> r]
    BY <1>1, <1>12, GovernorFields DEF Enqueue, QueueRecorded
  <2>2. \A h \in Gateways : governor'[h].pc = "queue" => governor'[h].row \in Of("governor_alert")'
    BY <1>1, <2>1 DEF QueueRecorded, Quiet
  <2> HIDE DEF r
  <2>3. CASE approvals' = approvals \cup {r} /\ UNCHANGED failures
    <3>1. Unqueued' \subseteq Unqueued
      BY <2>1, <2>3 DEF Unqueued, Of
    <3> QED BY <1>1, <1>3, <2>1, <2>2, <2>3, <3>1 DEF QueueRecorded
  <2>4. CASE failures' = failures + 1 /\ UNCHANGED approvals
    <3>1. Unqueued' \subseteq Unqueued \cup {r}
      BY <2>1, <2>4 DEF Unqueued, Of
    <3>2. IsFiniteSet(Unqueued \cup {r}) /\ Cardinality(Unqueued \cup {r}) <= Cardinality(Unqueued) + 1
          /\ Cardinality(Unqueued \cup {r}) \in Nat
      <4>1. CASE r \in Unqueued
        <5>1. Unqueued \cup {r} = Unqueued
          BY <4>1
        <5> QED BY <1>2, <5>1
      <4>2. CASE r \notin Unqueued
        <5>1. IsFiniteSet(Unqueued \cup {r}) /\ Cardinality(Unqueued \cup {r}) = Cardinality(Unqueued) + 1
          BY <1>2, <4>2, FS_AddElement
        <5> QED BY <1>2, <5>1
      <4> QED BY <4>1, <4>2
    <3>3. Cardinality(Unqueued') <= Cardinality(Unqueued \cup {r}) /\ Cardinality(Unqueued') \in Nat
      BY <3>1, <3>2, FS_Subset, FS_CardinalityType
    <3>4. Cardinality(Unqueued') <= failures'
      <4>1. PICK a \in Nat, b \in Nat, c \in Nat :
              a = Cardinality(Unqueued') /\ b = Cardinality(Unqueued \cup {r}) /\ c = Cardinality(Unqueued)
        BY <1>2, <3>2, <3>3
      <4> QED BY <1>1, <2>4, <3>2, <3>3, <4>1 DEF QueueRecorded
    <3>5. approvals' \subseteq Of("governor_alert")'
      BY <1>1, <2>4 DEF QueueRecorded
    <3> QED BY <2>2, <3>4, <3>5 DEF QueueRecorded
  <2> QED BY <1>12, <2>3, <2>4 DEF Enqueue, r
<1>13. CASE UNCHANGED limitvars
  BY <1>5, <1>13 DEF limitvars, Of
<1> QED BY <1>6, <1>7, <1>8, <1>9, <1>10, <1>11, <1>12, <1>13 DEF LimitsNext

LEMMA LimitsStart ==
  ASSUME LimitsInit
  PROVE  LimitsIInv
<1>1. rows = <<>> /\ DOMAIN rows = {} /\ approvals = {} /\ triggers = {} /\ failures = 0 /\ now = 0
  BY DEF LimitsInit
<1>2. Allowed = {} /\ Checked = {} /\ Unqueued = {} /\ Of("governor_alert") = {}
  BY <1>1 DEF LimitsInit, Allowed, Checked, Unqueued, Of, Quiet
<1>3. LimitsTypes
  BY <1>1 DEF LimitsInit, LimitsTypes, ScanStates, GovernorStates
<1>4. AlertsRoom /\ GovernorRoom
  BY <1>1, <1>2 DEF AlertsRoom, GovernorRoom, Spaced
<1>5. PublishesRecorded
  BY <1>1 DEF LimitsInit, PublishesRecorded, Quiet
<1>6. QueueRecorded
  BY <1>1, <1>2, FS_EmptySet DEF LimitsInit, QueueRecorded, Quiet
<1> QED BY <1>3, <1>4, <1>5, <1>6 DEF LimitsIInv

LEMMA LimitsMean ==
  ASSUME LimitsIInv
  PROVE  AlertsLimited
<1>1. AlertsBounded
  <2>1. \A k \in Of("auto") : InOneHour(Of("auto"), k) = UpTo(rows, "auto", Hour, k)
    BY DEF InOneHour, Of, UpTo
  <2> QED BY <2>1 DEF AlertsBounded, LimitsIInv, AlertsRoom, Spaced, Of, Most
<1>2. TriggersRecorded
  BY DEF TriggersRecorded, LimitsIInv, PublishesRecorded, WorthPredicting
<1>3. GovernorAlertsSpaced
  <2>1. \A k \in Of("governor_alert") :
          {j \in Of("governor_alert") : rows[k].at - CoolDown < rows[j].at /\ rows[j].at <= rows[k].at}
            = UpTo(rows, "governor_alert", CoolDown - 1, k)
    <3>1. CoolDown \in Nat /\ \A k \in DOMAIN rows : rows[k].at \in Nat
      BY LimitsAssumption, RowTypes DEF LimitsIInv, LimitsTypes
    <3>2. \A k, j \in DOMAIN rows :
            rows[k].at - CoolDown < rows[j].at <=> rows[k].at - (CoolDown - 1) <= rows[j].at
      BY <3>1
    <3> QED BY <3>2 DEF Of, UpTo
  <2> QED BY <2>1 DEF GovernorAlertsSpaced, LimitsIInv, GovernorRoom, Spaced, Of
<1>4. AlertsQueued
  BY DEF AlertsQueued, LimitsIInv, QueueRecorded, Unqueued
<1> QED BY <1>1, <1>2, <1>3, <1>4 DEF AlertsLimited

\* However the scans and the governors interleave, any hour has at most the
\* limit of alerts and one for each further scan, any cool-down one alert a
\* gateway, a prediction is triggered by a recorded alert only, and an alert
\* without an approval is being handled or met a failure.
THEOREM AlertsStayLimited == LimitsSpec => []AlertsLimited
<1>1. LimitsInit => LimitsIInv
  BY LimitsStart
<1>2. LimitsIInv /\ [LimitsNext]_limitvars => LimitsIInv'
  BY LimitsTypesHold, AlertsRoomHolds, GovernorRoomHolds, PublishesRecordedHold, QueueRecordedHolds DEF LimitsIInv
<1>3. LimitsIInv => AlertsLimited
  BY LimitsMean
<1> QED BY <1>1, <1>2, <1>3, PTL DEF LimitsSpec

-----------------------------------------------------------------------------
(* BudgetTracker: the row a key has now was the answer of one of its steps,*)
(* and a step keeps to ask what its answer exceeded until it has asked it. *)

SpentRow == [tokens : Nat, cost : Nat, ms : Nat, count : Nat]
Spending == [tokens : Nat, cost : Nat, ms : Nat]
StepStates ==
  {Unused} \cup [pc : {"failed"}]
    \cup [pc : {"asking", "done"}, key : Keys, delta : Spending, snapshot : SpentRow, todo : SUBSET Measures]

BudgetTypes ==
  /\ spent \in [Keys -> SpentRow]
  /\ step \in [Steps -> StepStates]
\* The sums are exact, and each answer had its place among those of its key.
SumsExact ==
  \A key \in Keys :
    /\ spent[key].count = Cardinality(Tracked(key))
    /\ \A f \in Measures : spent[key][f] = Total(SpentOn(key, f), Tracked(key))
    /\ \A s \in Tracked(key) : step[s].snapshot.count \in 1..spent[key].count
    /\ \A s, t \in Tracked(key) : step[s].snapshot.count = step[t].snapshot.count => s = t
    /\ Tracked(key) # {} => \E s \in Tracked(key) : step[s].snapshot = spent[key]
Asked(s) ==
  /\ \A f \in Exceeded(step[s].snapshot, step[s].delta) :
       f \in step[s].todo \/ [step |-> s, kind |-> f] \in asked \cup lost
  /\ step[s].pc = "done" => step[s].todo = {}
ExcessAsked == \A s \in Steps : step[s].pc \in {"asking", "done"} => Asked(s)

BudgetIInv == BudgetTypes /\ SumsExact /\ ExcessAsked

LEMMA StepFields ==
  ASSUME NEW r \in StepStates
  PROVE  /\ r.pc \in {"unused", "failed", "asking", "done"}
         /\ r.pc = "unused" => r = Unused
         /\ r.pc \in {"asking", "done"} =>
              /\ r \in [pc : {"asking", "done"}, key : Keys, delta : Spending, snapshot : SpentRow, todo : SUBSET Measures]
              /\ r.key \in Keys /\ r.delta \in Spending /\ r.snapshot \in SpentRow /\ r.todo \in SUBSET Measures
BY DEF StepStates, Unused

LEMMA AddedRow ==
  ASSUME NEW row \in SpentRow, NEW delta \in Spending
  PROVE  /\ Added(row, delta) \in SpentRow /\ Added(row, delta).count = row.count + 1
         /\ \A f \in Measures : Added(row, delta)[f] = row[f] + delta[f] /\ row[f] \in Nat /\ delta[f] \in Nat
BY DEF SpentRow, Spending, Added, Measures

LEMMA TrackedFinite ==
  ASSUME NEW key
  PROVE  IsFiniteSet(Tracked(key)) /\ Cardinality(Tracked(key)) \in Nat
<1>1. Tracked(key) \in SUBSET Steps /\ IsFiniteSet(Steps)
  BY BudgetAssumption DEF Tracked
<1> QED BY <1>1, FS_Subset, FS_CardinalityType

\* A tracked step that only asks or returns leaves the sums.
LEMMA SumsKept ==
  ASSUME BudgetTypes, SumsExact, spent' = spent,
         \A s \in Steps : \/ step'[s] = step[s]
                          \/ /\ step[s].pc \notin {"asking", "done"} /\ step'[s].pc \notin {"asking", "done"}
                          \/ /\ step[s].pc \in {"asking", "done"} /\ step'[s].pc \in {"asking", "done"}
                             /\ step'[s].key = step[s].key /\ step'[s].delta = step[s].delta
                             /\ step'[s].snapshot = step[s].snapshot
  PROVE  SumsExact'
<1>1. \A key \in Keys : Tracked(key)' = Tracked(key)
  BY DEF Tracked
<1>2. \A key \in Keys : \A f \in Measures : SpentOn(key, f)' = SpentOn(key, f)
  <2> TAKE key \in Keys
  <2> TAKE f \in Measures
  <2>1. \A s \in Tracked(key) : step'[s].delta = step[s].delta
    BY DEF Tracked
  <2> QED BY <1>1, <2>1 DEF SpentOn
<1>3. \A key \in Keys : \A s \in Tracked(key) : step'[s].snapshot = step[s].snapshot
  BY DEF Tracked
<1> QED BY <1>1, <1>2, <1>3 DEF SumsExact

LEMMA UpsertAdds ==
  ASSUME BudgetTypes, SumsExact, NEW s \in Steps, NEW key \in Keys, NEW delta \in Deltas, Upsert(s, key, delta)
  PROVE  SumsExact'
<1> DEFINE row == Added(spent[key], delta)
           T == Tracked(key)
<1>1. /\ spent \in [Keys -> SpentRow] /\ spent[key] \in SpentRow /\ delta \in Spending
      /\ spent' = [spent EXCEPT ![key] = row] /\ spent'[key] = row
      /\ row \in SpentRow /\ row.count = spent[key].count + 1
  BY BudgetAssumption, AddedRow DEF BudgetTypes, Upsert, Spending
<1>2. /\ step[s] = Unused
      /\ step'[s].pc = "asking" /\ step'[s].key = key /\ step'[s].delta = delta /\ step'[s].snapshot = row
      /\ \A t \in Steps \ {s} : step'[t] = step[t]
  BY <1>1 DEF Upsert, BudgetTypes
<1>3. s \notin T /\ Tracked(key)' = T \cup {s}
  BY <1>2 DEF Tracked, Unused
<1>4. \A k \in Keys \ {key} : Tracked(k)' = Tracked(k) /\ s \notin Tracked(k)
  BY <1>2 DEF Tracked, Unused
<1>5. IsFiniteSet(T) /\ Cardinality(T) \in Nat
  BY TrackedFinite
<1> HIDE DEF T, row
<1>6. IsFiniteSet(T \cup {s}) /\ Cardinality(T \cup {s}) = Cardinality(T) + 1
  BY <1>3, <1>5, FS_AddElement
<1>7. ASSUME NEW f \in Measures
      PROVE  row[f] = Total(SpentOn(key, f)', T \cup {s})
  <2> DEFINE on == SpentOn(key, f)
             on2 == SpentOn(key, f)'
  <2>1. on2 = [t \in T \cup {s} |-> step'[t].delta[f]]
    BY <1>3 DEF SpentOn
  <2>2. on = [t \in T |-> step[t].delta[f]]
    BY DEF SpentOn, T
  <2>3. \A t \in T : t \in Steps /\ t # s /\ step[t].delta[f] \in Nat
    <3>1. \A t \in T : t \in Steps /\ t # s /\ step[t].delta \in Spending
      BY <1>3, StepFields DEF Tracked, T, BudgetTypes
    <3>2. \A z \in Spending : z[f] \in Nat
      BY DEF Spending, Measures
    <3> QED BY <3>1, <3>2
  <2>4. on2[s] = delta[f] /\ \A t \in T : on2[t] = on[t] /\ on[t] \in Nat
    BY <1>2, <2>1, <2>2, <2>3
  <2>5. delta[f] \in Nat /\ spent[key][f] \in Nat /\ row[f] = spent[key][f] + delta[f]
    BY <1>1, AddedRow DEF row
  <2> HIDE DEF on, on2
  <2>6. Total(on2, T \cup {s}) = on2[s] + Total(on2, (T \cup {s}) \ {s})
    <3>1. \A t \in T \cup {s} : on2[t] \in Nat
      BY <2>4, <2>5
    <3> QED BY <1>6, <3>1, TotalSplits
  <2>7. (T \cup {s}) \ {s} = T
    BY <1>3
  <2>8. Total(on2, T) = Total(on, T)
    BY <1>5, <2>4, TotalAgrees
  <2>9. spent[key][f] = Total(on, T)
    BY DEF SumsExact, on, T
  <2>10. Total(on2, T \cup {s}) = delta[f] + spent[key][f]
    BY <2>4, <2>6, <2>7, <2>8, <2>9
  <2> QED BY <2>5, <2>10 DEF on2
<1>8. \A t \in T : step'[t].snapshot = step[t].snapshot /\ step[t].snapshot.count \in 1..spent[key].count
  BY <1>2, <1>3 DEF SumsExact, T, Tracked
<1>9. spent[key].count = Cardinality(T)
  BY DEF SumsExact, T
<1>10. /\ spent'[key].count = Cardinality(Tracked(key)')
       /\ \A t \in Tracked(key)' : step'[t].snapshot.count \in 1..spent'[key].count
       /\ \A t, u \in Tracked(key)' : step'[t].snapshot.count = step'[u].snapshot.count => t = u
       /\ \E t \in Tracked(key)' : step'[t].snapshot = spent'[key]
  <2>1. PICK n \in Nat : n = Cardinality(T)
    BY <1>5
  <2>2. spent[key].count = n /\ row.count = n + 1 /\ Cardinality(T \cup {s}) = n + 1
    BY <1>1, <1>6, <1>9, <2>1
  <2>3. \A t \in T : step'[t].snapshot.count \in 1..n
    BY <1>8, <2>2
  <2>4. \A t, u \in T : step'[t].snapshot.count = step'[u].snapshot.count => t = u
    BY <1>8 DEF SumsExact, T
  <2>5. step'[s].snapshot.count = n + 1
    BY <1>2, <2>2
  <2> QED BY <1>1, <1>2, <1>3, <2>2, <2>3, <2>4, <2>5
<1>11. \A f \in Measures : spent'[key][f] = Total(SpentOn(key, f)', Tracked(key)')
  BY <1>1, <1>3, <1>7
<1>12. ASSUME NEW k \in Keys, k # key
       PROVE  /\ spent'[k] = spent[k] /\ Tracked(k)' = Tracked(k)
              /\ \A t \in Tracked(k) : step'[t].snapshot = step[t].snapshot
              /\ \A f \in Measures : SpentOn(k, f)' = SpentOn(k, f)
  <2>1. spent'[k] = spent[k] /\ Tracked(k)' = Tracked(k)
    BY <1>1, <1>4, <1>12
  <2>2. \A t \in Tracked(k) : step'[t] = step[t]
    BY <1>2, <1>4, <1>12 DEF Tracked
  <2> QED BY <2>1, <2>2 DEF SpentOn
<1>13. ASSUME NEW k \in Keys
       PROVE  /\ spent'[k].count = Cardinality(Tracked(k)')
              /\ \A f \in Measures : spent'[k][f] = Total(SpentOn(k, f)', Tracked(k)')
              /\ \A t \in Tracked(k)' : step'[t].snapshot.count \in 1..spent'[k].count
              /\ \A t, u \in Tracked(k)' : step'[t].snapshot.count = step'[u].snapshot.count => t = u
              /\ Tracked(k)' # {} => \E t \in Tracked(k)' : step'[t].snapshot = spent'[k]
  <2>1. CASE k = key
    BY <1>10, <1>11, <2>1
  <2>2. CASE k # key
    BY <1>12, <2>2 DEF SumsExact
  <2> QED BY <2>1, <2>2
<1> QED BY <1>13 DEF SumsExact

LEMMA BudgetStep ==
  ASSUME BudgetIInv, [BudgetNext]_budgetvars
  PROVE  BudgetIInv'
<1>0. BudgetTypes /\ SumsExact /\ ExcessAsked
  BY DEF BudgetIInv
<1>1. ASSUME NEW s \in Steps, NEW key \in Keys, NEW delta \in Deltas, Upsert(s, key, delta)
      PROVE  BudgetIInv'
  <2> DEFINE row == Added(spent[key], delta)
             new == [pc |-> "asking", key |-> key, delta |-> delta, snapshot |-> row, todo |-> Exceeded(row, delta)]
  <2>1. /\ spent[key] \in SpentRow /\ delta \in Spending /\ row \in SpentRow
        /\ spent' = [spent EXCEPT ![key] = row] /\ spent'[key] = row
    BY <1>0, <1>1, BudgetAssumption, AddedRow DEF BudgetTypes, Upsert, Spending
  <2>2. step' = [step EXCEPT ![s] = new] /\ UNCHANGED <<asked, lost>>
    BY <1>1, <2>1 DEF Upsert
  <2>3. new \in StepStates
    <3>1. Exceeded(row, delta) \in SUBSET Measures
      BY DEF Exceeded
    <3> HIDE DEF row
    <3> QED BY <2>1, <3>1 DEF StepStates
  <2>4. BudgetTypes'
    BY <1>0, <2>1, <2>2, <2>3 DEF BudgetTypes
  <2>5. SumsExact'
    BY <1>0, <1>1, UpsertAdds
  <2>6. ExcessAsked'
    <3>1. \A t \in Steps \ {s} : step'[t] = step[t]
      BY <1>0, <2>2 DEF BudgetTypes
    <3>2. step'[s] = new
      BY <1>0, <2>2 DEF BudgetTypes
    <3> HIDE DEF row
    <3> QED BY <1>0, <2>2, <3>1, <3>2 DEF ExcessAsked, Asked, Exceeded
  <2> QED BY <2>4, <2>5, <2>6 DEF BudgetIInv
<1>2. ASSUME NEW s \in Steps, UpsertFails(s)
      PROVE  BudgetIInv'
  <2>1. /\ step[s] = Unused /\ step' = [step EXCEPT ![s] = [pc |-> "failed"]] /\ spent' = spent
        /\ asked' = asked /\ lost \subseteq lost'
    BY <1>2 DEF UpsertFails
  <2>2. step'[s].pc = "failed" /\ \A t \in Steps \ {s} : step'[t] = step[t]
    BY <1>0, <2>1 DEF BudgetTypes
  <2>3. BudgetTypes'
    BY <1>0, <2>1 DEF BudgetTypes, StepStates
  <2>4. SumsExact'
    BY <1>0, <2>1, <2>2, SumsKept DEF Unused
  <2>5. ExcessAsked'
    BY <1>0, <2>1, <2>2 DEF ExcessAsked, Asked, Exceeded
  <2> QED BY <2>3, <2>4, <2>5 DEF BudgetIInv
<1>3. ASSUME NEW s \in Steps, NEW f \in Measures, AskApproval(s, f)
      PROVE  BudgetIInv'
  <2> DEFINE old == step[s]
  <2>1. /\ old.pc = "asking" /\ step' = [step EXCEPT ![s].todo = @ \ {f}] /\ spent' = spent
        /\ asked \subseteq asked' /\ lost \subseteq lost'
        /\ [step |-> s, kind |-> f] \in asked' \cup lost'
    BY <1>3 DEF AskApproval
  <2>2. /\ old \in [pc : {"asking", "done"}, key : Keys, delta : Spending, snapshot : SpentRow, todo : SUBSET Measures]
        /\ step \in [Steps -> StepStates]
    BY <1>0, <2>1, StepFields DEF BudgetTypes
  <2>3. /\ step'[s] = [old EXCEPT !.todo = @ \ {f}]
        /\ \A t \in Steps \ {s} : step'[t] = step[t]
    BY <2>1, <2>2
  <2>4. /\ step'[s].pc = "asking" /\ step'[s].key = old.key /\ step'[s].delta = old.delta
        /\ step'[s].snapshot = old.snapshot /\ step'[s].todo = old.todo \ {f}
        /\ step'[s] \in [pc : {"asking", "done"}, key : Keys, delta : Spending, snapshot : SpentRow, todo : SUBSET Measures]
    BY <2>1, <2>2, <2>3
  <2>5. BudgetTypes'
    BY <1>0, <2>1, <2>2, <2>3, <2>4 DEF BudgetTypes, StepStates
  <2>6. SumsExact'
    BY <1>0, <2>1, <2>3, <2>4, SumsKept
  <2>7. ExcessAsked'
    BY <1>0, <2>1, <2>3, <2>4 DEF ExcessAsked, Asked, Exceeded
  <2> QED BY <2>5, <2>6, <2>7 DEF BudgetIInv
<1>4. ASSUME NEW s \in Steps, Return(s)
      PROVE  BudgetIInv'
  <2> DEFINE old == step[s]
  <2>1. /\ old.pc = "asking" /\ old.todo = {} /\ step' = [step EXCEPT ![s].pc = "done"]
        /\ UNCHANGED <<spent, asked, lost>>
    BY <1>4 DEF Return
  <2>2. /\ old \in [pc : {"asking", "done"}, key : Keys, delta : Spending, snapshot : SpentRow, todo : SUBSET Measures]
        /\ step \in [Steps -> StepStates]
    BY <1>0, <2>1, StepFields DEF BudgetTypes
  <2>3. /\ step'[s] = [old EXCEPT !.pc = "done"]
        /\ \A t \in Steps \ {s} : step'[t] = step[t]
    BY <2>1, <2>2
  <2>4. /\ step'[s].pc = "done" /\ step'[s].key = old.key /\ step'[s].delta = old.delta
        /\ step'[s].snapshot = old.snapshot /\ step'[s].todo = {}
        /\ step'[s] \in [pc : {"asking", "done"}, key : Keys, delta : Spending, snapshot : SpentRow, todo : SUBSET Measures]
    BY <2>1, <2>2, <2>3
  <2>5. BudgetTypes'
    BY <1>0, <2>1, <2>2, <2>3, <2>4 DEF BudgetTypes, StepStates
  <2>6. SumsExact'
    BY <1>0, <2>1, <2>3, <2>4, SumsKept
  <2>7. ExcessAsked'
    BY <1>0, <2>1, <2>3, <2>4 DEF ExcessAsked, Asked, Exceeded
  <2> QED BY <2>5, <2>6, <2>7 DEF BudgetIInv
<1>5. CASE UNCHANGED budgetvars
  <2>1. UNCHANGED <<spent, step, asked, lost>>
    BY <1>5 DEF budgetvars
  <2>2. SumsExact'
    BY <1>0, <2>1, SumsKept
  <2> QED BY <1>0, <2>1, <2>2 DEF BudgetIInv, BudgetTypes, ExcessAsked, Asked, Exceeded
<1> QED BY <1>1, <1>2, <1>3, <1>4, <1>5 DEF BudgetNext

LEMMA BudgetStart ==
  ASSUME BudgetInit
  PROVE  BudgetIInv
<1>1. /\ spent = [k \in Keys |-> Unspent] /\ step = [s \in Steps |-> Unused]
  BY DEF BudgetInit
<1>2. \A key \in Keys : Tracked(key) = {}
  BY <1>1 DEF Tracked, Unused
<1>3. \A key \in Keys : \A f \in Measures : spent[key][f] = 0 /\ spent[key].count = 0
  BY <1>1 DEF Unspent, Measures
<1>4. ASSUME NEW key \in Keys
      PROVE  /\ Cardinality(Tracked(key)) = 0
             /\ \A f \in Measures : Total(SpentOn(key, f), Tracked(key)) = 0
  <2>1. IsFiniteSet(Tracked(key)) /\ Tracked(key) = {}
    BY <1>2, TrackedFinite
  <2>2. \A f \in Measures : Total(SpentOn(key, f), Tracked(key)) = 0
    BY <2>1, TotalUnfolds
  <2> QED BY <2>1, <2>2, FS_EmptySet
<1>5. SumsExact
  <2> SUFFICES ASSUME NEW key \in Keys
               PROVE  /\ spent[key].count = Cardinality(Tracked(key))
                      /\ \A f \in Measures : spent[key][f] = Total(SpentOn(key, f), Tracked(key))
    BY <1>2 DEF SumsExact
  <2>1. spent[key].count = Cardinality(Tracked(key))
    BY <1>1, <1>4 DEF Unspent
  <2>2. \A f \in Measures : spent[key][f] = Total(SpentOn(key, f), Tracked(key))
    BY <1>3, <1>4
  <2> QED BY <2>1, <2>2
<1>6. BudgetTypes
  BY <1>1 DEF BudgetTypes, StepStates, SpentRow, Unspent
<1>7. ExcessAsked
  BY <1>1 DEF ExcessAsked, Unused
<1> QED BY <1>5, <1>6, <1>7 DEF BudgetIInv

LEMMA BudgetMeans ==
  ASSUME BudgetIInv
  PROVE  SpendingWatched
<1>0. BudgetTypes /\ SumsExact /\ ExcessAsked
  BY DEF BudgetIInv
<1>1. SpendingExact
  <2>1. ASSUME NEW key \in Keys, NEW f \in Measures
        PROVE  spent[key][f] = LET on == SpentOn(key, f) IN MapThenSumSet(LAMBDA s : on[s], Tracked(key))
    <3> DEFINE on == SpentOn(key, f)
    <3>1. spent[key][f] = Total(on, Tracked(key))
      BY <1>0 DEF SumsExact
    <3> HIDE DEF on
    <3>2. MapThenSumSet(LAMBDA s : on[s], Tracked(key)) = Total(on, Tracked(key))
      BY SumIsTotal
    <3>3. spent[key][f] = MapThenSumSet(LAMBDA s : on[s], Tracked(key))
      BY <3>1, <3>2
    <3> QED BY <3>3 DEF on
  <2> QED BY <1>0, <2>1 DEF SpendingExact, SumsExact
<1>2. OverspendingAsked
  <2> SUFFICES ASSUME NEW key \in Keys, NEW f \in Measures, Limits[f] > 0, spent[key][f] > Limits[f],
                      \A s \in Tracked(key) : step[s].pc = "done"
               PROVE  \E s \in Tracked(key) : [step |-> s, kind |-> f] \in asked \cup lost
    BY DEF OverspendingAsked
  <2>1. Limits[f] \in Nat /\ spent[key][f] \in Nat
    <3>1. spent[key] \in SpentRow
      BY <1>0 DEF BudgetTypes
    <3> QED BY <3>1, BudgetAssumption DEF SpentRow, Measures
  <2>2. Tracked(key) # {}
    <3>1. Tracked(key) = {} => Total(SpentOn(key, f), Tracked(key)) = 0
      BY TrackedFinite, TotalUnfolds
    <3>2. spent[key][f] = Total(SpentOn(key, f), Tracked(key))
      BY <1>0 DEF SumsExact
    <3> QED BY <2>1, <3>1, <3>2, BudgetAssumption DEF Measures
  <2>3. PICK s \in Tracked(key) : step[s].snapshot = spent[key]
    BY <1>0, <2>2 DEF SumsExact
  <2>4. f \in Exceeded(step[s].snapshot, step[s].delta)
    BY <2>1, <2>3 DEF Exceeded
  <2>5. step[s].todo = {} /\ Asked(s)
    BY <1>0, <2>3 DEF ExcessAsked, Asked, Tracked
  <2> QED BY <2>4, <2>5 DEF Asked
<1> QED BY <1>1, <1>2 DEF SpendingWatched

\* However the steps of all agents overlap and whatever fails, the row of a key
\* is the exact sum of the steps that were recorded, and once they have returned
\* a key past a limit has been put before a person, but for a lost approval.
THEOREM SpendingStaysWatched == BudgetSpec => []SpendingWatched
<1>1. BudgetInit => BudgetIInv
  BY BudgetStart
<1>2. BudgetIInv /\ [BudgetNext]_budgetvars => BudgetIInv'
  BY BudgetStep
<1>3. BudgetIInv => SpendingWatched
  BY BudgetMeans
<1> QED BY <1>1, <1>2, <1>3, PTL DEF BudgetSpec

-----------------------------------------------------------------------------
(* KnowledgeIngest: the points of the index and what an upsert does.       *)

LEMMA ChunkFields ==
  ASSUME NEW source, NEW content, NEW k
  PROVE  /\ Chunk(source, content, k).source = source /\ Chunk(source, content, k).idx = k
         /\ Chunk(source, content, k).text = content.texts[k]
         /\ Chunk(source, content, k).version = content.version
BY DEF Chunk

\* Whatever it writes over, an upsert of chunks of one file keeps every point
\* or puts another with its identity in its place, and leaves the points of
\* the other files alone.
LEMMA UpsertPointsKeep ==
  ASSUME NEW points, NEW source, NEW content, NEW ks,
         NEW batch, \A b : b \in batch <=> \E k \in ks : b = Chunk(source, content, k)
  PROVE  /\ batch \subseteq UpsertPoints(points, batch)
         /\ UpsertPoints(points, batch) \subseteq points \cup batch
         /\ \A p \in points : \E q \in UpsertPoints(points, batch) : SamePoint(p, q)
         /\ \A p \in points : p.source # source \/ p.idx \notin ks => p \in UpsertPoints(points, batch)
         /\ (\A p, q \in points : SamePoint(p, q) => p = q) =>
               \A p, q \in UpsertPoints(points, batch) : SamePoint(p, q) => p = q
<1>1. \A p \in batch : p.source = source /\ p.idx \in ks
  BY ChunkFields
<1>2. \A p, q \in batch : SamePoint(p, q) => p = q
  <2> SUFFICES ASSUME NEW j \in ks, NEW k \in ks, SamePoint(Chunk(source, content, j), Chunk(source, content, k))
               PROVE  Chunk(source, content, j) = Chunk(source, content, k)
    OBVIOUS
  <2>1. j = k
    BY ChunkFields DEF SamePoint
  <2> QED BY <2>1
<1>3. \A p \in points : \E q \in UpsertPoints(points, batch) : SamePoint(p, q)
  BY DEF UpsertPoints, SamePoint
<1>4. \A p \in points : p.source # source \/ p.idx \notin ks => p \in UpsertPoints(points, batch)
  BY <1>1 DEF UpsertPoints, SamePoint
<1>5. ASSUME \A p, q \in points : SamePoint(p, q) => p = q
      PROVE  \A p, q \in UpsertPoints(points, batch) : SamePoint(p, q) => p = q
  BY <1>2, <1>5 DEF UpsertPoints, SamePoint
<1> QED BY <1>3, <1>4, <1>5 DEF UpsertPoints

-----------------------------------------------------------------------------
(* The shapes of its state.                                                *)

ReviewedContents == {content \in Contents : content.reviewed}
AllPoints == UNION {Chunks(source, content) : source \in Sources, content \in ReviewedContents}
IngestRows ==
  [hash : Contents, version : {c.version : c \in Contents}, acl : {c.acl : c \in Contents},
   chunks : Nat, collection : Collections]
Reading == {"lookup", "parse", "graph", "index", "record"}
Tasks ==
  [pc : {"read"} \cup Reading, todo : Seq(Sources) \ {<<>>}, collection : Collections,
   hash : Contents \cup {NoRow}, content : Contents \cup {NoRow}, sent : Nat]
TaskStates == [pc : {"waiting", "ended", "failed"}] \cup Tasks

IngestShapes ==
  /\ file \in [Sources -> Contents] /\ torn \subseteq Sources
  /\ graph \subseteq [source : Sources, version : {c.version : c \in Contents}]
  /\ index \in [Collections -> SUBSET AllPoints]
  /\ state \in [Sources -> IngestRows \cup {NoRow}]
  /\ command \in [Commands -> TaskStates]

LEMMA TaskFields ==
  ASSUME NEW m \in TaskStates
  PROVE  /\ m.pc \in {"waiting", "ended", "failed", "read"} \cup Reading
         /\ m.pc \in {"read"} \cup Reading =>
              /\ m \in Tasks /\ Head(m.todo) \in Sources /\ m.collection \in Collections /\ m.sent \in Nat
              /\ m.todo \in Seq(Sources) /\ m.todo # <<>>
<1>1. CASE m \in [pc : {"waiting", "ended", "failed"}]
  BY <1>1 DEF Reading
<1>2. CASE m \in Tasks
  <2>1. m.todo \in Seq(Sources) /\ m.todo # <<>> /\ m.pc \in {"read"} \cup Reading
        /\ m.collection \in Collections /\ m.sent \in Nat
    BY <1>2 DEF Tasks
  <2>2. Head(m.todo) \in Sources
    BY <2>1
  <2> QED BY <1>2, <2>1, <2>2
<1> QED BY <1>1, <1>2 DEF TaskStates

LEMMA TextsAre ==
  ASSUME NEW content \in Contents
  PROVE  /\ DOMAIN content.texts = 1..Len(content.texts) /\ Len(content.texts) \in Nat
         /\ content.texts = <<>> <=> Len(content.texts) = 0
         /\ content.reviewed \in BOOLEAN
<1>1. content.texts \in Seq(ToSet(content.texts)) /\ content.reviewed \in BOOLEAN
  BY IngestAssumption
<1>2. \A X : \A s \in Seq(X) : DOMAIN s = 1..Len(s) /\ Len(s) \in Nat /\ (s = <<>> <=> Len(s) = 0)
  OBVIOUS
<1> QED BY <1>1, <1>2

LEMMA Emptiness ==
  ASSUME NEW X, NEW t \in Seq(X)
  PROVE  Len(t) \in Nat /\ (t = <<>> <=> Len(t) = 0)
OBVIOUS

LEMMA TailLonger ==
  ASSUME NEW X, NEW t \in Seq(X), t # <<>>, Len(t) # 1
  PROVE  Tail(t) \in Seq(X) /\ Tail(t) # <<>>
<1>1. Tail(t) \in Seq(X) /\ Len(Tail(t)) = Len(t) - 1
  OBVIOUS
<1>2. PICK n \in Nat, k \in Nat : n = Len(t) /\ n # 0 /\ n # 1 /\ k = Len(Tail(t)) /\ k = n - 1
  BY <1>1, Emptiness
<1>3. Len(Tail(t)) # 0
  BY <1>2
<1> QED BY <1>1, <1>3, Emptiness

\* The command after the current file.
LEMMA NextFileIs ==
  ASSUME NEW c \in Commands, command \in [Commands -> TaskStates], Under(c), command' = NextFile(c)
  PROVE  /\ command' \in [Commands -> TaskStates] /\ \A d \in Commands \ {c} : command'[d] = command[d]
         /\ command'[c].pc \in {"ended", "read"}
         /\ command'[c].pc = "read" => command'[c].sent = 0
<1> DEFINE m == command[c]
           next == [pc |-> "read", todo |-> Tail(m.todo), collection |-> m.collection,
                    hash |-> NoRow, content |-> NoRow, sent |-> 0]
<1>1. m \in Tasks /\ m.todo \in Seq(Sources) /\ m.todo # <<>> /\ m.collection \in Collections
  BY TaskFields DEF Under, Reading
<1>2. command' = [command EXCEPT ![c] = IF Len(m.todo) = 1 THEN [pc |-> "ended"] ELSE next]
  BY DEF NextFile
<1>3. CASE Len(m.todo) = 1
  <2>1. [pc |-> "ended"] \in TaskStates /\ [pc |-> "ended"].pc = "ended"
    BY DEF TaskStates
  <2> QED BY <1>2, <1>3, <2>1
<1>4. CASE Len(m.todo) # 1
  <2>1. Tail(m.todo) \in Seq(Sources) /\ Tail(m.todo) # <<>>
    <3> HIDE DEF m, next
    <3> QED BY <1>1, <1>4, TailLonger
  <2>2. next \in TaskStates
    BY <1>1, <2>1 DEF TaskStates, Tasks
  <2>3. next.pc = "read" /\ next.sent = 0
    OBVIOUS
  <2> HIDE DEF next
  <2> QED BY <1>2, <1>4, <2>2, <2>3
<1> QED BY <1>3, <1>4

-----------------------------------------------------------------------------
(* Where the commands stand.                                               *)

OnIndex(c) == command[c].pc \in {"index", "record"}
Active(c, source) == command[c].pc \in Reading /\ Head(command[c].todo) = source

Found(c) ==
  OnIndex(c) => \A k \in 1..command[c].sent : \E q \in index[command[c].collection] :
                  SamePoint(Chunk(Head(command[c].todo), command[c].content, k), q)
Placed(c) ==
  OnIndex(c) /\ Head(command[c].todo) \notin torn =>
    \A k \in 1..command[c].sent :
      Chunk(Head(command[c].todo), command[c].content, k) \in index[command[c].collection]

\* What a command has read, sent and written on the way.
Progress(c) ==
  /\ command[c].pc \in Reading => command[c].hash \in Contents
  /\ command[c].pc \in {"graph", "index", "record"} =>
       /\ command[c].content \in ReviewedContents
       /\ Head(command[c].todo) \notin torn => command[c].content = command[c].hash
  /\ command[c].pc \in {"read", "lookup", "parse", "graph"} => command[c].sent = 0
  /\ command[c].pc = "index" =>
       [source |-> Head(command[c].todo), version |-> command[c].content.version] \in graph
  /\ command[c].pc = "record" => command[c].sent = Len(command[c].content.texts)

TaskOK(c) == Found(c) /\ Placed(c) /\ Progress(c)

\* Two commands past the hash of one file tear it.
Alone ==
  \A c, d \in Commands : \A source \in Sources \ torn : Active(c, source) /\ Active(d, source) => c = d

\* A row whose file is not torn, and that no command is writing over, is true
\* to the letter.
Exact ==
  \A s \in Sources \ torn :
    state[s] # NoRow /\ (\A c \in Commands : ~(OnIndex(c) /\ Head(command[c].todo) = s)) =>
      Chunks(s, state[s].hash) \subseteq index[state[s].collection]

IngestInv ==
  /\ IngestShapes
  /\ \A c \in Commands : TaskOK(c)
  /\ Alone
  /\ Exact
  /\ RecordedIsComplete
  /\ GraphCoversIndex
  /\ NoPointTwice

\* The other commands, when points keep their identity and those of a file
\* that is not torn stay as they are.
LEMMA TaskStays ==
  ASSUME IngestShapes, NEW d \in Commands, TaskOK(d), command'[d] = command[d],
         graph \subseteq graph', torn \subseteq torn',
         \A x \in Collections : \A p \in index[x] : \E q \in index'[x] : SamePoint(p, q),
         OnIndex(d) /\ Head(command[d].todo) \notin torn' =>
           \A p \in index[command[d].collection] :
             p.source = Head(command[d].todo) => p \in index'[command[d].collection]
  PROVE  TaskOK(d)'
<1>1. OnIndex(d) => command[d].collection \in Collections
  <2>1. command[d] \in TaskStates
    BY DEF IngestShapes
  <2> QED BY <2>1, TaskFields DEF OnIndex, Reading
<1>2. Found(d)'
  BY <1>1 DEF TaskOK, Found, OnIndex, SamePoint
<1>3. Placed(d)'
  BY <1>1, ChunkFields DEF TaskOK, Placed, OnIndex
<1>4. Progress(d)'
  BY DEF TaskOK, Progress
<1> QED BY <1>2, <1>3, <1>4 DEF TaskOK

\* A command that has nothing in hand.
LEMMA TaskIdle ==
  ASSUME NEW c \in Commands, command'[c].pc \in {"waiting", "ended", "failed", "read"},
         command'[c].pc = "read" => command'[c].sent = 0
  PROVE  TaskOK(c)'
BY DEF TaskOK, Found, Placed, Progress, OnIndex, Reading

LEMMA IndexStays ==
  ASSUME UNCHANGED index
  PROVE  \A x \in Collections : \A p \in index[x] : \E q \in index'[x] : SamePoint(p, q)
BY DEF SamePoint

\* Steps that leave the index and the rows as they are.
LEMMA ReadingKeeps ==
  ASSUME IngestInv, IngestShapes', UNCHANGED <<index, state>>, graph \subseteq graph', torn \subseteq torn',
         NEW c \in Commands,
         \A d \in Commands \ {c} : command'[d] = command[d],
         TaskOK(c)', Alone',
         OnIndex(c) /\ Head(command[c].todo) \notin torn' => OnIndex(c)' /\ Head(command[c].todo)' = Head(command[c].todo)
  PROVE  IngestInv'
<1>1. \A d \in Commands : TaskOK(d)'
  <2> SUFFICES ASSUME NEW d \in Commands \ {c}
               PROVE  TaskOK(d)'
    OBVIOUS
  <2> QED BY IndexStays, TaskStays DEF IngestInv
<1>2. Exact'
  <2> SUFFICES ASSUME NEW s \in Sources \ torn', state[s] # NoRow,
                      \A d \in Commands : ~(OnIndex(d)' /\ Head(command[d].todo)' = s)
               PROVE  Chunks(s, state[s].hash) \subseteq index[state[s].collection]
    BY DEF Exact
  <2>1. \A d \in Commands : ~(OnIndex(d) /\ Head(command[d].todo) = s)
    BY DEF OnIndex
  <2> QED BY <2>1 DEF IngestInv, Exact
<1>3. RecordedIsComplete' /\ GraphCoversIndex' /\ NoPointTwice'
  BY DEF IngestInv, RecordedIsComplete, Recorded, GraphCoversIndex, NoPointTwice
<1> QED BY <1>1, <1>2, <1>3 DEF IngestInv

\* A command that does not enter a file's work leaves it to the one who has it.
LEMMA AloneKept ==
  ASSUME IngestInv, torn \subseteq torn', NEW c \in Commands, \A d \in Commands \ {c} : command'[d] = command[d],
         \A source \in Sources : Active(c, source)' => Active(c, source)
  PROVE  Alone'
<1>1. \A d \in Commands : \A source \in Sources : Active(d, source)' => Active(d, source)
  BY DEF Active
<1> QED BY <1>1 DEF IngestInv, Alone

LEMMA RunKeeps ==
  ASSUME IngestInv, NEW c \in Commands, NEW files \in SetToAllKPermutations(Sources) \ {<<>>},
         NEW x \in Collections, Run(c, files, x)
  PROVE  IngestInv'
<1>1. files \in Seq(Sources) /\ files # <<>>
  <2>1. PICK S \in SUBSET Sources : files \in SetToSeqs(S)
    BY DEF SetToAllKPermutations
  <2>2. Cardinality(S) \in Nat
    BY IngestAssumption, FS_Subset, FS_CardinalityType
  <2>3. files \in [1..Cardinality(S) -> S]
    BY <2>1 DEF SetToSeqs
  <2>4. files \in Seq(S)
    BY <2>2, <2>3
  <2> QED BY <2>4
<1> DEFINE m == [pc |-> "read", todo |-> files, collection |-> x, hash |-> NoRow, content |-> NoRow, sent |-> 0]
<1>2. m \in TaskStates
  BY <1>1 DEF TaskStates, Tasks
<1>3. command' = [command EXCEPT ![c] = m] /\ UNCHANGED <<file, graph, index, state, torn>>
      /\ command[c].pc = "waiting"
  BY DEF Run, Unstarted
<1> HIDE DEF m
<1>4. IngestShapes' /\ \A d \in Commands \ {c} : command'[d] = command[d]
  BY <1>2, <1>3 DEF IngestInv, IngestShapes
<1>5. command'[c] = m /\ m.pc = "read" /\ m.sent = 0
  BY <1>3 DEF IngestInv, IngestShapes, m
<1>6. TaskOK(c)'
  BY <1>5, TaskIdle
<1>7. Alone'
  <2>1. \A source \in Sources : ~Active(c, source)'
    BY <1>5 DEF Active, Reading
  <2> QED BY <1>3, <1>4, <2>1, AloneKept
<1>8. ~OnIndex(c)
  BY <1>3 DEF OnIndex
<1> QED BY <1>3, <1>4, <1>6, <1>7, <1>8, ReadingKeeps

LEMMA TaskSet ==
  ASSUME IngestShapes, NEW c \in Commands, NEW m \in TaskStates, command' = [command EXCEPT ![c] = m]
  PROVE  /\ command' \in [Commands -> TaskStates] /\ command'[c] = m
         /\ \A d \in Commands \ {c} : command'[d] = command[d]
BY DEF IngestShapes

\* The fields of a task that moves on.
LEMMA TaskMoved ==
  ASSUME NEW m \in Tasks, NEW pc \in {"read"} \cup Reading
  PROVE  /\ [m EXCEPT !.pc = pc] \in TaskStates /\ [m EXCEPT !.pc = pc].pc = pc
         /\ [m EXCEPT !.pc = pc].todo = m.todo /\ [m EXCEPT !.pc = pc].collection = m.collection
         /\ [m EXCEPT !.pc = pc].hash = m.hash /\ [m EXCEPT !.pc = pc].content = m.content
         /\ [m EXCEPT !.pc = pc].sent = m.sent
BY DEF TaskStates, Tasks

LEMMA UnderIsTask ==
  ASSUME IngestShapes, NEW c \in Commands, Under(c)
  PROVE  /\ command[c] \in Tasks /\ Head(command[c].todo) \in Sources /\ command[c].collection \in Collections
         /\ command[c].sent \in Nat
BY TaskFields DEF Under, Reading, IngestShapes

LEMMA ReadHashKeeps ==
  ASSUME IngestInv, NEW c \in Commands, ReadHash(c)
  PROVE  IngestInv'
<1> DEFINE source == Head(command[c].todo)
           m == [command[c] EXCEPT !.pc = "lookup", !.hash = file[source]]
<1>1. /\ UNCHANGED <<file, graph, index, state>> /\ command[c].pc = "read"
      /\ command' = [command EXCEPT ![c] = m]
      /\ torn' = IF \E other \in Commands \ {c} : WorksOn(other, source) THEN torn \cup {source} ELSE torn
  BY DEF ReadHash
<1>2. command[c] \in Tasks /\ source \in Sources /\ IngestShapes /\ file[source] \in Contents
  BY <1>1, UnderIsTask DEF Under, IngestInv, IngestShapes
<1>3. /\ m \in TaskStates /\ m.pc = "lookup" /\ m.hash = file[source] /\ m.todo = command[c].todo
      /\ m.sent = command[c].sent
  BY <1>2 DEF TaskStates, Tasks, Reading
<1>4. command[c].sent = 0
  BY <1>1 DEF IngestInv, TaskOK, Progress
<1> HIDE DEF m
<1>5. /\ command' \in [Commands -> TaskStates] /\ command'[c] = m
      /\ \A d \in Commands \ {c} : command'[d] = command[d]
  BY <1>1, <1>2, <1>3, TaskSet
<1>6. IngestShapes' /\ torn \subseteq torn'
  BY <1>1, <1>2, <1>5 DEF IngestShapes
<1>7. TaskOK(c)'
  BY <1>2, <1>3, <1>4, <1>5 DEF TaskOK, Found, Placed, Progress, OnIndex, Reading
<1>8. Alone'
  <2> SUFFICES ASSUME NEW d \in Commands, NEW e \in Commands, NEW s \in Sources \ torn',
                      Active(d, s)', Active(e, s)', d # e
               PROVE  FALSE
    BY DEF Alone
  <2>1. \A x \in Commands \ {c} : Active(x, s)' => Active(x, s)
    BY <1>5 DEF Active
  <2>2. \A x \in Commands \ {c} : Active(x, s) => WorksOn(x, s)
    BY DEF Active, WorksOn, Under, Reading
  <2>3. Active(c, s)' => s = source
    BY <1>3, <1>5 DEF Active
  <2>4. CASE d # c /\ e # c
    BY <1>6, <2>1, <2>4 DEF IngestInv, Alone
  <2>5. CASE d = c \/ e = c
    <3>1. \E x \in Commands \ {c} : WorksOn(x, source)
      BY <2>1, <2>2, <2>3, <2>5
    <3> QED BY <1>1, <2>3, <2>5, <3>1
  <2> QED BY <2>4, <2>5
<1>9. ~OnIndex(c)
  BY <1>1 DEF OnIndex
<1> QED BY <1>1, <1>5, <1>6, <1>7, <1>8, <1>9, ReadingKeeps

\* Leaving a file of which nothing was written in this run.
LEMMA LeaveKeeps ==
  ASSUME IngestInv, NEW c \in Commands, Under(c), ~OnIndex(c), command' = NextFile(c),
         UNCHANGED <<file, graph, index, state>>, torn' \in SUBSET Sources, torn \subseteq torn'
  PROVE  IngestInv'
<1>1. /\ command' \in [Commands -> TaskStates] /\ \A d \in Commands \ {c} : command'[d] = command[d]
      /\ command'[c].pc \in {"ended", "read"} /\ (command'[c].pc = "read" => command'[c].sent = 0)
  BY NextFileIs DEF IngestInv, IngestShapes
<1>2. IngestShapes'
  BY <1>1 DEF IngestInv, IngestShapes
<1>3. TaskOK(c)'
  BY <1>1, TaskIdle
<1>4. \A source \in Sources : ~Active(c, source)'
  BY <1>1 DEF Active, Reading
<1>5. Alone'
  BY <1>1, <1>4, AloneKept
<1> QED BY <1>1, <1>2, <1>3, <1>5, ReadingKeeps

LEMMA LookupKeeps ==
  ASSUME IngestInv, NEW c \in Commands, Lookup(c)
  PROVE  IngestInv'
<1>1. UNCHANGED <<file, graph, index, state, torn>> /\ command[c].pc = "lookup" /\ Under(c) /\ ~OnIndex(c)
  BY DEF Lookup, Under, OnIndex
<1>2. CASE command' = NextFile(c)
  BY <1>1, <1>2, LeaveKeeps DEF IngestInv, IngestShapes
<1>3. CASE command' = To(c, "parse")
  <2> DEFINE m == [command[c] EXCEPT !.pc = "parse"]
  <2>1. /\ m \in TaskStates /\ m.pc = "parse" /\ m.todo = command[c].todo /\ m.sent = command[c].sent
        /\ m.hash = command[c].hash
    BY <1>1, UnderIsTask, TaskMoved DEF IngestInv, Reading
  <2>2. command' = [command EXCEPT ![c] = m]
    BY <1>3 DEF To
  <2>3. command[c].sent = 0 /\ command[c].hash \in Contents
    BY <1>1 DEF IngestInv, TaskOK, Progress, Reading
  <2> HIDE DEF m
  <2>4. /\ command' \in [Commands -> TaskStates] /\ command'[c] = m
        /\ \A d \in Commands \ {c} : command'[d] = command[d]
    BY <2>1, <2>2, TaskSet DEF IngestInv
  <2>5. IngestShapes'
    BY <1>1, <2>4 DEF IngestInv, IngestShapes
  <2>6. TaskOK(c)'
    BY <2>1, <2>3, <2>4 DEF TaskOK, Found, Placed, Progress, OnIndex, Reading
  <2>7. Alone'
    <3>1. \A source \in Sources : Active(c, source)' => Active(c, source)
      BY <1>1, <2>1, <2>4 DEF Active, Reading
    <3> QED BY <1>1, <2>4, <3>1, AloneKept
  <2> QED BY <1>1, <2>4, <2>5, <2>6, <2>7, ReadingKeeps
<1> QED BY <1>2, <1>3 DEF Lookup

LEMMA ParseKeeps ==
  ASSUME IngestInv, NEW c \in Commands, Parse(c)
  PROVE  IngestInv'
<1> DEFINE source == Head(command[c].todo)
           content == file[source]
<1>1. /\ UNCHANGED <<file, graph, index, state>> /\ command[c].pc = "parse" /\ Under(c) /\ ~OnIndex(c)
      /\ torn' = IF content # command[c].hash THEN torn \cup {source} ELSE torn
  BY DEF Parse, Under, OnIndex
<1>2. command[c] \in Tasks /\ source \in Sources /\ IngestShapes /\ content \in Contents
      /\ torn \subseteq torn' /\ torn' \in SUBSET Sources
  BY <1>1, UnderIsTask DEF IngestInv, IngestShapes
<1>3. CASE ~content.reviewed /\ command' = NextFile(c)
  BY <1>1, <1>2, <1>3, LeaveKeeps
<1>4. CASE /\ content.reviewed
           /\ command' = [command EXCEPT ![c].content = content,
                                         ![c].pc = IF content.texts = <<>> THEN "record" ELSE "graph"]
  <2>1. PICK pc \in {"record", "graph"} :
          /\ command' = [command EXCEPT ![c] = [command[c] EXCEPT !.content = content, !.pc = pc]]
          /\ pc = "record" <=> content.texts = <<>>
    BY <1>4
  <2> DEFINE m == [command[c] EXCEPT !.content = content, !.pc = pc]
  <2>2. /\ m \in TaskStates /\ m.pc = pc /\ m.todo = command[c].todo /\ m.sent = command[c].sent
        /\ m.hash = command[c].hash /\ m.content = content /\ m.collection = command[c].collection
    BY <1>2 DEF TaskStates, Tasks, Reading
  <2>3. command[c].sent = 0 /\ command[c].hash \in Contents
    BY <1>1 DEF IngestInv, TaskOK, Progress, Reading
  <2>4. content.texts = <<>> => Len(content.texts) = 0
    BY <1>2, TextsAre
  <2>5. command' = [command EXCEPT ![c] = m] /\ content \in ReviewedContents
    BY <1>2, <1>4, <2>1 DEF ReviewedContents
  <2>6. source \notin torn' => content = command[c].hash
    BY <1>1
  <2> HIDE DEF m, content
  <2>7. /\ command' \in [Commands -> TaskStates] /\ command'[c] = m
        /\ \A d \in Commands \ {c} : command'[d] = command[d]
    BY <1>2, <2>2, <2>5, TaskSet
  <2>8. IngestShapes'
    BY <1>1, <1>2, <2>7 DEF IngestShapes
  <2>9. TaskOK(c)'
    <3>1. 1..0 = {}
      OBVIOUS
    <3>2. Found(c)' /\ Placed(c)'
      BY <2>2, <2>3, <2>7, <3>1 DEF Found, Placed
    <3>3. Progress(c)'
      BY <2>1, <2>2, <2>3, <2>4, <2>5, <2>6, <2>7 DEF Progress, Reading
    <3> QED BY <3>2, <3>3 DEF TaskOK
  <2>10. Alone'
    <3>1. \A s \in Sources : Active(c, s)' => Active(c, s)
      BY <1>1, <2>2, <2>7 DEF Active, Reading
    <3> QED BY <1>2, <2>7, <3>1, AloneKept
  <2> QED BY <1>1, <1>2, <2>7, <2>8, <2>9, <2>10, ReadingKeeps
<1> QED BY <1>3, <1>4 DEF Parse

LEMMA MergeSopKeeps ==
  ASSUME IngestInv, NEW c \in Commands, MergeSop(c)
  PROVE  IngestInv'
<1> DEFINE source == Head(command[c].todo)
           m == [command[c] EXCEPT !.pc = "index"]
<1>1. /\ UNCHANGED <<file, index, state, torn>> /\ command[c].pc = "graph" /\ Under(c) /\ ~OnIndex(c)
      /\ graph' = graph \cup {[source |-> source, version |-> command[c].content.version]}
      /\ command' = [command EXCEPT ![c] = m]
  BY DEF MergeSop, Under, OnIndex, To
<1>2. command[c] \in Tasks /\ source \in Sources /\ IngestShapes
  BY <1>1, UnderIsTask DEF IngestInv
<1>3. /\ m \in TaskStates /\ m.pc = "index" /\ m.todo = command[c].todo /\ m.sent = command[c].sent
      /\ m.hash = command[c].hash /\ m.content = command[c].content
  BY <1>2, TaskMoved DEF Reading
<1>4. /\ command[c].sent = 0 /\ command[c].hash \in Contents /\ command[c].content \in ReviewedContents
      /\ source \notin torn => command[c].content = command[c].hash
  BY <1>1 DEF IngestInv, TaskOK, Progress, Reading
<1> HIDE DEF m
<1>5. /\ command' \in [Commands -> TaskStates] /\ command'[c] = m
      /\ \A d \in Commands \ {c} : command'[d] = command[d]
  BY <1>1, <1>2, <1>3, TaskSet
<1>6. IngestShapes'
  <2>1. [source |-> source, version |-> command[c].content.version] \in [source : Sources, version : {x.version : x \in Contents}]
    BY <1>2, <1>4 DEF ReviewedContents
  <2> QED BY <1>1, <1>2, <1>5, <2>1 DEF IngestShapes
<1>7. TaskOK(c)'
  <2>1. Found(c)' /\ Placed(c)'
    <3>1. 1..0 = {}
      OBVIOUS
    <3> QED BY <1>3, <1>4, <1>5, <3>1 DEF Found, Placed
  <2>2. Progress(c)'
    BY <1>1, <1>3, <1>4, <1>5 DEF Progress, Reading
  <2> QED BY <2>1, <2>2 DEF TaskOK
<1>8. Alone'
  <2>1. \A s \in Sources : Active(c, s)' => Active(c, s)
    BY <1>1, <1>3, <1>5 DEF Active, Reading
  <2> QED BY <1>1, <1>5, <2>1, AloneKept
<1> QED BY <1>1, <1>5, <1>6, <1>7, <1>8, ReadingKeeps

LEMMA AbortKeeps ==
  ASSUME IngestInv, NEW c \in Commands, Abort(c)
  PROVE  IngestInv'
<1> DEFINE source == Head(command[c].todo)
           m == [pc |-> "failed"]
<1>1. /\ UNCHANGED <<file, graph, index, state>> /\ Under(c) /\ command' = [command EXCEPT ![c] = m]
      /\ torn' = IF OnIndex(c) THEN torn \cup {source} ELSE torn
  BY DEF Abort, OnIndex
<1>2. source \in Sources /\ IngestShapes
  BY <1>1, UnderIsTask DEF IngestInv
<1>3. m \in TaskStates /\ m.pc = "failed"
  BY DEF TaskStates
<1> HIDE DEF m
<1>4. /\ command' \in [Commands -> TaskStates] /\ command'[c] = m
      /\ \A d \in Commands \ {c} : command'[d] = command[d]
  BY <1>1, <1>2, <1>3, TaskSet
<1>5. IngestShapes' /\ torn \subseteq torn'
  BY <1>1, <1>2, <1>4 DEF IngestShapes
<1>6. TaskOK(c)'
  BY <1>3, <1>4, TaskIdle
<1>7. Alone'
  <2>1. \A s \in Sources : ~Active(c, s)'
    BY <1>3, <1>4 DEF Active, Reading
  <2> QED BY <1>4, <1>5, <2>1, AloneKept
<1> QED BY <1>1, <1>4, <1>5, <1>6, <1>7, ReadingKeeps

\* The points that a batch of one command writes and keeps.
LEMMA BatchIs ==
  ASSUME IngestInv, NEW c \in Commands, UpsertBatch(c)
  PROVE  \E to \in Nat, m \in Tasks :
           /\ m = command[c] /\ m.content \in ReviewedContents /\ m.sent \in Nat /\ m.collection \in Collections
           /\ to <= Len(m.content.texts) /\ m.pc = "index" /\ Head(m.todo) \in Sources
           /\ index' = [index EXCEPT ![m.collection] =
                          UpsertPoints(@, {Chunk(Head(m.todo), m.content, k) : k \in (m.sent + 1)..to})]
           /\ command' = [command EXCEPT ![c] =
                            [m EXCEPT !.sent = to, !.pc = IF to = Len(m.content.texts) THEN "record" ELSE @]]
           /\ UNCHANGED <<file, graph, state, torn>>
<1> DEFINE m == command[c]
           to == IF m.sent + UpsertSize <= Len(m.content.texts) THEN m.sent + UpsertSize ELSE Len(m.content.texts)
<1>1. m.pc = "index" /\ Under(c) /\ IngestShapes
  BY DEF UpsertBatch, Under, IngestInv
<1>2. m \in Tasks /\ Head(m.todo) \in Sources /\ m.collection \in Collections /\ m.sent \in Nat
  BY <1>1, UnderIsTask
<1>3. m.content \in ReviewedContents
  BY <1>1 DEF IngestInv, TaskOK, Progress
<1>4. Len(m.content.texts) \in Nat
  BY <1>3, TextsAre DEF ReviewedContents
<1>5. to \in Nat /\ to <= Len(m.content.texts)
  BY <1>2, <1>4, IngestAssumption
<1>6. /\ index' = [index EXCEPT ![m.collection] =
                     UpsertPoints(@, {Chunk(Head(m.todo), m.content, k) : k \in (m.sent + 1)..to})]
      /\ command' = [command EXCEPT ![c] =
                       [m EXCEPT !.sent = to, !.pc = IF to = Len(m.content.texts) THEN "record" ELSE @]]
      /\ UNCHANGED <<file, graph, state, torn>>
  BY DEF UpsertBatch
<1> HIDE DEF m, to
<1>7. m = command[c]
  BY DEF m
<1> QED BY <1>1, <1>2, <1>3, <1>5, <1>6, <1>7

LEMMA UpsertBatchKeeps ==
  ASSUME IngestInv, NEW c \in Commands, UpsertBatch(c)
  PROVE  /\ IngestInv'
         /\ \A x \in Collections : \A p \in index[x] : \E q \in index'[x] : SamePoint(p, q)
<1>1. PICK to \in Nat, m \in Tasks :
           /\ m = command[c] /\ m.content \in ReviewedContents /\ m.sent \in Nat /\ m.collection \in Collections
           /\ to <= Len(m.content.texts) /\ m.pc = "index" /\ Head(m.todo) \in Sources
           /\ index' = [index EXCEPT ![m.collection] =
                          UpsertPoints(@, {Chunk(Head(m.todo), m.content, k) : k \in (m.sent + 1)..to})]
           /\ command' = [command EXCEPT ![c] =
                            [m EXCEPT !.sent = to, !.pc = IF to = Len(m.content.texts) THEN "record" ELSE @]]
           /\ UNCHANGED <<file, graph, state, torn>>
  BY BatchIs
<1> DEFINE source == Head(m.todo)
           batch == {Chunk(source, m.content, k) : k \in (m.sent + 1)..to}
           after == [m EXCEPT !.sent = to, !.pc = IF to = Len(m.content.texts) THEN "record" ELSE @]
<1>2. IngestShapes /\ index \in [Collections -> SUBSET AllPoints]
  BY DEF IngestInv, IngestShapes
<1>3. /\ after \in TaskStates /\ after.pc \in {"index", "record"} /\ after.sent = to /\ after.todo = m.todo
      /\ after.content = m.content /\ after.hash = m.hash /\ after.collection = m.collection
      /\ after.pc = "record" => to = Len(m.content.texts)
  <2>1. \A pc \in {"index", "record"} :
          LET n == [m EXCEPT !.sent = to, !.pc = pc] IN
            /\ n \in TaskStates /\ n.pc = pc /\ n.sent = to /\ n.todo = m.todo
            /\ n.content = m.content /\ n.hash = m.hash /\ n.collection = m.collection
    BY DEF TaskStates, Tasks, Reading
  <2>2. \/ after = [m EXCEPT !.sent = to, !.pc = "index"] /\ to # Len(m.content.texts)
        \/ after = [m EXCEPT !.sent = to, !.pc = "record"] /\ to = Len(m.content.texts)
    BY <1>1
  <2> HIDE DEF after
  <2> QED BY <2>1, <2>2
<1>4. command' = [command EXCEPT ![c] = after]
  BY <1>1
<1>5. index' = [index EXCEPT ![m.collection] = UpsertPoints(index[m.collection], batch)]
  BY <1>1
<1> HIDE DEF after
<1>6. /\ command' \in [Commands -> TaskStates] /\ command'[c] = after
      /\ \A d \in Commands \ {c} : command'[d] = command[d]
  BY <1>2, <1>3, <1>4, TaskSet
<1>7. batch \subseteq AllPoints
  <2> SUFFICES ASSUME NEW k \in (m.sent + 1)..to
               PROVE  Chunk(source, m.content, k) \in AllPoints
    OBVIOUS
  <2>1. k \in DOMAIN m.content.texts
    <3>1. DOMAIN m.content.texts = 1..Len(m.content.texts) /\ Len(m.content.texts) \in Nat
      BY <1>1, TextsAre DEF ReviewedContents
    <3> QED BY <1>1, <3>1
  <2>2. Chunk(source, m.content, k) \in Chunks(source, m.content)
    BY <2>1 DEF Chunks
  <2> QED BY <1>1, <2>2 DEF AllPoints
<1>8. PICK ks : ks = (m.sent + 1)..to
  OBVIOUS
<1>9. \A b : b \in batch <=> \E k \in ks : b = Chunk(source, m.content, k)
  BY <1>8
<1> HIDE DEF batch, source
<1> DEFINE old == index[m.collection]
           new == UpsertPoints(old, batch)
<1>10. /\ batch \subseteq new /\ new \subseteq old \cup batch
       /\ \A p \in old : \E q \in new : SamePoint(p, q)
       /\ \A p \in old : p.source # source \/ p.idx \notin ks => p \in new
       /\ (\A p, q \in old : SamePoint(p, q) => p = q) => \A p, q \in new : SamePoint(p, q) => p = q
  <2> HIDE DEF old
  <2> QED BY <1>9, UpsertPointsKeep
<1> HIDE DEF new
<1>11. /\ index'[m.collection] = new /\ \A x \in Collections \ {m.collection} : index'[x] = index[x]
       /\ index' \in [Collections -> SUBSET AllPoints]
  <2>1. new \in SUBSET AllPoints
    BY <1>1, <1>2, <1>7, <1>10
  <2> QED BY <1>1, <1>2, <1>5, <2>1, ZenonT(40) DEF new
<1>12. /\ \A x \in Collections : \A p \in index[x] : \E q \in index'[x] : SamePoint(p, q)
       /\ \A x \in Collections : \A p \in index[x] : p.source # source => p \in index'[x]
  <2>1. \A p : SamePoint(p, p)
    BY DEF SamePoint
  <2> QED BY <1>10, <1>11, <2>1
<1>13. IngestShapes'
  BY <1>1, <1>2, <1>6, <1>11 DEF IngestShapes
<1>14. \A d \in Commands \ {c} : TaskOK(d)'
  <2> SUFFICES ASSUME NEW d \in Commands \ {c}
               PROVE  TaskOK(d)'
    OBVIOUS
  <2>1. OnIndex(d) /\ Head(command[d].todo) \notin torn' => Head(command[d].todo) # source
    <3> SUFFICES ASSUME OnIndex(d), source \notin torn, Head(command[d].todo) = source
                 PROVE  FALSE
      BY <1>1
    <3>1. Active(c, source) /\ Active(d, source)
      BY <1>1 DEF Active, Reading, OnIndex, source
    <3>2. source \in Sources
      BY <1>1 DEF source
    <3> QED BY <3>1, <3>2 DEF IngestInv, Alone
  <2>2. OnIndex(d) => command[d].collection \in Collections
    BY <1>2, UnderIsTask DEF OnIndex, Under
  <2> QED BY <1>1, <1>2, <1>6, <1>12, <2>1, <2>2, TaskStays DEF IngestInv
<1>15. TaskOK(c)'
  <2>1. TaskOK(c) /\ OnIndex(c)
    BY <1>1 DEF IngestInv, OnIndex
  <2>2. \A k \in 1..to : k \in 1..m.sent \/ k \in ks
    BY <1>1, <1>8
  <2>3. \A k \in 1..m.sent : k \notin ks
    BY <1>1, <1>8
  <2>4. \A k \in ks : Chunk(source, m.content, k) \in new
    BY <1>9, <1>10
  <2>5. Found(c)'
    <3> SUFFICES ASSUME NEW k \in 1..to
                 PROVE  \E q \in new : SamePoint(Chunk(source, m.content, k), q)
      BY <1>1, <1>3, <1>6, <1>11 DEF Found, source
    <3>1. CASE k \in 1..m.sent
      <4>1. PICK p \in old : SamePoint(Chunk(source, m.content, k), p)
        BY <1>1, <2>1, <3>1 DEF TaskOK, Found, source
      <4>2. PICK q \in new : SamePoint(p, q)
        BY <1>10
      <4> QED BY <4>1, <4>2 DEF SamePoint
    <3>2. CASE k \in ks
      BY <2>4, <3>2 DEF SamePoint
    <3> QED BY <2>2, <3>1, <3>2
  <2>6. Placed(c)'
    <3> SUFFICES ASSUME source \notin torn, NEW k \in 1..to
                 PROVE  Chunk(source, m.content, k) \in new
      BY <1>1, <1>3, <1>6, <1>11 DEF Placed, source
    <3>1. CASE k \in 1..m.sent
      <4>1. Chunk(source, m.content, k) \in old
        BY <1>1, <2>1, <3>1 DEF TaskOK, Placed, source
      <4>2. Chunk(source, m.content, k).idx \notin ks
        BY <2>3, <3>1, ChunkFields
      <4> QED BY <1>10, <4>1, <4>2
    <3> QED BY <2>2, <2>4, <3>1
  <2>7. Progress(c)'
    BY <1>1, <1>3, <1>6, <2>1 DEF TaskOK, Progress, Reading
  <2> QED BY <2>5, <2>6, <2>7 DEF TaskOK
<1>16. Alone'
  <2>1. \A s \in Sources : Active(c, s)' => Active(c, s)
    BY <1>1, <1>3, <1>6 DEF Active, Reading
  <2> QED BY <1>1, <1>6, <2>1, AloneKept
<1>17. Exact'
  <2> SUFFICES ASSUME NEW s \in Sources \ torn, state[s] # NoRow,
                      \A d \in Commands : ~(OnIndex(d)' /\ Head(command[d].todo)' = s)
               PROVE  Chunks(s, state[s].hash) \subseteq index'[state[s].collection]
    BY <1>1 DEF Exact
  <2>1. s # source
    BY <1>1, <1>3, <1>6 DEF OnIndex, source
  <2>2. \A d \in Commands : ~(OnIndex(d) /\ Head(command[d].todo) = s)
    <3>1. ~(OnIndex(c) /\ Head(command[c].todo) = s)
      BY <1>1, <2>1 DEF source
    <3> QED BY <1>6, <3>1 DEF OnIndex
  <2>3. Chunks(s, state[s].hash) \subseteq index[state[s].collection]
    BY <2>2 DEF IngestInv, Exact
  <2>4. \A p \in Chunks(s, state[s].hash) : p.source = s
    BY ChunkFields DEF Chunks
  <2>5. state[s].collection \in Collections
    <3>1. state[s] \in IngestRows
      BY <1>2 DEF IngestShapes
    <3> QED BY <3>1 DEF IngestRows
  <2> QED BY <1>12, <2>1, <2>3, <2>4, <2>5
<1>18. RecordedIsComplete'
  <2> SUFFICES ASSUME NEW s \in Sources, Recorded(s)
               PROVE  \E content \in Contents :
                        /\ Len(content.texts) = state[s].chunks /\ content.version = state[s].version
                        /\ \A p \in Chunks(s, content) : \E q \in index'[state[s].collection] : SamePoint(p, q)
    BY <1>1 DEF RecordedIsComplete, Recorded
  <2>1. PICK content \in Contents :
          /\ Len(content.texts) = state[s].chunks /\ content.version = state[s].version
          /\ \A p \in Chunks(s, content) : \E q \in index[state[s].collection] : SamePoint(p, q)
    BY DEF IngestInv, RecordedIsComplete
  <2>2. state[s].collection \in Collections
    <3>1. state[s] \in IngestRows
      BY <1>2 DEF IngestShapes, Recorded
    <3> QED BY <3>1 DEF IngestRows
  <2>3. \A p \in Chunks(s, content) : \E q \in index'[state[s].collection] : SamePoint(p, q)
    BY <1>12, <2>1, <2>2 DEF SamePoint
  <2> QED BY <2>1, <2>3
<1>19. GraphCoversIndex'
  <2>1. [source |-> source, version |-> m.content.version] \in graph
    BY <1>1 DEF IngestInv, TaskOK, Progress, source
  <2>2. \A p \in batch : p.source = source /\ p.version = m.content.version
    BY <1>9, ChunkFields
  <2> QED BY <1>1, <1>10, <1>11, <2>1, <2>2 DEF IngestInv, GraphCoversIndex
<1>20. NoPointTwice'
  <2>1. \A p, q \in new : SamePoint(p, q) => p = q
    BY <1>1, <1>10 DEF IngestInv, NoPointTwice
  <2> QED BY <1>11, <2>1 DEF IngestInv, NoPointTwice
<1> QED BY <1>12, <1>13, <1>14, <1>15, <1>16, <1>17, <1>18, <1>19, <1>20 DEF IngestInv

LEMMA RecordStateKeeps ==
  ASSUME IngestInv, NEW c \in Commands, RecordState(c)
  PROVE  IngestInv'
<1> DEFINE m == command[c]
           source == Head(m.todo)
           row == [hash |-> m.hash, version |-> m.content.version, acl |-> m.content.acl,
                   chunks |-> Len(m.content.texts), collection |-> m.collection]
<1>1. /\ UNCHANGED <<file, graph, index, torn>> /\ m.pc = "record" /\ Under(c) /\ OnIndex(c)
      /\ state' = [state EXCEPT ![source] = row] /\ command' = NextFile(c) /\ IngestShapes
  BY DEF RecordState, Under, OnIndex, IngestInv
<1>2. /\ m \in Tasks /\ source \in Sources /\ m.collection \in Collections /\ m.sent \in Nat
  BY <1>1, UnderIsTask
<1>3. /\ m.hash \in Contents /\ m.content \in ReviewedContents /\ m.sent = Len(m.content.texts)
      /\ source \notin torn => m.content = m.hash
  BY <1>1 DEF IngestInv, TaskOK, Progress, Reading
<1>4. m.content \in Contents /\ DOMAIN m.content.texts = 1..m.sent
  BY <1>3, TextsAre DEF ReviewedContents
<1>5. row \in IngestRows
  BY <1>2, <1>3, <1>4 DEF IngestRows
<1>6. /\ \A k \in 1..m.sent : \E q \in index[m.collection] : SamePoint(Chunk(source, m.content, k), q)
      /\ source \notin torn => \A k \in 1..m.sent : Chunk(source, m.content, k) \in index[m.collection]
  BY <1>1 DEF IngestInv, TaskOK, Found, Placed
<1>7. /\ row.hash = m.hash /\ row.version = m.content.version /\ row.chunks = Len(m.content.texts)
      /\ row.collection = m.collection
  OBVIOUS
<1> HIDE DEF row
<1>8. state' \in [Sources -> IngestRows \cup {NoRow}] /\ state'[source] = row
      /\ \A s \in Sources \ {source} : state'[s] = state[s]
  BY <1>1, <1>2, <1>5 DEF IngestShapes
<1>9. /\ command' \in [Commands -> TaskStates] /\ \A d \in Commands \ {c} : command'[d] = command[d]
      /\ command'[c].pc \in {"ended", "read"} /\ (command'[c].pc = "read" => command'[c].sent = 0)
  BY <1>1, NextFileIs DEF IngestShapes
<1>10. IngestShapes'
  BY <1>1, <1>8, <1>9 DEF IngestShapes
<1>11. TaskOK(c)'
  BY <1>9, TaskIdle
<1>12. \A d \in Commands : TaskOK(d)'
  <2> SUFFICES ASSUME NEW d \in Commands \ {c}
               PROVE  TaskOK(d)'
    BY <1>11
  <2> QED BY <1>1, <1>9, IndexStays, TaskStays DEF IngestInv
<1>13. Alone'
  <2>1. \A s \in Sources : ~Active(c, s)'
    BY <1>9 DEF Active, Reading
  <2> QED BY <1>1, <1>9, <2>1, AloneKept
<1>14. Exact'
  <2> SUFFICES ASSUME NEW s \in Sources \ torn, state'[s] # NoRow,
                      \A d \in Commands : ~(OnIndex(d)' /\ Head(command[d].todo)' = s)
               PROVE  Chunks(s, state'[s].hash) \subseteq index[state'[s].collection]
    BY <1>1 DEF Exact
  <2>1. CASE s = source
    BY <1>3, <1>4, <1>6, <1>7, <1>8, <2>1 DEF Chunks
  <2>2. CASE s # source
    <3>1. \A d \in Commands : ~(OnIndex(d) /\ Head(command[d].todo) = s)
      BY <1>9, <2>2 DEF OnIndex
    <3> QED BY <1>8, <2>2, <3>1 DEF IngestInv, Exact
  <2> QED BY <2>1, <2>2
<1>15. RecordedIsComplete'
  <2> SUFFICES ASSUME NEW s \in Sources, state'[s] # NoRow, state'[s].chunks > 0
               PROVE  \E content \in Contents :
                        /\ Len(content.texts) = state'[s].chunks /\ content.version = state'[s].version
                        /\ \A p \in Chunks(s, content) : \E q \in index[state'[s].collection] : SamePoint(p, q)
    BY <1>1 DEF RecordedIsComplete, Recorded
  <2>1. CASE s = source
    <3>1. \A p \in Chunks(s, m.content) : \E q \in index[m.collection] : SamePoint(p, q)
      BY <1>4, <1>6, <2>1 DEF Chunks
    <3> QED BY <1>4, <1>7, <1>8, <2>1, <3>1
  <2>2. CASE s # source
    BY <1>8, <2>2 DEF IngestInv, RecordedIsComplete, Recorded
  <2> QED BY <2>1, <2>2
<1>16. GraphCoversIndex' /\ NoPointTwice'
  BY <1>1 DEF IngestInv, GraphCoversIndex, NoPointTwice
<1> QED BY <1>10, <1>12, <1>13, <1>14, <1>15, <1>16 DEF IngestInv

LEMMA IngestStays ==
  ASSUME IngestInv, UNCHANGED <<graph, index, state, command, torn>>, file' \in [Sources -> Contents]
  PROVE  IngestInv'
<1>1. IngestShapes'
  BY DEF IngestInv, IngestShapes
<1>2. \A c \in Commands : TaskOK(c)'
  BY IndexStays, TaskStays DEF IngestInv
<1>3. Alone' /\ Exact' /\ RecordedIsComplete' /\ GraphCoversIndex' /\ NoPointTwice'
  BY DEF IngestInv, Alone, Active, Exact, OnIndex, RecordedIsComplete, Recorded, GraphCoversIndex, NoPointTwice
<1> QED BY <1>1, <1>2, <1>3 DEF IngestInv

LEMMA IngestStep ==
  ASSUME IngestInv, [IngestNext]_ingestvars
  PROVE  IngestInv'
<1>1. ASSUME NEW source \in Sources, NEW content \in Contents, Edit(source, content)
      PROVE  IngestInv'
  <2>1. UNCHANGED <<graph, index, state, command, torn>> /\ file' = [file EXCEPT ![source] = content]
    BY <1>1 DEF Edit
  <2>2. file' \in [Sources -> Contents]
    BY <2>1 DEF IngestInv, IngestShapes
  <2> QED BY <2>1, <2>2, IngestStays
<1>2. CASE UNCHANGED ingestvars
  BY <1>2, IngestStays DEF ingestvars, IngestInv, IngestShapes
<1> QED BY <1>1, <1>2, RunKeeps, ReadHashKeeps, LookupKeeps, ParseKeeps, MergeSopKeeps, UpsertBatchKeeps,
           RecordStateKeeps, AbortKeeps DEF IngestNext

LEMMA IngestStarts ==
  ASSUME IngestInit
  PROVE  IngestInv
<1>1. /\ file \in [Sources -> {c \in Contents : c.reviewed}] /\ graph = {}
      /\ index = [c \in Collections |-> {}] /\ state = [s \in Sources |-> NoRow]
      /\ command = [c \in Commands |-> Unstarted] /\ torn = {}
  BY DEF IngestInit
<1>2. Unstarted \in TaskStates /\ Unstarted.pc = "waiting"
  BY DEF Unstarted, TaskStates
<1>3. IngestShapes
  BY <1>1, <1>2 DEF IngestShapes
<1>4. \A c \in Commands : command[c].pc = "waiting"
  BY <1>1, <1>2
<1>5. \A c \in Commands : TaskOK(c)
  BY <1>4 DEF TaskOK, Found, Placed, Progress, OnIndex, Reading
<1>6. Alone
  BY <1>4 DEF Alone, Active, Reading
<1>7. Exact /\ RecordedIsComplete /\ GraphCoversIndex /\ NoPointTwice
  BY <1>1 DEF Exact, RecordedIsComplete, Recorded, GraphCoversIndex, NoPointTwice
<1> QED BY <1>3, <1>5, <1>6, <1>7 DEF IngestInv

LEMMA IngestMeans ==
  ASSUME IngestInv
  PROVE  StoresAgree
<1>1. IngestShapes
  BY DEF IngestInv
<1>2. IngestTypes
  <2>1. \A x \in Collections : \A p \in index[x] :
          \E content \in Contents : content.reviewed /\ p \in Chunks(p.source, content)
    <3> SUFFICES ASSUME NEW x \in Collections, NEW p \in index[x]
                 PROVE  \E content \in Contents : content.reviewed /\ p \in Chunks(p.source, content)
      OBVIOUS
    <3>1. PICK source \in Sources, content \in ReviewedContents : p \in Chunks(source, content)
      BY <1>1 DEF IngestShapes, AllPoints
    <3>2. p.source = source
      BY <3>1, ChunkFields DEF Chunks
    <3> QED BY <3>1, <3>2 DEF ReviewedContents
  <2>2. \A s \in Sources : state[s] # NoRow => state[s].hash \in Contents /\ state[s].collection \in Collections
    <3>1. \A s \in Sources : state[s] # NoRow => state[s] \in IngestRows
      BY <1>1 DEF IngestShapes
    <3> QED BY <3>1 DEF IngestRows
  <2> QED BY <1>1, <2>1, <2>2 DEF IngestTypes, IngestShapes
<1>3. SkippedIsIndexed
  <2> SUFFICES ASSUME NEW s \in Sources \ torn, Skipped(s), \A c \in Commands : ~WorksOn(c, s)
               PROVE  Chunks(s, file[s]) \subseteq index[state[s].collection]
    BY DEF SkippedIsIndexed
  <2>1. state[s] # NoRow /\ state[s].hash = file[s]
    BY DEF Skipped, Unchanged
  <2>2. \A c \in Commands : ~(OnIndex(c) /\ Head(command[c].todo) = s)
    BY DEF WorksOn, Under, OnIndex
  <2> QED BY <2>1, <2>2 DEF IngestInv, Exact
<1> QED BY <1>2, <1>3 DEF IngestInv, StoresAgree

\* Whatever the files, the commands, the batches, the edits and the failures:
\* a file the next run would skip is in the index as it stands, a recorded one
\* misses no chunk, what the index holds is in the graph, and no point is there
\* twice (pipeline.py, state.py, qdrant_writer.py).
THEOREM StoresStayAgreed == IngestSpec => []StoresAgree
<1>1. IngestInit => IngestInv
  BY IngestStarts
<1>2. IngestInv /\ [IngestNext]_ingestvars => IngestInv'
  BY IngestStep
<1>3. IngestInv => StoresAgree
  BY IngestMeans
<1> QED BY <1>1, <1>2, <1>3, PTL DEF IngestSpec

-----------------------------------------------------------------------------
(* MaintenanceCoach: the checkpoint and what the calls have read of it.    *)

Threads ==
  [state : {"absent", "open", "ended"}, technician : BOOLEAN, step : 0..MaxSteps, reports : Seq(Reports)]
CoachCalls ==
  [op : {"start", "step", "resume_after_help"}, at : {"input", "node", "interrupted", "finished"},
   view : Threads, id : Nat, saw : -1..MaxSteps]

GoodThread(t) ==
  /\ t \in Threads /\ Len(t.reports) = t.step
  /\ \A k \in DOMAIN t.reports : t.reports[k].step = k - 1
  /\ t.reports # <<>> => t.technician
  /\ t.state = "ended" => t.step = MaxSteps

\* What a call read is a checkpoint there was, and it takes no answer past the
\* last step.
CallOK(c) ==
  c \in Busy =>
    /\ GoodThread(call[c].view) /\ call[c].view.state # "absent"
    /\ Range(call[c].view.reports) \subseteq made
    /\ call[c].id \in 1..calls
    /\ call[c].at = "input" => call[c].view.step < MaxSteps /\ call[c].op # "start"
    /\ call[c].at = "finished" => call[c].view.step = MaxSteps
    /\ call[c].op = "start" => call[c].view.step = 0

CoachShapes ==
  /\ GoodThread(thread) /\ Range(thread.reports) \subseteq made
  /\ call \in [Clients -> {Idle} \cup CoachCalls] /\ \A c \in Clients : CallOK(c)
  /\ told \in -1..MaxSteps
  /\ auditRows \subseteq [id : 1..MaxCalls, step : 0..MaxSteps, answer : 0..MaxCalls]
  /\ made \subseteq Reports /\ IsFiniteSet(made)
  /\ calls \in 0..MaxCalls /\ errors \in Nat /\ overlaps \in Nat /\ restarts \in Nat /\ resumes \in Nat
  /\ thread.state = "absent" => thread.reports = <<>> /\ ~thread.technician /\ Busy = {} /\ made = {}

LEMMA CallFields ==
  ASSUME CoachShapes, NEW c \in Clients
  PROVE  /\ call[c] \in {Idle} \cup CoachCalls /\ Idle.op = "none"
         /\ c \in Busy <=> call[c].op # "none"
         /\ c \in Busy => /\ call[c] \in CoachCalls /\ call[c].view \in Threads /\ call[c].saw \in -1..MaxSteps
                          /\ call[c].id \in Nat
                          /\ call[c].op \in {"start", "step", "resume_after_help"}
                          /\ call[c].at \in {"input", "node", "interrupted", "finished"}
                          /\ CallOK(c)
<1>1. call[c] \in {Idle} \cup CoachCalls /\ Idle.op = "none" /\ CallOK(c)
  BY DEF CoachShapes, Idle
<1>2. c \in Busy <=> call[c].op # "none"
  BY DEF Busy
<1>3. \A m \in CoachCalls : /\ m.op \in {"start", "step", "resume_after_help"} /\ m.view \in Threads /\ m.id \in Nat
                            /\ m.at \in {"input", "node", "interrupted", "finished"} /\ m.saw \in -1..MaxSteps
  BY DEF CoachCalls
<1> QED BY <1>1, <1>2, <1>3

LEMMA ThreadFields ==
  ASSUME NEW t, GoodThread(t)
  PROVE  /\ t.step \in 0..MaxSteps /\ t.reports \in Seq(Reports) /\ t.technician \in BOOLEAN /\ t.step \in Nat
         /\ t.state \in {"absent", "open", "ended"} /\ MaxSteps \in Nat \ {0}
         /\ t.reports = <<>> <=> t.step = 0
         /\ LastStepDone(t) <=> t.step = MaxSteps
<1>1. /\ t.step \in 0..MaxSteps /\ t.reports \in Seq(Reports) /\ t.technician \in BOOLEAN
      /\ t.state \in {"absent", "open", "ended"} /\ MaxSteps \in Nat \ {0} /\ Len(t.reports) = t.step
  BY CoachAssumption DEF GoodThread, Threads
<1>2. t.reports = <<>> <=> Len(t.reports) = 0
  BY <1>1, Emptiness
<1> QED BY <1>1, <1>2 DEF LastStepDone

LEMMA OpenThread ==
  ASSUME NEW b \in BOOLEAN, NEW S, NEW N, <<>> \in S, 0 \in N, NEW n,
         n = [state |-> "open", technician |-> b, step |-> 0, reports |-> <<>>]
  PROVE  /\ n \in [state : {"absent", "open", "ended"}, technician : BOOLEAN, step : N, reports : S]
         /\ n.state = "open" /\ n.step = 0 /\ n.reports = <<>> /\ n.technician = b
<1>1. n \in [state : {"absent", "open", "ended"}, technician : BOOLEAN, step : N, reports : S]
  OBVIOUS
<1>2. n.state = "open" /\ n.step = 0 /\ n.reports = <<>>
  OBVIOUS
<1>3. n.technician = b
  BY Zenon
<1> QED BY <1>1, <1>2, <1>3

LEMMA FreshThread ==
  ASSUME NEW b \in BOOLEAN, NEW fresh, fresh = [Absent EXCEPT !.state = "open", !.technician = b]
  PROVE  /\ GoodThread(fresh) /\ fresh.state = "open" /\ fresh.reports = <<>> /\ fresh.step = 0
         /\ fresh.technician = b /\ Range(fresh.reports) = {}
<1>1. fresh = [state |-> "open", technician |-> b, step |-> 0, reports |-> <<>>]
  BY DEF Absent
<1>2. <<>> \in Seq(Reports) /\ Len(<<>>) = 0 /\ DOMAIN <<>> = {}
  OBVIOUS
<1>3. 0 \in 0..MaxSteps
  BY CoachAssumption
<1>4. /\ fresh \in Threads
      /\ fresh.state = "open" /\ fresh.step = 0 /\ fresh.reports = <<>> /\ fresh.technician = b
  BY <1>1, <1>2, <1>3, OpenThread DEF Threads
<1> QED BY <1>2, <1>4 DEF GoodThread, Range

\* A call that comes in.
LEMMA BeginIs ==
  ASSUME CoachShapes, NEW c \in Clients, NEW op \in {"start", "step", "resume_after_help"},
         NEW at \in {"input", "node", "finished"}, NEW view \in Threads, Begin(c, op, at, view)
  PROVE  /\ call' \in [Clients -> {Idle} \cup CoachCalls] /\ \A d \in Clients \ {c} : call'[d] = call[d]
         /\ call'[c].op = op /\ call'[c].at = at /\ call'[c].view = view /\ call'[c].id = calls + 1
         /\ call'[c].saw = told
         /\ calls' = calls + 1 /\ calls' \in 0..MaxCalls /\ c \notin Busy /\ Busy' = Busy \cup {c}
         /\ overlaps' \in Nat /\ (overlaps' = 0 => overlaps = 0 /\ Busy = {})
<1> DEFINE m == [op |-> op, at |-> at, view |-> view, id |-> calls + 1, saw |-> told]
<1>1. m \in CoachCalls /\ m.op = op /\ m.at = at /\ m.view = view /\ m.id = calls + 1 /\ m.saw = told
  BY DEF CoachShapes, CoachCalls
<1>2. call' = [call EXCEPT ![c] = m] /\ call[c].op = "none"
  BY DEF Begin
<1> HIDE DEF m
<1>3. /\ call' \in [Clients -> {Idle} \cup CoachCalls] /\ call'[c] = m
      /\ \A d \in Clients \ {c} : call'[d] = call[d]
  BY <1>1, <1>2 DEF CoachShapes
<1>4. c \notin Busy /\ Busy' = Busy \cup {c}
  BY <1>1, <1>2, <1>3 DEF Busy
<1>5. calls' = calls + 1 /\ calls' \in 0..MaxCalls /\ overlaps' \in Nat /\ (overlaps' = 0 => overlaps = 0 /\ Busy = {})
  BY CoachAssumption DEF Begin, CoachShapes
<1> QED BY <1>1, <1>3, <1>4, <1>5

\* A call that ends.
LEMMA EndIs ==
  ASSUME CoachShapes, NEW c \in Clients, End(c)
  PROVE  /\ call' \in [Clients -> {Idle} \cup CoachCalls] /\ \A d \in Clients \ {c} : call'[d] = call[d]
         /\ Busy' = Busy \ {c}
<1>1. /\ call' \in [Clients -> {Idle} \cup CoachCalls] /\ call'[c] = Idle
      /\ \A d \in Clients \ {c} : call'[d] = call[d]
  BY DEF End, CoachShapes
<1>2. Idle.op = "none"
  BY DEF Idle
<1> QED BY <1>1, <1>2 DEF Busy

\* A call that goes on: it reads another place and another checkpoint.
LEMMA MoveIs ==
  ASSUME CoachShapes, NEW c \in Busy, NEW m \in CoachCalls, m.op = call[c].op, call' = [call EXCEPT ![c] = m]
  PROVE  /\ call' \in [Clients -> {Idle} \cup CoachCalls] /\ \A d \in Clients \ {c} : call'[d] = call[d]
         /\ call'[c] = m /\ Busy' = Busy
<1>1. c \in Clients /\ call[c].op # "none"
  BY DEF Busy
<1>2. /\ call' \in [Clients -> {Idle} \cup CoachCalls] /\ call'[c] = m
      /\ \A d \in Clients \ {c} : call'[d] = call[d]
  BY <1>1 DEF CoachShapes
<1>3. Busy' = Busy
  BY <1>1, <1>2 DEF Busy
<1> QED BY <1>2, <1>3

\* The other calls keep what they read.
LEMMA CallsStay ==
  ASSUME CoachShapes, NEW d \in Clients, call'[d] = call[d], made \subseteq made', calls <= calls', calls' \in Nat
  PROVE  CallOK(d)'
<1>1. d \in Busy' <=> d \in Busy
  BY DEF Busy
<1>2. calls \in Nat
  BY CoachAssumption DEF CoachShapes
<1> QED BY <1>1, <1>2 DEF CoachShapes, CallOK

\* The report taken from an answer.
LEMMA TakenIs ==
  ASSUME CoachShapes, NEW c \in Clients, TakeInput(c)
  PROVE  \E report \in Reports :
           LET t == call[c].view IN
           /\ c \in Busy /\ call[c].at = "input" /\ call[c].op # "start" /\ GoodThread(t) /\ t.state # "absent"
           /\ report.step = t.step /\ report.answer = call[c].id /\ report.saw = call[c].saw
           /\ GoodThread(thread') /\ thread'.state # "absent" /\ call'[c].view = thread' /\ call'[c].at = "node"
           /\ call'[c].op = call[c].op /\ call'[c].id = call[c].id /\ Busy' = Busy
           /\ call' \in [Clients -> {Idle} \cup CoachCalls] /\ \A d \in Clients \ {c} : call'[d] = call[d]
           /\ \/ /\ Unassigned(t) /\ thread' = t /\ made' = made
              \/ /\ ~Unassigned(t) /\ thread'.reports = Append(t.reports, report) /\ thread'.step = t.step + 1
                 /\ Range(thread'.reports) = Range(t.reports) \cup {report} /\ made' = made \cup {report}
                 /\ LastAnswer(thread'.reports) = report.answer
<1> DEFINE t == call[c].view
           report == [step |-> t.step, answer |-> call[c].id, saw |-> call[c].saw]
           next == IF Unassigned(t) THEN t ELSE [t EXCEPT !.step = @ + 1, !.reports = Append(@, report)]
<1>1. /\ c \in Busy /\ call[c].at = "input" /\ thread' = next
      /\ made' = made \cup (Range(next.reports) \ Range(t.reports))
      /\ call' = [call EXCEPT ![c].view = next, ![c].at = "node"]
  BY DEF TakeInput, Busy
<1>2. /\ GoodThread(t) /\ t.state # "absent" /\ t.step < MaxSteps /\ call[c].id \in 1..calls
      /\ Range(t.reports) \subseteq made /\ call[c].saw \in -1..MaxSteps /\ call[c].op # "start" /\ t \in Threads
  BY <1>1, CallFields DEF CallOK
<1>3. /\ t.step \in Nat /\ t.reports \in Seq(Reports) /\ t.technician \in BOOLEAN /\ MaxSteps \in Nat \ {0}
      /\ t.reports = <<>> <=> t.step = 0
  BY <1>2, ThreadFields
<1>4. report \in Reports /\ report.step = t.step /\ report.answer = call[c].id /\ report.saw = call[c].saw
  <2>1. t.step \in 0..(MaxSteps - 1)
    BY <1>2, <1>3
  <2>2. call[c].id \in 1..MaxCalls
    BY <1>2, CoachAssumption DEF CoachShapes
  <2>3. call[c].saw \in -1..MaxSteps
    BY <1>2
  <2> QED BY <2>1, <2>2, <2>3 DEF Reports
<1> DEFINE m == [call[c] EXCEPT !.view = next, !.at = "node"]
<1>5. call' = [call EXCEPT ![c] = m]
  BY <1>1
<1>8. ASSUME next \in Threads
      PROVE  /\ call' \in [Clients -> {Idle} \cup CoachCalls] /\ \A d \in Clients \ {c} : call'[d] = call[d]
             /\ call'[c].op = call[c].op /\ call'[c].at = "node" /\ call'[c].view = next /\ call'[c].id = call[c].id
             /\ Busy' = Busy
  <2>1. call[c] \in CoachCalls
    BY <1>1, CallFields
  <2> HIDE DEF next
  <2>2. m \in CoachCalls /\ m.op = call[c].op /\ m.at = "node" /\ m.view = next /\ m.id = call[c].id
    BY <1>8, <2>1 DEF CoachCalls
  <2> HIDE DEF m
  <2> QED BY <1>1, <1>5, <2>2, MoveIs
<1> HIDE DEF m
<1> HIDE DEF report, t
<1>6. CASE Unassigned(t)
  <2>1. next = t
    BY <1>6
  <2>2. made' = made
    BY <1>1, <2>1
  <2> HIDE DEF next
  <2>3. /\ call' \in [Clients -> {Idle} \cup CoachCalls] /\ \A d \in Clients \ {c} : call'[d] = call[d]
        /\ call'[c].op = call[c].op /\ call'[c].at = "node" /\ call'[c].view = next /\ call'[c].id = call[c].id
        /\ Busy' = Busy
    BY <1>2, <1>8, <2>1
  <2> QED BY <1>1, <1>2, <1>4, <1>6, <2>1, <2>2, <2>3 DEF t
<1>7. CASE ~Unassigned(t)
  <2>1. next = [t EXCEPT !.step = t.step + 1, !.reports = Append(t.reports, report)]
    BY <1>7
  <2>2. /\ Append(t.reports, report) \in Seq(Reports) /\ Len(Append(t.reports, report)) = t.step + 1
        /\ Append(t.reports, report)[t.step + 1] = report
        /\ \A k \in 1..t.step : Append(t.reports, report)[k] = t.reports[k]
        /\ DOMAIN Append(t.reports, report) = 1..(t.step + 1) /\ DOMAIN t.reports = 1..t.step
        /\ Append(t.reports, report) # <<>>
    <3>1. Len(t.reports) = t.step
      BY <1>2 DEF GoodThread
    <3>2. Append(t.reports, report) \in Seq(Reports) /\ Len(Append(t.reports, report)) = t.step + 1
      BY <1>3, <1>4, <3>1
    <3>3. Append(t.reports, report) # <<>>
      BY <1>3, <3>2, Emptiness
    <3> QED BY <1>3, <1>4, <3>1, <3>2, <3>3
  <2>3. /\ next \in Threads /\ next.step = t.step + 1 /\ next.reports = Append(t.reports, report)
        /\ next.state = t.state /\ next.technician = t.technician
    <3>1. t.step + 1 \in 0..MaxSteps
      BY <1>2, <1>3
    <3> DEFINE pos == t.step + 1
               reps == Append(t.reports, report)
               S == Seq(Reports)
               N == 0..MaxSteps
    <3>2. next = [t EXCEPT !.step = pos, !.reports = reps]
      BY <2>1
    <3>3. t \in [state : {"absent", "open", "ended"}, technician : BOOLEAN, step : N, reports : S] /\ pos \in N /\ reps \in S
      BY <1>2, <2>2, <3>1 DEF Threads
    <3> HIDE DEF next, pos, reps, N, S
    <3>4. /\ next \in [state : {"absent", "open", "ended"}, technician : BOOLEAN, step : N, reports : S]
          /\ next.step = pos /\ next.reports = reps /\ next.state = t.state /\ next.technician = t.technician
      BY <3>2, <3>3
    <3> QED BY <3>4 DEF pos, reps, N, S, Threads
  <2> HIDE DEF next
  <2>4. t.technician
    BY <1>2, <1>3, <1>7 DEF Unassigned, GoodThread
  <2>5. \A k \in 1..(t.step + 1) : next.reports[k].step = k - 1
    <3>1. \A k \in 1..(t.step + 1) : k \in 1..t.step \/ k = t.step + 1
      BY <1>3
    <3>2. \A k \in 1..t.step : t.reports[k].step = k - 1
      BY <1>2, <2>2 DEF GoodThread
    <3> QED BY <1>3, <1>4, <2>2, <2>3, <3>1, <3>2
  <2>6. t.state # "ended"
    BY <1>2, <1>3 DEF GoodThread
  <2>7. GoodThread(next)
    BY <2>2, <2>3, <2>4, <2>5, <2>6 DEF GoodThread
  <2>8. Range(next.reports) = Range(t.reports) \cup {report}
    <3>1. \A k \in 1..(t.step + 1) : k \in 1..t.step \/ k = t.step + 1
      BY <1>3
    <3>2. 1..t.step \subseteq 1..(t.step + 1) /\ t.step + 1 \in 1..(t.step + 1)
      BY <1>3
    <3> QED BY <2>2, <2>3, <3>1, <3>2 DEF Range
  <2>9. made' = made \cup {report}
    BY <1>1, <1>2, <2>8 DEF t
  <2>10. LastAnswer(next.reports) = report.answer
    BY <2>2, <2>3 DEF LastAnswer, Last
  <2>11. /\ call' \in [Clients -> {Idle} \cup CoachCalls] /\ \A d \in Clients \ {c} : call'[d] = call[d]
         /\ call'[c].op = call[c].op /\ call'[c].at = "node" /\ call'[c].view = next /\ call'[c].id = call[c].id
         /\ Busy' = Busy
    BY <1>8, <2>3
  <2> QED BY <1>1, <1>2, <1>4, <1>7, <2>3, <2>7, <2>8, <2>9, <2>10, <2>11 DEF t
<1> QED BY <1>6, <1>7

\* The node a call runs.
LEMMA RanIs ==
  ASSUME CoachShapes, NEW c \in Clients, RunNode(c)
  PROVE  LET t == call[c].view IN
         /\ c \in Busy /\ call[c].at = "node" /\ GoodThread(t) /\ t.state # "absent" /\ Range(t.reports) \subseteq made
         /\ call' \in [Clients -> {Idle} \cup CoachCalls] /\ \A d \in Clients \ {c} : call'[d] = call[d]
         /\ call'[c].op = call[c].op /\ call'[c].id = call[c].id /\ call'[c].saw = call[c].saw /\ Busy' = Busy
         /\ \/ /\ t.step = MaxSteps /\ GoodThread(thread') /\ thread'.state = "ended" /\ thread'.step = t.step
               /\ thread'.reports = t.reports /\ thread'.technician = t.technician
               /\ call'[c].view = thread' /\ call'[c].at = "finished"
            \/ t.step < MaxSteps /\ thread' = thread /\ call'[c].view = t /\ call'[c].at = "interrupted"
<1> DEFINE t == call[c].view
<1>1. c \in Busy /\ call[c].at = "node"
  BY DEF RunNode, Busy
<1>2. /\ GoodThread(t) /\ t.state # "absent" /\ Range(t.reports) \subseteq made /\ t \in Threads
      /\ call[c] \in CoachCalls
  BY <1>1, CallFields DEF CallOK
<1>3. t.step \in 0..MaxSteps /\ MaxSteps \in Nat /\ (LastStepDone(t) <=> t.step = MaxSteps)
  BY <1>2, ThreadFields
<1>4. CASE LastStepDone(t)
  <2> DEFINE n == Complete(t)
             m == [call[c] EXCEPT !.view = n, !.at = "finished"]
  <2>1. thread' = n /\ call' = [call EXCEPT ![c] = m]
    BY <1>4 DEF RunNode
  <2>2. /\ n \in Threads /\ n.state = "ended" /\ n.step = t.step /\ n.reports = t.reports /\ n.technician = t.technician
    <3> DEFINE S == Seq(Reports)
               N == 0..MaxSteps
    <3>1. n = [t EXCEPT !.state = "ended"]
      BY DEF Complete
    <3>2. t \in [state : {"absent", "open", "ended"}, technician : BOOLEAN, step : N, reports : S]
      BY <1>2 DEF Threads
    <3> HIDE DEF n, N, S, t
    <3>3. /\ n \in [state : {"absent", "open", "ended"}, technician : BOOLEAN, step : N, reports : S]
          /\ n.state = "ended" /\ n.step = t.step /\ n.reports = t.reports /\ n.technician = t.technician
      BY <3>1, <3>2
    <3> QED BY <3>3 DEF N, S, Threads
  <2> HIDE DEF n
  <2>3. m \in CoachCalls /\ m.op = call[c].op /\ m.at = "finished" /\ m.view = n /\ m.id = call[c].id /\ m.saw = call[c].saw
    BY <1>2, <2>2 DEF CoachCalls
  <2> HIDE DEF m
  <2>4. /\ call' \in [Clients -> {Idle} \cup CoachCalls] /\ \A d \in Clients \ {c} : call'[d] = call[d]
        /\ call'[c] = m /\ Busy' = Busy
    BY <1>1, <2>1, <2>3, MoveIs
  <2>5. GoodThread(n)
    BY <1>2, <1>3, <1>4, <2>2 DEF GoodThread
  <2> QED BY <1>1, <1>2, <1>3, <1>4, <2>1, <2>2, <2>3, <2>4, <2>5
<1>5. CASE ~LastStepDone(t)
  <2> DEFINE m == [call[c] EXCEPT !.at = "interrupted"]
  <2>1. thread' = thread /\ call' = [call EXCEPT ![c] = m]
    BY <1>5 DEF RunNode
  <2>2. m \in CoachCalls /\ m.op = call[c].op /\ m.at = "interrupted" /\ m.view = t /\ m.id = call[c].id /\ m.saw = call[c].saw
    BY <1>2 DEF CoachCalls
  <2> HIDE DEF m
  <2>3. /\ call' \in [Clients -> {Idle} \cup CoachCalls] /\ \A d \in Clients \ {c} : call'[d] = call[d]
        /\ call'[c] = m /\ Busy' = Busy
    BY <1>1, <2>1, <2>2, MoveIs
  <2> QED BY <1>1, <1>2, <1>3, <1>5, <2>1, <2>2, <2>3
<1> QED BY <1>4, <1>5

\* A call that returns: what it writes, and nothing else of the thread.
CallEnds(c) == StartReturns(c) \/ StepReturns(c) \/ SupervisorRowRefused(c) \/ Fail(c)

LEMMA WrittenIs ==
  ASSUME CoachShapes, NEW c \in Busy, NEW pos \in 0..MaxSteps, NEW answer \in 0..MaxCalls, WriteAudit(c, pos, answer)
  PROVE  /\ auditRows' \subseteq [id : 1..MaxCalls, step : 0..MaxSteps, answer : 0..MaxCalls]
         /\ \/ auditRows' = auditRows \cup {[id |-> call[c].id, step |-> pos, answer |-> answer]} /\ errors' = errors
            \/ auditRows' = auditRows /\ errors' = errors + 1
<1>1. call[c].id \in 1..calls /\ calls \in 0..MaxCalls /\ MaxCalls \in Nat
  BY CallFields, CoachAssumption DEF CoachShapes, CallOK, Busy
<1>2. call[c].id \in 1..MaxCalls
  BY <1>1
<1>3. auditRows \subseteq [id : 1..MaxCalls, step : 0..MaxSteps, answer : 0..MaxCalls]
  BY DEF CoachShapes
<1>4. \/ auditRows' = auditRows \cup {[id |-> call[c].id, step |-> pos, answer |-> answer]} /\ errors' = errors
      \/ auditRows' = auditRows /\ errors' = errors + 1
  BY DEF WriteAudit
<1> QED BY <1>2, <1>3, <1>4

LEMMA LastIs ==
  ASSUME NEW t, GoodThread(t)
  PROVE  /\ LastAnswer(t.reports) \in 0..MaxCalls /\ Before(t.step) \in 0..MaxSteps
         /\ t.step = 0 => LastAnswer(t.reports) = 0
         /\ t.step # 0 => \E r \in Range(t.reports) : r.answer = LastAnswer(t.reports) /\ r.step = Before(t.step)
<1>1. /\ t.step \in 0..MaxSteps /\ MaxSteps \in Nat /\ MaxCalls \in Nat /\ t.reports \in Seq(Reports)
      /\ Len(t.reports) = t.step /\ (t.reports = <<>> <=> t.step = 0)
  BY ThreadFields, CoachAssumption DEF GoodThread
<1>2. CASE t.step = 0
  BY <1>1, <1>2 DEF LastAnswer, Before
<1>3. CASE t.step # 0
  <2> DEFINE r == t.reports[t.step]
  <2>1. t.step \in DOMAIN t.reports /\ r \in Reports /\ r \in Range(t.reports)
    BY <1>1, <1>3 DEF Range
  <2>2. r.answer = LastAnswer(t.reports) /\ r.answer \in 0..MaxCalls
    BY <1>1, <1>3, <2>1 DEF LastAnswer, Last, Reports
  <2>3. r.step = t.step - 1
    BY <2>1 DEF GoodThread
  <2> QED BY <1>1, <1>3, <2>1, <2>2, <2>3 DEF Before
<1> QED BY <1>2, <1>3

LEMMA ReturnIs ==
  ASSUME CoachShapes, NEW c \in Clients, CallEnds(c)
  PROVE  /\ c \in Busy /\ End(c) /\ UNCHANGED <<thread, made, calls, overlaps, restarts, resumes>>
         /\ told' \in -1..MaxSteps /\ errors' \in Nat /\ errors' >= errors
         /\ auditRows \subseteq auditRows' /\ auditRows' \subseteq [id : 1..MaxCalls, step : 0..MaxSteps, answer : 0..MaxCalls]
<1>1. c \in Busy
  BY DEF CallEnds, StartReturns, StepReturns, SupervisorRowRefused, Fail, Busy
<1>2. GoodThread(call[c].view) /\ errors \in Nat /\ MaxSteps \in Nat /\ MaxCalls \in Nat
  BY <1>1, CallFields, CoachAssumption DEF CoachShapes, CallOK
<1>3. call[c].view.step \in 0..MaxSteps
  BY <1>2, ThreadFields
<1>4. End(c) /\ UNCHANGED <<thread, made, calls, overlaps, restarts, resumes>>
  BY DEF CallEnds, StartReturns, StepReturns, SupervisorRowRefused, Fail
<1> DEFINE Wrote == \/ auditRows' = auditRows /\ errors' \in {errors, errors + 1}
                    \/ \E pos \in 0..MaxSteps, answer \in 0..MaxCalls : WriteAudit(c, pos, answer)
<1>5. Wrote /\ told' \in -1..MaxSteps
  <2>1. told \in -1..MaxSteps /\ 0 \in -1..MaxSteps /\ call[c].view.step \in -1..MaxSteps
    BY <1>2, <1>3 DEF CoachShapes
  <2>2. CASE StartReturns(c)
    BY <2>1, <2>2 DEF StartReturns
  <2>3. CASE StepReturns(c)
    BY <1>2, <2>1, <2>3, LastIs DEF StepReturns
  <2>4. CASE SupervisorRowRefused(c) \/ Fail(c)
    BY <2>1, <2>4 DEF SupervisorRowRefused, Fail
  <2> QED BY <2>2, <2>3, <2>4 DEF CallEnds
<1>6. /\ errors' \in Nat /\ errors' >= errors /\ auditRows \subseteq auditRows'
      /\ auditRows' \subseteq [id : 1..MaxCalls, step : 0..MaxSteps, answer : 0..MaxCalls]
  <2>1. CASE auditRows' = auditRows /\ errors' \in {errors, errors + 1}
    BY <1>2, <2>1 DEF CoachShapes
  <2>2. CASE \E pos \in 0..MaxSteps, answer \in 0..MaxCalls : WriteAudit(c, pos, answer)
    BY <1>1, <1>2, <2>2, WrittenIs
  <2> QED BY <1>5, <2>1, <2>2
<1> QED BY <1>1, <1>4, <1>5, <1>6

LEMMA StartIs ==
  ASSUME CoachShapes, NEW c \in Clients, StartSession(c)
  PROVE  /\ GoodThread(thread') /\ thread'.state = "open" /\ thread'.reports = <<>> /\ thread'.step = 0
         /\ Range(thread'.reports) = {}
         /\ restarts' \in Nat /\ (restarts' = 0 => restarts = 0 /\ thread.state = "absent")
         /\ UNCHANGED <<told, auditRows, made, errors, resumes>>
         /\ call' \in [Clients -> {Idle} \cup CoachCalls] /\ \A d \in Clients \ {c} : call'[d] = call[d]
         /\ call'[c].op = "start" /\ call'[c].at = "node" /\ call'[c].view = thread' /\ call'[c].id = calls + 1
         /\ calls' = calls + 1 /\ calls' \in 0..MaxCalls /\ c \notin Busy /\ Busy' = Busy \cup {c}
         /\ overlaps' \in Nat /\ (overlaps' = 0 => overlaps = 0 /\ Busy = {})
<1>0. PICK b \in BOOLEAN :
        /\ Begin(c, "start", "node", [Absent EXCEPT !.state = "open", !.technician = b])
        /\ thread' = [Absent EXCEPT !.state = "open", !.technician = b]
  <2>1. StartSession(c)
    OBVIOUS
  <2> QED BY ONLY <2>1, Zenon DEF StartSession
<1>1. PICK fresh :
        /\ fresh = [Absent EXCEPT !.state = "open", !.technician = b]
        /\ Begin(c, "start", "node", fresh) /\ thread' = fresh
  BY <1>0
<1>2. /\ GoodThread(fresh) /\ fresh.state = "open" /\ fresh.reports = <<>> /\ fresh.step = 0
      /\ Range(fresh.reports) = {}
  BY <1>0, <1>1, FreshThread
<1>3. fresh \in Threads
  BY <1>2 DEF GoodThread
<1>4. /\ call' \in [Clients -> {Idle} \cup CoachCalls] /\ \A d \in Clients \ {c} : call'[d] = call[d]
      /\ call'[c].op = "start" /\ call'[c].at = "node" /\ call'[c].view = fresh /\ call'[c].id = calls + 1
      /\ calls' = calls + 1 /\ calls' \in 0..MaxCalls /\ c \notin Busy /\ Busy' = Busy \cup {c}
      /\ overlaps' \in Nat /\ (overlaps' = 0 => overlaps = 0 /\ Busy = {})
  BY <1>1, <1>3, BeginIs
<1>5. /\ restarts' \in Nat /\ (restarts' = 0 => restarts = 0 /\ thread.state = "absent")
      /\ UNCHANGED <<told, auditRows, made, errors, resumes>>
  BY DEF StartSession, CoachShapes
<1> QED BY <1>1, <1>2, <1>4, <1>5

LEMMA ResumeIs ==
  ASSUME CoachShapes, NEW c \in Clients, Resume(c)
  PROVE  \E op \in {"step", "resume_after_help"}, at \in {"input", "node", "finished"} :
           /\ thread.state # "absent" /\ UNCHANGED <<thread, told, auditRows, made, errors, restarts>>
           /\ op = "step" => resumes' = resumes
           /\ op = "resume_after_help" => resumes' = resumes + 1
           /\ at = "input" => thread.step < MaxSteps
           /\ at = "finished" => thread.step = MaxSteps
           /\ call' \in [Clients -> {Idle} \cup CoachCalls] /\ \A d \in Clients \ {c} : call'[d] = call[d]
           /\ call'[c].op = op /\ call'[c].at = at /\ call'[c].view = thread /\ call'[c].id = calls + 1
           /\ call'[c].saw = told
           /\ calls' = calls + 1 /\ calls' \in 0..MaxCalls /\ c \notin Busy /\ Busy' = Busy \cup {c}
           /\ overlaps' \in Nat /\ (overlaps' = 0 => overlaps = 0 /\ Busy = {})
<1>1. GoodThread(thread) /\ resumes \in Nat /\ thread \in Threads
  BY DEF CoachShapes, GoodThread
<1>2. /\ thread.state \in {"absent", "open", "ended"} /\ thread.step \in 0..MaxSteps /\ MaxSteps \in Nat
      /\ (LastStepDone(thread) <=> thread.step = MaxSteps) /\ (thread.state = "ended" => thread.step = MaxSteps)
  BY <1>1, ThreadFields DEF GoodThread
<1> DEFINE place == CASE thread.state = "ended" -> "finished"
                      [] thread.state = "open" /\ LastStepDone(thread) -> "node"
                      [] OTHER -> "input"
<1>3. PICK op \in {"step", "resume_after_help"} :
        Begin(c, op, place, thread) /\ resumes' = resumes + (IF op = "step" THEN 0 ELSE 1)
  BY DEF Resume
<1>4. thread.state # "absent" /\ UNCHANGED <<thread, told, auditRows, made, errors, restarts>>
  BY DEF Resume
<1>5. /\ place \in {"input", "node", "finished"} /\ (place = "input" => thread.step < MaxSteps)
      /\ (place = "finished" => thread.step = MaxSteps)
  BY <1>2, <1>4
<1> HIDE DEF place
<1>6. /\ call' \in [Clients -> {Idle} \cup CoachCalls] /\ \A d \in Clients \ {c} : call'[d] = call[d]
      /\ call'[c].op = op /\ call'[c].at = place /\ call'[c].view = thread /\ call'[c].id = calls + 1
      /\ call'[c].saw = told
      /\ calls' = calls + 1 /\ calls' \in 0..MaxCalls /\ c \notin Busy /\ Busy' = Busy \cup {c}
      /\ overlaps' \in Nat /\ (overlaps' = 0 => overlaps = 0 /\ Busy = {})
  BY <1>1, <1>3, <1>5, BeginIs
<1>7. op = "step" => resumes' = resumes
  BY <1>1, <1>3
<1>8. op = "resume_after_help" => resumes' = resumes + 1
  BY <1>1, <1>3
<1> QED BY <1>4, <1>5, <1>6, <1>7, <1>8

\* Every step keeps the checkpoint one history.
LEMMA CoachShapesInit == Init => CoachShapes
<1> SUFFICES ASSUME Init PROVE CoachShapes
  OBVIOUS
<1>1. thread = [state |-> "absent", technician |-> FALSE, step |-> 0, reports |-> <<>>]
  BY DEF Init, Absent
<1>2. <<>> \in Seq(Reports) /\ Len(<<>>) = 0 /\ DOMAIN <<>> = {} /\ 0 \in 0..MaxSteps /\ 0 \in 0..MaxCalls
  BY CoachAssumption
<1>3. thread \in Threads /\ thread.state = "absent" /\ ~thread.technician /\ thread.step = 0 /\ thread.reports = <<>>
  BY <1>1, <1>2 DEF Threads
<1>4. GoodThread(thread) /\ Range(thread.reports) = {}
  BY <1>2, <1>3 DEF GoodThread, Range
<1>5. call \in [Clients -> {Idle} \cup CoachCalls] /\ Busy = {}
  BY DEF Init, Idle, Busy
<1>6. \A c \in Clients : CallOK(c)
  BY <1>5 DEF CallOK
<1>7. told \in -1..MaxSteps /\ auditRows = {} /\ made = {} /\ IsFiniteSet({})
  BY CoachAssumption, FS_EmptySet DEF Init
<1> QED BY <1>2, <1>3, <1>4, <1>5, <1>6, <1>7 DEF Init, CoachShapes

LEMMA CoachShapesStep == CoachShapes /\ [Next]_vars => CoachShapes'
<1> SUFFICES ASSUME CoachShapes, [Next]_vars PROVE CoachShapes'
  OBVIOUS
<1>1. CASE UNCHANGED vars
  BY <1>1 DEF vars, CoachShapes, CallOK, Busy
<1>2. ASSUME NEW c \in Clients, StartSession(c) PROVE CoachShapes'
  <2>1. /\ GoodThread(thread') /\ thread'.state = "open" /\ thread'.reports = <<>> /\ thread'.step = 0
        /\ Range(thread'.reports) = {} /\ restarts' \in Nat
        /\ UNCHANGED <<told, auditRows, made, errors, resumes>>
        /\ call' \in [Clients -> {Idle} \cup CoachCalls] /\ \A d \in Clients \ {c} : call'[d] = call[d]
        /\ call'[c].op = "start" /\ call'[c].at = "node" /\ call'[c].view = thread' /\ call'[c].id = calls + 1
        /\ calls' = calls + 1 /\ calls' \in 0..MaxCalls /\ overlaps' \in Nat
    BY <1>2, StartIs
  <2>2. calls \in Nat /\ MaxCalls \in Nat /\ calls + 1 \in 1..calls'
    BY <2>1, CoachAssumption DEF CoachShapes
  <2>3. CallOK(c)'
    BY <2>1, <2>2 DEF CallOK
  <2>4. \A d \in Clients \ {c} : CallOK(d)'
    BY <2>1, <2>2, CallsStay
  <2> QED BY <2>1, <2>3, <2>4 DEF CoachShapes
<1>3. ASSUME NEW c \in Clients, Resume(c) PROVE CoachShapes'
  <2>1. PICK op \in {"step", "resume_after_help"}, at \in {"input", "node", "finished"} :
           /\ thread.state # "absent" /\ UNCHANGED <<thread, told, auditRows, made, errors, restarts>>
           /\ op = "step" => resumes' = resumes
           /\ op = "resume_after_help" => resumes' = resumes + 1
           /\ at = "input" => thread.step < MaxSteps
           /\ at = "finished" => thread.step = MaxSteps
           /\ call' \in [Clients -> {Idle} \cup CoachCalls] /\ \A d \in Clients \ {c} : call'[d] = call[d]
           /\ call'[c].op = op /\ call'[c].at = at /\ call'[c].view = thread /\ call'[c].id = calls + 1
           /\ calls' = calls + 1 /\ calls' \in 0..MaxCalls /\ overlaps' \in Nat
    BY <1>3, ResumeIs
  <2>2. calls \in Nat /\ MaxCalls \in Nat /\ calls + 1 \in 1..calls' /\ resumes' \in Nat
    BY <2>1, CoachAssumption DEF CoachShapes
  <2>3. CallOK(c)'
    BY <2>1, <2>2 DEF CallOK, CoachShapes
  <2>4. \A d \in Clients \ {c} : CallOK(d)'
    BY <2>1, <2>2, CallsStay
  <2> QED BY <2>1, <2>2, <2>3, <2>4 DEF CoachShapes
<1>4. ASSUME NEW c \in Clients, TakeInput(c) PROVE CoachShapes'
  <2> DEFINE t == call[c].view
  <2>1. PICK report \in Reports :
           /\ c \in Busy /\ call[c].at = "input" /\ call[c].op # "start" /\ GoodThread(t) /\ t.state # "absent"
           /\ GoodThread(thread') /\ thread'.state # "absent" /\ call'[c].view = thread' /\ call'[c].at = "node"
           /\ call'[c].op = call[c].op /\ call'[c].id = call[c].id /\ Busy' = Busy
           /\ call' \in [Clients -> {Idle} \cup CoachCalls] /\ \A d \in Clients \ {c} : call'[d] = call[d]
           /\ \/ thread' = t /\ made' = made
              \/ Range(thread'.reports) = Range(t.reports) \cup {report} /\ made' = made \cup {report}
    BY <1>4, TakenIs
  <2>2. Range(t.reports) \subseteq made /\ call[c].id \in 1..calls
    BY <2>1, CallFields DEF CallOK
  <2>3. UNCHANGED <<told, auditRows, calls, errors, overlaps, restarts, resumes>>
    BY <1>4 DEF TakeInput
  <2>4. /\ Range(thread'.reports) \subseteq made' /\ made \subseteq made' /\ made' \subseteq Reports
        /\ IsFiniteSet(made')
    BY <2>1, <2>2, FS_AddElement DEF CoachShapes
  <2>5. CallOK(c)'
    BY <2>1, <2>2, <2>3, <2>4 DEF CallOK
  <2>6. \A d \in Clients \ {c} : CallOK(d)'
    <3>1. calls \in Nat
      BY CoachAssumption DEF CoachShapes
    <3> QED BY <2>1, <2>3, <2>4, <3>1, CallsStay
  <2> QED BY <2>1, <2>3, <2>4, <2>5, <2>6 DEF CoachShapes
<1>5. ASSUME NEW c \in Clients, RunNode(c) PROVE CoachShapes'
  <2> DEFINE t == call[c].view
  <2>1. /\ c \in Busy /\ call[c].at = "node" /\ GoodThread(t) /\ t.state # "absent" /\ Range(t.reports) \subseteq made
        /\ call' \in [Clients -> {Idle} \cup CoachCalls] /\ \A d \in Clients \ {c} : call'[d] = call[d]
        /\ call'[c].op = call[c].op /\ call'[c].id = call[c].id /\ Busy' = Busy
        /\ \/ /\ t.step = MaxSteps /\ GoodThread(thread') /\ thread'.state = "ended" /\ thread'.step = t.step
              /\ thread'.reports = t.reports
              /\ call'[c].view = thread' /\ call'[c].at = "finished"
           \/ thread' = thread /\ call'[c].view = t /\ call'[c].at = "interrupted"
    BY <1>5, RanIs
  <2>2. UNCHANGED <<told, auditRows, made, calls, errors, overlaps, restarts, resumes>>
    BY <1>5 DEF RunNode
  <2>3. /\ call[c].id \in 1..calls /\ (call[c].op = "start" => t.step = 0) /\ calls \in Nat
        /\ GoodThread(thread) /\ Range(thread.reports) \subseteq made /\ thread.state # "absent"
    BY <2>1, CallFields, CoachAssumption DEF CallOK, CoachShapes
  <2>4. CallOK(c)'
    BY <2>1, <2>2, <2>3 DEF CallOK
  <2>5. \A d \in Clients \ {c} : CallOK(d)'
    BY <2>1, <2>2, <2>3, CallsStay
  <2>6. GoodThread(thread)' /\ Range(thread.reports)' \subseteq made' /\ thread'.state # "absent"
    BY <2>1, <2>2, <2>3
  <2> QED BY <2>1, <2>2, <2>4, <2>5, <2>6 DEF CoachShapes
<1>6. ASSUME NEW c \in Clients, CallEnds(c) PROVE CoachShapes'
  <2>1. /\ c \in Busy /\ End(c) /\ UNCHANGED <<thread, made, calls, overlaps, restarts, resumes>>
        /\ told' \in -1..MaxSteps /\ errors' \in Nat
        /\ auditRows' \subseteq [id : 1..MaxCalls, step : 0..MaxSteps, answer : 0..MaxCalls]
    BY <1>6, ReturnIs
  <2>2. /\ call' \in [Clients -> {Idle} \cup CoachCalls] /\ \A d \in Clients \ {c} : call'[d] = call[d]
        /\ Busy' = Busy \ {c}
    BY <2>1, EndIs
  <2>3. CallOK(c)'
    BY <2>2 DEF CallOK
  <2>4. \A d \in Clients \ {c} : CallOK(d)'
    <3>1. calls \in Nat
      BY CoachAssumption DEF CoachShapes
    <3> QED BY <2>1, <2>2, <3>1, CallsStay
  <2>5. thread'.state # "absent"
    BY <2>1 DEF CoachShapes
  <2> QED BY <2>1, <2>2, <2>3, <2>4, <2>5 DEF CoachShapes
<1> QED BY <1>1, <1>2, <1>3, <1>4, <1>5, <1>6 DEF Next, CallEnds

\* Whatever overlaps: a row carries a report's answer with its step; a report
\* without a row belongs to a call that still runs, or was paid for by a fault
\* or a supervisor's resume.
Misfiled == {r \in Range(thread.reports) : r.saw # r.step}
Rowless == {r \in made : \A row \in auditRows : row.answer # r.answer}
Excused == {r \in Rowless : \A c \in Busy : call[c].id # r.answer}
Helping == {c \in Busy : call[c].op = "resume_after_help"}

ReportsDistinct ==
  /\ \A r, q \in made : r.answer = q.answer => r = q
  /\ \A r \in made : r.answer <= calls

CallsDiffer == \A c, d \in Busy : call[c].id = call[d].id => c = d

\* A call whose answer was taken goes on with it as the last report.
CallTells(c) ==
  \A r \in made : r.answer = call[c].id =>
    /\ call[c].at # "input" /\ call[c].op # "start"
    /\ LastAnswer(call[c].view.reports) = r.answer

RowsMatch == \A row \in auditRows : row.answer = 0 \/ \E r \in made : r.answer = row.answer /\ r.step = row.step

Audited ==
  /\ ReportsDistinct /\ CallsDiffer /\ (\A c \in Busy : CallTells(c)) /\ RowsMatch
  /\ Cardinality(Excused) + Cardinality(Helping) <= errors + resumes

\* Calls that do not overlap: one at a time, on the checkpoint it read.  A
\* report is filed elsewhere than its sender was told only when a fault or a
\* supervisor's resume pays for it.
Off == IF ~Unassigned(thread) /\ thread.step < MaxSteps /\ told # thread.step THEN 1 ELSE 0
Silent(c) == IF call[c].op = "resume_after_help" THEN 1 ELSE 0

OneByOne ==
  /\ \A c, d \in Busy : c = d
  /\ \A c \in Busy : call[c].view = thread

Kept == restarts = 0 => \A r \in made : r.answer \in Answers(thread.reports)

Settled == Busy = {} => Cardinality(Misfiled) + Off <= errors + resumes

Running ==
  \A c \in Busy :
    /\ call[c].at = "input" =>
         call[c].saw = told /\ Cardinality(Misfiled) + Off + Silent(c) <= errors + resumes
    /\ call[c].at # "input" => Cardinality(Misfiled) + Silent(c) <= errors + resumes

Serial == overlaps = 0 => OneByOne /\ Kept /\ Settled /\ Running

CoachInv == CoachShapes /\ Audited /\ Serial

LEMMA Counts ==
  ASSUME CoachShapes
  PROVE  /\ IsFiniteSet(Misfiled) /\ Cardinality(Misfiled) \in Nat
         /\ IsFiniteSet(Excused) /\ Cardinality(Excused) \in Nat
         /\ IsFiniteSet(Helping) /\ Cardinality(Helping) \in Nat
         /\ IsFiniteSet(Rowless)
         /\ errors \in Nat /\ resumes \in Nat /\ calls \in Nat /\ Off \in {0, 1}
         /\ \A r \in made : r.answer \in Nat /\ r.answer # 0
<1>1. IsFiniteSet(made) /\ made \subseteq Reports /\ Range(thread.reports) \subseteq made
  BY DEF CoachShapes
<1>2. Misfiled \subseteq made /\ Rowless \subseteq made /\ Excused \subseteq made /\ Helping \subseteq Clients
  BY <1>1 DEF Misfiled, Rowless, Excused, Helping, Busy
<1>3. IsFiniteSet(Misfiled) /\ IsFiniteSet(Rowless) /\ IsFiniteSet(Excused) /\ IsFiniteSet(Helping)
  BY <1>1, <1>2, FS_Subset, CoachAssumption
<1>4. Cardinality(Misfiled) \in Nat /\ Cardinality(Excused) \in Nat /\ Cardinality(Helping) \in Nat
  BY <1>3, FS_CardinalityType
<1>5. \A r \in made : r.answer \in Nat /\ r.answer # 0
  BY <1>1, CoachAssumption DEF Reports
<1>6. errors \in Nat /\ resumes \in Nat /\ calls \in Nat /\ Off \in {0, 1}
  BY CoachAssumption DEF CoachShapes, Off
<1> QED BY <1>3, <1>4, <1>5, <1>6

\* A call that comes in has a fresh id, of which there is no report.
LEMMA AuditedBegin ==
  ASSUME CoachShapes, Audited, NEW c \in Clients, c \notin Busy, Busy' = Busy \cup {c},
         UNCHANGED <<auditRows, made, errors>>, calls' = calls + 1,
         call'[c].id = calls + 1, \A d \in Clients \ {c} : call'[d] = call[d],
         \/ call'[c].op # "resume_after_help" /\ resumes' = resumes
         \/ resumes' = resumes + 1
  PROVE  Audited'
<1>1. ReportsDistinct /\ CallsDiffer /\ (\A d \in Busy : CallTells(d)) /\ RowsMatch
  BY DEF Audited
<1>2. \A r \in made : r.answer \in Nat /\ r.answer <= calls /\ r.answer # calls + 1
  BY <1>1, Counts DEF ReportsDistinct
<1>3. \A d \in Busy : d # c /\ d \in Clients /\ call'[d] = call[d] /\ call[d].id \in 1..calls
  BY CallFields DEF Busy, CallOK
<1>4. calls \in Nat
  BY Counts
<1>5. ReportsDistinct' /\ RowsMatch'
  BY <1>1, <1>2, <1>4 DEF ReportsDistinct, RowsMatch
<1>6. CallsDiffer'
  <2>1. \A d \in Busy : call'[d].id = call[d].id /\ call'[d].id # call'[c].id
    BY <1>3, <1>4
  <2> QED BY <1>1, <2>1 DEF CallsDiffer
<1>7. \A d \in Busy' : CallTells(d)'
  <2>1. CallTells(c)'
    BY <1>2 DEF CallTells
  <2>2. ASSUME NEW d \in Busy PROVE CallTells(d)'
    BY <1>1, <1>3, <2>2 DEF CallTells
  <2> QED BY <2>1, <2>2
<1>8. Excused' = Excused
  <2>1. Rowless' = Rowless
    BY DEF Rowless
  <2>2. \A r \in Rowless : call'[c].id # r.answer
    BY <1>2 DEF Rowless
  <2>3. \A d \in Busy : call'[d].id = call[d].id
    BY <1>3
  <2> QED BY <2>1, <2>2, <2>3 DEF Excused
<1>9. Cardinality(Excused') + Cardinality(Helping') <= errors' + resumes'
  <2>1. /\ IsFiniteSet(Helping) /\ Cardinality(Helping) \in Nat /\ Cardinality(Excused) \in Nat
        /\ errors \in Nat /\ resumes \in Nat /\ Cardinality(Excused) + Cardinality(Helping) <= errors + resumes
    BY Counts DEF Audited
  <2>2. \A d \in Busy : call'[d].op = call[d].op
    BY <1>3
  <2>3. CASE call'[c].op # "resume_after_help" /\ resumes' = resumes
    <3>1. Helping' = Helping
      BY <2>2, <2>3 DEF Helping
    <3> QED BY <1>8, <2>1, <2>3, <3>1
  <2>4. CASE resumes' = resumes + 1
    <3>1. Helping' \subseteq Helping \cup {c} /\ c \notin Helping
      BY <2>2 DEF Helping
    <3>2. IsFiniteSet(Helping \cup {c}) /\ Cardinality(Helping \cup {c}) = Cardinality(Helping) + 1
      BY <2>1, <3>1, FS_AddElement
    <3>3. Cardinality(Helping') <= Cardinality(Helping) + 1 /\ Cardinality(Helping') \in Nat
      BY <3>1, <3>2, FS_Subset, FS_CardinalityType
    <3> QED BY <1>8, <2>1, <2>4, <3>3
  <2> QED BY <2>3, <2>4
<1> QED BY <1>5, <1>6, <1>7, <1>9 DEF Audited

\* A call that takes its answer has a report of its own.
LEMMA AuditedTake ==
  ASSUME CoachShapes, Audited, NEW c \in Clients, TakeInput(c)
  PROVE  Audited'
<1> DEFINE t == call[c].view
<1>1. PICK report \in Reports :
        /\ c \in Busy /\ call[c].at = "input" /\ call[c].op # "start" /\ report.answer = call[c].id
        /\ call'[c].view = thread' /\ call'[c].at = "node" /\ call'[c].op = call[c].op /\ call'[c].id = call[c].id
        /\ Busy' = Busy /\ \A d \in Clients \ {c} : call'[d] = call[d]
        /\ \/ made' = made
           \/ made' = made \cup {report} /\ LastAnswer(thread'.reports) = report.answer
  BY TakenIs
<1>2. UNCHANGED <<auditRows, calls, errors, resumes>>
  BY DEF TakeInput
<1>3. ReportsDistinct /\ CallsDiffer /\ (\A d \in Busy : CallTells(d)) /\ RowsMatch
  BY DEF Audited
<1>4. \A r \in made : r.answer # call[c].id
  BY <1>1, <1>3 DEF CallTells
<1>5. \A d \in Busy : d # c => d \in Clients /\ call'[d] = call[d] /\ call[d].id # call[c].id
  BY <1>1, <1>3 DEF Busy, CallsDiffer
<1>6. call[c].id \in 1..calls /\ calls \in Nat
  BY <1>1, CallFields, Counts DEF CallOK
<1>7. \A d \in Busy : call'[d].id = call[d].id /\ call'[d].op = call[d].op
  BY <1>1, <1>5
<1>8. ReportsDistinct'
  <2>1. report.answer <= calls
    BY <1>1, <1>6
  <2> QED BY <1>1, <1>2, <1>3, <1>4, <2>1 DEF ReportsDistinct
<1>9. CallsDiffer' /\ RowsMatch'
  BY <1>1, <1>2, <1>3, <1>7 DEF CallsDiffer, RowsMatch
<1>10. \A d \in Busy' : CallTells(d)'
  <2>1. CallTells(c)'
    BY <1>1, <1>4 DEF CallTells
  <2>2. ASSUME NEW d \in Busy, d # c PROVE CallTells(d)'
    BY <1>1, <1>3, <1>5, <2>2 DEF CallTells
  <2> QED BY <1>1, <2>1, <2>2
<1>11. Excused' = Excused /\ Helping' = Helping
  <2>1. \A r \in made' : r \in made \/ r = report
    BY <1>1
  <2>2. report \notin Excused'
    BY <1>1 DEF Excused
  <2>3. \A r \in made : r \in made' /\ (r \in Rowless' <=> r \in Rowless)
    BY <1>1, <1>2 DEF Rowless
  <2>4. report \notin made
    BY <1>1, <1>4
  <2>5. Excused' = Excused
    BY <1>1, <1>7, <2>1, <2>2, <2>3, <2>4 DEF Excused, Rowless
  <2> QED BY <1>1, <1>7, <2>5 DEF Helping
<1> QED BY <1>2, <1>8, <1>9, <1>10, <1>11 DEF Audited

LEMMA AuditedRun ==
  ASSUME CoachShapes, Audited, NEW c \in Clients, RunNode(c)
  PROVE  Audited'
<1>1. /\ c \in Busy /\ call[c].at = "node" /\ call'[c].op = call[c].op /\ call'[c].id = call[c].id /\ Busy' = Busy
      /\ call'[c].view.reports = call[c].view.reports /\ call'[c].at # "input"
      /\ \A d \in Clients \ {c} : call'[d] = call[d]
  BY RanIs
<1>2. UNCHANGED <<auditRows, made, calls, errors, resumes>>
  BY DEF RunNode
<1>3. \A d \in Busy : call'[d].id = call[d].id /\ call'[d].op = call[d].op
  BY <1>1 DEF Busy
<1>4. \A d \in Busy' : CallTells(d)'
  <2>1. CallTells(c)'
    BY <1>1, <1>2 DEF Audited, CallTells
  <2>2. ASSUME NEW d \in Busy, d # c PROVE CallTells(d)'
    BY <1>1, <1>2, <2>2 DEF Audited, CallTells, Busy
  <2> QED BY <1>1, <2>1, <2>2
<1>5. (ReportsDistinct /\ CallsDiffer /\ RowsMatch)'
  BY <1>1, <1>2, <1>3 DEF Audited, ReportsDistinct, CallsDiffer, RowsMatch
<1>6. Excused' = Excused /\ Helping' = Helping
  BY <1>1, <1>2, <1>3 DEF Excused, Rowless, Helping
<1> QED BY <1>2, <1>4, <1>5, <1>6 DEF Audited

\* A call that ends leaves a row with its report, or none and a fault or its
\* own resume to pay for it.
LEMMA AuditedEnd ==
  ASSUME CoachShapes, Audited, NEW c \in Clients, CallEnds(c)
  PROVE  Audited'
<1>1. /\ c \in Busy /\ UNCHANGED <<thread, made, calls, overlaps, restarts, resumes>> /\ End(c)
      /\ errors' \in Nat /\ errors' >= errors /\ auditRows \subseteq auditRows'
  BY ReturnIs
<1>2. Busy' = Busy \ {c} /\ \A d \in Clients \ {c} : call'[d] = call[d]
  BY <1>1, EndIs
<1>3. ReportsDistinct /\ CallsDiffer /\ (\A d \in Busy : CallTells(d)) /\ RowsMatch
  BY DEF Audited
<1>4. \A d \in Busy' : d \in Busy /\ call'[d] = call[d]
  BY <1>2 DEF Busy
<1>5. ReportsDistinct' /\ CallsDiffer' /\ \A d \in Busy' : CallTells(d)'
  BY <1>1, <1>3, <1>4 DEF ReportsDistinct, CallsDiffer, CallTells
<1>6. /\ IsFiniteSet(Excused) /\ Cardinality(Excused) \in Nat /\ IsFiniteSet(Helping) /\ Cardinality(Helping) \in Nat
      /\ errors \in Nat /\ resumes \in Nat /\ Cardinality(Excused) + Cardinality(Helping) <= errors + resumes
  BY Counts DEF Audited
<1>7. /\ Helping' \subseteq Helping /\ IsFiniteSet(Helping') /\ Cardinality(Helping') \in Nat
      /\ Cardinality(Helping') <= Cardinality(Helping)
  <2>1. Helping' \subseteq Helping
    BY <1>4 DEF Helping
  <2> QED BY <1>6, <2>1, FS_Subset, FS_CardinalityType
\* Only the report of the call that ends may be newly without an excuse.
<1>8. \A r \in Excused' : r \in Excused \/ r.answer = call[c].id
  BY <1>1, <1>2, <1>4 DEF Excused, Rowless
<1>9. Cardinality(Excused') \in Nat /\ Cardinality(Excused') <= Cardinality(Excused) + 1
  <2>1. CASE \A r \in Excused' : r \in Excused
    <3>1. Excused' \subseteq Excused
      BY <2>1
    <3> QED BY <1>6, <3>1, FS_Subset, FS_CardinalityType
  <2>2. ASSUME NEW r \in Excused', r \notin Excused
        PROVE  Cardinality(Excused') \in Nat /\ Cardinality(Excused') <= Cardinality(Excused) + 1
    <3>1. \A q \in Excused' : q \in Excused \/ q = r
      BY <1>1, <1>3, <1>8, <2>2 DEF Excused, Rowless, ReportsDistinct
    <3>2. Excused' \subseteq Excused \cup {r}
      BY <3>1
    <3>3. IsFiniteSet(Excused \cup {r}) /\ Cardinality(Excused \cup {r}) = Cardinality(Excused) + 1
      BY <1>6, <2>2, FS_AddElement
    <3> QED BY <3>2, <3>3, FS_Subset, FS_CardinalityType
  <2> QED BY <2>1, <2>2
<1>10. ASSUME \A r \in made : r.answer = call[c].id => \E row \in auditRows' : row.answer = r.answer
       PROVE  Cardinality(Excused') + Cardinality(Helping') <= errors' + resumes'
  <2>1. Excused' \subseteq Excused
    BY <1>1, <1>8, <1>10 DEF Excused, Rowless
  <2>2. Cardinality(Excused') <= Cardinality(Excused)
    BY <1>6, <2>1, FS_Subset
  <2> QED BY <1>1, <1>6, <1>7, <1>9, <2>2
<1>11. ASSUME errors' = errors + 1
       PROVE  Cardinality(Excused') + Cardinality(Helping') <= errors' + resumes'
  BY <1>1, <1>6, <1>7, <1>9, <1>11
<1>12. CASE StartReturns(c)
  <2>1. \A r \in made : r.answer # call[c].id
    BY <1>1, <1>3, <1>12 DEF StartReturns, CallTells
  <2>2. RowsMatch'
    BY <1>1, <1>3, <1>12 DEF StartReturns, RowsMatch
  <2> QED BY <1>5, <1>10, <2>1, <2>2 DEF Audited
<1>13. CASE StepReturns(c)
  <2> DEFINE t == call[c].view
             last == LastAnswer(t.reports)
             row == [id |-> call[c].id, step |-> Before(t.step), answer |-> last]
  <2>1. \/ auditRows' = auditRows \cup {row} /\ errors' = errors
        \/ auditRows' = auditRows /\ errors' = errors + 1
    BY <1>13 DEF StepReturns, WriteAudit
  <2>2. row.answer = last /\ row.step = Before(t.step)
    OBVIOUS
  <2>3. GoodThread(t) /\ Range(t.reports) \subseteq made
    BY <1>1, CallFields DEF CallOK
  <2>4. last = 0 \/ \E r \in made : r.answer = last /\ r.step = Before(t.step)
    BY <2>3, LastIs
  <2>5. \A r \in made : r.answer = call[c].id => last = r.answer
    BY <1>1, <1>3 DEF CallTells
  <2> HIDE DEF row, last, t
  <2>6. RowsMatch'
    BY <1>1, <1>3, <2>1, <2>2, <2>4 DEF RowsMatch
  <2>7. CASE auditRows' = auditRows \cup {row} /\ errors' = errors
    <3>1. \A r \in made : r.answer = call[c].id => \E rw \in auditRows' : rw.answer = r.answer
      BY <2>2, <2>5, <2>7
    <3> QED BY <1>5, <1>10, <2>6, <3>1 DEF Audited
  <2>8. CASE auditRows' = auditRows /\ errors' = errors + 1
    BY <1>5, <1>11, <2>6, <2>8 DEF Audited
  <2> QED BY <2>1, <2>7, <2>8
<1>14. CASE SupervisorRowRefused(c)
  <2>1. c \in Helping /\ Helping' \subseteq Helping \ {c} /\ auditRows' = auditRows /\ errors' = errors
    BY <1>1, <1>2, <1>7, <1>14 DEF SupervisorRowRefused, Helping
  <2>2. Cardinality(Helping \ {c}) = Cardinality(Helping) - 1 /\ IsFiniteSet(Helping \ {c})
    BY <1>6, <2>1, FS_RemoveElement
  <2>3. Cardinality(Helping') <= Cardinality(Helping) - 1
    BY <2>1, <2>2, FS_Subset
  <2>4. Cardinality(Excused') + Cardinality(Helping') <= errors' + resumes'
    BY <1>1, <1>6, <1>7, <1>9, <2>1, <2>3
  <2>5. RowsMatch'
    BY <1>1, <1>3, <2>1 DEF RowsMatch
  <2> QED BY <1>5, <2>4, <2>5 DEF Audited
<1>15. CASE Fail(c)
  <2>1. auditRows' = auditRows /\ errors' = errors + 1
    BY <1>15 DEF Fail
  <2>2. RowsMatch'
    BY <1>1, <1>3, <2>1 DEF RowsMatch
  <2> QED BY <1>5, <1>11, <2>1, <2>2 DEF Audited
<1> QED BY <1>12, <1>13, <1>14, <1>15 DEF CallEnds

LEMMA SerialStart ==
  ASSUME CoachShapes, Serial, NEW c \in Clients, StartSession(c)
  PROVE  Serial'
<1> SUFFICES ASSUME overlaps' = 0 PROVE (OneByOne /\ Kept /\ Settled /\ Running)'
  BY DEF Serial
<1>1. /\ thread'.reports = <<>> /\ Range(thread'.reports) = {}
      /\ (restarts' = 0 => restarts = 0 /\ thread.state = "absent")
      /\ UNCHANGED <<told, auditRows, made, errors, resumes>>
      /\ call'[c].op = "start" /\ call'[c].at = "node" /\ call'[c].view = thread'
      /\ Busy' = Busy \cup {c} /\ overlaps = 0 /\ Busy = {}
  BY StartIs
<1>2. Busy' = {c}
  BY <1>1
<1>3. Settled
  BY <1>1 DEF Serial
<1>4. OneByOne'
  BY <1>1, <1>2 DEF OneByOne
<1>5. Kept'
  BY <1>1 DEF CoachShapes, Kept
<1>6. Settled'
  BY <1>2 DEF Settled
<1>7. Running'
  <2>1. errors \in Nat /\ resumes \in Nat /\ Misfiled' = {} /\ Cardinality({}) = 0
    BY <1>1, Counts, FS_EmptySet DEF Misfiled
  <2>2. Silent(c)' = 0
    BY <1>1 DEF Silent
  <2>3. Cardinality(Misfiled') + Silent(c)' <= errors' + resumes'
    BY <1>1, <2>1, <2>2
  <2> QED BY <1>1, <1>2, <2>3 DEF Running
<1> QED BY <1>4, <1>5, <1>6, <1>7

LEMMA SerialResume ==
  ASSUME CoachShapes, Serial, NEW c \in Clients, Resume(c)
  PROVE  Serial'
<1> SUFFICES ASSUME overlaps' = 0 PROVE (OneByOne /\ Kept /\ Settled /\ Running)'
  BY DEF Serial
<1>1. PICK op \in {"step", "resume_after_help"}, at \in {"input", "node", "finished"} :
        /\ UNCHANGED <<thread, told, auditRows, made, errors, restarts>>
        /\ op = "step" => resumes' = resumes
        /\ op = "resume_after_help" => resumes' = resumes + 1
        /\ call'[c].op = op /\ call'[c].at = at /\ call'[c].view = thread /\ call'[c].saw = told
        /\ Busy' = Busy \cup {c} /\ overlaps = 0 /\ Busy = {}
  BY ResumeIs
<1>2. Busy' = {c}
  BY <1>1
<1>3. Kept /\ Settled
  BY <1>1 DEF Serial
<1>4. OneByOne'
  BY <1>1, <1>2 DEF OneByOne
<1>5. Kept'
  BY <1>1, <1>3 DEF Kept
<1>6. Settled'
  BY <1>2 DEF Settled
<1>7. Running'
  <2>1. /\ Cardinality(Misfiled) + Off <= errors + resumes /\ Cardinality(Misfiled) \in Nat
        /\ errors \in Nat /\ resumes \in Nat /\ Off \in {0, 1}
    BY <1>1, <1>3, Counts DEF Settled
  <2>2. Misfiled' = Misfiled /\ Off' = Off
    BY <1>1 DEF Misfiled, Off
  <2>3. /\ op = "step" => Silent(c)' = 0 /\ resumes' = resumes
        /\ op = "resume_after_help" => Silent(c)' = 1 /\ resumes' = resumes + 1
    BY <1>1 DEF Silent
  <2>4. /\ Cardinality(Misfiled') + Off' + Silent(c)' <= errors' + resumes'
        /\ Cardinality(Misfiled') + Silent(c)' <= errors' + resumes'
    <3>1. CASE op = "step"
      BY <1>1, <2>1, <2>2, <2>3, <3>1
    <3>2. CASE op = "resume_after_help"
      BY <1>1, <2>1, <2>2, <2>3, <3>2
    <3> QED BY <3>1, <3>2
  <2> QED BY <1>1, <1>2, <2>4 DEF Running
<1> QED BY <1>4, <1>5, <1>6, <1>7

\* The answer is filed on the checkpoint the call read: astray only if the
\* step named last was another one, and paid for then.
LEMMA SerialTake ==
  ASSUME CoachShapes, Audited, Serial, NEW c \in Clients, TakeInput(c)
  PROVE  Serial'
<1> SUFFICES ASSUME overlaps' = 0 PROVE (OneByOne /\ Kept /\ Settled /\ Running)'
  BY DEF Serial
<1> DEFINE t == call[c].view
<1>1. PICK report \in Reports :
        /\ c \in Busy /\ call[c].at = "input" /\ GoodThread(t)
        /\ report.step = t.step /\ report.answer = call[c].id /\ report.saw = call[c].saw
        /\ call'[c].view = thread' /\ call'[c].at = "node" /\ call'[c].op = call[c].op /\ Busy' = Busy
        /\ \/ /\ Unassigned(t) /\ thread' = t /\ made' = made
           \/ /\ ~Unassigned(t) /\ thread'.reports = Append(t.reports, report)
              /\ Range(thread'.reports) = Range(t.reports) \cup {report} /\ made' = made \cup {report}
  BY TakenIs
<1>2. UNCHANGED <<told, auditRows, calls, errors, overlaps, restarts, resumes>>
  BY DEF TakeInput
<1>3. OneByOne /\ Kept /\ Running
  BY <1>2 DEF Serial
<1>4. t = thread /\ Busy' = {c} /\ call[c].saw = told /\ Range(t.reports) \subseteq made /\ t.step < MaxSteps
  BY <1>1, <1>3, CallFields DEF OneByOne, Running, CallOK, Busy
<1>5. Cardinality(Misfiled) + Off + Silent(c) <= errors + resumes
  BY <1>1, <1>3 DEF Running
<1>6. /\ errors \in Nat /\ resumes \in Nat /\ Off \in {0, 1} /\ Silent(c) \in {0, 1}
      /\ IsFiniteSet(Misfiled) /\ Cardinality(Misfiled) \in Nat
  BY Counts DEF Silent
<1>7. OneByOne'
  BY <1>1, <1>4 DEF OneByOne
<1>8. Silent(c)' = Silent(c)
  BY <1>1 DEF Silent
<1>9. CASE Unassigned(t) /\ thread' = t /\ made' = made
  <2>1. Misfiled' = Misfiled
    BY <1>4, <1>9 DEF Misfiled
  <2>2. Kept' /\ Settled'
    BY <1>2, <1>3, <1>4, <1>9 DEF Kept, Settled
  <2>3. Cardinality(Misfiled') + Silent(c)' <= errors' + resumes'
    BY <1>2, <1>5, <1>6, <1>8, <2>1
  <2> QED BY <1>1, <1>4, <1>7, <2>2, <2>3 DEF Running
<1>10. CASE /\ ~Unassigned(t) /\ thread'.reports = Append(t.reports, report)
            /\ Range(thread'.reports) = Range(t.reports) \cup {report} /\ made' = made \cup {report}
  <2>1. report \notin made
    BY <1>1 DEF Audited, CallTells
  <2>2. Kept'
    <3>1. Answers(thread'.reports) = Answers(t.reports) \cup {report.answer}
      <4>1. \A s : Answers(s) = {r.answer : r \in Range(s)}
        BY DEF Answers, Range
      <4> QED BY <1>10, <4>1
    <3> QED BY <1>2, <1>3, <1>4, <1>10, <3>1 DEF Kept
  <2>3. Settled'
    BY <1>4 DEF Settled
  <2>4. Cardinality(Misfiled') <= Cardinality(Misfiled) + Off /\ Cardinality(Misfiled') \in Nat
    <3>1. Off = IF told # t.step THEN 1 ELSE 0
      BY <1>4, <1>10 DEF Off
    <3>2. CASE told = t.step
      <4>1. Misfiled' = Misfiled
        BY <1>1, <1>4, <1>10, <3>2 DEF Misfiled
      <4> QED BY <1>6, <3>1, <3>2, <4>1
    <3>3. CASE told # t.step
      <4>1. Misfiled' = Misfiled \cup {report}
        BY <1>1, <1>4, <1>10, <3>3 DEF Misfiled
      <4>2. report \notin Misfiled
        BY <1>4, <2>1 DEF Misfiled
      <4>3. Cardinality(Misfiled') = Cardinality(Misfiled) + 1
        BY <1>6, <4>1, <4>2, FS_AddElement
      <4> QED BY <1>6, <3>1, <3>3, <4>3
    <3> QED BY <3>2, <3>3
  <2>5. Cardinality(Misfiled') + Silent(c)' <= errors' + resumes'
    BY <1>2, <1>5, <1>6, <1>8, <2>4
  <2> QED BY <1>1, <1>4, <1>7, <2>2, <2>3, <2>5 DEF Running
<1> QED BY <1>1, <1>9, <1>10

LEMMA SerialRun ==
  ASSUME CoachShapes, Serial, NEW c \in Clients, RunNode(c)
  PROVE  Serial'
<1> SUFFICES ASSUME overlaps' = 0 PROVE (OneByOne /\ Kept /\ Settled /\ Running)'
  BY DEF Serial
<1> DEFINE t == call[c].view
<1>1. /\ c \in Busy /\ call[c].at = "node" /\ call'[c].op = call[c].op /\ Busy' = Busy
      /\ \/ thread'.reports = t.reports /\ call'[c].view = thread' /\ call'[c].at = "finished"
         \/ thread' = thread /\ call'[c].view = t /\ call'[c].at = "interrupted"
  BY RanIs
<1>2. UNCHANGED <<told, auditRows, made, calls, errors, overlaps, restarts, resumes>>
  BY DEF RunNode
<1>3. OneByOne /\ Kept /\ Running
  BY <1>2 DEF Serial
<1>4. t = thread /\ Busy' = {c}
  BY <1>1, <1>3 DEF OneByOne
<1>5. thread'.reports = thread.reports /\ call'[c].view = thread' /\ call'[c].at # "input"
  BY <1>1, <1>4
<1>6. OneByOne'
  BY <1>4, <1>5 DEF OneByOne
<1>7. Kept' /\ Settled'
  BY <1>2, <1>3, <1>4, <1>5 DEF Kept, Settled
<1>8. Misfiled' = Misfiled /\ Silent(c)' = Silent(c)
  BY <1>1, <1>5 DEF Misfiled, Silent
<1>9. Running'
  BY <1>1, <1>2, <1>3, <1>4, <1>5, <1>8 DEF Running
<1> QED BY <1>6, <1>7, <1>9

\* What a call that ends leaves: the current step named, or a fault or a resume
\* that pays for the one that was not.
LEMMA EndPays ==
  ASSUME CoachShapes, Serial, overlaps = 0, NEW c \in Clients, CallEnds(c)
  PROVE  Cardinality(Misfiled) + Off' <= errors' + resumes
<1>1. /\ c \in Busy /\ UNCHANGED <<thread, made, calls, overlaps, restarts, resumes>>
      /\ errors' \in Nat /\ errors' >= errors
  BY ReturnIs
<1>2. OneByOne /\ Running
  BY DEF Serial
<1> DEFINE t == call[c].view
<1>3. t = thread /\ GoodThread(thread) /\ (call[c].op = "start" => thread.step = 0)
  BY <1>1, <1>2, CallFields DEF OneByOne, CallOK, CoachShapes
<1>4. thread.step \in 0..MaxSteps /\ MaxSteps \in Nat \ {0}
  BY <1>3, ThreadFields
<1>5. /\ errors \in Nat /\ resumes \in Nat /\ Off \in {0, 1} /\ Silent(c) \in {0, 1}
      /\ Cardinality(Misfiled) \in Nat
  BY Counts DEF Silent
<1>6. Off' \in {0, 1} /\ (told' = thread.step => Off' = 0) /\ (told' = told => Off' = Off)
  BY <1>1 DEF Off, Unassigned
<1>7. /\ call[c].at # "input" => Cardinality(Misfiled) + Silent(c) <= errors + resumes
      /\ call[c].at = "input" => Cardinality(Misfiled) + Off + Silent(c) <= errors + resumes
  BY <1>1, <1>2 DEF Running
<1>8. CASE StartReturns(c)
  <2>1. call[c].at # "input" /\ told' = thread.step
    BY <1>3, <1>8 DEF StartReturns
  <2> QED BY <1>1, <1>5, <1>6, <1>7, <2>1
<1>9. CASE StepReturns(c)
  <2>1. call[c].at # "input" /\ told' = thread.step
    BY <1>3, <1>9 DEF StepReturns
  <2> QED BY <1>1, <1>5, <1>6, <1>7, <2>1
<1>10. CASE SupervisorRowRefused(c)
  <2>1. call[c].at # "input" /\ Silent(c) = 1
    BY <1>10 DEF SupervisorRowRefused, Silent
  <2> QED BY <1>1, <1>5, <1>6, <1>7, <2>1
<1>11. CASE Fail(c)
  <2>1. told' = told /\ errors' = errors + 1
    BY <1>11 DEF Fail
  <2> QED BY <1>5, <1>6, <1>7, <2>1
<1> QED BY <1>8, <1>9, <1>10, <1>11 DEF CallEnds

LEMMA SerialEnd ==
  ASSUME CoachShapes, Serial, NEW c \in Clients, CallEnds(c)
  PROVE  Serial'
<1> SUFFICES ASSUME overlaps' = 0 PROVE (OneByOne /\ Kept /\ Settled /\ Running)'
  BY DEF Serial
<1>1. c \in Busy /\ End(c) /\ UNCHANGED <<thread, made, calls, overlaps, restarts, resumes>>
  BY ReturnIs
<1>2. OneByOne /\ Kept
  BY <1>1 DEF Serial
<1>3. Busy' = {}
  BY <1>1, <1>2, EndIs DEF OneByOne
<1>4. Cardinality(Misfiled) + Off' <= errors' + resumes'
  BY <1>1, EndPays
<1>5. Misfiled' = Misfiled
  BY <1>1 DEF Misfiled
<1> QED BY <1>1, <1>2, <1>3, <1>4, <1>5 DEF OneByOne, Kept, Settled, Running

LEMMA CoachInvInit == Init => CoachInv
<1> SUFFICES ASSUME Init PROVE CoachInv
  OBVIOUS
<1>1. CoachShapes
  BY CoachShapesInit
<1>2. Busy = {} /\ made = {} /\ auditRows = {} /\ Range(thread.reports) = {}
  <2>1. thread.reports = <<>>
    BY DEF Init, Absent
  <2> QED BY <2>1 DEF Init, Busy, Idle, Range
<1>3. Misfiled = {} /\ Excused = {} /\ Helping = {} /\ Cardinality({}) = 0
  BY <1>2, FS_EmptySet DEF Misfiled, Rowless, Excused, Helping
<1>4. Off = 0 /\ errors + resumes = 0
  <2>1. thread.technician = FALSE /\ thread.step = 0
    BY DEF Init, Absent
  <2> QED BY <2>1 DEF Init, Off, Unassigned
<1>5. Audited
  BY <1>2, <1>3, <1>4 DEF Audited, ReportsDistinct, CallsDiffer, RowsMatch
<1> QED BY <1>1, <1>2, <1>3, <1>4, <1>5 DEF CoachInv, Serial, OneByOne, Kept, Settled, Running

LEMMA CoachInvStep == CoachInv /\ [Next]_vars => CoachInv'
<1> SUFFICES ASSUME CoachInv, [Next]_vars PROVE CoachInv'
  OBVIOUS
<1>1. CoachShapes /\ CoachShapes' /\ Audited /\ Serial
  BY CoachShapesStep DEF CoachInv
<1>2. CASE UNCHANGED vars
  <2>1. Audited' /\ Serial'
    BY <1>1, <1>2 DEF vars, Audited, Serial, OneByOne, ReportsDistinct, CallsDiffer, CallTells, RowsMatch, Kept,
          Settled, Running, Busy, Misfiled, Rowless, Excused, Helping, Off, Silent
  <2> QED BY <1>1, <2>1 DEF CoachInv
<1>3. ASSUME NEW c \in Clients, StartSession(c) PROVE Audited' /\ Serial'
  <2>1. /\ UNCHANGED <<auditRows, made, errors, resumes>> /\ call'[c].op = "start" /\ call'[c].id = calls + 1
        /\ calls' = calls + 1 /\ c \notin Busy /\ Busy' = Busy \cup {c}
        /\ \A d \in Clients \ {c} : call'[d] = call[d]
    BY <1>1, <1>3, StartIs
  <2>2. Audited'
    BY <1>1, <2>1, AuditedBegin
  <2> QED BY <1>1, <1>3, <2>2, SerialStart
<1>4. ASSUME NEW c \in Clients, Resume(c) PROVE Audited' /\ Serial'
  <2>1. PICK op \in {"step", "resume_after_help"} :
        /\ UNCHANGED <<auditRows, made, errors>> /\ call'[c].op = op /\ call'[c].id = calls + 1
        /\ op = "step" => resumes' = resumes
        /\ op = "resume_after_help" => resumes' = resumes + 1
        /\ calls' = calls + 1 /\ c \notin Busy /\ Busy' = Busy \cup {c}
        /\ \A d \in Clients \ {c} : call'[d] = call[d]
    BY <1>1, <1>4, ResumeIs
  <2>2. Audited'
    BY <1>1, <2>1, AuditedBegin
  <2> QED BY <1>1, <1>4, <2>2, SerialResume
<1>5. CASE \E c \in Clients : TakeInput(c) \/ RunNode(c) \/ CallEnds(c)
  BY <1>1, <1>5, AuditedTake, AuditedRun, AuditedEnd, SerialTake, SerialRun, SerialEnd DEF CoachInv
<1> QED BY <1>1, <1>2, <1>3, <1>4, <1>5 DEF Next, CallEnds, CoachInv

LEMMA CoachInvTells == CoachInv => ReportsTrue
<1> SUFFICES ASSUME CoachInv PROVE ReportsTrue
  OBVIOUS
<1>1. CoachShapes /\ Audited /\ Serial
  BY DEF CoachInv
<1>2. \A t \in Threads : IsThread(t)
  BY DEF Threads, IsThread
<1>3. TypeOK
  <2>1. \A c \in Busy :
          /\ call[c].op \in {"start", "step", "resume_after_help"}
          /\ call[c].at \in {"input", "node", "interrupted", "finished"}
          /\ IsThread(call[c].view) /\ call[c].id \in 1..calls /\ call[c].saw \in -1..MaxSteps
    BY <1>1, <1>2, CallFields DEF Busy, CallOK
  <2>2. IsThread(thread)
    BY <1>1, <1>2 DEF CoachShapes, GoodThread
  <2>3. {calls, errors, overlaps, restarts, resumes} \subseteq Nat
    BY <1>1, CoachAssumption DEF CoachShapes
  <2> QED BY <1>1, <2>1, <2>2, <2>3 DEF TypeOK, CoachShapes
<1>4. OneHistory
  BY <1>1 DEF OneHistory, CoachShapes, GoodThread
<1>5. ASSUME overlaps = 0
      PROVE  Cardinality(Misfiled) <= errors + resumes /\ Kept
  <2>1. /\ errors \in Nat /\ resumes \in Nat /\ Off \in {0, 1} /\ Cardinality(Misfiled) \in Nat
        /\ \A c \in Busy : Silent(c) \in {0, 1}
    BY <1>1, Counts DEF Silent
  <2>2. Kept /\ Settled /\ Running
    BY <1>1, <1>5 DEF Serial
  <2>3. CASE Busy = {}
    BY <2>1, <2>2, <2>3 DEF Settled
  <2>4. ASSUME NEW c \in Busy PROVE Cardinality(Misfiled) <= errors + resumes
    BY <2>1, <2>2, <2>4 DEF Running
  <2> QED BY <2>2, <2>3, <2>4
<1>6. ReportsKept
  BY <1>5 DEF ReportsKept, Kept
<1>7. RowsTrue
  <2> SUFFICES ASSUME NEW row \in auditRows, NEW r \in made, row.answer = r.answer
               PROVE  row.step = r.step
    BY DEF RowsTrue
  <2>1. r.answer # 0
    BY <1>1, Counts
  <2> QED BY <1>1, <2>1 DEF Audited, RowsMatch, ReportsDistinct
<1>8. FiledWhereSeen
  BY <1>5 DEF FiledWhereSeen, Misfiled
<1>9. ReportsAudited
  <2> SUFFICES ASSUME Busy = {}
               PROVE  Cardinality({r \in made : \A row \in auditRows : row.answer # r.answer}) <= errors + resumes
    BY DEF ReportsAudited
  <2>1. {r \in made : \A row \in auditRows : row.answer # r.answer} = Excused
    BY DEF Excused, Rowless
  <2>2. Cardinality(Excused) \in Nat /\ Cardinality(Helping) \in Nat /\ errors \in Nat /\ resumes \in Nat
    BY <1>1, Counts
  <2>3. Cardinality(Excused) + Cardinality(Helping) <= errors + resumes
    BY <1>1 DEF Audited
  <2>4. Cardinality(Excused) <= errors + resumes
    BY ONLY <2>2, <2>3
  <2> QED BY ONLY <2>1, <2>4
<1> QED BY <1>3, <1>4, <1>6, <1>7, <1>8, <1>9 DEF ReportsTrue

\* The reports of an intervention tell what the technicians did: whatever
\* overlaps or fails, the checkpoint is one history, a row names its report's
\* step, and each report left without a row is paid for by a fault or a
\* supervisor's resume; as long as calls do not overlap every report is kept,
\* and each one filed elsewhere than told is paid for in the same way.
THEOREM ReportsStayTrue == Spec => []ReportsTrue
<1> QED BY CoachInvInit, CoachInvStep, CoachInvTells, PTL DEF Spec

-----------------------------------------------------------------------------
(* Anomalies and quality events.                                           *)

Sev == {"minor", "major", "critical"}

\* The ranks of the severities and of the tiers.
LEMMA SeverityRanks ==
  /\ Grades!Range(Grades!Severities) = Sev
  /\ Grades!RankIn(Grades!Severities, "minor") = 1
  /\ Grades!RankIn(Grades!Severities, "major") = 2
  /\ Grades!RankIn(Grades!Severities, "critical") = 3
BY DEF Grades!Range, Grades!Severities, Grades!RankIn, Sev

LEMMA TierRanks ==
  /\ Grades!Range(Grades!Tiers) = {"auto-log", "supervisor", "manager+safety"}
  /\ Grades!RankIn(Grades!Tiers, "auto-log") = 1
  /\ Grades!RankIn(Grades!Tiers, "supervisor") = 2
  /\ Grades!RankIn(Grades!Tiers, "manager+safety") = 3
BY DEF Grades!Range, Grades!Tiers, Grades!RankIn

\* Baselines: whole thresholds for some of the severities.
Banded(b) ==
  /\ b.low \in Int /\ b.high \in Int
  /\ DOMAIN b.thresholds \subseteq Sev /\ \A s \in DOMAIN b.thresholds : b.thresholds[s] \in Int

\* With thresholds that grow, the label is the worst of those reached.
LEMMA WorstReached ==
  ASSUME NEW b, Banded(b), Grades!Growing(b), NEW v \in Int
  PROVE  LET got == Grades!SeverityFor(b, v)
             met == {s \in DOMAIN b.thresholds : Grades!Deviation(b, v) >= b.thresholds[s]}
         IN /\ met = {} => got = "minor"
            /\ met # {} => got \in met /\ \A s \in met : Grades!RankIn(Grades!Severities, s) <= Grades!RankIn(Grades!Severities, got)
<1> DEFINE met == {s \in DOMAIN b.thresholds : Grades!Deviation(b, v) >= b.thresholds[s]}
           rank(s) == Grades!RankIn(Grades!Severities, s)
           top == {s \in met : \A t \in met : b.thresholds[t] <= b.thresholds[s]}
           got == Grades!SeverityFor(b, v)
<1>1. met \subseteq Sev /\ \A s \in met : b.thresholds[s] \in Int
  BY DEF Banded
<1>2. \A s \in Sev : rank(s) \in 1..3
  BY SeverityRanks DEF Sev
<1>3. met = {} => got = "minor"
  BY DEF Grades!SeverityFor
<1>4. \A s, t \in met : rank(s) < rank(t) => b.thresholds[s] < b.thresholds[t]
  BY DEF Grades!Growing
<1>5. \A s, t \in Sev : rank(s) = rank(t) => s = t
  BY SeverityRanks DEF Sev
<1>6. ASSUME met # {}
      PROVE  \E s \in met : \A t \in met : rank(t) <= rank(s)
  <2> HIDE DEF met
  <2>1. CASE "critical" \in met
    BY <2>1, <1>1, <1>2, SeverityRanks DEF Sev
  <2>2. CASE "critical" \notin met /\ "major" \in met
    BY <2>2, <1>1, <1>2, SeverityRanks DEF Sev
  <2>3. CASE "critical" \notin met /\ "major" \notin met
    <3>1. met = {"minor"}
      BY <2>3, <1>1, <1>6 DEF Sev
    <3> QED BY <3>1, SeverityRanks
  <2> QED BY <2>1, <2>2, <2>3
<1>7. ASSUME met # {}
      PROVE  got \in met /\ \A t \in met : rank(t) <= rank(got)
  <2>1. PICK s \in met : \A t \in met : rank(t) <= rank(s)
    BY <1>6, <1>7
  <2>2. \A t \in met : t # s => rank(t) < rank(s)
    <3> HIDE DEF met, rank
    <3> QED BY <1>1, <1>2, <1>5, <2>1
  <2>3. \A t \in met : t # s => b.thresholds[t] < b.thresholds[s]
    BY <1>4, <2>2
  <2>4. s \in top /\ \A t \in top : t = s
    <3> HIDE DEF met, rank
    <3> QED BY <1>1, <2>1, <2>3
  <2>5. got = CHOOSE x \in top : \A t \in top : rank(t) <= rank(x)
    BY <1>7 DEF Grades!SeverityFor
  <2>6. rank(s) <= rank(s)
    BY <1>1, <1>2, <2>1
  <2>7. got = s
    <3> HIDE DEF top, rank, got
    <3> QED BY <2>4, <2>5, <2>6
  <2> QED BY <2>1, <2>7
<1> QED BY <1>3, <1>7

\* A reading further out of the band of its baseline is never rated lower, for
\* any thresholds that grow with the severity (FurtherIsWorse).
THEOREM FurtherOutIsWorse ==
  ASSUME NEW b, Banded(b), NEW values \in SUBSET Int
  PROVE  Grades!FurtherIsWorse(b, values)
<1> SUFFICES ASSUME Grades!Growing(b) PROVE Grades!FurtherIsWorse(b, values)
  BY DEF Grades!FurtherIsWorse
<1> DEFINE rank(s) == Grades!RankIn(Grades!Severities, s)
           met(v) == {s \in DOMAIN b.thresholds : Grades!Deviation(b, v) >= b.thresholds[s]}
           sev(v) == Grades!SeverityFor(b, v)
<1>1. \A v \in values : /\ met(v) = {} => sev(v) = "minor"
                        /\ met(v) # {} => sev(v) \in met(v) /\ \A s \in met(v) : rank(s) <= rank(sev(v))
  BY WorstReached
<1>2. \A v \in values : sev(v) \in Sev
  <2>1. DOMAIN b.thresholds \subseteq Sev /\ "minor" \in Sev
    BY DEF Banded, Sev
  <2> QED BY <1>1, <2>1
<1>3. \A s \in Sev : rank(s) \in 1..3 /\ rank("minor") = 1
  BY SeverityRanks DEF Sev
<1>4. \A v \in values : Grades!Deviation(b, v) \in Int
  <2>1. \A v \in values : v \in Int
    OBVIOUS
  <2>2. b.low \in Int /\ b.high \in Int
    BY DEF Banded
  <2> QED BY <2>1, <2>2 DEF Grades!Deviation
<1>5. \A s \in DOMAIN b.thresholds : b.thresholds[s] \in Int
  BY DEF Banded
<1>6. ASSUME NEW v \in values, NEW s \in DOMAIN b.thresholds, Grades!Deviation(b, v) >= b.thresholds[s]
      PROVE  rank(sev(v)) >= rank(s)
  <2>1. s \in met(v)
    BY <1>6
  <2>2. rank(s) <= rank(sev(v))
    BY <1>1, <2>1
  <2>3. s \in Sev
    BY DEF Banded
  <2> HIDE DEF rank, sev, met
  <2> QED BY <1>2, <1>3, <2>2, <2>3
<1>7. ASSUME NEW v \in values, NEW w \in values, Grades!Deviation(b, v) <= Grades!Deviation(b, w)
      PROVE  rank(sev(v)) <= rank(sev(w))
  <2>1. met(v) \subseteq met(w)
    <3> SUFFICES ASSUME NEW s \in DOMAIN b.thresholds, Grades!Deviation(b, v) >= b.thresholds[s]
                 PROVE  Grades!Deviation(b, w) >= b.thresholds[s]
      OBVIOUS
    <3>1. PICK x \in Int, y \in Int, z \in Int :
            x = Grades!Deviation(b, v) /\ y = Grades!Deviation(b, w) /\ z = b.thresholds[s]
      BY <1>4, <1>5
    <3> QED BY <1>7, <3>1
  <2> HIDE DEF met
  <2>2. CASE met(v) = {}
    <3>1. rank(sev(v)) = 1 /\ rank(sev(w)) \in 1..3
      BY <1>1, <1>2, <1>3, <2>2
    <3> HIDE DEF rank, sev
    <3> QED BY <3>1
  <2>3. CASE met(v) # {}
    BY <1>1, <2>1, <2>3
  <2> QED BY <2>2, <2>3
<1> QED BY <1>6, <1>7 DEF Grades!FurtherIsWorse

\* Neither a worse verdict of the model nor a failure mode in the catalogue
\* lowers the tier that must decide (TierNeverLowered).
THEOREM TierIsNeverLowered ==
  ASSUME NEW defect, NEW modes, \A d \in DOMAIN modes : modes[d] \in Grades!Range(Grades!Tiers), NEW answer
  PROVE  Grades!TierNeverLowered(defect, modes, answer)
<1> DEFINE rank(s) == Grades!RankIn(Grades!Tiers, Grades!ResolveTier(defect, s, modes))
           v == Grades!Verdict(answer)
<1>1. v.severity \in Sev /\ (answer.score \notin 0..4 => v.severity = "major")
  BY SeverityRanks DEF Grades!Verdict, Grades!Fallback, Sev
<1>2. \A s \in Sev : /\ Grades!DefaultTier(s) \in Grades!Range(Grades!Tiers)
                     /\ Grades!RankIn(Grades!Tiers, Grades!DefaultTier(s)) = Grades!RankIn(Grades!Severities, s)
  <2>1. /\ Grades!DefaultTier("minor") = "auto-log" /\ Grades!DefaultTier("major") = "supervisor"
        /\ Grades!DefaultTier("critical") = "manager+safety"
    BY SeverityRanks DEF Grades!DefaultTier, Grades!Tiers
  <2> QED BY <2>1, SeverityRanks, TierRanks DEF Sev
<1>3. \A t \in Grades!Range(Grades!Tiers) : Grades!RankIn(Grades!Tiers, t) \in 1..3
  BY TierRanks
<1>4. CASE defect \in DOMAIN modes
  <2> DEFINE m == Grades!RankIn(Grades!Tiers, modes[defect])
             q(s) == Grades!RankIn(Grades!Severities, s)
  <2>1. \A s \in Sev : q(s) \in 1..3 /\ m \in 1..3 /\ rank(s) = IF m >= q(s) THEN m ELSE q(s)
    BY <1>2, <1>3, <1>4 DEF Grades!ResolveTier, Grades!MaxTier
  <2>2. q("major") = 2
    BY SeverityRanks
  <2> HIDE DEF m, q, rank, v
  <2>3. /\ \A s \in Sev : q(s) <= q(v.severity) => rank(s) <= rank(v.severity)
        /\ m <= rank(v.severity) /\ rank(v.severity) >= q(v.severity)
        /\ answer.score \notin 0..4 => rank(v.severity) > 1
    BY <1>1, <2>1, <2>2
  <2> QED BY <2>3, SeverityRanks DEF Grades!TierNeverLowered, m, q, rank, v
<1>5. CASE defect \notin DOMAIN modes
  <2> DEFINE q(s) == Grades!RankIn(Grades!Severities, s)
  <2>1. \A s \in Sev : q(s) \in 1..3 /\ rank(s) = q(s)
    BY <1>2, <1>3, <1>5 DEF Grades!ResolveTier
  <2>2. q("major") = 2
    BY SeverityRanks
  <2> HIDE DEF q, rank, v
  <2>3. /\ \A s \in Sev : q(s) <= q(v.severity) => rank(s) <= rank(v.severity)
        /\ rank(v.severity) >= q(v.severity)
        /\ answer.score \notin 0..4 => rank(v.severity) > 1
    BY <1>1, <2>1, <2>2
  <2> QED BY <1>5, <2>3, SeverityRanks DEF Grades!TierNeverLowered, q, rank, v
<1> QED BY <1>4, <1>5

-----------------------------------------------------------------------------
(* The interlock.                                                          *)

LEMMA StrictPrefixMeans ==
  ASSUME NEW T, NEW s \in Seq(T), NEW t \in Seq(T)
  PROVE  Grades!IsStrictPrefix(s, t) <=> Len(s) < Len(t) /\ SubSeq(t, 1, Len(s)) = s
<1>1. SubSeq(s, 1, Len(s)) = s /\ SubSeq(t, 1, Len(t)) = t
  OBVIOUS
<1>2. Grades!IsStrictPrefix(s, t) <=> Len(s) <= Len(t) /\ s = SubSeq(t, 1, Len(s)) /\ s # t
  BY <1>1 DEF Grades!IsStrictPrefix, Grades!IsPrefix
<1>3. CASE Len(s) = Len(t)
  BY <1>1, <1>2, <1>3
<1>4. CASE Len(s) # Len(t)
  BY <1>2, <1>4
<1> QED BY <1>3, <1>4

LEMMA FrontMeans ==
  ASSUME NEW T, NEW s \in Seq(T), s # <<>>
  PROVE  /\ Grades!Front(s) \in Seq(T) /\ Len(Grades!Front(s)) = Len(s) - 1 /\ Len(s) \in Nat \ {0}
         /\ Grades!Front(s) = SubSeq(s, 1, Len(s) - 1)
<1>1. Len(s) \in Nat \ {0} /\ s \in [1..Len(s) -> T]
  BY EmptySeq, LenProperties
<1>2. /\ SubSeq(s, 1, Len(s) - 1) \in Seq(T)
      /\ Len(SubSeq(s, 1, Len(s) - 1)) = IF 1 <= Len(s) - 1 THEN (Len(s) - 1) - 1 + 1 ELSE 0
  <2>1. 1 \in Int /\ Len(s) - 1 \in Int /\ \A i \in 1..(Len(s) - 1) : s[i] \in T
    BY <1>1
  <2> QED BY <2>1, SubSeqProperties
<1> QED BY <1>1, <1>2 DEF Grades!Front

\* The interlock forbids every subject that a rule it understands means to the
\* broker, and no other except below a rule that ends in "*", for any rules and
\* any subject (InterlockAsBroker).
THEOREM InterlockIsAsBroker ==
  ASSUME NEW T, NEW rules \in SUBSET (Seq(T) \ {<<>>}), NEW types, NEW action, action.subject \in Seq(T)
  PROVE  Grades!InterlockAsBroker(rules, types, action)
<1> DEFINE sub == action.subject
<1> SUFFICES ASSUME action.type \notin types, sub # <<>>
             PROVE  /\ (\E rule \in rules : Grades!NatsMatches(rule, sub) /\ Grades!Understood(rule))
                         => Grades!Forbidden(rules, types, action)
                    /\ Grades!Forbidden(rules, types, action) =>
                         \/ \E rule \in rules : Grades!NatsMatches(rule, sub)
                         \/ \E rule \in rules : /\ Grades!IsWild(rule) /\ Grades!Last(rule) = "*"
                                                /\ Grades!IsStrictPrefix(Grades!Front(rule), sub)
  BY DEF Grades!InterlockAsBroker
<1>1. Grades!Forbidden(rules, types, action) <=> \E rule \in rules : Grades!Matches(rule, sub)
  BY DEF Grades!Forbidden
<1>2. ASSUME NEW rule \in rules
      PROVE  /\ Grades!NatsMatches(rule, sub) /\ Grades!Understood(rule) => Grades!Matches(rule, sub)
             /\ Grades!Matches(rule, sub) =>
                  \/ Grades!NatsMatches(rule, sub)
                  \/ /\ Grades!IsWild(rule) /\ Grades!Last(rule) = "*"
                     /\ Grades!IsStrictPrefix(Grades!Front(rule), sub)
  <2> HIDE DEF sub
  <2>0. sub \in Seq(T) /\ rule \in Seq(T) /\ rule # <<>> /\ sub # <<>>
    BY DEF sub
  <2>1. PICK n, m : /\ n = Len(rule) /\ n \in Nat \ {0} /\ DOMAIN rule = 1..n
                    /\ m = Len(sub) /\ m \in Nat /\ DOMAIN sub = 1..m
    BY <2>0, EmptySeq, LenProperties
  <2>2. PICK front : /\ front = Grades!Front(rule) /\ front \in Seq(T) /\ Len(front) = n - 1
                     /\ front = SubSeq(rule, 1, n - 1)
    BY <2>0, <2>1, FrontMeans
  <2>3. \A k \in 1..(n - 1) : front[k] = rule[k]
    BY <2>0, <2>1, <2>2
  <2>4. Grades!IsStrictPrefix(front, sub) <=> n - 1 < m /\ \A k \in 1..(n - 1) : sub[k] = rule[k]
    <3>1. Grades!IsStrictPrefix(front, sub) <=> n - 1 < m /\ SubSeq(sub, 1, n - 1) = front
      <4>1. Grades!IsStrictPrefix(front, sub) <=> Len(front) < Len(sub) /\ SubSeq(sub, 1, Len(front)) = front
        BY <2>0, <2>2, StrictPrefixMeans
      <4> QED BY <2>1, <2>2, <4>1
    <3>2. ASSUME n - 1 < m
          PROVE  SubSeq(sub, 1, n - 1) = front <=> \A k \in 1..(n - 1) : sub[k] = rule[k]
      <4>1. /\ SubSeq(sub, 1, n - 1) \in Seq(T) /\ Len(SubSeq(sub, 1, n - 1)) = n - 1
            /\ \A k \in 1..(n - 1) : SubSeq(sub, 1, n - 1)[k] = sub[k]
        BY <2>0, <2>1, <3>2
      <4>2. PICK cut : cut = SubSeq(sub, 1, n - 1)
        OBVIOUS
      <4>3. cut = front <=> \A k \in 1..(n - 1) : cut[k] = front[k]
        BY <2>1, <2>2, <4>1, <4>2, SeqEqual
      <4> QED BY <2>3, <4>1, <4>2, <4>3
    <3> QED BY <3>1, <3>2
  <2>5. Grades!Last(rule) = rule[n]
    BY <2>1 DEF Grades!Last
  <2>6. Grades!NatsMatches(rule, sub) <=>
          IF rule[n] = ">" THEN m >= n /\ \A k \in 1..(n - 1) : rule[k] \in {"*", sub[k]}
          ELSE m = n /\ \A k \in 1..n : rule[k] \in {"*", sub[k]}
    BY <2>1, <2>5 DEF Grades!NatsMatches
  <2>7. Grades!IsWild(rule) <=> n > 1 /\ rule[n] \in {">", "*"}
    BY <2>1, <2>5 DEF Grades!IsWild, Grades!Wildcards
  <2>8. Grades!Matches(rule, sub) <=> IF Grades!IsWild(rule) THEN Grades!IsStrictPrefix(front, sub) ELSE rule = sub
    BY <2>2 DEF Grades!Matches
  <2>9. ASSUME Grades!NatsMatches(rule, sub), Grades!Understood(rule)
        PROVE  Grades!Matches(rule, sub)
    <3>1. /\ \A k \in 1..(n - 1) : rule[k] # "*"
          /\ rule[n] \in {">", "*"} => Grades!IsWild(rule)
      BY <2>1, <2>9 DEF Grades!Understood, Grades!Wildcards
    <3>2. CASE Grades!IsWild(rule)
      <4>1. n - 1 < m /\ \A k \in 1..(n - 1) : rule[k] = sub[k]
        BY <2>1, <2>6, <2>9, <3>1
      <4> QED BY <2>4, <2>8, <3>2, <4>1
    <3>3. CASE ~Grades!IsWild(rule)
      <4>1. m = n /\ rule[n] # "*" /\ \A k \in 1..n : rule[k] \in {"*", sub[k]}
        BY <2>6, <2>9, <3>1, <3>3
      <4>2. \A k \in 1..n : rule[k] = sub[k]
        <5> SUFFICES ASSUME NEW k \in 1..n PROVE rule[k] = sub[k]
          OBVIOUS
        <5>1. k = n \/ k \in 1..(n - 1)
          BY <2>1
        <5> QED BY <3>1, <4>1, <5>1
      <4>3. rule = sub
        BY <2>0, <2>1, <4>1, <4>2, SeqEqual
      <4> QED BY <2>8, <3>3, <4>3
    <3> QED BY <3>2, <3>3
  <2>10. ASSUME Grades!Matches(rule, sub), ~Grades!NatsMatches(rule, sub)
         PROVE  /\ Grades!IsWild(rule) /\ Grades!Last(rule) = "*"
                /\ Grades!IsStrictPrefix(Grades!Front(rule), sub)
    <3>1. Grades!IsWild(rule)
      <4>1. SUFFICES ASSUME rule = sub PROVE FALSE
        BY <2>8, <2>10
      <4> QED BY <2>1, <2>6, <2>10, <4>1
    <3>2. Grades!IsStrictPrefix(front, sub)
      BY <2>8, <2>10, <3>1
    <3>3. rule[n] # ">"
      BY <2>1, <2>4, <2>6, <2>10, <3>2
    <3> QED BY <2>2, <2>5, <2>7, <3>1, <3>2, <3>3
  <2> QED BY <2>9, <2>10
<1> QED BY <1>1, <1>2

-----------------------------------------------------------------------------
(* The choice of the cluster and of the agent.                             *)

LEMMA RuntimeSizes ==
  ASSUME NEW X
  PROVE  Runtime!Cardinality(X) = Cardinality(X)
BY DEF Runtime!Cardinality, Cardinality

LEMMA ClustersFinite ==
  IsFiniteSet(Runtime!Clusters)
<1>1. Runtime!Clusters = {} \cup {"ops"} \cup {"maintenance"} \cup {"knowledge-curation"}
                            \cup {"knowledge-training"} \cup {"supply"}
  BY DEF Runtime!Clusters
<1>2. \A X, x : IsFiniteSet(X) => IsFiniteSet(X \cup {x})
  BY FS_AddElement
<1> QED BY <1>1, <1>2, FS_EmptySet

LEMMA RouteMeans ==
  ASSUME NEW rules, NEW text, NEW model
  PROVE  LET one == Runtime!Route(rules, text, model)
             matched == Runtime!Matched(rules, text)
         IN /\ one.cluster \in Runtime!Clusters /\ matched \subseteq Runtime!Clusters
            /\ one.strategy = "rules" => one.cluster \in matched /\ Cardinality(matched) = 1
<1> DEFINE one == Runtime!Route(rules, text, model)
           matched == Runtime!Matched(rules, text)
<1>1. matched \subseteq Runtime!Clusters /\ IsFiniteSet(matched)
  <2>1. matched \subseteq Runtime!Clusters
    BY DEF Runtime!Matched
  <2> QED BY <2>1, ClustersFinite, FS_Subset
<1>2. CASE Cardinality(matched) = 1
  <2>1. matched # {}
    BY <1>2, FS_EmptySet
  <2>2. one = [cluster |-> CHOOSE c \in matched : TRUE, strategy |-> "rules"]
    BY <1>2, RuntimeSizes DEF Runtime!Route, Runtime!Decision
  <2> QED BY <1>1, <1>2, <2>1, <2>2
<1>3. CASE Cardinality(matched) # 1
  <2>1. one = Runtime!Stage2(model)
    BY <1>3, RuntimeSizes DEF Runtime!Route
  <2>2. one.cluster \in Runtime!Clusters /\ one.strategy # "rules"
    <3>1. "ops" \in Runtime!Clusters
      BY DEF Runtime!Clusters
    <3> QED BY <2>1, <3>1 DEF Runtime!Stage2, Runtime!Decision, Runtime!FallbackDecision
  <2> QED BY <1>1, <2>2
<1> QED BY <1>2, <1>3

LEMMA MoreWordsMatchMore ==
  ASSUME NEW rules, NEW text, NEW more
  PROVE  /\ Runtime!Matched(rules, text) \subseteq Runtime!Matched(rules, text \cup more)
         /\ Runtime!Matched(rules, more) \subseteq Runtime!Matched(rules, text \cup more)
<1>1. ASSUME NEW few, NEW many, few \subseteq many, NEW c
      PROVE  Runtime!MatchedBy(rules, few, c) # {} => Runtime!MatchedBy(rules, many, c) # {}
  BY <1>1 DEF Runtime!MatchedBy
<1>2. ASSUME NEW few, NEW many, few \subseteq many
      PROVE  Runtime!Matched(rules, few) \subseteq Runtime!Matched(rules, many)
  BY <1>1, <1>2 DEF Runtime!Matched
<1> QED BY <1>2

OpsAgents == {"operator-assistant", "anomaly-detector", "quality-inspector", "production-planner"}
MaintenanceAgents == {"rca-specialist", "maintenance-coach", "downtime-analyzer", "predictive-maintenance"}
KnowledgeTeam == {"knowledge-curator", "shift-handover", "training-coach", "documentation-synthesizer"}
SupplyTeam == {"cost-analyzer", "inventory-manager", "energy-optimizer", "demand-forecaster"}

LEMMA TeamsAre ==
  /\ Runtime!ChildrenOf.ops = OpsAgents /\ Runtime!ChildrenOf.maintenance = MaintenanceAgents
  /\ Runtime!ChildrenOf.knowledge = KnowledgeTeam /\ Runtime!ChildrenOf.supply = SupplyTeam
  /\ UNION Runtime!Range(Runtime!ChildrenOf) = OpsAgents \cup MaintenanceAgents \cup KnowledgeTeam \cup SupplyTeam
<1>1. /\ Runtime!ChildrenOf.ops = OpsAgents /\ Runtime!ChildrenOf.maintenance = MaintenanceAgents
      /\ Runtime!ChildrenOf.knowledge = KnowledgeTeam /\ Runtime!ChildrenOf.supply = SupplyTeam
      /\ DOMAIN Runtime!ChildrenOf = {"ops", "maintenance", "knowledge", "supply"}
  BY DEF Runtime!ChildrenOf, OpsAgents, MaintenanceAgents, KnowledgeTeam, SupplyTeam
<1>2. Runtime!Range(Runtime!ChildrenOf) = {OpsAgents, MaintenanceAgents, KnowledgeTeam, SupplyTeam}
  BY <1>1 DEF Runtime!Range
<1> QED BY <1>1, <1>2

\* An agent runs in the cluster it belongs to and nowhere else, if it is there.
LEMMA RunsWhereItBelongs ==
  ASSUME NEW absent, NEW agent
  PROVE  Runtime!RunsIn(absent, agent) =
           {c \in {"ops", "maintenance", "knowledge", "supply"} :
              \/ c = "ops" /\ agent \in OpsAgents /\ (agent \notin absent \/ agent = "operator-assistant")
              \/ c = "maintenance" /\ agent \in MaintenanceAgents /\ (agent \notin absent \/ agent = "rca-specialist")
              \/ c = "knowledge" /\ agent \in KnowledgeTeam /\ (agent \notin absent \/ agent = "knowledge-curator")
              \/ c = "supply" /\ agent \in SupplyTeam /\ (agent \notin absent \/ agent = "cost-analyzer")}
<1>1. /\ agent = Runtime!OpsChild(absent, agent)
           <=> agent \in OpsAgents /\ (agent \notin absent \/ agent = "operator-assistant")
      /\ agent = Runtime!MaintenanceChild(absent, agent)
           <=> agent \in MaintenanceAgents /\ (agent \notin absent \/ agent = "rca-specialist")
      /\ agent = Runtime!KnowledgeChild(absent, agent)
           <=> agent \in KnowledgeTeam /\ (agent \notin absent \/ agent = "knowledge-curator")
      /\ agent = Runtime!SupplyChild(absent, agent)
           <=> agent \in SupplyTeam /\ (agent \notin absent \/ agent = "cost-analyzer")
  BY TeamsAre DEF Runtime!OpsChild, Runtime!MaintenanceChild, Runtime!KnowledgeChild, Runtime!SupplyChild,
     Runtime!ChildOf, Runtime!OpsDefault, Runtime!MaintenanceDefault, Runtime!KnowledgeDefault, Runtime!SupplyDefault,
     OpsAgents, MaintenanceAgents, KnowledgeTeam, SupplyTeam
<1>2. ASSUME NEW c \in {"ops", "maintenance", "knowledge", "supply"}
      PROVE  (agent = CASE c = "ops" -> Runtime!OpsChild(absent, agent)
                        [] c = "maintenance" -> Runtime!MaintenanceChild(absent, agent)
                        [] c = "knowledge" -> Runtime!KnowledgeChild(absent, agent)
                        [] c = "supply" -> Runtime!SupplyChild(absent, agent))
             <=> \/ c = "ops" /\ agent = Runtime!OpsChild(absent, agent)
                 \/ c = "maintenance" /\ agent = Runtime!MaintenanceChild(absent, agent)
                 \/ c = "knowledge" /\ agent = Runtime!KnowledgeChild(absent, agent)
                 \/ c = "supply" /\ agent = Runtime!SupplyChild(absent, agent)
  OBVIOUS
<1> QED BY <1>1, <1>2 DEF Runtime!RunsIn

LEMMA NoAgentLost ==
  ASSUME NEW agent \in UNION Runtime!Range(Runtime!ChildrenOf)
  PROVE  /\ Cardinality(Runtime!RunsIn({}, agent)) = 1
         /\ Runtime!RunsIn({"training-coach", "rca-specialist"}, agent) =
              IF agent = "training-coach" THEN {} ELSE Runtime!RunsIn({}, agent)
<1> DEFINE absent == {"training-coach", "rca-specialist"}
<1>1. agent \in OpsAgents \cup MaintenanceAgents \cup KnowledgeTeam \cup SupplyTeam
  BY TeamsAre
<1>2. \E c : Runtime!RunsIn({}, agent) = {c}
  <2>1. CASE agent \in OpsAgents
    <3>1. Runtime!RunsIn({}, agent) = {"ops"}
      BY <2>1, RunsWhereItBelongs DEF OpsAgents, MaintenanceAgents, KnowledgeTeam, SupplyTeam
    <3> QED BY <3>1
  <2>2. CASE agent \in MaintenanceAgents
    <3>1. Runtime!RunsIn({}, agent) = {"maintenance"}
      BY <2>2, RunsWhereItBelongs DEF OpsAgents, MaintenanceAgents, KnowledgeTeam, SupplyTeam
    <3> QED BY <3>1
  <2>3. CASE agent \in KnowledgeTeam
    <3>1. Runtime!RunsIn({}, agent) = {"knowledge"}
      BY <2>3, RunsWhereItBelongs DEF OpsAgents, MaintenanceAgents, KnowledgeTeam, SupplyTeam
    <3> QED BY <3>1
  <2>4. CASE agent \in SupplyTeam
    <3>1. Runtime!RunsIn({}, agent) = {"supply"}
      BY <2>4, RunsWhereItBelongs DEF OpsAgents, MaintenanceAgents, KnowledgeTeam, SupplyTeam
    <3> QED BY <3>1
  <2> QED BY <1>1, <2>1, <2>2, <2>3, <2>4
<1>3. Cardinality(Runtime!RunsIn({}, agent)) = 1
  BY <1>2, FS_Singleton
<1>4. CASE agent = "training-coach"
  <2>1. Runtime!RunsIn(absent, agent) = {}
    BY <1>4, RunsWhereItBelongs DEF OpsAgents, MaintenanceAgents, KnowledgeTeam, SupplyTeam
  <2> QED BY <1>3, <1>4, <2>1
<1>5. CASE agent # "training-coach"
  <2>1. agent \notin absent \/ agent = "rca-specialist"
    BY <1>5
  <2>2. agent \notin {}
    OBVIOUS
  <2>3. Runtime!RunsIn(absent, agent) = Runtime!RunsIn({}, agent)
    <3> HIDE DEF absent
    <3>1. "rca-specialist" \notin OpsAgents \cup KnowledgeTeam \cup SupplyTeam
      BY DEF OpsAgents, KnowledgeTeam, SupplyTeam
    <3> QED BY <2>1, <2>2, <3>1, RunsWhereItBelongs
  <2> QED BY <1>3, <1>5, <2>3
<1> QED BY <1>4, <1>5

\* Words that point to a second cluster never leave a request with the first
\* one by the rules, and agents left out of a graph lose only their own requests,
\* for any rules, any text and any classifier (AmbiguityDeferred).
THEOREM AmbiguityIsDeferred ==
  ASSUME NEW rules, NEW text, NEW more, NEW model
  PROVE  Runtime!AmbiguityDeferred(rules, text, more, model)
<1> DEFINE one == Runtime!Route(rules, text, model)
           two == Runtime!Route(rules, text \cup more, model)
<1>1. /\ one.cluster \in Runtime!Clusters /\ two.cluster \in Runtime!Clusters
      /\ one.strategy = "rules" => one.cluster \in Runtime!Matched(rules, text)
      /\ two.strategy = "rules" => Cardinality(Runtime!Matched(rules, text \cup more)) = 1
  BY RouteMeans
<1>2. ASSUME one.strategy = "rules", Runtime!Matched(rules, more) \ {one.cluster} # {}, two.strategy = "rules"
      PROVE  FALSE
  <2>1. PICK c \in Runtime!Matched(rules, more) : c # one.cluster
    BY <1>2
  <2> DEFINE all == Runtime!Matched(rules, text \cup more)
  <2>2. c \in all /\ one.cluster \in all /\ Cardinality(all) = 1
    BY <1>1, <1>2, <2>1, MoreWordsMatchMore
  <2>3. IsFiniteSet(all)
    <3>1. all \subseteq Runtime!Clusters
      BY RouteMeans
    <3> QED BY <3>1, ClustersFinite, FS_Subset
  <2>4. PICK x : all = {x}
    BY <2>2, <2>3, FS_Singleton
  <2> QED BY <2>1, <2>2, <2>4
<1> QED BY <1>1, <1>2, NoAgentLost, RuntimeSizes DEF Runtime!AmbiguityDeferred

-----------------------------------------------------------------------------
(* An answer and its sources, an estimate and its band.                    *)

LEMMA RuntimeEnds ==
  ASSUME NEW x \in Int, NEW y \in Int
  PROVE  /\ Runtime!Min({x, y}) = IF x <= y THEN x ELSE y
         /\ Runtime!Max({x, y}) = IF x >= y THEN x ELSE y
BY DEF Runtime!Min, Runtime!Max

\* However the run of a graph ended, and however long it was, an answer that
\* rests on a search shows its sources or says they are missing (SourcesShown).
THEOREM SourcesAreShown ==
  ASSUME NEW query, NEW T, NEW messages \in Seq(T), NEW second
  PROVE  Runtime!SourcesShown(query, messages, second)
<1> DEFINE result == Runtime!SafeInvoke([messages |-> <<query>>, proposed |-> << >>], messages)
           answers == <<Runtime!Last(result.messages), second>>
           searched == Runtime!UsedSearch(result.messages)
           good == {i \in 1..2 : Runtime!Cited(answers[i])}
           reply == Runtime!Reply(query, messages, second)
           searches == {i \in DOMAIN result.messages : result.messages[i].from = "rag_search"}
           last == IF ~searched THEN 1 ELSE Runtime!Min(good \cup {2})
<1>1. reply.said = answers[last] /\ reply.missing = (searched /\ good = {}) /\ reply.tools = Cardinality(searches)
  BY RuntimeSizes DEF Runtime!Reply, Runtime!Validated, Runtime!MaxReplans
<1>2. searches # {} => searched
  BY DEF Runtime!UsedSearch, Runtime!Range
<1>3. Cardinality(searches) > 0 => searched
  <2>1. searches = {} => Cardinality(searches) = 0
    BY FS_EmptySet
  <2> HIDE DEF searches, searched
  <2> QED BY <1>2, <2>1
<1>4. ASSUME searched
      PROVE  good # {} => last \in good
  <2> HIDE DEF answers, searched
  <2>1. CASE 1 \in good
    <3>1. good \cup {2} = {1, 2}
      BY <2>1
    <3> QED BY <1>4, <2>1, <3>1, RuntimeEnds
  <2>2. CASE 1 \notin good
    <3>1. good \cup {2} = {2, 2}
      BY <2>2
    <3>2. good # {} => 2 \in good
      BY <2>2
    <3> QED BY <1>4, <3>1, <3>2, RuntimeEnds
  <2> QED BY <2>1, <2>2
<1>5. ASSUME searched
      PROVE  (Runtime!Cited(reply.said) \/ reply.missing) /\ ~(Runtime!Cited(reply.said) /\ reply.missing)
  <2>1. CASE good # {}
    <3>1. Runtime!Cited(answers[last])
      BY <1>4, <1>5, <2>1
    <3> QED BY <1>1, <2>1, <3>1
  <2>2. CASE good = {}
    <3>1. last \in {1, 2}
      <4>1. good \cup {2} = {2, 2}
        BY <2>2
      <4> QED BY <1>5, <4>1, RuntimeEnds
    <3>2. ~Runtime!Cited(answers[last])
      BY <2>2, <3>1
    <3> QED BY <1>1, <1>5, <2>2, <3>2
  <2> QED BY <2>1, <2>2
<1> QED BY <1>1, <1>3, <1>5 DEF Runtime!SourcesShown

\* The band of an estimate of remaining life holds the estimate, and less life
\* never lowers the tier, for every output of the regressor (EstimateInBand).
THEOREM EstimateIsInBand ==
  ASSUME NEW raws \in SUBSET Int
  PROVE  Runtime!EstimateInBand(raws)
<1> DEFINE point(r) == IF r < 0 THEN 0 ELSE IF r > 125 THEN 125 ELSE r
<1>1. ASSUME NEW r \in Int
      PROVE  /\ Runtime!Estimate(r).rul = point(r) /\ Runtime!Estimate(r).lower = (9 * point(r) + 5) \div 10
             /\ Runtime!Estimate(r).upper = IF 125 <= (11 * point(r) + 5) \div 10 THEN 125 ELSE (11 * point(r) + 5) \div 10
             /\ Runtime!Estimate(r).decision = IF 10 * point(r) < 375 THEN "HITL_SUPERVISOR" ELSE "AUTO"
  <2>1. Runtime!Clamp(0, 125, r) = point(r)
    <3>1. Runtime!Min({125, r}) = IF 125 <= r THEN 125 ELSE r
      BY RuntimeEnds
    <3>2. PICK c \in Int : c = Runtime!Min({125, r})
      BY <3>1
    <3>3. Runtime!Max({0, c}) = IF 0 >= c THEN 0 ELSE c
      BY RuntimeEnds
    <3> QED BY <3>1, <3>2, <3>3 DEF Runtime!Clamp
  <2>2. PICK p \in 0..125 : p = point(r)
    OBVIOUS
  <2>3. Runtime!Min({125, (11 * p + 5) \div 10}) = IF 125 <= (11 * p + 5) \div 10 THEN 125 ELSE (11 * p + 5) \div 10
    <3>1. (11 * p + 5) \div 10 \in Int
      OBVIOUS
    <3> QED BY <3>1, RuntimeEnds
  <2>4. Runtime!PredictWithCi(r) = [point |-> p, lower |-> (9 * p + 5) \div 10, upper |-> Runtime!Min({125, (11 * p + 5) \div 10})]
    BY <2>1, <2>2 DEF Runtime!PredictWithCi, Runtime!RulMaxCycles
  <2>5. Runtime!NeedsSupervisor(p) <=> 10 * p < 375
    BY DEF Runtime!NeedsSupervisor, Runtime!RulMaxCycles
  <2> HIDE DEF point
  <2> QED BY <2>2, <2>3, <2>4, <2>5 DEF Runtime!Estimate
<1>2. ASSUME NEW r \in raws
      PROVE  /\ 0 <= Runtime!Estimate(r).lower /\ Runtime!Estimate(r).lower <= Runtime!Estimate(r).rul
             /\ Runtime!Estimate(r).rul <= Runtime!Estimate(r).upper /\ Runtime!Estimate(r).upper <= 125
  <2>1. r \in Int
    OBVIOUS
  <2>2. PICK p \in 0..125 : p = point(r)
    BY <2>1
  <2>3. PICK low \in Int, top \in Int : low = (9 * p + 5) \div 10 /\ top = (11 * p + 5) \div 10
    OBVIOUS
  <2>4. 10 * low <= 9 * p + 5 /\ 9 * p + 5 < 10 * low + 10 /\ 10 * top <= 11 * p + 5 /\ 11 * p + 5 < 10 * top + 10
    BY <2>3
  <2>5. 0 <= low /\ low <= p /\ p <= top
    BY <2>4
  <2>6. Runtime!Estimate(r).rul = p /\ Runtime!Estimate(r).lower = low
        /\ Runtime!Estimate(r).upper = IF 125 <= top THEN 125 ELSE top
    <3> HIDE DEF point
    <3> QED BY <1>1, <2>1, <2>2, <2>3
  <2> QED BY <2>5, <2>6
<1>3. ASSUME NEW r \in raws, NEW worse \in raws, worse <= r, Runtime!Estimate(r).decision = "HITL_SUPERVISOR"
      PROVE  Runtime!Estimate(worse).decision = "HITL_SUPERVISOR"
  <2>1. r \in Int /\ worse \in Int
    OBVIOUS
  <2>2. 10 * point(r) < 375
    BY <1>1, <1>3, <2>1
  <2>3. 10 * point(worse) < 375
    BY <1>3, <2>1, <2>2
  <2> QED BY <1>1, <2>1, <2>3
<1> QED BY <1>2, <1>3 DEF Runtime!EstimateInBand, Runtime!RulMaxCycles

-----------------------------------------------------------------------------
(* The drafted procedure.                                                  *)

LEMMA KnowledgeSizes ==
  ASSUME NEW X
  PROVE  Knowledge!Cardinality(X) = Cardinality(X)
BY DEF Knowledge!Cardinality, Cardinality

LEMMA KnowledgeEnds ==
  ASSUME NEW x \in Int, NEW y \in Int
  PROVE  /\ Knowledge!Min({x, y}) = IF x <= y THEN x ELSE y
         /\ Knowledge!Max({x, y}) = IF x >= y THEN x ELSE y
BY DEF Knowledge!Min, Knowledge!Max

\* A drafted procedure that reaches the supervisor cites in both languages the
\* same marks, and resolves them when they are numbered from 1, for any sections
\* and sources (CitationsHold).
THEOREM CitationsAreHeld ==
  ASSUME NEW raw, \A key \in Knowledge!Sections : raw[key] \in SUBSET Nat /\ IsFiniteSet(raw[key]),
         NEW kept, NEW T, NEW sources \in Seq(T)
  PROVE  Knowledge!CitationsHold(raw, kept, sources)
<1> DEFINE it == Knowledge!ParseSections(raw, sources)
           en == [key \in Knowledge!Sections |-> it[key] \cap kept]
           marks == Knowledge!AnchorsIn(it)
           map == Knowledge!BuildAnchorMap(marks, sources)
           draft == Knowledge!Draft(raw, kept, sources)
<1>1. draft.it = it /\ draft.en = en /\ draft.map = map /\ draft.accepted = Knowledge!Validate(it, en, map, sources)
  BY DEF Knowledge!Draft
<1>2. it = [key \in Knowledge!Sections |-> it[key]]
  BY DEF Knowledge!ParseSections
<1>3. ASSUME draft.accepted
      PROVE  Knowledge!AnchorsIn(en) = marks
  <2>1. marks \subseteq Knowledge!AnchorsIn(en)
    BY <1>1, <1>3 DEF Knowledge!Validate
  <2>2. Knowledge!AnchorsIn(en) \subseteq marks
    BY <1>2 DEF Knowledge!AnchorsIn, Knowledge!Range
  <2> QED BY <2>1, <2>2
<1>4. IsFiniteSet(marks)
  <2>1. \A key \in Knowledge!Sections : IsFiniteSet(it[key])
    <3>1. \A n \in Int : IsFiniteSet(1..n)
      BY FS_Interval
    <3>2. PICK n \in Int : n = Len(sources)
      OBVIOUS
    <3>3. Knowledge!Min({n, 3}) \in Int
      BY KnowledgeEnds
    <3>4. ASSUME NEW key PROVE IsFiniteSet(Knowledge!FallbackSection(key, sources))
      BY <3>1, <3>2, <3>3, FS_EmptySet DEF Knowledge!FallbackSection
    <3> QED BY <3>4 DEF Knowledge!ParseSections
  <2>2. marks = it["Scopo"] \cup it["Prerequisiti"] \cup it["Passi"] \cup it["Sicurezza"] \cup it["Riferimenti"]
    BY <1>2 DEF Knowledge!AnchorsIn, Knowledge!Range, Knowledge!Sections
  <2> HIDE DEF it, marks
  <2>3. /\ IsFiniteSet(it["Scopo"]) /\ IsFiniteSet(it["Prerequisiti"]) /\ IsFiniteSet(it["Passi"])
        /\ IsFiniteSet(it["Sicurezza"]) /\ IsFiniteSet(it["Riferimenti"])
    BY <2>1 DEF Knowledge!Sections
  <2> QED BY <2>2, <2>3, FS_Union
<1>5. ASSUME marks = 1..Knowledge!Cardinality(marks), marks \subseteq DOMAIN sources, NEW n \in marks
      PROVE  map[n] = sources[n]
  <2>1. PICK m \in Nat : m = Cardinality(marks)
    BY <1>4, FS_CardinalityType
  <2>2. marks = 1..m
    BY <1>5, <2>1, KnowledgeSizes
  <2> HIDE DEF marks
  <2>3. n \in 1..m /\ {b \in marks : b <= n} = 1..n
    BY <2>2
  <2>4. Knowledge!Cardinality({b \in marks : b <= n}) = n
    <3>1. Cardinality(1..n) = n
      BY <2>3, FS_Interval
    <3> QED BY <2>3, <3>1, KnowledgeSizes
  <2>5. n \in DOMAIN sources
    BY <1>5
  <2> QED BY <2>4, <2>5 DEF Knowledge!BuildAnchorMap
<1> HIDE DEF it, en, marks, map
<1> QED BY <1>1, <1>3, <1>5 DEF Knowledge!CitationsHold, marks

-----------------------------------------------------------------------------
(* The quiz.                                                               *)

LEMMA TruncateMeans ==
  ASSUME NEW T, NEW s \in Seq(T), NEW n \in Nat
  PROVE  /\ Len(Knowledge!Truncate(s, n)) = IF n <= Len(s) THEN n ELSE Len(s)
         /\ DOMAIN Knowledge!Truncate(s, n) = 1..(IF n <= Len(s) THEN n ELSE Len(s))
         /\ \A i \in 1..(IF n <= Len(s) THEN n ELSE Len(s)) : Knowledge!Truncate(s, n)[i] = s[i]
<1>1. PICK k \in Nat : k = (IF n <= Len(s) THEN n ELSE Len(s)) /\ k <= Len(s) /\ Len(s) \in Nat
  OBVIOUS
<1>2. Knowledge!Truncate(s, n) = SubSeq(s, 1, k)
  BY <1>1, KnowledgeEnds DEF Knowledge!Truncate
<1>3. \A i \in 1..k : s[i] \in T
  BY <1>1
<1>4. /\ SubSeq(s, 1, k) \in Seq(T) /\ Len(SubSeq(s, 1, k)) = IF 1 <= k THEN k - 1 + 1 ELSE 0
      /\ \A i \in 1..(k - 1 + 1) : SubSeq(s, 1, k)[i] = s[1 + i - 1]
  BY <1>3, SubSeqProperties
<1>5. Len(SubSeq(s, 1, k)) = k /\ DOMAIN SubSeq(s, 1, k) = 1..k /\ \A i \in 1..k : SubSeq(s, 1, k)[i] = s[i]
  BY <1>4
<1> QED BY <1>1, <1>2, <1>5

\* Leaving the last question of a quiz out is never better than answering it,
\* for quizzes and answers of any length (SilenceNeverPays).
THEOREM SilenceIsNeverPaid ==
  ASSUME NEW Q, NEW questions \in Seq(Q), NEW A, NEW answers \in Seq(A)
  PROVE  Knowledge!SilenceNeverPays(questions, answers)
<1> DEFINE right(m) == {i \in 1..m : answers[i] = questions[i].right}
           upto(n) == IF n <= Len(questions) THEN n ELSE Len(questions)
           At(n) == Knowledge!ScoreSession(questions, Knowledge!Truncate(answers, n))
<1>1. Len(questions) \in Nat /\ Len(answers) \in Nat /\ (questions # <<>> => Len(questions) >= 1)
  BY EmptySeq
<1>2. ASSUME NEW n \in 0..Len(answers), questions # <<>>
      PROVE  At(n) = <<Cardinality(right(upto(n))), Len(questions)>> /\ upto(n) \in 0..Len(questions)
  <2>1. /\ Len(Knowledge!Truncate(answers, n)) = n
        /\ \A i \in 1..n : Knowledge!Truncate(answers, n)[i] = answers[i]
    BY <1>1, TruncateMeans
  <2>2. Knowledge!Min({Len(questions), n}) = upto(n) /\ upto(n) \in Nat /\ upto(n) <= n /\ upto(n) <= Len(questions)
    BY <1>1, KnowledgeEnds
  <2>3. {i \in 1..upto(n) : Knowledge!Truncate(answers, n)[i] = questions[i].right} = right(upto(n))
    <3> HIDE DEF upto
    <3> QED BY <2>1, <2>2
  <2>4. PICK m : m = upto(n)
    OBVIOUS
  <2> DEFINE cut == Knowledge!Truncate(answers, n)
  <2>5. At(n) = <<Knowledge!Cardinality({i \in 1..m : cut[i] = questions[i].right}), Len(questions)>>
    <3> HIDE DEF upto
    <3> QED BY <1>2, <2>1, <2>2, <2>4 DEF Knowledge!ScoreSession
  <2>6. {i \in 1..m : cut[i] = questions[i].right} = right(upto(n))
    BY <2>3, <2>4
  <2>7. Knowledge!Cardinality(right(upto(n))) = Cardinality(right(upto(n)))
    BY KnowledgeSizes
  <2>8. upto(n) \in 0..Len(questions)
    BY <1>1, <2>2
  <2> HIDE DEF upto, right, At, cut
  <2> QED BY <2>5, <2>6, <2>7, <2>8
<1>3. ASSUME NEW n \in 1..Len(answers)
      PROVE  /\ At(n)[1] * At(n - 1)[2] >= At(n - 1)[1] * At(n)[2]
             /\ Knowledge!Passed(At(n - 1)) => Knowledge!Passed(At(n))
             /\ n > Len(questions) => At(n) = At(n - 1)
  <2>1. CASE questions = <<>>
    <3>1. At(n) = <<0, 1>> /\ At(n - 1) = <<0, 1>>
      BY <2>1 DEF Knowledge!ScoreSession
    <3> HIDE DEF At
    <3> QED BY <3>1
  <2>2. CASE questions # <<>>
    <3>1. n \in 0..Len(answers) /\ n - 1 \in 0..Len(answers)
      BY <1>1
    <3>2. upto(n - 1) <= upto(n) /\ upto(n) \in Nat /\ upto(n - 1) \in Nat /\ (n > Len(questions) => upto(n) = upto(n - 1))
      BY <1>1, <3>1
    <3>3. right(upto(n - 1)) \subseteq right(upto(n)) /\ IsFiniteSet(right(upto(n)))
      <4> HIDE DEF upto
      <4>1. IsFiniteSet(1..upto(n)) /\ right(upto(n)) \subseteq 1..upto(n)
        <5>1. 1 \in Int /\ upto(n) \in Int
          BY <3>2
        <5>2. IsFiniteSet(1..upto(n))
          BY <5>1, FS_Interval, ZenonT(40)
        <5> QED BY <5>2
      <4>2. right(upto(n - 1)) \subseteq right(upto(n))
        BY <3>2
      <4> QED BY <4>1, <4>2, FS_Subset
    <3>4. PICK x \in Nat, y \in Nat, l \in Nat :
            x = Cardinality(right(upto(n - 1))) /\ y = Cardinality(right(upto(n))) /\ l = Len(questions) /\ x <= y
      <4> HIDE DEF right, upto
      <4> QED BY <1>1, <3>3, FS_Subset, FS_CardinalityType
    <3>5. At(n) = <<y, l>> /\ At(n - 1) = <<x, l>>
      <4> HIDE DEF right, upto, At
      <4> QED BY <1>2, <2>2, <3>1, <3>4
    <3>6. n > Len(questions) => x = y
      <4> HIDE DEF right, At
      <4> QED BY <3>2, <3>4
    <3>7. y * l >= x * l
      BY <3>4
    <3> HIDE DEF right, upto, At
    <3> QED BY <3>4, <3>5, <3>6, <3>7 DEF Knowledge!Passed
  <2> QED BY <2>1, <2>2
<1> QED BY <1>3 DEF Knowledge!SilenceNeverPays

-----------------------------------------------------------------------------
(* Root causes and the curation of documents.                              *)

LEMMA LeastOf ==
  ASSUME NEW X \in SUBSET Nat, NEW m \in Nat, \A k \in X : k <= m
  PROVE  /\ X = {} => Knowledge!Min(X \cup {m}) = m
         /\ X # {} => Knowledge!Min(X \cup {m}) \in X
<1>1. CASE X = {}
  <2>1. X \cup {m} = {m, m}
    BY <1>1
  <2> QED BY <1>1, <2>1, KnowledgeEnds
<1>2. CASE X # {}
  <2>1. PICK n \in X : \A k \in X : n <= k
    BY <1>2, LeastNat
  <2>2. n \in Nat /\ n <= m
    OBVIOUS
  <2> DEFINE Y == X \cup {m}
  <2>3. n \in Y /\ \A k \in Y : k \in Nat /\ n <= k
    BY <2>1, <2>2
  <2> HIDE DEF Y
  <2>4. \A x \in Y : (\A k \in Y : x <= k) => x = n
    BY <2>3
  <2>5. Knowledge!Min(Y) = n
    BY <2>3, <2>4 DEF Knowledge!Min
  <2> QED BY <1>2, <2>1, <2>5 DEF Y
<1> QED BY <1>1, <1>2

LEMMA GreatestOf ==
  ASSUME NEW m \in Nat, NEW X \in SUBSET (1..m)
  PROVE  LET top == Knowledge!Max(X \cup {0}) IN
         top \in 0..m /\ (X # {} => top \in X) /\ (X = {} => top = 0) /\ \A k \in X : k <= top
<1> DEFINE top == Knowledge!Max(X \cup {0})
<1>1. CASE X = {}
  <2>1. X \cup {0} = {0, 0}
    BY <1>1
  <2>2. Knowledge!Max({0, 0}) = 0
    <3>1. \A z \in Int : Knowledge!Max({z, z}) = z
      BY KnowledgeEnds
    <3>2. 0 \in Int
      OBVIOUS
    <3> QED BY <3>1, <3>2, ZenonT(40)
  <2>3. top = 0
    BY <2>1, <2>2
  <2> QED BY <1>1, <2>3
<1>2. CASE X # {}
  <2> DEFINE far == {m - k : k \in X}
  <2>1. far \in SUBSET Nat /\ far # {}
    <3>1. \A k \in X : k \in Nat /\ k <= m /\ m - k \in Nat
      OBVIOUS
    <3>2. PICK k \in X : TRUE
      BY <1>2
    <3>3. m - k \in far
      OBVIOUS
    <3> QED BY <3>1, <3>3
  <2>2. PICK f \in far : \A g \in far : f <= g
    <3> HIDE DEF far
    <3> QED BY <2>1, LeastNat
  <2>3. PICK n \in X : f = m - n
    BY <2>2
  <2>4. \A k \in X : m - n <= m - k
    BY <2>2, <2>3
  <2> DEFINE Y == X \cup {0}
  <2>5. n \in Y /\ n \in 1..m /\ \A k \in Y : k \in Nat /\ k <= n
    BY <2>4
  <2> HIDE DEF Y
  <2>6. \A x \in Y : (\A k \in Y : x >= k) => x = n
    BY <2>5
  <2>7. Knowledge!Max(Y) = n
    BY <2>5, <2>6 DEF Knowledge!Max
  <2> QED BY <1>2, <2>5, <2>7 DEF Y
<1> QED BY <1>1, <1>2

\* The chain of causes put to the supervisor is the one that passed the
\* validator, or the newest that could be built, for any number of attempts
\* (ValidChainShown).
THEOREM ValidChainIsShown ==
  ASSUME NEW T, NEW attempts \in Seq(T)
  PROVE  Knowledge!ValidChainShown(attempts)
<1> DEFINE tried == Knowledge!Truncate(attempts, 3)
           valid == {i \in DOMAIN tried : tried[i] = "valid"}
           last == Knowledge!Min(valid \cup {Len(tried)})
           built == {i \in 1..last : tried[i] \in {"uncited", "valid"}}
           best == Knowledge!Max(built \cup {0})
           c == Knowledge!Chain(attempts)
<1>1. c.tried = last /\ c.best = best /\ c.valid = (valid # {})
  BY DEF Knowledge!Chain, Knowledge!MaxRetries
<1>2. PICK m \in 0..3 : /\ m = Len(tried) /\ m = Knowledge!Min({Len(attempts), 3}) /\ DOMAIN tried = 1..m
                        /\ \A i \in 1..m : tried[i] = attempts[i]
  <2>1. PICK n \in Nat : n = Len(attempts)
    OBVIOUS
  <2>2. /\ Len(tried) = IF 3 <= n THEN 3 ELSE n
        /\ DOMAIN tried = 1..(IF 3 <= n THEN 3 ELSE n)
        /\ \A i \in 1..(IF 3 <= n THEN 3 ELSE n) : tried[i] = attempts[i]
    BY <2>1, TruncateMeans
  <2>3. Knowledge!Min({n, 3}) = IF n <= 3 THEN n ELSE 3
    BY KnowledgeEnds
  <2>4. PICK m \in 0..3 : m = (IF 3 <= n THEN 3 ELSE n) /\ m = IF n <= 3 THEN n ELSE 3
    OBVIOUS
  <2> HIDE DEF tried
  <2> QED BY <2>1, <2>2, <2>3, <2>4
<1> HIDE DEF tried
<1>3. /\ last \in 0..m /\ (valid # {} => last \in valid) /\ (valid = {} => last = m)
  <2>1. valid \in SUBSET Nat /\ m \in Nat /\ \A k \in valid : k <= m /\ k \in 0..m
    BY <1>2
  <2>2. last = Knowledge!Min(valid \cup {m})
    BY <1>2
  <2> HIDE DEF valid, last
  <2>3. (valid = {} => last = m) /\ (valid # {} => last \in valid)
    BY <2>1, <2>2, LeastOf
  <2>4. last \in 0..m
    <3>1. CASE valid = {}
      BY <2>1, <2>3, <3>1
    <3>2. CASE valid # {}
      BY <2>1, <2>3, <3>2
    <3> QED BY <3>1, <3>2
  <2> QED BY <2>3, <2>4
<1> HIDE DEF valid
<1>4. PICK l \in 0..3 : l = last /\ l <= m
  BY <1>3
<1> HIDE DEF last
<1>5. best \in 0..l /\ (built # {} => best \in built) /\ (built = {} => best = 0) /\ \A k \in built : k <= best
  <2>1. l \in Nat /\ built \in SUBSET (1..l)
    BY <1>4
  <2> HIDE DEF built
  <2> QED BY <2>1, GreatestOf
<1>6. c.valid <=> \E i \in 1..m : attempts[i] = "valid"
  BY <1>1, <1>2 DEF valid
<1>7. ASSUME valid # {}
      PROVE  attempts[best] = "valid" /\ last = best
  <2>1. l \in 1..m /\ tried[l] = "valid"
    BY <1>2, <1>3, <1>4, <1>7 DEF valid
  <2>2. l \in built
    BY <1>4, <2>1
  <2>3. best = l
    <3> HIDE DEF best, built
    <3> QED BY <1>5, <2>2
  <2> HIDE DEF best
  <2> QED BY <1>2, <1>4, <2>1, <2>3
<1>8. \A i \in 1..last : i > best => attempts[i] \notin {"uncited", "valid"}
  <2> SUFFICES ASSUME NEW i \in 1..l, i > best, attempts[i] \in {"uncited", "valid"}
               PROVE  FALSE
    BY <1>4
  <2>1. i \in 1..m
    BY <1>4
  <2>2. i \in built
    BY <1>2, <1>4, <2>1
  <2> HIDE DEF best, built
  <2> QED BY <1>5, <2>2
<1> HIDE DEF best, c
<1>9. 1..Knowledge!Min({Len(attempts), Knowledge!MaxRetries + 1}) = 1..m
  BY <1>2 DEF Knowledge!MaxRetries
<1> QED BY <1>1, <1>6, <1>7, <1>8, <1>9 DEF Knowledge!ValidChainShown, c

\* A document the curator flagged stays flagged as it ages or as a closer one
\* comes, whatever the limit of similarity (CurationSteady).
THEOREM CurationIsSteady ==
  ASSUME NearPercent \in Int, NEW Hash, NEW Type, NEW doc \in [hash : Hash, type : Type, age : Int],
         NEW known, NEW near \in Int, NEW days \in Nat, NEW nearer \in Nat
  PROVE  Knowledge!CurationSteady(doc, known, near, days, nearer)
<1> DEFINE older == [doc EXCEPT !.age = doc.age + days]
           first == Knowledge!Curate(doc, known, near)
           later == Knowledge!Curate(older, known, near + nearer)
<1>1. older.age = doc.age + days /\ older.hash = doc.hash /\ older.type = doc.type
  OBVIOUS
<1>2. first.is_stale => later.is_stale
  <2>1. PICK most \in Int : \A a : Knowledge!IsStale(doc.type, a) <=> a > most
    BY DEF Knowledge!IsStale, Knowledge!ThresholdDays
  <2>2. Knowledge!IsStale(doc.type, doc.age) => Knowledge!IsStale(doc.type, doc.age + days)
    BY <2>1
  <2> HIDE DEF older
  <2> QED BY <1>1, <2>2 DEF Knowledge!Curate
<1>3. /\ doc.hash \in known => first.dup_type = "exact"
      /\ first.dup_type # Knowledge!NoValue => later.dup_type = first.dup_type
  <2> HIDE DEF older
  <2> QED BY <1>1 DEF Knowledge!Curate, Knowledge!DupType, Knowledge!NoValue
<1>4. Knowledge!Range(first.rows) \subseteq Knowledge!Range(later.rows)
  <2>1. ASSUME NEW d, NEW k, NEW n
        PROVE  Knowledge!Range(Knowledge!Curate(d, k, n).rows) =
                 {row \in {"KNOWLEDGE_DEDUP", "STALE_FLAG"} :
                    \/ row = "KNOWLEDGE_DEDUP" /\ Knowledge!Curate(d, k, n).dup_type # Knowledge!NoValue
                    \/ row = "STALE_FLAG" /\ Knowledge!Curate(d, k, n).is_stale}
    <3>1. /\ Knowledge!Range(<<>> \o <<>>) = {}
          /\ Knowledge!Range(<<"KNOWLEDGE_DEDUP">> \o <<>>) = {"KNOWLEDGE_DEDUP"}
          /\ Knowledge!Range(<<>> \o <<"STALE_FLAG">>) = {"STALE_FLAG"}
          /\ Knowledge!Range(<<"KNOWLEDGE_DEDUP">> \o <<"STALE_FLAG">>) = {"KNOWLEDGE_DEDUP", "STALE_FLAG"}
      BY DEF Knowledge!Range
    <3> QED BY <3>1 DEF Knowledge!Curate
  <2> HIDE DEF older
  <2>2. /\ first.dup_type # Knowledge!NoValue => later.dup_type # Knowledge!NoValue
        /\ first.is_stale => later.is_stale
    BY <1>2, <1>3
  <2> DEFINE of(report) == {row \in {"KNOWLEDGE_DEDUP", "STALE_FLAG"} :
                    \/ row = "KNOWLEDGE_DEDUP" /\ report.dup_type # Knowledge!NoValue
                    \/ row = "STALE_FLAG" /\ report.is_stale}
  <2>3. Knowledge!Range(first.rows) = of(first) /\ Knowledge!Range(later.rows) = of(later)
    BY <2>1
  <2> HIDE DEF first, later
  <2> QED BY <2>2, <2>3
<1> QED BY <1>2, <1>3, <1>4 DEF Knowledge!CurationSteady

-----------------------------------------------------------------------------
(* Reorders and discounts.                                                 *)

LEMMA GreatestExists ==
  ASSUME NEW X, IsFiniteSet(X), X # {}, NEW f, \A x \in X : f[x] \in Int
  PROVE  \E x \in X : \A y \in X : f[y] <= f[x]
<1> DEFINE B == {U \in SUBSET X : U # {} /\ ~ \E x \in U : \A y \in U : f[y] <= f[x]}
<1>1. SUFFICES ASSUME B # {} PROVE FALSE
  OBVIOUS
<1>2. PICK U \in B : \A V \in SUBSET U : V # U => V \notin B
  <2>1. B \in SUBSET (SUBSET X)
    OBVIOUS
  <2> HIDE DEF B
  <2> QED BY <1>1, <2>1, SmallestSubset
<1>3. PICK x \in U : TRUE
  OBVIOUS
<1>4. CASE U = {x}
  <2>1. f[x] \in Int
    OBVIOUS
  <2>2. f[x] <= f[x]
    BY <2>1
  <2> QED BY <1>4, <2>2
<1>5. CASE U # {x}
  <2> DEFINE V == U \ {x}
  <2>1. V \in SUBSET X /\ V # {} /\ V \notin B
    <3>1. V \in SUBSET U /\ V # U /\ V # {}
      BY <1>3, <1>5
    <3>2. U \in SUBSET X
      OBVIOUS
    <3> HIDE DEF B, V
    <3> QED BY <1>2, <3>1, <3>2
  <2>2. PICK m \in V : \A y \in V : f[y] <= f[m]
    BY <2>1
  <2>3. f[m] \in Int /\ f[x] \in Int /\ \A y \in U : f[y] \in Int
    OBVIOUS
  <2>4. CASE f[x] <= f[m]
    <3>1. m \in U /\ \A y \in U : f[y] <= f[m]
      BY <2>2, <2>4
    <3> QED BY <3>1
  <2>5. CASE f[m] <= f[x]
    <3>1. \A y \in V : f[y] <= f[x]
      BY <2>2, <2>3, <2>5
    <3>2. f[x] <= f[x]
      BY <2>3
    <3>3. \A y \in U : f[y] <= f[x]
      BY <3>1, <3>2
    <3> QED BY <1>3, <3>3
  <2> QED BY <2>3, <2>4, <2>5
<1> QED BY <1>4, <1>5

\* Levels as the table of the stock keeps them: one row per SKU and time.
Stocked(levels) ==
  /\ IsFiniteSet(levels)
  /\ \A l \in levels : l.sku \in Nat \ {0} /\ l.ts \in Int /\ l.qty \in Int
  /\ \A k, l \in levels : k.sku = l.sku /\ k.ts = l.ts => k = l

LEMMA NewestIs ==
  ASSUME NEW levels, Stocked(levels), NEW sku, NEW one \in levels, one.sku = sku
  PROVE  /\ Supply!Newest(levels, sku) \in levels /\ Supply!Newest(levels, sku).sku = sku
         /\ \A k \in levels : k.sku = sku => k.ts <= Supply!Newest(levels, sku).ts
<1> DEFINE X == {l \in levels : l.sku = sku}
           f == [l \in X |-> l.ts]
<1>1. IsFiniteSet(X) /\ X # {}
  BY FS_Subset DEF Stocked
<1>2. \A l \in X : f[l] \in Int
  BY DEF Stocked
<1>3. PICK x \in X : \A y \in X : f[y] <= f[x]
  <2> HIDE DEF X, f
  <2> QED BY <1>1, <1>2, GreatestExists
<1>4. x \in levels /\ x.sku = sku /\ \A k \in levels : k.sku = sku => k.ts <= x.ts
  BY <1>3
<1> HIDE DEF X, f
<1> QED BY <1>4 DEF Supply!Newest

\* What is proposed for reorder is below its point at its newest level, and
\* nothing is proposed only when no SKU asked for is, for any stock
\* (DraftIsShort).
THEOREM DraftIsOfShortGoods ==
  ASSUME NEW levels, Stocked(levels), NEW master, \A s \in DOMAIN master : master[s].point \in Int, NEW wanted
  PROVE  Supply!DraftIsShort(levels, master, wanted)
<1> DEFINE draft == Supply!ReorderDraft(levels, master, wanted)
           skus == IF wanted = {} THEN DOMAIN master ELSE wanted
           short(s) == /\ \E l \in levels : l.sku = s
                       /\ \E l \in levels : /\ l.sku = s /\ l.qty < master[s].point
                                            /\ \A k \in levels : k.sku = s /\ k.ts >= l.ts => k = l
           newest(s) == Supply!Newest(levels, s)
           signals == {Supply!CheckReorder(row, master) : row \in Supply!CurrentLevels(levels, master, skus)}
           low == {s \in signals : s.below}
<1>1. ASSUME NEW s \in DOMAIN master
      PROVE  short(s) <=> (\E l \in levels : l.sku = s) /\ newest(s).qty < master[s].point
  <2>1. CASE \E l \in levels : l.sku = s
    <3> DEFINE n == newest(s)
    <3>1. n \in levels /\ n.sku = s /\ \A k \in levels : k.sku = s => k.ts <= n.ts
      BY <2>1, NewestIs
    <3> HIDE DEF n
    <3>2. \A k \in levels : k.sku = s /\ k.ts >= n.ts => k = n
      BY <3>1 DEF Stocked
    <3>3. \A l \in levels : l.sku = s /\ (\A k \in levels : k.sku = s /\ k.ts >= l.ts => k = l) => l = n
      BY <3>1 DEF Stocked
    <3>4. short(s) <=> n.qty < master[s].point
      BY <2>1, <3>1, <3>2, <3>3
    <3> QED BY <2>1, <3>4 DEF n
  <2> QED BY <2>1
<1>2. ASSUME NEW s \in skus \cap DOMAIN master, \E l \in levels : l.sku = s
      PROVE  /\ Supply!CheckReorder(newest(s), master) \in signals
             /\ Supply!CheckReorder(newest(s), master).sku = s
             /\ Supply!CheckReorder(newest(s), master).below <=> newest(s).qty < master[s].point
  <2>1. newest(s).sku = s
    BY <1>2, NewestIs
  <2>2. newest(s) \in Supply!CurrentLevels(levels, master, skus)
    BY <1>2 DEF Supply!CurrentLevels
  <2> HIDE DEF newest, skus
  <2> QED BY <2>1, <2>2 DEF Supply!CheckReorder
<1>3. ASSUME NEW x \in signals
      PROVE  \E s \in skus \cap DOMAIN master :
               (\E l \in levels : l.sku = s) /\ x = Supply!CheckReorder(newest(s), master)
  BY DEF Supply!CurrentLevels
<1>4. ASSUME NEW x \in low
      PROVE  /\ x.sku \in skus \cap DOMAIN master /\ x.sku \in Nat \ {0} /\ short(x.sku)
             /\ x.deficit > 0 /\ x # Supply!NoDraft
  <2>1. PICK s \in skus \cap DOMAIN master :
          (\E l \in levels : l.sku = s) /\ x = Supply!CheckReorder(newest(s), master)
    BY <1>3
  <2>2. x.sku = s /\ newest(s).qty < master[s].point
    BY <1>2, <2>1
  <2>3. newest(s) \in levels /\ newest(s).sku = s
    BY <2>1, NewestIs
  <2>4. PICK q \in Int, p \in Int : q = newest(s).qty /\ p = master[s].point
    BY <2>3 DEF Stocked
  <2>5. short(s)
    BY <1>1, <2>1, <2>2
  <2>6. x.deficit = Supply!Above(0, p - q)
    BY <2>1, <2>3, <2>4 DEF Supply!CheckReorder
  <2>7. x.deficit > 0
    BY <2>2, <2>4, <2>6 DEF Supply!Above
  <2>8. s \in Nat \ {0}
    BY <2>1 DEF Stocked
  <2>9. x # Supply!NoDraft
    BY <2>2, <2>8 DEF Supply!NoDraft
  <2> HIDE DEF short
  <2> QED BY <2>2, <2>5, <2>7, <2>8, <2>9
<1>5. ASSUME low # {}
      PROVE  draft \in low
  <2> DEFINE names == {s.sku : s \in low}
  <2>1. names \in SUBSET Nat /\ names # {}
    <3>1. \A x \in low : x.sku \in Nat
      BY <1>4
    <3> HIDE DEF low
    <3> QED BY <1>5, <3>1
  <2>2. PICK n \in names : \A m \in names : n <= m
    <3> HIDE DEF names
    <3> QED BY <2>1, LeastNat
  <2>3. \E x \in low : \A other \in low : x.sku <= other.sku
    <3> HIDE DEF low
    <3> QED BY <2>2
  <2>4. draft = CHOOSE x \in low : \A other \in low : x.sku <= other.sku
    BY <1>5 DEF Supply!ReorderDraft
  <2> HIDE DEF low
  <2> QED BY <2>3, <2>4
<1>6. low = {} => draft = Supply!NoDraft
  BY DEF Supply!ReorderDraft
<1>7. draft = Supply!NoDraft <=> \A s \in skus \cap DOMAIN master : ~short(s)
  <2>1. ASSUME NEW s \in skus \cap DOMAIN master, short(s)
        PROVE  low # {}
    <3>1. (\E l \in levels : l.sku = s) /\ newest(s).qty < master[s].point
      BY <1>1, <2>1
    <3>2. Supply!CheckReorder(newest(s), master) \in low
      BY <1>2, <3>1
    <3> QED BY <3>2
  <2>2. ASSUME low # {}
        PROVE  draft # Supply!NoDraft /\ \E s \in skus \cap DOMAIN master : short(s)
    BY <1>4, <1>5, <2>2
  <2> HIDE DEF low, short, draft
  <2> QED BY <1>6, <2>1, <2>2
<1>8. draft # Supply!NoDraft => short(draft.sku) /\ draft.deficit > 0
  <2> HIDE DEF low, short, draft
  <2> QED BY <1>4, <1>5, <1>6
<1> QED BY <1>7, <1>8 DEF Supply!DraftIsShort

\* A larger discount is worth no fewer economic points.
Rising(curve) ==
  \A x \in 0..100 : \A y \in 0..100 : x <= y => curve[x] <= curve[y]

\* The table of changes of a discount agrees with the scores, and a larger
\* discount is never scored lower, for any rising curve (OepvConsistent).
THEOREM OepvIsConsistent ==
  ASSUME NEW r \in Int, NEW pt, NEW curve \in [0..100 -> Int], Rising(curve),
         NEW c \in [technical : Int, economic : Nat, base : Int, threshold : Int]
  PROVE  Supply!OepvConsistent(r, pt, curve, c)
<1> SUFFICES ASSUME r \in 0..100, pt \in 0..c.technical
             PROVE  Supply!OepvConsistent(r, pt, curve, c)
  BY DEF Supply!OepvConsistent, Supply!Oepv
<1> DEFINE score(x) == c.technical * pt + c.economic * curve[x]
           o(x) == Supply!Oepv(x, pt, curve, c)
<1>1. \A x \in 0..100 : score(x) \in Int
  <2>1. pt \in Int
    OBVIOUS
  <2> QED BY <2>1
<1>2. \A x, y \in 0..100 : x <= y => score(x) <= score(y)
  <2> SUFFICES ASSUME NEW x \in 0..100, NEW y \in 0..100, x <= y
               PROVE  score(x) <= score(y)
    OBVIOUS
  <2>1. PICK e \in Nat, u \in Int, v \in Int, b \in Int :
          e = c.economic /\ u = curve[x] /\ v = curve[y] /\ b = c.technical * pt
    <3>1. pt \in Int /\ c.technical \in Int /\ c.economic \in Nat
      OBVIOUS
    <3>2. curve[x] \in Int /\ curve[y] \in Int
      OBVIOUS
    <3>3. PICK t \in Int, q \in Int : t = c.technical /\ q = pt
      BY <3>1
    <3>4. t * q \in Int
      OBVIOUS
    <3> QED BY <3>1, <3>2, <3>3, <3>4
  <2>2. u <= v
    BY <2>1 DEF Rising
  <2>3. e * u <= e * v
    BY <2>2
  <2> QED BY <2>1, <2>3
<1> HIDE DEF score
<1>3. ASSUME NEW x \in 0..100
      PROVE  /\ o(x).total = score(x)
             /\ \A d \in Supply!Shifts : o(x).sensitivity[d] = score(Supply!Shifted(x, d)) - score(x)
  <2>1. o(x) = [total |-> score(x), offer |-> c.base * (100 - x), anomaly |-> x >= c.threshold,
                sensitivity |-> [d \in Supply!Shifts |-> score(Supply!Shifted(x, d)) - score(x)]]
    BY DEF Supply!Oepv, score
  <2> HIDE DEF o
  <2> QED BY <2>1
<1> HIDE DEF o
<1>4. \A d \in Supply!Shifts : d \in Int
  BY DEF Supply!Shifts
<1>5. ASSUME NEW d \in Int
      PROVE  /\ Supply!Shifted(r, d) \in 0..100
             /\ r + d \in 0..100 => Supply!Shifted(r, d) = r + d
             /\ d > 0 => r <= Supply!Shifted(r, d)
             /\ d < 0 => Supply!Shifted(r, d) <= r
             /\ (r = 0 /\ d < 0) \/ (r = 100 /\ d > 0) => Supply!Shifted(r, d) = r
  BY DEF Supply!Shifted, Supply!Above, Supply!Below
<1>6. ASSUME NEW d \in Supply!Shifts
      PROVE  /\ r + d \in 0..100 => o(r).sensitivity[d] = o(r + d).total - o(r).total
             /\ d > 0 => o(r).sensitivity[d] >= 0
             /\ d < 0 => o(r).sensitivity[d] <= 0
             /\ (r = 0 /\ d < 0) \/ (r = 100 /\ d > 0) => o(r).sensitivity[d] = 0
  <2>1. PICK t \in 0..100 : t = Supply!Shifted(r, d)
    BY <1>4, <1>5
  <2>2. PICK a \in Int, b \in Int : a = score(r) /\ b = score(t) /\ (r <= t => a <= b) /\ (t <= r => b <= a)
    BY <1>1, <1>2
  <2>3. o(r).sensitivity[d] = b - a /\ o(r).total = a
    BY <1>3, <2>1, <2>2
  <2>4. r + d \in 0..100 => t = r + d /\ o(r + d).total = b
    BY <1>3, <1>4, <1>5, <2>1, <2>2
  <2>5. /\ d > 0 => r <= t
        /\ d < 0 => t <= r
        /\ (r = 0 /\ d < 0) \/ (r = 100 /\ d > 0) => t = r
    BY <1>4, <1>5, <2>1
  <2>6. t = r => b = a
    BY <2>2
  <2> QED BY <2>2, <2>3, <2>4, <2>5, <2>6
<1> QED BY <1>6 DEF Supply!OepvConsistent, o

-----------------------------------------------------------------------------
(* Catalogues that passed.                                                 *)

\* When the checks of the assets and of the fault profiles pass, look-ups by id
\* give the entry itself, and each tag of a profile is one of an asset's
\* (RegistryResolves).
THEOREM RegistryIsResolved ==
  ASSUME NEW T, NEW assets \in Seq(T), NEW profiles
  PROVE  Catalogues!RegistryResolves(assets, profiles)
<1> SUFFICES ASSUME Catalogues!RegistryHolds(assets), Catalogues!ProfilesHold(profiles, assets)
             PROVE  /\ \A a \in Catalogues!ToSet(assets) :
                         Catalogues!AssetOf(assets, a.id) = a /\ \A t \in a.tags : Catalogues!TagOf(assets, t.id) = t
                    /\ \A p \in profiles : \A id \in Catalogues!Altered(p) \cup p.baseline :
                         \E a \in Catalogues!ToSet(assets) :
                           Catalogues!TagOf(assets, id) \in Catalogues!AssetOf(assets, a.id).tags
  BY DEF Catalogues!RegistryResolves
<1>1. DOMAIN assets \in SUBSET Nat /\ \A a \in Catalogues!ToSet(assets) : \E k \in DOMAIN assets : a = assets[k]
  BY DEF Catalogues!ToSet
<1>2. \A j, k \in DOMAIN assets : assets[j].id = assets[k].id => j = k
  BY DEF Catalogues!RegistryHolds, Catalogues!IsInjective
<1>3. \A a, b \in Catalogues!ToSet(assets) : \A t \in a.tags, u \in b.tags : t.id = u.id => t = u
  BY DEF Catalogues!ProfilesHold, Catalogues!Divergent
<1>4. ASSUME NEW a \in Catalogues!ToSet(assets)
      PROVE  Catalogues!AssetOf(assets, a.id) = a
  <2>1. PICK k \in DOMAIN assets : a = assets[k]
    BY <1>1
  <2>2. k <= k
    BY <1>1
  <2>3. \A j \in DOMAIN assets : assets[j].id = a.id <=> j = k
    BY <1>2, <2>1
  <2> DEFINE last == CHOOSE i \in DOMAIN assets : assets[i].id = a.id /\ \A j \in DOMAIN assets : assets[j].id = a.id => j <= i
  <2>4. last = k
    BY <2>2, <2>3
  <2>5. Catalogues!AssetOf(assets, a.id) = assets[last]
    BY DEF Catalogues!AssetOf
  <2> QED BY <2>1, <2>4, <2>5
<1>5. ASSUME NEW a \in Catalogues!ToSet(assets), NEW t \in a.tags
      PROVE  Catalogues!TagOf(assets, t.id) = t
  <2> DEFINE has == {k \in DOMAIN assets : \E u \in assets[k].tags : u.id = t.id}
  <2>1. has \in SUBSET Nat /\ has # {}
    BY <1>1
  <2>2. PICK n \in has : \A k \in has : n <= k
    <3> HIDE DEF has
    <3> QED BY <2>1, LeastNat
  <2>3. DOMAIN assets = 1..Len(assets) /\ Len(assets) \in Nat
    OBVIOUS
  <2>4. \A j \in 1..(n - 1) : j \in DOMAIN assets /\ \A u \in assets[j].tags : u.id # t.id
    <3> SUFFICES ASSUME NEW j \in 1..(n - 1)
                 PROVE  j \in DOMAIN assets /\ j \notin has
      OBVIOUS
    <3>1. n \in 1..Len(assets)
      BY <2>3
    <3>2. j \in DOMAIN assets /\ ~(n <= j)
      BY <2>3, <3>1
    <3> HIDE DEF has
    <3> QED BY <2>2, <3>2
  <2> DEFINE first == CHOOSE k \in DOMAIN assets : (\E u \in assets[k].tags : u.id = t.id)
                        /\ \A j \in 1..(k - 1) : \A u \in assets[j].tags : u.id # t.id
  <2>5. first \in DOMAIN assets /\ \E u \in assets[first].tags : u.id = t.id
    <3>1. n \in DOMAIN assets /\ (\E u \in assets[n].tags : u.id = t.id)
            /\ \A j \in 1..(n - 1) : \A u \in assets[j].tags : u.id # t.id
      BY <2>2, <2>4
    <3> HIDE DEF has
    <3> QED BY <3>1
  <2>6. Catalogues!TagOf(assets, t.id) = CHOOSE u \in assets[first].tags : u.id = t.id
    BY DEF Catalogues!TagOf
  <2> HIDE DEF first, has
  <2>7. assets[first] \in Catalogues!ToSet(assets)
    BY <2>5 DEF Catalogues!ToSet
  <2>8. \A u \in assets[first].tags : u.id = t.id => u = t
    BY <1>3, <2>7
  <2> QED BY <2>5, <2>6, <2>8
<1>6. ASSUME NEW p \in profiles, NEW id \in Catalogues!Altered(p) \cup p.baseline
      PROVE  \E a \in Catalogues!ToSet(assets) :
               Catalogues!TagOf(assets, id) \in Catalogues!AssetOf(assets, a.id).tags
  <2>1. id \in Catalogues!KnownTags(assets)
    BY DEF Catalogues!ProfilesHold, Catalogues!ProfileHolds
  <2>2. PICK a \in Catalogues!ToSet(assets) : \E t \in a.tags : id = t.id
    BY <2>1 DEF Catalogues!KnownTags
  <2>3. Catalogues!TagOf(assets, id) \in a.tags
    BY <1>5, <2>2
  <2> QED BY <1>4, <2>2, <2>3
<1> QED BY <1>4, <1>5, <1>6

\* English terms that the check of the glossaries reports as stale can be
\* dropped without an error of coverage (StaleDroppable).
THEOREM StaleTermsMayGo ==
  ASSUME NEW pages, NEW glossaries, DOMAIN glossaries = Catalogues!Languages
  PROVE  Catalogues!StaleDroppable(pages, glossaries)
<1> DEFINE stale == Catalogues!StaleTerms(pages, glossaries, "en")
           en == glossaries["en"] \ stale
           kept == [glossaries EXCEPT !["en"] = glossaries["en"] \ stale]
<1> SUFFICES ASSUME Catalogues!CoverageHolds(pages, glossaries), kept["en"] # {},
                    \A t \in glossaries["en"] : t.spelled = "underscore"
             PROVE  Catalogues!CoverageHolds(pages, kept)
  BY DEF Catalogues!StaleDroppable
<1>1. kept["en"] = en /\ kept["it"] = glossaries["it"]
  BY DEF Catalogues!Languages
<1>2. en = {t \in glossaries["en"] : t.stem \in Catalogues!Covered(pages, glossaries, "en")}
  BY DEF Catalogues!StaleTerms
<1> HIDE DEF kept, en, stale
<1>3. Catalogues!Covered(pages, kept, "it") = Catalogues!Covered(pages, glossaries, "it")
  BY <1>1 DEF Catalogues!Covered
<1>4. Catalogues!Tokens(pages, "en") = Catalogues!Covered(pages, glossaries, "en")
  BY DEF Catalogues!CoverageHolds, Catalogues!Languages
<1>5. ASSUME NEW token \in Catalogues!Tokens(pages, "en")
      PROVE  Catalogues!TokenIn(token, en) \/ Catalogues!TokenIn(token, glossaries["it"])
  <2>1. Catalogues!TokenIn(token, glossaries["en"]) \/ Catalogues!TokenIn(token, glossaries["it"])
    BY <1>4 DEF Catalogues!Covered, Catalogues!CoveredTokens
  <2>2. Catalogues!TokenIn(token, glossaries["en"]) => Catalogues!TokenIn(token, en)
    BY <1>2, <1>4 DEF Catalogues!TokenIn
  <2> QED BY <2>1, <2>2
<1>6. Catalogues!Tokens(pages, "en") = Catalogues!Covered(pages, kept, "en")
  BY <1>1, <1>5 DEF Catalogues!Covered, Catalogues!CoveredTokens
<1>7. /\ glossaries["it"] # {}
      /\ Catalogues!Tokens(pages, "it") = Catalogues!Covered(pages, glossaries, "it")
  BY DEF Catalogues!CoverageHolds, Catalogues!Languages
<1> QED BY <1>1, <1>3, <1>6, <1>7 DEF Catalogues!CoverageHolds, Catalogues!Languages

\* A project retired while an assumption names it is noticed by the check of the
\* register, unless another has its short name (RetiredNoticed).
THEOREM RetiredIsNoticed ==
  ASSUME NEW entries, NEW projects, NEW infra, NEW retired,
         retired.prefix # "none", \A n \in infra : n.prefix = "none"
  PROVE  Catalogues!RetiredNoticed(entries, projects, infra, retired)
<1> SUFFICES ASSUME Catalogues!ComponentsHold(entries, projects \ {retired}, infra), NEW k \in DOMAIN entries
             PROVE  /\ retired \notin entries[k].affected
                    /\ [prefix |-> "none", stem |-> retired.stem] \in entries[k].affected
                         => [prefix |-> "none", stem |-> retired.stem] \in infra
                            \/ \E p \in projects \ {retired} : p.stem = retired.stem
  BY DEF Catalogues!RetiredNoticed
<1>1. entries[k].affected \subseteq Catalogues!ComponentNames(projects \ {retired}, infra)
  BY DEF Catalogues!ComponentsHold
<1>2. retired \notin Catalogues!ComponentNames(projects \ {retired}, infra)
  BY DEF Catalogues!ComponentNames
<1> QED BY <1>1, <1>2 DEF Catalogues!ComponentNames

-----------------------------------------------------------------------------
(* Costs of a window.                                                      *)

\* The rows of a kind in a window, and what a row of a kind is worth.
InWindow(all, kind, from, to) == {r \in all : r.kind = kind /\ from <= r.ts /\ r.ts <= to}
Worth(all, kind) ==
  [r \in all |-> IF Supply!CostKey[kind] \in DOMAIN r.result THEN r.result[Supply!CostKey[kind]] ELSE 0]

LEMMA AmountIsTotal ==
  ASSUME NEW all, IsFiniteSet(all), NEW part \in SUBSET all, NEW kind, NEW from, NEW to
  PROVE  Supply!Amount(part, kind, from, to) = Total(Worth(all, kind), InWindow(part, kind, from, to))
<1> DEFINE S == InWindow(part, kind, from, to)
           f == Worth(all, kind)
           value(r) == IF Supply!CostKey[kind] \in DOMAIN r.result THEN r.result[Supply!CostKey[kind]] ELSE 0
           Is(h) == h = [s \in SUBSET S |-> IF s = {} THEN 0
                           ELSE LET x == CHOOSE x \in s : TRUE IN value(x) + h[s \ {x}]]
<1>1. Supply!Amount(part, kind, from, to) = (CHOOSE h : Is(h))[S]
  BY DEF Supply!Amount, Supply!MapThenSumSet, Supply!MapThenFoldSet, InWindow
<1>2. \A r \in S : f[r] = value(r)
  BY DEF Worth, InWindow
<1>3. IsFiniteSet(S)
  BY FS_Subset DEF InWindow
<1> HIDE DEF S, f, value
<1>4. \A h : Is(h) <=> AddsUp(f, S, h)
  <2> SUFFICES ASSUME NEW h PROVE Is(h) <=> AddsUp(f, S, h)
    OBVIOUS
  <2>1. ASSUME NEW s \in SUBSET S, s # {}
        PROVE  (LET x == CHOOSE x \in s : TRUE IN value(x) + h[s \ {x}])
                 = (LET x == CHOOSE x \in s : TRUE IN f[x] + h[s \ {x}])
    BY <1>2, <2>1
  <2>2. [s \in SUBSET S |-> IF s = {} THEN 0 ELSE LET x == CHOOSE x \in s : TRUE IN value(x) + h[s \ {x}]]
         = [s \in SUBSET S |-> IF s = {} THEN 0 ELSE LET x == CHOOSE x \in s : TRUE IN f[x] + h[s \ {x}]]
    BY <2>1
  <2> QED BY <2>2 DEF AddsUp
<1>5. PICK g : AddsUp(f, S, g)
  BY <1>3, AddsSomehow
<1>6. AddsUp(f, S, CHOOSE h : Is(h))
  BY <1>4, <1>5
<1>7. AddsUp(f, S, CHOOSE h : AddsUp(f, S, h))
  BY <1>5
<1> HIDE DEF Is
<1>8. (CHOOSE h : Is(h)) = (CHOOSE h : AddsUp(f, S, h))
  BY <1>3, <1>6, <1>7, AddsOnce
<1> QED BY <1>1, <1>8 DEF Total, S, f

\* A trail whose rows hold whole quantities.
Countable(all) ==
  IsFiniteSet(all) /\ \A r \in all : r.ts \in Int /\ \A name \in DOMAIN r.result : r.result[name] \in Nat

\* Two windows that share their border cost together what both cover and once
\* more what lies on the border; rows outside a window cost nothing in it
\* (WindowsAddUp).
THEOREM CostsAddUp ==
  ASSUME NEW all, Countable(all), NEW from \in Int, NEW middle \in Int, NEW to \in Int,
         from <= middle, middle <= to
  PROVE  Supply!WindowsAddUp(all, from, middle, to)
<1> DEFINE within == {r \in all : from <= r.ts /\ r.ts <= to}
           border == {r \in all : r.ts = middle}
           Cost(kind, low, high) == Total(Worth(all, kind), InWindow(all, kind, low, high))
<1>1. IsFiniteSet(all) /\ (\A r \in all : r.ts \in Int) /\ \A kind : \A r \in all : Worth(all, kind)[r] \in Nat
  BY DEF Countable, Worth
<1>2. \A kind, low, high : InWindow(all, kind, low, high) \in SUBSET all
  BY DEF InWindow
<1>3. \A kind, low, high : Supply!Amount(all, kind, low, high) = Cost(kind, low, high)
  BY <1>1, AmountIsTotal
<1>4. \A kind : Supply!Amount(within, kind, from, to) = Cost(kind, from, to)
  <2> SUFFICES ASSUME NEW kind PROVE Supply!Amount(within, kind, from, to) = Cost(kind, from, to)
    OBVIOUS
  <2>1. InWindow(within, kind, from, to) = InWindow(all, kind, from, to)
    BY DEF InWindow
  <2>2. within \in SUBSET all
    OBVIOUS
  <2> HIDE DEF within
  <2> QED BY <1>1, <2>1, <2>2, AmountIsTotal
<1>5. \A kind : Supply!Amount(border, kind, middle, middle) = Cost(kind, middle, middle)
  <2> SUFFICES ASSUME NEW kind PROVE Supply!Amount(border, kind, middle, middle) = Cost(kind, middle, middle)
    OBVIOUS
  <2>1. InWindow(border, kind, middle, middle) = InWindow(all, kind, middle, middle)
    BY <1>1 DEF InWindow
  <2>2. border \in SUBSET all
    OBVIOUS
  <2> HIDE DEF border
  <2> QED BY <1>1, <2>1, <2>2, AmountIsTotal
<1>6. \A kind : /\ Cost(kind, from, middle) + Cost(kind, middle, to) = Cost(kind, from, to) + Cost(kind, middle, middle)
                /\ \A low, high : Cost(kind, low, high) \in Nat
  <2> SUFFICES ASSUME NEW kind
               PROVE  /\ Cost(kind, from, middle) + Cost(kind, middle, to) = Cost(kind, from, to) + Cost(kind, middle, middle)
                      /\ \A low, high : Cost(kind, low, high) \in Nat
    OBVIOUS
  <2>1. /\ InWindow(all, kind, from, middle) \cup InWindow(all, kind, middle, to) = InWindow(all, kind, from, to)
        /\ InWindow(all, kind, from, middle) \cap InWindow(all, kind, middle, to) = InWindow(all, kind, middle, middle)
    BY <1>1 DEF InWindow
  <2>2. \A y \in all : Worth(all, kind)[y] \in Nat
    BY <1>1
  <2>3. Cost(kind, from, middle) + Cost(kind, middle, to) = Cost(kind, from, to) + Cost(kind, middle, middle)
    BY <1>1, <1>2, <2>1, <2>2, TotalOverlaps
  <2>4. ASSUME NEW low, NEW high
        PROVE  Cost(kind, low, high) \in Nat
    <3>1. IsFiniteSet(InWindow(all, kind, low, high)) /\ \A y \in InWindow(all, kind, low, high) : Worth(all, kind)[y] \in Nat
      BY <1>1, <1>2, <2>2, FS_Subset
    <3> QED BY <3>1, TotalIsNat
  <2> QED BY <2>3, <2>4
<1> HIDE DEF Cost, within, border
<1> DEFINE Sum(low, high) == 200 * Cost("DOWNTIME_VERDICT", low, high) + 800 * Cost("QUALITY_VERDICT", low, high)
                               + 25 * Cost("ANOMALY_ALERT", low, high)
<1>7. \A low, high : Supply!CostBreakdown(all, low, high).total = Sum(low, high)
  BY <1>3 DEF Supply!CostBreakdown
<1>8. Supply!CostBreakdown(within, from, to).total = Sum(from, to)
  BY <1>4 DEF Supply!CostBreakdown
<1>9. Supply!CostBreakdown(border, middle, middle).total = Sum(middle, middle)
  BY <1>5 DEF Supply!CostBreakdown
<1>10. Sum(from, middle) + Sum(middle, to) = Sum(from, to) + Sum(middle, middle)
  <2>1. \A a, b, c, d \in Nat : a + b = c + d => 200 * a + 200 * b = 200 * c + 200 * d /\ 800 * a + 800 * b = 800 * c + 800 * d
                                                /\ 25 * a + 25 * b = 25 * c + 25 * d
    OBVIOUS
  <2> QED BY <1>6, <2>1
<1> HIDE DEF Sum
<1> QED BY <1>7, <1>8, <1>9, <1>10 DEF Supply!WindowsAddUp, within, border

-----------------------------------------------------------------------------
(* The graph of the plant.                                                 *)

\* w is a walk of d rounds: in round n the edges of the relations R[n] are
\* followed.
IsWalk(edges, seed, R, d, w) ==
  w = [n \in 0..d |-> IF n = 0 THEN {seed}
                      ELSE {e.to : e \in {x \in edges : x.rel \in R[n] /\ x.from \in w[n - 1]}}]

LEMMA WalkExists ==
  ASSUME NEW edges, NEW seed, NEW R, NEW d \in Nat
  PROVE  \E w : IsWalk(edges, seed, R, d, w)
<1> DEFINE B == {n \in Nat : ~ \E w : IsWalk(edges, seed, R, n, w)}
<1>1. ASSUME B # {}
      PROVE  FALSE
  <2>1. PICK n \in B : \A m \in B : n <= m
    <3> HIDE DEF B
    <3>1. B \in SUBSET Nat
      BY DEF B
    <3> QED BY <1>1, <3>1, LeastNat
  <2>2. CASE n = 0
    <3> DEFINE w == [k \in 0..0 |-> {seed}]
    <3>1. w = [k \in 0..0 |-> IF k = 0 THEN {seed}
                              ELSE {e.to : e \in {x \in edges : x.rel \in R[k] /\ x.from \in w[k - 1]}}]
      OBVIOUS
    <3>2. IsWalk(edges, seed, R, n, w)
      <4> HIDE DEF w
      <4> QED BY <2>2, <3>1 DEF IsWalk
    <3> QED BY <2>1, <3>2
  <2>3. CASE n # 0
    <3>1. n \in Nat /\ n - 1 \in Nat /\ n - 1 \notin B
      BY <2>1, <2>3
    <3>2. PICK v : IsWalk(edges, seed, R, n - 1, v)
      BY <3>1
    <3> DEFINE last == {e.to : e \in {x \in edges : x.rel \in R[n] /\ x.from \in v[n - 1]}}
               w == [k \in 0..n |-> IF k = n THEN last ELSE v[k]]
    <3>3. \A k \in 0..(n - 1) : v[k] = IF k = 0 THEN {seed}
                                  ELSE {e.to : e \in {x \in edges : x.rel \in R[k] /\ x.from \in v[k - 1]}}
      BY <3>2 DEF IsWalk
    <3>4. w[n] = last /\ \A k \in 0..(n - 1) : w[k] = v[k]
      BY <3>1
    <3>5. ASSUME NEW k \in 0..n
          PROVE  w[k] = IF k = 0 THEN {seed}
                        ELSE {e.to : e \in {x \in edges : x.rel \in R[k] /\ x.from \in w[k - 1]}}
      <4> HIDE DEF w
      <4>1. CASE k = n
        <5>1. w[k - 1] = v[n - 1] /\ k # 0
          BY <2>3, <3>1, <3>4, <4>1
        <5> QED BY <3>4, <4>1, <5>1
      <4>2. CASE k # n /\ k = 0
        <5>1. 0 \in 0..(n - 1)
          BY <3>1
        <5>2. v[0] = {seed} /\ w[0] = v[0]
          BY <3>3, <3>4, <5>1
        <5> QED BY <4>2, <5>2
      <4>3. CASE k # n /\ k # 0
        <5>1. k \in 0..(n - 1) /\ k - 1 \in 0..(n - 1)
          BY <3>1, <4>3
        <5>2. w[k] = v[k] /\ w[k - 1] = v[k - 1]
          BY <3>4, <5>1
        <5> HIDE DEF last
        <5> QED BY <3>3, <4>3, <5>1, <5>2
      <4> QED BY <4>1, <4>2, <4>3
    <3>6. w = [k \in 0..n |-> w[k]]
      OBVIOUS
    <3> HIDE DEF w
    <3>7. IsWalk(edges, seed, R, n, w)
      BY <3>5, <3>6 DEF IsWalk
    <3> QED BY <2>1, <3>7
  <2> QED BY <2>2, <2>3
<1> QED BY <1>1

\* What lies at the end of a path of relations named is among the nodes that the
\* traversal of the plant's graph answers, if the depth allows the path and the
\* answer is not full (PathFollowed).
THEOREM PathIsFollowed ==
  ASSUME NEW edges, NEW seed, NEW T, NEW path \in Seq(T), NEW depth \in Nat
  PROVE  Knowledge!PathFollowed(edges, seed, path, depth)
<1> SUFFICES ASSUME path # <<>>, depth >= Len(path)
             PROVE  Knowledge!PathFollowed(edges, seed, path, depth)
  BY DEF Knowledge!PathFollowed
<1> DEFINE rels == Knowledge!Range(path)
           reach == CHOOSE w : w = [n \in 0..depth |-> IF n = 0 THEN {seed}
                     ELSE {e.to : e \in {x \in edges : x.rel \in rels /\ x.from \in w[n - 1]}}]
           end == CHOOSE w : w = [n \in 0..Len(path) |-> IF n = 0 THEN {seed}
                     ELSE {e.to : e \in {x \in edges : x.rel = path[n] /\ x.from \in w[n - 1]}}]
<1>1. PICK p \in Nat \ {0} : p = Len(path) /\ DOMAIN path = 1..p /\ p <= depth
  BY EmptySeq
<1>2. \A n \in 1..p : path[n] \in rels
  BY <1>1 DEF Knowledge!Range
<1> HIDE DEF rels
<1>3. /\ reach[0] = {seed}
      /\ \A n \in 1..depth : reach[n] = {e.to : e \in {x \in edges : x.rel \in rels /\ x.from \in reach[n - 1]}}
  <2>1. PICK w : IsWalk(edges, seed, [n \in 1..depth |-> rels], depth, w)
    BY WalkExists
  <2> DEFINE next(n) == IF n = 0 THEN {seed}
                        ELSE {e.to : e \in {x \in edges : x.rel \in rels /\ x.from \in w[n - 1]}}
  <2>6. w = [n \in 0..depth |-> w[n]] /\ \A n \in 0..depth : w[n] = next(n)
    <3>1. w = [n \in 0..depth |-> w[n]]
      BY <2>1 DEF IsWalk
    <3>2. ASSUME NEW n \in 0..depth
          PROVE  w[n] = next(n)
      <4>1. CASE n = 0
        BY <2>1, <4>1 DEF IsWalk
      <4>2. CASE n # 0
        <5>1. [i \in 1..depth |-> rels][n] = rels
          BY <4>2
        <5>2. w[n] = {e.to : e \in {x \in edges : x.rel \in [i \in 1..depth |-> rels][n] /\ x.from \in w[n - 1]}}
          BY <2>1, <4>2 DEF IsWalk
        <5> QED BY <4>2, <5>1, <5>2
      <4> QED BY <4>1, <4>2
    <3> QED BY <3>1, <3>2
  <2>2. w = [n \in 0..depth |-> IF n = 0 THEN {seed}
               ELSE {e.to : e \in {x \in edges : x.rel \in rels /\ x.from \in w[n - 1]}}]
    <3>1. w = [n \in 0..depth |-> next(n)]
      <4> HIDE DEF next
      <4> QED BY <2>6
    <3> QED BY <3>1
  <2>3. reach = [n \in 0..depth |-> IF n = 0 THEN {seed}
                  ELSE {e.to : e \in {x \in edges : x.rel \in rels /\ x.from \in reach[n - 1]}}]
    BY <2>2
  <2> HIDE DEF reach
  <2>4. reach[0] = {seed}
    BY <2>3
  <2>5. ASSUME NEW n \in 1..depth
        PROVE  reach[n] = {e.to : e \in {x \in edges : x.rel \in rels /\ x.from \in reach[n - 1]}}
    <3>1. n \in 0..depth /\ n # 0
      OBVIOUS
    <3> QED BY <2>3, <3>1
  <2> QED BY <2>4, <2>5
<1>4. /\ end[0] = {seed}
      /\ \A n \in 1..p : end[n] = {e.to : e \in {x \in edges : x.rel = path[n] /\ x.from \in end[n - 1]}}
  <2>1. PICK w : IsWalk(edges, seed, [n \in 1..p |-> {path[n]}], p, w)
    BY WalkExists
  <2> DEFINE next(n) == IF n = 0 THEN {seed}
                        ELSE {e.to : e \in {x \in edges : x.rel = path[n] /\ x.from \in w[n - 1]}}
  <2>6. w = [n \in 0..p |-> w[n]] /\ \A n \in 0..p : w[n] = next(n)
    <3>1. w = [n \in 0..p |-> w[n]]
      BY <2>1 DEF IsWalk
    <3>2. ASSUME NEW n \in 0..p
          PROVE  w[n] = next(n)
      <4>1. CASE n = 0
        BY <2>1, <4>1 DEF IsWalk
      <4>2. CASE n # 0
        <5>1. [i \in 1..p |-> {path[i]}][n] = {path[n]}
          BY <4>2
        <5>2. w[n] = {e.to : e \in {x \in edges : x.rel \in [i \in 1..p |-> {path[i]}][n] /\ x.from \in w[n - 1]}}
          BY <2>1, <4>2 DEF IsWalk
        <5>3. w[n] = {e.to : e \in {x \in edges : x.rel \in {path[n]} /\ x.from \in w[n - 1]}}
          BY <5>1, <5>2
        <5>4. \A x : x.rel \in {path[n]} <=> x.rel = path[n]
          OBVIOUS
        <5> QED BY <4>2, <5>3, <5>4
      <4> QED BY <4>1, <4>2
    <3> QED BY <3>1, <3>2
  <2>2. w = [n \in 0..Len(path) |-> IF n = 0 THEN {seed}
               ELSE {e.to : e \in {x \in edges : x.rel = path[n] /\ x.from \in w[n - 1]}}]
    <3>1. w = [n \in 0..p |-> next(n)]
      <4> HIDE DEF next
      <4> QED BY <2>6
    <3> QED BY <1>1, <3>1
  <2>3. end = [n \in 0..Len(path) |-> IF n = 0 THEN {seed}
                 ELSE {e.to : e \in {x \in edges : x.rel = path[n] /\ x.from \in end[n - 1]}}]
    BY <2>2
  <2> HIDE DEF end
  <2>4. end[0] = {seed}
    BY <1>1, <2>3
  <2>5. ASSUME NEW n \in 1..p
        PROVE  end[n] = {e.to : e \in {x \in edges : x.rel = path[n] /\ x.from \in end[n - 1]}}
    <3>1. n \in 0..Len(path) /\ n # 0
      BY <1>1
    <3> QED BY <2>3, <3>1
  <2> QED BY <2>4, <2>5
<1>5. Knowledge!Reachable(edges, seed, rels, depth) = UNION {reach[n] : n \in 1..depth}
  <2>1. rels # {}
    BY <1>1, <1>2
  <2> QED BY <2>1 DEF Knowledge!Reachable
<1>6. end[Len(path)] \subseteq Knowledge!Reachable(edges, seed, rels, depth)
        => Knowledge!PathFollowed(edges, seed, path, depth)
  <2>1. \A answer \in Knowledge!Traverse(edges, seed, rels, depth) :
          \/ answer = Knowledge!Reachable(edges, seed, rels, depth)
          \/ Knowledge!Cardinality(answer) = TraverseLimit
    BY DEF Knowledge!Traverse, Knowledge!kSubset
  <2> QED BY <2>1 DEF Knowledge!PathFollowed, rels
<1> HIDE DEF reach, end
<1>7. \A k \in 0..p : end[k] \subseteq reach[k]
  <2> DEFINE B == {k \in 0..p : ~ end[k] \subseteq reach[k]}
  <2>1. SUFFICES ASSUME B # {} PROVE FALSE
    OBVIOUS
  <2>2. PICK k \in B : \A m \in B : k <= m
    <3>1. B \in SUBSET Nat
      OBVIOUS
    <3> HIDE DEF B
    <3> QED BY <2>1, <3>1, LeastNat
  <2>3. k # 0
    BY <1>3, <1>4
  <2>4. k \in 1..p /\ k \in 1..depth /\ k - 1 \in 0..p /\ k - 1 \notin B
    BY <1>1, <2>2, <2>3
  <2>5. end[k - 1] \subseteq reach[k - 1]
    BY <2>4
  <2>6. end[k] \subseteq reach[k]
    BY <1>2, <1>3, <1>4, <2>4, <2>5
  <2> QED BY <2>6
<1>8. end[p] \subseteq reach[p] /\ p \in 1..depth
  BY <1>1, <1>7
<1> QED BY <1>1, <1>5, <1>6, <1>8

-----------------------------------------------------------------------------
(* The report of a shift and the failure modes.                            *)

\* A trail of rows with whole times.
Timed(trail) == (\E T : trail \in Seq(T)) /\ \A k \in DOMAIN trail : trail[k].at \in Int

\* The reports of two shifts, one after the other, cover every event of the
\* audit trail between them, and count twice only what fell on the change of
\* shift, for a trail of any length (HandoverComplete).
THEOREM HandoverIsComplete ==
  ASSUME NEW trail, Timed(trail), NEW from \in Int, NEW mid \in Int, NEW to \in Int, from <= mid, mid <= to
  PROVE  Knowledge!HandoverComplete(trail, from, mid, to)
<1> DEFINE W(low, high) == Knowledge!FetchWindow(trail, low, high)
           K(type, low, high) == {k \in W(low, high) : trail[k].type = type}
<1>1. \A k \in DOMAIN trail : trail[k].at \in Int
  BY DEF Timed
<1>2. /\ W(from, mid) \cup W(mid, to) = W(from, to)
      /\ W(from, mid) \cap W(mid, to) = W(mid, mid)
  BY <1>1 DEF Knowledge!FetchWindow
<1>3. \A low, high : IsFiniteSet(W(low, high))
  <2>1. PICK T : trail \in Seq(T)
    BY DEF Timed
  <2>2. DOMAIN trail = 1..Len(trail) /\ Len(trail) \in Nat
    BY <2>1
  <2>3. 1 \in Int /\ Len(trail) \in Int
    BY <2>2
  <2>4. IsFiniteSet(1..Len(trail))
    BY <2>3, FS_Interval, ZenonT(40)
  <2>5. \A low, high : W(low, high) \in SUBSET (1..Len(trail))
    BY <2>2 DEF Knowledge!FetchWindow
  <2> HIDE DEF W
  <2> QED BY <2>4, <2>5, FS_Subset
<1> HIDE DEF W
<1>4. ASSUME NEW type
      PROVE  Knowledge!CountOf(trail, W(from, mid), type) + Knowledge!CountOf(trail, W(mid, to), type)
               = Knowledge!CountOf(trail, W(from, to), type) + Knowledge!CountOf(trail, W(mid, mid), type)
  <2>1. \A low, high : IsFiniteSet(K(type, low, high))
    BY <1>3, FS_Subset
  <2>2. \A low, high : Knowledge!CountOf(trail, W(low, high), type) = Cardinality(K(type, low, high))
    BY KnowledgeSizes DEF Knowledge!CountOf
  <2>3. /\ K(type, from, mid) \cup K(type, mid, to) = K(type, from, to)
        /\ K(type, from, mid) \cap K(type, mid, to) = K(type, mid, mid)
    BY <1>2
  <2> HIDE DEF K
  <2>4. Cardinality(K(type, from, to)) = Cardinality(K(type, from, mid)) + Cardinality(K(type, mid, to))
                                           - Cardinality(K(type, mid, mid))
    BY <2>1, <2>3, FS_Union
  <2>5. PICK a \in Nat, b \in Nat, c \in Nat, d \in Nat :
          /\ a = Cardinality(K(type, from, mid)) /\ b = Cardinality(K(type, mid, to))
          /\ c = Cardinality(K(type, from, to)) /\ d = Cardinality(K(type, mid, mid))
    BY <2>1, FS_CardinalityType
  <2> QED BY <2>2, <2>4, <2>5
<1>5. \A low, high :
        /\ Knowledge!BuildReport(trail, low, high).open_alerts = Knowledge!CountOf(trail, W(low, high), "ANOMALY_ALERT")
        /\ Knowledge!BuildReport(trail, low, high).quality_events = Knowledge!CountOf(trail, W(low, high), "QUALITY_VERDICT")
  BY DEF Knowledge!BuildReport, W
<1>6. Knowledge!FetchWindow(trail, mid, mid) = W(mid, mid)
  BY DEF W
<1> QED BY <1>4, <1>5, <1>6 DEF Knowledge!HandoverComplete

LEMMA CatalogueSizes ==
  ASSUME NEW X
  PROVE  Catalogues!Cardinality(X) = Cardinality(X)
BY DEF Catalogues!Cardinality, Cardinality

\* A further SOP, readable or not, never makes the check of the failure modes
\* fail, for any catalogue, any SOPs and any number of orphans allowed
\* (CorpusMayGrow).
THEOREM CorpusCanGrow ==
  ASSUME NEW M, NEW modes \in Seq(M), NEW T, NEW corpus \in Seq(T), NEW more, NEW long
  PROVE  Catalogues!CorpusMayGrow(modes, corpus, more, long)
<1> DEFINE new == Append(corpus, more)
           Orphans(files) == {k \in DOMAIN modes : ~ Catalogues!Referenced(modes[k], Catalogues!Checked(files), long)}
<1>1. Catalogues!ToSet(corpus) \subseteq Catalogues!ToSet(new)
  <2>1. corpus \in Seq(T \cup {more}) /\ more \in T \cup {more}
    OBVIOUS
  <2>2. DOMAIN corpus \subseteq DOMAIN new /\ \A k \in DOMAIN corpus : new[k] = corpus[k]
    BY <2>1
  <2> HIDE DEF new
  <2> QED BY <2>2 DEF Catalogues!ToSet
<1> HIDE DEF new
<1>2. Catalogues!Checked(corpus) \subseteq Catalogues!Checked(new)
  BY <1>1 DEF Catalogues!Checked
<1>3. Orphans(new) \subseteq Orphans(corpus)
  BY <1>2 DEF Catalogues!Referenced
<1>4. /\ IsFiniteSet(Orphans(corpus)) /\ Cardinality(Orphans(new)) <= Cardinality(Orphans(corpus))
      /\ Cardinality(Orphans(new)) \in Nat /\ Cardinality(Orphans(corpus)) \in Nat
  <2>1. DOMAIN modes = 1..Len(modes) /\ 1 \in Int /\ Len(modes) \in Int
    OBVIOUS
  <2>2. IsFiniteSet(1..Len(modes))
    BY <2>1, FS_Interval, ZenonT(40)
  <2>3. Orphans(corpus) \in SUBSET (1..Len(modes))
    BY <2>1
  <2> HIDE DEF Orphans
  <2>4. IsFiniteSet(Orphans(corpus))
    BY <2>2, <2>3, FS_Subset
  <2> QED BY <1>3, <2>4, FS_Subset, FS_CardinalityType
<1>5. Catalogues!SopsResolve(modes, corpus) => Catalogues!SopsResolve(modes, new)
  BY <1>1 DEF Catalogues!SopsResolve
<1>6. ASSUME NEW allowed \in 0..Len(modes), NEW strict \in BOOLEAN,
             Catalogues!ModesHold(modes, corpus, allowed, strict, long)
      PROVE  Catalogues!ModesHold(modes, new, allowed, strict, long)
  <2>1. /\ Catalogues!Checked(corpus) # {} /\ Catalogues!Cardinality(Orphans(corpus)) <= allowed
        /\ Catalogues!CodesUnique(modes) /\ (strict => Catalogues!SopsResolve(modes, corpus))
    BY <1>6 DEF Catalogues!ModesHold
  <2>2. Catalogues!Cardinality(Orphans(new)) <= allowed
    <3> HIDE DEF Orphans
    <3>1. Cardinality(Orphans(corpus)) <= allowed
      BY <2>1, CatalogueSizes
    <3>2. allowed \in Int
      OBVIOUS
    <3>3. Cardinality(Orphans(new)) <= allowed
      BY <1>4, <3>1, <3>2
    <3> QED BY <3>3, CatalogueSizes
  <2>3. Catalogues!Checked(new) # {}
    BY <1>2, <2>1
  <2> QED BY <1>5, <2>1, <2>2, <2>3 DEF Catalogues!ModesHold
<1> QED BY <1>6 DEF Catalogues!CorpusMayGrow, new

-----------------------------------------------------------------------------
(* Every judgement of the agents, for every input of its calculation.      *)

Sequence(s) == \E T : s \in Seq(T)
DiscountCurve(curve) == curve \in [0..100 -> Int] /\ Rising(curve)

\* The inputs of the calculations as the agents and the scripts get them:
\* whole figures, finite tables, lists of any length.
MeasuresTyped ==
  /\ case.is = "rate" => Banded(case.baseline) /\ case.values \in SUBSET Int
  /\ case.is = "grade" => \A d \in DOMAIN case.modes : case.modes[d] \in Grades!Range(Grades!Tiers)
  /\ case.is = "intercept" => \E T : case.rules \in SUBSET (Seq(T) \ {<<>>}) /\ case.action.subject \in Seq(T)
  /\ case.is = "predict" => case.raws \in SUBSET Int
TextsTyped ==
  /\ case.is = "ask" => Sequence(case.messages)
  /\ case.is = "synthesize" =>
       /\ \A key \in Knowledge!Sections : case.raw[key] \in SUBSET Nat /\ IsFiniteSet(case.raw[key])
       /\ Sequence(case.sources)
  /\ case.is = "quiz" => Sequence(case.questions) /\ Sequence(case.answers)
  /\ case.is = "chain" => Sequence(case.attempts)
  /\ case.is = "curate" =>
       /\ \E Hash, Type : case.doc \in [hash : Hash, type : Type, age : Int]
       /\ case.near \in Int /\ case.days \in Nat /\ case.nearer \in Nat
  /\ case.is = "walk" => Sequence(case.path) /\ case.depth \in Nat
  /\ case.is = "handover" => Timed(case.rows)
FiguresTyped ==
  /\ case.is = "reorder" => Stocked(case.levels) /\ \A s \in DOMAIN case.master : case.master[s].point \in Int
  /\ case.is = "costs" => /\ Countable(case.rows)
                          /\ case.from \in Int /\ case.middle \in Int /\ case.to \in Int
                          /\ case.from <= case.middle /\ case.middle <= case.to
  /\ case.is = "score" => /\ case.r \in Int /\ DiscountCurve(case.curve)
                          /\ case.c \in [technical : Int, economic : Nat, base : Int, threshold : Int]
CataloguesTyped ==
  /\ case.is = "modes" => Sequence(case.modes) /\ Sequence(case.corpus)
  /\ case.is = "assets" => Sequence(case.assets)
  /\ case.is = "glossary" => DOMAIN case.glossaries = Catalogues!Languages
  /\ case.is = "register" => \A n \in case.infra : n.prefix = "none"
Judgeable == MeasuresTyped /\ TextsTyped /\ FiguresTyped /\ CataloguesTyped

\* Whatever the input of a calculation is (a baseline and readings, a stock, a
\* trail, a quiz, an asset registry of any size), the judgement made of it is
\* the one JudgementsHold promises.
THEOREM JudgementsAreSound ==
  ASSUME NearPercent \in Int, Judgeable
  PROVE  JudgementsHold
<1>1. FurtherIsWorse /\ TierNeverLowered /\ EstimateInBand
  BY FurtherOutIsWorse, TierIsNeverLowered, EstimateIsInBand
  DEF Judgeable, MeasuresTyped, FurtherIsWorse, TierNeverLowered, EstimateInBand
<1>2. InterlockAsBroker
  BY InterlockIsAsBroker DEF Judgeable, MeasuresTyped, InterlockAsBroker
<1>3. AmbiguityDeferred
  BY AmbiguityIsDeferred DEF AmbiguityDeferred
<1>4. SourcesShown
  BY SourcesAreShown DEF Judgeable, TextsTyped, Sequence, SourcesShown
<1>5. CitationsHold
  BY CitationsAreHeld DEF Judgeable, TextsTyped, Sequence, CitationsHold
<1>6. SilenceNeverPays
  BY SilenceIsNeverPaid DEF Judgeable, TextsTyped, Sequence, SilenceNeverPays
<1>7. ValidChainShown
  BY ValidChainIsShown DEF Judgeable, TextsTyped, Sequence, ValidChainShown
<1>8. CurationSteady
  BY CurationIsSteady DEF Judgeable, TextsTyped, CurationSteady
<1>9. PathFollowed
  BY PathIsFollowed DEF Judgeable, TextsTyped, Sequence, PathFollowed
<1>10. DraftIsShort
  BY DraftIsOfShortGoods DEF Judgeable, FiguresTyped, DraftIsShort
<1>11. WindowsAddUp
  BY CostsAddUp DEF Judgeable, FiguresTyped, WindowsAddUp
<1>12. OepvConsistent
  BY OepvIsConsistent DEF Judgeable, FiguresTyped, DiscountCurve, OepvConsistent
<1>13. RegistryResolves
  BY RegistryIsResolved DEF Judgeable, CataloguesTyped, Sequence, RegistryResolves
<1>14. StaleDroppable
  BY StaleTermsMayGo DEF Judgeable, CataloguesTyped, StaleDroppable
<1>15. RetiredNoticed
  <2>1. Project("svc", "x").prefix # "none"
    BY DEF Project
  <2> QED BY <2>1, RetiredIsNoticed DEF Judgeable, CataloguesTyped, RetiredNoticed
<1>16. HandoverComplete
  <2>1. 1 \in Int /\ 2 \in Int /\ 3 \in Int /\ 1 <= 2 /\ 2 <= 3
    OBVIOUS
  <2> QED BY <2>1, HandoverIsComplete DEF Judgeable, TextsTyped, HandoverComplete
<1>17. CorpusMayGrow
  BY CorpusCanGrow DEF Judgeable, CataloguesTyped, Sequence, CorpusMayGrow
<1> QED BY <1>1, <1>2, <1>3, <1>4, <1>5, <1>6, <1>7, <1>8, <1>9, <1>10, <1>11, <1>12, <1>13, <1>14, <1>15,
           <1>16, <1>17 DEF JudgementsHold

-----------------------------------------------------------------------------
(* The inputs that the runs take are among them.                           *)

LEMMA ShortSequences ==
  ASSUME NEW X, NEW n \in Nat, NEW s \in SeqsUpTo(X, n)
  PROVE  s \in Seq(X)
<1>1. PICK k \in 0..n : s \in [1..k -> X]
  BY DEF SeqsUpTo
<1> QED BY <1>1

LEMMA ListsAreSequences ==
  ASSUME NEW n \in Nat, NEW s, s = [k \in 1..n |-> s[k]]
  PROVE  Sequence(s)
<1> DEFINE T == {s[k] : k \in 1..n}
<1>1. s \in [1..n -> T]
  OBVIOUS
<1>2. s \in Seq(T)
  <2> HIDE DEF T
  <2> QED BY <1>1
<1> QED BY <1>2 DEF Sequence

\* The calculations that no judgement above is about.
LEMMA OthersTyped ==
  ASSUME case'.is \in {"none", "plan", "lot", "energy", "demand", "search", "route", "corpus", "terms"}
  PROVE  Judgeable'
<1>1. case'.is \notin {"rate", "grade", "intercept", "predict"} /\ case'.is \notin {"reorder", "costs", "score"}
  OBVIOUS
<1>2. /\ case'.is \notin {"ask", "synthesize", "quiz", "chain", "curate", "walk", "handover"}
      /\ case'.is \notin {"modes", "assets", "glossary", "register"}
  OBVIOUS
<1> QED BY <1>1, <1>2 DEF Judgeable, MeasuresTyped, TextsTyped, FiguresTyped, CataloguesTyped

LEMMA MeasuresStayTyped ==
  ASSUME Rate \/ Grade \/ Intercept \/ Predict
  PROVE  Judgeable'
<1>1. CASE Rate
  <2>1. PICK b \in Baselines : case' = [is |-> "rate", baseline |-> b, values |-> -4..5]
    BY <1>1 DEF Rate
  <2>2. Banded(b)
    <3>1. b.low = 0 /\ b.high = 1 /\ b.thresholds \in UNION {[T -> 1..3] : T \in SUBSET Sev}
      BY <2>1, SeverityRanks DEF Baselines
    <3>2. PICK T \in SUBSET Sev : b.thresholds \in [T -> 1..3]
      BY <3>1
    <3> QED BY <3>1, <3>2 DEF Banded
  <2>3. case'.is = "rate" /\ case'.baseline = b /\ case'.values = -4..5
    BY <2>1
  <2> QED BY <2>2, <2>3 DEF Judgeable, MeasuresTyped, TextsTyped, FiguresTyped, CataloguesTyped
<1>2. CASE Grade
  <2>1. PICK modes \in [{"hole"} -> Grades!Range(Grades!Tiers)] : case'.is = "grade" /\ case'.modes = modes
    BY <1>2 DEF Grade
  <2>2. \A d \in DOMAIN case'.modes : case'.modes[d] \in Grades!Range(Grades!Tiers)
    BY <2>1
  <2> QED BY <2>1, <2>2 DEF Judgeable, MeasuresTyped, TextsTyped, FiguresTyped, CataloguesTyped
<1>3. CASE Intercept
  <2>1. PICK one \in Rules, two \in Rules, subject \in SeqsUpTo({"a", "b"}, 3) :
          case'.is = "intercept" /\ case'.rules = {one, two} /\ case'.action.subject = subject
    BY <1>3 DEF Intercept
  <2> DEFINE T == {"a", "b", ">", "*"}
  <2>2. \A r \in Rules : r \in Seq(T) \ {<<>>}
    BY ShortSequences DEF Rules
  <2>3. subject \in Seq({"a", "b"})
    BY ShortSequences
  <2>4. subject \in Seq(T)
    BY <2>3
  <2>5. case'.rules \in SUBSET (Seq(T) \ {<<>>}) /\ case'.action.subject \in Seq(T)
    BY <2>1, <2>2, <2>4
  <2> HIDE DEF T
  <2> QED BY <2>1, <2>5 DEF Judgeable, MeasuresTyped, TextsTyped, FiguresTyped, CataloguesTyped
<1>4. CASE Predict
  <2>1. PICK low \in {-9, 0, 37, 124} : case' = [is |-> "predict", raws |-> low..(low + 9)]
    BY <1>4 DEF Predict
  <2>2. case'.is = "predict" /\ case'.raws = low..(low + 9)
    BY <2>1
  <2>3. case'.raws \in SUBSET Int
    BY <2>2
  <2> QED BY <2>2, <2>3 DEF Judgeable, MeasuresTyped, TextsTyped, FiguresTyped, CataloguesTyped
<1> QED BY <1>1, <1>2, <1>3, <1>4

LEMMA TextsStayTyped ==
  ASSUME Ask \/ Synthesize \/ Quiz \/ Attempt \/ Curate \/ Walk \/ Handover
  PROVE  Judgeable'
<1>1. CASE Ask
  <2>1. PICK messages \in SeqsUpTo(MessageKinds, 2) :
          case'.is = "ask" /\ case'.messages = IF messages = << >> THEN Runtime!TooDeep ELSE <<Query>> \o messages
    BY <1>1 DEF Ask
  <2>2. messages \in Seq(MessageKinds)
    BY <2>1, ShortSequences
  <2>3. messages \in Seq({Query} \cup MessageKinds) /\ <<Query>> \in Seq({Query} \cup MessageKinds)
    BY <2>2
  <2>4. <<Query>> \o messages \in Seq({Query} \cup MessageKinds)
    BY <2>3, ConcatProperties
  <2>5. Runtime!TooDeep \in Seq({Query} \cup MessageKinds)
    BY DEF Runtime!TooDeep
  <2>6. Sequence(case'.messages)
    BY <2>1, <2>4, <2>5 DEF Sequence
  <2> QED BY <2>1, <2>6 DEF Judgeable, MeasuresTyped, TextsTyped, FiguresTyped, CataloguesTyped
<1>2. CASE Synthesize
  <2> DEFINE three == <<"d1", "d2", "d3">>
  <2>1. PICK passi \in Marks, sicurezza \in Marks, n \in 0..3 :
          /\ case'.is = "synthesize" /\ case'.sources = SubSeq(three, 1, n)
          /\ case'.raw = [key \in Knowledge!Sections |-> IF key = "Passi" THEN passi
                                             ELSE IF key = "Sicurezza" THEN sicurezza ELSE {}]
    BY <1>2 DEF Synthesize
  <2>2. \A m \in Marks \cup {{}} : m \in SUBSET Nat /\ IsFiniteSet(m)
    <3> SUFFICES ASSUME NEW m \in Marks \cup {{}} PROVE m \in SUBSET Nat /\ IsFiniteSet(m)
      OBVIOUS
    <3>1. m \in SUBSET (0..3)
      BY DEF Marks, Knowledge!Missing
    <3>2. IsFiniteSet(0..3)
      <4>1. 0 \in Int /\ 3 \in Int
        OBVIOUS
      <4> QED BY <4>1, FS_Interval, Zenon
    <3>3. IsFiniteSet(m)
      BY <3>1, <3>2, FS_Subset, Zenon
    <3> QED BY <3>1, <3>3
  <2>3. \A key \in Knowledge!Sections : case'.raw[key] \in Marks \cup {{}}
    BY <2>1
  <2>4. three \in Seq({"d1", "d2", "d3"}) /\ Len(three) = 3
    OBVIOUS
  <2>5. SubSeq(three, 1, n) \in Seq({"d1", "d2", "d3"})
    BY <2>4
  <2>6. Sequence(case'.sources)
    BY <2>1, <2>5 DEF Sequence
  <2> QED BY <2>1, <2>2, <2>3, <2>6 DEF Judgeable, MeasuresTyped, TextsTyped, FiguresTyped, CataloguesTyped
<1>3. CASE Quiz
  <2> DEFINE Q == [right : {0, 1}, difficulty : {"medium"}]
  <2>1. PICK questions \in Quizzes, answers \in SeqsUpTo({0, 1}, 6) :
          case'.is = "quiz" /\ case'.questions = questions /\ case'.answers = answers
    BY <1>3 DEF Quiz
  <2>2. Sequence(answers)
    BY <2>1, ShortSequences DEF Sequence
  <2>3. ASSUME NEW n \in 0..5
        PROVE  Sequence(Knowledge!FallbackQuestions(n))
    <3> DEFINE s == Knowledge!FallbackQuestions(n)
    <3>1. s = [k \in 1..n |-> s[k]]
      BY DEF Knowledge!FallbackQuestions
    <3> HIDE DEF s
    <3> QED BY <3>1, ListsAreSequences DEF s
  <2>4. Sequence(questions)
    <3>1. CASE questions \in SeqsUpTo(Q, 2)
      BY <3>1, ShortSequences DEF Sequence
    <3>2. CASE \E n \in 0..5 : questions = Knowledge!FallbackQuestions(n)
      BY <2>3, <3>2
    <3> QED BY <2>1, <3>1, <3>2 DEF Quizzes
  <2> QED BY <2>1, <2>2, <2>4 DEF Judgeable, MeasuresTyped, TextsTyped, FiguresTyped, CataloguesTyped
<1>4. CASE Attempt
  <2>1. PICK attempts \in UNION {[1..n -> {"text", "shape", "uncited", "valid"}] : n \in {3, 4}} :
          case'.is = "chain" /\ case'.attempts = attempts
    BY <1>4 DEF Attempt
  <2>2. attempts \in Seq({"text", "shape", "uncited", "valid"})
    <3>1. PICK n \in {3, 4} : attempts \in [1..n -> {"text", "shape", "uncited", "valid"}]
      BY <2>1
    <3> QED BY <3>1
  <2>3. Sequence(case'.attempts)
    BY <2>1, <2>2 DEF Sequence
  <2> QED BY <2>1, <2>3 DEF Judgeable, MeasuresTyped, TextsTyped, FiguresTyped, CataloguesTyped
<1>5. CASE Curate
  <2> DEFINE Hash == {"h1", "h2"}
             Type == {"sop", "runbook", "memo"}
  <2>1. PICK hash \in Hash, type \in Type, age \in {90, 91, 180, 181, 365, 366},
             near \in {Knowledge!NoNear, 91, 92}, days \in {0, 1, 200}, nearer \in {0, 1} :
          case' = [is |-> "curate", doc |-> [hash |-> hash, type |-> type, age |-> age], known |-> {"h1"},
                   near |-> near, days |-> days, nearer |-> nearer]
    <3> HIDE DEF Hash, Type
    <3> QED BY <1>5 DEF Curate, Hash, Type
  <2>2. /\ case'.is = "curate" /\ case'.doc = [hash |-> hash, type |-> type, age |-> age]
        /\ case'.near = near /\ case'.days = days /\ case'.nearer = nearer
    BY <2>1
  <2>3. near \in Int /\ days \in Nat /\ nearer \in Nat /\ age \in Int
    BY <2>1 DEF Knowledge!NoNear
  <2>4. \E H, K : case'.doc \in [hash : H, type : K, age : Int]
    <3>1. case'.doc \in [hash : Hash, type : Type, age : Int]
      BY <2>2, <2>3
    <3> QED BY <3>1
  <2> QED BY <2>2, <2>3, <2>4 DEF Judgeable, MeasuresTyped, TextsTyped, FiguresTyped, CataloguesTyped
<1>6. CASE Walk
  <2>1. PICK path \in SeqsUpTo({"part", "uses"}, 2), depth \in 1..3 :
          case'.is = "walk" /\ case'.path = path /\ case'.depth = depth
    BY <1>6 DEF Walk
  <2>2. Sequence(case'.path) /\ case'.depth \in Nat
    BY <2>1, ShortSequences DEF Sequence
  <2> QED BY <2>1, <2>2 DEF Judgeable, MeasuresTyped, TextsTyped, FiguresTyped, CataloguesTyped
<1>7. CASE Handover
  <2>1. PICK one \in Rows, two \in Rows, three \in Rows : case'.is = "handover" /\ case'.rows = <<one, two, three>>
    BY <1>7 DEF Handover
  <2>2. \A r \in Rows : r.at \in Int
    BY DEF Rows
  <2>3. <<one, two, three>> \in Seq(Rows)
    OBVIOUS
  <2>4. DOMAIN <<one, two, three>> = 1..3 /\ \A k \in 1..3 : <<one, two, three>>[k] \in Rows
    OBVIOUS
  <2>5. Timed(<<one, two, three>>)
    BY <2>2, <2>3, <2>4 DEF Timed
  <2> QED BY <2>1, <2>5 DEF Judgeable, MeasuresTyped, TextsTyped, FiguresTyped, CataloguesTyped
<1> QED BY <1>1, <1>2, <1>3, <1>4, <1>5, <1>6, <1>7

LEMMA FiguresStayTyped ==
  ASSUME Reorder \/ Costs \/ Score
  PROVE  Judgeable'
<1>1. CASE Reorder
  <2>1. PICK qty \in [(1..3) \X (1..2) -> -1..2], master \in Masters :
          /\ case'.is = "reorder" /\ case'.master = master
          /\ case'.levels = {[sku |-> x[1], ts |-> x[2], qty |-> qty[x]] : x \in {y \in DOMAIN qty : qty[y] >= 0}}
    BY <1>1 DEF Reorder
  <2> DEFINE X == {y \in (1..3) \X (1..2) : qty[y] >= 0}
             level(x) == [sku |-> x[1], ts |-> x[2], qty |-> qty[x]]
  <2>2. IsFiniteSet(X)
    <3>1. IsFiniteSet(1..3) /\ IsFiniteSet(1..2)
      <4>1. 1 \in Int /\ 2 \in Int /\ 3 \in Int
        OBVIOUS
      <4> QED BY <4>1, FS_Interval, Zenon
    <3>2. IsFiniteSet((1..3) \X (1..2))
      BY <3>1, FS_Product
    <3> QED BY <3>2, FS_Subset
  <2>3. case'.levels = {level(x) : x \in X}
    BY <2>1
  <2>4. IsFiniteSet({level(x) : x \in X})
    <3> DEFINE f == [x \in X |-> level(x)]
    <3>1. f \in Surjection(X, {level(x) : x \in X})
      BY DEF Surjection
    <3> HIDE DEF X, level, f
    <3> QED BY <2>2, <3>1, FS_Surjection
  <2>5. \A x \in X : /\ level(x).sku = x[1] /\ level(x).ts = x[2] /\ level(x).qty = qty[x]
                     /\ x[1] \in 1..3 /\ x[2] \in 1..2 /\ x = <<x[1], x[2]>> /\ qty[x] \in Int
    BY <2>1
  <2>6. Stocked(case'.levels)
    <3> HIDE DEF X, level
    <3> QED BY <2>3, <2>4, <2>5 DEF Stocked
  <2>7. \A s \in DOMAIN case'.master : case'.master[s].point \in Int
    BY <2>1 DEF Masters
  <2> QED BY <2>1, <2>6, <2>7 DEF Judgeable, MeasuresTyped, TextsTyped, FiguresTyped, CataloguesTyped
<1>2. CASE Costs
  <2>1. PICK one \in CostRows, two \in CostRows, from \in 0..1, middle \in 1..2, to \in 2..3 :
          case' = [is |-> "costs", rows |-> {one, two}, from |-> from, middle |-> middle, to |-> to]
    BY <1>2 DEF Costs
  <2>2. case'.is = "costs" /\ case'.rows = {one, two} /\ case'.from = from /\ case'.middle = middle /\ case'.to = to
    BY <2>1
  <2>3. \A r \in CostRows : r.ts \in Int /\ \A name \in DOMAIN r.result : r.result[name] \in Nat
    BY DEF CostRows, Only
  <2>4. IsFiniteSet({one, two})
    <3>1. IsFiniteSet({}) /\ IsFiniteSet({} \cup {one}) /\ IsFiniteSet(({} \cup {one}) \cup {two})
      BY FS_EmptySet, FS_AddElement
    <3>2. ({} \cup {one}) \cup {two} = {one, two}
      OBVIOUS
    <3> QED BY <3>1, <3>2
  <2>5. Countable(case'.rows)
    BY <2>2, <2>3, <2>4 DEF Countable
  <2>6. from \in Int /\ middle \in Int /\ to \in Int /\ from <= middle /\ middle <= to
    BY <2>1
  <2> QED BY <2>2, <2>5, <2>6 DEF Judgeable, MeasuresTyped, TextsTyped, FiguresTyped, CataloguesTyped
<1>3. CASE Score
  <2>1. PICK r \in -1..101, curve \in Curves :
          /\ case'.is = "score" /\ case'.r = r /\ case'.curve = curve
          /\ case'.c = [technical |-> 7, economic |-> 3, base |-> 10, threshold |-> 20]
    BY <1>3 DEF Score
  <2>2. DiscountCurve(curve)
    <3>1. CASE curve = [x \in 0..100 |-> (70 * x) \div 100]
      BY <3>1 DEF DiscountCurve, Rising
    <3>2. CASE curve = [x \in 0..100 |-> IF x >= 40 THEN 70 ELSE (7 * x) \div 4]
      BY <3>2 DEF DiscountCurve, Rising
    <3> QED BY <2>1, <3>1, <3>2 DEF Curves
  <2>3. case'.r \in Int /\ case'.c \in [technical : Int, economic : Nat, base : Int, threshold : Int]
    BY <2>1
  <2> QED BY <2>1, <2>2, <2>3 DEF Judgeable, MeasuresTyped, TextsTyped, FiguresTyped, CataloguesTyped
<1> QED BY <1>1, <1>2, <1>3

LEMMA CataloguesStayTyped ==
  ASSUME CheckModes \/ CheckAssets \/ CheckGlossary \/ CheckRegister
  PROVE  Judgeable'
<1>1. CASE CheckAssets
  <2>1. PICK assets \in SeqsUpTo([id : {1, 2}, family : {"loom"}, tags : SUBSET TagKinds], 2) :
          case'.is = "assets" /\ case'.assets = assets
    BY <1>1 DEF CheckAssets
  <2>2. Sequence(case'.assets)
    BY <2>1, ShortSequences DEF Sequence
  <2> QED BY <2>1, <2>2 DEF Judgeable, MeasuresTyped, TextsTyped, FiguresTyped, CataloguesTyped
<1>2. CASE CheckGlossary
  <2>1. case'.is = "glossary" /\ DOMAIN case'.glossaries = Catalogues!Languages
    BY <1>2 DEF CheckGlossary
  <2> QED BY <2>1 DEF Judgeable, MeasuresTyped, TextsTyped, FiguresTyped, CataloguesTyped
<1>3. CASE CheckRegister
  <2>1. PICK infra \in {{}, {Project("none", "x")}} : case'.is = "register" /\ case'.infra = infra
    BY <1>3 DEF CheckRegister
  <2>2. \A n \in case'.infra : n.prefix = "none"
    BY <2>1 DEF Project
  <2> QED BY <2>1, <2>2 DEF Judgeable, MeasuresTyped, TextsTyped, FiguresTyped, CataloguesTyped
<1>4. CASE CheckModes
  <2>1. PICK sop \in Tagged, modes \in [1..2 -> Modes] :
          case'.is = "modes" /\ case'.corpus = <<sop>> /\ case'.modes = modes
    BY <1>4 DEF CheckModes
  <2>2. Sequence(case'.modes)
    <3>1. modes \in Seq(Modes)
      <4>1. 2 \in Nat
        OBVIOUS
      <4> QED BY <4>1, SeqDef
    <3> QED BY <2>1, <3>1 DEF Sequence
  <2>3. Sequence(case'.corpus)
    <3>1. <<sop>> \in Seq(Tagged)
      OBVIOUS
    <3> QED BY <2>1, <3>1 DEF Sequence
  <2> QED BY <2>1, <2>2, <2>3 DEF Judgeable, MeasuresTyped, TextsTyped, FiguresTyped, CataloguesTyped
<1> QED BY <1>1, <1>2, <1>3, <1>4

\* So every calculation of the runs ends in a judgement that holds, for any
\* limits of the knowledge agents.
THEOREM JudgementsAlwaysHold ==
  ASSUME NearPercent \in Int
  PROVE  CalculationsSpec => []JudgementsHold
<1>1. CalculationsInit => Judgeable
  BY DEF CalculationsInit, NoCase, Judgeable, MeasuresTyped, TextsTyped, FiguresTyped, CataloguesTyped
<1>2. Judgeable /\ [CalculationsNext]_case => Judgeable'
  <2> SUFFICES ASSUME Judgeable, [CalculationsNext]_case
               PROVE  Judgeable'
    OBVIOUS
  <2>1. CASE UNCHANGED case
    BY <2>1 DEF Judgeable, MeasuresTyped, TextsTyped, FiguresTyped, CataloguesTyped
  <2>2. CASE \E strategy \in {"spt", "edd"} : Plan(strategy) \/ PlanOneLot(strategy)
    <3>1. PICK strategy : Plan(strategy) \/ PlanOneLot(strategy)
      BY <2>2
    <3>2. Plan(strategy) => case'.is = "plan"
      BY DEF Plan
    <3>3. ASSUME PlanOneLot(strategy)
          PROVE  case'.is = "lot"
      <4>1. PICK kinds, horizon :
              case' = [is |-> "lot", strategy |-> strategy, orders |-> Orders(kinds), capacity |-> Plants[3],
                       modes |-> Only(9, 2), horizon |-> horizon]
        BY <3>3, Zenon DEF PlanOneLot
      <4> QED BY <4>1
    <3> QED BY <3>1, <3>2, <3>3, OthersTyped
  <2>3. CASE Energy \/ Demand \/ Search \/ Routing
    <3>1. case'.is \in {"energy", "demand", "search", "route"}
      BY <2>3 DEF Energy, Demand, Search, Routing
    <3> QED BY <3>1, OthersTyped
  <2>4. CASE CheckCorpus \/ CheckTerms
    <3>1. CheckCorpus => case'.is = "corpus"
      BY DEF CheckCorpus
    <3>2. CheckTerms => case'.is = "terms"
      BY DEF CheckTerms
    <3> QED BY <2>4, <3>1, <3>2, OthersTyped
  <2>5. CASE Rate \/ Grade \/ Intercept \/ Predict
    BY <2>5, MeasuresStayTyped
  <2>6. CASE Ask \/ Synthesize \/ Quiz \/ Attempt \/ Curate \/ Walk \/ Handover
    BY <2>6, TextsStayTyped
  <2>7. CASE Reorder \/ Costs \/ Score
    BY <2>7, FiguresStayTyped
  <2>8. CASE CheckModes \/ CheckAssets \/ CheckGlossary \/ CheckRegister
    BY <2>8, CataloguesStayTyped
  <2> QED BY <2>1, <2>2, <2>3, <2>4, <2>5, <2>6, <2>7, <2>8 DEF CalculationsNext
<1>3. Judgeable => JudgementsHold
  BY JudgementsAreSound
<1> QED BY <1>1, <1>2, <1>3, PTL DEF CalculationsSpec
=============================================================================
