------------------------------ MODULE OeeReport ------------------------------
(***************************************************************************)
(* The downtime analyzer's report.  Each figure is a query of its own, on  *)
(* a connection of its own, over tables the event consumer and the quality *)
(* inspector keep filling: the total, the quality score, the Pareto list   *)
(* and the per-asset figures are read at different moments.                *)
(***************************************************************************)
EXTENDS Integers, FiniteSets, FiniteSetsExt, Sequences, SequencesExt

CONSTANTS
  Assets,      \* assets of the registry, in its order: 1, 2, ...
  Reasons,     \* reason codes, numbered
  Events,      \* events that may arrive: [id, asset, reason, minutes, at]
  Scores,      \* scores of the quality verdicts that may be written
  Window,      \* [from, to] of the report, in minutes
  TopN,        \* how many Pareto entries are asked for
  MaxByAsset,  \* _MAX_BY_ASSET
  Readers      \* outcomes of the production reader: [good, target] or NoReader
CONSTANT NoReader

VARIABLES
  stored,      \* maintenance.downtime_events
  verdicts,    \* scores of the QUALITY_VERDICT rows of the audit trail
  report       \* the report being built

vars == <<stored, verdicts, report>>

\* A ratio is <<numerator, denominator>>; clamping keeps it in 0..1.
Clamp(n, d) == <<IF n < 0 THEN 0 ELSE IF n > d THEN d ELSE n, d>>
Whole == <<1, 1>>
Times(x, y) == <<x[1] * y[1], x[2] * y[2]>>
AtMost(x, y) == x[1] * y[2] <= y[1] * x[2]
InUnit(x) == 0 <= x[1] /\ x[1] <= x[2]

Minutes(S) == MapThenSumSet(LAMBDA e : e.minutes, S)
\* BETWEEN: both ends belong to the window, and an event is dated by its end.
InWindow(e) == Window.from <= e.at /\ e.at <= Window.to

\* Fault variant of Availability: more downtime than window is negative.
AvailabilityUnclamped(down) == IF Window.to - Window.from <= 0 THEN Whole
                               ELSE <<Window.to - Window.from - down, Window.to - Window.from>>
Availability(down) == IF Window.to - Window.from <= 0 THEN Whole
                      ELSE Clamp(Window.to - Window.from - down, Window.to - Window.from)
\* No reader, a reader that fails and a target of nought all count as perfect.
Performance(reader) ==
  IF reader = NoReader \/ reader.target <= 0 THEN Whole ELSE Clamp(reader.good, reader.target)
\* The query takes a score as a share of good parts; verdicts come before the
\* reader's figures, and a day without either counts as perfect.
Quality(rows, reader) ==
  LET Sum == FoldLeft(LAMBDA acc, score : acc + 1000 * score, 0, rows)
  IN IF rows # <<>> THEN [value |-> Clamp(Sum, 1000 * Len(rows)), source |-> "audit"]
     ELSE IF reader # NoReader /\ reader.target > 0
     THEN [value |-> Clamp(reader.good, reader.target), source |-> "simfallback"]
     ELSE [value |-> Whole, source |-> "no-data"]

-----------------------------------------------------------------------------
(* The Pareto list: rows [reason, minutes, count].                         *)

RowOf(S, r) == LET mine == {e \in S : e.reason = r}
               IN [reason |-> r, minutes |-> Minutes(mine), count |-> Cardinality(mine)]
\* The query groups, orders by minutes and cuts: ties are cut anyhow.
ParetoQueries(S) ==
  LET rows == {RowOf(S, r) : r \in {e.reason : e \in S}}
      most == IF Cardinality(rows) <= TopN THEN Cardinality(rows) ELSE TopN
  IN {T \in SUBSET rows : /\ Cardinality(T) = most
                          /\ \A x \in T, y \in rows \ T : x.minutes >= y.minutes}
\* The code sorts again and accumulates; the grand total is that of the rows
\* it was given, which the query has already cut.
ComputePareto(rows) ==
  LET larger(x, y) == \/ x.minutes > y.minutes
                      \/ x.minutes = y.minutes /\ x.count > y.count
                      \/ x.minutes = y.minutes /\ x.count = y.count /\ x.reason < y.reason
      sorted == SetToSortSeq(rows, larger)
      grand == MapThenSumSet(LAMBDA x : x.minutes, rows)
      upTo(k) == FoldLeft(LAMBDA acc, x : acc + x.minutes, 0, SubSeq(sorted, 1, k))
  IN [k \in DOMAIN sorted |-> [row |-> sorted[k], sum |-> IF grand = 0 THEN 0 ELSE upTo(k), of |-> grand]]

-----------------------------------------------------------------------------
(* The figures of compute_oee, and the steps of generate_report.           *)

Metrics(S, rows, reader) ==
  LET a == Availability(Minutes(S))
      p == Performance(reader)
      q == Quality(rows, reader)
  IN [availability |-> a, performance |-> p, quality |-> q.value, source |-> q.source,
      oee |-> Times(Times(a, p), q.value), minutes |-> Minutes(S), count |-> Cardinality(S)]

Blank == [pc |-> "idle", events |-> {}, rows |-> <<>>, reader |-> NoReader,
          total |-> [count |-> 0], pareto |-> <<>>, byAsset |-> <<>>]
Selected(asset) == {e \in stored : InWindow(e) /\ (asset = 0 \/ e.asset = asset)}
Listed == {a \in Assets : a <= MaxByAsset}

Init == /\ stored = {} /\ verdicts = <<>>
        /\ report = Blank

\* The consumer stores an event; the same identifier a second time is ignored.
InsertEvent(e) ==
  /\ stored' = IF \E old \in stored : old.id = e.id /\ old.at = e.at THEN stored ELSE stored \cup {e}
  /\ UNCHANGED <<verdicts, report>>
WriteVerdict(score) ==
  /\ Len(verdicts) < 2
  /\ verdicts' = Append(verdicts, score)
  /\ UNCHANGED <<stored, report>>

\* A report needs a window that is not empty.
Generate(reader) ==
  /\ report.pc = "idle" /\ Window.from < Window.to
  /\ report' = [Blank EXCEPT !.pc = "events", !.reader = reader]
  /\ UNCHANGED <<stored, verdicts>>
FetchEvents ==
  /\ report.pc = "events"
  /\ report' = [report EXCEPT !.pc = "quality", !.events = Selected(0)]
  /\ UNCHANGED <<stored, verdicts>>
FetchQuality ==
  /\ report.pc = "quality"
  /\ report' = [report EXCEPT !.pc = "pareto", !.rows = verdicts,
                              !.total = Metrics(report.events, verdicts, report.reader)]
  /\ UNCHANGED <<stored, verdicts>>
FetchPareto(byAsset) ==
  /\ report.pc = "pareto"
  /\ \E rows \in ParetoQueries(Selected(0)) :
       report' = [report EXCEPT !.pc = IF byAsset THEN "assets" ELSE "audit",
                                !.pareto = ComputePareto(rows)]
  /\ UNCHANGED <<stored, verdicts>>
\* The per-asset figures run side by side, in any order; a verdict names no
\* asset, so an asset's quality never comes from the audit trail.
FetchAsset(a) ==
  /\ report.pc = "assets" /\ a \notin DOMAIN report.byAsset
  /\ LET figures == [x \in DOMAIN report.byAsset \cup {a} |->
                       IF x = a THEN Metrics(Selected(a), <<>>, report.reader) ELSE report.byAsset[x]]
     IN report' = [report EXCEPT !.byAsset = figures,
                                 !.pc = IF DOMAIN figures = Listed THEN "audit" ELSE @]
  /\ UNCHANGED <<stored, verdicts>>
WriteAudit ==
  /\ report.pc = "audit"
  /\ report' = [report EXCEPT !.pc = "done"]
  /\ UNCHANGED <<stored, verdicts>>
\* A query or the audit write fails: the request fails with it.
Abandon ==
  /\ report.pc \in {"events", "quality", "pareto", "assets", "audit"}
  /\ report' = [report EXCEPT !.pc = "failed"]
  /\ UNCHANGED <<stored, verdicts>>

Next ==
  \/ \E e \in Events : InsertEvent(e)
  \/ \E score \in Scores : WriteVerdict(score)
  \/ \E reader \in Readers : Generate(reader)
  \/ FetchEvents \/ FetchQuality
  \/ \E byAsset \in BOOLEAN : FetchPareto(byAsset)
  \/ \E a \in Listed : FetchAsset(a)
  \/ WriteAudit \/ Abandon

Spec == Init /\ [][Next]_vars

-----------------------------------------------------------------------------
(* Properties.                                                             *)

Done == report.pc = "done"
Whose(S, r) == {e \in S : e.reason = r}

\* Events only arrive, so figures read later can only be higher: the assets'
\* minutes cover the total's (when all assets of the plant are listed), and so
\* do the Pareto list's when it is not cut.
LaterFiguresCover ==
  Done =>
    /\ (DOMAIN report.byAsset = Assets) =>
         Minutes(report.events) <= MapThenSumSet(LAMBDA a : report.byAsset[a].minutes, DOMAIN report.byAsset)
    /\ Len(report.pareto) < TopN =>
         Minutes(report.events) <= FoldLeft(LAMBDA acc, x : acc + x.row.minutes, 0, report.pareto)

\* A reason is left out of a full Pareto list only if it had cost no more, when
\* the total was read, than any entry of the list.
ParetoKeepsTheWorst ==
  Done => \A r \in Reasons :
            LET kept == {k \in DOMAIN report.pareto : report.pareto[k].row.reason = r} IN
            kept = {} => /\ Whose(report.events, r) # {} => Len(report.pareto) = TopN
                         /\ \A k \in DOMAIN report.pareto :
                              Minutes(Whose(report.events, r)) <= report.pareto[k].row.minutes

\* The curve never falls, and its last point is the whole of what is listed.
CurveRises ==
  \A k \in DOMAIN report.pareto :
    LET x == report.pareto[k] IN
    /\ 0 <= x.sum /\ x.sum <= x.of
    /\ k > 1 => /\ report.pareto[k - 1].sum <= x.sum
                /\ report.pareto[k - 1].row.minutes >= x.row.minutes
    /\ k = Len(report.pareto) => x.sum = x.of

\* Every figure a finished report shows is a share, no more downtime than the
\* window holds is needed to bring it to nought, and no asset is rated worse
\* for an event that is not its own or lies outside the window.
FiguresAreShares ==
  Done =>
    /\ InUnit(report.total.oee) /\ AtMost(report.total.oee, report.total.availability)
    /\ report.total.source = "audit" <=> report.rows # <<>>
    /\ \A a \in DOMAIN report.byAsset :
         /\ InUnit(report.byAsset[a].oee)
         /\ (\A e \in stored : e.asset = a => e.at < Window.from) =>
              report.byAsset[a].availability[1] = report.byAsset[a].availability[2]

\* The figures of a report agree with each other, although they are read in turn.
ReportHolds ==
  /\ LaterFiguresCover
  /\ ParetoKeepsTheWorst
  /\ CurveRises
  /\ FiguresAreShares
=============================================================================
