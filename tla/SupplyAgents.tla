---------------------------- MODULE SupplyAgents -----------------------------
(***************************************************************************)
(* What the four supply agents compute before they ask a supervisor (that  *)
(* part is SignoffReplay): the SKU to reorder, the energy index of a       *)
(* process, the demand plan and its error, the score of a discount.        *)
(* Quantities are integers; a quotient is compared by its numerator and    *)
(* denominator, <<n, d>>.                                                  *)
(***************************************************************************)
EXTENDS Integers, FiniteSets, FiniteSetsExt, Sequences, SequencesExt

Total(seq) == FoldLeft(LAMBDA acc, x : acc + x, 0, seq)
Above(x, y) == IF x >= y THEN x ELSE y
Below(x, y) == IF x <= y THEN x ELSE y
Abs(x) == Above(x, -x)
Tail_(seq, n) == SubSeq(seq, Len(seq) - n + 1, Len(seq))

-----------------------------------------------------------------------------
(* Inventory: a level is [sku, ts, qty], the master [sku -> [point, qty]]. *)

NoDraft == [sku |-> 0]
\* DISTINCT ON: the newest level of each SKU asked for that the master knows.
Newest(levels, sku) ==
  CHOOSE l \in levels : l.sku = sku /\ \A k \in levels : k.sku = sku => k.ts <= l.ts
CurrentLevels(levels, master, asked) ==
  {Newest(levels, sku) : sku \in {s \in asked \cap DOMAIN master : \E l \in levels : l.sku = s}}

CheckReorder(row, master) ==
  LET point == master[row.sku].point
  IN [sku |-> row.sku, below |-> row.qty < point, deficit |-> Above(0, point - row.qty)]

\* No list means every SKU of the master.  Of the signals only the first, in
\* the order of the names, becomes a recommendation.
ReorderDraft(levels, master, asked) ==
  LET skus == IF asked = {} THEN DOMAIN master ELSE asked
      signals == {CheckReorder(row, master) : row \in CurrentLevels(levels, master, skus)}
      low == {s \in signals : s.below}
  IN IF low = {} THEN NoDraft
     ELSE CHOOSE s \in low : \A other \in low : s.sku <= other.sku

\* Nothing is proposed exactly when no SKU asked for stands below its point
\* today, and what is proposed is short of it now, whatever it was before.
DraftIsShort(levels, master, asked) ==
  LET draft == ReorderDraft(levels, master, asked)
      skus == IF asked = {} THEN DOMAIN master ELSE asked
      short(s) == /\ \E l \in levels : l.sku = s
                  /\ \E l \in levels : /\ l.sku = s /\ l.qty < master[s].point
                                       /\ \A k \in levels : k.sku = s /\ k.ts >= l.ts => k = l
  IN /\ draft = NoDraft <=> \A s \in skus \cap DOMAIN master : ~short(s)
     /\ draft # NoDraft => short(draft.sku) /\ draft.deficit > 0

-----------------------------------------------------------------------------
(* Energy: readings [kwh, kg, peak], kg 0 where none was recorded.         *)

Fallback412 == <<[kwh |-> 412, kg |-> 100, peak |-> TRUE]>>
InProduction(readings) == SelectSeq(readings, LAMBDA r : r.kg > 0)
Kwh(readings) == Total([k \in DOMAIN readings |-> readings[k].kwh])
Kg(readings) == Total([k \in DOMAIN readings |-> readings[k].kg])
\* Readings without production do not count for the index; they do count for
\* the share outside the peak hours.
EnPI(readings) ==
  LET valid == InProduction(readings)
  IN [energy |-> <<Kwh(valid), Kg(valid)>>,
      offPeak |-> IF Kwh(readings) > 0
                  THEN <<Kwh(SelectSeq(readings, LAMBDA r : ~r.peak)), Kwh(readings)>> ELSE <<0, 1>>]

\* No reading at all is replaced by a fixed one; no reading of production ends
\* the run without a proposal.
NoProposal == [energy |-> <<0, 0>>]
EnergyProposal(found, baseline) ==
  LET readings == IF found = <<>> THEN Fallback412 ELSE found
      index == EnPI(readings)
  IN IF InProduction(readings) = <<>> THEN NoProposal
     ELSE [energy |-> index.energy,
           above |-> index.energy[1] * baseline[2] > baseline[1] * index.energy[2],
           savings |-> <<20 * (index.offPeak[2] - index.offPeak[1]), index.offPeak[2]>>]

\* The index lies between those of the best and the worst reading in
\* production, however the readings without any are spread; the expected
\* savings are at most a fifth and shrink as more runs outside the peak.
EnergyBounded(found, baseline) ==
  LET p == EnergyProposal(found, baseline)
      valid == Range(InProduction(IF found = <<>> THEN Fallback412 ELSE found))
  IN p # NoProposal =>
       /\ \E r \in valid : r.kwh * p.energy[2] <= p.energy[1] * r.kg
       /\ \E r \in valid : r.kwh * p.energy[2] >= p.energy[1] * r.kg
       /\ 0 <= p.savings[1] /\ p.savings[1] <= 20 * p.savings[2]
       /\ p.above => \E r \in valid : r.kwh * baseline[2] > baseline[1] * r.kg

-----------------------------------------------------------------------------
(* Demand: additive Holt-Winters with season length m.  The weights are    *)
(* a, b, g over u; level, trend and seasonals are kept as multiples of     *)
(* 1/unit, and every round multiplies unit by u * u.                       *)

\* Seasonal i is read at t % m: the first season's, never an updated one.
Smooth(series, m, w) ==
  LET first == Total(SubSeq(series, 1, m))
      second == IF Len(series) >= 2 * m THEN Total(SubSeq(series, m + 1, 2 * m)) ELSE first
      start == [level |-> first * m, trend |-> second - first, unit |-> m * m,
                season |-> [i \in 1..m |-> series[i] * m * m - first * m], later |-> <<>>]
      round(s, x) ==
        LET t == Len(s.later)
            k == w.u * w.u
            si == s.season[(t % m) + 1]
            level == w.a * (x * s.unit - si) + (w.u - w.a) * (s.level + s.trend)
            trend == w.b * (level - w.u * s.level) + (w.u - w.b) * w.u * s.trend
            later == w.u * (w.g * (x * s.unit - s.level) + (w.u - w.g) * si)
        IN [level |-> w.u * level, trend |-> trend, unit |-> k * s.unit,
            season |-> [i \in 1..m |-> k * s.season[i]],
            later |-> Append([i \in DOMAIN s.later |-> k * s.later[i]], later)]
  IN FoldLeft(round, start, series)

SeasonalNaive(series, horizon, m) ==
  LET tail == IF Len(series) >= m THEN Tail_(series, m) ELSE series
  IN [h \in 1..horizon |-> <<tail[((h - 1) % Len(tail)) + 1], 1>>]

HoltWinters(series, horizon, m, w) ==
  LET s == Smooth(series, m, w)
      n == Len(series)
      season(i) == IF i > m THEN s.later[i - m] ELSE s.season[i]
  IN [h \in 1..horizon |-> <<Above(0, s.level + h * s.trend + season(n + ((h - 1) % m) + 1)), s.unit>>]

Forecast(series, horizon, m, minPeriods, w) ==
  IF Len(series) < minPeriods THEN SeasonalNaive(series, horizon, m)
  ELSE HoltWinters(series, horizon, m, w)

\* MAPE: the error in per cent of each actual that is positive, at most 100.
Mape(actuals, forecasts) ==
  LET n == Below(Len(actuals), Len(forecasts))
      used == {k \in 1..n : actuals[k] > 0}
      error(k) == Below(Abs(actuals[k] * forecasts[k][2] - forecasts[k][1]), actuals[k] * forecasts[k][2])
  IN [wrong |-> {k \in used : error(k) # 0}, n |-> Cardinality(used)]
\* The tail of the series is compared with a forecast made from all of it,
\* which is a forecast of the months that follow.
PlanError(series, horizon, m, minPeriods, w) ==
  IF Len(series) > horizon
  THEN Mape(Tail_(series, horizon), Forecast(series, horizon, m, minPeriods, w))
  ELSE Mape(<<>>, <<>>)

Seasonal(series, m) == \A t \in DOMAIN series : t > m => series[t] = series[t - m]
\* Demand that repeats itself season by season is forecast as it is, by either
\* method and whatever month the series ends in; the error of the plan, taken
\* on the wrong months, is then zero for a demand that never changes.
SeasonsRepeat(series, horizon, m, minPeriods, w) ==
  Seasonal(series, m) /\ Len(series) >= m =>
    LET f == Forecast(series, horizon, m, minPeriods, w)
    IN /\ \A h \in 1..horizon : f[h][1] = f[h][2] * series[((Len(series) + h - 1) % m) + 1]
       /\ Seasonal(series, 1) => PlanError(series, horizon, m, minPeriods, w).wrong = {}

-----------------------------------------------------------------------------
(* Costs: quantities are read from the results stored in the audit trail,  *)
(* under names; a result is a function from names to amounts.              *)

CostKey == [DOWNTIME_VERDICT |-> "duration_min", QUALITY_VERDICT |-> "quantity_scrapped",
            ANOMALY_ALERT |-> "anomaly_kwh"]
Amount(rows, kind, from, to) ==
  MapThenSumSet(LAMBDA r : IF CostKey[kind] \in DOMAIN r.result THEN r.result[CostKey[kind]] ELSE 0,
                {r \in rows : r.kind = kind /\ from <= r.ts /\ r.ts <= to})
\* In cents: 120 EUR an hour, 8 EUR a kg, 0.25 EUR a kWh.
CostBreakdown(rows, from, to) ==
  LET down == 200 * Amount(rows, "DOWNTIME_VERDICT", from, to)
      scrap == 800 * Amount(rows, "QUALITY_VERDICT", from, to)
      energy == 25 * Amount(rows, "ANOMALY_ALERT", from, to)
  IN [down |-> down, scrap |-> scrap, energy |-> energy, total |-> down + scrap + energy,
      roi |-> IF down + scrap + energy > 0 THEN 15 ELSE 0]

\* Two windows that share only their border count what lies on it twice and
\* everything else once; no row outside a window can change its costs.
WindowsAddUp(rows, from, middle, to) ==
  LET border == {r \in rows : r.ts = middle}
      whole == CostBreakdown(rows, from, to).total
  IN /\ CostBreakdown(rows, from, middle).total + CostBreakdown(rows, middle, to).total
          = whole + CostBreakdown(border, middle, middle).total
     /\ whole = CostBreakdown({r \in rows : from <= r.ts /\ r.ts <= to}, from, to).total

-----------------------------------------------------------------------------
(* The score of a discount r in 0..100 with technical points pt.  curve[r] *)
(* is the economic part pe_max * (1 - exp(-lambda r / ref)), rounded.      *)

Shifts == {-10, -5, -1, 1, 5, 10}
Refused == [refused |-> TRUE]
Shifted(r, delta) == Above(0, Below(100, r + delta))
Oepv(r, pt, curve, c) ==
  IF r \notin 0..100 \/ pt \notin 0..c.technical THEN Refused
  ELSE LET score(x) == c.technical * pt + c.economic * curve[x]
       IN [total |-> score(r), offer |-> c.base * (100 - r), anomaly |-> r >= c.threshold,
           sensitivity |-> [d \in Shifts |-> score(Shifted(r, d)) - score(r)]]

\* A larger discount is never scored lower, the table of changes agrees with
\* the scores themselves, and at the ends of the range nothing is left to gain.
OepvConsistent(r, pt, curve, c) ==
  LET o == Oepv(r, pt, curve, c)
  IN o # Refused =>
       \A d \in Shifts :
         /\ r + d \in 0..100 => o.sensitivity[d] = Oepv(r + d, pt, curve, c).total - o.total
         /\ d > 0 => o.sensitivity[d] >= 0
         /\ d < 0 => o.sensitivity[d] <= 0
         /\ (r = 0 /\ d < 0) \/ (r = 100 /\ d > 0) => o.sensitivity[d] = 0
=============================================================================
