--------------------------- MODULE KnowledgeAgents ---------------------------
(***************************************************************************)
(* What the knowledge agents compute: which chunks a search returns, which *)
(* sources a drafted procedure cites, the mark of a quiz, the report of a  *)
(* shift, the chain of a root cause, the neighbours found in the graph of  *)
(* the plant.  Texts are reduced to the citation marks they contain.       *)
(***************************************************************************)
EXTENDS Integers, FiniteSets, FiniteSetsExt, Sequences, SequencesExt

CONSTANTS
  PrefetchLimit,   \* chunks fetched from the store before they are ranked
  NearPercent,     \* similarity from which a document is a near duplicate
  TraverseLimit    \* LIMIT of the query on the graph of the plant

Truncate(s, n) == SubSeq(s, 1, Min({n, Len(s)}))

-----------------------------------------------------------------------------
(* Retrieval.  A chunk is [id, level, lang, score]; a search is [roles,    *)
(* lang, k, rerank].  The store returns its chunks in an order of its own. *)

RoleToAcl ==
  [r \in {"operator", "technician", "supervisor", "shift-supervisor", "manager",
          "engineer", "safety", "admin", "auditor"} |->
     CASE r = "operator" -> {"public"}
       [] r \in {"technician", "supervisor", "shift-supervisor"} -> {"public", "internal"}
       [] OTHER -> {"public", "internal", "restricted"}]
AnyLang == "any"
NoValue == "none"

\* No known role: the search raises.
Levels(roles) == UNION {RoleToAcl[r] : r \in roles \cap DOMAIN RoleToAcl}
Fused(store, s) ==
  LET Matches(c) == c.level \in Levels(s.roles) /\ s.lang \in {AnyLang, c.lang}
  IN Truncate(SelectSeq(store, Matches), PrefetchLimit)

\* Highest score first; equal scores keep the order of the store.
Rerank(hits) ==
  LET Before(i, j) == hits[i].score > hits[j].score \/ (hits[i].score = hits[j].score /\ i < j)
      order == SetToSortSeq(DOMAIN hits, Before)
  IN [i \in DOMAIN hits |-> hits[order[i]]]

\* Fault variant of TopK: the hits are cut before they are ranked.
TopKCutFirst(hits, s) == IF s.rerank THEN Rerank(Truncate(hits, s.k)) ELSE Truncate(hits, s.k)
TopK(hits, s) == Truncate(IF s.rerank THEN Rerank(hits) ELSE hits, s.k)

\* No chunk that could have been returned scores higher than one that was.
BestReturned(store, s) ==
  LET got == Range(TopK(Fused(store, s), s))
  IN s.rerank => \A c \in Range(Fused(store, s)) \ got : \A h \in got : c.score <= h.score

-----------------------------------------------------------------------------
(* The drafted procedure.  A section is the set of the marks [SRC:n] in it,*)
(* or Missing when the model's answer has no such heading.                 *)

Sections == {"Scopo", "Prerequisiti", "Passi", "Sicurezza", "Riferimenti"}
Missing == {0}

FallbackSection(key, sources) ==
  IF key = "Sicurezza" THEN {} ELSE 1..Min({Len(sources), 3})
ParseSections(raw, sources) ==
  [key \in Sections |-> IF raw[key] = Missing THEN FallbackSection(key, sources) ELSE raw[key]]
AnchorsIn(sections) == UNION Range(sections)

Unknown == "source://unknown"
\* The n-th mark found is given the n-th source, whatever number it bears.
BuildAnchorMap(anchors, sources) ==
  [a \in anchors |-> LET i == Cardinality({b \in anchors : b <= a})
                     IN IF i \in DOMAIN sources THEN sources[i] ELSE Unknown]

\* The marks of the Italian text must all be in the translation and the map.
Validate(it, en, map, sources) ==
  /\ sources # << >>
  /\ AnchorsIn(it) \subseteq AnchorsIn(en)
  /\ AnchorsIn(it) \subseteq DOMAIN map

\* raw: the sections the model wrote; kept: the marks its translation keeps.
Draft(raw, kept, sources) ==
  LET it == ParseSections(raw, sources)
      en == [key \in Sections |-> it[key] \cap kept]
      map == BuildAnchorMap(AnchorsIn(it), sources)
  IN [it |-> it, en |-> en, map |-> map, accepted |-> Validate(it, en, map, sources)]

\* A draft that reaches the supervisor cites in both languages the same
\* sources, and resolves its marks when they bear the numbers 1 to n.
CitationsHold(raw, kept, sources) ==
  LET draft == Draft(raw, kept, sources)
      marks == AnchorsIn(draft.it)
  IN draft.accepted =>
       /\ AnchorsIn(draft.en) = marks
       /\ (marks = 1..Cardinality(marks) /\ marks \subseteq DOMAIN sources) =>
            \A n \in marks : draft.map[n] = sources[n]

-----------------------------------------------------------------------------
(* The quiz.  A question is [right, difficulty].                           *)

Difficulties == <<"easy", "medium", "hard">>
NextDifficulty(current, correct) ==
  LET i == CHOOSE k \in DOMAIN Difficulties : Difficulties[k] = current
  IN Difficulties[IF correct THEN Min({i + 1, 3}) ELSE Max({i - 1, 1})]

\* With no model or no source: the right option is always the first.
FallbackQuestions(n) ==
  LET level[i \in 0..n] == IF i <= 1 THEN "medium"
                           ELSE NextDifficulty(level[i - 1], (i - 1) % 2 = 0)
  IN [i \in 1..n |-> [right |-> 0, difficulty |-> level[i]]]

\* Right answers out of all questions; answers beyond the quiz are not read.
ScoreSession(questions, answers) ==
  LET m == Min({Len(questions), Len(answers)})
  IN IF questions = << >> THEN <<0, 1>>
     ELSE <<Cardinality({i \in 1..m : answers[i] = questions[i].right}), Len(questions)>>
Passed(score) == 5 * score[1] >= 4 * score[2]

\* Leaving the last question out is never better than answering it, and more
\* answers than questions change nothing.
SilenceNeverPays(questions, answers) ==
  LET At(n) == ScoreSession(questions, Truncate(answers, n))
  IN \A n \in 1..Len(answers) :
       /\ At(n)[1] * At(n - 1)[2] >= At(n - 1)[1] * At(n)[2]
       /\ Passed(At(n - 1)) => Passed(At(n))
       /\ n > Len(questions) => At(n) = At(n - 1)

-----------------------------------------------------------------------------
(* The report of a shift.  A row of the audit trail is [type, panel, at]:  *)
(* panel is the set of the fields its evidence has.  The evidence the      *)
(* agents write is of one schema, which knows neither order nor asset.     *)

PanelFields == {"input_summary", "tool_calls", "rag_citations", "model", "confidence"}

\* BETWEEN: both ends belong to the shift.  The rows are named by their place
\* in the trail.
FetchWindow(rows, from, to) == {i \in DOMAIN rows : from <= rows[i].at /\ rows[i].at <= to}
CountOf(rows, seen, type) == Cardinality({i \in seen : rows[i].type = type})

BuildReport(rows, from, to) ==
  LET seen == FetchWindow(rows, from, to)
  IN [open_alerts |-> CountOf(rows, seen, "ANOMALY_ALERT"),
      quality_events |-> CountOf(rows, seen, "QUALITY_VERDICT"),
      completed_work_orders |-> Cardinality({i \in seen : /\ rows[i].type = "DOWNTIME_VERDICT"
                                                        /\ "work_order_id" \in rows[i].panel}),
      equipment |-> {i \in seen : /\ "asset_id" \in rows[i].panel
                                  /\ rows[i].panel \cap {"status", "equipment_status"} # {}}]

\* Two shifts one after the other leave nothing out: each event is in one of
\* the two reports, and in both only when it fell on the change of shift.
HandoverComplete(rows, from, mid, to) ==
  LET a == BuildReport(rows, from, mid)
      b == BuildReport(rows, mid, to)
      both == BuildReport(rows, from, to)
      change == FetchWindow(rows, mid, mid)
  IN /\ a.open_alerts + b.open_alerts = both.open_alerts + CountOf(rows, change, "ANOMALY_ALERT")
     /\ a.quality_events + b.quality_events = both.quality_events + CountOf(rows, change, "QUALITY_VERDICT")

-----------------------------------------------------------------------------
(* Root causes.  An attempt is "text" (no JSON), "shape" (refused by the   *)
(* model of the chain), "uncited" (a why without source, or a source that  *)
(* no document has) or "valid".                                            *)

MaxRetries == 2
\* The index of the chain that is put to the supervisor (0: none could be
\* built), and whether it passed the validator.
Chain(attempts) ==
  LET tried == Truncate(attempts, MaxRetries + 1)
      valid == {i \in DOMAIN tried : tried[i] = "valid"}
      last == Min(valid \cup {Len(tried)})
      built == {i \in 1..last : tried[i] \in {"uncited", "valid"}}
  IN [tried |-> last, best |-> Max(built \cup {0}), valid |-> valid # {}]

\* A chain that passed is the one shown, and nothing is asked of the model
\* after it; without one the newest chain that could be built is shown.
ValidChainShown(attempts) ==
  LET c == Chain(attempts)
      tried == 1..Min({Len(attempts), MaxRetries + 1})
  IN /\ c.valid <=> \E i \in tried : attempts[i] = "valid"
     /\ c.valid => attempts[c.best] = "valid" /\ c.tried = c.best
     /\ \A i \in 1..c.tried : i > c.best => attempts[i] \notin {"uncited", "valid"}

-----------------------------------------------------------------------------
(* Curation of a document: [hash, type, age]; near is the best neighbour's *)
(* similarity in percent, or NoNear when there is no such check.           *)

NoNear == -1
ThresholdDays == [sop |-> 365, runbook |-> 180, note |-> 90]
IsStale(type, age) == age > (IF type \in DOMAIN ThresholdDays THEN ThresholdDays[type] ELSE 90)

DupType(doc, known, near) ==
  IF doc.hash \in known THEN "exact" ELSE IF near >= NearPercent THEN "near" ELSE NoValue

\* The report and the audit rows written, in order.
Curate(doc, known, near) ==
  LET dup == DupType(doc, known, near)
      stale == IsStale(doc.type, doc.age)
  IN [dup_type |-> dup, is_stale |-> stale,
      rows |-> (IF dup # NoValue THEN <<"KNOWLEDGE_DEDUP">> ELSE << >>)
               \o (IF stale THEN <<"STALE_FLAG">> ELSE << >>)]

\* A copy of a known document is named as such whatever its neighbours are, and
\* what was flagged stays flagged when the document ages or a closer one comes.
CurationSteady(doc, known, near, days, nearer) ==
  LET now == Curate(doc, known, near)
      later == Curate([doc EXCEPT !.age = @ + days], known, near + nearer)
  IN /\ doc.hash \in known => now.dup_type = "exact"
     /\ now.is_stale => later.is_stale
     /\ now.dup_type # NoValue => later.dup_type = now.dup_type
     /\ Range(now.rows) \subseteq Range(later.rows)

-----------------------------------------------------------------------------
(* The graph of the plant: a set of edges [from, rel, to].                 *)

\* The nodes at the end of a path of 1 to depth edges of the given relations,
\* in any order of the relations (the graph has no cycle).
Reachable(edges, seed, rels, depth) ==
  LET step[n \in 0..depth] ==
        IF n = 0 THEN {seed}
        ELSE {e.to : e \in {x \in edges : x.rel \in rels /\ x.from \in step[n - 1]}}
  IN IF rels = {} THEN {} ELSE UNION {step[n] : n \in 1..depth}

\* The answers of the query: past the limit any nodes of that number, for it
\* gives no order.
Traverse(edges, seed, rels, depth) ==
  LET found == Reachable(edges, seed, rels, depth)
  IN IF Cardinality(found) <= TraverseLimit THEN {found} ELSE kSubset(TraverseLimit, found)

\* What lies at the end of the path of relations named, in their order, is in
\* the answer when the depth allows it, unless the answer is full.
PathFollowed(edges, seed, path, depth) ==
  LET end[n \in 0..Len(path)] ==
        IF n = 0 THEN {seed}
        ELSE {e.to : e \in {x \in edges : x.rel = path[n] /\ x.from \in end[n - 1]}}
  IN \A answer \in Traverse(edges, seed, Range(path), depth) :
       (path # << >> /\ depth >= Len(path) /\ Cardinality(answer) # TraverseLimit) =>
         end[Len(path)] \subseteq answer
=============================================================================
