---------------------------- MODULE MCCalculations ----------------------------
(***************************************************************************)
(* The calculations of the agents over all small inputs: a behaviour takes *)
(* one input of one calculation.                                           *)
(***************************************************************************)
EXTENDS Integers, FiniteSets, Sequences, SequencesExt, TLC

CONSTANTS PrefetchLimit, NearPercent, TraverseLimit, NoField
VARIABLE case

Schedules == INSTANCE Scheduling
Grades == INSTANCE Grading
Supply == INSTANCE SupplyAgents
Knowledge == INSTANCE KnowledgeAgents
Runtime == INSTANCE AgentRuntime
Catalogues == INSTANCE CatalogueChecks

SeqsUpTo(X, n) == UNION {[1..k -> X] : k \in 0..n}
Only(key, value) == [k \in {key} |-> value]

-----------------------------------------------------------------------------
OrderKinds == [minutes : {1, 2}, due : {2, 4}, families : {{"loom"}, {"loom", "dyer"}, {"none"}}, lot : {"A", "B"}]
OneLotKinds == [minutes : {1, 2, 3}, due : {2, 3, 5}, families : {{"loom"}}, lot : {"A"}]
Orders(kinds) ==
  {[id |-> k, minutes |-> kinds[k].minutes, due |-> kinds[k].due,
    families |-> kinds[k].families, lot |-> kinds[k].lot] : k \in DOMAIN kinds}
\* A loom and a dyer, or two looms of which one changes over faster.
Plants == <<
  <<[family |-> "loom", changeover |-> 1], [family |-> "dyer", changeover |-> 0]>>,
  <<[family |-> "loom", changeover |-> 2], [family |-> "loom", changeover |-> 0]>>,
  <<[family |-> "loom", changeover |-> 1]>> >>
\* A failure mode that bears the name of asset 2, one that bears none.
ModeSets == {Only(2, 1), Only(9, 2)}

Plan(strategy) ==
  \E k \in {2, 3} : \E kinds \in [1..k -> OrderKinds], plant \in {1, 2}, horizon \in {3, 4}, modes \in ModeSets :
    /\ k = 3 => /\ kinds[1].minutes = 1 /\ kinds[2].due = 2
                /\ \A j \in 1..3 : kinds[j].families # {"none"}
    /\ case' = [is |-> "plan", strategy |-> strategy, orders |-> Orders(kinds), capacity |-> Plants[plant],
                modes |-> modes, horizon |-> horizon]
PlanOneLot(strategy) ==
  \E kinds \in [1..3 -> OneLotKinds], horizon \in {3, 5, 9} :
    case' = [is |-> "lot", strategy |-> strategy, orders |-> Orders(kinds), capacity |-> Plants[3],
             modes |-> Only(9, 2), horizon |-> horizon]
DraftOf(c) == Schedules!Plan(c.strategy, c.orders, c.capacity, c.modes, c.horizon)

\* A draft gives each order one place, on an asset that can take it, that is
\* free and set up for its lot by then.
DraftFeasible ==
  case.is = "plan" => Schedules!EachOnce(DraftOf(case), case.orders)
                      /\ Schedules!AssetsRespected(DraftOf(case), case.orders, case.capacity, case.horizon)
\* An order left out has no room on any asset that could take it.
NoRoomLeft ==
  case.is = "plan" => Schedules!NoRoomLeft(DraftOf(case), case.orders, case.capacity, case.modes, case.horizon)
\* On one asset, shortest first plans the most orders that any choice could.
MostOrders ==
  case.is = "lot" /\ case.strategy = "spt" => Schedules!MostOrders(DraftOf(case), case.orders, case.horizon)
\* On one asset, due date first keeps every date that any order of work keeps.
DatesKept ==
  case.is = "lot" /\ case.strategy = "edd" => Schedules!DatesKept(DraftOf(case), case.orders)

-----------------------------------------------------------------------------
Baselines == [low : {0}, high : {1}, thresholds : UNION {[T -> 1..3] : T \in SUBSET Grades!Range(Grades!Severities)}]
Rate == \E b \in Baselines : case' = [is |-> "rate", baseline |-> b, values |-> -4..5]
Grade ==
  \E defect \in {"hole", "other"}, modes \in [{"hole"} -> Grades!Range(Grades!Tiers)],
     score \in {0, 4, 9}, severity \in Grades!Range(Grades!Severities) \cup {"unheard"} :
    case' = [is |-> "grade", defect |-> defect, modes |-> modes, answer |-> [score |-> score, severity |-> severity]]
\* ">" is a wildcard of the broker only where it ends a rule.
Rules ==
  {r \in SeqsUpTo({"a", "b", ">", "*"}, 3) :
     /\ r # << >> /\ \A k \in 1..(Len(r) - 1) : r[k] # ">"
     /\ Len(r) = 3 => Head(r) = "a" /\ r[3] # "a"}
Intercept ==
  \E one \in Rules, two \in {r \in Rules : Len(r) < 3}, type \in {"stop", "read"}, subject \in SeqsUpTo({"a", "b"}, 3) :
    case' = [is |-> "intercept", rules |-> {one, two}, types |-> {"stop"},
             action |-> [type |-> type, subject |-> subject]]

\* A reading further out of its band is never rated lower.
FurtherIsWorse == case.is = "rate" => Grades!FurtherIsWorse(case.baseline, case.values)
\* Neither a worse verdict nor a failure mode lowers the tier that must decide.
TierNeverLowered == case.is = "grade" => Grades!TierNeverLowered(case.defect, case.modes, case.answer)
\* The interlock lets nothing through that a rule it understands covers, and
\* forbids nothing but what a rule covers or lies below one that ends in "*".
InterlockAsBroker == case.is = "intercept" => Grades!InterlockAsBroker(case.rules, case.types, case.action)

-----------------------------------------------------------------------------
Masters == {<<[point |-> 1], [point |-> 2]>>, <<[point |-> 2]>>}
Reorder ==
  \E qty \in [(1..3) \X (1..2) -> -1..2], master \in Masters, asked \in {{}, {1}, {2, 3}} :
    /\ qty[<<3, 1>>] = 0 /\ qty[<<3, 2>>] = -1
    /\ case' = [is |-> "reorder", master |-> master, asked |-> asked,
                levels |-> {[sku |-> x[1], ts |-> x[2], qty |-> qty[x]] : x \in {y \in DOMAIN qty : qty[y] >= 0}}]
Energy ==
  \E readings \in SeqsUpTo([kwh : {1, 5}, kg : {0, 2}, peak : BOOLEAN], 3), baseline \in {<<1, 1>>, <<2, 1>>} :
    case' = [is |-> "energy", readings |-> readings, baseline |-> baseline]
Weights == {[a |-> 1, b |-> 1, g |-> 1, u |-> 2], [a |-> 1, b |-> 0, g |-> 1, u |-> 3]}
Demand ==
  \E series \in SeqsUpTo(0..2, 5), w \in Weights, minPeriods \in {4, 6} :
    /\ series # << >>
    /\ case' = [is |-> "demand", series |-> series, w |-> w, minPeriods |-> minPeriods]
CostRows == [kind : {"DOWNTIME_VERDICT", "QUALITY_VERDICT"}, ts : 0..3,
             result : {Only("duration_min", 2), Only("quantity_scrapped", 1), Only("reason", 5)}]
Costs ==
  \E one, two \in CostRows, from \in 0..1, middle \in 1..2, to \in 2..3 :
    case' = [is |-> "costs", rows |-> {one, two}, from |-> from, middle |-> middle, to |-> to]
Curves == {[r \in 0..100 |-> (70 * r) \div 100], [r \in 0..100 |-> IF r >= 40 THEN 70 ELSE (7 * r) \div 4]}
Score ==
  \E r \in -1..101, pt \in {0, 3, 8}, curve \in Curves :
    case' = [is |-> "score", r |-> r, pt |-> pt, curve |-> curve,
             c |-> [technical |-> 7, economic |-> 3, base |-> 10, threshold |-> 20]]

\* What is proposed for reorder is short now, and nothing short is passed over.
DraftIsShort == case.is = "reorder" => Supply!DraftIsShort(case.levels, case.master, case.asked)
\* The energy index lies among those of the readings in production.
EnergyBounded == case.is = "energy" => Supply!EnergyBounded(case.readings, case.baseline)
\* A demand that repeats itself is forecast as it is.
SeasonsRepeat == case.is = "demand" => Supply!SeasonsRepeat(case.series, 3, 2, case.minPeriods, case.w)
\* Windows that share their border count its rows twice and nothing else.
WindowsAddUp == case.is = "costs" => Supply!WindowsAddUp(case.rows, case.from, case.middle, case.to)
\* The table of changes agrees with the scores.
OepvConsistent == case.is = "score" => Supply!OepvConsistent(case.r, case.pt, case.curve, case.c)

-----------------------------------------------------------------------------
ChunkKinds == [level : {"public", "restricted"}, lang : {"it", "en"}, score : {1, 2}]
Searches == [roles : {{"shift-supervisor"}, {"auditor"}, {"visitor", "operator", "manager"}},
             lang : {"any", "it"}, k : {1, 2}, rerank : BOOLEAN]
Search ==
  \E kinds \in [1..3 -> ChunkKinds], s \in Searches :
    case' = [is |-> "search", s |-> s,
             store |-> [k \in 1..3 |-> [id |-> k, level |-> kinds[k].level, lang |-> kinds[k].lang, score |-> kinds[k].score]]]
Marks == {Knowledge!Missing} \cup SUBSET (1..3)
Synthesize ==
  \E passi, sicurezza \in Marks, kept \in SUBSET (1..3), n \in 0..3 :
    case' = [is |-> "synthesize", kept |-> kept, sources |-> SubSeq(<<"d1", "d2", "d3">>, 1, n),
             raw |-> [key \in Knowledge!Sections |-> IF key = "Passi" THEN passi
                                             ELSE IF key = "Sicurezza" THEN sicurezza ELSE {}]]
Quizzes == {Knowledge!FallbackQuestions(n) : n \in 0..5} \cup SeqsUpTo([right : {0, 1}, difficulty : {"medium"}], 2)
Quiz == \E questions \in Quizzes, answers \in SeqsUpTo({0, 1}, 6) :
          case' = [is |-> "quiz", questions |-> questions, answers |-> answers]
Rows == [type : {"ANOMALY_ALERT", "QUALITY_VERDICT", "DOWNTIME_VERDICT"}, panel : {{}, Knowledge!PanelFields}, at : 0..3]
Handover ==
  \E one, two, three \in Rows :
    /\ one.at <= two.at /\ two.at <= three.at /\ three.panel # {}
    /\ case' = [is |-> "handover", rows |-> <<one, two, three>>]
Attempt == \E attempts \in UNION {[1..n -> {"text", "shape", "uncited", "valid"}] : n \in {3, 4}} :
             case' = [is |-> "chain", attempts |-> attempts]
Curate ==
  \E hash \in {"h1", "h2"}, type \in {"sop", "runbook", "memo"}, age \in {90, 91, 180, 181, 365, 366},
     near \in {Knowledge!NoNear, 91, 92}, days \in {0, 1, 200}, nearer \in {0, 1} :
    case' = [is |-> "curate", doc |-> [hash |-> hash, type |-> type, age |-> age], known |-> {"h1"},
             near |-> near, days |-> days, nearer |-> nearer]
Edges == [from : {1}, rel : {"part", "uses"}, to : {2, 3}] \cup [from : {2}, rel : {"part", "uses"}, to : {3, 4}]
Walk == \E edges \in SUBSET Edges, path \in SeqsUpTo({"part", "uses"}, 2), depth \in 1..3 :
          case' = [is |-> "walk", edges |-> edges, path |-> path, depth |-> depth]

\* No chunk left out of an answer ranks above one in it.
BestReturned == case.is = "search" => Knowledge!BestReturned(case.store, case.s)
\* A draft put to the supervisor cites the same sources in both languages.
CitationsHold == case.is = "synthesize" => Knowledge!CitationsHold(case.raw, case.kept, case.sources)
\* An unanswered question never helps a trainee.
SilenceNeverPays == case.is = "quiz" => Knowledge!SilenceNeverPays(case.questions, case.answers)
\* Two consecutive reports cover the events between them.
HandoverComplete == case.is = "handover" => Knowledge!HandoverComplete(case.rows, 1, 2, 3)
\* The chain shown is the one that passed, or the newest there is.
ValidChainShown == case.is = "chain" => Knowledge!ValidChainShown(case.attempts)
\* A flagged document stays flagged.
CurationSteady ==
  case.is = "curate" => Knowledge!CurationSteady(case.doc, case.known, case.near, case.days, case.nearer)
\* A path that the depth allows is followed to its end, unless the answer is full.
PathFollowed == case.is = "walk" => Knowledge!PathFollowed(case.edges, 1, case.path, case.depth)

-----------------------------------------------------------------------------
RoutingRules == [cluster : {"ops", "supply"}, kind : {"keyword", "pattern"}, word : {"w1", "w2"}]
Models == {[kind |-> "absent", cluster |-> "ops", confidence |-> 0],
           [kind |-> "raises", cluster |-> "supply", confidence |-> 90],
           [kind |-> "answers", cluster |-> "supply", confidence |-> 70],
           [kind |-> "answers", cluster |-> "supply", confidence |-> 69],
           [kind |-> "answers", cluster |-> "elsewhere", confidence |-> 90]}
Routing ==
  \E rules \in SUBSET RoutingRules, text, more \in SUBSET {"w1", "w2"}, model \in Models :
    /\ Cardinality(rules) <= 3
    /\ case' = [is |-> "route", rules |-> rules, text |-> text, more |-> more, model |-> model]
MessageKinds == [from : {"rag_search", "model"}, inline : BOOLEAN, cited : BOOLEAN]
Query == [from |-> "user", inline |-> FALSE, cited |-> FALSE]
Ask ==
  \E messages \in SeqsUpTo(MessageKinds, 2), second \in {m \in MessageKinds : m.from = "model"} :
    case' = [is |-> "ask", messages |-> IF messages = << >> THEN Runtime!TooDeep ELSE <<Query>> \o messages, second |-> second]
Predict == \E low \in {-9, 0, 37, 124} : case' = [is |-> "predict", raws |-> low..(low + 9)]

\* The rules decide only where they do not contradict each other.
AmbiguityDeferred == case.is = "route" => Runtime!AmbiguityDeferred(case.rules, case.text, case.more, case.model)
\* An answer that rests on a search shows its sources or says they are missing.
SourcesShown == case.is = "ask" => Runtime!SourcesShown(Query, case.messages, case.second)
\* The band holds the estimate, and less life never lowers the tier.
EstimateInBand == case.is = "predict" => Runtime!EstimateInBand(case.raws)

-----------------------------------------------------------------------------
\* Files with one thing wrong, or nothing.
Faults == {"none", "unparsed", "language", "number", "loose", "level"}
SopFile(id, lang, meaning, fault, words) ==
  [named |-> fault # "loose", nameId |-> IF fault = "number" THEN 3 - id ELSE id,
   nameLang |-> IF fault = "language" THEN "it" ELSE lang, parsed |-> fault # "unparsed", schema |-> TRUE,
   acl |-> IF fault = "level" THEN NoField ELSE "internal", sections |-> "fixed order",
   id |-> id, lang |-> lang, meaning |-> meaning, tokens |-> words, title |-> <<"loom", "stop">>]
Sops == {SopFile(id, lang, meaning, fault, {}) : id \in {1, 2}, lang \in Catalogues!Languages, meaning \in {1, 2}, fault \in Faults}
Intervention(sop) == [names |-> {<<"end">>}, reason |-> 1, sop |-> sop]
CheckCorpus ==
  \E corpus \in SeqsUpTo(Sops, 2), last \in SeqsUpTo({SopFile(id, "en", 1, "none", {}) : id \in {1, 2}}, 1), sop \in {1, NoField} :
    case' = [is |-> "corpus", corpus |-> corpus \o last, modes |-> <<Intervention(sop)>>]
TagSets == {{<<"warp">>}, {<<"end", "warp">>}, {<<"end">>}}
Tagged == {SopFile(id, "it", 1, fault, words) : id \in {1, 2}, fault \in {"none", "unparsed", "loose"}, words \in TagSets}
Modes == [names : {{<<"end">>}, {<<"warp", "end">>}}, reason : {1, 2}, sop : {1, NoField}]
CheckModes ==
  \E sop, more \in Tagged, modes \in [1..2 -> Modes] :
    case' = [is |-> "modes", corpus |-> <<sop>>, more |-> more, modes |-> modes]
TagKinds == [id : {1, 2}, unit : {"N", "degC"}]
CheckAssets ==
  \E assets \in SeqsUpTo([id : {1, 2}, family : {"loom"}, tags : SUBSET TagKinds], 2) :
    \E drift \in {{}, {1}}, baseline \in SUBSET {1, 2} :
      case' = [is |-> "assets", assets |-> assets,
               profiles |-> {[schema |-> TRUE, faults |-> Only("drift", drift), baseline |-> baseline]}]
TermSets(spellings) == SUBSET [stem : {"a", "b"}, spelled : spellings]
Bold(stem, kind) == [stem |-> stem, kind |-> kind]
PageKinds == [lang : Catalogues!Languages, name : {"page", "glossary"},
              bold : SUBSET {Bold("a", "term"), Bold("b", "term"), Bold("b", "label")}]
CheckGlossary ==
  \E it \in TermSets({"underscore"}), en \in TermSets({"underscore", "blank"}), one \in PageKinds, other \in {p \in PageKinds : p.lang = "en" /\ p.name = "page"} :
    case' = [is |-> "glossary", pages |-> {one, other}, glossaries |-> [l \in Catalogues!Languages |-> IF l = "it" THEN it ELSE en]]
CheckTerms ==
  \E entries \in SeqsUpTo([term : {1, 2, 3}, category : {1, 2}, text : {1, 2}, schema : {TRUE}], 3) :
    case' = [is |-> "terms", entries |-> entries]
Project(p, s) == [prefix |-> p, stem |-> s]
Entries == [id : 1..3, schema : {TRUE}, affected : {{}, {Project("none", "x")}, {Project("svc", "x")}}]
CheckRegister ==
  \E entries \in SeqsUpTo(Entries, 3), found \in SUBSET [path : {Catalogues!IndexPage, 1}, content : {<< >>}],
     other \in {Project("ops", "x"), Project("ops", "y")}, infra \in {{}, {Project("none", "x")}} :
    case' = [is |-> "register", entries |-> entries, found |-> found, projects |-> {Project("svc", "x"), other}, infra |-> infra]

\* A release whose catalogues passed gives every failure mode its intervention.
InterventionsHeld == case.is = "corpus" => Catalogues!InterventionsHeld(case.corpus, case.modes, {"warp", "loom", "stop"})
\* The order of the files does not decide.
PairingSteady == case.is = "corpus" => Catalogues!PairingSteady(case.corpus)
\* A further SOP never fails the check of the failure modes.
CorpusMayGrow ==
  case.is = "modes" => Catalogues!CorpusMayGrow(case.modes, case.corpus, case.more, {"warp", "loom", "stop"})
\* Look-ups by id agree with the registry.
RegistryResolves == case.is = "assets" => Catalogues!RegistryResolves(case.assets, case.profiles)
\* English terms reported as stale are not needed.
StaleDroppable == case.is = "glossary" => Catalogues!StaleDroppable(case.pages, case.glossaries)
\* Nor does the order of the entries of a glossary.
GlossaryPageSteady == case.is = "terms" => Catalogues!GlossaryPageSteady(case.entries)
\* Pages made from a register that passes show no drift.
PagesSettle == case.is = "register" => Catalogues!PagesSettle(case.entries, case.found)
\* A retired project is noticed.
RetiredNoticed ==
  case.is = "register" => Catalogues!RetiredNoticed(case.entries, case.projects, case.infra, Project("svc", "x"))

-----------------------------------------------------------------------------
NoCase == [is |-> "none"]
CalculationsInit == case = NoCase
CalculationsNext ==
  /\ case = NoCase
  /\ \/ (\E strategy \in {"spt", "edd"} : Plan(strategy) \/ PlanOneLot(strategy))
     \/ Rate \/ Grade \/ Intercept
     \/ Reorder \/ Energy \/ Demand \/ Costs \/ Score
     \/ Search \/ Synthesize \/ Quiz \/ Handover \/ Attempt \/ Curate \/ Walk
     \/ Routing \/ Ask \/ Predict
     \/ CheckCorpus \/ CheckModes \/ CheckAssets \/ CheckGlossary \/ CheckTerms \/ CheckRegister
CalculationsSpec == CalculationsInit /\ [][CalculationsNext]_case

\* A draft schedule is feasible, wastes no room and is the best its rule
\* promises; energy and demand fit the rows they were computed from.
DraftsHold ==
  /\ DraftFeasible
  /\ NoRoomLeft
  /\ MostOrders
  /\ DatesKept
  /\ EnergyBounded
  /\ SeasonsRepeat

\* What is worse is judged worse and no later rule softens a verdict; a request
\* goes where it is clear; what is shown is cited, in its band, steady and true
\* of the figures it rests on; what an id or a path names is found, and what a
\* check of the catalogues tells is so.
JudgementsHold ==
  /\ FurtherIsWorse
  /\ TierNeverLowered
  /\ InterlockAsBroker
  /\ AmbiguityDeferred
  /\ SourcesShown
  /\ EstimateInBand
  /\ CitationsHold
  /\ SilenceNeverPays
  /\ ValidChainShown
  /\ CurationSteady
  /\ DraftIsShort
  /\ OepvConsistent
  /\ WindowsAddUp
  /\ HandoverComplete
  /\ PathFollowed
  /\ CorpusMayGrow
  /\ RegistryResolves
  /\ StaleDroppable
  /\ RetiredNoticed

\* A search returns the best of what it may; catalogues
\* that passed their checks can be relied on together, whatever their order.
LookupsHold ==
  /\ BestReturned
  /\ InterventionsHeld
  /\ PairingSteady
  /\ GlossaryPageSteady
  /\ PagesSettle
=============================================================================
