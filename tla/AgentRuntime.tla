---------------------------- MODULE AgentRuntime -----------------------------
(***************************************************************************)
(* What happens to a request between the gateway and an agent, and what an *)
(* agent gives back: the choice of the cluster, the choice of the agent in *)
(* it, the invocation that must not raise when a graph runs too long, the  *)
(* second attempt at an answer without citations, and the estimate of the  *)
(* life left in an asset.                                                  *)
(***************************************************************************)
EXTENDS Integers, FiniteSets, FiniteSetsExt, Sequences, SequencesExt

Clusters == {"ops", "maintenance", "knowledge-curation", "knowledge-training", "supply"}

-----------------------------------------------------------------------------
(* Routing.  A rule of a cluster is [cluster, kind: "keyword"|"pattern",   *)
(* word]; a text is a set of words.  The model is [kind, cluster,          *)
(* confidence]: it is absent, raises or answers; confidence in percent.    *)

MatchedBy(rules, text, c) ==
  LET hits(kind) == {r \in rules : r.cluster = c /\ r.kind = kind /\ r.word \in text}
  IN IF hits("keyword") # {} THEN hits("keyword") ELSE hits("pattern")
Matched(rules, text) == {c \in Clusters : MatchedBy(rules, text, c) # {}}

Decision(cluster, strategy) == [cluster |-> cluster, strategy |-> strategy]
FallbackDecision == Decision("ops", "fallback_default_ops")

\* A cluster outside the five is refused when the answer is built: it raises.
Stage2(model) ==
  IF model.kind = "answers" /\ model.cluster \in Clusters /\ model.confidence >= 70
  THEN Decision(model.cluster, "llm") ELSE FallbackDecision

\* Fault variant of Route: the first cluster that matches wins.
RouteFirst(rules, text, model) ==
  LET matched == Matched(rules, text)
  IN IF matched # {} THEN Decision(CHOOSE c \in matched : TRUE, "rules") ELSE Stage2(model)
Route(rules, text, model) ==
  LET matched == Matched(rules, text)
  IN IF Cardinality(matched) = 1 THEN Decision(CHOOSE c \in matched : TRUE, "rules")
     ELSE Stage2(model)

-----------------------------------------------------------------------------
(* Within a cluster.                                                       *)

ChildrenOf == [
  ops |-> {"operator-assistant", "anomaly-detector", "quality-inspector", "production-planner"},
  maintenance |-> {"rca-specialist", "maintenance-coach", "downtime-analyzer", "predictive-maintenance"},
  knowledge |-> {"knowledge-curator", "shift-handover", "training-coach", "documentation-synthesizer"},
  supply |-> {"cost-analyzer", "inventory-manager", "energy-optimizer", "demand-forecaster"}]
OpsDefault == "operator-assistant"
MaintenanceDefault == "rca-specialist"
KnowledgeDefault == "knowledge-curator"
SupplyDefault == "cost-analyzer"

\* children: the agents the graph is built with, which must have the default.
ChildOf(children, default, target) == IF target \in children THEN target ELSE default
OpsChild(absent, target) == ChildOf(ChildrenOf.ops \ (absent \ {OpsDefault}), OpsDefault, target)
MaintenanceChild(absent, target) ==
  ChildOf(ChildrenOf.maintenance \ (absent \ {MaintenanceDefault}), MaintenanceDefault, target)
KnowledgeChild(absent, target) ==
  ChildOf(ChildrenOf.knowledge \ (absent \ {KnowledgeDefault}), KnowledgeDefault, target)
SupplyChild(absent, target) == ChildOf(ChildrenOf.supply \ (absent \ {SupplyDefault}), SupplyDefault, target)


\* The clusters in which an agent runs itself, when the agents absent are left out.
RunsIn(absent, agent) ==
  {c \in {"ops", "maintenance", "knowledge", "supply"} :
     agent = CASE c = "ops" -> OpsChild(absent, agent)
               [] c = "maintenance" -> MaintenanceChild(absent, agent)
               [] c = "knowledge" -> KnowledgeChild(absent, agent)
               [] c = "supply" -> SupplyChild(absent, agent)}
\* The rules decide only what they decide alone: words that point to a second
\* cluster never leave the request with the first one by the rules, and what
\* the model says counts only then.  In the clusters, leaving agents out of a
\* graph takes its requests from no other agent and gives none to two.
AmbiguityDeferred(rules, text, more, model) ==
  LET one == Route(rules, text, model)
      two == Route(rules, text \cup more, model)
      absent == {"training-coach", "rca-specialist"}
  IN /\ one.cluster \in Clusters /\ two.cluster \in Clusters
     /\ one.strategy = "rules" => one.cluster \in Matched(rules, text)
     /\ (one.strategy = "rules" /\ Matched(rules, more) \ {one.cluster} # {})
          => two.strategy # "rules"
     /\ \A agent \in UNION Range(ChildrenOf) :
          /\ Cardinality(RunsIn({}, agent)) = 1
          /\ RunsIn(absent, agent) = IF agent = "training-coach" THEN {} ELSE RunsIn({}, agent)

-----------------------------------------------------------------------------
(* The invocation of a graph: messages is what it ends with, or TooDeep    *)
(* when it passed its limit of steps.                                      *)

TooDeep == << >>
Review == "GRAPH_RECURSION_REVIEW"

\* Past the limit the caller gets its own input back, with one action more.
SafeInvoke(state, messages) ==
  IF messages = TooDeep
  THEN [messages |-> state.messages, proposed |-> Append(state.proposed, Review)]
  ELSE [messages |-> messages, proposed |-> state.proposed]

-----------------------------------------------------------------------------
(* The operator's assistant.  A message is [from, inline, cited]: who wrote*)
(* it, and whether it has a mark [n] and a list of citations.              *)

UsedSearch(messages) == \E x \in Range(messages) : x.from = "rag_search"
Cited(answer) == answer.inline /\ answer.cited

MaxReplans == 1
\* answers: what the model says the first time and, asked again, the second.
Validated(searched, answers) ==
  LET good == {i \in 1..(MaxReplans + 1) : Cited(answers[i])}
      last == IF ~searched THEN 1 ELSE Min(good \cup {MaxReplans + 1})
  IN [answer |-> answers[last], missing |-> searched /\ good = {}, asked |-> last]

\* The reply to a question, when the graph ends with the messages given and
\* the model, asked again, answers second.
Reply(query, messages, second) ==
  LET result == SafeInvoke([messages |-> <<query>>, proposed |-> << >>], messages)
      v == Validated(UsedSearch(result.messages), <<Last(result.messages), second>>)
  IN [said |-> v.answer, missing |-> v.missing, asked |-> v.asked,
      tools |-> Cardinality({i \in DOMAIN result.messages : result.messages[i].from = "rag_search"})]

\* An answer that rests on a search shows its sources or says they are missing.
SourcesShown(query, messages, second) ==
  LET reply == Reply(query, messages, second)
  IN reply.tools > 0 => (Cited(reply.said) \/ reply.missing) /\ ~(Cited(reply.said) /\ reply.missing)

-----------------------------------------------------------------------------
(* The life left.  The model's prediction is an integer in cycles.         *)

RulMaxCycles == 125
Clamp(low, high, x) == Max({low, Min({high, x})})

\* Rounded to a cycle; the band is a tenth of the capped prediction.
PredictWithCi(raw) ==
  LET point == Clamp(0, RulMaxCycles, raw)
      Round(tenths) == (tenths + 5) \div 10
  IN [point |-> point, lower |-> Round(9 * point), upper |-> Min({RulMaxCycles, Round(11 * point)})]

\* health below 0.3: RUL/125 < 3/10.
NeedsSupervisor(point) == 10 * point < 3 * RulMaxCycles
Estimate(raw) ==
  LET p == PredictWithCi(raw)
  IN [rul |-> p.point, lower |-> p.lower, upper |-> p.upper,
      decision |-> IF NeedsSupervisor(p.point) THEN "HITL_SUPERVISOR" ELSE "AUTO",
      recommended |-> NeedsSupervisor(p.point)]

\* The band holds the estimate and lies within the scale, whatever the model
\* predicts, and less life never lowers the tier that must decide.
EstimateInBand(raws) ==
  \A r \in raws :
    LET e == Estimate(r)
    IN /\ 0 <= e.lower /\ e.lower <= e.rul /\ e.rul <= e.upper /\ e.upper <= RulMaxCycles
       /\ \A worse \in raws :
            worse <= r /\ e.decision = "HITL_SUPERVISOR" => Estimate(worse).decision = "HITL_SUPERVISOR"
=============================================================================
