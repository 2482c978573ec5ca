-------------------------------- MODULE MCEvents --------------------------------
(* What the consumers take in and what the streams and the KPI snapshot show. *)
(* The three share no state, so a behaviour is about one of them.             *)
EXTENDS LiveStreams, KpiSnapshot, EventConsumers, TLC

CONSTANTS u1, u2, m1, m2
VARIABLE part

allvars == <<part, vars, kpivars, consumervars>>

TwoRoles == u1 :> "operator" @@ u2 :> "technician"

MCInit ==
  /\ part \in {"streams", "kpi", "consumers"} /\ Init /\ KpiInit /\ ConsumersInit
  /\ part # "streams" => channel = "alerts"
  /\ part # "kpi" => verdicts = <<0, 0>>
  /\ verdicts = <<0, 0>> <=> orders = 0   \* both figures have their zero
  /\ body[m1] = "valid"     \* the two messages are alike, one at least is in order
  /\ part # "consumers" => kind = "qi" /\ \A m \in Msgs : body[m] = "valid"

MCNext ==
  \/ part = "streams" /\ Next /\ UNCHANGED <<part, kpivars, consumervars>>
  \/ part = "kpi" /\ KpiNext /\ UNCHANGED <<part, vars, consumervars>>
  \/ /\ part = "consumers" /\ ConsumersNext /\ UNCHANGED <<part, vars, kpivars>>
     /\ kind = "qi" => expiries' + failures' <= 1   \* bound: one mishap

LiveMCSpec ==
  /\ MCInit /\ [][MCNext]_allvars
  /\ \A s \in Streams : WF_allvars(
       part = "streams" /\ Generate(s) /\ UNCHANGED <<part, kpivars, consumervars>>)
  /\ \A r \in Replicas : WF_allvars(
       part = "consumers" /\ Loop(r) /\ UNCHANGED <<part, vars, kpivars>>)
  /\ \A m \in Msgs : WF_allvars(
       part = "consumers" /\ AckWaitEnds(m) /\ UNCHANGED <<part, vars, kpivars>>)
=============================================================================
