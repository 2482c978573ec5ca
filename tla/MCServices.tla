------------------------------ MODULE MCServices ------------------------------
(***************************************************************************)
(* The OT bridge, the plant it is tried with, and the scripts that prepare *)
(* the stores.  They share no state: a behaviour is about one of them.     *)
(***************************************************************************)
EXTENDS OtBridge, Provisioning, TLC

CONSTANTS
  n1, n2, e1, e2, e3, e4, w1, w2,                        \* bridge
  Assets, Taxonomy, TicksPerMin, Interval, DayLength,    \* plant
  Drawn, ErrorPause, MaxClock

VARIABLES part, kind, clock, task, emitter, samples, lot, drawn, events, simFaults

simvars == <<kind, clock, task, emitter, samples, lot, drawn, events, simFaults>>

-----------------------------------------------------------------------------
\* Two workers, a queue and a batch of two, one alarm; e3 is of another node.
NodeOfEvent == [e \in {e1, e2, e3, e4} |-> IF e = e3 THEN n2 ELSE n1]

\* A loom of an enabled family, a machine of a family without a profile.
Loom == [noisy |-> TRUE, baseline |-> {"speed", "heat"}, drift |-> {"speed"},
         burst |-> [tags |-> {"speed", "heat"}, period |-> 4, duration |-> 1],
         storm |-> [tags |-> {"heat"}, window |-> 1, threshold |-> 2]]
Plant == INSTANCE Simulator WITH
           FamilyOf <- "loom" :> "weaving" @@ "press" :> "printing",
           Profiles <- "weaving" :> Loom,
           Rates <- [sensor |-> [nominal |-> 0, faulted |-> 0],
                     quality |-> [nominal |-> 1, faulted |-> 1],
                     downtime |-> [nominal |-> 1, faulted |-> 2]],
           Tags <- <<"speed", "heat">>, MaxFaults <- 1, MaxTime <- MaxClock

\* What the scripts go through.  Two runs may overlap, and one comes after
\* them; one call is lost, one run killed.
TwoCollections == <<"sop", "manuals">>
TwoLabels == <<"SOP", "Part">>
TwoDocs == <<"d1", "d2">>
TwoDatasets == <<"cmapss", "uci">>
FiveFiles == <<{}, {"a"}, {"a", "b"}, {}, {"a", "b", "c"}>>

ServicesInit ==
  /\ BridgeInit /\ Plant!SimInit /\ ProvInit
  /\ part # "plant" => kind = "sensor" /\ \A a \in Assets : lot[a].id[2] = 1
  /\ part # "scripts" => script = "neo4j"

ServicesNext ==
  \/ part = "bridge" /\ BridgeNext /\ UNCHANGED <<simvars, provars>>
  \/ part = "plant" /\ Plant!SimNext /\ UNCHANGED <<bridgevars, provars>>
  \/ /\ part = "scripts" /\ ProvNext /\ UNCHANGED <<bridgevars, simvars>>
     /\ run'[2] # NotRun => run'[1] # NotRun
     /\ run'[3] # NotRun => \A r \in {1, 2} : run'[r].at = "ended"

servicevars == <<bridgevars, simvars, provars>>

\* What the plant was made to do shows in what it wrote.
FaultsAsProfiled == Plant!FaultsAsProfiled
=============================================================================
