------------------------------- MODULE MCAgents -------------------------------
(***************************************************************************)
(* What does not interact: a behaviour is about one calculation, or about  *)
(* one agent, job, service or script that keeps state; part says which.    *)
(***************************************************************************)
EXTENDS MaintenanceCoach, AlertLimits, BudgetTracker, KnowledgeIngest, MCCalculations,
        MCServices

CONSTANTS
  c1, c2, fileA, fileB, k1, k2, d1, d2, g1, g2, s1, s2, s3  \* model values

VARIABLES stored, verdicts, report

oeevars == <<stored, verdicts, report>>
agentvars == <<vars, oeevars, ingestvars, limitvars, budgetvars>>

-----------------------------------------------------------------------------
Downtime(id, asset, reason, minutes, at) ==
  [id |-> id, asset |-> asset, reason |-> reason, minutes |-> minutes, at |-> at]
Downtimes == {Downtime(1, 1, 1, 2, 2), Downtime(2, 2, 2, 1, 5), Downtime(3, 1, 3, 5, 8),
              Downtime(4, 2, 2, 3, 1)}
O == INSTANCE OeeReport WITH Events <- Downtimes,
       Assets <- {1, 2}, Reasons <- 1..3, Scores <- {0, 4}, Window <- [from |-> 2, to |-> 8],
       TopN <- 2, MaxByAsset <- 2, NoReader <- None,
       Readers <- {None, [good |-> 3, target |-> 4], [good |-> 3, target |-> 0]}

\* Two files, edited once: texts, levels of access and reviews that differ.
Reviewed == [texts |-> <<"x", "y">>, acl |-> "public", version |-> 1, reviewed |-> TRUE]
Restricted == [texts |-> <<"x", "z">>, acl |-> "restricted", version |-> 1, reviewed |-> TRUE]
Later == [texts |-> <<"x">>, acl |-> "public", version |-> 2, reviewed |-> TRUE]
Withdrawn == [texts |-> <<"w">>, acl |-> "public", version |-> 3, reviewed |-> FALSE]
Versions == {Reviewed, Restricted, Later, Withdrawn}

\* What a step may spend, and the limits of an agent.
Spendings == {[tokens |-> 1, cost |-> 1, ms |-> 0], [tokens |-> 2, cost |-> 0, ms |-> 1],
              [tokens |-> 0, cost |-> 2, ms |-> 2]}
AgentLimits == [tokens |-> 3, cost |-> 2, ms |-> 2]

-----------------------------------------------------------------------------
MCInit ==
  /\ part \in {"calculation", "coach", "oee", "ingest", "scans", "governor", "budget",
               "bridge", "plant", "scripts"}
  /\ ServicesInit /\ CalculationsInit /\ Init /\ O!Init /\ IngestInit /\ LimitsInit /\ BudgetInit
  /\ part # "ingest" => file = [s \in {fileA, fileB} |-> Reviewed]

\* The detector's scans overlap each other; the governors' overlap one scan
\* whose alerts trigger nothing, and the decisions of people.
MCNext ==
  /\ UNCHANGED part
  /\ \/ part = "calculation" /\ CalculationsNext /\ UNCHANGED <<agentvars, servicevars>>
     \/ /\ UNCHANGED <<case, servicevars>>
        /\ \/ part = "coach" /\ Next /\ UNCHANGED <<oeevars, ingestvars, limitvars, budgetvars>>
           \/ part = "oee" /\ O!Next /\ UNCHANGED <<vars, ingestvars, limitvars, budgetvars>>
           \/ part = "ingest" /\ IngestNext /\ UNCHANGED <<vars, oeevars, limitvars, budgetvars>>
           \/ /\ part = "scans" /\ UNCHANGED governor /\ LimitsNext /\ Of("human")' = {}
              /\ UNCHANGED <<vars, oeevars, ingestvars, budgetvars>>
           \/ /\ part = "governor" /\ LimitsNext /\ scan'[d2] = Quiet
              /\ scan'[d1] # Quiet => scan'[d1].severity = "minor"
              /\ UNCHANGED <<vars, oeevars, ingestvars, budgetvars>>
           \/ part = "budget" /\ BudgetNext /\ UNCHANGED <<vars, oeevars, ingestvars, limitvars>>
     \/ ServicesNext /\ UNCHANGED <<case, agentvars>>

MCSpec == MCInit /\ [][MCNext]_<<part, case, agentvars, servicevars>>

Symmetric == Permutations(Clients) \cup Permutations(Gateways) \cup Permutations(Commands)

\* The figures of an OEE report agree with each other.
ReportHolds == O!ReportHolds
=============================================================================
