--------------------------- MODULE MCGatewayRequests ---------------------------
(* The requests of a gateway that serves, and the life of the process around *)
(* them: a behaviour is about one of the two.                                *)
EXTENDS GatewayRequests, GatewayLifecycle

VARIABLE part

allvars == <<part, vars, lifevars>>

\* Endpoints with the same record behave alike: one of each kind is requested
\* alone, while the process may restart, and two that share the cache together.
Kinds ==
  {{CHOOSE p \in Paths : Routes[p] = kind} : kind \in {Routes[p] : p \in Paths}}
    \cup {{"quality_event", "decide_approval"}}

MCInit ==
  /\ part \in {"requests", "lifespan"} /\ Init /\ LifeInit
  /\ part = "requests" => \A d \in Dependencies : up[d]
  /\ part = "lifespan" => offered = {"quality_event", "decide_approval"}

MCNext ==
  \/ /\ part = "requests" /\ Next /\ UNCHANGED <<part, lifevars>>
     /\ Cardinality(offered) = 2 => restarts' = 0
  \/ part = "lifespan" /\ LifeNext /\ UNCHANGED <<part, vars>>

LiveMCSpec ==
  /\ MCInit /\ [][MCNext]_allvars
  /\ \A c \in Clients : WF_allvars(
       part = "requests" /\ Handle(c) /\ UNCHANGED <<part, lifevars>>)
  /\ WF_allvars(part = "lifespan" /\ LifespanStep /\ UNCHANGED <<part, vars>>)
  /\ \A t \in Tasks :
       /\ WF_allvars(part = "lifespan" /\ ScanEnds(t) /\ UNCHANGED <<part, vars>>)
       /\ WF_allvars(part = "lifespan" /\ Leave(t) /\ UNCHANGED <<part, vars>>)

\* LifespanEnds, in the behaviours in which the lifespan goes on (lifespan.py:129).
StartsAndStopsEnd == part = "lifespan" => LifespanEnds
=============================================================================
