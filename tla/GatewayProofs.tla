--------------------------- MODULE GatewayProofs ---------------------------
(*************************************************************************)
(* Proofs about the gateway: the answers it gives under the Idempotency- *)
(* Key cache (AnswersExplained of GatewayRequests), for any number of    *)
(* clients, keys and bodies, any size and time to live of the cache, any *)
(* number of restarts; what its lifespan holds and stops (LifecycleHolds *)
(* of GatewayLifecycle), for any number of drops, of calls that raise    *)
(* and of cancellations; and what a KPI snapshot tells (KpisAgree of     *)
(* KpiSnapshot), for any number of rows.                                 *)
(*************************************************************************)
EXTENDS GatewayRequests, GatewayLifecycle, KpiSnapshot, FiniteSums

-----------------------------------------------------------------------------
(* Every run a request counts. *)

LEMMA SumMeans == ASSUME NEW S PROVE Sum(S) = Total(ran, S)
BY DEF Sum, MapThenSumSet, MapThenFoldSet, Total, AddsUp

-----------------------------------------------------------------------------
(* What the endpoints are, and what a request is *)

LEMMA RouteFacts ==
  /\ \A p \in Paths : /\ Routes[p].ok \in {200, 202}
                      /\ Routes[p].failures \subseteq {500, 503}
  /\ \A p \in Paths : Routes[p].work = "step" <=> p = "coach_step"
  /\ \A p \in Paths : Routes[p].work = "decide" <=> p = "decide_approval"
<1> DEFINE MF == {503, 500}
<1>1. /\ MaintenanceFailures = MF /\ KnowledgeFailures = MF /\ SupplyFailures = MF
  BY DEF MaintenanceFailures, KnowledgeFailures, SupplyFailures
<1>2. \A S \in {MF, {500}} : S \subseteq {500, 503}
  OBVIOUS
<1> HIDE DEF MF
<1>3. \A p \in Paths : Routes[p].failures \in {MF, {500}}
  BY <1>1 DEF Paths, Routes, Endpoint, anomaly_scan, production_plan, operator_chat, pm_score,
     rca_analyze, coach_start, coach_step, coach_resume, da_report, shift_handover_compile,
     training_session, training_resume, knowledge_curator_ingest, documentation_draft,
     inventory_check, inventory_resume, energy_optimize, energy_resume, cost_analyze,
     demand_forecast, demand_resume, quality_event, decide_approval
<1>4. \A p \in Paths : Routes[p].ok \in {200, 202}
  BY DEF Paths, Routes, Endpoint, anomaly_scan, production_plan, operator_chat, pm_score,
     rca_analyze, coach_start, coach_step, coach_resume, da_report, shift_handover_compile,
     training_session, training_resume, knowledge_curator_ingest, documentation_draft,
     inventory_check, inventory_resume, energy_optimize, energy_resume, cost_analyze,
     demand_forecast, demand_resume, quality_event, decide_approval
<1>5. \A p \in Paths : Routes[p].work = "step" <=> p = "coach_step"
  BY DEF Paths, Routes, Endpoint, anomaly_scan, production_plan, operator_chat, pm_score,
     rca_analyze, coach_start, coach_step, coach_resume, da_report, shift_handover_compile,
     training_session, training_resume, knowledge_curator_ingest, documentation_draft,
     inventory_check, inventory_resume, energy_optimize, energy_resume, cost_analyze,
     demand_forecast, demand_resume, quality_event, decide_approval
<1>6. \A p \in Paths : Routes[p].work = "decide" <=> p = "decide_approval"
  BY DEF Paths, Routes, Endpoint, anomaly_scan, production_plan, operator_chat, pm_score,
     rca_analyze, coach_start, coach_step, coach_resume, da_report, shift_handover_compile,
     training_session, training_resume, knowledge_curator_ingest, documentation_draft,
     inventory_check, inventory_resume, energy_optimize, energy_resume, cost_analyze,
     demand_forecast, demand_resume, quality_event, decide_approval
<1> QED BY <1>2, <1>3, <1>4, <1>5, <1>6

Resting == [at |-> "idle"]
Moving == {"check", "work", "update", "resume", "store"}
Flying == [at : Moving, path : Paths, key : Keys \cup {NoKey}, body : Bodies \cup {Malformed}]
Ended == [at : {"answered"}, path : Paths, key : Keys \cup {NoKey},
          body : Bodies \cup {Malformed}, status : Nat, of : Bodies \cup {Malformed}]
Entry == [expires : Int, body : Bodies, status : Nat]
Attempts == offered \X (Keys \cup {NoKey}) \X Bodies

Counters ==
  /\ now \in 0..MaxNow /\ sent \in 0..MaxRequests /\ restarts \in 0..MaxRestarts
  /\ offered \in Offers /\ approval \in {"absent", "pending", "decided"}

Requests ==
  /\ request \in [Clients -> {Resting} \cup Flying \cup Ended]
  /\ \A c \in Clients :
       /\ request[c].at # "idle" => request[c].path \in offered
       /\ request[c].at \in {"work", "update", "resume", "store"} => request[c].body \in Bodies
       /\ request[c].at = "work" => request[c].path \in Paths
       /\ request[c].at \in {"update", "resume"} => request[c].path = "decide_approval"

Cached ==
  /\ store \in [DOMAIN store -> Entry]
  /\ IsFiniteSet(DOMAIN store) /\ Cardinality(DOMAIN store) <= MaxSize
  /\ DOMAIN store \subseteq {s \in offered \X Keys : Routes[s[1]].cached}
  /\ \A s \in DOMAIN store : store[s].expires <= now + TTL

Tallies == ran \in [Attempts -> Nat] /\ excuses \in [offered \X Keys -> Nat]

Shapes == Counters /\ Requests /\ Cached /\ Tallies

\* A request in flight, field by field.
LEMMA RequestShape ==
  ASSUME Shapes, NEW c \in Clients, request[c].at # "idle"
  PROVE  /\ request[c].path \in Paths /\ request[c].path \in offered
         /\ request[c].key \in Keys \cup {NoKey}
         /\ request[c].body \in Bodies \cup {Malformed}
         /\ request[c].at \in Moving \cup {"answered"}
         /\ Keyed(c) => /\ Slot(c) \in offered \X Keys
                        /\ Routes[Slot(c)[1]].cached
BY DEF Shapes, Requests, Resting, Flying, Ended, Moving, Keyed, Slot, Route

-----------------------------------------------------------------------------
(* The steps by what they do to the requests, the cache and the tallies *)

GoesTo(c, at) == request' = [request EXCEPT ![c].at = at]

\* Time passes, or the approval is decided elsewhere.
Rests ==
  /\ UNCHANGED <<offered, store, request, ran, excuses>>
  /\ approval' = approval \/ (approval = "pending" /\ approval' = "decided")
  /\ now' \in Nat /\ now' >= now

Sends(c) ==
  /\ ~InFlight(c)
  /\ \E p \in offered \cap Paths, k \in Keys \cup {NoKey}, b \in Bodies \cup {Malformed} :
       request' = [request EXCEPT ![c] = [at |-> "check", path |-> p, key |-> k, body |-> b]]
  /\ UNCHANGED <<now, offered, store, approval, ran, excuses>>

\* The truth of an answer that is not of the run itself.
Truthful(c, status, of) ==
  /\ status \in {200, 202} =>
       /\ Keyed(c) /\ Slot(c) \in DOMAIN store /\ request[c].at = "check"
       /\ store[Slot(c)].body = request[c].body /\ of = request[c].body
  /\ status = 409 /\ request[c].path # "coach_step" =>
       Keyed(c) /\ Slot(c) \in DOMAIN store /\ store[Slot(c)].body # request[c].body
  /\ status = 404 => approval # "pending"

Ends(c, status, of) ==
  /\ request[c].at \in {"check", "work", "update", "resume"}
  /\ status \in Nat /\ of \in Bodies \cup {Malformed}
  /\ Truthful(c, status, of)
  /\ Answer(c, status, of)
  /\ UNCHANGED <<now, offered, store, approval, ran, excuses>>

Works(c) ==
  /\ request[c].at = "check" /\ request[c].body # Malformed
  /\ Unkeyed(c) \/ Miss(c)
  /\ UNCHANGED <<now, offered, approval, ran>>

Selects(c) ==
  /\ request[c].at = "work" /\ Route(c).work = "decide" /\ GoesTo(c, "update")
  /\ UNCHANGED <<now, offered, store, approval, ran, excuses>>

Succeeds(c) ==
  /\ Succeeded(c)
  /\ \/ /\ request[c].at = "work" /\ Route(c).work # "decide"
        /\ GoesTo(c, "store") /\ UNCHANGED approval
     \/ /\ request[c].at = "update" /\ approval = "pending" /\ approval' = "decided"
        /\ GoesTo(c, "resume")
  /\ UNCHANGED <<now, offered, store, excuses>>

Resumes(c) ==
  /\ request[c].at = "resume" /\ GoesTo(c, "store")
  /\ UNCHANGED <<now, offered, store, approval, ran, excuses>>

LEMMA HandlesAre ==
  ASSUME Shapes, NEW c \in Clients, Handle(c)
  PROVE  \/ \E status, of : Ends(c, status, of)
         \/ Works(c) \/ Selects(c) \/ Succeeds(c) \/ Resumes(c) \/ Store(c)
<1> USE DEF outside, history
<1>1. CASE Reject(c)
  <2>1. Ends(c, 422, Malformed)
    BY <1>1 DEF Reject, Ends, Truthful
  <2> QED BY <2>1
<1>2. CASE Check(c)
  <2>1. request[c].at = "check" /\ request[c].path \in Paths
    BY <1>2, RequestShape DEF Check
  <2>2. CASE Hit(c)
    <3>1. Ends(c, Route(c).ok, store[Slot(c)].body)
      <4>1. Route(c).ok \in {200, 202}
        BY <2>1, RouteFacts DEF Route
      <4>2. /\ Slot(c) \in DOMAIN store /\ store[Slot(c)].body \in Bodies
            /\ store[Slot(c)].body = request[c].body
        BY <2>2 DEF Hit, Live, SameBody, Shapes, Cached, Entry
      <4>3. Truthful(c, Route(c).ok, store[Slot(c)].body)
        BY <2>1, <2>2, <4>1, <4>2 DEF Truthful, Hit
      <4> QED BY <1>2, <2>1, <2>2, <4>1, <4>2, <4>3 DEF Ends, Hit, Check
    <3> QED BY <3>1
  <2>3. CASE Conflict(c)
    <3>1. Ends(c, 409, Malformed)
      BY <1>2, <2>1, <2>3 DEF Ends, Conflict, Check, Truthful, Live, SameBody
    <3> QED BY <3>1
  <2>4. CASE Unkeyed(c) \/ Miss(c)
    BY <1>2, <2>4 DEF Check, Works, Unkeyed, Miss
  <2> QED BY <1>2, <2>2, <2>3, <2>4 DEF Check
<1>3. CASE Work(c)
  <2>1. request[c].at = "work" /\ request[c].path \in Paths
    BY <1>3, RequestShape DEF Work
  <2>2. Route(c).failures \subseteq {500, 503}
    BY <2>1, RouteFacts DEF Route
  <2>3. ASSUME NEW status \in {400, 404, 409, 500, 503}, Refuse(c, status),
               status = 404 => approval # "pending",
               status = 409 => request[c].path = "coach_step"
        PROVE  Ends(c, status, Malformed)
    BY <1>3, <2>1, <2>3 DEF Ends, Refuse, Truthful, Work
  <2>4. CASE Done(c) /\ Route(c).work # "decide"
    BY <1>3, <2>1, <2>4 DEF Done, Succeeds, GoesTo, Go, Work
  <2>5. CASE InvokeGraph(c) /\ Route(c).work # "decide"
    BY <2>2, <2>3, <2>4, <2>5 DEF InvokeGraph
  <2>6. CASE StepCoach(c) /\ Route(c).work = "step"
    <3>1. request[c].path = "coach_step"
      BY <2>1, <2>6, RouteFacts DEF Route
    <3> QED BY <2>3, <2>5, <2>6, <3>1 DEF StepCoach
  <2>7. CASE PublishEvent(c) /\ Route(c).work # "decide"
    BY <2>3, <2>4, <2>7 DEF PublishEvent
  <2>8. CASE SelectApproval(c) /\ Route(c).work = "decide"
    BY <1>3, <2>1, <2>3, <2>8 DEF SelectApproval, Selects, GoesTo, Go, Work
  <2> QED BY <1>3, <2>5, <2>6, <2>7, <2>8 DEF Work
<1>4. CASE Decide(c)
  <2>1. request[c].at = "update"
    BY <1>4 DEF Decide
  <2>2. ASSUME NEW status \in {404, 500}, Answer(c, status, Malformed),
               UNCHANGED <<approval, ran>>, status = 404 => approval # "pending"
        PROVE  Ends(c, status, Malformed)
    BY <1>4, <2>1, <2>2 DEF Ends, Truthful, Decide
  <2>3. CASE Decides /\ approval' = "decided" /\ Go(c, "resume") /\ Succeeded(c)
    BY <1>4, <2>1, <2>3 DEF Succeeds, GoesTo, Go, Decide, Decides
  <2> QED BY <1>4, <2>2, <2>3 DEF Decide, Decides
<1>5. CASE Resume(c)
  <2>1. CASE Go(c, "store")
    BY <1>5, <2>1 DEF Resume, Resumes, GoesTo, Go
  <2>2. CASE Answer(c, 500, Malformed)
    <3>1. Ends(c, 500, Malformed)
      BY <1>5, <2>2 DEF Resume, Ends, Truthful
    <3> QED BY <3>1
  <2> QED BY <1>5, <2>1, <2>2 DEF Resume
<1> QED BY <1>1, <1>2, <1>3, <1>4, <1>5 DEF Handle

LEMMA StepsAre ==
  ASSUME Shapes, [Next]_vars
  PROVE  \/ Rests
         \/ Restart
         \/ \E c \in Clients :
              \/ Sends(c)
              \/ \E status, of : Ends(c, status, of)
              \/ Works(c) \/ Selects(c) \/ Succeeds(c) \/ Resumes(c) \/ Store(c)
<1> USE DEF outside, history
<1>0. now \in Nat
  BY BoundAssumption DEF Shapes, Counters
<1>1. CASE UNCHANGED vars
  BY <1>0, <1>1 DEF vars, Rests
<1>2. CASE Tick
  BY <1>0, <1>2 DEF Tick, Rests
<1>3. CASE DecidedElsewhere
  BY <1>0, <1>3 DEF DecidedElsewhere, Rests
<1>4. ASSUME NEW c \in Clients, NEW path \in Paths, NEW key \in Keys \cup {NoKey},
             NEW body \in Bodies \cup {Malformed}, Send(c, path, key, body)
      PROVE  Sends(c)
  BY <1>4 DEF Send, Sends
<1> QED BY <1>1, <1>2, <1>3, <1>4, HandlesAre DEF Next

-----------------------------------------------------------------------------
(* The shapes *)

LEMMA CountersStep ==
  ASSUME Counters, [Next]_vars
  PROVE  Counters' /\ offered' = offered
<1> USE BoundAssumption DEF Counters, outside, history
<1>1. CASE UNCHANGED vars
  BY <1>1 DEF vars
<1>2. CASE Tick
  BY <1>2 DEF Tick
<1>3. CASE DecidedElsewhere
  BY <1>3 DEF DecidedElsewhere
<1>4. CASE Restart
  BY <1>4 DEF Restart
<1>5. ASSUME NEW c, NEW path, NEW key, NEW body, Send(c, path, key, body)
      PROVE  Counters' /\ offered' = offered
  BY <1>5 DEF Send
<1>6. ASSUME NEW c, Handle(c)
      PROVE  /\ UNCHANGED outside
             /\ approval' = approval \/ approval' = "decided"
  <2>1. CASE Reject(c)
    BY <2>1 DEF Reject
  <2>2. CASE Check(c)
    BY <2>2 DEF Check
  <2>3. CASE Work(c)
    BY <2>3 DEF Work, InvokeGraph, StepCoach, PublishEvent, SelectApproval, Done, Refuse
  <2>4. CASE Decide(c)
    BY <2>4 DEF Decide
  <2>5. CASE Resume(c)
    BY <2>5 DEF Resume
  <2>6. CASE Store(c)
    BY <2>6 DEF Store
  <2> QED BY <1>6, <2>1, <2>2, <2>3, <2>4, <2>5, <2>6 DEF Handle
<1>7. ASSUME NEW c, Handle(c)
      PROVE  Counters' /\ offered' = offered
  BY <1>6, <1>7
<1> QED BY <1>1, <1>2, <1>3, <1>4, <1>5, <1>7 DEF Next

\* What becomes of the requests when c goes on or is answered.
LEMMA RequestMoves ==
  ASSUME Shapes, offered' = offered, NEW c \in Clients, NEW q,
         request' = [request EXCEPT ![c] = q],
         q \in {Resting} \cup Flying \cup Ended,
         q.at # "idle" => q.path \in offered,
         q.at \in {"work", "update", "resume", "store"} => q.body \in Bodies,
         q.at \in {"update", "resume"} => q.path = "decide_approval"
  PROVE  Requests'
<1>1. /\ request'[c] = q /\ \A d \in Clients \ {c} : request'[d] = request[d]
      /\ request' \in [Clients -> {Resting} \cup Flying \cup Ended]
  BY DEF Shapes, Requests
<1>2. q.at = "work" => q.path \in Paths
  BY DEF Resting, Flying, Ended
<1> QED BY <1>1, <1>2 DEF Shapes, Requests

LEMMA RequestGoes ==
  ASSUME Shapes, offered' = offered, NEW c \in Clients,
         NEW at \in {"work", "update", "resume", "store"}, GoesTo(c, at),
         request[c].at \in Moving, request[c].body # Malformed,
         at \in {"update", "resume"} => request[c].path = "decide_approval"
  PROVE  Requests' /\ request'[c].at = at
<1>1. request \in [Clients -> {Resting} \cup Flying \cup Ended] /\ request[c] \in Flying
  BY DEF Shapes, Requests, Moving, Resting, Flying, Ended
<1> DEFINE q == [request[c] EXCEPT !.at = at]
<1>2. q \in Flying /\ q.path = request[c].path /\ q.body = request[c].body /\ q.at = at
  BY <1>1 DEF Flying, Moving
<1>3. request' = [request EXCEPT ![c] = q]
  BY <1>1 DEF GoesTo
<1>4. q.body \in Bodies
  BY <1>1, <1>2 DEF Flying
<1>5. q.path \in offered
  BY <1>1, <1>2 DEF Shapes, Requests, Flying, Moving
<1>6. request'[c].at = at
  BY <1>1, <1>2, <1>3
<1> HIDE DEF q
<1> QED BY <1>2, <1>3, <1>4, <1>5, <1>6, RequestMoves

LEMMA RequestEnds ==
  ASSUME Shapes, offered' = offered, NEW c \in Clients,
         NEW status \in Nat, NEW of \in Bodies \cup {Malformed}, Answer(c, status, of),
         request[c].at \in Moving
  PROVE  /\ Requests'
         /\ request'[c].at = "answered" /\ request'[c].status = status
         /\ request'[c].of = of /\ request'[c].path = request[c].path
         /\ request'[c].key = request[c].key /\ request'[c].body = request[c].body
         /\ \A d \in Clients \ {c} : request'[d] = request[d]
<1>1. request \in [Clients -> {Resting} \cup Flying \cup Ended] /\ request[c] \in Flying
  BY DEF Shapes, Requests, Moving, Resting, Flying, Ended
<1> DEFINE q == [at |-> "answered", path |-> request[c].path, key |-> request[c].key,
                 body |-> request[c].body, status |-> status, of |-> of]
<1>2. q \in Ended /\ q.path = request[c].path /\ q.at = "answered"
  BY <1>1 DEF Flying, Ended
<1>3. request' = [request EXCEPT ![c] = q]
  BY <1>1 DEF Answer
<1>4. q.path \in offered
  BY <1>1, <1>2 DEF Shapes, Requests, Flying, Moving
<1>5. Requests'
  <2> HIDE DEF q
  <2> QED BY <1>2, <1>3, <1>4, RequestMoves
<1> QED BY <1>1, <1>3, <1>5

\* What storing an answer does: the entry is there, and at most one other went,
\* which is an excuse.
LEMMA PutEffect ==
  ASSUME Cached, Tallies, now \in Nat, NEW slot \in offered \X Keys, NEW body \in Bodies,
         NEW status \in Nat, Routes[slot[1]].cached, Put(slot, body, status),
         offered' = offered, now' = now
  PROVE  /\ Cached' /\ slot \in DOMAIN store'
         /\ store'[slot].body = body
         /\ excuses' \in [offered \X Keys -> Nat]
         /\ DOMAIN store' \subseteq DOMAIN store \cup {slot}
         /\ \A s \in DOMAIN store' : s # slot => store'[s] = store[s]
         /\ \A s \in offered \X Keys :
              \/ excuses'[s] = excuses[s] /\ (s \in DOMAIN store => s \in DOMAIN store')
              \/ excuses'[s] = excuses[s] + 1 /\ s # slot
<1> DEFINE e == [expires |-> now + TTL, body |-> body, status |-> status]
<1>0. e \in Entry /\ e.body = body /\ e.expires = now + TTL
  BY CacheAssumption DEF Entry
<1>1. /\ store \in [DOMAIN store -> Entry]
      /\ IsFiniteSet(DOMAIN store) /\ Cardinality(DOMAIN store) <= MaxSize
      /\ Cardinality(DOMAIN store) \in Nat /\ MaxSize \in Nat
      /\ DOMAIN store \subseteq {s \in offered \X Keys : Routes[s[1]].cached}
      /\ \A s \in DOMAIN store : store[s].expires <= now + TTL
      /\ excuses \in [offered \X Keys -> Nat]
  BY FS_CardinalityType, CacheAssumption DEF Cached, Tallies
<1> HIDE DEF e
<1>2. ASSUME NEW f, DOMAIN f \subseteq DOMAIN store, f \in [DOMAIN f -> Entry],
             \A s \in DOMAIN f : f[s] = store[s], store' = With(slot, e, f)
      PROVE  /\ store' \in [DOMAIN store' -> Entry]
             /\ IsFiniteSet(DOMAIN store')
             /\ DOMAIN store' \subseteq {s \in offered \X Keys : Routes[s[1]].cached}
             /\ \A s \in DOMAIN store' : store'[s].expires <= now + TTL
             /\ DOMAIN store' = DOMAIN f \cup {slot} /\ store'[slot] = e
             /\ \A s \in DOMAIN store' : s # slot => store'[s] = store[s]
             /\ Cardinality(DOMAIN store') <= Cardinality(DOMAIN f) + 1
             /\ Cardinality(DOMAIN f) \in Nat
  <2>1. /\ DOMAIN store' = DOMAIN f \cup {slot} /\ store'[slot] = e
        /\ \A s \in DOMAIN f : s # slot => store'[s] = store[s]
    <3>1. store' = [s \in DOMAIN f \cup {slot} |-> IF s = slot THEN e ELSE f[s]]
      BY <1>2 DEF With
    <3> QED BY <1>2, <3>1
  <2>2. store' \in [DOMAIN store' -> Entry]
    <3>1. store' = [s \in DOMAIN f \cup {slot} |-> IF s = slot THEN e ELSE f[s]]
      BY <1>2 DEF With
    <3>2. \A s \in DOMAIN f \cup {slot} : (IF s = slot THEN e ELSE f[s]) \in Entry
      BY <1>0, <1>2
    <3> QED BY <3>1, <3>2
  <2>3. IsFiniteSet(DOMAIN f) /\ Cardinality(DOMAIN f) \in Nat
    BY <1>1, <1>2, FS_Subset, FS_CardinalityType
  <2>4. IsFiniteSet(DOMAIN store') /\ Cardinality(DOMAIN store') <= Cardinality(DOMAIN f) + 1
    BY <2>1, <2>3, FS_AddElement
  <2>5. \A s \in DOMAIN store' : store'[s].expires <= now + TTL
    <3>1. now + TTL \in Int
      BY CacheAssumption
    <3> QED BY <1>0, <1>1, <1>2, <2>1, <3>1
  <2> QED BY <1>1, <1>2, <2>1, <2>2, <2>3, <2>4, <2>5
<1>3. CASE ~Full /\ store' = With(slot, e, store) /\ UNCHANGED excuses
  <2>1. Cardinality(DOMAIN store) < MaxSize
    BY <1>1, <1>3 DEF Full
  <2>2. /\ store' \in [DOMAIN store' -> Entry]
        /\ IsFiniteSet(DOMAIN store')
        /\ DOMAIN store' \subseteq {s \in offered \X Keys : Routes[s[1]].cached}
        /\ \A s \in DOMAIN store' : store'[s].expires <= now + TTL
        /\ DOMAIN store' = DOMAIN store \cup {slot} /\ store'[slot] = e
        /\ \A s \in DOMAIN store' : s # slot => store'[s] = store[s]
        /\ Cardinality(DOMAIN store') <= Cardinality(DOMAIN store) + 1
    BY <1>1, <1>2, <1>3
  <2>3. Cardinality(DOMAIN store') <= MaxSize
    <3>1. Cardinality(DOMAIN store') \in Nat
      BY <2>2, FS_CardinalityType
    <3> QED BY <1>1, <2>1, <2>2, <3>1
  <2>4. Cached'
    BY <2>2, <2>3 DEF Cached
  <2> QED BY <1>0, <1>1, <1>3, <2>2, <2>4
<1>4. ASSUME NEW old \in DOMAIN store, store' = With(slot, e, Without(old)),
             excuses' = IF old = slot THEN excuses ELSE [excuses EXCEPT ![old] = @ + 1]
      PROVE  /\ Cached' /\ slot \in DOMAIN store'
             /\ store'[slot].body = body
             /\ excuses' \in [offered \X Keys -> Nat]
             /\ DOMAIN store' \subseteq DOMAIN store \cup {slot}
             /\ \A s \in DOMAIN store' : s # slot => store'[s] = store[s]
             /\ \A s \in offered \X Keys :
                  \/ excuses'[s] = excuses[s] /\ (s \in DOMAIN store => s \in DOMAIN store')
                  \/ excuses'[s] = excuses[s] + 1 /\ s # slot
  <2> DEFINE f == Without(old)
  <2>1. /\ DOMAIN f = DOMAIN store \ {old} /\ f \in [DOMAIN f -> Entry]
        /\ \A s \in DOMAIN f : f[s] = store[s]
    <3>1. \A s \in DOMAIN store \ {old} : store[s] \in Entry
      BY <1>1
    <3> QED BY <3>1 DEF Without
  <2>2. Cardinality(DOMAIN f) = Cardinality(DOMAIN store) - 1
    BY <1>1, <2>1, FS_RemoveElement
  <2> HIDE DEF f
  <2>3. store' = With(slot, e, f)
    BY <1>4 DEF f
  <2>4. /\ store' \in [DOMAIN store' -> Entry]
        /\ IsFiniteSet(DOMAIN store')
        /\ DOMAIN store' \subseteq {s \in offered \X Keys : Routes[s[1]].cached}
        /\ \A s \in DOMAIN store' : store'[s].expires <= now + TTL
        /\ DOMAIN store' = DOMAIN f \cup {slot} /\ store'[slot] = e
        /\ \A s \in DOMAIN store' : s # slot => store'[s] = store[s]
        /\ Cardinality(DOMAIN store') <= Cardinality(DOMAIN f) + 1
        /\ Cardinality(DOMAIN f) \in Nat
    BY <1>2, <2>1, <2>3
  <2>5. Cardinality(DOMAIN store') <= MaxSize
    <3>1. Cardinality(DOMAIN store') \in Nat
      BY <2>4, FS_CardinalityType
    <3> QED BY <1>1, <2>2, <2>4, <3>1
  <2>6. Cached'
    BY <2>4, <2>5 DEF Cached
  <2>7. old \in offered \X Keys
    BY <1>1
  <2>8. /\ excuses' \in [offered \X Keys -> Nat]
        /\ \A s \in offered \X Keys :
             \/ excuses'[s] = excuses[s] /\ (s \in DOMAIN store => s \in DOMAIN store')
             \/ excuses'[s] = excuses[s] + 1 /\ s # slot
    <3>1. CASE old = slot
      BY <1>1, <1>4, <2>1, <2>4, <3>1
    <3>2. CASE old # slot
      BY <1>1, <1>4, <2>1, <2>4, <2>7, <3>2
    <3> QED BY <3>1, <3>2
  <2> QED BY <1>0, <2>1, <2>4, <2>6, <2>8
<1> QED BY <1>3, <1>4 DEF Put, e

Handling == {"work", "update", "resume", "store"}

\* The requests that are worked on under a slot.
OnSlot(s) == {c \in Clients : request[c].at \in Handling /\ Slot(c) = s}

LEMMA HandlingIs ==
  ASSUME Shapes, NEW c \in Clients
  PROVE  InFlight(c) /\ request[c].at # "check" <=> request[c].at \in Handling
BY DEF Shapes, Requests, Resting, Flying, Ended, Moving, InFlight, Handling

\* The entry of a miss is gone, and it is an excuse, as is another request that
\* is worked on under the slot.
LEMMA MissEffect ==
  ASSUME Shapes, NEW c \in Clients, request[c].at = "check", Miss(c), offered' = offered,
         now' = now
  PROVE  /\ Cached' /\ excuses' \in [offered \X Keys -> Nat]
         /\ Slot(c) \in offered \X Keys /\ Slot(c) \notin DOMAIN store'
         /\ DOMAIN store' = DOMAIN store \ {Slot(c)}
         /\ \A s \in DOMAIN store' : store'[s] = store[s]
         /\ \A s \in offered \X Keys : s # Slot(c) => excuses'[s] = excuses[s]
         /\ excuses'[Slot(c)] >= excuses[Slot(c)]
         /\ Slot(c) \in DOMAIN store => excuses'[Slot(c)] >= excuses[Slot(c)] + 1
         /\ OnSlot(Slot(c)) # {} => excuses'[Slot(c)] >= excuses[Slot(c)] + 1
<1> DEFINE slot == Slot(c)
           lost == Cardinality({slot} \cap DOMAIN store)
           overlaps == {d \in Clients \ {c} : InFlight(d) /\ request[d].at # "check"
                                                /\ Slot(d) = slot}
           more == IF overlaps # {} THEN 1 ELSE 0
<1>1. slot \in offered \X Keys
  BY RequestShape DEF Miss
<1>2. lost \in Nat /\ (slot \in DOMAIN store => lost = 1)
  <2>1. IsFiniteSet({slot} \cap DOMAIN store)
    BY FS_Singleton, FS_Subset
  <2>2. slot \in DOMAIN store => {slot} \cap DOMAIN store = {slot}
    OBVIOUS
  <2> QED BY <2>1, <2>2, FS_CardinalityType, FS_Singleton
<1>3. OnSlot(slot) # {} => overlaps # {}
  <2>1. c \notin OnSlot(slot)
    BY DEF OnSlot, Handling
  <2> QED BY <2>1, HandlingIs DEF OnSlot
<1>4. /\ excuses \in [offered \X Keys -> Nat]
      /\ excuses' = [excuses EXCEPT ![slot] = @ + lost + more]
      /\ store' = Without(slot)
  BY DEF Miss, Shapes, Tallies
<1>5. lost + more \in Nat /\ more \in Nat /\ (OnSlot(slot) # {} => more = 1)
  BY <1>2, <1>3
<1>6. /\ store \in [DOMAIN store -> Entry]
      /\ IsFiniteSet(DOMAIN store) /\ Cardinality(DOMAIN store) <= MaxSize
      /\ DOMAIN store \subseteq {s \in offered \X Keys : Routes[s[1]].cached}
      /\ \A s \in DOMAIN store : store[s].expires <= now + TTL
  BY DEF Shapes, Cached
<1>7. /\ DOMAIN store' = DOMAIN store \ {slot} /\ store' \in [DOMAIN store' -> Entry]
      /\ \A s \in DOMAIN store' : store'[s] = store[s]
  <2>1. \A s \in DOMAIN store \ {slot} : store[s] \in Entry
    BY <1>6
  <2> QED BY <1>4, <2>1 DEF Without
<1>8. IsFiniteSet(DOMAIN store') /\ Cardinality(DOMAIN store') <= MaxSize
  <2>1. IsFiniteSet(DOMAIN store') /\ Cardinality(DOMAIN store') <= Cardinality(DOMAIN store)
    BY <1>6, <1>7, FS_Subset
  <2>2. Cardinality(DOMAIN store') \in Nat /\ Cardinality(DOMAIN store) \in Nat
    BY <1>6, <2>1, FS_CardinalityType
  <2> QED BY <1>6, <2>1, <2>2, CacheAssumption
<1>9. Cached'
  BY <1>6, <1>7, <1>8 DEF Cached
<1>10. /\ excuses' \in [offered \X Keys -> Nat]
       /\ \A s \in offered \X Keys : s # slot => excuses'[s] = excuses[s]
       /\ excuses'[slot] = excuses[slot] + lost + more /\ excuses[slot] \in Nat
  <2> HIDE DEF lost, more, slot
  <2> QED BY <1>1, <1>2, <1>4, <1>5
<1> HIDE DEF lost, more
<1> QED BY <1>1, <1>2, <1>5, <1>7, <1>9, <1>10

\* What a restart takes counts as an excuse of its slot.
LEMMA RestartEffect ==
  ASSUME Shapes, Restart, offered' = offered, now' = now
  PROVE  /\ Requests' /\ Cached' /\ excuses' \in [offered \X Keys -> Nat]
         /\ DOMAIN store' = {} /\ UNCHANGED <<approval, ran>>
         /\ \A c \in Clients : request'[c] = request[c] \/ request'[c] = Resting
         /\ \A c \in Clients : request'[c].at \notin Moving
         /\ \A s \in offered \X Keys :
              /\ excuses'[s] >= excuses[s]
              /\ s \in DOMAIN store \/ OnSlot(s) # {} => excuses'[s] >= excuses[s] + 1
<1>1. /\ store' = <<>> /\ DOMAIN store' = {} /\ UNCHANGED <<approval, ran>>
      /\ request' = [c \in Clients |-> IF InFlight(c) THEN Resting ELSE request[c]]
  BY DEF Restart, Resting
<1>2. request \in [Clients -> {Resting} \cup Flying \cup Ended]
  BY DEF Shapes, Requests
<1>3. request' \in [Clients -> {Resting} \cup Flying \cup Ended]
  BY <1>1, <1>2
<1>4. \A c \in Clients : request'[c].at \notin Moving
  <2> SUFFICES ASSUME NEW c \in Clients
               PROVE  request'[c].at \notin Moving
    OBVIOUS
  <2>1. CASE InFlight(c)
    BY <1>1, <2>1 DEF Resting, Moving
  <2>2. CASE ~InFlight(c)
    BY <1>1, <2>2 DEF InFlight, Moving
  <2> QED BY <2>1, <2>2
<1>5. \A c \in Clients : request'[c] = request[c] \/ request'[c] = Resting
  BY <1>1
<1>6. Requests'
  BY <1>3, <1>4, <1>5 DEF Shapes, Requests, Resting, Moving
<1>7. Cached'
  <2>1. Cardinality({}) = 0 /\ IsFiniteSet({})
    BY FS_EmptySet
  <2>2. store' \in [DOMAIN store' -> Entry]
    BY <1>1
  <2> QED BY <1>1, <2>1, <2>2, CacheAssumption DEF Cached
<1>8. ASSUME NEW s \in offered \X Keys
      PROVE  /\ excuses'[s] \in Nat /\ excuses'[s] >= excuses[s]
             /\ s \in DOMAIN store \/ OnSlot(s) # {} => excuses'[s] >= excuses[s] + 1
  <2> DEFINE lost == Cardinality({s} \cap DOMAIN store)
             flying == {c \in Clients : InFlight(c) /\ request[c].at # "check" /\ Slot(c) = s}
             cut == Cardinality(flying)
  <2>1. excuses'[s] = excuses[s] + lost + cut /\ excuses[s] \in Nat
    BY DEF Restart, Shapes, Tallies
  <2>2. lost \in Nat /\ (s \in DOMAIN store => lost = 1)
    <3>1. IsFiniteSet({s} \cap DOMAIN store)
      BY FS_Singleton, FS_Subset
    <3>2. s \in DOMAIN store => {s} \cap DOMAIN store = {s}
      OBVIOUS
    <3> QED BY <3>1, <3>2, FS_CardinalityType, FS_Singleton
  <2>3. IsFiniteSet(flying)
    BY RequestAssumption, FS_Subset
  <2>4. OnSlot(s) # {} => flying # {}
    BY HandlingIs DEF OnSlot
  <2>5. cut \in Nat /\ (OnSlot(s) # {} => cut # 0)
    BY <2>3, <2>4, FS_CardinalityType, FS_EmptySet
  <2> HIDE DEF lost, cut
  <2> QED BY <2>1, <2>2, <2>5
<1>9. excuses' \in [offered \X Keys -> Nat]
  <2>1. /\ DOMAIN excuses = offered \X Keys
        /\ excuses' = [s \in DOMAIN excuses |-> excuses'[s]]
    BY DEF Restart, Shapes, Tallies
  <2> QED BY <1>8, <2>1
<1> QED BY <1>1, <1>4, <1>5, <1>6, <1>7, <1>8, <1>9

\* A run that succeeds is counted.
LEMMA SucceedsCounts ==
  ASSUME Shapes, NEW c \in Clients, Succeeds(c)
  PROVE  LET r == <<request[c].path, request[c].key, request[c].body>> IN
         /\ r \in Attempts /\ request[c].at \in Moving /\ request[c].body # Malformed
         /\ ran' \in [Attempts -> Nat]
         /\ \A a \in Attempts : ran'[a] = IF a = r THEN ran[a] + 1 ELSE ran[a]
<1> DEFINE r == <<request[c].path, request[c].key, request[c].body>>
<1>1. request[c].at \in {"work", "update"}
  BY DEF Succeeds
<1>2. request[c].body \in Bodies /\ request[c].body # Malformed
  BY <1>1, RequestAssumption DEF Shapes, Requests
<1>3. r \in Attempts
  BY <1>1, <1>2, RequestShape DEF Attempts
<1>4. ran \in [Attempts -> Nat] /\ ran' = [ran EXCEPT ![r] = @ + 1]
  BY DEF Shapes, Tallies, Succeeds, Succeeded
<1>5. /\ ran' \in [Attempts -> Nat]
      /\ \A a \in Attempts : ran'[a] = IF a = r THEN ran[a] + 1 ELSE ran[a]
  <2> HIDE DEF r
  <2> QED BY <1>3, <1>4
<1> QED BY <1>1, <1>2, <1>3, <1>5 DEF Moving

\* Storing an answer.
LEMMA StoreEffect ==
  ASSUME Shapes, NEW c \in Clients, Store(c), offered' = offered
  PROVE  /\ request[c].at = "store" /\ request[c].body \in Bodies /\ Route(c).ok \in {200, 202}
         /\ Answer(c, Route(c).ok, request[c].body) /\ UNCHANGED <<now, approval, ran>>
         /\ Cached' /\ excuses' \in [offered \X Keys -> Nat]
         /\ \/ ~Keyed(c) /\ UNCHANGED <<store, excuses>>
            \/ /\ Keyed(c) /\ Slot(c) \in offered \X Keys
               /\ Slot(c) \in DOMAIN store' /\ store'[Slot(c)].body = request[c].body
               /\ DOMAIN store' \subseteq DOMAIN store \cup {Slot(c)}
               /\ \A s \in DOMAIN store' : s # Slot(c) => store'[s] = store[s]
               /\ \A s \in offered \X Keys :
                    \/ excuses'[s] = excuses[s] /\ (s \in DOMAIN store => s \in DOMAIN store')
                    \/ excuses'[s] = excuses[s] + 1 /\ s # Slot(c)
<1>1. /\ request[c].at = "store" /\ Answer(c, Route(c).ok, request[c].body)
      /\ UNCHANGED <<now, approval, ran>>
  BY DEF Store, outside
<1>2. request[c].body \in Bodies /\ request[c].path \in Paths
  BY <1>1, RequestShape DEF Shapes, Requests
<1>3. Route(c).ok \in {200, 202} /\ Route(c).ok \in Nat
  BY <1>2, RouteFacts DEF Route
<1>4. Cached /\ Tallies /\ now \in Nat
  BY BoundAssumption DEF Shapes, Counters
<1>5. CASE Keyed(c)
  <2>1. /\ Slot(c) \in offered \X Keys /\ Routes[Slot(c)[1]].cached
        /\ Put(Slot(c), request[c].body, Route(c).ok)
    BY <1>1, <1>5, RequestShape DEF Store
  <2>2. PICK slot \in offered \X Keys : slot = Slot(c)
    BY <2>1
  <2>3. /\ Cached' /\ slot \in DOMAIN store' /\ store'[slot].body = request[c].body
        /\ excuses' \in [offered \X Keys -> Nat]
        /\ DOMAIN store' \subseteq DOMAIN store \cup {slot}
        /\ \A s \in DOMAIN store' : s # slot => store'[s] = store[s]
        /\ \A s \in offered \X Keys :
             \/ excuses'[s] = excuses[s] /\ (s \in DOMAIN store => s \in DOMAIN store')
             \/ excuses'[s] = excuses[s] + 1 /\ s # slot
    <3>1. PICK body \in Bodies, status \in Nat :
            body = request[c].body /\ status = Route(c).ok
      BY <1>2, <1>3
    <3>2. Routes[slot[1]].cached /\ Put(slot, body, status)
      BY <2>1, <2>2, <3>1
    <3>3. offered' = offered /\ now' = now /\ now \in Nat /\ Cached /\ Tallies
      BY <1>1, <1>4
    <3> QED BY <3>1, <3>2, <3>3, PutEffect
  <2> QED BY <1>1, <1>2, <1>3, <1>5, <2>2, <2>3
<1>6. CASE ~Keyed(c)
  <2>1. UNCHANGED <<store, excuses>>
    BY <1>6 DEF Store
  <2>2. Cached' /\ excuses' \in [offered \X Keys -> Nat]
    BY <1>1, <1>4, <2>1 DEF Cached, Tallies
  <2> QED BY <1>1, <1>2, <1>3, <1>6, <2>1, <2>2
<1> QED BY <1>5, <1>6

LEMMA WorksShapes ==
  ASSUME Shapes, NEW c \in Clients, Works(c)
  PROVE  Requests' /\ Cached' /\ Tallies' /\ GoesTo(c, "work")
<1>1. GoesTo(c, "work") /\ request[c].at = "check" /\ request[c].body # Malformed
  BY DEF Works, Unkeyed, Miss, GoesTo, Go
<1>2. Requests'
  BY <1>1, RequestGoes DEF Works, Moving
<1>3. CASE Unkeyed(c)
  BY <1>1, <1>2, <1>3 DEF Works, Unkeyed, history, Shapes, Cached, Tallies, Attempts
<1>4. CASE Miss(c)
  <2>1. Cached' /\ excuses' \in [offered \X Keys -> Nat]
    BY <1>1, <1>4, MissEffect DEF Works
  <2> QED BY <1>1, <1>2, <2>1 DEF Works, Shapes, Tallies, Attempts
<1> QED BY <1>3, <1>4 DEF Works

LEMMA ShapesStep == Shapes /\ [Next]_vars => Shapes'
<1> SUFFICES ASSUME Shapes, [Next]_vars
             PROVE  Shapes'
  OBVIOUS
<1>1. Counters' /\ offered' = offered
  BY CountersStep DEF Shapes
<1>2. ASSUME UNCHANGED <<store, now>>
      PROVE  Cached'
  BY <1>1, <1>2 DEF Shapes, Cached
<1>3. ASSUME UNCHANGED <<ran, excuses>>
      PROVE  Tallies'
  BY <1>1, <1>3 DEF Shapes, Tallies, Attempts
<1>4. CASE Rests
  <2>1. Requests' /\ Tallies'
    BY <1>1, <1>3, <1>4 DEF Rests, Shapes, Requests
  <2>2. Cached'
    <3>1. /\ Cached /\ DOMAIN store' = DOMAIN store /\ store' = store /\ offered' = offered
          /\ now' \in Nat /\ now \in Nat /\ now' >= now
      BY <1>4, BoundAssumption DEF Rests, Shapes, Counters
    <3>2. \A s \in DOMAIN store : store[s].expires \in Int
      BY <3>1 DEF Cached, Entry
    <3>3. \A s \in DOMAIN store : store[s].expires <= now' + TTL
      BY <3>1, <3>2, CacheAssumption DEF Cached
    <3> QED BY <3>1, <3>3 DEF Cached
  <2> QED BY <1>1, <2>1, <2>2 DEF Shapes
<1>5. CASE Restart
  <2>1. Requests' /\ Cached' /\ excuses' \in [offered \X Keys -> Nat] /\ UNCHANGED ran
    BY <1>1, <1>5, RestartEffect DEF Restart
  <2> QED BY <1>1, <2>1 DEF Shapes, Tallies, Attempts
<1>6. ASSUME NEW c \in Clients, Sends(c)
      PROVE  Shapes'
  <2>1. PICK p \in offered \cap Paths, k \in Keys \cup {NoKey}, b \in Bodies \cup {Malformed} :
          request' = [request EXCEPT ![c] = [at |-> "check", path |-> p, key |-> k, body |-> b]]
    BY <1>6 DEF Sends
  <2> DEFINE q == [at |-> "check", path |-> p, key |-> k, body |-> b]
  <2>2. q \in Flying /\ q.at = "check" /\ q.path = p
    BY DEF Flying, Moving
  <2>3. Requests'
    <3> HIDE DEF q
    <3>1. request' = [request EXCEPT ![c] = q]
      BY <2>1 DEF q
    <3> QED BY <1>1, <2>2, <3>1, RequestMoves
  <2> QED BY <1>1, <1>2, <1>3, <1>6, <2>3 DEF Shapes, Sends
<1>7. ASSUME NEW c \in Clients, NEW status, NEW of, Ends(c, status, of)
      PROVE  Shapes'
  <2>1. Requests'
    BY <1>1, <1>7, RequestEnds DEF Ends, Moving
  <2> QED BY <1>1, <1>2, <1>3, <1>7, <2>1 DEF Shapes, Ends
<1>8. ASSUME NEW c \in Clients, Works(c)
      PROVE  Shapes'
  BY <1>1, <1>8, WorksShapes DEF Shapes
<1>9. ASSUME NEW c \in Clients, Selects(c)
      PROVE  Shapes'
  <2>1. request[c].path = "decide_approval" /\ request[c].at \in Moving
    BY <1>9, RequestShape, RouteFacts DEF Selects, Route, Moving
  <2>2. request[c].body # Malformed
    BY <1>9, RequestAssumption DEF Selects, Shapes, Requests
  <2>3. Requests'
    BY <1>1, <1>9, <2>1, <2>2, RequestGoes DEF Selects
  <2> QED BY <1>1, <1>2, <1>3, <1>9, <2>3 DEF Shapes, Selects
<1>10. ASSUME NEW c \in Clients, Succeeds(c)
       PROVE  Shapes'
  <2>1. /\ ran' \in [Attempts -> Nat]
        /\ request[c].at \in Moving /\ request[c].body # Malformed
    BY <1>10, SucceedsCounts
  <2>2. Requests'
    <3>1. CASE GoesTo(c, "store")
      BY <1>1, <2>1, <3>1, RequestGoes
    <3>2. CASE GoesTo(c, "resume") /\ request[c].at = "update"
      <4>1. request[c].path = "decide_approval"
        BY <3>2 DEF Shapes, Requests
      <4> QED BY <1>1, <2>1, <3>2, <4>1, RequestGoes
    <3> QED BY <1>10, <3>1, <3>2 DEF Succeeds
  <2> QED BY <1>1, <1>2, <1>10, <2>1, <2>2 DEF Shapes, Succeeds, Tallies, Attempts
<1>11. ASSUME NEW c \in Clients, Resumes(c)
       PROVE  Shapes'
  <2>1. request[c].body # Malformed /\ request[c].at \in Moving
    BY <1>11, RequestAssumption DEF Resumes, Shapes, Requests, Moving
  <2>2. Requests'
    BY <1>1, <1>11, <2>1, RequestGoes DEF Resumes
  <2> QED BY <1>1, <1>2, <1>3, <1>11, <2>2 DEF Shapes, Resumes
<1>12. ASSUME NEW c \in Clients, Store(c)
       PROVE  Shapes'
  <2>1. /\ request[c].at = "store" /\ request[c].body \in Bodies /\ Route(c).ok \in Nat
        /\ Answer(c, Route(c).ok, request[c].body)
        /\ Cached' /\ excuses' \in [offered \X Keys -> Nat] /\ ran' = ran
    BY <1>1, <1>12, StoreEffect
  <2>2. Requests'
    BY <1>1, <2>1, RequestEnds DEF Moving
  <2> QED BY <1>1, <2>1, <2>2 DEF Shapes, Tallies, Attempts
<1> QED BY <1>4, <1>5, <1>6, <1>7, <1>8, <1>9, <1>10, <1>11, <1>12, StepsAre

-----------------------------------------------------------------------------
(* Every answer is of a run *)

Attempt(c) == <<request[c].path, request[c].key, request[c].body>>

Backed ==
  /\ \A s \in DOMAIN store : ran[<<s[1], s[2], store[s].body>>] > 0
  /\ \A c \in Clients : request[c].at \in {"resume", "store"} => ran[Attempt(c)] > 0

AnswersTrue ==
  /\ AnswersOwnBody /\ ConflictTrue
  /\ \A c \in Clients : Successful(c) => request[c].body \in Bodies

LEMMA RanGrows ==
  ASSUME Shapes, [Next]_vars
  PROVE  \A a \in Attempts : ran'[a] >= ran[a]
<1>0. ran \in [Attempts -> Nat]
  BY DEF Shapes, Tallies
<1>1. CASE UNCHANGED ran
  BY <1>0, <1>1
<1>2. ASSUME NEW c \in Clients, Succeeds(c)
      PROVE  \A a \in Attempts : ran'[a] >= ran[a]
  <2>1. \A a \in Attempts : ran'[a] = ran[a] + 1 \/ ran'[a] = ran[a]
    BY <1>2, SucceedsCounts
  <2> QED BY <1>0, <2>1
<1>3. ASSUME NEW c \in Clients, Store(c)
      PROVE  UNCHANGED ran
  BY <1>3 DEF Store
<1>4. CASE Restart
  BY <1>1, <1>4 DEF Restart
<1> QED BY <1>1, <1>2, <1>3, <1>4, StepsAre DEF Rests, Sends, Ends, Works, Selects, Resumes

\* A run that was counted stays counted.
LEMMA StaysBacked ==
  ASSUME Shapes, [Next]_vars, NEW a \in Attempts, ran[a] > 0
  PROVE  ran'[a] > 0
<1>1. ran[a] \in Nat /\ ran'[a] \in Nat /\ ran'[a] >= ran[a]
  BY RanGrows, ShapesStep, CountersStep DEF Shapes, Tallies, Attempts
<1> QED BY <1>1

LEMMA GoesKeeps ==
  ASSUME Shapes, NEW c \in Clients, NEW at, GoesTo(c, at), request[c].at \in Moving
  PROVE  /\ request'[c].at = at /\ request'[c].path = request[c].path
         /\ request'[c].key = request[c].key /\ request'[c].body = request[c].body
         /\ \A d \in Clients \ {c} : request'[d] = request[d]
<1>1. request \in [Clients -> {Resting} \cup Flying \cup Ended] /\ request[c] \in Flying
  BY DEF Shapes, Requests, Moving, Resting, Flying, Ended
<1>2. request' = [request EXCEPT ![c] = [request[c] EXCEPT !.at = at]]
  BY <1>1 DEF GoesTo
<1>3. request'[c] = [request[c] EXCEPT !.at = at]
  BY <1>1, <1>2
<1>4. \A d \in Clients \ {c} : request'[d] = request[d]
  BY <1>1, <1>2
<1> QED BY <1>1, <1>3, <1>4 DEF Flying

LEMMA SendsKeeps ==
  ASSUME Shapes, NEW c \in Clients, Sends(c)
  PROVE  request'[c].at = "check" /\ \A d \in Clients \ {c} : request'[d] = request[d]
<1>1. request \in [Clients -> {Resting} \cup Flying \cup Ended]
  BY DEF Shapes, Requests
<1>2. PICK p, k, b : request' = [request EXCEPT ![c] =
                        [at |-> "check", path |-> p, key |-> k, body |-> b]]
  BY DEF Sends
<1> QED BY <1>1, <1>2

\* Who goes on, goes on with the same path, key and body.
LEMMA HandlingTells ==
  ASSUME Shapes, [Next]_vars, NEW d \in Clients, request'[d].at \in Handling
  PROVE  /\ request'[d].path = request[d].path /\ request'[d].key = request[d].key
         /\ request'[d].body = request[d].body
         /\ \/ request'[d].at = request[d].at
            \/ Works(d) /\ request'[d].at = "work"
            \/ Selects(d) /\ request'[d].at = "update"
            \/ Succeeds(d)
            \/ Resumes(d)
<1>1. CASE Rests
  BY <1>1 DEF Rests
<1>2. CASE Restart
  BY <1>2, CountersStep, RestartEffect DEF Restart, Handling, Moving, Shapes
<1>3. ASSUME NEW c \in Clients, Sends(c)
      PROVE  c # d /\ request'[d] = request[d]
  <2>1. request'[c].at = "check" /\ \A e \in Clients \ {c} : request'[e] = request[e]
    BY <1>3, SendsKeeps
  <2> QED BY <2>1 DEF Handling
<1>4. ASSUME NEW c \in Clients, NEW status, NEW of, Ends(c, status, of)
      PROVE  request'[d] = request[d]
  <2>1. offered' = offered /\ request[c].at \in Moving
    BY <1>4 DEF Ends, Moving
  <2>2. request'[c].at = "answered" /\ \A e \in Clients \ {c} : request'[e] = request[e]
    BY <1>4, <2>1, RequestEnds DEF Ends
  <2> QED BY <2>2 DEF Handling
<1>5. ASSUME NEW c \in Clients, Store(c)
      PROVE  request'[d] = request[d]
  <2>1. offered' = offered
    BY CountersStep DEF Shapes
  <2>2. /\ request[c].at \in Moving /\ Answer(c, Route(c).ok, request[c].body)
        /\ Route(c).ok \in Nat /\ request[c].body \in Bodies
    BY <1>5, <2>1, StoreEffect DEF Moving
  <2>3. request'[c].at = "answered" /\ \A e \in Clients \ {c} : request'[e] = request[e]
    BY <2>1, <2>2, RequestEnds
  <2> QED BY <2>3 DEF Handling
<1>6. ASSUME NEW c \in Clients, NEW at, GoesTo(c, at), request[c].at \in Moving
      PROVE  /\ c = d => /\ request'[d].at = at /\ request'[d].path = request[d].path
                         /\ request'[d].key = request[d].key /\ request'[d].body = request[d].body
             /\ c # d => request'[d] = request[d]
  BY <1>6, GoesKeeps
<1>7. ASSUME NEW c \in Clients, Works(c)
      PROVE  GoesTo(c, "work") /\ request[c].at \in Moving
  BY <1>7 DEF Works, Unkeyed, Miss, GoesTo, Go, Moving
<1>8. ASSUME NEW c \in Clients, Selects(c)
      PROVE  GoesTo(c, "update") /\ request[c].at \in Moving
  BY <1>8 DEF Selects, Moving
<1>9. ASSUME NEW c \in Clients, Succeeds(c)
      PROVE  (GoesTo(c, "store") \/ GoesTo(c, "resume")) /\ request[c].at \in Moving
  BY <1>9 DEF Succeeds, Moving
<1>10. ASSUME NEW c \in Clients, Resumes(c)
       PROVE  GoesTo(c, "store") /\ request[c].at \in Moving
  BY <1>10 DEF Resumes, Moving
<1> QED BY <1>1, <1>2, <1>3, <1>4, <1>5, <1>6, <1>7, <1>8, <1>9, <1>10, StepsAre

\* Who is answered, was answered before or is now.
LEMMA AnsweredTells ==
  ASSUME Shapes, [Next]_vars, NEW d \in Clients, request'[d].at = "answered"
  PROVE  request'[d] = request[d] \/ (\E status, of : Ends(d, status, of)) \/ Store(d)
<1>1. CASE Rests
  BY <1>1 DEF Rests
<1>2. CASE Restart
  BY <1>2, CountersStep, RestartEffect DEF Restart, Resting, Shapes
<1>3. ASSUME NEW c \in Clients, Sends(c)
      PROVE  request'[d] = request[d]
  <2>1. request'[c].at = "check" /\ \A e \in Clients \ {c} : request'[e] = request[e]
    BY <1>3, SendsKeeps
  <2> QED BY <2>1
<1>4. ASSUME NEW c \in Clients, NEW status, NEW of, Ends(c, status, of)
      PROVE  c = d \/ request'[d] = request[d]
  <2>1. offered' = offered /\ request[c].at \in Moving
    BY <1>4 DEF Ends, Moving
  <2> QED BY <1>4, <2>1, RequestEnds DEF Ends
<1>5. ASSUME NEW c \in Clients, Store(c)
      PROVE  c = d \/ request'[d] = request[d]
  <2>1. offered' = offered
    BY CountersStep DEF Shapes
  <2>2. /\ request[c].at \in Moving /\ Answer(c, Route(c).ok, request[c].body)
        /\ Route(c).ok \in Nat /\ request[c].body \in Bodies
    BY <1>5, <2>1, StoreEffect DEF Moving
  <2> QED BY <2>1, <2>2, RequestEnds
<1>6. ASSUME NEW c \in Clients, NEW at \in Handling, GoesTo(c, at), request[c].at \in Moving
      PROVE  request'[d] = request[d]
  BY <1>6, GoesKeeps DEF Handling
<1>7. ASSUME NEW c \in Clients, Works(c) \/ Selects(c) \/ Succeeds(c) \/ Resumes(c)
      PROVE  request'[d] = request[d]
  <2>1. \E at \in Handling : GoesTo(c, at)
    BY <1>7 DEF Works, Unkeyed, Miss, GoesTo, Go, Selects, Succeeds, Resumes, Handling
  <2>2. request[c].at \in Moving
    BY <1>7 DEF Works, Selects, Succeeds, Resumes, Moving
  <2> QED BY <1>6, <2>1, <2>2
<1> QED BY <1>1, <1>2, <1>3, <1>4, <1>5, <1>7, StepsAre

\* Entries are put by requests that store their answer.
LEMMA EntriesTell ==
  ASSUME Shapes, [Next]_vars, NEW s \in DOMAIN store'
  PROVE  \/ s \in DOMAIN store /\ store'[s] = store[s]
         \/ \E c \in Clients : /\ Store(c) /\ Keyed(c) /\ s = Slot(c)
                               /\ store'[s].body = request[c].body
<1>0. offered' = offered
  BY CountersStep DEF Shapes
<1>1. CASE UNCHANGED store
  BY <1>1
<1>2. CASE Restart
  BY <1>0, <1>2, RestartEffect DEF Restart
<1>3. ASSUME NEW c \in Clients, Works(c)
      PROVE  s \in DOMAIN store /\ store'[s] = store[s]
  <2>1. CASE Miss(c)
    BY <1>0, <1>3, <2>1, MissEffect DEF Works
  <2>2. CASE Unkeyed(c)
    BY <2>2 DEF Unkeyed
  <2> QED BY <1>3, <2>1, <2>2 DEF Works
<1>4. ASSUME NEW c \in Clients, Store(c)
      PROVE  \/ s \in DOMAIN store /\ store'[s] = store[s]
             \/ Keyed(c) /\ s = Slot(c) /\ store'[s].body = request[c].body
  BY <1>0, <1>4, StoreEffect
<1> QED BY <1>1, <1>2, <1>3, <1>4, StepsAre DEF Rests, Sends, Ends, Selects, Succeeds, Resumes

LEMMA BackedStep ==
  ASSUME Shapes, Backed, [Next]_vars
  PROVE  Backed'
<1>0. offered' = offered
  BY CountersStep DEF Shapes
<1>1. ASSUME NEW s \in DOMAIN store'
      PROVE  ran'[<<s[1], s[2], store'[s].body>>] > 0
  <2> DEFINE a == <<s[1], s[2], store'[s].body>>
  <2>1. CASE s \in DOMAIN store /\ store'[s] = store[s]
    <3>1. a \in Attempts /\ ran[a] > 0
      BY <2>1 DEF Backed, Shapes, Cached, Entry, Attempts
    <3> HIDE DEF a
    <3>2. ran'[a] > 0
      BY <3>1, StaysBacked
    <3> QED BY <3>2 DEF a
  <2>2. ASSUME NEW c \in Clients, Store(c), Keyed(c), s = Slot(c), store'[s].body = request[c].body
        PROVE  ran'[a] > 0
    <3>1. request[c].at = "store" /\ request[c].body \in Bodies /\ UNCHANGED ran
      BY <1>0, <2>2, StoreEffect
    <3>2. a = Attempt(c)
      BY <2>2 DEF Slot, Attempt
    <3>3. ran[Attempt(c)] > 0
      BY <3>1 DEF Backed
    <3> HIDE DEF a
    <3> QED BY <3>1, <3>2, <3>3
  <2> QED BY <2>1, <2>2, EntriesTell
<1>2. ASSUME NEW d \in Clients, request'[d].at \in {"resume", "store"}
      PROVE  ran'[Attempt(d)'] > 0
  <2> DEFINE a == <<request[d].path, request[d].key, request[d].body>>
  <2>1. /\ Attempt(d)' = a
        /\ \/ request'[d].at = request[d].at
           \/ Works(d) /\ request'[d].at = "work"
           \/ Selects(d) /\ request'[d].at = "update"
           \/ Succeeds(d)
           \/ Resumes(d)
    BY <1>2, HandlingTells DEF Attempt, Handling
  <2>2. CASE request[d].at \in {"resume", "store"}
    <3>1. a \in Attempts
      BY <2>2, RequestShape DEF Shapes, Requests, Attempts
    <3>2. ran[a] > 0
      BY <2>2 DEF Backed, Attempt
    <3> HIDE DEF a
    <3> QED BY <2>1, <3>1, <3>2, StaysBacked
  <2>3. CASE Succeeds(d)
    <3>1. a \in Attempts /\ ran'[a] = ran[a] + 1
      BY <2>3, SucceedsCounts
    <3>2. ran[a] \in Nat
      BY <3>1 DEF Shapes, Tallies
    <3> HIDE DEF a
    <3> QED BY <2>1, <3>1, <3>2
  <2>4. CASE Resumes(d)
    BY <2>2, <2>4 DEF Resumes
  <2> QED BY <1>2, <2>1, <2>2, <2>3, <2>4
<1> QED BY <1>1, <1>2 DEF Backed


\* What AnswersTrue says of one client.
TrueFor(d) ==
  /\ Successful(d) => /\ request[d].of = request[d].body /\ request[d].body \in Bodies
                      /\ ran[Attempt(d)] > 0
  /\ request[d].at = "answered" /\ request[d].status = 409 /\ request[d].path # "coach_step" =>
       \E b \in Bodies \ {request[d].body} : ran[<<request[d].path, request[d].key, b>>] > 0

LEMMA TrueForAll == AnswersTrue <=> \A d \in Clients : TrueFor(d)
BY DEF AnswersTrue, AnswersOwnBody, ConflictTrue, TrueFor, Attempt

LEMMA TrueStays ==
  ASSUME Shapes, [Next]_vars, NEW d \in Clients, TrueFor(d), request'[d] = request[d]
  PROVE  TrueFor(d)'
<1>1. Attempt(d)' = Attempt(d) /\ (Successful(d)' <=> Successful(d))
  BY DEF Attempt, Successful
<1>2. ASSUME Successful(d)
      PROVE  request'[d].of = request'[d].body /\ request'[d].body \in Bodies
             /\ ran'[Attempt(d)'] > 0
  <2>1. /\ request[d].of = request[d].body /\ request[d].body \in Bodies
        /\ ran[Attempt(d)] > 0 /\ request[d].at = "answered"
    BY <1>2 DEF TrueFor, Successful
  <2>2. PICK a \in Attempts : a = Attempt(d)
    BY <2>1, RequestShape DEF Attempt, Attempts
  <2>3. ran'[a] > 0
    BY <2>1, <2>2, StaysBacked
  <2> QED BY <1>1, <2>1, <2>2, <2>3
<1>3. ASSUME request[d].at = "answered", request[d].status = 409,
             request[d].path # "coach_step"
      PROVE  \E b \in Bodies \ {request[d].body} :
               ran'[<<request[d].path, request[d].key, b>>] > 0
  <2>1. PICK b \in Bodies \ {request[d].body} :
          ran[<<request[d].path, request[d].key, b>>] > 0
    BY <1>3 DEF TrueFor
  <2>2. PICK a \in Attempts : a = <<request[d].path, request[d].key, b>>
    BY <1>3, RequestShape DEF Attempts
  <2>3. ran'[a] > 0
    BY <2>1, <2>2, StaysBacked
  <2> QED BY <2>1, <2>2, <2>3
<1> QED BY <1>1, <1>2, <1>3 DEF TrueFor

LEMMA AnswersTrueStep ==
  ASSUME Shapes, Backed, AnswersTrue, [Next]_vars
  PROVE  AnswersTrue'
<1>0. offered' = offered
  BY CountersStep DEF Shapes
<1>1. SUFFICES ASSUME NEW d \in Clients
               PROVE  TrueFor(d)'
  BY TrueForAll DEF AnswersTrue, AnswersOwnBody, ConflictTrue, TrueFor, Attempt
<1>2. TrueFor(d)
  BY TrueForAll
<1>3. CASE request'[d].at # "answered"
  BY <1>3 DEF TrueFor, Successful
<1>4. CASE request'[d] = request[d]
  BY <1>2, <1>4, TrueStays
<1>5. ASSUME NEW status, NEW of, Ends(d, status, of)
      PROVE  TrueFor(d)'
  <2>1. /\ request[d].at \in Moving /\ status \in Nat /\ of \in Bodies \cup {Malformed}
        /\ Answer(d, status, of) /\ Truthful(d, status, of) /\ UNCHANGED ran
    BY <1>5 DEF Ends, Moving
  <2>2. /\ request'[d].at = "answered" /\ request'[d].status = status
        /\ request'[d].of = of /\ request'[d].path = request[d].path
        /\ request'[d].key = request[d].key /\ request'[d].body = request[d].body
    BY <1>0, <2>1, RequestEnds
  <2>3. ASSUME Slot(d) \in DOMAIN store
        PROVE  /\ store[Slot(d)].body \in Bodies
               /\ ran[<<request[d].path, request[d].key, store[Slot(d)].body>>] > 0
    BY <2>3 DEF Backed, Slot, Shapes, Cached, Entry
  <2>4. ASSUME status \in {200, 202}
        PROVE  of = request[d].body /\ request[d].body \in Bodies /\ ran[Attempt(d)] > 0
    BY <2>1, <2>3, <2>4 DEF Truthful, Attempt
  <2>5. ASSUME status = 409, request[d].path # "coach_step"
        PROVE  \E b \in Bodies \ {request[d].body} :
                 ran[<<request[d].path, request[d].key, b>>] > 0
    BY <2>1, <2>3, <2>5 DEF Truthful
  <2>6. Attempt(d)' = Attempt(d)
    BY <2>2 DEF Attempt
  <2>7. Successful(d)' <=> status \in {200, 202}
    BY <2>2 DEF Successful
  <2> QED BY <2>1, <2>2, <2>4, <2>5, <2>6, <2>7 DEF TrueFor
<1>6. CASE Store(d)
  <2>1. /\ request[d].at \in Moving /\ request[d].body \in Bodies
        /\ Route(d).ok \in {200, 202} /\ Route(d).ok \in Nat
        /\ Answer(d, Route(d).ok, request[d].body) /\ UNCHANGED ran
        /\ request[d].at = "store"
    BY <1>0, <1>6, StoreEffect DEF Moving
  <2>2. /\ request'[d].at = "answered" /\ request'[d].status = Route(d).ok
        /\ request'[d].of = request[d].body /\ request'[d].path = request[d].path
        /\ request'[d].key = request[d].key /\ request'[d].body = request[d].body
    <3>1. PICK status \in Nat, of \in Bodies : status = Route(d).ok /\ of = request[d].body
      BY <2>1
    <3> QED BY <1>0, <2>1, <3>1, RequestEnds
  <2>3. ran[Attempt(d)] > 0 /\ Attempt(d)' = Attempt(d)
    BY <2>1, <2>2 DEF Backed, Attempt
  <2>4. request'[d].status # 409
    BY <2>1, <2>2
  <2> QED BY <2>1, <2>2, <2>3, <2>4 DEF TrueFor
<1> QED BY <1>3, <1>4, <1>5, <1>6, AnsweredTells

-----------------------------------------------------------------------------
(* The runs of a slot *)

AttemptsAt(p) == {r \in Attempts : r[1] = p}
AttemptsOf(s) == {r \in Attempts : <<r[1], r[2]>> = s}

LEMMA AttemptsFinite == ASSUME NEW p PROVE IsFiniteSet(AttemptsAt(p))
<1> DEFINE K == Keys \cup {NoKey}
           P == K \X Bodies
           T == {p} \X K \X Bodies
           f == [x \in P |-> <<p, x[1], x[2]>>]
<1>1. IsFiniteSet(K)
  BY RequestAssumption, FS_AddElement
<1>2. IsFiniteSet(P)
  <2> HIDE DEF K
  <2> QED BY <1>1, RequestAssumption, FS_Product
<1>3. f \in Surjection(P, T)
  <2>1. f \in [P -> T]
    OBVIOUS
  <2>2. \A t \in T : \E x \in P : f[x] = t
    <3> SUFFICES ASSUME NEW t \in T
                 PROVE  \E x \in P : f[x] = t
      OBVIOUS
    <3>1. <<t[2], t[3]>> \in P /\ f[<<t[2], t[3]>>] = t
      OBVIOUS
    <3> QED BY <3>1
  <2> HIDE DEF f, P, T
  <2> QED BY <2>1, <2>2 DEF Surjection
<1>4. IsFiniteSet(T)
  <2> HIDE DEF f, P, T
  <2> QED BY <1>2, <1>3, FS_Surjection
<1>5. AttemptsAt(p) \in SUBSET T
  BY DEF AttemptsAt, Attempts
<1> QED BY <1>4, <1>5, FS_Subset

LEMMA RunsAre ==
  ASSUME Shapes, NEW s
  PROVE  /\ RunsOf(s) = Total(ran, AttemptsOf(s)) /\ RunsOf(s) \in Nat
         /\ IsFiniteSet(AttemptsOf(s))
         /\ \A r \in AttemptsOf(s) : ran[r] \in Nat
<1>1. ran \in [Attempts -> Nat] /\ DOMAIN ran = Attempts
  BY DEF Shapes, Tallies
<1>2. IsFiniteSet(AttemptsOf(s))
  <2>1. AttemptsOf(s) \in SUBSET AttemptsAt(s[1])
    BY DEF AttemptsOf, AttemptsAt, Attempts
  <2> QED BY <2>1, AttemptsFinite, FS_Subset
<1>3. {r \in DOMAIN ran : <<r[1], r[2]>> = s} = AttemptsOf(s)
  BY <1>1 DEF AttemptsOf
<1>4. RunsOf(s) = Total(ran, AttemptsOf(s))
  BY <1>3, SumMeans DEF RunsOf
<1>5. \A r \in AttemptsOf(s) : ran[r] \in Nat
  BY <1>1 DEF AttemptsOf
<1>6. Total(ran, AttemptsOf(s)) \in Nat
  BY <1>2, <1>5, TotalIsNat
<1> QED BY <1>2, <1>4, <1>5, <1>6

\* The sum of the next state.
LEMMA RunsNext ==
  ASSUME Shapes, [Next]_vars, NEW s
  PROVE  RunsOf(s)' = Total(ran', AttemptsOf(s))
<1>1. DOMAIN ran' = Attempts
  BY ShapesStep, CountersStep DEF Shapes, Tallies, Attempts
<1>2. {r \in DOMAIN ran' : <<r[1], r[2]>> = s} = AttemptsOf(s)
  BY <1>1 DEF AttemptsOf
<1>3. RunsOf(s)' = Sum({r \in DOMAIN ran : <<r[1], r[2]>> = s})'
  BY DEF RunsOf
<1>4. RunsOf(s)' = Total(ran', {r \in DOMAIN ran' : <<r[1], r[2]>> = s})
  BY <1>3 DEF Sum, MapThenSumSet, MapThenFoldSet, Total, AddsUp
<1> QED BY <1>2, <1>4

\* A run counts for the slot of its request.
LEMMA RunsStep ==
  ASSUME Shapes, [Next]_vars, NEW s \in offered \X Keys
  PROVE  /\ ran' = ran => RunsOf(s)' = RunsOf(s)
         /\ \A c \in Clients : Succeeds(c) =>
              RunsOf(s)' = IF Slot(c) = s THEN RunsOf(s) + 1 ELSE RunsOf(s)
<1>1. /\ RunsOf(s) = Total(ran, AttemptsOf(s)) /\ IsFiniteSet(AttemptsOf(s))
      /\ \A r \in AttemptsOf(s) : ran[r] \in Nat
      /\ RunsOf(s)' = Total(ran', AttemptsOf(s))
  BY RunsAre, RunsNext
<1>2. ASSUME NEW c \in Clients, Succeeds(c)
      PROVE  RunsOf(s)' = IF Slot(c) = s THEN RunsOf(s) + 1 ELSE RunsOf(s)
  <2>1. PICK r \in Attempts : r = <<request[c].path, request[c].key, request[c].body>>
    BY <1>2, SucceedsCounts
  <2>2. \A a \in Attempts : ran'[a] = IF a = r THEN ran[a] + 1 ELSE ran[a]
    BY <1>2, <2>1, SucceedsCounts
  <2>3. r \in AttemptsOf(s) <=> Slot(c) = s
    BY <2>1 DEF AttemptsOf, Slot
  <2>4. \A x \in AttemptsOf(s) :
          ran[x] \in Nat /\ ran'[x] = (IF x = r THEN ran[x] + 1 ELSE ran[x])
    BY <1>1, <2>2 DEF AttemptsOf
  <2>5. Total(ran', AttemptsOf(s)) =
          (IF r \in AttemptsOf(s) THEN Total(ran, AttemptsOf(s)) + 1
           ELSE Total(ran, AttemptsOf(s)))
    BY <1>1, <2>4, TotalMoves
  <2> QED BY <1>1, <2>3, <2>5
<1> QED BY <1>1, <1>2

-----------------------------------------------------------------------------
(* The approval is decided once *)

Decisions == AttemptsAt("decide_approval")

DecidedOnce ==
  /\ approval # "decided" => \A r \in Decisions : ran[r] = 0
  /\ \A S \in SUBSET Decisions : Total(ran, S) <= 1
  /\ \A c \in Clients : request[c].at = "answered" /\ request[c].status = 404 =>
       approval # "pending"

\* Once it is not pending, it is not pending again.
LEMMA ApprovalMoves ==
  ASSUME Shapes, [Next]_vars
  PROVE  \/ approval' = approval
         \/ approval = "pending" /\ approval' = "decided"
<1>1. CASE Restart
  BY <1>1 DEF Restart
<1>2. ASSUME NEW c \in Clients, Store(c)
      PROVE  approval' = approval
  BY <1>2 DEF Store
<1>3. ASSUME NEW c \in Clients, Succeeds(c)
      PROVE  approval' = approval \/ (approval = "pending" /\ approval' = "decided")
  BY <1>3 DEF Succeeds
<1> QED BY <1>1, <1>2, <1>3, StepsAre DEF Rests, Sends, Ends, Works, Selects, Resumes

LEMMA DecidedOnceMeans ==
  ASSUME Shapes, DecidedOnce
  PROVE  DecideOnce
<1>1. {r \in DOMAIN ran : r[1] = "decide_approval"} = Decisions
  BY DEF Shapes, Tallies, Decisions, AttemptsAt
<1>2. Sum({r \in DOMAIN ran : r[1] = "decide_approval"}) = Total(ran, Decisions)
  BY <1>1, SumMeans
<1> QED BY <1>2 DEF DecidedOnce, DecideOnce

LEMMA DecidedOnceStep ==
  ASSUME Shapes, DecidedOnce, [Next]_vars
  PROVE  DecidedOnce'
<1>0. /\ offered' = offered /\ Decisions' = Decisions
      /\ IsFiniteSet(Decisions) /\ \A r \in Decisions : r \in Attempts /\ ran[r] \in Nat
  BY CountersStep, AttemptsFinite DEF Shapes, Tallies, Decisions, AttemptsAt, Attempts
<1>1. /\ approval' # "decided" => \A r \in Decisions : ran'[r] = 0
      /\ \A S \in SUBSET Decisions : Total(ran', S) <= 1
  <2>1. CASE UNCHANGED ran
    BY <2>1, ApprovalMoves DEF DecidedOnce
  <2>2. ASSUME NEW c \in Clients, Succeeds(c)
        PROVE  /\ approval' # "decided" => \A r \in Decisions : ran'[r] = 0
               /\ \A S \in SUBSET Decisions : Total(ran', S) <= 1
    <3>1. PICK r \in Attempts : /\ r = <<request[c].path, request[c].key, request[c].body>>
                                /\ \A a \in Attempts :
                                     ran'[a] = IF a = r THEN ran[a] + 1 ELSE ran[a]
      BY <2>2, SucceedsCounts
    <3>2. \A x \in Decisions :
            ran[x] \in Nat /\ ran'[x] = (IF x = r THEN ran[x] + 1 ELSE ran[x])
      BY <1>0, <3>1
    <3>3. ASSUME NEW S \in SUBSET Decisions
          PROVE  /\ IsFiniteSet(S)
                 /\ Total(ran', S) = (IF r \in S THEN Total(ran, S) + 1 ELSE Total(ran, S))
      <4>1. IsFiniteSet(S)
        BY <1>0, FS_Subset
      <4>2. \A x \in S :
              ran[x] \in Nat /\ ran'[x] = (IF x = r THEN ran[x] + 1 ELSE ran[x])
        BY <3>2
      <4> QED BY <4>1, <4>2, TotalMoves
    <3>4. CASE request[c].at = "update"
      <4>1. approval = "pending" /\ approval' = "decided"
        BY <2>2, <3>4 DEF Succeeds
      <4>2. ASSUME NEW S \in SUBSET Decisions
            PROVE  Total(ran, S) = 0
        <5>1. \A x \in S : ran[x] = 0
          BY <4>1 DEF DecidedOnce
        <5> QED BY <3>3, <5>1, TotalOfNothing
      <4> QED BY <3>3, <4>1, <4>2
    <3>5. CASE request[c].at = "work"
      <4>1. Route(c).work # "decide" /\ UNCHANGED approval
        BY <2>2, <3>5 DEF Succeeds
      <4>2. r[1] # "decide_approval"
        BY <3>1, <3>5, <4>1, RequestShape, RouteFacts DEF Route
      <4>3. r \notin Decisions
        BY <4>2 DEF Decisions, AttemptsAt
      <4> QED BY <3>2, <3>3, <4>1, <4>3 DEF DecidedOnce
    <3> QED BY <2>2, <3>4, <3>5 DEF Succeeds
  <2>3. ASSUME NEW c \in Clients, Store(c)
        PROVE  UNCHANGED ran
    BY <2>3 DEF Store
  <2>4. CASE Restart
    BY <2>1, <2>4 DEF Restart
  <2> QED BY <2>1, <2>2, <2>3, <2>4, StepsAre DEF Rests, Sends, Ends, Works, Selects, Resumes
<1>2. ASSUME NEW c \in Clients, request'[c].at = "answered", request'[c].status = 404
      PROVE  approval' # "pending"
  <2>1. CASE request'[c] = request[c]
    BY <1>2, <2>1, ApprovalMoves DEF DecidedOnce
  <2>2. ASSUME NEW status, NEW of, Ends(c, status, of)
        PROVE  approval' # "pending"
    <3>1. /\ request[c].at \in Moving /\ status \in Nat /\ of \in Bodies \cup {Malformed}
          /\ Answer(c, status, of) /\ Truthful(c, status, of) /\ UNCHANGED approval
      BY <2>2 DEF Ends, Moving
    <3>2. request'[c].status = status
      BY <1>0, <3>1, RequestEnds
    <3> QED BY <1>2, <3>1, <3>2 DEF Truthful
  <2>3. CASE Store(c)
    <3>1. PICK status \in Nat, of \in Bodies :
            /\ status = Route(c).ok /\ of = request[c].body /\ status \in {200, 202}
            /\ Answer(c, status, of) /\ request[c].at \in Moving
      BY <1>0, <2>3, StoreEffect DEF Moving
    <3>2. request'[c].status = status
      BY <1>0, <3>1, RequestEnds
    <3> QED BY <1>2, <3>1, <3>2
  <2> QED BY <1>2, <2>1, <2>2, <2>3, AnsweredTells
<1> QED BY <1>0, <1>1, <1>2 DEF DecidedOnce

-----------------------------------------------------------------------------
(* Who works under a slot *)

Working(s) == {c \in Clients : request[c].at = "work" /\ Slot(c) = s}
CachedSlots == {s \in offered \X Keys : Routes[s[1]].cached}

\* Nothing changes for the slot s.
Quiet(s) ==
  /\ OnSlot(s)' = OnSlot(s) /\ Working(s)' = Working(s)
  /\ excuses'[s] = excuses[s]
  /\ s \in DOMAIN store' <=> s \in DOMAIN store
  /\ s \in DOMAIN store => store'[s] = store[s]

\* Only the request of c moves.
LEMMA OthersStay ==
  ASSUME NEW c \in Clients, NEW s, \A d \in Clients \ {c} : request'[d] = request[d]
  PROVE  /\ OnSlot(s)' \ {c} = OnSlot(s) \ {c}
         /\ Working(s)' \ {c} = Working(s) \ {c}
BY DEF OnSlot, Working, Slot

LEMMA RestsQuiet ==
  ASSUME Shapes, Rests, NEW s \in CachedSlots
  PROVE  Quiet(s) /\ ran' = ran
BY DEF Rests, Quiet, OnSlot, Working, Slot

LEMMA SendsQuiet ==
  ASSUME Shapes, NEW c \in Clients, Sends(c), NEW s \in CachedSlots
  PROVE  Quiet(s) /\ ran' = ran
<1>1. request'[c].at = "check" /\ \A d \in Clients \ {c} : request'[d] = request[d]
  BY SendsKeeps
<1>2. request[c].at \notin Handling
  BY DEF Sends, InFlight, Handling
<1>3. c \notin OnSlot(s) /\ c \notin Working(s) /\ c \notin OnSlot(s)' /\ c \notin Working(s)'
  BY <1>1, <1>2 DEF OnSlot, Working, Handling
<1>4. OnSlot(s)' = OnSlot(s) /\ Working(s)' = Working(s)
  BY <1>1, <1>3, OthersStay
<1> QED BY <1>4 DEF Sends, Quiet

\* Who ends leaves the slot; nothing else happens.
LEMMA EndsLeaves ==
  ASSUME Shapes, [Next]_vars, NEW c \in Clients, NEW status, NEW of, Ends(c, status, of),
         NEW s \in CachedSlots
  PROVE  /\ OnSlot(s)' = OnSlot(s) \ {c} /\ Working(s)' = Working(s) \ {c}
         /\ UNCHANGED <<store, excuses, ran>>
         /\ c \in OnSlot(s) /\ s[1] # "decide_approval" => c \in Working(s)
<1>0. offered' = offered
  BY CountersStep DEF Shapes
<1>1. /\ request[c].at \in Moving /\ status \in Nat /\ of \in Bodies \cup {Malformed}
      /\ Answer(c, status, of) /\ UNCHANGED <<store, excuses, ran>>
  BY DEF Ends, Moving
<1>2. request'[c].at = "answered" /\ \A d \in Clients \ {c} : request'[d] = request[d]
  BY <1>0, <1>1, RequestEnds
<1>3. c \notin OnSlot(s)' /\ c \notin Working(s)'
  BY <1>2 DEF OnSlot, Working, Handling
<1>4. OnSlot(s)' = OnSlot(s) \ {c} /\ Working(s)' = Working(s) \ {c}
  BY <1>2, <1>3, OthersStay
<1>5. c \in OnSlot(s) /\ s[1] # "decide_approval" => c \in Working(s)
  <2>1. request[c].at \in {"update", "resume"} => request[c].path = "decide_approval"
    BY DEF Shapes, Requests
  <2> QED BY <2>1 DEF Ends, OnSlot, Working, Handling, Slot
<1> QED BY <1>1, <1>4, <1>5

\* A handler that starts: nobody else is there, or there is an excuse.
LEMMA WorksStarts ==
  ASSUME Shapes, [Next]_vars, NEW c \in Clients, Works(c), NEW s \in CachedSlots
  PROVE  /\ ran' = ran
         /\ \/ Quiet(s)
            \/ /\ OnSlot(s)' = OnSlot(s) \cup {c} /\ Working(s)' = Working(s) \cup {c}
               /\ excuses'[s] >= excuses[s] /\ s \notin DOMAIN store'
               /\ s \in DOMAIN store \/ OnSlot(s) # {} => excuses'[s] >= excuses[s] + 1
<1>0. offered' = offered /\ now' = now /\ ran' = ran
  BY CountersStep DEF Shapes, Works
<1>1. GoesTo(c, "work") /\ request[c].at = "check" /\ request[c].at \in Moving
  BY DEF Works, Unkeyed, Miss, GoesTo, Go, Moving
<1>2. /\ request'[c].at = "work" /\ request'[c].path = request[c].path
      /\ request'[c].key = request[c].key
      /\ \A d \in Clients \ {c} : request'[d] = request[d]
  BY <1>1, GoesKeeps
<1>3. Slot(c)' = Slot(c)
  BY <1>2 DEF Slot
<1>4. c \notin OnSlot(s) /\ c \notin Working(s)
  BY <1>1 DEF OnSlot, Working, Handling
<1>5. CASE Slot(c) # s
  <2>1. c \notin OnSlot(s)' /\ c \notin Working(s)'
    BY <1>3, <1>5 DEF OnSlot, Working
  <2>2. OnSlot(s)' = OnSlot(s) /\ Working(s)' = Working(s)
    BY <1>2, <1>4, <2>1, OthersStay
  <2>3. CASE Unkeyed(c)
    BY <1>0, <2>2, <2>3 DEF Unkeyed, history, Quiet
  <2>4. CASE Miss(c)
    <3>1. /\ DOMAIN store' = DOMAIN store \ {Slot(c)}
          /\ \A t \in DOMAIN store' : store'[t] = store[t]
          /\ \A t \in offered \X Keys : t # Slot(c) => excuses'[t] = excuses[t]
      BY <1>0, <1>1, <2>4, MissEffect
    <3> QED BY <1>0, <1>5, <2>2, <3>1 DEF Quiet, CachedSlots
  <2> QED BY <2>3, <2>4 DEF Works
<1>6. CASE Slot(c) = s
  <2>1. Keyed(c)
    <3>1. s \in offered \X Keys /\ Routes[s[1]].cached
      BY DEF CachedSlots
    <3> QED BY <1>6, <3>1 DEF Keyed, Slot, Route
  <2>2. Miss(c)
    BY <2>1 DEF Works, Unkeyed
  <2>3. /\ Slot(c) \notin DOMAIN store'
        /\ excuses'[Slot(c)] >= excuses[Slot(c)]
        /\ Slot(c) \in DOMAIN store => excuses'[Slot(c)] >= excuses[Slot(c)] + 1
        /\ OnSlot(Slot(c)) # {} => excuses'[Slot(c)] >= excuses[Slot(c)] + 1
    BY <1>0, <1>1, <2>2, MissEffect
  <2>4. c \in OnSlot(s)' /\ c \in Working(s)'
    BY <1>2, <1>3, <1>6 DEF OnSlot, Working, Handling
  <2>5. OnSlot(s)' = OnSlot(s) \cup {c} /\ Working(s)' = Working(s) \cup {c}
    BY <1>2, <1>4, <2>4, OthersStay
  <2> QED BY <1>0, <1>6, <2>3, <2>5
<1> QED BY <1>5, <1>6

\* A handler that goes on stays in its slot.
LEMMA StaysInSlot ==
  ASSUME Shapes, NEW c \in Clients, NEW at \in Handling, GoesTo(c, at),
         request[c].at \in Handling, NEW s,
         request[c].at = "work" \/ at # "work"
  PROVE  /\ OnSlot(s)' = OnSlot(s)
         /\ at # "work" => Working(s)' = Working(s) \ {c}
<1>1. request[c].at \in Moving
  BY DEF Handling, Moving
<1>2. /\ request'[c].at = at /\ request'[c].path = request[c].path
      /\ request'[c].key = request[c].key
      /\ \A d \in Clients \ {c} : request'[d] = request[d]
  BY <1>1, GoesKeeps
<1>3. Slot(c)' = Slot(c)
  BY <1>2 DEF Slot
<1>4. c \in OnSlot(s)' <=> c \in OnSlot(s)
  BY <1>2, <1>3 DEF OnSlot
<1>5. at # "work" => c \notin Working(s)'
  BY <1>2 DEF Working
<1> QED BY <1>2, <1>4, <1>5, OthersStay

\* A step of a handler within its slot.
LEMMA WithinSlot ==
  ASSUME Shapes, [Next]_vars, NEW c \in Clients,
         Selects(c) \/ Succeeds(c) \/ Resumes(c), NEW s \in CachedSlots
  PROVE  /\ OnSlot(s)' = OnSlot(s) /\ Working(s)' = Working(s) \ {c}
         /\ UNCHANGED <<store, excuses>>
         /\ ran' = ran \/ Succeeds(c)
<1>1. PICK at \in Handling : GoesTo(c, at) /\ at # "work"
  BY DEF Selects, Succeeds, Resumes, Handling
<1>2. request[c].at \in Handling
  BY DEF Selects, Succeeds, Resumes, Handling
<1>3. OnSlot(s)' = OnSlot(s) /\ Working(s)' = Working(s) \ {c}
  BY <1>1, <1>2, StaysInSlot
<1> QED BY <1>3 DEF Selects, Succeeds, Resumes

\* A stored answer: of the slot itself, or of another, which may push its entry out.
LEMMA StoresLeave ==
  ASSUME Shapes, [Next]_vars, NEW c \in Clients, Store(c), NEW s \in CachedSlots
  PROVE  /\ Working(s)' = Working(s) /\ ran' = ran
         /\ OnSlot(s)' = OnSlot(s) \ {c}
         /\ \/ /\ c \in OnSlot(s) /\ Slot(c) = s /\ Keyed(c)
               /\ s \in DOMAIN store' /\ excuses'[s] = excuses[s]
            \/ /\ c \notin OnSlot(s) /\ Slot(c) # s
               /\ s \in DOMAIN store' => s \in DOMAIN store /\ store'[s] = store[s]
               /\ \/ excuses'[s] = excuses[s] /\ (s \in DOMAIN store => s \in DOMAIN store')
                  \/ excuses'[s] = excuses[s] + 1
<1>0. offered' = offered
  BY CountersStep DEF Shapes
<1>1. PICK status \in Nat, of \in Bodies :
        /\ status = Route(c).ok /\ of = request[c].body /\ Answer(c, status, of)
        /\ request[c].at = "store" /\ request[c].at \in Moving
  BY <1>0, StoreEffect DEF Moving
<1>2. request'[c].at = "answered" /\ \A d \in Clients \ {c} : request'[d] = request[d]
  BY <1>0, <1>1, RequestEnds
<1>3. c \notin OnSlot(s)' /\ c \notin Working(s)' /\ c \notin Working(s)
  BY <1>1, <1>2 DEF OnSlot, Working, Handling
<1>4. OnSlot(s)' = OnSlot(s) \ {c} /\ Working(s)' = Working(s) /\ ran' = ran
  <2>1. OnSlot(s)' = OnSlot(s) \ {c} /\ Working(s)' = Working(s)
    BY <1>2, <1>3, OthersStay
  <2>2. ran' = ran
    BY <1>0, StoreEffect
  <2> QED BY <2>1, <2>2
<1>5. c \in OnSlot(s) <=> Slot(c) = s
  BY <1>1 DEF OnSlot, Handling
<1>6. s \in offered \X Keys /\ Routes[s[1]].cached
  BY DEF CachedSlots
<1>7. CASE Slot(c) = s
  <2>1. Keyed(c)
    BY <1>6, <1>7 DEF Keyed, Slot, Route
  <2> QED BY <1>0, <1>4, <1>5, <1>6, <1>7, <2>1, StoreEffect
<1>8. CASE Slot(c) # s
  BY <1>0, <1>4, <1>5, <1>6, <1>8, StoreEffect
<1> QED BY <1>7, <1>8

\* A restart: all handlers and entries of the slot are gone.
LEMMA RestartClears ==
  ASSUME Shapes, [Next]_vars, Restart, NEW s \in CachedSlots
  PROVE  /\ OnSlot(s)' = {} /\ Working(s)' = {} /\ ran' = ran
         /\ s \notin DOMAIN store'
         /\ excuses'[s] >= excuses[s]
         /\ s \in DOMAIN store \/ OnSlot(s) # {} => excuses'[s] >= excuses[s] + 1
<1>0. offered' = offered /\ now' = now /\ s \in offered \X Keys
  BY CountersStep DEF Shapes, Restart, CachedSlots
<1>1. \A c \in Clients : request'[c].at \notin Moving
  BY <1>0, RestartEffect
<1>2. OnSlot(s)' = {} /\ Working(s)' = {}
  BY <1>1 DEF OnSlot, Working, Handling, Moving
<1> QED BY <1>0, <1>2, RestartEffect

-----------------------------------------------------------------------------
(* Without an excuse one request at a time is worked on, and the answer is  *)
(* kept                                                                     *)

Alone ==
  \A s \in CachedSlots : excuses[s] = 0 =>
    /\ \A c, d \in OnSlot(s) : c = d
    /\ s \in DOMAIN store => OnSlot(s) = {}

LEMMA AloneStep ==
  ASSUME Shapes, Alone, [Next]_vars
  PROVE  Alone'
<1>0. CachedSlots' = CachedSlots
  BY CountersStep DEF Shapes, CachedSlots
<1>1. SUFFICES ASSUME NEW s \in CachedSlots, excuses'[s] = 0
               PROVE  /\ \A c, d \in OnSlot(s)' : c = d
                      /\ s \in DOMAIN store' => OnSlot(s)' = {}
  BY <1>0 DEF Alone
<1>2. excuses[s] \in Nat
  BY DEF CachedSlots, Shapes, Tallies
<1>3. excuses[s] = 0 => /\ \A c, d \in OnSlot(s) : c = d
                        /\ s \in DOMAIN store => OnSlot(s) = {}
  BY DEF Alone
<1>4. CASE Quiet(s)
  BY <1>1, <1>3, <1>4 DEF Quiet
<1>5. CASE Restart
  BY <1>5, RestartClears
<1>6. ASSUME NEW c \in Clients, NEW status, NEW of, Ends(c, status, of)
      PROVE  /\ \A d, e \in OnSlot(s)' : d = e
             /\ s \in DOMAIN store' => OnSlot(s)' = {}
  <2>1. OnSlot(s)' = OnSlot(s) \ {c} /\ UNCHANGED <<store, excuses>>
    BY <1>6, EndsLeaves
  <2> QED BY <1>1, <1>3, <2>1
<1>7. ASSUME NEW c \in Clients, Works(c)
      PROVE  /\ \A d, e \in OnSlot(s)' : d = e
             /\ s \in DOMAIN store' => OnSlot(s)' = {}
  <2>1. CASE /\ OnSlot(s)' = OnSlot(s) \cup {c}
             /\ excuses'[s] >= excuses[s] /\ s \notin DOMAIN store'
             /\ s \in DOMAIN store \/ OnSlot(s) # {} => excuses'[s] >= excuses[s] + 1
    <3>1. OnSlot(s) = {}
      BY <1>1, <1>2, <2>1
    <3> QED BY <2>1, <3>1
  <2> QED BY <1>4, <1>7, <2>1, WorksStarts
<1>8. ASSUME NEW c \in Clients, Selects(c) \/ Succeeds(c) \/ Resumes(c)
      PROVE  /\ \A d, e \in OnSlot(s)' : d = e
             /\ s \in DOMAIN store' => OnSlot(s)' = {}
  <2>1. OnSlot(s)' = OnSlot(s) /\ UNCHANGED <<store, excuses>>
    BY <1>8, WithinSlot
  <2> QED BY <1>1, <1>3, <2>1
<1>9. ASSUME NEW c \in Clients, Store(c)
      PROVE  /\ \A d, e \in OnSlot(s)' : d = e
             /\ s \in DOMAIN store' => OnSlot(s)' = {}
  <2>1. OnSlot(s)' = OnSlot(s) \ {c}
    BY <1>9, StoresLeave
  <2>2. excuses'[s] = excuses[s]
    BY <1>1, <1>2, <1>9, StoresLeave
  <2>3. c \in OnSlot(s) \/ (s \in DOMAIN store' => s \in DOMAIN store)
    BY <1>9, StoresLeave
  <2> QED BY <1>1, <1>3, <2>1, <2>2, <2>3
<1> QED BY <1>4, <1>5, <1>6, <1>7, <1>8, <1>9, StepsAre, RestsQuiet, SendsQuiet

\* Excuses are never taken back.
LEMMA ExcusesStay ==
  ASSUME Shapes, [Next]_vars, NEW s \in CachedSlots
  PROVE  excuses'[s] >= excuses[s]
<1>1. excuses[s] \in Nat
  BY DEF CachedSlots, Shapes, Tallies
<1>2. ASSUME excuses'[s] = excuses[s]
      PROVE  excuses'[s] >= excuses[s]
  BY <1>1, <1>2
<1>3. CASE Quiet(s)
  BY <1>2, <1>3 DEF Quiet
<1>4. CASE Restart
  BY <1>4, RestartClears
<1>5. ASSUME NEW c \in Clients, NEW status, NEW of, Ends(c, status, of)
      PROVE  excuses' = excuses
  BY <1>5, EndsLeaves
<1>6. ASSUME NEW c \in Clients, Works(c)
      PROVE  Quiet(s) \/ excuses'[s] >= excuses[s]
  BY <1>6, WorksStarts
<1>7. ASSUME NEW c \in Clients, Selects(c) \/ Succeeds(c) \/ Resumes(c)
      PROVE  excuses' = excuses
  BY <1>7, WithinSlot
<1>8. ASSUME NEW c \in Clients, Store(c)
      PROVE  excuses'[s] >= excuses[s]
  <2>1. excuses'[s] = excuses[s] \/ excuses'[s] = excuses[s] + 1
    BY <1>8, StoresLeave
  <2> QED BY <1>1, <2>1
<1> QED BY <1>2, <1>3, <1>4, <1>5, <1>6, <1>7, <1>8, StepsAre, RestsQuiet, SendsQuiet

KeptFor(c) ==
  Successful(c) /\ Keyed(c) /\ excuses[Slot(c)] = 0 =>
    Slot(c) \in DOMAIN store /\ store[Slot(c)].body = request[c].body

LEMMA KeptIs == AnswerKept <=> \A c \in Clients : KeptFor(c)
BY DEF AnswerKept, KeptFor

\* An entry without an excuse stays as it is.
LEMMA EntryStays ==
  ASSUME Shapes, Alone, [Next]_vars, NEW s \in CachedSlots, s \in DOMAIN store,
         excuses'[s] = 0
  PROVE  s \in DOMAIN store' /\ store'[s] = store[s] /\ excuses[s] = 0
<1>1. excuses[s] \in Nat
  BY DEF CachedSlots, Shapes, Tallies
<1>2. CASE Quiet(s)
  BY <1>2 DEF Quiet
<1>3. CASE Restart
  BY <1>1, <1>3, RestartClears
<1>4. ASSUME NEW c \in Clients, NEW status, NEW of, Ends(c, status, of)
      PROVE  UNCHANGED <<store, excuses>>
  BY <1>4, EndsLeaves
<1>5. ASSUME NEW c \in Clients, Works(c)
      PROVE  Quiet(s)
  BY <1>1, <1>5, WorksStarts
<1>6. ASSUME NEW c \in Clients, Selects(c) \/ Succeeds(c) \/ Resumes(c)
      PROVE  UNCHANGED <<store, excuses>>
  BY <1>6, WithinSlot
<1>7. ASSUME NEW c \in Clients, Store(c)
      PROVE  s \in DOMAIN store' /\ store'[s] = store[s] /\ excuses[s] = 0
  <2>1. excuses[s] = 0
    BY <1>1, <1>7, StoresLeave
  <2>2. c \notin OnSlot(s)
    BY <2>1 DEF Alone
  <2>3. /\ s \in DOMAIN store' => s \in DOMAIN store /\ store'[s] = store[s]
        /\ \/ excuses'[s] = excuses[s] /\ (s \in DOMAIN store => s \in DOMAIN store')
           \/ excuses'[s] = excuses[s] + 1
    BY <1>7, <2>2, StoresLeave
  <2> QED BY <2>1, <2>3
<1> QED BY <1>2, <1>3, <1>4, <1>5, <1>6, <1>7, StepsAre, RestsQuiet, SendsQuiet

LEMMA KeptStep ==
  ASSUME Shapes, Alone, AnswerKept, [Next]_vars
  PROVE  AnswerKept'
<1>0. offered' = offered
  BY CountersStep DEF Shapes
<1>1. SUFFICES ASSUME NEW c \in Clients, Successful(c)', Keyed(c)', excuses'[Slot(c)'] = 0
               PROVE  /\ Slot(c)' \in DOMAIN store'
                      /\ store'[Slot(c)'].body = request'[c].body
  BY DEF AnswerKept
<1>2. /\ request'[c].at = "answered" /\ request'[c].status \in {200, 202}
  BY <1>1 DEF Successful
\* With the entry there before the step, it is there after it.
<1>3. ASSUME Slot(c)' = Slot(c), Keyed(c), request'[c].body = request[c].body,
             request[c].at # "idle",
             Slot(c) \in DOMAIN store /\ store[Slot(c)].body = request[c].body
      PROVE  /\ Slot(c)' \in DOMAIN store'
             /\ store'[Slot(c)'].body = request'[c].body
  <2>1. PICK s \in CachedSlots : s = Slot(c)
    BY <1>3, RequestShape DEF CachedSlots
  <2>2. s \in DOMAIN store' /\ store'[s] = store[s]
    BY <1>1, <1>3, <2>1, EntryStays
  <2> QED BY <1>3, <2>1, <2>2
<1>4. CASE request'[c] = request[c]
  <2>1. Slot(c)' = Slot(c) /\ Keyed(c) /\ Successful(c)
    BY <1>1, <1>4 DEF Slot, Keyed, Route, Successful
  <2>2. PICK s \in CachedSlots : s = Slot(c)
    BY <1>2, <1>4, <2>1, RequestShape DEF CachedSlots
  <2>3. excuses[s] = 0
    <3>1. excuses[s] \in Nat /\ excuses'[s] = 0
      BY <1>1, <2>1, <2>2 DEF CachedSlots, Shapes, Tallies
    <3>2. excuses'[s] >= excuses[s]
      BY <3>1, ExcusesStay
    <3> QED BY <3>1, <3>2
  <2>4. Slot(c) \in DOMAIN store /\ store[Slot(c)].body = request[c].body
    BY <2>1, <2>2, <2>3 DEF AnswerKept
  <2> QED BY <1>2, <1>3, <1>4, <2>1, <2>4
<1>5. ASSUME NEW status, NEW of, Ends(c, status, of)
      PROVE  /\ Slot(c)' \in DOMAIN store'
             /\ store'[Slot(c)'].body = request'[c].body
  <2>1. /\ request[c].at \in Moving /\ status \in Nat /\ of \in Bodies \cup {Malformed}
        /\ Answer(c, status, of) /\ Truthful(c, status, of) /\ request[c].at # "idle"
    BY <1>5 DEF Ends, Moving
  <2>2. /\ request'[c].status = status /\ request'[c].path = request[c].path
        /\ request'[c].key = request[c].key /\ request'[c].body = request[c].body
    BY <1>0, <2>1, RequestEnds
  <2>3. Slot(c)' = Slot(c)
    BY <2>2 DEF Slot
  <2>4. /\ Keyed(c) /\ Slot(c) \in DOMAIN store
        /\ store[Slot(c)].body = request[c].body
    BY <1>2, <2>1, <2>2 DEF Truthful
  <2> QED BY <1>3, <2>1, <2>2, <2>3, <2>4
<1>6. CASE Store(c)
  <2>1. PICK status \in Nat, of \in Bodies :
          /\ status = Route(c).ok /\ of = request[c].body /\ Answer(c, status, of)
          /\ request[c].at \in Moving
    BY <1>0, <1>6, StoreEffect DEF Moving
  <2>2. /\ request'[c].path = request[c].path
        /\ request'[c].key = request[c].key /\ request'[c].body = request[c].body
    BY <1>0, <2>1, RequestEnds
  <2>3. Slot(c)' = Slot(c) /\ Keyed(c)
    BY <1>1, <2>2 DEF Slot, Keyed, Route
  <2>4. Slot(c) \in DOMAIN store' /\ store'[Slot(c)].body = request[c].body
    BY <1>0, <1>6, <2>3, StoreEffect
  <2> QED BY <2>2, <2>3, <2>4
<1> QED BY <1>2, <1>4, <1>5, <1>6, AnsweredTells

-----------------------------------------------------------------------------
(* Every run of a key after the first has an excuse: a handler at work has  *)
(* one to come, and a slot without entry and handler has one for each run.  *)

\* A number of runs, handlers at work and excuses; nobody is there, no entry is.
Balanced(runs, working, excused, empty) ==
  /\ runs + working <= 1 + excused
  /\ empty => runs <= excused

Empty(s) == OnSlot(s) = {} /\ s \notin DOMAIN store

Accounted ==
  \A s \in CachedSlots : s[1] # "decide_approval" =>
    Balanced(RunsOf(s), Cardinality(Working(s)), excuses[s], Empty(s))

LEMMA WorkingCount ==
  ASSUME NEW s
  PROVE  /\ IsFiniteSet(Working(s)) /\ Cardinality(Working(s)) \in Nat
         /\ \A c : /\ IsFiniteSet(Working(s) \ {c}) /\ IsFiniteSet(Working(s) \cup {c})
                   /\ Cardinality(Working(s) \ {c}) =
                        IF c \in Working(s) THEN Cardinality(Working(s)) - 1
                        ELSE Cardinality(Working(s))
                   /\ Cardinality(Working(s) \cup {c}) =
                        IF c \in Working(s) THEN Cardinality(Working(s))
                        ELSE Cardinality(Working(s)) + 1
<1>1. IsFiniteSet(Working(s)) /\ Cardinality(Working(s)) \in Nat
  <2>1. Working(s) \in SUBSET Clients
    BY DEF Working
  <2> QED BY <2>1, RequestAssumption, FS_Subset, FS_CardinalityType
<1> QED BY <1>1, FS_AddElement, FS_RemoveElement

LEMMA AccountedStep ==
  ASSUME Shapes, Accounted, [Next]_vars
  PROVE  Accounted'
<1>0. CachedSlots' = CachedSlots
  BY CountersStep DEF Shapes, CachedSlots
<1>1. SUFFICES ASSUME NEW s \in CachedSlots, s[1] # "decide_approval"
               PROVE  Balanced(RunsOf(s)', Cardinality(Working(s)'), excuses'[s], Empty(s)')
  BY <1>0 DEF Accounted
<1> DEFINE n == RunsOf(s)
           w == Cardinality(Working(s))
           e == excuses[s]
           n1 == RunsOf(s)'
           w1 == Cardinality(Working(s)')
           e1 == excuses'[s]
<1>2. /\ n \in Nat /\ w \in Nat /\ e \in Nat /\ s \in offered \X Keys
      /\ n + w <= 1 + e /\ (Empty(s) => n <= e)
  <2>1. n \in Nat /\ w \in Nat
    BY RunsAre, WorkingCount
  <2>2. e \in Nat /\ s \in offered \X Keys
    BY DEF CachedSlots, Shapes, Tallies
  <2>3. Balanced(n, w, e, Empty(s))
    BY <1>1 DEF Accounted
  <2> HIDE DEF n, w, e
  <2> QED BY <2>1, <2>2, <2>3 DEF Balanced
<1>3. ran' = ran => n1 = n
  BY <1>2, RunsStep
<1> HIDE DEF n, w, e, n1, w1, e1
<1>4. SUFFICES n1 + w1 <= 1 + e1 /\ (Empty(s)' => n1 <= e1)
  BY DEF Balanced, n1, w1, e1
<1>5. CASE Quiet(s) /\ ran' = ran
  <2>1. n1 = n /\ w1 = w /\ e1 = e /\ (Empty(s)' <=> Empty(s))
    BY <1>3, <1>5 DEF Quiet, Empty, w, w1, e, e1
  <2> QED BY <1>2, <2>1
<1>6. CASE Restart
  <2>1. /\ Working(s)' = {} /\ ran' = ran /\ e1 >= e
        /\ ~Empty(s) => e1 >= e + 1
    BY <1>6, RestartClears DEF Empty, e, e1
  <2>2. w1 = 0 /\ n1 = n
    BY <1>3, <2>1, FS_EmptySet DEF w1
  <2>3. e1 \in Nat
    BY <1>2, ShapesStep, CountersStep DEF e1, Shapes, Tallies
  <2> QED BY <1>2, <2>1, <2>2, <2>3
<1>7. ASSUME NEW c \in Clients, NEW status, NEW of, Ends(c, status, of)
      PROVE  n1 + w1 <= 1 + e1 /\ (Empty(s)' => n1 <= e1)
  <2>1. /\ OnSlot(s)' = OnSlot(s) \ {c} /\ Working(s)' = Working(s) \ {c}
        /\ UNCHANGED <<store, excuses, ran>>
        /\ c \in OnSlot(s) => c \in Working(s)
    BY <1>1, <1>7, EndsLeaves
  <2>2. n1 = n /\ e1 = e /\ w1 = (IF c \in Working(s) THEN w - 1 ELSE w)
    BY <1>3, <2>1, WorkingCount DEF e, e1, w, w1
  <2>3. Empty(s)' => Empty(s) \/ c \in Working(s)
    BY <2>1 DEF Empty
  <2>4. c \in Working(s) => w1 = w - 1 /\ w - 1 >= 0
    <3>1. Cardinality(Working(s) \ {c}) \in Nat
      BY WorkingCount, FS_CardinalityType
    <3> QED BY <1>2, <2>1, <2>2, <3>1 DEF w1
  <2>5. CASE c \in Working(s)
    BY <1>2, <2>2, <2>4, <2>5
  <2>6. CASE c \notin Working(s)
    BY <1>2, <2>2, <2>3, <2>6
  <2> QED BY <2>5, <2>6
<1>8. ASSUME NEW c \in Clients, Works(c)
      PROVE  n1 + w1 <= 1 + e1 /\ (Empty(s)' => n1 <= e1)
  <2>1. CASE /\ OnSlot(s)' = OnSlot(s) \cup {c} /\ Working(s)' = Working(s) \cup {c}
             /\ excuses'[s] >= excuses[s]
             /\ s \in DOMAIN store \/ OnSlot(s) # {} => excuses'[s] >= excuses[s] + 1
    <3>1. /\ ran' = ran /\ e1 >= e /\ (~Empty(s) => e1 >= e + 1) /\ ~Empty(s)'
      BY <1>8, <2>1, WorksStarts DEF Empty, e, e1
    <3>2. w1 \in {w, w + 1} /\ n1 = n
      BY <1>3, <2>1, <3>1, WorkingCount DEF w, w1
    <3>3. Empty(s) => w = 0
      <4>1. Working(s) \subseteq OnSlot(s)
        BY DEF Working, OnSlot, Handling
      <4> QED BY <4>1, FS_EmptySet DEF Empty, w
    <3>4. e1 \in Nat
      BY <1>2, ShapesStep, CountersStep DEF e1, Shapes, Tallies
    <3> QED BY <1>2, <3>1, <3>2, <3>3, <3>4
  <2> QED BY <1>5, <1>8, <2>1, WorksStarts
<1>9. ASSUME NEW c \in Clients, Selects(c) \/ Succeeds(c) \/ Resumes(c)
      PROVE  n1 + w1 <= 1 + e1 /\ (Empty(s)' => n1 <= e1)
  <2>1. /\ OnSlot(s)' = OnSlot(s) /\ Working(s)' = Working(s) \ {c}
        /\ UNCHANGED <<store, excuses>> /\ (ran' = ran \/ Succeeds(c))
    BY <1>9, WithinSlot
  <2>2. e1 = e /\ w1 = (IF c \in Working(s) THEN w - 1 ELSE w) /\ (Empty(s)' <=> Empty(s))
    BY <2>1, WorkingCount DEF e, e1, w, w1, Empty
  <2>3. CASE ran' = ran
    BY <1>2, <1>3, <2>2, <2>3
  <2>4. CASE Succeeds(c) /\ Slot(c) # s
    <3>1. n1 = n
      BY <1>2, <2>4, RunsStep DEF n, n1
    <3> QED BY <1>2, <2>2, <3>1
  <2>5. CASE Succeeds(c) /\ Slot(c) = s
    <3>1. n1 = n + 1
      BY <1>2, <2>5, RunsStep DEF n, n1
    <3>2. request[c].at = "work"
      BY <1>1, <2>5 DEF Succeeds, Slot, Shapes, Requests
    <3>3. c \in Working(s) /\ ~Empty(s)
      BY <2>5, <3>2 DEF Working, Empty, OnSlot, Handling
    <3> QED BY <1>2, <2>2, <3>1, <3>3
  <2> QED BY <2>1, <2>3, <2>4, <2>5
<1>10. ASSUME NEW c \in Clients, Store(c)
       PROVE  n1 + w1 <= 1 + e1 /\ (Empty(s)' => n1 <= e1)
  <2>1. /\ Working(s)' = Working(s) /\ ran' = ran /\ OnSlot(s)' = OnSlot(s) \ {c}
        /\ \/ s \in DOMAIN store' /\ e1 = e
           \/ /\ c \notin OnSlot(s)
              /\ s \in DOMAIN store' => s \in DOMAIN store
              /\ \/ e1 = e /\ (s \in DOMAIN store => s \in DOMAIN store')
                 \/ e1 = e + 1
    BY <1>10, StoresLeave DEF e, e1
  <2>2. w1 = w /\ n1 = n
    BY <1>3, <2>1 DEF w, w1
  <2>3. \/ e1 = e /\ (Empty(s)' => Empty(s))
        \/ e1 = e + 1
    BY <2>1 DEF Empty
  <2> QED BY <1>2, <2>2, <2>3
<1> QED BY <1>5, <1>6, <1>7, <1>8, <1>9, <1>10, StepsAre, RestsQuiet, SendsQuiet

LEMMA RerunsFollow ==
  ASSUME Shapes, Accounted, DecidedOnce
  PROVE  RerunsExplained
<1>1. SUFFICES ASSUME NEW s \in DOMAIN excuses, Routes[s[1]].cached
               PROVE  RunsOf(s) <= 1 + excuses[s]
  BY DEF RerunsExplained
<1>2. s \in CachedSlots /\ excuses[s] \in Nat
  BY <1>1 DEF Shapes, Tallies, CachedSlots
<1>3. RunsOf(s) = Total(ran, AttemptsOf(s)) /\ RunsOf(s) \in Nat
  BY RunsAre
<1>4. CASE s[1] = "decide_approval"
  <2>1. AttemptsOf(s) \in SUBSET Decisions
    BY <1>4 DEF AttemptsOf, Decisions, AttemptsAt, Attempts
  <2>2. Total(ran, AttemptsOf(s)) <= 1
    BY <2>1 DEF DecidedOnce
  <2> QED BY <1>2, <1>3, <2>2
<1>5. CASE s[1] # "decide_approval"
  <2>1. RunsOf(s) + Cardinality(Working(s)) <= 1 + excuses[s]
    BY <1>2, <1>5 DEF Accounted, Balanced
  <2>2. Cardinality(Working(s)) \in Nat
    BY WorkingCount
  <2> QED BY <1>2, <1>3, <2>1, <2>2
<1> QED BY <1>4, <1>5

-----------------------------------------------------------------------------
(* The theorem *)

AnswersInv ==
  Shapes /\ Backed /\ AnswersTrue /\ DecidedOnce /\ Alone /\ AnswerKept /\ Accounted

LEMMA AnswersStep == AnswersInv /\ [Next]_vars => AnswersInv'
BY ShapesStep, BackedStep, AnswersTrueStep, DecidedOnceStep, AloneStep, KeptStep,
   AccountedStep DEF AnswersInv

LEMMA ShapesInit == Init => Shapes
<1> SUFFICES ASSUME Init
             PROVE  Shapes
  OBVIOUS
<1>1. Counters
  BY BoundAssumption DEF Init, Counters
<1>2. Requests
  BY DEF Init, Requests, Resting
<1>3. Cached
  <2>1. DOMAIN store = {} /\ store \in [DOMAIN store -> Entry]
    BY DEF Init
  <2>2. IsFiniteSet({}) /\ Cardinality({}) = 0
    BY FS_EmptySet
  <2> QED BY <2>1, <2>2, CacheAssumption DEF Cached
<1>4. Tallies
  BY DEF Init, Tallies, Attempts
<1> QED BY <1>1, <1>2, <1>3, <1>4 DEF Shapes

LEMMA AnswersInit == Init => AnswersInv
<1> SUFFICES ASSUME Init
             PROVE  AnswersInv
  OBVIOUS
<1>1. Shapes
  BY ShapesInit
<1>2. /\ DOMAIN store = {} /\ \A c \in Clients : request[c].at = "idle"
      /\ \A a \in Attempts : ran[a] = 0
      /\ \A s \in offered \X Keys : excuses[s] = 0
  BY DEF Init, Attempts
<1>3. Backed /\ AnswersTrue /\ AnswerKept
  BY <1>2 DEF Backed, AnswersTrue, AnswersOwnBody, ConflictTrue, AnswerKept, Successful
<1>4. ASSUME NEW S, IsFiniteSet(S), S \subseteq Attempts
      PROVE  Total(ran, S) = 0
  BY <1>2, <1>4, TotalOfNothing
<1>5. DecidedOnce
  <2>1. IsFiniteSet(Decisions) /\ Decisions \subseteq Attempts
    BY AttemptsFinite DEF Decisions, AttemptsAt
  <2>2. \A S \in SUBSET Decisions : IsFiniteSet(S) /\ S \subseteq Attempts
    BY <2>1, FS_Subset
  <2>3. \A S \in SUBSET Decisions : Total(ran, S) <= 1
    BY <1>4, <2>2
  <2> QED BY <1>2, <2>1, <2>3 DEF DecidedOnce
<1>6. \A s : OnSlot(s) = {} /\ Working(s) = {}
  BY <1>2 DEF OnSlot, Working, Handling
<1>7. Alone
  BY <1>6 DEF Alone
<1>8. Accounted
  <2>1. SUFFICES ASSUME NEW s \in CachedSlots
                 PROVE  Balanced(RunsOf(s), Cardinality(Working(s)), excuses[s], Empty(s))
    BY DEF Accounted
  <2>2. RunsOf(s) = 0
    <3>1. RunsOf(s) = Total(ran, AttemptsOf(s)) /\ IsFiniteSet(AttemptsOf(s))
      BY <1>1, RunsAre
    <3>2. AttemptsOf(s) \subseteq Attempts
      BY DEF AttemptsOf
    <3> QED BY <1>4, <3>1, <3>2
  <2>3. Cardinality(Working(s)) = 0
    BY <1>6, FS_EmptySet
  <2>4. excuses[s] = 0
    BY <1>2 DEF CachedSlots
  <2> QED BY <2>2, <2>3, <2>4 DEF Balanced
<1> QED BY <1>1, <1>3, <1>5, <1>7, <1>8 DEF AnswersInv

LEMMA TypeFollows == Shapes => TypeOK
<1> SUFFICES ASSUME Shapes
             PROVE  TypeOK
  OBVIOUS
<1>1. offered \subseteq Paths
  BY OfferAssumption DEF Shapes, Counters
<1>2. DOMAIN store \subseteq {s \in Slots : s[1] \in offered /\ Routes[s[1]].cached}
  BY <1>1 DEF Shapes, Cached, Slots
<1>3. \A s \in DOMAIN store : store[s].expires <= now + TTL /\ store[s].body \in Bodies
  BY DEF Shapes, Cached, Entry
<1>4. \A c \in Clients : request[c].at \in
        {"idle", "check", "work", "update", "resume", "store", "answered"}
  BY DEF Shapes, Requests, Resting, Flying, Ended, Moving
<1> QED BY <1>2, <1>3, <1>4 DEF TypeOK, Shapes, Counters, Cached

\* What a client is told can be trusted: a success is of their own body and of
\* a run under their key, a conflict is one, the approval is decided once; a
\* key is run again only where an entry was lost or requests overlapped, and
\* without either the answer is there for the retry (idempotency.py:75,
\* idempotency_middleware.py:56).
THEOREM AnswersAreExplained == Spec => []AnswersExplained
<1>1. AnswersInv => AnswersExplained
  BY TypeFollows, RerunsFollow, DecidedOnceMeans
     DEF AnswersInv, AnswersTrue, AnswersExplained
<1> QED BY <1>1, AnswersInit, AnswersStep, PTL DEF Spec


-----------------------------------------------------------------------------
(*************************************************************************)
(* LifecycleHolds: what the lifespan holds, starts and stops, and what   *)
(* the probe may answer.                                                 *)
(*************************************************************************)

-----------------------------------------------------------------------------
LifeShape ==
  /\ stage \in {"starting", "serving", "stopping", "stopped", "failed", "aborted"}
  /\ step \in 1..8
  /\ held \subseteq Resources
  /\ task \in [Tasks -> {"none", "asleep", "scanning", "ended"}]
  /\ signalled \subseteq Tasks
  /\ up \in [Dependencies -> BOOLEAN]
  /\ probe \in [at : {"idle", "pg", "nats"}, pg : BOOLEAN,
                answer : {"none", "ready", "degraded"},
                absent : SUBSET Dependencies, missed : SUBSET Dependencies]

\* How far the start is: what it holds, and whether it has started the tasks.
StartTells ==
  stage = "starting" =>
    /\ signalled = {}
    /\ step > 2 => "pool" \in held
    /\ step > 3 => "nats" \in held
    /\ step > 4 => "checkpointer" \in held
    /\ \A t \in Tasks : task[t] = IF step > 6 THEN "asleep" ELSE "none"

ServingTells ==
  stage = "serving" =>
    /\ held = Resources /\ step = 1 /\ signalled = {}
    /\ \A t \in Tasks : task[t] \in {"asleep", "scanning"}

\* How far the teardown is: which tasks have ended, which resources were closed
\* or left with a trouble.
StopTells ==
  /\ stage = "stopping" =>
       /\ step \in 1..6
       /\ step > 1 => task["outbox_retry"] = "ended"
       /\ step > 2 => task["escalator"] = "ended"
       /\ step > 3 => task["governor"] = "ended"
       /\ step > 4 => "nats" \notin held \/ "close" \in troubles
       /\ step > 5 => "checkpointer" \notin held \/ "close" \in troubles
  /\ stage \in {"stopped", "aborted"} => \A t \in Tasks : task[t] = "ended"
  /\ stage = "stopped" => held = {} \/ "close" \in troubles
  /\ stage \in {"failed", "aborted"} => troubles # {}

\* A task that may scan has what a scan uses.
TasksProvided ==
  \A t \in Tasks : task[t] \in {"asleep", "scanning"} => {"pool", "nats"} \subseteq held

\* What the probe knows of the dependencies while it is under way.
ProbeTells ==
  /\ probe.at # "idle" =>
       /\ stage = "serving"
       /\ \A d \in probe.absent : ~up[d]
       /\ \A d \in Dependencies : up[d] \/ d \in probe.missed
  /\ probe.at = "nats" /\ probe.pg => "pg" \notin probe.absent
  /\ probe.at = "nats" /\ ~probe.pg => "pg" \in probe.missed
  /\ ReadyTrue

LifeInv ==
  LifeShape /\ StartTells /\ ServingTells /\ StopTells /\ TasksProvided /\ ProbeTells

LEMMA TeardownIs ==
  /\ Teardown[1] = "outbox_retry" /\ Teardown[2] = "escalator" /\ Teardown[3] = "governor"
  /\ Teardown[4] = "nats" /\ Teardown[5] = "checkpointer" /\ Teardown[6] = "pool"
  /\ Len(Teardown) = 6
BY DEF Teardown

LEMMA StartupIs ==
  /\ Startup[1] = "config" /\ Startup[2] = "pool" /\ Startup[3] = "nats"
  /\ Startup[4] = "checkpointer" /\ Startup[5] = "build" /\ Startup[6] = "tasks"
  /\ Startup[7] = "agents" /\ Startup[8] = "wire"
  /\ Len(Startup) = 8
BY DEF Startup

LEMMA LifeInitially == LifeInit => LifeInv
BY DEF LifeInit, LifeInv, LifeShape, StartTells, ServingTells, StopTells, TasksProvided,
       ProbeTells, ReadyTrue, Idle, Resources

-----------------------------------------------------------------------------
(* The start *)

LEMMA StartSteps ==
  ASSUME LifeInv, StartStep \/ StartRefused \/ StartRaises
  PROVE  LifeInv'
<1> USE DEF LifeInv
<1>1. CASE StartStep
  <2>1. stage = "starting" /\ step \in 1..8
    BY <1>1 DEF StartStep, LifeShape
  <2>2. LifeShape'
    BY <1>1, <2>1, StartupIs DEF StartStep, LifeShape, bounds
  <2>3. /\ step = 8 => stage' = "serving" /\ step' = 1
        /\ step # 8 => stage' = "starting" /\ step' = step + 1
        /\ signalled' = signalled
        /\ held \subseteq held'
        /\ step = 2 => "pool" \in held'
        /\ step = 3 => "nats" \in held'
        /\ step = 4 => "checkpointer" \in held'
        /\ task' = IF step = 6 THEN [t \in Tasks |-> "asleep"] ELSE task
    <3>1. /\ Startup[step] = "tasks" <=> step = 6
          /\ step = 2 => Startup[step] = "pool"
          /\ step = 3 => Startup[step] = "nats"
          /\ step = 4 => Startup[step] = "checkpointer"
      BY <2>1, StartupIs
    <3>2. task' = IF step = 6 THEN [t \in Tasks |-> "asleep"] ELSE task
      BY <1>1, <3>1 DEF StartStep
    <3>3. held' = held \cup ({Startup[step]} \cap Resources)
      BY <1>1 DEF StartStep
    <3>4. /\ step = 8 => stage' = "serving" /\ step' = 1
          /\ step # 8 => stage' = "starting" /\ step' = step + 1
          /\ signalled' = signalled
      BY <1>1, <2>1, StartupIs DEF StartStep
    <3> QED BY <3>1, <3>2, <3>3, <3>4 DEF Resources
  <2>8. StartTells'
    <3> SUFFICES ASSUME stage' = "starting"
                 PROVE  StartTells'
      BY DEF StartTells
    <3>1. step \in 1..7 /\ step' = step + 1
      BY <2>1, <2>3
    <3>2. \A t \in Tasks : task[t] = IF step > 6 THEN "asleep" ELSE "none"
      BY <2>1 DEF StartTells
    <3>3. \A t \in Tasks : task'[t] = IF step' > 6 THEN "asleep" ELSE "none"
      BY <2>3, <3>1, <3>2
    <3>4. /\ step' > 2 => "pool" \in held'
          /\ step' > 3 => "nats" \in held'
          /\ step' > 4 => "checkpointer" \in held'
      BY <2>1, <2>3, <3>1 DEF StartTells
    <3> QED BY <2>1, <2>3, <3>3, <3>4 DEF StartTells
  <2>4. ServingTells'
    <3> SUFFICES ASSUME stage' = "serving"
                 PROVE  ServingTells'
      BY DEF ServingTells
    <3>1. step = 8 /\ task' = task
      BY <2>1, <2>3
    <3>2. Resources \subseteq held'
      BY <2>1, <2>3, <3>1 DEF StartTells, Resources
    <3>3. \A t \in Tasks : task'[t] = "asleep"
      BY <2>1, <3>1 DEF StartTells
    <3> QED BY <2>1, <2>2, <2>3, <3>1, <3>2, <3>3 DEF ServingTells, StartTells, LifeShape
  <2>5. StopTells'
    BY <1>1, <2>1, StartupIs DEF StartStep, StopTells
  <2>6. TasksProvided'
    BY <1>1, <2>1, StartupIs DEF StartStep, StartTells, TasksProvided, Resources, LifeShape
  <2>7. ProbeTells'
    BY <1>1, <2>1 DEF StartStep, ProbeTells, ReadyTrue
  <2> QED BY <2>2, <2>8, <2>4, <2>5, <2>6, <2>7
<1>2. CASE StartRefused \/ StartRaises
  <2>1. /\ stage = "starting" /\ stage' = "failed" /\ troubles' # {}
        /\ UNCHANGED <<step, held, task, signalled, up, probe>>
    BY <1>2 DEF StartRefused, StartRaises, StartEnds
  <2> QED BY <2>1 DEF LifeShape, StartTells, ServingTells, StopTells, TasksProvided, ProbeTells,
                      ReadyTrue
<1> QED BY <1>1, <1>2

-----------------------------------------------------------------------------
(* The tasks *)

LEMMA TaskSteps ==
  ASSUME LifeInv, NEW t \in Tasks, Wake(t) \/ ScanEnds(t) \/ ScanRaises(t) \/ Leave(t)
  PROVE  LifeInv'
<1> USE DEF LifeInv
<1>1. PICK where \in {"asleep", "scanning", "ended"} :
        /\ task' = [task EXCEPT ![t] = where]
        /\ where = "ended" => t \in signalled
  BY DEF Wake, ScanEnds, ScanRaises, Leave, Goes
<1>2. /\ stage # "starting" /\ task[t] \in {"asleep", "scanning"}
      /\ UNCHANGED <<stage, step, held, signalled, up, probe, troubles>>
  BY DEF Wake, ScanEnds, ScanRaises, Leave, Goes, Runs
<1>3. LifeShape'
  BY <1>1, <1>2 DEF LifeShape
<1>4. StartTells' /\ ServingTells' /\ ProbeTells'
  BY <1>1, <1>2 DEF StartTells, ServingTells, ProbeTells, ReadyTrue, LifeShape
<1>5. TasksProvided'
  BY <1>1, <1>2 DEF TasksProvided, LifeShape
<1>6. StopTells'
  <2>1. \A x \in Tasks : task[x] = "ended" => task'[x] = "ended"
    BY <1>1, <1>2 DEF LifeShape
  <2>2. {"outbox_retry", "escalator", "governor"} = Tasks
    BY DEF Tasks
  <2> QED BY <2>1, <2>2, <1>2 DEF StopTells
<1> QED BY <1>3, <1>4, <1>5, <1>6

-----------------------------------------------------------------------------
(* The stop *)

LEMMA StopSteps ==
  ASSUME LifeInv,
         \/ Stop \/ Cancel
         \/ \E t \in Tasks : StopTask(t) \/ AwaitTask(t)
         \/ \E r \in Resources : Close(r) \/ CloseRaises(r)
  PROVE  LifeInv'
<1> USE DEF LifeInv
<1>1. CASE Stop
  BY <1>1 DEF Stop, LifeShape, StartTells, ServingTells, StopTells, TasksProvided, ProbeTells,
              ReadyTrue, bounds
<1>2. CASE Cancel
  <2>1. UNCHANGED <<step, held, task, signalled, up, probe>>
    BY <1>2 DEF Cancel
  <2>2. CASE stage = "starting" /\ stage' = "failed"
    BY <1>2, <2>1, <2>2 DEF Cancel, LifeShape, StartTells, ServingTells, StopTells, TasksProvided,
                            ProbeTells, ReadyTrue
  <2>3. CASE UNCHANGED stage
    BY <1>2, <2>1, <2>3 DEF Cancel, LifeShape, StartTells, ServingTells, StopTells, TasksProvided,
                            ProbeTells, ReadyTrue
  <2>4. CASE stage = "stopping" /\ stage' = "aborted" /\ Teardown[step] \in Resources
    <3>1. step > 3
      BY <2>4, TeardownIs DEF LifeShape, StopTells, Resources
    <3>2. \A t \in Tasks : task[t] = "ended"
      BY <2>4, <3>1 DEF StopTells, Tasks
    <3> QED BY <1>2, <2>1, <2>4, <3>2
            DEF Cancel, LifeShape, StartTells, ServingTells, StopTells, TasksProvided, ProbeTells,
                ReadyTrue
  <2> QED BY <1>2, <2>2, <2>3, <2>4 DEF Cancel
<1>3. ASSUME NEW t \in Tasks, StopTask(t)
      PROVE  LifeInv'
  BY <1>3 DEF StopTask, AtTask, LifeShape, StartTells, ServingTells, StopTells, TasksProvided,
              ProbeTells, ReadyTrue, bounds
<1>4. ASSUME NEW t \in Tasks, AwaitTask(t)
      PROVE  LifeInv'
  <2>1. /\ stage = "stopping" /\ Teardown[step] = t /\ task[t] = "ended"
        /\ UNCHANGED <<held, task, signalled, up, probe, troubles>>
    BY <1>4 DEF AwaitTask, AtTask, bounds
  <2>2. step \in 1..3
    BY <2>1, TeardownIs DEF StopTells, Tasks
  <2>3. stage' = stage /\ step' = step + 1
    BY <1>4, <2>2, TeardownIs DEF AwaitTask, Proceed
  <2> QED BY <2>1, <2>2, <2>3, TeardownIs
          DEF LifeShape, StartTells, ServingTells, StopTells, TasksProvided, ProbeTells, ReadyTrue
<1>5. ASSUME NEW r \in Resources, Close(r) \/ CloseRaises(r)
      PROVE  LifeInv'
  <2>1. /\ stage = "stopping" /\ Teardown[step] = r
        /\ UNCHANGED <<task, signalled, up, probe>>
        /\ \/ held' = held \ {r} /\ troubles' = troubles
           \/ held' = held /\ troubles' = troubles \cup {"close"}
    BY <1>5 DEF Close, CloseRaises, AtClose, bounds
  <2>2. step \in 4..6
    BY <2>1, TeardownIs DEF StopTells, Resources
  <2>3. \A t \in Tasks : task[t] = "ended"
    BY <2>1, <2>2 DEF StopTells, Tasks
  <2>4. \/ step = 6 /\ stage' = "stopped" /\ step' = step
        \/ step # 6 /\ stage' = stage /\ step' = step + 1
    BY <1>5, TeardownIs DEF Close, CloseRaises, Proceed
  <2>5. LifeShape' /\ StartTells' /\ ServingTells' /\ TasksProvided' /\ ProbeTells'
    BY <2>1, <2>2, <2>3, <2>4
       DEF LifeShape, StartTells, ServingTells, TasksProvided, ProbeTells, ReadyTrue
  <2>6. StopTells'
    <3>1. r = IF step = 4 THEN "nats" ELSE IF step = 5 THEN "checkpointer" ELSE "pool"
      BY <2>1, <2>2, TeardownIs
    <3>2. held' \subseteq held /\ troubles \subseteq troubles'
          /\ (r \notin held' \/ "close" \in troubles')
      BY <2>1
    <3>3. \A t \in Tasks : task'[t] = "ended"
      BY <2>1, <2>3
    <3>4. /\ task'["outbox_retry"] = "ended" /\ task'["escalator"] = "ended"
          /\ task'["governor"] = "ended"
      BY <3>3 DEF Tasks
    <3>5. CASE step = 6
      <4>1. held' = {} \/ "close" \in troubles'
        BY <2>1, <3>1, <3>2, <3>5 DEF StopTells, LifeShape, Resources
      <4> QED BY <2>4, <3>3, <3>5, <4>1 DEF StopTells
    <3>6. CASE step \in 4..5
      BY <2>1, <2>4, <3>1, <3>2, <3>4, <3>6 DEF StopTells
    <3> QED BY <2>2, <3>5, <3>6
  <2> QED BY <2>5, <2>6
<1> QED BY <1>1, <1>2, <1>3, <1>4, <1>5

-----------------------------------------------------------------------------
(* The dependencies and the probe *)

LEMMA ProbeSteps ==
  ASSUME LifeInv,
         Ask \/ CheckPg \/ CheckNats \/ \E d \in Dependencies : Drop(d) \/ Return(d)
  PROVE  LifeInv'
<1> USE DEF LifeInv
<1>1. UNCHANGED <<stage, step, held, task, signalled, troubles>>
  BY DEF Ask, CheckPg, CheckNats, Drop, Return, bounds
<1>2. StartTells' /\ ServingTells' /\ StopTells' /\ TasksProvided'
  BY <1>1 DEF StartTells, ServingTells, StopTells, TasksProvided
<1>3. LifeShape'
  <2>1. up' \in [Dependencies -> BOOLEAN]
    BY DEF LifeShape, Ask, CheckPg, CheckNats, Drop, Return, bounds
  <2>2. CASE Ask
    <3>1. PICK down \in SUBSET Dependencies :
            probe' = [at |-> "pg", pg |-> FALSE, answer |-> "none", absent |-> down, missed |-> down]
      BY <2>2 DEF Ask
    <3> QED BY <1>1, <2>1, <3>1 DEF LifeShape
  <2>5. CASE CheckNats
    <3>1. PICK answer \in {"ready", "degraded"} :
            probe' = [probe EXCEPT !.at = "idle", !.answer = answer]
      BY <2>5 DEF CheckNats
    <3> QED BY <1>1, <2>1, <3>1 DEF LifeShape
  <2>3. CASE CheckPg
    <3>1. PICK b \in BOOLEAN : b = (up["pg"] /\ "pool" \in held)
      OBVIOUS
    <3>2. probe' = [probe EXCEPT !.at = "nats", !.pg = b]
      BY <2>3, <3>1 DEF CheckPg
    <3> QED BY <1>1, <2>1, <3>2 DEF LifeShape
  <2>4. ASSUME NEW d \in Dependencies, Drop(d) \/ Return(d)
        PROVE  LifeShape'
    BY <1>1, <2>1, <2>4 DEF LifeShape, Drop, Return
  <2> QED BY <2>2, <2>3, <2>4, <2>5
<1>4. ProbeTells'
  <2>1. CASE Ask
    BY <1>1, <2>1 DEF Ask, ProbeTells, ReadyTrue, LifeShape
  <2>2. CASE CheckPg
    BY <1>1, <2>2 DEF CheckPg, ProbeTells, ReadyTrue, LifeShape, ServingTells, Resources, Dependencies
  <2>3. CASE CheckNats
    BY <1>1, <2>3 DEF CheckNats, ProbeTells, ReadyTrue, LifeShape, ServingTells, Resources,
                      Dependencies
  <2>4. ASSUME NEW d \in Dependencies, Drop(d)
        PROVE  ProbeTells'
    BY <1>1, <2>4 DEF Drop, ProbeTells, ReadyTrue, LifeShape
  <2>5. ASSUME NEW d \in Dependencies, Return(d)
        PROVE  ProbeTells'
    BY <1>1, <2>5 DEF Return, ProbeTells, ReadyTrue, LifeShape
  <2> QED BY <2>1, <2>2, <2>3, <2>4, <2>5
<1> QED BY <1>2, <1>3, <1>4

-----------------------------------------------------------------------------
LEMMA LifeStep == LifeInv /\ [LifeNext]_lifevars => LifeInv'
<1> SUFFICES ASSUME LifeInv, [LifeNext]_lifevars
             PROVE  LifeInv'
  OBVIOUS
<1>1. CASE UNCHANGED lifevars
  BY <1>1 DEF lifevars, LifeInv, LifeShape, StartTells, ServingTells, StopTells, TasksProvided,
              ProbeTells, ReadyTrue
<1>2. CASE LifeNext
  BY <1>2, StartSteps, TaskSteps, StopSteps, ProbeSteps DEF LifeNext, LifespanStep
<1> QED BY <1>1, <1>2

\* Whatever goes down, raises or is cancelled, the tasks have what they use, a
\* lifespan that returned gave everything back, and the probe tells what it saw
\* (lifespan.py:326).
THEOREM LifecycleAlwaysHolds == LifeSpec => []LifecycleHolds
<1>1. LifeInv => LifecycleHolds
  BY DEF LifeInv, LifecycleHolds, NothingAfterClose, LeaksExplained, LifeShape, ServingTells,
         StopTells, TasksProvided, ProbeTells
<1> QED BY <1>1, LifeInitially, LifeStep, PTL DEF LifeSpec

-----------------------------------------------------------------------------
(* KpisAgree: what a snapshot tells.  First the minutes down. *)

\* Added up whatever the order of the rows.
MinutesOf(e) == [i \in DOMAIN e |-> e[i].minutes]
RecentOf(e) == {i \in DOMAIN e : e[i].recent}

LEMMA MinutesMean ==
  ASSUME NEW e, NEW S \in SUBSET (DOMAIN e), IsFiniteSet(S)
  PROVE  MapThenSumSet(LAMBDA i : e[i].minutes, S) = Total(MinutesOf(e), S)
<1> DEFINE f == MinutesOf(e)
           P(g) == g = [s \in SUBSET S |->
                          IF s = {} THEN 0
                          ELSE LET x == CHOOSE x \in s : TRUE IN e[x].minutes + g[s \ {x}]]
           c == CHOOSE g : P(g)
<1>1. MapThenSumSet(LAMBDA i : e[i].minutes, S) = c[S]
  BY DEF MapThenSumSet, MapThenFoldSet
<1>2. ASSUME NEW s \in SUBSET S, s # {}
      PROVE  f[CHOOSE x \in s : TRUE] = e[CHOOSE x \in s : TRUE].minutes
  BY <1>2 DEF MinutesOf
<1>3. ASSUME NEW g
      PROVE  [s \in SUBSET S |-> IF s = {} THEN 0
                ELSE LET x == CHOOSE x \in s : TRUE IN e[x].minutes + g[s \ {x}]]
             = [s \in SUBSET S |-> IF s = {} THEN 0
                  ELSE LET x == CHOOSE x \in s : TRUE IN f[x] + g[s \ {x}]]
  <2> HIDE DEF f
  <2> QED BY <1>2
<1>4. PICK g : AddsUp(f, S, g)
  BY AddsSomehow
<1>5. P(g)
  BY <1>3, <1>4 DEF AddsUp
<1>6. P(c)
  <2> HIDE DEF P
  <2> QED BY <1>5
<1>7. AddsUp(f, S, c)
  <2>1. PICK h : h = c
    OBVIOUS
  <2>2. P(h)
    BY <1>6, <2>1
  <2>3. AddsUp(f, S, h)
    BY <1>3, <2>2 DEF AddsUp
  <2> HIDE DEF c
  <2> QED BY <2>1, <2>3
<1>8. AddsUp(f, S, CHOOSE h : AddsUp(f, S, h))
  BY AddsSomehow
<1>9. c = CHOOSE h : AddsUp(f, S, h)
  <2> HIDE DEF c, f
  <2> QED BY <1>7, <1>8, AddsOnce
<1> QED BY <1>1, <1>9 DEF Total

LEMMA RowsAreFinite ==
  ASSUME NEW e \in Seq(RowSet)
  PROVE  /\ \A S \in SUBSET (DOMAIN e) : IsFiniteSet(S) /\ Cardinality(S) \in 0..Len(e)
         /\ RecentOf(e) \in SUBSET (DOMAIN e)
         /\ \A i \in DOMAIN e : MinutesOf(e)[i] \in Nat
<1>1. PICK n \in Nat : n = Len(e)
  OBVIOUS
<1>2. DOMAIN e = 1..n /\ \A i \in 1..n : e[i] \in RowSet
  BY <1>1
<1>3. IsFiniteSet(1..n) /\ Cardinality(1..n) = n
  BY FS_Interval
<1>4. \A S \in SUBSET (1..n) : IsFiniteSet(S) /\ Cardinality(S) \in Nat /\ Cardinality(S) <= n
  BY <1>3, FS_Subset, FS_CardinalityType
<1>5. \A i \in DOMAIN e : MinutesOf(e)[i] \in Nat
  BY <1>2, KpiAssumption DEF MinutesOf, RowSet
<1> QED BY <1>1, <1>2, <1>4, <1>5 DEF RecentOf

-----------------------------------------------------------------------------
(* What a snapshot tells while its queries run *)

KpiShape ==
  /\ events \in Seq(RowSet)
  /\ next \in Names \cup {"done"}
  /\ kpi = [n \in Names |-> kpi[n]]

\* A query that has not run has no answer.
RunInOrder ==
  /\ next \in {"oee", "mttr", "mtbf"} => kpi["mtbf"] = None
  /\ next # "done" => kpi["downtime"] = None

\* The repairs that were averaged are rows still; the query that counts the
\* failures sees no fewer.
RepairsTell ==
  kpi["mttr"] # None =>
    /\ kpi["mttr"][2] \in 0..Len(events)
    /\ kpi["mtbf"] # None => kpi["mttr"][2] <= kpi["mtbf"][2]

\* Whatever the downtime query would answer now, it covers what availability
\* left open, and so does what it did answer.
SharesTell ==
  /\ kpi["oee"] # None =>
       kpi["oee"] \in 0..Planned /\ kpi["oee"] + DowntimePct >= Planned
  /\ kpi["downtime"] # None =>
       /\ kpi["downtime"] \in 0..Planned
       /\ kpi["oee"] # None => kpi["oee"] + kpi["downtime"] >= Planned

KpiInv == KpiShape /\ RunInOrder /\ RepairsTell /\ SharesTell

LEMMA KpiInvImplies == KpiInv => KpisAgree
BY DEF KpiInv, KpiShape, RepairsTell, SharesTell, KpisAgree, RepairsAreFailures, SharesCover

LEMMA RecentIs ==
  KpiShape => /\ RecentMinutes = Total(MinutesOf(events), RecentOf(events))
              /\ Total(MinutesOf(events), RecentOf(events)) \in Nat
<1> SUFFICES ASSUME KpiShape
             PROVE  /\ RecentMinutes = Total(MinutesOf(events), RecentOf(events))
                    /\ Total(MinutesOf(events), RecentOf(events)) \in Nat
  OBVIOUS
<1>1. PICK e \in Seq(RowSet) : e = events
  BY DEF KpiShape
<1>2. /\ RecentOf(e) \in SUBSET (DOMAIN e) /\ IsFiniteSet(RecentOf(e))
      /\ \A i \in RecentOf(e) : MinutesOf(e)[i] \in Nat
  BY RowsAreFinite DEF KpiShape
<1>3. RecentMinutes = MapThenSumSet(LAMBDA i : e[i].minutes, RecentOf(e))
  BY <1>1 DEF RecentMinutes, Minutes, RecentOf
<1>4. MapThenSumSet(LAMBDA i : e[i].minutes, RecentOf(e)) = Total(MinutesOf(e), RecentOf(e))
  BY <1>2, MinutesMean
<1>5. Total(MinutesOf(e), RecentOf(e)) \in Nat
  BY <1>2, TotalIsNat
<1> QED BY <1>1, <1>3, <1>4, <1>5

LEMMA RecentIsNext ==
  KpiShape' => (/\ RecentMinutes = Total(MinutesOf(events), RecentOf(events))
                /\ Total(MinutesOf(events), RecentOf(events)) \in Nat)'
BY RecentIs, PTL

\* Rows only come: their number and their minutes do not go down.
RowsGrow ==
  /\ RecentMinutes \in Nat /\ RecentMinutes' \in Nat
  /\ RecentMinutes <= RecentMinutes'
  /\ Len(events) <= Len(events')

LEMMA RowsOnlyCome ==
  ASSUME KpiShape, KpiNext
  PROVE  KpiShape' /\ RowsGrow
<1> USE DEF KpiShape
<1>1. PICK e, d : e \in Seq(RowSet) /\ e = events /\ d = events'
  OBVIOUS
<1>2. PICK n \in Nat : n = Len(e) /\ DOMAIN e = 1..n
  OBVIOUS
<1>3. /\ d \in Seq(RowSet) /\ Len(e) <= Len(d)
      /\ RecentOf(e) \in SUBSET RecentOf(d)
      /\ \A i \in RecentOf(e) : MinutesOf(e)[i] = MinutesOf(d)[i]
  <2>1. CASE events' = events
    BY <1>1, <1>2, <2>1
  <2>2. CASE LateRow
    <3>1. PICK row \in RowSet : d = Append(e, row)
      BY <1>1, <2>2 DEF LateRow
    <3>2. /\ d \in Seq(RowSet) /\ Len(d) = n + 1 /\ DOMAIN d = 1..(n + 1)
          /\ \A i \in 1..n : d[i] = e[i]
      BY <1>1, <1>2, <3>1
    <3> QED BY <1>2, <3>2 DEF RecentOf, MinutesOf
  <2>3. CASE Repaired
    <3>1. PICK i \in DOMAIN e : d = [e EXCEPT ![i].resolved = TRUE]
      BY <1>1, <2>3 DEF Repaired
    <3>2. /\ DOMAIN d = 1..n
          /\ \A j \in 1..n : /\ d[j] \in RowSet /\ d[j].minutes = e[j].minutes
                             /\ d[j].recent = e[j].recent
      <4>1. DOMAIN d = 1..n /\ \A j \in 1..n : j # i => d[j] = e[j]
        BY <1>2, <3>1
      <4>2. \A j \in 1..n : e[j] \in RowSet
        BY <1>1, <1>2
      <4>3. d[i] = [e[i] EXCEPT !.resolved = TRUE]
        BY <3>1
      <4>4. d[i] \in RowSet /\ d[i].minutes = e[i].minutes /\ d[i].recent = e[i].recent
        BY <1>2, <4>2, <4>3 DEF RowSet
      <4> QED BY <4>1, <4>2, <4>4
    <3>3. d \in Seq(RowSet) /\ Len(d) = n
      <4>1. d = [j \in 1..n |-> d[j]]
        BY <1>2, <3>1
      <4>2. \A j \in 1..n : d[j] \in RowSet
        BY <3>2
      <4> HIDE DEF KpiShape
      <4>3. [j \in 1..n |-> d[j]] \in Seq(RowSet)
        BY <4>2
      <4>4. Len([j \in 1..n |-> d[j]]) = n
        BY <1>2
      <4> QED BY <4>1, <4>3, <4>4
    <3> QED BY <1>2, <3>2, <3>3 DEF RecentOf, MinutesOf
  <2> QED BY <2>1, <2>2, <2>3 DEF KpiNext, RunQuery
<1>7. next' \in Names \cup {"done"} /\ kpi' = [m \in Names |-> kpi'[m]]
  <2>1. CASE RunQuery
    <3>1. PICK v : kpi' = [kpi EXCEPT ![next] = v]
      BY <2>1 DEF RunQuery
    <3>2. kpi' = [m \in Names |-> kpi'[m]]
      BY <3>1
    <3>3. next' \in Names \cup {"done"}
      BY <2>1 DEF RunQuery, After, Names
    <3> QED BY <3>2, <3>3
  <2>2. CASE LateRow \/ Repaired
    BY <2>2 DEF LateRow, Repaired
  <2> QED BY <2>1, <2>2 DEF KpiNext
<1>4. /\ RecentMinutes = Total(MinutesOf(e), RecentOf(e))
      /\ Total(MinutesOf(e), RecentOf(e)) \in Nat
  BY <1>1, RecentIs
<1>5. /\ RecentMinutes' = Total(MinutesOf(d), RecentOf(d))
      /\ Total(MinutesOf(d), RecentOf(d)) \in Nat
  <2>1. KpiShape'
    BY <1>1, <1>3, <1>7
  <2> QED BY <1>1, <2>1, RecentIsNext
<1>6. Total(MinutesOf(e), RecentOf(e)) <= Total(MinutesOf(d), RecentOf(d))
  <2>1. IsFiniteSet(RecentOf(d)) /\ \A i \in RecentOf(d) : MinutesOf(d)[i] \in Nat
    BY <1>3, RowsAreFinite
  <2> QED BY <1>3, <2>1, TotalGrows
<1>8. KpiShape'
  BY <1>1, <1>3, <1>7
<1> QED BY <1>1, <1>3, <1>4, <1>5, <1>6, <1>8 DEF RowsGrow

\* What is down is not available, and the planned minutes are all the one or
\* the other, at the latest once the rows that arrived are counted too.
LEMMA ClampsCover ==
  ASSUME NEW p \in Nat, NEW r \in Nat, NEW q \in Nat, r <= q
  PROVE  /\ Clamp(p - r, 0, p) \in 0..p /\ Clamp(q, 0, p) \in 0..p
         /\ Clamp(r, 0, p) <= Clamp(q, 0, p)
         /\ Clamp(p - r, 0, p) + Clamp(q, 0, p) >= p
BY DEF Clamp

LEMMA KpiInitially == ASSUME KpiInit PROVE KpiInv
<1>1. events \in Seq(RowSet)
  BY DEF KpiInit
<1> QED BY <1>1 DEF KpiInit, KpiInv, KpiShape, RunInOrder, RepairsTell, SharesTell, Names

LEMMA KpiStep == KpiInv /\ [KpiNext]_kpivars => KpiInv'
<1> SUFFICES ASSUME KpiInv, [KpiNext]_kpivars
             PROVE  KpiInv'
  OBVIOUS
<1>1. CASE UNCHANGED kpivars
  <2>1. RecentMinutes' = RecentMinutes
    BY <1>1 DEF kpivars, RecentMinutes, Minutes, MapThenSumSet, MapThenFoldSet
  <2>2. DowntimePct' = DowntimePct
    BY <2>1 DEF DowntimePct, Clamp
  <2> QED BY <1>1, <2>2, KpiAssumption DEF kpivars, KpiInv, KpiShape, RunInOrder, RepairsTell, SharesTell
<1>2. CASE KpiNext
  <2>1. KpiShape' /\ RowsGrow
    BY <1>2, RowsOnlyCome DEF KpiInv
  <2>2. PICK p \in Nat, r \in Nat, q \in Nat :
          p = Planned /\ r = RecentMinutes /\ q = RecentMinutes' /\ r <= q
    BY <2>1, KpiAssumption DEF RowsGrow, KpiInv, KpiShape
  <2>3. /\ DowntimePct = Clamp(r, 0, p) /\ DowntimePct' = Clamp(q, 0, p)
        /\ Oee = Clamp(p - r, 0, p)
    BY <2>2 DEF DowntimePct, Oee, Clamp
  <2>4. PICK d \in 0..p, d1 \in 0..p, o \in 0..p :
          /\ DowntimePct = d /\ DowntimePct' = d1 /\ Oee = o
          /\ d <= d1 /\ o + d >= p
    <3>1. /\ Clamp(p - r, 0, p) \in 0..p /\ Clamp(q, 0, p) \in 0..p /\ Clamp(r, 0, p) \in 0..p
          /\ Clamp(r, 0, p) <= Clamp(q, 0, p)
          /\ Clamp(p - r, 0, p) + Clamp(r, 0, p) >= p
      <4>1. /\ Clamp(p - r, 0, p) \in 0..p /\ Clamp(q, 0, p) \in 0..p
            /\ Clamp(r, 0, p) <= Clamp(q, 0, p)
        BY <2>2, ClampsCover
      <4>2. r <= r
        OBVIOUS
      <4>3. Clamp(r, 0, p) \in 0..p /\ Clamp(p - r, 0, p) + Clamp(r, 0, p) >= p
        BY <4>2, ClampsCover
      <4> QED BY <4>1, <4>3
    <3> QED BY <2>3, <3>1
  <2>5. PICK n \in Nat, n1 \in Nat : n = Len(events) /\ n1 = Len(events') /\ n <= n1
    BY <2>1 DEF RowsGrow, KpiInv, KpiShape
  <2>6. CASE RunQuery
    <3>1. PICK v \in {Value(next), None} : kpi' = [kpi EXCEPT ![next] = v]
      BY <2>6 DEF RunQuery
    <3>2. next \in Names /\ next' = After[next] /\ events' = events
      BY <2>6 DEF RunQuery, KpiInv, KpiShape
    <3>3. /\ kpi' = [m \in Names |-> kpi'[m]] /\ kpi'[next] = v
          /\ \A m \in Names : m # next => kpi'[m] = kpi[m]
      BY <3>1, <3>2 DEF KpiInv, KpiShape
    <3>5. KpiShape'
      BY <2>1
    <3>6. RunInOrder'
      BY <3>2, <3>3 DEF KpiInv, RunInOrder, Names, After
    <3>7. RepairsTell'
      <4>1. CASE next = "mttr"
        <5>1. kpi'["mtbf"] = None
          BY <3>3, <4>1 DEF KpiInv, RunInOrder, Names
        <5>2. v # None => v[2] \in 0..Len(events)
          <6>1. Value(next) = Mttr
            BY <4>1 DEF Value
          <6> DEFINE done == {i \in DOMAIN events : events[i].resolved}
          <6>2. Cardinality(done) \in 0..Len(events)
            BY RowsAreFinite DEF KpiInv, KpiShape
          <6>3. Mttr # None => Mttr[2] = Cardinality(done)
            BY DEF Mttr
          <6> QED BY <3>1, <6>1, <6>2, <6>3
        <5> QED BY <3>2, <3>3, <4>1, <5>1, <5>2 DEF RepairsTell
      <4>2. CASE next = "mtbf"
        <5>1. v # None => v[2] = Len(events)
          BY <3>1, <4>2 DEF Value, Mtbf
        <5>2. kpi'["mttr"] = kpi["mttr"]
          BY <3>3, <4>2 DEF Names
        <5> QED BY <3>2, <3>3, <4>2, <5>1, <5>2, <2>5 DEF KpiInv, RepairsTell
      <4>3. CASE next \notin {"mttr", "mtbf"}
        <5>1. kpi'["mttr"] = kpi["mttr"] /\ kpi'["mtbf"] = kpi["mtbf"]
          BY <3>3, <4>3 DEF Names
        <5> QED BY <3>2, <5>1 DEF KpiInv, RepairsTell
      <4> QED BY <4>1, <4>2, <4>3
    <3>8. SharesTell'
      <4>1. CASE next = "oee"
        <5>1. kpi'["downtime"] = None
          BY <3>3, <4>1 DEF KpiInv, RunInOrder, Names
        <5>2. v # None => v = o
          BY <2>4, <3>1, <4>1 DEF Value
        <5> QED BY <2>2, <2>4, <3>3, <4>1, <5>1, <5>2 DEF SharesTell
      <4>2. CASE next = "downtime"
        <5>1. v # None => v = d
          BY <2>4, <3>1, <4>2 DEF Value
        <5>2. kpi'["oee"] = kpi["oee"]
          BY <3>3, <4>2 DEF Names
        <5> QED BY <2>2, <2>4, <3>3, <4>2, <5>1, <5>2 DEF KpiInv, SharesTell
      <4>3. CASE next \notin {"oee", "downtime"}
        <5>1. kpi'["oee"] = kpi["oee"] /\ kpi'["downtime"] = kpi["downtime"]
          BY <3>3, <4>3 DEF Names
        <5> QED BY <2>2, <2>4, <5>1 DEF KpiInv, SharesTell
      <4> QED BY <4>1, <4>2, <4>3
    <3> QED BY <3>5, <3>6, <3>7, <3>8 DEF KpiInv
  <2>7. CASE LateRow \/ Repaired
    <3>1. next' = next /\ kpi' = kpi
      BY <2>7 DEF LateRow, Repaired
    <3>2. KpiShape' /\ RunInOrder'
      BY <2>1, <3>1, KpiAssumption DEF KpiInv, KpiShape, RunInOrder
    <3>3. RepairsTell'
      BY <2>5, <3>1 DEF KpiInv, RepairsTell
    <3>4. SharesTell'
      BY <2>2, <2>4, <3>1 DEF KpiInv, SharesTell
    <3> QED BY <3>2, <3>3, <3>4 DEF KpiInv
  <2> QED BY <1>2, <2>6, <2>7 DEF KpiNext
<1> QED BY <1>1, <1>2

\* A snapshot read over six queries never averages more repairs than the
\* failures it counts, and its availability and downtime cover the planned
\* hours, whatever rows arrive and repairs end between the queries, for any
\* number of rows and any minutes (KpisAgree of KpiSnapshot).
THEOREM KpisAlwaysAgree == KpiSpec => []KpisAgree
<1>1. KpiInit => KpiInv
  BY KpiInitially
<1>2. KpiInv /\ [KpiNext]_kpivars => KpiInv'
  BY KpiStep
<1>3. KpiInv => KpisAgree
  BY KpiInvImplies
<1> QED BY <1>1, <1>2, <1>3, PTL DEF KpiSpec
=============================================================================
