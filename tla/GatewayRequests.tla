---------------------------- MODULE GatewayRequests ----------------------------
(***************************************************************************)
(* The POST endpoints of the API gateway behind the Idempotency-Key cache. *)
(* A handler reads the cache, does its work (a supervisor graph invocation,*)
(* a NATS publish or the decision of an approval) and stores the response  *)
(* afterwards; in between other requests are handled.                      *)
(* The cache lives in the process: a restart loses it and the requests it  *)
(* was handling.  Cache operations are atomic (one asyncio lock); the clock*)
(* counts in fractions of the entries' time to live.                       *)
(***************************************************************************)
EXTENDS Integers, FiniteSets, FiniteSetsExt

CONSTANTS
  Clients,       \* requests that can be in flight at a time
  Keys, NoKey,   \* values of the Idempotency-Key header; no header
  Bodies, Malformed, \* request bodies; one that fails validation
  TTL,           \* ttl_seconds of the cache, in ticks
  MaxSize,       \* max_size of the cache
  Offers,        \* the sets of paths that are requested together
  MaxRequests, MaxNow, MaxRestarts \* bounds: requests sent, ticks, restarts

ASSUME CacheAssumption == TTL \in Nat \ {0} /\ MaxSize \in Nat \ {0}
\* Headers and bodies are bounded in length.
ASSUME RequestAssumption ==
  /\ IsFiniteSet(Clients) /\ IsFiniteSet(Keys) /\ IsFiniteSet(Bodies)
  /\ NoKey \notin Keys /\ Malformed \notin Bodies
ASSUME BoundAssumption == MaxRequests \in Nat /\ MaxNow \in Nat /\ MaxRestarts \in Nat

-----------------------------------------------------------------------------
(* The endpoints: is the response cached, its status, what the work is, and*)
(* the statuses of a graph that hits the recursion limit or raises.        *)

Endpoint(cached, work, ok, failures) ==
  [cached |-> cached, work |-> work, ok |-> ok, failures |-> failures]

\* ops_agents.py: an exception of the graph is the framework's 500.
anomaly_scan == Endpoint(TRUE, "graph", 200, {500})
production_plan == Endpoint(TRUE, "graph", 202, {500})
operator_chat == Endpoint(TRUE, "graph", 200, {500})

\* The other routers answer 503 at the recursion limit and 500 otherwise.
MaintenanceFailures == {503, 500}
pm_score == Endpoint(TRUE, "graph", 200, MaintenanceFailures)
rca_analyze == Endpoint(TRUE, "graph", 202, MaintenanceFailures)
coach_start == Endpoint(TRUE, "graph", 200, MaintenanceFailures)
coach_step == Endpoint(TRUE, "step", 200, MaintenanceFailures)
coach_resume == Endpoint(TRUE, "graph", 200, MaintenanceFailures)
da_report == Endpoint(FALSE, "graph", 200, MaintenanceFailures)

KnowledgeFailures == {503, 500}
shift_handover_compile == Endpoint(TRUE, "graph", 202, KnowledgeFailures)
training_session == Endpoint(TRUE, "graph", 200, KnowledgeFailures)
training_resume == Endpoint(TRUE, "graph", 200, KnowledgeFailures)
knowledge_curator_ingest == Endpoint(FALSE, "graph", 200, KnowledgeFailures)
documentation_draft == Endpoint(TRUE, "graph", 202, KnowledgeFailures)

SupplyFailures == {503, 500}
inventory_check == Endpoint(TRUE, "graph", 202, SupplyFailures)
inventory_resume == Endpoint(TRUE, "graph", 200, SupplyFailures)
energy_optimize == Endpoint(TRUE, "graph", 202, SupplyFailures)
energy_resume == Endpoint(TRUE, "graph", 200, SupplyFailures)
cost_analyze == Endpoint(FALSE, "graph", 200, SupplyFailures)
demand_forecast == Endpoint(TRUE, "graph", 202, SupplyFailures)
demand_resume == Endpoint(TRUE, "graph", 200, SupplyFailures)

quality_event == Endpoint(TRUE, "publish", 202, {500})
decide_approval == Endpoint(TRUE, "decide", 200, {500})

Routes ==
  [ anomaly_scan |-> anomaly_scan, production_plan |-> production_plan,
    operator_chat |-> operator_chat, pm_score |-> pm_score,
    rca_analyze |-> rca_analyze, coach_start |-> coach_start,
    coach_step |-> coach_step, coach_resume |-> coach_resume,
    da_report |-> da_report, shift_handover_compile |-> shift_handover_compile,
    training_session |-> training_session, training_resume |-> training_resume,
    knowledge_curator_ingest |-> knowledge_curator_ingest,
    documentation_draft |-> documentation_draft, inventory_check |-> inventory_check,
    inventory_resume |-> inventory_resume, energy_optimize |-> energy_optimize,
    energy_resume |-> energy_resume, cost_analyze |-> cost_analyze,
    demand_forecast |-> demand_forecast, demand_resume |-> demand_resume,
    quality_event |-> quality_event, decide_approval |-> decide_approval ]

-----------------------------------------------------------------------------
VARIABLES
  now,       \* the monotonic clock
  offered,   \* the two paths that are requested
  store,     \* the cache: a function of <<path, key>>
  request,   \* [Clients -> the request in flight or answered]
  sent, restarts,
  approval,  \* "pending" or "decided": the row decide_approval is about
  ran,       \* [<<path, key, body>> -> runs that succeeded], history
  excuses    \* [<<path, key>> -> entries lost and runs that overlapped], history

vars == <<now, offered, store, request, sent, restarts, approval, ran, excuses>>
history == <<ran, excuses>>
outside == <<now, offered, sent, restarts>>

Paths == DOMAIN Routes
ASSUME OfferAssumption == Offers \subseteq SUBSET Paths
Slots == Paths \X Keys
Route(c) == Routes[request[c].path]
Slot(c) == <<request[c].path, request[c].key>>
Keyed(c) == Route(c).cached /\ request[c].key \in Keys
InFlight(c) == request[c].at \notin {"idle", "answered"}

\* The approval may not exist, and the checkpoint of the coach is anybody's.
Init ==
  /\ now = 0 /\ offered \in Offers
  /\ store = <<>>
  /\ request = [c \in Clients |-> [at |-> "idle"]]
  /\ sent = 0 /\ restarts = 0
  /\ approval \in IF "decide_approval" \in offered THEN {"absent", "pending"} ELSE {"absent"}
  /\ ran = [r \in offered \X (Keys \cup {NoKey}) \X Bodies |-> 0]
  /\ excuses = [s \in offered \X Keys |-> 0]

Go(c, at) == request' = [request EXCEPT ![c].at = at]
Answer(c, status, of) ==
  request' = [request EXCEPT ![c] =
    [at |-> "answered", path |-> @.path, key |-> @.key, body |-> @.body,
     status |-> status, of |-> of]]
Succeeded(c) ==
  ran' = [ran EXCEPT ![<<request[c].path, request[c].key, request[c].body>>] = @ + 1]

-----------------------------------------------------------------------------
(* The cache.                                                              *)

\* An entry counts until its time is up.
Live(slot) == slot \in DOMAIN store /\ now < store[slot].expires

Without(slot) == [s \in DOMAIN store \ {slot} |-> store[s]]

With(slot, entry, entries) ==
  [s \in DOMAIN entries \cup {slot} |-> IF s = slot THEN entry ELSE entries[s]]

Full == Cardinality(DOMAIN store) >= MaxSize

\* Fault variant of Put: a full cache takes no more entries.
PutUnlessFull(slot, body, status) ==
  /\ UNCHANGED excuses
  /\ store' = IF Full THEN store
       ELSE With(slot, [expires |-> now + TTL, body |-> body, status |-> status], store)

\* Fault variant of Put: a full cache waits for a free entry.
PutWaits(slot, body, status) ==
  /\ Cardinality(DOMAIN store) < MaxSize /\ UNCHANGED excuses
  /\ store' = With(slot, [expires |-> now + TTL, body |-> body, status |-> status], store)

\* put: at the limit the entry that expires first goes, even if the slot to be
\* written is there already.
Put(slot, body, status) ==
  LET e == [expires |-> now + TTL, body |-> body, status |-> status] IN
  \/ /\ ~Full
     /\ store' = With(slot, e, store) /\ UNCHANGED excuses
  \/ /\ Full
     /\ \E old \in DOMAIN store :
          /\ \A s \in DOMAIN store : store[old].expires <= store[s].expires
          /\ store' = With(slot, e, Without(old))
          /\ excuses' = IF old = slot THEN excuses ELSE [excuses EXCEPT ![old] = @ + 1]

-----------------------------------------------------------------------------
(* The handlers.                                                           *)

Send(c, path, key, body) ==
  /\ ~InFlight(c) /\ sent < MaxRequests /\ path \in offered
  /\ sent' = sent + 1
  /\ request' = [request EXCEPT ![c] =
       [at |-> "check", path |-> path, key |-> key, body |-> body]]
  /\ UNCHANGED <<now, offered, restarts, store, approval, history>>

\* The body is validated before the handler runs.
Reject(c) ==
  /\ request[c].at = "check" /\ request[c].body = Malformed
  /\ Answer(c, 422, Malformed)
  /\ UNCHANGED <<outside, store, approval, history>>

Unkeyed(c) ==
  /\ ~Keyed(c) /\ Go(c, "work")
  /\ UNCHANGED <<store, history>>

SameBody(c) == store[Slot(c)].body = request[c].body

Hit(c) ==
  /\ Keyed(c) /\ Live(Slot(c)) /\ SameBody(c)
  /\ Answer(c, Route(c).ok, store[Slot(c)].body)
  /\ UNCHANGED <<store, history>>

Conflict(c) ==
  /\ Keyed(c) /\ Live(Slot(c)) /\ ~SameBody(c)
  /\ Answer(c, 409, Malformed)
  /\ UNCHANGED <<store, history>>

\* An expired entry is removed; nothing marks the slot as being worked on.
Miss(c) ==
  LET overlaps == {d \in Clients \ {c} : InFlight(d) /\ request[d].at # "check"
                                          /\ Slot(d) = Slot(c)} IN
  /\ Keyed(c) /\ ~Live(Slot(c))
  /\ store' = Without(Slot(c))
  /\ excuses' = [excuses EXCEPT ![Slot(c)] =
       @ + Cardinality({Slot(c)} \cap DOMAIN store) + (IF overlaps # {} THEN 1 ELSE 0)]
  /\ Go(c, "work") /\ UNCHANGED ran

Check(c) ==
  /\ request[c].at = "check" /\ request[c].body # Malformed
  /\ Unkeyed(c) \/ Hit(c) \/ Conflict(c) \/ Miss(c)
  /\ UNCHANGED <<outside, approval>>

Done(c) == Go(c, "store") /\ Succeeded(c) /\ UNCHANGED <<approval, store, excuses>>

\* An answer that is not stored.
Refuse(c, status) ==
  Answer(c, status, Malformed) /\ UNCHANGED <<approval, store, history>>

InvokeGraph(c) == Done(c) \/ \E status \in Route(c).failures : Refuse(c, status)

\* The checkpoint of the intervention may say that nobody is assigned.
StepCoach(c) == Refuse(c, 409) \/ InvokeGraph(c)

\* The event has an id of its own in each run.
PublishEvent(c) == Done(c) \/ Refuse(c, 500)

\* Decide, first part: the row must be pending, and some tiers want a motivation.
SelectApproval(c) ==
  \/ approval = "pending" /\ Go(c, "update") /\ UNCHANGED <<approval, store, history>>
  \/ approval = "pending" /\ Refuse(c, 400)
  \/ approval # "pending" /\ Refuse(c, 404)
  \/ Refuse(c, 500)

Work(c) ==
  /\ request[c].at = "work"
  /\ \/ Route(c).work = "graph" /\ InvokeGraph(c)
     \/ Route(c).work = "step" /\ StepCoach(c)
     \/ Route(c).work = "publish" /\ PublishEvent(c)
     \/ Route(c).work = "decide" /\ SelectApproval(c)
  /\ UNCHANGED outside

\* The UPDATE is for a pending row only.
Decides == approval = "pending"

Decide(c) ==
  /\ request[c].at = "update"
  /\ \/ Decides /\ approval' = "decided" /\ Go(c, "resume") /\ Succeeded(c)
     \/ ~Decides /\ Answer(c, 404, Malformed) /\ UNCHANGED <<approval, ran>>
     \/ Answer(c, 500, Malformed) /\ UNCHANGED <<approval, ran>>
  /\ UNCHANGED <<outside, store, excuses>>

\* The graph is resumed; that it could not be is part of the 200.  Reading the
\* row again may raise, with the decision taken.
Resume(c) ==
  /\ request[c].at = "resume"
  /\ Go(c, "store") \/ Answer(c, 500, Malformed)
  /\ UNCHANGED <<outside, approval, store, history>>

Store(c) ==
  /\ request[c].at = "store"
  /\ IF Keyed(c) THEN Put(Slot(c), request[c].body, Route(c).ok)
     ELSE UNCHANGED <<store, excuses>>
  /\ Answer(c, Route(c).ok, request[c].body)
  /\ UNCHANGED <<outside, approval, ran>>

-----------------------------------------------------------------------------
Tick ==
  /\ now < MaxNow /\ now' = now + 1
  /\ UNCHANGED <<offered, store, request, sent, restarts, approval, history>>

\* The escalation loop or another gateway decides the row.
DecidedElsewhere ==
  /\ approval = "pending" /\ approval' = "decided"
  /\ UNCHANGED <<outside, store, request, history>>

Restart ==
  /\ restarts < MaxRestarts /\ restarts' = restarts + 1
  /\ excuses' = [s \in DOMAIN excuses |-> excuses[s]
       + Cardinality({s} \cap DOMAIN store)
       + Cardinality({c \in Clients : InFlight(c) /\ request[c].at # "check" /\ Slot(c) = s})]
  /\ store' = <<>>
  /\ request' = [c \in Clients |-> IF InFlight(c) THEN [at |-> "idle"] ELSE request[c]]
  /\ UNCHANGED <<now, offered, sent, approval, ran>>

Handle(c) ==
  Reject(c) \/ Check(c) \/ Work(c) \/ Decide(c) \/ Resume(c) \/ Store(c)

Next ==
  \/ \E c \in Clients : Handle(c)
  \/ \E c \in Clients, path \in Paths, key \in Keys \cup {NoKey},
        body \in Bodies \cup {Malformed} : Send(c, path, key, body)
  \/ Tick \/ DecidedElsewhere \/ Restart

Spec == Init /\ [][Next]_vars
\* The event loop runs every handler on; graphs and statements return.
LiveSpec == Spec /\ \A c \in Clients : WF_vars(Handle(c))

-----------------------------------------------------------------------------
(* Properties.                                                             *)

Sum(S) == MapThenSumSet(LAMBDA r : ran[r], S)
RunsOf(slot) == Sum({r \in DOMAIN ran : <<r[1], r[2]>> = slot})
Successful(c) == request[c].at = "answered" /\ request[c].status \in {200, 202}

\* The cache never exceeds its limit and holds entries of keyed endpoints only.
TypeOK ==
  /\ now \in 0..MaxNow /\ sent \in 0..MaxRequests /\ restarts \in 0..MaxRestarts
  /\ approval \in {"absent", "pending", "decided"}
  /\ DOMAIN store \subseteq {s \in Slots : s[1] \in offered /\ Routes[s[1]].cached}
  /\ Cardinality(DOMAIN store) <= MaxSize
  /\ \A s \in DOMAIN store : store[s].expires <= now + TTL /\ store[s].body \in Bodies
  /\ \A c \in Clients : request[c].at \in
       {"idle", "check", "work", "update", "resume", "store", "answered"}

\* A successful answer, from the cache or not, is that of a run with the same
\* path, key and body (idempotency_middleware.py:60).
AnswersOwnBody ==
  \A c \in Clients : Successful(c) =>
    /\ request[c].of = request[c].body
    /\ ran[<<request[c].path, request[c].key, request[c].body>>] > 0

\* A key is run a second time only for one of two reasons: a request with it
\* was still being worked on, or its entry expired, was evicted or was lost in
\* a restart; each reason accounts for one run (idempotency_middleware.py:56,
\* idempotency.py:89).
RerunsExplained ==
  \A slot \in DOMAIN excuses :
    Routes[slot[1]].cached => RunsOf(slot) <= 1 + excuses[slot]

\* After a success the retry finds its entry, unless one of those reasons
\* occurred: a later refusal never overwrites the answer.
AnswerKept ==
  \A c \in Clients :
    Successful(c) /\ Keyed(c) /\ excuses[Slot(c)] = 0 =>
      Slot(c) \in DOMAIN store /\ store[Slot(c)].body = request[c].body

\* A conflict is the truth: a run with another body had succeeded under the key,
\* so a failed attempt never blocks the corrected one.
ConflictTrue ==
  \A c \in Clients :
    request[c].at = "answered" /\ request[c].status = 409 /\ request[c].path # "coach_step" =>
      \E b \in Bodies \ {request[c].body} : ran[<<request[c].path, request[c].key, b>>] > 0

\* Whatever the cache forgets, the approval is decided by one request, and
\* nobody is told it is decided (404) while it is pending (approvals.py:186).
DecideOnce ==
  /\ Sum({r \in DOMAIN ran : r[1] = "decide_approval"}) <= 1
  /\ \A c \in Clients : request[c].at = "answered" /\ request[c].status = 404 =>
       approval # "pending"

\* Every request is answered, or lost in a restart.
Served == \A c \in Clients : InFlight(c) ~> ~InFlight(c)

\* Every answer is one a client can trust: of their own body, of a run the cache
\* can account for, a conflict only where there is one, a decision taken once.
AnswersExplained ==
  /\ TypeOK
  /\ AnswersOwnBody
  /\ RerunsExplained
  /\ AnswerKept
  /\ ConflictTrue
  /\ DecideOnce
=============================================================================
