------------------------------ MODULE LiveStreams ------------------------------
(***************************************************************************)
(* The server-sent event streams of the gateway: alerts and approvals.     *)
(* A stream polls audit.actions, skips the rows it has seen, and yields one*)
(* event per row; between two yields the other streams run.  The streams of*)
(* one person share a sliding window that limits the alerts shown; it lives*)
(* in the process.                                                         *)
(*                                                                         *)
(* Both queries order or filter by a column created_at; the migrations name*)
(* that column ts.  CreatedAt says which schema the database has.          *)
(***************************************************************************)
EXTENDS Integers, FiniteSets, FiniteSetsExt, Sequences

CONSTANTS
  Users, RoleOf,    \* people, and the role their token carries
  Streams,          \* connections
  CreatedAt,        \* does audit.actions have a column created_at?
  Limit, Window,    \* _ALERT_RATE_LIMIT (12) per _ALERT_WINDOW_SECONDS (1 h)
  Batch,            \* LIMIT of the queries (10)
  MaxRows, MaxNow, MaxConnects, MaxFaults, MaxRestarts \* bounds

ASSUME StreamAssumption ==
  /\ CreatedAt \in BOOLEAN /\ Limit \in Nat \ {0} /\ Window \in Nat \ {0}
  /\ Batch \in Nat \ {0}
ASSUME BoundAssumption ==
  /\ MaxRows \in Nat /\ MaxNow \in Nat /\ MaxConnects \in Nat
  /\ MaxFaults \in Nat /\ MaxRestarts \in Nat

AllowedRoles == {"operator", "shift-supervisor", "manager", "admin"}
Channels == {"alerts", "approvals"}
\* Of the outcomes that count as resolved one stands for all.
Decisions == {"hitl_operator", "auto"}

VARIABLES
  channel,   \* the channel this behaviour is about
  now,
  rows,      \* audit rows in the order of their timestamps: their kinds
  stream,    \* [Streams -> what the generator holds]
  window,    \* _alert_rate_state: [Users -> Seq(times)]
  emitted,   \* [Users -> Seq(times)] of the alerts shown, history
  connects, faults, restarts

vars == <<channel, now, rows, stream, window, emitted, connects, faults, restarts>>
limits == <<connects, faults, restarts>>

Closed == [at |-> "closed"]
Open(s) == stream[s].at # "closed"

Init ==
  /\ channel \in Channels /\ now = 0
  /\ rows = <<>>
  /\ stream = [s \in Streams |-> Closed]
  /\ window = [u \in Users |-> <<>>] /\ emitted = [u \in Users |-> <<>>]
  /\ connects = 0 /\ faults = 0 /\ restarts = 0

\* The agents write audit rows.
AddRow ==
  /\ Len(rows) < MaxRows
  /\ \E kind \in IF channel = "alerts" THEN {"alert"} ELSE Decisions :
       rows' = Append(rows, kind)
  /\ UNCHANGED <<channel, now, stream, window, emitted, limits>>

\* Only the window of the alerts reads the clock.
Tick ==
  /\ channel = "alerts" /\ now < MaxNow /\ now' = now + 1
  /\ UNCHANGED <<channel, rows, stream, window, emitted, limits>>

-----------------------------------------------------------------------------
(* Connections.                                                            *)

\* The token is read once, from the query string: its role must be allowed.
Authorised(u) == RoleOf[u] \in AllowedRoles

\* A new stream has seen nothing.
Connect(s, u) ==
  /\ ~Open(s) /\ Authorised(u)
  /\ connects < MaxConnects /\ connects' = connects + 1
  /\ stream' = [stream EXCEPT ![s] =
       [at |-> "poll", owner |-> u, seen |-> {}, todo |-> {}, shown |-> {}, refused |-> {},
        notified |-> FALSE, notices |-> 0]]
  /\ UNCHANGED <<channel, now, rows, window, emitted, faults, restarts>>

\* The client goes away: the generator ends between two events.
Disconnect(s) ==
  /\ Open(s) /\ stream' = [stream EXCEPT ![s] = Closed]
  /\ UNCHANGED <<channel, now, rows, window, emitted, limits>>

Restart ==
  /\ restarts < MaxRestarts /\ restarts' = restarts + 1
  /\ stream' = [s \in Streams |-> Closed]
  /\ window' = [u \in Users |-> <<>>]
  /\ UNCHANGED <<channel, now, rows, emitted, connects, faults>>

-----------------------------------------------------------------------------
(* Polling.                                                                *)

\* The rows of a kind that the stream has not seen.
Unseen(s, kind) == {i \in DOMAIN rows : rows[i] = kind} \ stream[s].seen

\* Alerts come newest first; the pending rows in no particular order.
Selected(s) ==
  LET new == Unseen(s, IF channel = "alerts" THEN "alert" ELSE "hitl_operator")
      size == IF Cardinality(new) < Batch THEN Cardinality(new) ELSE Batch
  IN IF channel = "alerts"
     THEN {{i \in new : Cardinality({j \in new : j > i}) < Batch}}
     ELSE kSubset(size, new)

\* A query that raises is logged, and the next poll tries again.
PollFails(s) ==
  /\ stream[s].at \in {"poll", "resolved"}
  /\ \/ ~CreatedAt /\ (channel = "alerts" \/ stream[s].at = "resolved") /\ UNCHANGED faults
     \/ faults < MaxFaults /\ faults' = faults + 1
  /\ stream' = [stream EXCEPT ![s].at = "sleep"]
  /\ UNCHANGED <<channel, now, rows, window, emitted, connects, restarts>>

Poll(s) ==
  /\ stream[s].at = "poll" /\ (channel = "alerts" => CreatedAt)
  /\ \E todo \in Selected(s) :
       stream' = [stream EXCEPT ![s].todo = todo, ![s].at = "rows"]
  /\ UNCHANGED <<channel, now, rows, window, emitted, limits>>

\* The loop over the deque stops at the first timestamp that is not before start.
Since(w, start) ==
  CHOOSE k \in 1..(Len(w) + 1) :
    (\A j \in 1..(k - 1) : w[j] < start) /\ (k <= Len(w) => w[k] >= start)

\* Fault variant of Evicted: a timestamp at the edge is dropped too.
EvictedEarly(w) == SubSeq(w, Since(w, now - Window + 1), Len(w))

\* Timestamps before the window are dropped; one at its edge still counts.
Evicted(w) == SubSeq(w, Since(w, now - Window), Len(w))

\* _check_alert_rate.
MayShow(u) == Len(Evicted(window[u])) < Limit

\* The row is seen before the limit is asked: refused, it does not come back.
SeenNow(s, i) == stream[s].seen \cup {i}

ShowAlert(s, i) ==
  LET u == stream[s].owner IN
  /\ MayShow(u)
  /\ window' = [window EXCEPT ![u] = Append(Evicted(@), now)]
  /\ emitted' = [emitted EXCEPT ![u] = Append(@, now)]
  /\ stream' = [stream EXCEPT ![s].todo = @ \ {i}, ![s].seen = SeenNow(s, i),
       ![s].shown = @ \cup {i}, ![s].notified = FALSE, ![s].notices = 0]

\* The client is told of the limit once, until an alert is shown again.
Notice(s) == IF stream[s].notified THEN stream[s].notices ELSE stream[s].notices + 1

RefuseAlert(s, i) ==
  LET u == stream[s].owner IN
  /\ ~MayShow(u)
  /\ window' = [window EXCEPT ![u] = Evicted(@)]
  /\ stream' = [stream EXCEPT ![s].todo = @ \ {i}, ![s].seen = SeenNow(s, i),
       ![s].refused = @ \cup {i}, ![s].notified = TRUE, ![s].notices = Notice(s)]
  /\ UNCHANGED emitted

AlertRow(s) ==
  /\ channel = "alerts" /\ stream[s].at = "rows" /\ stream[s].todo # {}
  /\ LET i == Max(stream[s].todo) IN ShowAlert(s, i) \/ RefuseAlert(s, i)
  /\ UNCHANGED <<channel, now, rows, limits>>

\* The pending events: rows of decisions an operator has taken.
PendingRow(s) ==
  /\ channel = "approvals" /\ stream[s].at = "rows"
  /\ \E i \in stream[s].todo :
       stream' = [stream EXCEPT ![s].todo = @ \ {i}, ![s].seen = @ \cup {i},
                                ![s].shown = @ \cup {i}]
  /\ UNCHANGED <<channel, now, rows, window, emitted, limits>>

EndOfRows(s) ==
  /\ stream[s].at = "rows" /\ stream[s].todo = {}
  /\ stream' = [stream EXCEPT ![s].at = IF channel = "alerts" THEN "sleep" ELSE "resolved"]
  /\ UNCHANGED <<channel, now, rows, window, emitted, limits>>

\* The resolved events: the rows of the last minute, at each poll again.
Resolved(s) ==
  /\ stream[s].at = "resolved" /\ CreatedAt
  /\ stream' = [stream EXCEPT ![s].at = "sleep"]
  /\ UNCHANGED <<channel, now, rows, window, emitted, limits>>

\* Fault variant of Wake: a stream that was refused an alert stops polling.
WakeUnlessNotified(s) ==
  /\ stream[s].at = "sleep" /\ ~stream[s].notified
  /\ stream' = [stream EXCEPT ![s].at = "poll"]
  /\ UNCHANGED <<channel, now, rows, window, emitted, limits>>

Wake(s) ==
  /\ stream[s].at = "sleep" /\ stream' = [stream EXCEPT ![s].at = "poll"]
  /\ UNCHANGED <<channel, now, rows, window, emitted, limits>>

Generate(s) ==
  \/ Poll(s) \/ PollFails(s) \/ AlertRow(s) \/ PendingRow(s) \/ EndOfRows(s)
  \/ Resolved(s) \/ Wake(s)

Next ==
  \/ \E s \in Streams : Generate(s) \/ Disconnect(s) \/ \E u \in Users : Connect(s, u)
  \/ AddRow \/ Tick \/ Restart

Spec == Init /\ [][Next]_vars
\* The event loop runs an open stream on.
LiveSpec == Spec /\ \A s \in Streams : WF_vars(Generate(s))

-----------------------------------------------------------------------------
(* Properties.                                                             *)

\* The window is ordered, never over the limit and belongs to the one channel
\* that uses it.
TypeOK ==
  /\ channel \in Channels /\ now \in 0..MaxNow
  /\ \A i \in DOMAIN rows : rows[i] \in {"alert"} \cup Decisions
  /\ \A s \in Streams : stream[s].at \in {"closed", "poll", "rows", "resolved", "sleep"}
  /\ \A s \in Streams : Open(s) =>
       stream[s].seen \cup stream[s].todo \subseteq DOMAIN rows /\ Authorised(stream[s].owner)
  /\ \A u \in Users : Len(window[u]) <= Limit /\ window[u] \in Seq(0..now)
  /\ connects \in 0..MaxConnects /\ faults \in 0..MaxFaults /\ restarts \in 0..MaxRestarts

\* However many streams a person opens, reopens and interleaves, no span of one
\* window shows them more than the limit; only a restart of the process forgets
\* (sse.py:72).
RateRespected ==
  \A u \in Users : \A t \in 0..now :
    Cardinality({i \in DOMAIN emitted[u] : emitted[u][i] \in t..(t + Window)})
      <= Limit * (1 + restarts)

\* An alert is refused to a stream only when its owner was shown the limit
\* before, on whichever stream, and one that was refused is never shown on it:
\* it is gone, not late (sse.py:293).
RefusalsExplained ==
  \A s \in Streams : Open(s) =>
    /\ stream[s].refused \cap stream[s].shown = {}
    /\ stream[s].refused # {} => Len(emitted[stream[s].owner]) >= Limit

\* A stream whose alerts are being refused has told so exactly once since it
\* last showed one, even when other streams of the person are shown alerts in
\* between (sse.py:308).
ToldOnce ==
  \A s \in Streams : Open(s) =>
    stream[s].notices = (IF stream[s].notified THEN 1 ELSE 0)

\* The rows a channel exists to show.
Behind(s) ==
  Open(s) /\ \E i \in DOMAIN rows :
    rows[i] \in {"alert", "hitl_operator"} /\ i \notin stream[s].shown \cup stream[s].refused

\* The limit of alerts holds a person, whatever streams they hold, and each stream
\* says what it left out.
AlertsMetered ==
  /\ TypeOK
  /\ RateRespected
  /\ RefusalsExplained
  /\ ToldOnce

\* What is committed reaches every stream that stays open: an alert is shown or
\* refused, an operator's decision is shown whether or not the second query of
\* the poll ever succeeds; newer rows, failing polls and the streams of others
\* only delay it.
StreamsDeliver == \A s \in Streams : Behind(s) ~> ~Behind(s)
=============================================================================
