----------------------------- MODULE EventsProofs -----------------------------
(***************************************************************************)
(* Proofs about what the gateway sends out and takes in: AlertsMetered of  *)
(* LiveStreams, for any number of people, streams and rows, any limit,     *)
(* window and batch, any number of restarts; and EffectsFirst of           *)
(* EventConsumers, for each of the four consumers and any number of        *)
(* messages, replicas, deliveries and faults.                              *)
(***************************************************************************)
EXTENDS LiveStreams, EventConsumers, FiniteSums

-----------------------------------------------------------------------------
-----------------------------------------------------------------------------
(* The window.  What is dropped lies before it; d says how much it is.     *)

Dropping(w, start, d) ==
  /\ d \in 0..Len(w) /\ \A j \in 1..d : w[j] < start
  /\ SubSeq(w, Since(w, start), Len(w)) \in Seq(Nat)
  /\ Len(SubSeq(w, Since(w, start), Len(w))) = Len(w) - d
  /\ \A i \in 1..(Len(w) - d) : SubSeq(w, Since(w, start), Len(w))[i] = w[d + i]

LEMMA SinceIs ==
  ASSUME NEW w \in Seq(Nat), NEW start \in Int
  PROVE  /\ Since(w, start) \in 1..(Len(w) + 1)
         /\ \A j \in 1..(Since(w, start) - 1) : w[j] < start
<1>1. PICK n \in Nat : n = Len(w) /\ \A i \in 1..n : w[i] \in Nat
  OBVIOUS
<1> DEFINE S == {k \in 1..(n + 1) : k <= n => w[k] >= start}
<1>2. n + 1 \in S /\ S \in SUBSET Nat
  BY <1>1
<1>3. PICK k \in S : \A m \in S : k <= m
  <2> HIDE DEF S
  <2> QED BY <1>2, LeastNat
<1>4. \A j \in 1..(k - 1) : w[j] < start
  <2> SUFFICES ASSUME NEW j \in 1..(k - 1)
               PROVE  w[j] < start
    OBVIOUS
  <2>1. j \notin S /\ j \in 1..n
    BY <1>1, <1>3
  <2> QED BY <1>1, <2>1
<1>5. \E i \in 1..(Len(w) + 1) :
        (\A j \in 1..(i - 1) : w[j] < start) /\ (i <= Len(w) => w[i] >= start)
  BY <1>1, <1>3, <1>4
<1> QED BY <1>5 DEF Since

LEMMA Drops ==
  ASSUME NEW w \in Seq(Nat), NEW start \in Int
  PROVE  \E d \in Nat : Dropping(w, start, d)
<1>1. PICK n \in Nat : n = Len(w) /\ \A i \in 1..n : w[i] \in Nat
  OBVIOUS
<1>2. PICK k \in 1..(n + 1) : k = Since(w, start) /\ \A j \in 1..(k - 1) : w[j] < start
  BY <1>1, SinceIs
<1> DEFINE x == SubSeq(w, k, n)
<1>3. x \in Seq(Nat) /\ Len(x) = n - (k - 1) /\ \A i \in 1..(n - (k - 1)) : x[i] = w[k - 1 + i]
  <2>1. x = [i \in 1..(n - k + 1) |-> w[k + i - 1]]
    BY <1>1
  <2>2. x \in [1..(n - k + 1) -> Nat] /\ n - k + 1 \in Nat
    BY <1>1, <2>1
  <2> QED BY <1>1, <2>1, <2>2
<1>4. k - 1 \in 0..n
  OBVIOUS
<1> HIDE DEF x
<1>5. SubSeq(w, Since(w, start), Len(w)) = x
  BY <1>1, <1>2 DEF x
<1>6. Dropping(w, start, k - 1)
  BY <1>1, <1>2, <1>3, <1>4, <1>5 DEF Dropping
<1> QED BY <1>4, <1>6

-----------------------------------------------------------------------------
(* One person's alerts: e the times of all that were shown, w the window,  *)
(* n the time, r the restarts.  Up to k lie those of before the last        *)
(* restart, up to m those the window has dropped or lost.                   *)

Span(e, a, b, t) == {i \in a..b : e[i] \in t..(t + Window)}

MeteredAt(e, w, n, r, k, m) ==
  /\ k \in 0..m /\ m \in 0..Len(e)
  /\ Len(w) = Len(e) - m /\ Len(w) <= Limit
  /\ \A i \in 1..Len(w) : w[i] = e[m + i]
  /\ \A j \in (k + 1)..m : e[j] < n - Window
  /\ \A t \in Int : Cardinality(Span(e, 1, k, t)) <= Limit * r
  /\ \A t \in Int : Cardinality(Span(e, k + 1, Len(e), t)) <= Limit

Metered(e, w, n, r) ==
  /\ e \in Seq(Nat) /\ w \in Seq(Nat)
  /\ \E k, m \in Nat : MeteredAt(e, w, n, r, k, m)

LEMMA Sizes == Limit \in Nat /\ Limit >= 1 /\ Window \in Nat /\ Window >= 1
BY StreamAssumption

LEMMA SpanSize ==
  ASSUME NEW a \in Int, NEW b \in Int, NEW e, NEW t
  PROVE  IsFiniteSet(Span(e, a, b, t)) /\ Cardinality(Span(e, a, b, t)) \in Nat
<1>1. IsFiniteSet(a..b)
  BY FS_Interval
<1>2. Span(e, a, b, t) \in SUBSET (a..b)
  BY DEF Span
<1> QED BY <1>1, <1>2, FS_Subset, FS_CardinalityType

\* Whatever the span of time, it is within the limit for each life of the process.
LEMMA MeterRespects ==
  ASSUME NEW e \in Seq(Nat), NEW w, NEW n \in Nat, NEW r \in Nat, NEW k \in Nat, NEW m \in Nat,
         MeteredAt(e, w, n, r, k, m), NEW t \in Int
  PROVE  Cardinality(Span(e, 1, Len(e), t)) <= Limit * (1 + r)
<1>1. PICK l \in Nat : l = Len(e)
  OBVIOUS
<1> DEFINE A == Span(e, 1, k, t)
           B == Span(e, k + 1, l, t)
<1>2. k \in 0..l /\ Cardinality(A) <= Limit * r /\ Cardinality(B) <= Limit
  BY <1>1 DEF MeteredAt
<1>3. Span(e, 1, l, t) = A \cup B
  BY <1>2 DEF Span
<1>4. /\ IsFiniteSet(A) /\ Cardinality(A) \in Nat
      /\ IsFiniteSet(B) /\ Cardinality(B) \in Nat
  BY SpanSize
<1> HIDE DEF A, B
<1>5. Cardinality(A \cap B) \in Nat
  <2>1. IsFiniteSet(A \cap B)
    BY <1>4, FS_Subset
  <2> QED BY <2>1, FS_CardinalityType
<1>6. Cardinality(A \cup B) = Cardinality(A) + Cardinality(B) - Cardinality(A \cap B)
  BY <1>4, FS_Union
<1>7. Cardinality(A \cup B) <= Limit * r + Limit
  <2>1. Limit * r \in Nat /\ Limit \in Nat
    BY Sizes
  <2> QED BY <1>2, <1>4, <1>5, <1>6, <2>1
<1>8. Limit * (1 + r) = Limit * r + Limit
  BY Sizes
<1> QED BY <1>1, <1>3, <1>7, <1>8

LEMMA MeterTicks ==
  ASSUME NEW e \in Seq(Nat), NEW w, NEW n \in Nat, NEW r \in Nat, NEW k \in Nat, NEW m \in Nat,
         MeteredAt(e, w, n, r, k, m), NEW h \in Nat, h >= n
  PROVE  MeteredAt(e, w, h, r, k, m)
<1>1. \A j \in (k + 1)..m : e[j] < h - Window
  <2> SUFFICES ASSUME NEW j \in (k + 1)..m
               PROVE  e[j] < h - Window
    OBVIOUS
  <2>1. j \in 1..Len(e) /\ e[j] < n - Window
    BY DEF MeteredAt
  <2>2. e[j] \in Nat
    BY <2>1
  <2> QED BY <2>1, <2>2, Sizes
<1> QED BY <1>1 DEF MeteredAt

\* What the window drops is too old for any span that reaches the present.
LEMMA MeterDrops ==
  ASSUME NEW e \in Seq(Nat), NEW w \in Seq(Nat), NEW n \in Nat, NEW r \in Nat,
         NEW k \in Nat, NEW m \in Nat, MeteredAt(e, w, n, r, k, m), NEW x, NEW d \in Nat,
         Dropping(w, n - Window, d), x = SubSeq(w, Since(w, n - Window), Len(w))
  PROVE  MeteredAt(e, x, n, r, k, m + d)
<1>1. PICK l \in Nat, v \in Nat : l = Len(e) /\ v = Len(w)
  OBVIOUS
<1>2. /\ k \in 0..m /\ m \in 0..l /\ v = l - m /\ v <= Limit
      /\ \A i \in 1..v : w[i] = e[m + i]
      /\ \A j \in (k + 1)..m : e[j] < n - Window
      /\ d \in 0..v /\ \A j \in 1..d : w[j] < n - Window
      /\ Len(x) = v - d /\ \A i \in 1..(v - d) : x[i] = w[d + i]
  BY <1>1 DEF MeteredAt, Dropping
<1>3. /\ k \in 0..(m + d) /\ m + d \in 0..l
      /\ Len(x) = l - (m + d) /\ Len(x) <= Limit
  <2>1. k \in 0..m /\ m \in 0..l /\ v = l - m /\ v <= Limit /\ d \in 0..v
    BY <1>2
  <2>2. v - d = l - (m + d) /\ v - d <= Limit
    BY <2>1, Sizes
  <2>3. k \in 0..(m + d) /\ m + d \in 0..l
    BY <2>1
  <2>4. Len(x) = v - d
    BY <1>2
  <2> QED BY <2>2, <2>3, <2>4
<1>4. \A i \in 1..Len(x) : x[i] = e[m + d + i]
  <2> SUFFICES ASSUME NEW i \in 1..(v - d)
               PROVE  x[i] = e[m + d + i]
    BY <1>2
  <2>0. d \in 0..v
    BY <1>2
  <2>1. d + i \in 1..v /\ x[i] = w[d + i]
    <3>1. d + i \in 1..v
      BY <2>0
    <3> QED BY <1>2, <3>1
  <2>2. w[d + i] = e[m + (d + i)]
    BY <1>2, <2>1
  <2>3. m + (d + i) = m + d + i
    OBVIOUS
  <2> QED BY <2>1, <2>2, <2>3
<1>5. \A j \in (k + 1)..(m + d) : e[j] < n - Window
  <2> SUFFICES ASSUME NEW j \in (k + 1)..(m + d), ~(j <= m)
               PROVE  e[j] < n - Window
    BY <1>2
  <2>1. j - m \in 1..d /\ j - m \in 1..v /\ m + (j - m) = j
    BY <1>2
  <2>2. w[j - m] = e[m + (j - m)] /\ w[j - m] < n - Window
    BY <1>2, <2>1
  <2> QED BY <2>1, <2>2
<1> QED BY <1>1, <1>3, <1>4, <1>5 DEF MeteredAt

LEMMA MeterShows ==
  ASSUME NEW e \in Seq(Nat), NEW x \in Seq(Nat), NEW n \in Nat, NEW r \in Nat,
         NEW k \in Nat, NEW m \in Nat, MeteredAt(e, x, n, r, k, m), Len(x) < Limit
  PROVE  MeteredAt(Append(e, n), Append(x, n), n, r, k, m)
<1>1. PICK l \in Nat, v \in Nat : l = Len(e) /\ v = Len(x)
  OBVIOUS
<1>2. PICK f \in Seq(Nat), y \in Seq(Nat) : f = Append(e, n) /\ y = Append(x, n)
  <2>1. Append(e, n) \in Seq(Nat) /\ Append(x, n) \in Seq(Nat)
    OBVIOUS
  <2> QED BY <2>1
<1>3. /\ Len(f) = l + 1 /\ Len(y) = v + 1 /\ f[l + 1] = n /\ y[v + 1] = n
      /\ \A i \in 1..l : f[i] = e[i] /\ e[i] \in Nat
      /\ \A i \in 1..v : y[i] = x[i]
  BY <1>1, <1>2
<1>4. /\ k \in 0..m /\ m \in 0..l /\ v = l - m /\ v < Limit
      /\ \A i \in 1..v : x[i] = e[m + i]
      /\ \A j \in (k + 1)..m : e[j] < n - Window
      /\ \A t \in Int : Cardinality(Span(e, 1, k, t)) <= Limit * r
      /\ \A t \in Int : Cardinality(Span(e, k + 1, l, t)) <= Limit
  BY <1>1 DEF MeteredAt
<1>5. /\ k \in 0..m /\ m \in 0..(l + 1) /\ v + 1 = (l + 1) - m /\ v + 1 <= Limit
  BY <1>4, Sizes
<1>6. \A i \in 1..(v + 1) : y[i] = f[m + i]
  <2> SUFFICES ASSUME NEW i \in 1..(v + 1)
               PROVE  y[i] = f[m + i]
    OBVIOUS
  <2>1. CASE i = v + 1
    <3>1. m + i = l + 1
      BY <1>4, <2>1
    <3> QED BY <1>3, <2>1, <3>1
  <2>2. CASE i # v + 1
    <3>1. i \in 1..v /\ m + i \in 1..l
      BY <1>4, <2>2
    <3> QED BY <1>3, <1>4, <3>1
  <2> QED BY <2>1, <2>2
<1>7. \A j \in (k + 1)..m : f[j] < n - Window
  BY <1>3, <1>4
<1>8. ASSUME NEW t \in Int
      PROVE  Cardinality(Span(f, 1, k, t)) <= Limit * r
  <2>1. Span(f, 1, k, t) = Span(e, 1, k, t)
    <3>1. \A i \in 1..k : f[i] = e[i]
      BY <1>3, <1>4
    <3> QED BY <3>1 DEF Span
  <2> QED BY <1>4, <2>1
<1>9. ASSUME NEW t \in Int
      PROVE  Cardinality(Span(f, k + 1, l + 1, t)) <= Limit
  <2>1. CASE n \in t..(t + Window)
    <3>1. Span(f, k + 1, l + 1, t) \in SUBSET ((m + 1)..(l + 1))
      <4> SUFFICES ASSUME NEW i \in (k + 1)..(l + 1), f[i] \in t..(t + Window), ~(i >= m + 1)
                   PROVE  FALSE
        BY <1>4 DEF Span
      <4>1. i \in (k + 1)..m /\ i \in 1..l
        BY <1>4
      <4>2. f[i] < n - Window /\ f[i] \in Nat
        BY <1>3, <1>7, <4>1
      <4> QED BY <2>1, <4>2, Sizes
    <3>2. IsFiniteSet((m + 1)..(l + 1)) /\ Cardinality((m + 1)..(l + 1)) = v + 1
      <4>1. PICK a \in Int, b \in Int :
              a = m + 1 /\ b = l + 1 /\ ~(a > b) /\ b - a + 1 = v + 1
        BY <1>4
      <4>2. IsFiniteSet(a..b) /\ Cardinality(a..b) = b - a + 1
        BY <4>1, FS_Interval
      <4> QED BY <4>1, <4>2
    <3>3. Cardinality(Span(f, k + 1, l + 1, t)) <= v + 1
      BY <3>1, <3>2, FS_Subset
    <3>4. Cardinality(Span(f, k + 1, l + 1, t)) \in Nat
      BY SpanSize
    <3> QED BY <1>5, <3>3, <3>4, Sizes
  <2>2. CASE n \notin t..(t + Window)
    <3>1. Span(f, k + 1, l + 1, t) = Span(e, k + 1, l, t)
      <4>1. ASSUME NEW i \in (k + 1)..(l + 1)
            PROVE  f[i] \in t..(t + Window) <=> i \in (k + 1)..l /\ e[i] \in t..(t + Window)
        <5>1. CASE i = l + 1
          <6>1. f[i] = n /\ i \notin (k + 1)..l
            BY <1>3, <5>1
          <6> QED BY <2>2, <6>1
        <5>2. CASE i # l + 1
          <6>1. i \in (k + 1)..l /\ i \in 1..l
            BY <5>2
          <6>2. f[i] = e[i]
            BY <1>3, <6>1
          <6> QED BY <6>1, <6>2
        <5> QED BY <5>1, <5>2
      <4>2. (k + 1)..l \subseteq (k + 1)..(l + 1)
        BY Sizes
      <4> QED BY <4>1, <4>2 DEF Span
    <3> QED BY <1>4, <3>1
  <2> QED BY <2>1, <2>2
<1>10. MeteredAt(f, y, n, r, k, m)
  BY <1>3, <1>5, <1>6, <1>7, <1>8, <1>9 DEF MeteredAt
<1> QED BY <1>2, <1>10

\* A restart empties the window and begins another life.
LEMMA MeterRestarts ==
  ASSUME NEW e \in Seq(Nat), NEW w, NEW n \in Nat, NEW r \in Nat, NEW k \in Nat, NEW m \in Nat,
         MeteredAt(e, w, n, r, k, m)
  PROVE  MeteredAt(e, <<>>, n, r + 1, Len(e), Len(e))
<1>1. PICK l \in Nat : l = Len(e)
  OBVIOUS
<1>2. \A t \in Int : Cardinality(Span(e, 1, l, t)) <= Limit * (r + 1)
  BY <1>1, MeterRespects
<1>3. \A t \in Int : Cardinality(Span(e, l + 1, l, t)) <= Limit
  <2> SUFFICES ASSUME NEW t \in Int
               PROVE  Cardinality(Span(e, l + 1, l, t)) <= Limit
    OBVIOUS
  <2>1. (l + 1)..l = {}
    OBVIOUS
  <2>2. Span(e, l + 1, l, t) = {}
    BY <2>1 DEF Span
  <2>3. Cardinality(Span(e, l + 1, l, t)) = 0
    BY <2>2, FS_EmptySet
  <2> QED BY <2>3, Sizes
<1>4. Len(<<>>) = 0 /\ Len(<<>>) = l - l /\ 0 <= Limit
  BY Sizes
<1> QED BY <1>1, <1>2, <1>3, <1>4 DEF MeteredAt

-----------------------------------------------------------------------------
(* The invariant                                                           *)

Row == {"alert"} \cup Decisions
Held ==
  [at : {"poll", "rows", "resolved", "sleep"}, owner : Users, seen : SUBSET Nat,
   todo : SUBSET Nat, shown : SUBSET Nat, refused : SUBSET Nat,
   notified : BOOLEAN, notices : {0, 1}]

\* What a stream holds: the rows it has to do it has not seen, those shown and
\* those refused it has, and each but once.
Rightly(q) ==
  /\ q.seen \cup q.todo \subseteq DOMAIN rows /\ q.todo \cap q.seen = {}
  /\ q.shown \cup q.refused \subseteq q.seen /\ q.shown \cap q.refused = {}
  /\ Authorised(q.owner)
  /\ q.refused # {} => Len(emitted[q.owner]) >= Limit
  /\ q.notices = IF q.notified THEN 1 ELSE 0

Counts ==
  /\ channel \in Channels /\ now \in 0..MaxNow /\ rows \in Seq(Row)
  /\ connects \in 0..MaxConnects /\ faults \in 0..MaxFaults /\ restarts \in 0..MaxRestarts

HeldRightly ==
  /\ stream \in [Streams -> {Closed} \cup Held]
  /\ \A s \in Streams : stream[s] \in Held => Rightly(stream[s])

AllMetered ==
  /\ window \in [Users -> Seq(Nat)] /\ emitted \in [Users -> Seq(Nat)]
  /\ \A u \in Users : /\ Metered(emitted[u], window[u], now, restarts)
                      /\ \A i \in 1..Len(emitted[u]) : emitted[u][i] <= now

StreamsInv == Counts /\ HeldRightly /\ AllMetered

LEMMA OpenIs ==
  ASSUME HeldRightly, NEW s \in Streams
  PROVE  Open(s) <=> stream[s] \in Held
BY DEF HeldRightly, Open, Closed, Held

\* The rows and the alerts shown only become more.
Grows ==
  /\ DOMAIN rows \subseteq DOMAIN rows'
  /\ \A u \in Users : Len(emitted[u]) >= Limit => Len(emitted'[u]) >= Limit

LEMMA RightlyStays ==
  ASSUME Grows, NEW q \in Held, Rightly(q)
  PROVE  /\ q.seen \cup q.todo \subseteq DOMAIN rows' /\ q.todo \cap q.seen = {}
         /\ q.shown \cup q.refused \subseteq q.seen /\ q.shown \cap q.refused = {}
         /\ Authorised(q.owner)
         /\ q.refused # {} => Len(emitted'[q.owner]) >= Limit
         /\ q.notices = IF q.notified THEN 1 ELSE 0
<1>1. q.owner \in Users
  BY DEF Held
<1>2. q.refused # {} => Len(emitted'[q.owner]) >= Limit
  BY <1>1 DEF Grows, Rightly
<1>3. q.seen \cup q.todo \subseteq DOMAIN rows'
  BY DEF Grows, Rightly
<1> QED BY <1>2, <1>3 DEF Rightly

LEMMA CountsStep == Counts /\ [Next]_vars => Counts'
<1> SUFFICES ASSUME Counts, [Next]_vars
             PROVE  Counts'
  OBVIOUS
<1> USE BoundAssumption DEF Counts, limits
<1>1. CASE UNCHANGED vars
  BY <1>1 DEF vars
<1>2. CASE AddRow
  <2>1. PICK row \in Row : rows' = Append(rows, row)
    BY <1>2 DEF AddRow, Row
  <2>2. rows' \in Seq(Row)
    BY <2>1
  <2> QED BY <1>2, <2>2 DEF AddRow
<1>3. CASE Tick
  BY <1>3 DEF Tick
<1>4. CASE Restart
  BY <1>4 DEF Restart
<1>5. ASSUME NEW s, Disconnect(s)
      PROVE  Counts'
  BY <1>5 DEF Disconnect
<1>6. ASSUME NEW s, NEW u, Connect(s, u)
      PROVE  Counts'
  BY <1>6 DEF Connect
<1>7. ASSUME NEW s, Generate(s)
      PROVE  Counts'
  <2>1. CASE PollFails(s)
    BY <2>1 DEF PollFails
  <2> QED BY <1>7, <2>1 DEF Generate, Poll, AlertRow, PendingRow, EndOfRows, Resolved, Wake
<1> QED BY <1>1, <1>2, <1>3, <1>4, <1>5, <1>6, <1>7 DEF Next

-----------------------------------------------------------------------------
(* What an alert does to the person it is for                              *)

\* The alerts of u as they are, those of the others untouched.
AlertShown(u) ==
  /\ MayShow(u)
  /\ window' = [window EXCEPT ![u] = Append(Evicted(window[u]), now)]
  /\ emitted' = [emitted EXCEPT ![u] = Append(emitted[u], now)]

AlertRefused(u) ==
  /\ ~MayShow(u)
  /\ window' = [window EXCEPT ![u] = Evicted(window[u])]
  /\ UNCHANGED emitted

\* The window after what is too old has left it.
LEMMA EvictedIs ==
  ASSUME Counts, AllMetered, NEW u \in Users
  PROVE  /\ Evicted(window[u]) \in Seq(Nat)
         /\ Len(Evicted(window[u])) <= Len(emitted[u])
         /\ \E k, m \in Nat :
              MeteredAt(emitted[u], Evicted(window[u]), now, restarts, k, m)
<1>1. PICK e \in Seq(Nat), w \in Seq(Nat) : e = emitted[u] /\ w = window[u]
  BY DEF AllMetered
<1>2. PICK k \in Nat, m \in Nat : MeteredAt(e, w, now, restarts, k, m)
  BY <1>1 DEF AllMetered, Metered
<1>3. PICK n \in Nat, r \in Nat : n = now /\ r = restarts
  BY BoundAssumption DEF Counts
<1>4. n - Window \in Int
  BY Sizes
<1>5. PICK d \in Nat : Dropping(w, n - Window, d)
  BY <1>4, Drops
<1>6. PICK x : x = SubSeq(w, Since(w, n - Window), Len(w))
  OBVIOUS
<1>7. x = Evicted(window[u])
  BY <1>1, <1>3, <1>6 DEF Evicted
<1>8. MeteredAt(e, x, n, r, k, m + d)
  BY <1>2, <1>3, <1>5, <1>6, MeterDrops
<1>9. x \in Seq(Nat)
  BY <1>5, <1>6 DEF Dropping
<1>10. Len(x) <= Len(e)
  <2>1. m + d \in 0..Len(e) /\ Len(x) = Len(e) - (m + d) /\ Len(e) \in Nat
    BY <1>8 DEF MeteredAt
  <2> QED BY <2>1
<1>11. m + d \in Nat
  OBVIOUS
<1> QED BY <1>1, <1>3, <1>7, <1>8, <1>9, <1>10, <1>11

LEMMA ShownMetered ==
  ASSUME Counts, AllMetered, NEW u \in Users, AlertShown(u), UNCHANGED <<now, restarts>>
  PROVE  AllMetered' /\ \A v \in Users : Len(emitted'[v]) >= Len(emitted[v])
<1>1. PICK e \in Seq(Nat), x \in Seq(Nat), n \in Nat, r \in Nat :
        e = emitted[u] /\ x = Evicted(window[u]) /\ n = now /\ r = restarts
  BY EvictedIs, BoundAssumption DEF AllMetered, Counts
<1>2. PICK k \in Nat, m \in Nat : MeteredAt(e, x, n, r, k, m)
  BY <1>1, EvictedIs
<1>3. Len(x) < Limit
  BY <1>1 DEF AlertShown, MayShow
<1>4. MeteredAt(Append(e, n), Append(x, n), n, r, k, m)
  BY <1>2, <1>3, MeterShows
<1>5. Append(e, n) \in Seq(Nat) /\ Append(x, n) \in Seq(Nat)
  OBVIOUS
<1>6. /\ emitted'[u] = Append(e, n) /\ window'[u] = Append(x, n)
      /\ \A v \in Users : v # u => emitted'[v] = emitted[v] /\ window'[v] = window[v]
      /\ window' \in [Users -> Seq(Nat)] /\ emitted' \in [Users -> Seq(Nat)]
  BY <1>1, <1>5 DEF AlertShown, AllMetered
<1>7. Metered(emitted'[u], window'[u], n, r)
  BY <1>4, <1>5, <1>6 DEF Metered
<1>8. \A i \in 1..Len(Append(e, n)) : Append(e, n)[i] <= n
  <2>1. \A i \in 1..Len(e) : e[i] <= n
    BY <1>1 DEF AllMetered
  <2> QED BY <2>1
<1>9. Len(Append(e, n)) >= Len(e)
  OBVIOUS
<1>10. ASSUME NEW v \in Users
       PROVE  Len(emitted'[v]) >= Len(emitted[v])
  <2>1. CASE v = u
    BY <1>1, <1>6, <1>9, <2>1
  <2>2. CASE v # u
    <3>1. Len(emitted[v]) \in Nat /\ emitted'[v] = emitted[v]
      BY <1>6, <2>2 DEF AllMetered
    <3> QED BY <3>1
  <2> QED BY <2>1, <2>2
<1>11. \A v \in Users : /\ Metered(emitted'[v], window'[v], now', restarts')
                        /\ \A i \in 1..Len(emitted'[v]) : emitted'[v][i] <= now'
  BY <1>1, <1>6, <1>7, <1>8 DEF AllMetered
<1> QED BY <1>6, <1>10, <1>11 DEF AllMetered

LEMMA RefusedMetered ==
  ASSUME Counts, AllMetered, NEW u \in Users, AlertRefused(u), UNCHANGED <<now, restarts>>
  PROVE  AllMetered' /\ Len(emitted[u]) >= Limit
<1>1. PICK e \in Seq(Nat), x \in Seq(Nat) : e = emitted[u] /\ x = Evicted(window[u])
  BY EvictedIs DEF AllMetered
<1>2. PICK k \in Nat, m \in Nat : MeteredAt(e, x, now, restarts, k, m)
  BY <1>1, EvictedIs
<1>3. Len(x) <= Len(e) /\ ~(Len(x) < Limit)
  BY <1>1, EvictedIs DEF AlertRefused, MayShow
<1>4. Len(e) >= Limit
  BY <1>3, Sizes
<1>5. Metered(e, x, now, restarts)
  BY <1>2 DEF Metered
<1>6. /\ window'[u] = x /\ \A v \in Users : v # u => window'[v] = window[v]
      /\ window' \in [Users -> Seq(Nat)] /\ emitted' = emitted
  BY <1>1 DEF AlertRefused, AllMetered
<1> QED BY <1>1, <1>4, <1>5, <1>6 DEF AllMetered

-----------------------------------------------------------------------------
(* The steps, by what they do to one stream                                *)

\* The stream s becomes q.
Becomes(s, q) == stream' = [stream EXCEPT ![s] = q]

LEMMA HeldStep ==
  ASSUME HeldRightly, Grows, NEW s \in Streams, NEW q \in {Closed} \cup Held, Becomes(s, q),
         q \in Held => (Rightly(q) \/
           (/\ q.seen \cup q.todo \subseteq DOMAIN rows' /\ q.todo \cap q.seen = {}
            /\ q.shown \cup q.refused \subseteq q.seen /\ q.shown \cap q.refused = {}
            /\ Authorised(q.owner)
            /\ q.refused # {} => Len(emitted'[q.owner]) >= Limit
            /\ q.notices = IF q.notified THEN 1 ELSE 0))
  PROVE  HeldRightly'
<1>1. /\ stream' \in [Streams -> {Closed} \cup Held] /\ stream'[s] = q
      /\ \A d \in Streams : d # s => stream'[d] = stream[d]
  BY DEF HeldRightly, Becomes
<1>2. ASSUME NEW d \in Streams, stream'[d] \in Held
      PROVE  Rightly(stream[d])'
  <2>1. PICK p \in Held : p = stream'[d]
    BY <1>2
  <2>2. \/ Rightly(p)
        \/ /\ p.seen \cup p.todo \subseteq DOMAIN rows' /\ p.todo \cap p.seen = {}
           /\ p.shown \cup p.refused \subseteq p.seen /\ p.shown \cap p.refused = {}
           /\ Authorised(p.owner)
           /\ p.refused # {} => Len(emitted'[p.owner]) >= Limit
           /\ p.notices = IF p.notified THEN 1 ELSE 0
    <3>1. CASE d = s
      BY <1>1, <2>1, <3>1
    <3>2. CASE d # s
      BY <1>1, <2>1, <3>2 DEF HeldRightly
    <3> QED BY <3>1, <3>2
  <2>3. /\ p.seen \cup p.todo \subseteq DOMAIN rows' /\ p.todo \cap p.seen = {}
        /\ p.shown \cup p.refused \subseteq p.seen /\ p.shown \cap p.refused = {}
        /\ Authorised(p.owner)
        /\ p.refused # {} => Len(emitted'[p.owner]) >= Limit
        /\ p.notices = IF p.notified THEN 1 ELSE 0
    BY <2>2, RightlyStays
  <2> QED BY <2>1, <2>3 DEF Rightly
<1> QED BY <1>1, <1>2 DEF HeldRightly

LEMMA HeldRests ==
  ASSUME HeldRightly, Grows, UNCHANGED stream
  PROVE  HeldRightly'
<1>1. ASSUME NEW d \in Streams, stream[d] \in Held
      PROVE  Rightly(stream[d])'
  <2>1. PICK p \in Held : p = stream[d] /\ Rightly(p)
    BY <1>1 DEF HeldRightly
  <2>2. /\ p.seen \cup p.todo \subseteq DOMAIN rows' /\ p.todo \cap p.seen = {}
        /\ p.shown \cup p.refused \subseteq p.seen /\ p.shown \cap p.refused = {}
        /\ Authorised(p.owner)
        /\ p.refused # {} => Len(emitted'[p.owner]) >= Limit
        /\ p.notices = IF p.notified THEN 1 ELSE 0
    BY <2>1, RightlyStays
  <2> QED BY <2>1, <2>2 DEF Rightly
<1> QED BY <1>1 DEF HeldRightly

LEMMA StillGrows ==
  ASSUME Counts, AllMetered, UNCHANGED <<rows, emitted>>
  PROVE  Grows
BY DEF Grows

\* Where only the place of a stream changes, the stream is as right as before.
LEMMA PlaceStep ==
  ASSUME HeldRightly, Counts, AllMetered, UNCHANGED <<rows, emitted>>, NEW s \in Streams,
         NEW at \in {"poll", "rows", "resolved", "sleep"}, stream[s] \in Held,
         stream' = [stream EXCEPT ![s].at = at]
  PROVE  HeldRightly'
<1>1. PICK p \in Held : p = stream[s] /\ Rightly(p)
  BY DEF HeldRightly
<1>2. PICK q \in Held : q = [p EXCEPT !.at = at]
  BY DEF Held
<1>3. /\ q.seen = p.seen /\ q.todo = p.todo /\ q.shown = p.shown /\ q.refused = p.refused
      /\ q.owner = p.owner /\ q.notices = p.notices /\ q.notified = p.notified
  BY <1>2 DEF Held
<1>4. Rightly(q)
  BY <1>1, <1>3 DEF Rightly
<1>5. Becomes(s, q)
  BY <1>1, <1>2 DEF Becomes, HeldRightly
<1> QED BY <1>4, <1>5, HeldStep, StillGrows

LEMMA PollStep ==
  ASSUME HeldRightly, Counts, AllMetered, NEW s \in Streams, Poll(s)
  PROVE  HeldRightly'
<1>1. PICK todo \in Selected(s) :
        stream' = [stream EXCEPT ![s].todo = todo, ![s].at = "rows"]
  BY DEF Poll
<1>2. stream[s] \in Held /\ UNCHANGED <<rows, emitted>>
  BY OpenIs DEF Poll, Open
<1>3. PICK p \in Held : p = stream[s] /\ Rightly(p)
  BY <1>2 DEF HeldRightly
<1>4. todo \subseteq DOMAIN rows \ p.seen
  BY <1>1, <1>3 DEF Selected, Unseen, kSubset
<1>5. DOMAIN rows \subseteq Nat
  <2>1. PICK n \in Nat : DOMAIN rows = 1..n
    BY DEF Counts
  <2> QED BY <2>1
<1>6. todo \in SUBSET Nat
  BY <1>4, <1>5
<1>7. PICK q \in Held : q = [p EXCEPT !.todo = todo, !.at = "rows"]
  BY <1>6 DEF Held
<1>8. /\ q.seen = p.seen /\ q.todo = todo /\ q.shown = p.shown /\ q.refused = p.refused
      /\ q.owner = p.owner /\ q.notices = p.notices /\ q.notified = p.notified
  BY <1>7 DEF Held
<1>9. Rightly(q)
  BY <1>3, <1>4, <1>8 DEF Rightly
<1>10. Becomes(s, q)
  BY <1>1, <1>3, <1>7 DEF Becomes, HeldRightly
<1> QED BY <1>2, <1>9, <1>10, HeldStep, StillGrows

\* The row i leaves what is to be done and is seen.
LEMMA RowIs ==
  ASSUME Counts, NEW p \in Held, Rightly(p), NEW i \in p.todo
  PROVE  /\ i \in Nat /\ i \in DOMAIN rows /\ i \notin p.seen
         /\ p.seen \cup {i} \in SUBSET Nat /\ p.todo \ {i} \in SUBSET Nat
         /\ p.shown \cup {i} \in SUBSET Nat /\ p.refused \cup {i} \in SUBSET Nat
BY DEF Held, Rightly

LEMMA LatestIs ==
  ASSUME Counts, NEW p \in Held, Rightly(p), p.todo # {}
  PROVE  Max(p.todo) \in p.todo
<1>1. PICK n \in Nat : DOMAIN rows = 1..n
  BY DEF Counts
<1>2. p.todo \in SUBSET (1..n)
  BY <1>1 DEF Rightly
<1> QED BY <1>2, GreatestNat

LEMMA PendingRowStep ==
  ASSUME HeldRightly, Counts, AllMetered, NEW s \in Streams, PendingRow(s)
  PROVE  HeldRightly'
<1>1. stream[s] \in Held /\ UNCHANGED <<rows, emitted>>
  BY OpenIs DEF PendingRow, Open
<1>2. PICK p \in Held : p = stream[s] /\ Rightly(p)
  BY <1>1 DEF HeldRightly
<1>3. PICK i \in p.todo : stream' = [stream EXCEPT ![s].todo = @ \ {i},
                             ![s].seen = @ \cup {i}, ![s].shown = @ \cup {i}]
  BY <1>2 DEF PendingRow
<1>4. /\ i \in Nat /\ i \in DOMAIN rows /\ i \notin p.seen
      /\ p.seen \cup {i} \in SUBSET Nat /\ p.todo \ {i} \in SUBSET Nat
      /\ p.shown \cup {i} \in SUBSET Nat
  BY <1>2, RowIs
<1>5. PICK q \in Held :
        q = [p EXCEPT !.todo = @ \ {i}, !.seen = @ \cup {i}, !.shown = @ \cup {i}]
  BY <1>4 DEF Held
<1>6. /\ q.seen = p.seen \cup {i} /\ q.todo = p.todo \ {i}
      /\ q.shown = p.shown \cup {i} /\ q.refused = p.refused
      /\ q.owner = p.owner /\ q.notices = p.notices /\ q.notified = p.notified
  BY <1>5 DEF Held
<1>7. Rightly(q)
  BY <1>2, <1>4, <1>6 DEF Rightly
<1>8. Becomes(s, q)
  <2>1. q = [stream[s] EXCEPT !.todo = @ \ {i}, !.seen = @ \cup {i}, !.shown = @ \cup {i}]
    BY <1>2, <1>5
  <2> QED BY <1>3, <2>1 DEF Becomes
<1> QED BY <1>1, <1>7, <1>8, HeldStep, StillGrows

LEMMA AlertRowStep ==
  ASSUME HeldRightly, Counts, AllMetered, NEW s \in Streams, AlertRow(s)
  PROVE  HeldRightly' /\ AllMetered'
<1>1. stream[s] \in Held /\ UNCHANGED <<rows, now, restarts>>
  BY OpenIs DEF AlertRow, Open, limits
<1>2. PICK p \in Held : p = stream[s] /\ Rightly(p)
  BY <1>1 DEF HeldRightly
<1>3. PICK u \in Users : u = p.owner
  BY DEF Held
<1>4. PICK i \in p.todo : ShowAlert(s, i) \/ RefuseAlert(s, i)
  BY <1>2, LatestIs DEF AlertRow
<1>5. /\ i \in Nat /\ i \in DOMAIN rows /\ i \notin p.seen
      /\ p.seen \cup {i} \in SUBSET Nat /\ p.todo \ {i} \in SUBSET Nat
      /\ p.shown \cup {i} \in SUBSET Nat /\ p.refused \cup {i} \in SUBSET Nat
  BY <1>2, RowIs
<1>6. CASE ShowAlert(s, i)
  <2>1. AlertShown(u)
    BY <1>2, <1>3, <1>6 DEF ShowAlert, AlertShown
  <2>2. AllMetered' /\ \A v \in Users : Len(emitted'[v]) >= Len(emitted[v])
    BY <1>1, <2>1, ShownMetered
  <2>3. Grows
    <3>1. ASSUME NEW v \in Users, Len(emitted[v]) >= Limit
          PROVE  Len(emitted'[v]) >= Limit
      <4>1. Len(emitted[v]) \in Nat /\ Len(emitted'[v]) \in Nat
        BY <2>2 DEF AllMetered
      <4> QED BY <2>2, <3>1, <4>1, Sizes
    <3> QED BY <1>1, <3>1 DEF Grows
  <2>4. PICK q \in Held :
          q = [p EXCEPT !.todo = @ \ {i}, !.seen = p.seen \cup {i}, !.shown = @ \cup {i},
                        !.notified = FALSE, !.notices = 0]
    BY <1>5 DEF Held
  <2>5. /\ q.seen = p.seen \cup {i} /\ q.todo = p.todo \ {i}
        /\ q.shown = p.shown \cup {i} /\ q.refused = p.refused
        /\ q.owner = p.owner /\ q.notices = 0 /\ q.notified = FALSE
    BY <2>4 DEF Held
  <2>6. Rightly(q)
    BY <1>2, <1>5, <2>5 DEF Rightly
  <2>7. Becomes(s, q)
    <3>1. q = [stream[s] EXCEPT !.todo = @ \ {i}, !.seen = stream[s].seen \cup {i},
                 !.shown = @ \cup {i}, !.notified = FALSE, !.notices = 0]
      BY <1>2, <2>4
    <3> QED BY <1>6, <3>1 DEF ShowAlert, SeenNow, Becomes
  <2> QED BY <2>2, <2>3, <2>6, <2>7, HeldStep
<1>7. CASE RefuseAlert(s, i)
  <2>1. AlertRefused(u)
    BY <1>2, <1>3, <1>7 DEF RefuseAlert, AlertRefused
  <2>2. AllMetered' /\ Len(emitted[u]) >= Limit /\ emitted' = emitted
    BY <1>1, <2>1, RefusedMetered DEF AlertRefused
  <2>3. Notice(s) = 1
    <3>1. p.notices = IF p.notified THEN 1 ELSE 0
      BY <1>2 DEF Rightly
    <3>2. CASE p.notified
      BY <1>2, <3>1, <3>2 DEF Notice
    <3>3. CASE ~p.notified
      <4>1. p.notices = 0
        BY <3>1, <3>3
      <4>2. Notice(s) = p.notices + 1
        BY <1>2, <3>3 DEF Notice
      <4> QED BY <4>1, <4>2
    <3> QED BY <3>2, <3>3
  <2>4. PICK q \in Held :
          q = [p EXCEPT !.todo = @ \ {i}, !.seen = p.seen \cup {i}, !.refused = @ \cup {i},
                        !.notified = TRUE, !.notices = 1]
    BY <1>5 DEF Held
  <2>5. /\ q.seen = p.seen \cup {i} /\ q.todo = p.todo \ {i}
        /\ q.shown = p.shown /\ q.refused = p.refused \cup {i}
        /\ q.owner = p.owner /\ q.notices = 1 /\ q.notified = TRUE
    BY <2>4 DEF Held
  <2>6. Rightly(q)
    BY <1>2, <1>3, <1>5, <2>2, <2>5 DEF Rightly
  <2>7. Becomes(s, q)
    <3>1. q = [stream[s] EXCEPT !.todo = @ \ {i}, !.seen = stream[s].seen \cup {i},
                 !.refused = @ \cup {i}, !.notified = TRUE, !.notices = Notice(s)]
      BY <1>2, <2>3, <2>4
    <3> QED BY <1>7, <3>1 DEF RefuseAlert, SeenNow, Becomes
  <2> QED BY <1>1, <2>2, <2>6, <2>7, HeldStep, StillGrows
<1> QED BY <1>4, <1>6, <1>7

LEMMA StreamsStep == StreamsInv /\ [Next]_vars => StreamsInv'
<1> SUFFICES ASSUME Counts, HeldRightly, AllMetered, [Next]_vars
             PROVE  HeldRightly' /\ AllMetered'
  BY CountsStep DEF StreamsInv
<1> USE DEF limits
<1>1. ASSUME UNCHANGED <<window, emitted, now, restarts>>
      PROVE  AllMetered'
  BY <1>1 DEF AllMetered
<1>2. CASE UNCHANGED vars
  BY <1>1, <1>2, HeldRests, StillGrows DEF vars
<1>3. CASE AddRow
  <2>1. Grows
    <3>1. PICK row : rows' = Append(rows, row)
      BY <1>3 DEF AddRow
    <3>2. DOMAIN rows \subseteq DOMAIN rows'
      BY <3>1 DEF Counts
    <3> QED BY <1>3, <3>2 DEF Grows, AddRow
  <2> QED BY <1>1, <1>3, <2>1, HeldRests DEF AddRow
<1>4. CASE Tick
  <2>1. HeldRightly'
    BY <1>4, HeldRests, StillGrows DEF Tick
  <2>2. PICK n \in Nat, h \in Nat : n = now /\ h = now' /\ h >= n
    BY <1>4, BoundAssumption DEF Tick, Counts
  <2>3. ASSUME NEW u \in Users
        PROVE  /\ Metered(emitted[u], window[u], h, restarts)
               /\ \A i \in 1..Len(emitted[u]) : emitted[u][i] <= h
    <3>1. PICK e \in Seq(Nat), w \in Seq(Nat), r \in Nat :
            e = emitted[u] /\ w = window[u] /\ r = restarts
      BY BoundAssumption DEF AllMetered, Counts
    <3>2. PICK k \in Nat, m \in Nat : MeteredAt(e, w, n, r, k, m)
      BY <2>2, <3>1 DEF AllMetered, Metered
    <3>3. MeteredAt(e, w, h, r, k, m)
      BY <2>2, <3>2, MeterTicks
    <3>4. \A i \in 1..Len(e) : e[i] \in Nat /\ e[i] <= n
      BY <2>2, <3>1 DEF AllMetered
    <3>5. \A i \in 1..Len(e) : e[i] <= h
      BY <2>2, <3>4
    <3> QED BY <3>1, <3>3, <3>5 DEF Metered
  <2> QED BY <1>4, <2>1, <2>2, <2>3 DEF AllMetered, Tick
<1>5. CASE Restart
  <2>1. HeldRightly'
    BY <1>5 DEF Restart, HeldRightly, Closed, Held
  <2>2. ASSUME NEW u \in Users
        PROVE  Metered(emitted[u], <<>>, now, restarts + 1)
    <3>1. PICK e \in Seq(Nat), w \in Seq(Nat), n \in Nat, r \in Nat :
            e = emitted[u] /\ w = window[u] /\ n = now /\ r = restarts
      BY BoundAssumption DEF AllMetered, Counts
    <3>2. PICK k \in Nat, m \in Nat : MeteredAt(e, w, n, r, k, m)
      BY <3>1 DEF AllMetered, Metered
    <3>3. MeteredAt(e, <<>>, n, r + 1, Len(e), Len(e))
      BY <3>2, MeterRestarts
    <3>4. Len(e) \in Nat /\ <<>> \in Seq(Nat)
      OBVIOUS
    <3> QED BY <3>1, <3>3, <3>4 DEF Metered
  <2>3. /\ window' = [u \in Users |-> <<>>] /\ emitted' = emitted
        /\ now' = now /\ restarts' = restarts + 1
    BY <1>5 DEF Restart
  <2>4. window' \in [Users -> Seq(Nat)]
    BY <2>3
  <2> QED BY <2>1, <2>2, <2>3, <2>4 DEF AllMetered
<1>6. ASSUME NEW s \in Streams, Disconnect(s)
      PROVE  HeldRightly' /\ AllMetered'
  <2>1. Becomes(s, Closed) /\ Closed \notin Held
    BY <1>6 DEF Disconnect, Becomes, Closed, Held
  <2> QED BY <1>1, <1>6, <2>1, HeldStep, StillGrows DEF Disconnect
<1>7. ASSUME NEW s \in Streams, NEW u \in Users, Connect(s, u)
      PROVE  HeldRightly' /\ AllMetered'
  <2>1. PICK q \in Held :
          q = [at |-> "poll", owner |-> u, seen |-> {}, todo |-> {}, shown |-> {},
               refused |-> {}, notified |-> FALSE, notices |-> 0]
    BY DEF Held
  <2>2. Becomes(s, q) /\ Authorised(u)
    BY <1>7, <2>1 DEF Connect, Becomes
  <2>3. Rightly(q)
    BY <2>1, <2>2 DEF Rightly
  <2> QED BY <1>1, <1>7, <2>2, <2>3, HeldStep, StillGrows DEF Connect
<1>8. ASSUME NEW s \in Streams, Generate(s)
      PROVE  HeldRightly' /\ AllMetered'
  <2>1. stream[s] \in Held
    BY <1>8, OpenIs DEF Generate, Poll, PollFails, AlertRow, PendingRow, EndOfRows, Resolved,
                        Wake, Open
  <2>2. ASSUME NEW at \in {"poll", "rows", "resolved", "sleep"},
               stream' = [stream EXCEPT ![s].at = at],
               UNCHANGED <<rows, window, emitted, now, restarts>>
        PROVE  HeldRightly' /\ AllMetered'
    BY <1>1, <2>1, <2>2, PlaceStep
  <2>3. CASE Poll(s)
    BY <1>1, <2>3, PollStep DEF Poll
  <2>4. CASE PollFails(s)
    BY <2>2, <2>4 DEF PollFails
  <2>5. CASE AlertRow(s)
    BY <2>5, AlertRowStep
  <2>6. CASE PendingRow(s)
    BY <1>1, <2>6, PendingRowStep DEF PendingRow
  <2>7. CASE EndOfRows(s)
    BY <2>2, <2>7 DEF EndOfRows
  <2>8. CASE Resolved(s)
    BY <2>2, <2>8 DEF Resolved
  <2>9. CASE Wake(s)
    BY <2>2, <2>9 DEF Wake
  <2> QED BY <1>8, <2>3, <2>4, <2>5, <2>6, <2>7, <2>8, <2>9 DEF Generate
<1> QED BY <1>2, <1>3, <1>4, <1>5, <1>6, <1>7, <1>8 DEF Next

LEMMA StreamsInit == Init => StreamsInv
<1> SUFFICES ASSUME Init
             PROVE  StreamsInv
  OBVIOUS
<1>1. Counts
  BY BoundAssumption DEF Init, Counts
<1>2. HeldRightly
  BY DEF Init, HeldRightly, Closed, Held
<1>3. MeteredAt(<<>>, <<>>, 0, 0, 0, 0)
  <2>1. \A t \in Int : Span(<<>>, 1, 0, t) = {}
    <3>1. 1..0 = {}
      OBVIOUS
    <3> QED BY <3>1 DEF Span
  <2>2. \A t \in Int : Cardinality(Span(<<>>, 1, 0, t)) = 0
    BY <2>1, FS_EmptySet
  <2>3. Limit * 0 = 0 /\ 0 <= Limit
    BY Sizes
  <2>4. Len(<<>>) = 0
    OBVIOUS
  <2>5. 0 + 1 = 1 /\ 0 - 0 = 0 /\ 0 \in 0..0 /\ 1..0 = {}
    OBVIOUS
  <2> QED BY <2>2, <2>3, <2>4, <2>5 DEF MeteredAt
<1>4. <<>> \in Seq(Nat) /\ Len(<<>>) = 0
  OBVIOUS
<1>5. Metered(<<>>, <<>>, 0, 0)
  BY <1>3, <1>4 DEF Metered
<1>6. AllMetered
  BY <1>4, <1>5 DEF Init, AllMetered
<1> QED BY <1>1, <1>2, <1>6 DEF StreamsInv

\* The limit of alerts holds a person whatever streams they open, reopen and
\* interleave, and each stream tells what it left out, once (sse.py:72,
\* sse.py:293).
THEOREM AlertsStayMetered == Spec => []AlertsMetered
<1>1. StreamsInv => AlertsMetered
  <2> SUFFICES ASSUME Counts, HeldRightly, AllMetered
               PROVE  AlertsMetered
    BY DEF StreamsInv
  <2>1. ASSUME NEW u \in Users
        PROVE  /\ Len(window[u]) <= Limit /\ window[u] \in Seq(0..now)
               /\ \A t \in 0..now :
                    Cardinality({i \in DOMAIN emitted[u] : emitted[u][i] \in t..(t + Window)})
                      <= Limit * (1 + restarts)
    <3>1. PICK e \in Seq(Nat), w \in Seq(Nat), n \in Nat, r \in Nat :
            e = emitted[u] /\ w = window[u] /\ n = now /\ r = restarts
      BY BoundAssumption DEF AllMetered, Counts
    <3>2. PICK k \in Nat, m \in Nat : MeteredAt(e, w, n, r, k, m)
      BY <3>1 DEF AllMetered, Metered
    <3>3. \A i \in 1..Len(e) : e[i] \in Nat /\ e[i] <= n
      BY <3>1 DEF AllMetered
    <3>4. PICK l \in Nat, v \in Nat : l = Len(e) /\ v = Len(w)
      OBVIOUS
    <3>5. \A i \in 1..v : w[i] \in 0..n
      <4>1. m \in 0..l /\ v = l - m /\ \A i \in 1..v : w[i] = e[m + i]
        BY <3>2, <3>4 DEF MeteredAt
      <4>2. \A i \in 1..v : m + i \in 1..l
        BY <4>1
      <4>3. ASSUME NEW i \in 1..v
            PROVE  w[i] \in 0..n
        <5>1. m + i \in 1..Len(e)
          BY <4>2, <3>4
        <5>2. PICK j \in 1..Len(e) : j = m + i
          BY <5>1
        <5>3. e[j] \in Nat /\ e[j] <= n
          BY <3>3
        <5>4. w[i] = e[j]
          BY <4>1, <5>2
        <5> QED BY <5>3, <5>4
      <4> QED BY <4>3
    <3>6. w \in Seq(0..n)
      <4>1. PICK S : S = 0..n
        OBVIOUS
      <4>2. \A i \in 1..Len(w) : w[i] \in S
        BY <3>4, <3>5, <4>1
      <4>3. w \in Seq(S)
        <5>1. w = [i \in 1..v |-> w[i]]
          BY <3>4
        <5>2. [i \in 1..v |-> w[i]] \in Seq(S)
          BY <4>2, <3>4
        <5> QED BY <5>1, <5>2
      <4> QED BY <4>1, <4>3
    <3>7. v <= Limit
      BY <3>2, <3>4 DEF MeteredAt
    <3>8. ASSUME NEW t \in 0..n
          PROVE  Cardinality({i \in DOMAIN e : e[i] \in t..(t + Window)}) <= Limit * (1 + r)
      <4>1. DOMAIN e = 1..Len(e)
        OBVIOUS
      <4>2. {i \in DOMAIN e : e[i] \in t..(t + Window)} = Span(e, 1, Len(e), t)
        BY <4>1 DEF Span
      <4>3. t \in Int
        OBVIOUS
      <4> QED BY <3>2, <4>2, <4>3, MeterRespects
    <3> QED BY <3>1, <3>4, <3>6, <3>7, <3>8
  <2>2. ASSUME NEW s \in Streams, Open(s)
        PROVE  /\ stream[s].seen \cup stream[s].todo \subseteq DOMAIN rows
               /\ Authorised(stream[s].owner)
               /\ stream[s].refused \cap stream[s].shown = {}
               /\ stream[s].refused # {} => Len(emitted[stream[s].owner]) >= Limit
               /\ stream[s].notices = (IF stream[s].notified THEN 1 ELSE 0)
    <3>1. PICK p \in Held : p = stream[s] /\ Rightly(p)
      BY <2>2, OpenIs DEF HeldRightly
    <3> QED BY <3>1 DEF Rightly
  <2>3. \A s \in Streams : stream[s].at \in {"closed", "poll", "rows", "resolved", "sleep"}
    BY DEF HeldRightly, Closed, Held
  <2>4. \A i \in DOMAIN rows : rows[i] \in {"alert"} \cup Decisions
    BY DEF Counts, Row
  <2>5. TypeOK
    BY <2>1, <2>2, <2>3, <2>4 DEF TypeOK, Counts
  <2>6. RateRespected
    BY <2>1 DEF RateRespected
  <2>7. RefusalsExplained /\ ToldOnce
    BY <2>2 DEF RefusalsExplained, ToldOnce
  <2> QED BY <2>5, <2>6, <2>7 DEF AlertsMetered
<1> QED BY <1>1, StreamsInit, StreamsStep, PTL DEF Spec


-----------------------------------------------------------------------------
(* What a task may hold *)

Pcs == {"start", "fetch", "dedup", "work", "audit", "term", "nak", "dead", "stopped",
        "ack", "try ack"}

Task == [pc : Pcs, batch : Seq(Msgs)]

Proper(p) ==
  /\ Len(p.batch) <= FetchBatch
  /\ p.batch = <<>> <=> p.pc \in {"start", "fetch", "dead", "stopped"}

Deserving(m) == ~Refused(body[m])

Terminable(m) == kind = "qi" /\ (~Deserving(m) \/ failures > 0)

\* A task past the check of a payload has one that passed; the audit write
\* follows the insert; what a task is about to acknowledge has had its effect,
\* and what it is about to terminate was refused or made its work raise.
Tells(p) ==
  /\ p.pc \in {"dedup", "work", "audit"} => Deserving(Head(p.batch))
  /\ p.pc = "dedup" => kind = "qi"
  /\ p.pc = "audit" => kind = "da" /\ Head(p.batch) \in downtime
  /\ p.pc = "term" => Terminable(Head(p.batch))
  /\ p.pc \in {"ack", "try ack"} /\ Deserving(Head(p.batch)) =>
       /\ Handled(Head(p.batch))
       /\ kind = "da" /\ failures = 0 => written[Head(p.batch)] > 0

\* The assumption on the constants is carried along.
Shapes ==
  /\ kind \in Kinds /\ body \in [Msgs -> Bodies]
  /\ streams \subseteq {StreamOf(k) : k \in Kinds}
  /\ limit \in {"none", "limited", "unlimited"}
  /\ msg \in [Msgs -> [state : {"unsent", "ready", "out", "given up"} \cup Gone,
                       n : 0..MaxDeliver]]
  /\ written \in [Msgs -> Nat] /\ downtime \subseteq Msgs
  /\ asked \subseteq Msgs \X Tiers
  /\ expiries \in 0..MaxExpiries /\ failures \in 0..MaxFailures

TasksTell ==
  /\ task \in [Replicas -> Task]
  /\ \A r \in Replicas : Proper(task[r]) /\ Tells(task[r])

\* What each message has had: an acknowledged one its effect, a refused one none.
MessageTells(m) ==
  /\ msg[m].state = "done" /\ Deserving(m) =>
       /\ Handled(m)
       /\ kind = "da" /\ failures = 0 => written[m] > 0
  /\ msg[m].state = "terminated" => Terminable(m)
  /\ written[m] > 0 \/ m \in downtime => Deserving(m)
  /\ kind = "da" /\ written[m] > 0 => m \in downtime

MessagesTell == \A m \in Msgs : MessageTells(m)

\* The replicas that work on a quality event looked before its first row was
\* written: with the rows there are, they are no more than the replicas.
Workers(m) == {r \in Replicas : task[r].pc = "work" /\ Head(task[r].batch) = m}

FewRows ==
  kind = "qi" =>
    \A m \in Msgs : written[m] = 0 \/ written[m] + Cardinality(Workers(m)) <= Cardinality(Replicas)

ConsumersInv == Shapes /\ TasksTell /\ MessagesTell /\ FewRows

-----------------------------------------------------------------------------
(* Batches *)

LEMMA BatchIs ==
  ASSUME NEW S, NEW n \in Nat, NEW batch \in BoundedSeq(S, n)
  PROVE  batch \in Seq(S) /\ Len(batch) <= n
BY DEF BoundedSeq, SeqOf

LEMMA BatchOf ==
  ASSUME NEW S, NEW n \in Nat, NEW batch \in Seq(S), Len(batch) <= n, batch # <<>>
  PROVE  /\ Tail(batch) \in Seq(S) /\ Len(Tail(batch)) <= n
         /\ Head(batch) \in S
OBVIOUS

LEMMA EntryIs ==
  ASSUME NEW b
  PROVE  /\ Entry(b) \in {"ack", "term", "dedup", "work"}
         /\ kind = "qi" => Entry(b) # "work"
         /\ Entry(b) \in {"dedup", "term"} => kind = "qi"
         /\ Entry(b) \in {"ack", "term"} <=> Refused(b)
BY DEF Entry

\* A task that turns to a message, or to none.
LEMMA AtTells ==
  ASSUME NEW batch \in Seq(Msgs), Len(batch) <= FetchBatch
  PROVE  /\ At(batch) \in Task /\ Proper(At(batch)) /\ Tells(At(batch))
         /\ kind = "qi" => At(batch).pc # "work"
<1>1. CASE batch = <<>>
  <2>1. At(batch) = [pc |-> "fetch", batch |-> batch]
    BY <1>1 DEF At
  <2>2. Len(batch) = 0
    BY <1>1
  <2>3. At(batch).pc = "fetch" /\ At(batch).batch = <<>> /\ At(batch) \in Task
    <3>1. At(batch) \in Task
      BY <2>1 DEF Task, Pcs
    <3> QED BY <1>1, <2>1, <3>1
  <2> QED BY <1>1, <2>2, <2>3 DEF Proper, Tells
<1>2. CASE batch # <<>>
  <2>1. PICK pc \in {"ack", "term", "dedup", "work"} :
          /\ pc = Entry(body[Head(batch)])
          /\ kind = "qi" => pc # "work"
          /\ pc \in {"dedup", "term"} => kind = "qi"
          /\ pc \in {"ack", "term"} <=> ~Deserving(Head(batch))
    <3>1. PICK b : b = body[Head(batch)]
      OBVIOUS
    <3>2. /\ Entry(b) \in {"ack", "term", "dedup", "work"}
          /\ kind = "qi" => Entry(b) # "work"
          /\ Entry(b) \in {"dedup", "term"} => kind = "qi"
          /\ Entry(b) \in {"ack", "term"} <=> Refused(b)
      BY EntryIs
    <3> QED BY <3>1, <3>2 DEF Deserving
  <2>2. At(batch) = [pc |-> pc, batch |-> batch]
    BY <1>2, <2>1 DEF At
  <2>3. At(batch) \in Task /\ Proper(At(batch))
    <3>1. pc \in Pcs
      BY DEF Pcs
    <3>2. At(batch) \in Task
      BY <2>2, <3>1 DEF Task
    <3>3. Proper(At(batch))
      BY <1>2, <2>2 DEF Proper
    <3> QED BY <3>2, <3>3
  <2>4. Tells(At(batch))
    <3>1. pc = "term" => kind = "qi" /\ ~Deserving(Head(batch))
      BY <2>1
    <3>2. pc \in {"dedup", "work"} => Deserving(Head(batch))
      BY <2>1
    <3>3. pc \notin {"audit", "try ack"} /\ (pc = "ack" => ~Deserving(Head(batch)))
      BY <2>1
    <3>4. pc = "dedup" => kind = "qi"
      BY <2>1
    <3>5. PICK p : p = At(batch) /\ p.pc = pc /\ p.batch = batch
      BY <2>2
    <3>6. Tells(p)
      BY <3>1, <3>2, <3>3, <3>4, <3>5 DEF Tells, Terminable
    <3> QED BY <3>5, <3>6
  <2> QED BY <2>1, <2>2, <2>3, <2>4
<1> QED BY <1>1, <1>2

LEMMA ConsumersStart ==
  ASSUME ConsumersInit
  PROVE  ConsumersInv
<1>1. Shapes
  BY ConsumerAssumption DEF ConsumersInit, Shapes, Kinds, StreamOf, Bodies
<1>2. TasksTell
  <2>1. PICK o : o = [pc |-> "start", batch |-> <<>>]
    OBVIOUS
  <2>2. o \in Task /\ o.pc = "start" /\ o.batch = <<>> /\ Len(o.batch) = 0
    BY <2>1 DEF Task, Pcs
  <2>3. Proper(o) /\ Tells(o)
    BY <2>2, ConsumerAssumption DEF Proper, Tells
  <2>4. task = [r \in Replicas |-> o]
    BY <2>1 DEF ConsumersInit
  <2> QED BY <2>2, <2>3, <2>4 DEF TasksTell
<1>3. MessagesTell
  BY DEF ConsumersInit, MessagesTell, MessageTells
<1>4. FewRows
  BY DEF ConsumersInit, FewRows
<1> QED BY <1>1, <1>2, <1>3, <1>4 DEF ConsumersInv


-----------------------------------------------------------------------------
(* What the steps leave and what they do *)

\* Effects are only ever added.
TrailGrows ==
  /\ UNCHANGED <<kind, body>>
  /\ \A m \in Msgs : written[m] <= written'[m]
  /\ downtime \subseteq downtime' /\ asked \subseteq asked' /\ failures <= failures'

LEMMA HandledStays ==
  ASSUME Shapes, TrailGrows, written' \in [Msgs -> Nat], failures' \in Nat, NEW m \in Msgs
  PROVE  /\ Handled(m) => Handled(m)'
         /\ Deserving(m)' <=> Deserving(m)
         /\ Terminable(m) => Terminable(m)'
         /\ kind' = "da" /\ failures' = 0 => kind = "da" /\ failures = 0
         /\ written[m] > 0 => written'[m] > 0
<1>1. written[m] \in Nat /\ written'[m] \in Nat /\ written[m] <= written'[m] /\ failures \in Nat
  <2>1. written[m] \in Nat /\ failures \in Nat
    <3>1. written \in [Msgs -> Nat]
      BY DEF Shapes
    <3>2. failures \in 0..MaxFailures /\ MaxFailures \in Nat
      BY ConsumerAssumption DEF Shapes
    <3> QED BY <3>1, <3>2
  <2>2. written'[m] \in Nat
    OBVIOUS
  <2>3. written[m] <= written'[m]
    BY DEF TrailGrows
  <2> QED BY <2>1, <2>2, <2>3
<1>2. kind' = kind /\ body' = body /\ downtime \subseteq downtime' /\ asked \subseteq asked'
      /\ failures <= failures'
  BY DEF TrailGrows
<1>3. Handled(m) => Handled(m)'
  <2>1. CASE kind = "qi"
    BY <1>1, <1>2, <2>1 DEF Handled
  <2>2. CASE kind = "da"
    BY <1>1, <1>2, <2>2 DEF Handled
  <2>3. CASE kind = "sh"
    BY <1>1, <1>2, <2>3 DEF Handled
  <2>4. CASE kind \notin {"qi", "da", "sh"}
    BY <1>2, <2>4 DEF Handled
  <2> QED BY <2>1, <2>2, <2>3, <2>4
<1>4. Deserving(m)' <=> Deserving(m)
  BY <1>2 DEF Deserving, Refused
<1>5. Terminable(m) => Terminable(m)'
  BY <1>1, <1>2, <1>4 DEF Terminable
<1> QED BY <1>1, <1>2, <1>3, <1>4, <1>5

LEMMA StillTells ==
  ASSUME Shapes, TrailGrows, written' \in [Msgs -> Nat], failures' \in Nat,
         NEW p \in Task, Proper(p), Tells(p)
  PROVE  Tells(p)'
<1>1. CASE p.batch = <<>>
  BY <1>1 DEF Tells, Proper, Acking
<1>2. CASE p.batch # <<>>
  <2>1. PICK m \in Msgs : m = Head(p.batch)
    <3>1. p.batch \in Seq(Msgs)
      BY DEF Task
    <3> QED BY <1>2, <3>1
  <2>2. /\ Handled(m) => Handled(m)'
        /\ Deserving(m)' <=> Deserving(m)
        /\ Terminable(m) => Terminable(m)'
        /\ kind' = "da" /\ failures' = 0 => kind = "da" /\ failures = 0
        /\ written[m] > 0 => written'[m] > 0
    BY HandledStays
  <2> QED BY <2>1, <2>2 DEF Tells, TrailGrows
<1> QED BY <1>1, <1>2

\* A replica whose task becomes p.
LEMMA TaskMoves ==
  ASSUME Shapes, TasksTell, TrailGrows, written' \in [Msgs -> Nat], failures' \in Nat,
         NEW r \in Replicas, NEW p \in Task, Proper(p), Tells(p)',
         task' = [task EXCEPT ![r] = p]
  PROVE  TasksTell'
<1>1. task' \in [Replicas -> Task]
  BY DEF TasksTell
<1>2. ASSUME NEW q \in Replicas
      PROVE  (Proper(task[q]) /\ Tells(task[q]))'
  <2>1. PICK o \in Task : o = task'[q] /\ Proper(o) /\ Tells(o)'
    <3>1. CASE q = r
      BY <3>1 DEF TasksTell
    <3>2. CASE q # r
      <4>1. PICK o \in Task : o = task[q] /\ Proper(o) /\ Tells(o)
        BY DEF TasksTell
      <4>2. Tells(o)'
        BY <4>1, StillTells
      <4>3. o = task'[q]
        BY <3>2, <4>1
      <4> QED BY <4>1, <4>2, <4>3
    <3> QED BY <3>1, <3>2
  <2> QED BY <2>1 DEF Proper, Tells
<1> QED BY <1>1, <1>2 DEF TasksTell

Idling == {"start", "fetch", "dead", "stopped"}
Busy == {"dedup", "work", "audit", "term", "nak", "ack", "try ack"}

LEMMA TaskOf ==
  ASSUME Shapes, TasksTell, NEW r \in Replicas
  PROVE  /\ task[r] \in Task /\ Proper(task[r]) /\ Tells(task[r])
         /\ FetchBatch \in Nat /\ Len(task[r].batch) <= FetchBatch
         /\ task[r].batch \in Seq(Msgs) /\ task[r].pc \in Idling \cup Busy
         /\ task[r].batch = <<>> <=> task[r].pc \in Idling
         /\ task[r].pc \in Busy => task[r].batch # <<>> /\ Current(r) \in Msgs
<1>1. task[r] \in Task /\ Proper(task[r]) /\ Tells(task[r])
  BY DEF TasksTell
<1>2. FetchBatch \in Nat
  BY ConsumerAssumption DEF Shapes
<1>3. task[r].batch \in Seq(Msgs) /\ task[r].pc \in Idling \cup Busy
  BY <1>1 DEF Task, Pcs, Idling, Busy
<1>4. Len(task[r].batch) <= FetchBatch /\ (task[r].batch = <<>> <=> task[r].pc \in Idling)
  BY <1>1 DEF Proper, Idling
<1>5. task[r].pc \in Busy => task[r].batch # <<>>
  BY <1>4 DEF Idling, Busy, Acking
<1>6. task[r].batch # <<>> => Current(r) \in Msgs
  BY <1>3 DEF Current
<1> QED BY <1>1, <1>2, <1>3, <1>4, <1>5, <1>6

\* The task with another program counter, and with the next message.
LEMMA Repc ==
  ASSUME NEW o \in Task, Proper(o), NEW pc \in Idling \cup Busy, o.pc \in Idling <=> pc \in Idling
  PROVE  /\ [o EXCEPT !.pc = pc] \in Task /\ Proper([o EXCEPT !.pc = pc])
         /\ [o EXCEPT !.pc = pc].pc = pc /\ [o EXCEPT !.pc = pc].batch = o.batch
<1>1. PICK p : p = [o EXCEPT !.pc = pc]
  OBVIOUS
<1>2. p \in Task /\ p.pc = pc /\ p.batch = o.batch
  BY <1>1 DEF Task, Pcs, Idling, Busy
<1> QED BY <1>1, <1>2 DEF Proper, Idling

LEMMA NextTells ==
  ASSUME Shapes, TasksTell, NEW r \in Replicas, task[r].pc \in Busy, NextMessage(r)
  PROVE  \E p \in Task :
           /\ Proper(p) /\ Tells(p) /\ task' = [task EXCEPT ![r] = p]
           /\ kind = "qi" => p.pc # "work"
<1>1. PICK b : b = task[r].batch
  OBVIOUS
<1>2. b \in Seq(Msgs) /\ b # <<>> /\ Len(b) <= FetchBatch /\ FetchBatch \in Nat
  BY <1>1, TaskOf
<1>3. Tail(b) \in Seq(Msgs) /\ Len(Tail(b)) <= FetchBatch
  BY <1>2
<1>4. PICK p : p = At(Tail(b))
  OBVIOUS
<1>5. p \in Task /\ Proper(p) /\ Tells(p) /\ (kind = "qi" => p.pc # "work")
  BY <1>3, <1>4, AtTells
<1>6. task' = [task EXCEPT ![r] = p]
  BY <1>1, <1>4 DEF NextMessage
<1> QED BY <1>5, <1>6

Quiet(r) ==
  \/ Subscribe(r) \/ Fetch(r) \/ Stop(r) \/ Settle(r) \/ SettleLost(r) \/ AnswerRaises(r)
  \/ Nak(r) \/ Dedup(r) \/ RaisesEarly(r) \/ WorkRefused(r) \/ Crash(r)

\* The steps without an effect: where they leave the task.
LEMMA QuietTells ==
  ASSUME Shapes, TasksTell, NEW r \in Replicas, Quiet(r)
  PROVE  \E p \in Task :
           /\ Proper(p) /\ (Tells(p) \/ Tells(p)') /\ task' = [task EXCEPT ![r] = p]
           /\ kind = "qi" /\ p.pc = "work" =>
                written[Current(r)] = 0 /\ Head(p.batch) = Current(r)
<1>1. PICK o \in Task : o = task[r] /\ Proper(o) /\ Tells(o)
  BY TaskOf
<1>2. ASSUME NEW pc \in Idling \cup Busy, Go(r, pc), o.pc \in Idling <=> pc \in Idling
      PROVE  \E p \in Task :
               /\ Proper(p) /\ p.pc = pc /\ p.batch = o.batch /\ task' = [task EXCEPT ![r] = p]
  <2>1. task' = [task EXCEPT ![r] = [o EXCEPT !.pc = pc]]
    BY <1>1, <1>2 DEF Go
  <2>2. PICK p : p = [o EXCEPT !.pc = pc]
    OBVIOUS
  <2>3. p \in Task /\ Proper(p) /\ p.pc = pc /\ p.batch = o.batch
    BY <1>1, <1>2, <2>2, Repc
  <2> QED BY <2>1, <2>2, <2>3
<1>3. CASE Subscribe(r) \/ Stop(r)
  <2>1. PICK pc \in {"fetch", "dead", "stopped"} : Go(r, pc)
    BY <1>3 DEF Subscribe, Stop, Go
  <2>2. o.pc \in Idling /\ pc \in Idling
    BY <1>1, <1>3, <2>1 DEF Subscribe, Stop, Idling
  <2>3. PICK p \in Task :
          Proper(p) /\ p.pc = pc /\ p.batch = o.batch /\ task' = [task EXCEPT ![r] = p]
    BY <1>2, <2>1, <2>2
  <2> QED BY <2>1, <2>3 DEF Tells, Acking
<1>4. CASE Fetch(r)
  <2>1. PICK batch \in BoundedSeq({m \in Msgs : msg[m].state = "ready"}, FetchBatch) :
          task' = [task EXCEPT ![r] = At(batch)]
    BY <1>4 DEF Fetch
  <2>2. batch \in Seq({m \in Msgs : msg[m].state = "ready"}) /\ Len(batch) <= FetchBatch
    BY <2>1, TaskOf, BatchIs
  <2>3. batch \in Seq(Msgs)
    BY <2>2
  <2> QED BY <2>1, <2>2, <2>3, AtTells
<1>5. CASE Settle(r) \/ SettleLost(r) \/ Nak(r)
  <2>1. task[r].pc \in Busy /\ NextMessage(r)
    BY <1>5 DEF Settle, SettleLost, Nak, Busy, Acking
  <2> QED BY <2>1, NextTells
<1>6. CASE AnswerRaises(r) \/ Crash(r)
  <2>1. o.pc \in Busy \cup {"fetch"}
    BY <1>1, <1>6, TaskOf DEF AnswerRaises, Crash, Busy, Idling, Acking
  <2>2. CASE /\ task[r].pc = "try ack"
             /\ task' = [task EXCEPT ![r] = [task[r] EXCEPT !.pc = "nak"]]
    <3>1. PICK p : p = [o EXCEPT !.pc = "nak"]
      OBVIOUS
    <3>2. p \in Task /\ Proper(p) /\ p.pc = "nak" /\ p.batch = o.batch
      BY <1>1, <2>2, <3>1, Repc DEF Idling, Busy
    <3> QED BY <1>1, <2>2, <3>1, <3>2 DEF Tells, Acking
  <2>3. CASE \E pc \in {"dead", "start"} :
               task' = [task EXCEPT ![r] = [pc |-> pc, batch |-> <<>>]]
    <3>1. PICK pc \in {"dead", "start"} :
            task' = [task EXCEPT ![r] = [pc |-> pc, batch |-> <<>>]]
      BY <2>3
    <3>2. PICK p : p = [pc |-> pc, batch |-> <<>>]
      OBVIOUS
    <3>3. p \in Task /\ p.pc = pc /\ p.batch = <<>>
      <4>1. pc \in Pcs
        BY DEF Pcs
      <4>2. <<>> \in Seq(Msgs)
        OBVIOUS
      <4> QED BY <3>2, <4>1, <4>2 DEF Task
    <3>4. Len(<<>>) = 0 /\ 0 <= FetchBatch
      BY TaskOf
    <3> QED BY <3>1, <3>2, <3>3, <3>4 DEF Tells, Proper, Acking
  <2> QED BY <1>6, <2>2, <2>3 DEF AnswerRaises, Crash
<1>7. CASE Dedup(r)
  <2>1. o.pc = "dedup" /\ kind = "qi" /\ Deserving(Current(r)) /\ Current(r) = Head(o.batch)
    BY <1>1, <1>7 DEF Dedup, Tells, Current
  <2>2. PICK n : n = written[Current(r)]
    OBVIOUS
  <2>3. PICK pc \in {"try ack", "work"} : Go(r, pc) /\ (pc = "try ack" <=> n > 0)
    BY <1>7, <2>2 DEF Dedup
  <2>4. PICK p \in Task :
          Proper(p) /\ p.pc = pc /\ p.batch = o.batch /\ task' = [task EXCEPT ![r] = p]
    BY <1>2, <2>1, <2>3 DEF Idling, Busy, Acking
  <2>5. n \in Nat
    BY <1>1, <2>1, <2>2, TaskOf DEF Shapes, Busy
  <2>6. pc = "try ack" => Handled(Current(r))
    BY <2>1, <2>2, <2>3 DEF Handled
  <2>7. pc = "work" => n = 0
    BY <2>3, <2>5
  <2>8. Tells(p)
    BY <2>1, <2>3, <2>4, <2>6 DEF Tells, Acking
  <2> QED BY <2>1, <2>2, <2>4, <2>7, <2>8
<1>8. CASE RaisesEarly(r)
  <2>1. o.pc \in {"dedup", "work"} /\ Go(r, "nak")
    BY <1>1, <1>8 DEF RaisesEarly
  <2>2. PICK p \in Task :
          Proper(p) /\ p.pc = "nak" /\ p.batch = o.batch /\ task' = [task EXCEPT ![r] = p]
    BY <1>2, <2>1 DEF Idling, Busy
  <2> QED BY <1>1, <2>1, <2>2 DEF Tells, Acking
<1>9. CASE WorkRefused(r)
  <2>1. kind' = "qi" /\ o.pc = "work" /\ Go(r, "term") /\ failures' > 0
    <3>1. failures \in 0..MaxFailures /\ MaxFailures \in Nat
      BY ConsumerAssumption DEF Shapes
    <3> QED BY <1>1, <1>9, <3>1 DEF WorkRefused, Fault
  <2>2. PICK p \in Task :
          Proper(p) /\ p.pc = "term" /\ p.batch = o.batch /\ task' = [task EXCEPT ![r] = p]
    BY <1>2, <2>1 DEF Idling, Busy
  <2>3. Tells(p)'
    BY <2>1, <2>2 DEF Tells, Terminable, Acking
  <2> QED BY <2>2, <2>3
<1> QED BY <1>3, <1>4, <1>5, <1>6, <1>7, <1>8, <1>9 DEF Quiet

-----------------------------------------------------------------------------
(* The steps with an effect *)

\* What a handler adds for the message m it works on.
Adds(r, m) ==
  /\ m = Current(r) /\ Deserving(m)
  /\ written' \in {written, [written EXCEPT ![m] = @ + 1]}
  /\ downtime' \in {downtime, downtime \cup {m}}
  /\ \E tier \in Tiers : asked' \in {asked, asked \cup {<<m, tier>>}}
  /\ failures' = failures \/ Fault
  /\ kind = "da" /\ written' # written => m \in downtime'
  /\ downtime' # downtime => kind = "da"
  /\ kind = "qi" /\ written' # written => task[r].pc = "work"

LEMMA AddsGrows ==
  ASSUME Shapes, NEW r \in Replicas, NEW m \in Msgs, Adds(r, m), UNCHANGED <<kind, body>>
  PROVE  /\ TrailGrows /\ written' \in [Msgs -> Nat] /\ failures' \in 0..MaxFailures /\ failures' \in Nat
         /\ downtime' \subseteq Msgs /\ asked' \subseteq Msgs \X Tiers
<1>1. written \in [Msgs -> Nat] /\ downtime \subseteq Msgs /\ asked \subseteq Msgs \X Tiers
  BY DEF Shapes
<1>2. failures \in 0..MaxFailures /\ MaxFailures \in Nat
  BY ConsumerAssumption DEF Shapes
<1>3. failures' \in 0..MaxFailures /\ failures' \in Nat /\ failures <= failures'
  BY <1>2 DEF Adds, Fault
<1>4. written' \in [Msgs -> Nat] /\ \A x \in Msgs : written[x] <= written'[x]
  BY <1>1 DEF Adds
<1> QED BY <1>1, <1>3, <1>4 DEF Adds, TrailGrows

LEMMA WorkTells ==
  ASSUME Shapes, TasksTell, NEW r \in Replicas, Work(r) \/ AuditDowntime(r)
  PROVE  /\ UNCHANGED <<kind, body, broker, msg, expiries>>
         /\ \E m \in Msgs, p \in Task :
              /\ Adds(r, m) /\ Proper(p) /\ Tells(p)' /\ task' = [task EXCEPT ![r] = p]
              /\ p.pc \in {"ack", "try ack", "nak", "audit"}
<1>1. PICK o \in Task : o = task[r] /\ Proper(o) /\ Tells(o)
  BY TaskOf
<1>2. PICK m : m = Current(r) /\ m = Head(o.batch)
  BY <1>1 DEF Current
<1>3. o.pc \in {"work", "audit"}
  BY <1>1 DEF Work, AuditDowntime
<1>4. m \in Msgs /\ Deserving(m)
  BY <1>1, <1>2, <1>3, TaskOf DEF Busy, Tells
<1>5. written[m] \in Nat
  BY <1>4 DEF Shapes
<1>6. UNCHANGED <<kind, body, broker, msg, expiries>>
  BY DEF Work, AuditDowntime
<1>7. /\ failures \in Nat
      /\ Fault => failures' # 0
  <2>1. failures \in 0..MaxFailures /\ MaxFailures \in Nat
    BY ConsumerAssumption DEF Shapes
  <2> QED BY <2>1 DEF Fault
<1>8. ASSUME NEW pc \in {"ack", "try ack", "nak", "audit"}, Go(r, pc), Adds(r, m),
             pc = "audit" => kind = "da" /\ m \in downtime',
             pc \in {"ack", "try ack"} => Handled(m)' /\ (kind = "da" /\ failures' = 0 => written'[m] > 0)
      PROVE  \E p \in Task :
               /\ Proper(p) /\ Tells(p)' /\ task' = [task EXCEPT ![r] = p]
               /\ p.pc \in {"ack", "try ack", "nak", "audit"}
  <2>1. PICK p : p = [o EXCEPT !.pc = pc]
    OBVIOUS
  <2>2. p \in Task /\ Proper(p) /\ p.pc = pc /\ p.batch = o.batch
    BY <1>1, <1>3, <1>8, <2>1, Repc DEF Idling, Busy
  <2>3. task' = [task EXCEPT ![r] = p]
    BY <1>1, <1>8, <2>1 DEF Go
  <2>4. Deserving(m)'
    BY <1>4, <1>6 DEF Deserving, Refused
  <2>5. Tells(p)'
    BY <1>2, <1>6, <1>8, <2>2, <2>4 DEF Tells, Acking
  <2> QED BY <1>8, <2>2, <2>3, <2>5
<1>9. CASE AuditDowntime(r)
  <2>1. o.pc = "audit" /\ kind = "da" /\ m \in downtime
    BY <1>1, <1>2, <1>9 DEF AuditDowntime, Tells
  <2>2. UNCHANGED <<downtime, asked>> /\ Go(r, Ack) /\ Ack \in {"ack", "try ack"}
    BY <1>9 DEF AuditDowntime, Ack, Acking
  <2>3. \/ written' = [written EXCEPT ![m] = @ + 1] /\ failures' = failures
        \/ Fault /\ written' \in {written, [written EXCEPT ![m] = @ + 1]}
    BY <1>2, <1>9 DEF AuditDowntime
  <2>4. Adds(r, m)
    BY <1>2, <1>4, <2>1, <2>2, <2>3 DEF Adds, Tiers
  <2>5. Handled(m)'
    BY <1>6, <2>1, <2>2 DEF Handled
  <2>6. failures' = 0 => written'[m] > 0
    <3>1. written \in [Msgs -> Nat]
      BY DEF Shapes
    <3> QED BY <1>4, <1>5, <1>7, <2>3, <3>1
  <2> QED BY <1>4, <1>6, <1>8, <2>2, <2>4, <2>5, <2>6
<1>10. CASE Work(r)
  <2>1. o.pc = "work"
    BY <1>1, <1>10 DEF Work
  <2>2. PICK pc \in {"ack", "try ack", "nak", "audit"} :
          /\ Go(r, pc) /\ Adds(r, m)
          /\ pc = "audit" => kind = "da" /\ m \in downtime'
          /\ pc \in {"ack", "try ack"} => Handled(m)' /\ kind # "da"
    <3>1. written' = [written EXCEPT ![m] = @ + 1] => written'[m] > 0
      <4>1. written \in [Msgs -> Nat]
        BY DEF Shapes
      <4> QED BY <1>4, <1>5, <4>1
    <3>2. CASE kind = "qi" /\ Inspect(r)
      <4>1. PICK defect \in Tiers, severity \in Tiers :
              LET tier == TierOf(defect, severity) IN
                \/ tier = "auto-log" /\ WriteRow(r) /\ UNCHANGED <<downtime, asked>>
                \/ /\ tier # "auto-log"
                   /\ asked' = asked \cup {<<Current(r), tier>>}
                   /\ \E pc \in {Ack, "nak"} : Go(r, pc)
                   /\ UNCHANGED <<written, downtime, failures>>
        BY <3>2 DEF Inspect
      <4>2. PICK tier \in Tiers : tier = TierOf(defect, severity)
        BY <4>1 DEF TierOf
      <4>3. CASE WriteRow(r) /\ UNCHANGED <<downtime, asked>>
        <5>1. PICK pc \in {"ack", "try ack", "nak"} : Go(r, pc)
          BY <4>3 DEF WriteRow, Ack, Acking
        <5>2. Handled(m)'
          BY <1>2, <1>6, <3>1, <3>2, <4>3 DEF Handled, WriteRow
        <5>3. Adds(r, m)
          BY <1>1, <1>2, <1>4, <2>1, <3>2, <4>3 DEF Adds, WriteRow, Tiers
        <5> QED BY <3>2, <5>1, <5>2, <5>3
      <4>4. CASE /\ asked' = asked \cup {<<m, tier>>}
                 /\ \E pc \in {Ack, "nak"} : Go(r, pc)
                 /\ UNCHANGED <<written, downtime, failures>>
        <5>1. PICK pc \in {"ack", "try ack", "nak"} : Go(r, pc)
          BY <4>4 DEF Ack, Acking
        <5>2. <<m, tier>> \in asked'
          BY <4>4
        <5>3. Handled(m)'
          BY <1>6, <3>2, <4>2, <5>2 DEF Handled
        <5>4. Adds(r, m)
          BY <1>2, <1>4, <3>2, <4>2, <4>4 DEF Adds
        <5> QED BY <3>2, <5>1, <5>3, <5>4
      <4> QED BY <1>2, <4>1, <4>2, <4>3, <4>4
    <3>3. CASE kind = "da" /\ InsertDowntime(r)
      <4>1. PICK pc \in {"audit", "nak"} : Go(r, pc)
        BY <3>3 DEF InsertDowntime
      <4>2. Adds(r, m) /\ m \in downtime'
        BY <1>2, <1>4, <3>3 DEF InsertDowntime, Adds, Tiers
      <4> QED BY <3>3, <4>1, <4>2 DEF Acking
    <3>4. CASE kind = "pm" /\ Predict(r)
      <4>1. PICK pc \in {"ack", "try ack", "nak"} : Go(r, pc)
        BY <3>4 DEF Predict, WriteRow, Ack, Acking
      <4>2. Adds(r, m)
        BY <1>2, <1>4, <3>4 DEF Predict, WriteRow, Adds, Tiers
      <4>3. Handled(m)'
        BY <1>6, <3>4 DEF Handled
      <4> QED BY <3>4, <4>1, <4>2, <4>3
    <3>5. CASE kind = "sh" /\ StartHandover(r)
      <4>1. PICK pc \in {"ack", "try ack", "nak"} : Go(r, pc)
        BY <3>5 DEF StartHandover, WriteRow, Ack, Acking
      <4>2. Adds(r, m)
        BY <1>2, <1>4, <3>5 DEF StartHandover, WriteRow, Adds, Tiers
      <4>3. Handled(m)'
        BY <1>2, <1>6, <3>1, <3>5 DEF Handled, StartHandover, WriteRow
      <4> QED BY <3>5, <4>1, <4>2, <4>3
    <3> QED BY <1>10, <3>2, <3>3, <3>4, <3>5 DEF Work
  <2> QED BY <1>4, <1>6, <1>8, <2>2
<1> QED BY <1>9, <1>10

-----------------------------------------------------------------------------
(* The broker *)

Message == [state : {"unsent", "ready", "out", "given up"} \cup Gone, n : 0..MaxDeliver]

\* The answers that leave a message in state st.
Answers(st) == IF st = "done" THEN {"ack", "try ack"} ELSE {"term"}

\* Whoever finds m gone in x finds it gone already, or its holder about to settle it.
Follows(m, x) ==
  \A st \in Gone : x.state = st =>
    \/ msg[m].state = st
    \/ \E r \in Replicas : task[r].pc \in Answers(st) /\ m = Current(r)

LEMMA ReturnedIs ==
  ASSUME Shapes, NEW m \in Msgs
  PROVE  /\ Returned(m) \in Message
         /\ \A st \in Gone : Returned(m).state = st => msg[m].state = st
<1>1. PICK x \in Message : x = msg[m]
  BY DEF Shapes, Message
<1>2. PICK s \in {"given up", "ready"} :
        Returned(m) = IF x.state # "out" THEN x ELSE [x EXCEPT !.state = s]
  BY <1>1 DEF Returned
<1> QED BY <1>1, <1>2 DEF Message, Gone

\* A message is only acknowledged or terminated by a replica that has it.
LEMMA MessagesMove ==
  ASSUME Shapes, TasksTell, ConsumersNext
  PROVE  /\ msg' \in [Msgs -> Message]
         /\ \A m \in Msgs : \A st \in Gone : msg'[m].state = st =>
              \/ msg[m].state = st
              \/ \E r \in Replicas : task[r].pc \in Answers(st) /\ m = Current(r)
<1>1. msg \in [Msgs -> Message]
  BY DEF Shapes, Message
<1>2. CASE UNCHANGED msg
  BY <1>1, <1>2
<1>3. ASSUME NEW m \in Msgs, NEW x \in Message, msg' = [msg EXCEPT ![m] = x], Follows(m, x)
      PROVE  /\ msg' \in [Msgs -> Message]
             /\ \A y \in Msgs : \A st \in Gone : msg'[y].state = st =>
                  \/ msg[y].state = st
                  \/ \E r \in Replicas : task[r].pc \in Answers(st) /\ y = Current(r)
  <2>1. msg' \in [Msgs -> Message]
    BY <1>1, <1>3
  <2>2. ASSUME NEW y \in Msgs, NEW st \in Gone, msg'[y].state = st
        PROVE  \/ msg[y].state = st
               \/ \E r \in Replicas : task[r].pc \in Answers(st) /\ y = Current(r)
    <3>1. CASE y = m
      BY <1>1, <1>3, <2>2, <3>1 DEF Follows
    <3>2. CASE y # m
      BY <1>1, <1>3, <2>2, <3>2
    <3> QED BY <3>1, <3>2
  <2> QED BY <2>1, <2>2
<1>4. ASSUME NEW m \in Msgs, Publish(m)
      PROVE  \E x \in Message : msg' = [msg EXCEPT ![m] = x] /\ x.state = "ready"
  <2>1. PICK x : x = [msg[m] EXCEPT !.state = "ready"]
    OBVIOUS
  <2>2. x \in Message /\ x.state = "ready"
    BY <1>1, <2>1 DEF Message
  <2>3. msg' = [msg EXCEPT ![m] = x]
    BY <1>4, <2>1 DEF Publish
  <2> QED BY <2>2, <2>3
<1>5. ASSUME NEW m \in Msgs, AckWaitExpires(m) \/ AckWaitEnds(m)
      PROVE  msg' = [msg EXCEPT ![m] = Returned(m)]
  BY <1>5 DEF AckWaitExpires, AckWaitEnds
<1>6. ASSUME NEW r \in Replicas, Nak(r)
      PROVE  msg' = [msg EXCEPT ![Current(r)] = Returned(Current(r))] /\ Current(r) \in Msgs
  BY <1>6, TaskOf DEF Nak, Busy
<1>7. ASSUME NEW r \in Replicas, Settle(r)
      PROVE  \E x \in Message : \E m \in Msgs :
               /\ msg' = [msg EXCEPT ![m] = x] /\ m = Current(r)
               /\ \A st \in Gone : x.state = st => msg[m].state = st \/ task[r].pc \in Answers(st)
  <2>1. PICK m \in Msgs : m = Current(r)
    BY <1>7, TaskOf DEF Settle, Busy, Acking
  <2>2. PICK y \in Message : y = msg[m]
    BY <1>1
  <2>3. PICK st : st = IF y.state \in Gone THEN y.state
                       ELSE IF task[r].pc = "term" THEN "terminated" ELSE "done"
    OBVIOUS
  <2>4. PICK x : x = [y EXCEPT !.state = st]
    OBVIOUS
  <2>5. st \in Gone /\ x \in Message /\ x.state = st
    BY <2>2, <2>3, <2>4 DEF Message, Gone
  <2>6. msg' = [msg EXCEPT ![m] = x]
    BY <1>1, <1>7, <2>1, <2>2, <2>3, <2>4 DEF Settle
  <2>7. y.state = st \/ task[r].pc \in Answers(st)
    BY <1>7, <2>3 DEF Settle, Answers, Gone, Acking
  <2> QED BY <2>1, <2>2, <2>5, <2>6, <2>7
<1>8. ASSUME NEW r \in Replicas, Fetch(r)
      PROVE  /\ msg' \in [Msgs -> Message]
             /\ \A m \in Msgs : \A st \in Gone : msg'[m].state = st => msg[m].state = st
  <2>1. PICK batch :
          msg' = [m \in Msgs |-> IF m \notin ToSet(batch) THEN msg[m]
                    ELSE [state |-> "out", n |-> IF msg[m].n < MaxDeliver THEN msg[m].n + 1
                                                 ELSE MaxDeliver]]
    BY <1>8 DEF Fetch
  <2>2. MaxDeliver \in Nat
    BY ConsumerAssumption DEF Shapes
  <2>3. ASSUME NEW m \in Msgs
        PROVE  msg'[m] \in Message /\ \A st \in Gone : msg'[m].state = st => msg[m].state = st
    <3>1. PICK k \in 0..MaxDeliver : k = msg[m].n
      BY <1>1 DEF Message
    <3>2. PICK n \in 0..MaxDeliver : n = IF k < MaxDeliver THEN k + 1 ELSE MaxDeliver
      BY <2>2
    <3>3. msg'[m] = IF m \notin ToSet(batch) THEN msg[m] ELSE [state |-> "out", n |-> n]
      BY <2>1, <3>1, <3>2
    <3>4. CASE m \notin ToSet(batch)
      BY <1>1, <3>3, <3>4
    <3>5. CASE m \in ToSet(batch)
      BY <3>3, <3>5 DEF Message, Gone
    <3> QED BY <3>4, <3>5
  <2> QED BY <2>1, <2>3
<1>9. CASE \E m \in Msgs : Publish(m) \/ AckWaitExpires(m) \/ AckWaitEnds(m)
  <2>1. PICK m \in Msgs : Publish(m) \/ AckWaitExpires(m) \/ AckWaitEnds(m)
    BY <1>9
  <2>2. PICK x \in Message : /\ msg' = [msg EXCEPT ![m] = x]
                             /\ \A st \in Gone : x.state = st => msg[m].state = st
    BY <1>4, <1>5, <2>1, ReturnedIs DEF Gone
  <2>3. Follows(m, x)
    BY <2>2 DEF Follows
  <2> QED BY <1>3, <2>2, <2>3
<1>10. ASSUME NEW r \in Replicas, Nak(r)
       PROVE  \E m \in Msgs, x \in Message :
                msg' = [msg EXCEPT ![m] = x] /\ \A st \in Gone : x.state = st => msg[m].state = st
  BY <1>6, <1>10, ReturnedIs
<1>11. CASE \E r \in Replicas : Settle(r) \/ Nak(r) \/ Fetch(r)
  <2>1. PICK r \in Replicas : Settle(r) \/ Nak(r) \/ Fetch(r)
    BY <1>11
  <2>2. CASE Nak(r)
    <3>1. PICK m \in Msgs, x \in Message :
            msg' = [msg EXCEPT ![m] = x] /\ \A st \in Gone : x.state = st => msg[m].state = st
      BY <1>10, <2>2
    <3>2. Follows(m, x)
      BY <3>1 DEF Follows
    <3> QED BY <1>3, <3>1, <3>2
  <2>3. CASE Settle(r)
    <3>1. PICK m \in Msgs, x \in Message :
            /\ msg' = [msg EXCEPT ![m] = x] /\ m = Current(r)
            /\ \A st \in Gone : x.state = st => msg[m].state = st \/ task[r].pc \in Answers(st)
      BY <1>7, <2>3
    <3>2. Follows(m, x)
      BY <3>1 DEF Follows
    <3> QED BY <1>3, <3>1, <3>2
  <2> QED BY <1>8, <2>1, <2>2, <2>3
<1>12. CASE \/ BootstrapStreams \/ BootstrapConsumer \/ OtherConsumer
            \/ \E r \in Replicas :
                 \/ Subscribe(r) \/ SettleLost(r) \/ AnswerRaises(r) \/ Dedup(r) \/ RaisesEarly(r)
                 \/ WorkRefused(r)
                 \/ Work(r) \/ AuditDowntime(r) \/ Stop(r) \/ Crash(r)
  <2>1. UNCHANGED msg
    BY <1>12 DEF BootstrapStreams, BootstrapConsumer, OtherConsumer, Subscribe, SettleLost,
                 AnswerRaises, Dedup, RaisesEarly, WorkRefused, Work, AuditDowntime, Stop, Crash
  <2> QED BY <1>2, <2>1
<1> QED BY <1>9, <1>11, <1>12 DEF ConsumersNext, Loop

-----------------------------------------------------------------------------
(* The invariant is kept *)

BrokerStep ==
  \/ BootstrapStreams \/ BootstrapConsumer \/ OtherConsumer
  \/ \E m \in Msgs : Publish(m) \/ AckWaitExpires(m) \/ AckWaitEnds(m)

LEMMA StepsAre ==
  ASSUME ConsumersNext
  PROVE  \/ BrokerStep
         \/ \E r \in Replicas : Quiet(r)
         \/ \E r \in Replicas : Work(r) \/ AuditDowntime(r)
BY DEF ConsumersNext, Loop, Quiet, BrokerStep

LEMMA BrokerLeaves ==
  ASSUME BrokerStep
  PROVE  UNCHANGED <<kind, body, task, written, downtime, asked, failures>>
BY DEF BrokerStep, BootstrapStreams, BootstrapConsumer, OtherConsumer, Publish, AckWaitExpires,
       AckWaitEnds, effects

LEMMA QuietLeaves ==
  ASSUME NEW r \in Replicas, Quiet(r)
  PROVE  UNCHANGED <<kind, body, written, downtime, asked, expiries>> /\ (failures' = failures \/ Fault)
BY DEF Quiet, Subscribe, Fetch, Stop, Settle, SettleLost, AnswerRaises, Nak, Dedup, RaisesEarly, WorkRefused,
       Crash, effects

\* Every step keeps the effects there are.
LEMMA StepGrows ==
  ASSUME Shapes, TasksTell, ConsumersNext
  PROVE  /\ TrailGrows /\ written' \in [Msgs -> Nat] /\ failures' \in 0..MaxFailures /\ failures' \in Nat
         /\ downtime' \subseteq Msgs /\ asked' \subseteq Msgs \X Tiers
<1>1. failures \in 0..MaxFailures /\ MaxFailures \in Nat
  BY ConsumerAssumption DEF Shapes
<1>2. written \in [Msgs -> Nat] /\ downtime \subseteq Msgs /\ asked \subseteq Msgs \X Tiers
  BY DEF Shapes
<1>3. CASE /\ UNCHANGED <<kind, body, written, downtime, asked>>
           /\ failures' = failures \/ Fault
  <2>1. \A m \in Msgs : written[m] \in Nat /\ written'[m] = written[m]
    BY <1>2, <1>3
  <2> QED BY <1>1, <1>2, <1>3, <2>1 DEF TrailGrows, Fault
<1>4. ASSUME NEW r \in Replicas, Work(r) \/ AuditDowntime(r)
      PROVE  /\ TrailGrows /\ written' \in [Msgs -> Nat] /\ failures' \in 0..MaxFailures /\ failures' \in Nat
             /\ downtime' \subseteq Msgs /\ asked' \subseteq Msgs \X Tiers
  <2>1. UNCHANGED <<kind, body>> /\ \E m \in Msgs : Adds(r, m)
    BY <1>4, WorkTells
  <2> QED BY <2>1, AddsGrows
<1> QED BY <1>3, <1>4, StepsAre, BrokerLeaves, QuietLeaves

LEMMA ShapesStep ==
  ASSUME Shapes, TasksTell, ConsumersNext
  PROVE  Shapes'
<1>1. /\ written' \in [Msgs -> Nat] /\ failures' \in 0..MaxFailures
      /\ downtime' \subseteq Msgs /\ asked' \subseteq Msgs \X Tiers /\ UNCHANGED <<kind, body>>
  BY StepGrows DEF TrailGrows
<1>2. msg' \in [Msgs -> Message]
  BY MessagesMove
<1>3. streams' \subseteq {StreamOf(k) : k \in Kinds}
  <2>1. streams \subseteq {StreamOf(k) : k \in Kinds}
    BY DEF Shapes
  <2>2. {"QUALITY_STREAM", "MAINTENANCE_STREAM"} \subseteq {StreamOf(k) : k \in Kinds}
    BY DEF StreamOf, Kinds
  <2>3. streams' \subseteq streams \cup {"QUALITY_STREAM", "MAINTENANCE_STREAM"}
    BY WorkTells DEF ConsumersNext, Loop, BootstrapStreams, BootstrapConsumer, OtherConsumer, Publish,
       AckWaitExpires, AckWaitEnds, Subscribe, Fetch, Stop, Settle, SettleLost, AnswerRaises, Nak,
       Dedup, RaisesEarly, WorkRefused, Crash, broker
  <2> QED BY <2>1, <2>2, <2>3
<1>4. limit' \in {"none", "limited", "unlimited"}
  <2>1. limit \in {"none", "limited", "unlimited"}
    BY DEF Shapes
  <2> QED BY <2>1, WorkTells DEF ConsumersNext, Loop, BootstrapStreams, BootstrapConsumer, OtherConsumer,
       Publish, AckWaitExpires, AckWaitEnds, Subscribe, Fetch, Stop, Settle, SettleLost,
       AnswerRaises, Nak, Dedup, RaisesEarly, WorkRefused, Crash, broker
<1>5. expiries' \in 0..MaxExpiries
  <2>1. expiries \in 0..MaxExpiries /\ MaxExpiries \in Nat
    BY ConsumerAssumption DEF Shapes
  <2>2. expiries' = expiries \/ (expiries < MaxExpiries /\ expiries' = expiries + 1)
    BY WorkTells, QuietLeaves, StepsAre DEF BrokerStep, BootstrapStreams, BootstrapConsumer,
       OtherConsumer, Publish, AckWaitExpires, AckWaitEnds
  <2> QED BY <2>1, <2>2
<1> QED BY <1>1, <1>2, <1>3, <1>4, <1>5 DEF Shapes, Message

LEMMA TasksStep ==
  ASSUME Shapes, TasksTell, ConsumersNext
  PROVE  TasksTell'
<1>1. TrailGrows /\ written' \in [Msgs -> Nat] /\ failures' \in Nat
  BY StepGrows
<1>2. CASE BrokerStep
  <2>1. UNCHANGED <<kind, body, task, written, downtime, asked, failures>>
    BY <1>2, BrokerLeaves
  <2> QED BY <2>1 DEF TasksTell, Tells, Terminable, Deserving, Refused, Handled
<1>3. ASSUME NEW r \in Replicas, Quiet(r)
      PROVE  TasksTell'
  <2>1. PICK p \in Task :
          Proper(p) /\ (Tells(p) \/ Tells(p)') /\ task' = [task EXCEPT ![r] = p]
    BY <1>3, QuietTells
  <2>2. Tells(p)'
    BY <1>1, <2>1, StillTells
  <2> QED BY <1>1, <2>1, <2>2, TaskMoves
<1>4. ASSUME NEW r \in Replicas, Work(r) \/ AuditDowntime(r)
      PROVE  TasksTell'
  <2>1. PICK p \in Task : Proper(p) /\ Tells(p)' /\ task' = [task EXCEPT ![r] = p]
    BY <1>4, WorkTells
  <2> QED BY <1>1, <2>1, TaskMoves
<1> QED BY <1>2, <1>3, <1>4, StepsAre

LEMMA MessagesStep ==
  ASSUME Shapes, TasksTell, MessagesTell, ConsumersNext
  PROVE  MessagesTell'
<1>1. /\ TrailGrows /\ written' \in [Msgs -> Nat] /\ failures' \in Nat
  BY StepGrows
<1> SUFFICES ASSUME NEW x \in Msgs
             PROVE  MessageTells(x)'
  BY DEF MessagesTell
<1>2. MessageTells(x) /\ written[x] \in Nat
  BY DEF MessagesTell, Shapes
<1>3. /\ Handled(x) => Handled(x)'
      /\ Deserving(x)' <=> Deserving(x)
      /\ Terminable(x) => Terminable(x)'
      /\ kind' = "da" /\ failures' = 0 => kind = "da" /\ failures = 0
      /\ written[x] > 0 => written'[x] > 0
  BY <1>1, HandledStays
<1>4. msg'[x].state = "done" /\ Deserving(x)' =>
        /\ Handled(x)'
        /\ kind' = "da" /\ failures' = 0 => written'[x] > 0
  <2> SUFFICES ASSUME msg'[x].state = "done", Deserving(x)
               PROVE  /\ Handled(x)'
                      /\ kind' = "da" /\ failures' = 0 => written'[x] > 0
    BY <1>3
  <2>1. CASE msg[x].state = "done"
    BY <1>2, <1>3, <2>1 DEF MessageTells
  <2>2. ASSUME NEW r \in Replicas, task[r].pc \in {"ack", "try ack"}, x = Current(r)
        PROVE  /\ Handled(x)'
               /\ kind' = "da" /\ failures' = 0 => written'[x] > 0
    <3>1. Handled(x) /\ (kind = "da" /\ failures = 0 => written[x] > 0)
      BY <2>2, TaskOf DEF Tells, Current
    <3> QED BY <1>3, <3>1
  <2> QED BY <2>1, <2>2, MessagesMove DEF Gone, Answers
<1>7. msg'[x].state = "terminated" => Terminable(x)'
  <2>1. CASE msg[x].state = "terminated"
    BY <1>2, <1>3, <2>1 DEF MessageTells
  <2>2. ASSUME NEW r \in Replicas, task[r].pc = "term", x = Current(r)
        PROVE  Terminable(x)'
    BY <1>3, <2>2, TaskOf DEF Tells, Current
  <2> QED BY <2>1, <2>2, MessagesMove DEF Gone, Answers
<1>5. CASE UNCHANGED <<written, downtime>>
  BY <1>1, <1>2, <1>3, <1>4, <1>5, <1>7 DEF MessageTells, TrailGrows
<1>6. ASSUME NEW r \in Replicas, NEW m \in Msgs, Adds(r, m)
      PROVE  MessageTells(x)'
  <2>1. CASE x = m
    <3>1. Deserving(x)'
      BY <1>3, <1>6, <2>1 DEF Adds
    <3>2. kind' = "da" /\ written'[x] > 0 => x \in downtime'
      BY <1>1, <1>2, <1>6, <2>1 DEF Adds, TrailGrows, MessageTells
    <3> QED BY <1>4, <1>7, <3>1, <3>2 DEF MessageTells
  <2>2. CASE x # m
    <3>1. written'[x] = written[x]
      <4>1. written \in [Msgs -> Nat]
        BY DEF Shapes
      <4> QED BY <1>6, <2>2, <4>1 DEF Adds
    <3>2. x \in downtime' <=> x \in downtime
      BY <1>6, <2>2 DEF Adds
    <3> QED BY <1>1, <1>2, <1>3, <1>4, <1>7, <3>1, <3>2 DEF MessageTells, TrailGrows
  <2> QED BY <2>1, <2>2
<1> QED BY <1>5, <1>6, StepsAre, BrokerLeaves, QuietLeaves, WorkTells

-----------------------------------------------------------------------------
(* The rows of a quality event *)

LEMMA WorkersCount ==
  ASSUME Shapes, NEW m
  PROVE  /\ IsFiniteSet(Workers(m)) /\ Cardinality(Workers(m)) \in Nat
         /\ Cardinality(Workers(m)) <= Cardinality(Replicas) /\ Cardinality(Replicas) \in Nat
<1>1. IsFiniteSet(Replicas)
  BY ConsumerAssumption DEF Shapes
<1>2. Workers(m) \subseteq Replicas
  BY DEF Workers
<1> QED BY <1>1, <1>2, FS_Subset, FS_CardinalityType

LEMMA FewRowsStep ==
  ASSUME Shapes, TasksTell, FewRows, ConsumersNext
  PROVE  FewRows'
<1> SUFFICES ASSUME kind = "qi", NEW m \in Msgs
             PROVE  (written[m] = 0 \/ written[m] + Cardinality(Workers(m)) <= Cardinality(Replicas))'
  <2>1. kind' = kind
    BY StepGrows DEF TrailGrows
  <2> QED BY <2>1 DEF FewRows
<1>1. written[m] = 0 \/ written[m] + Cardinality(Workers(m)) <= Cardinality(Replicas)
  BY DEF FewRows
<1>2. written \in [Msgs -> Nat] /\ written[m] \in Nat
  BY DEF Shapes
<1>3. PICK W : W = Workers(m)
  OBVIOUS
<1>4. PICK N \in Nat, w \in Nat :
        N = Cardinality(Replicas) /\ w = Cardinality(W) /\ w <= N /\ IsFiniteSet(W)
  BY <1>3, WorkersCount
<1>5. PICK V : V = Workers(m)'
  OBVIOUS
<1>6. ASSUME NEW n \in Nat, n = written'[m], NEW v \in Nat, v = Cardinality(V), n = 0 \/ n + v <= N
      PROVE  (written[m] = 0 \/ written[m] + Cardinality(Workers(m)) <= Cardinality(Replicas))'
  BY <1>4, <1>5, <1>6
<1>7. ASSUME written'[m] = written[m], V \subseteq W
      PROVE  (written[m] = 0 \/ written[m] + Cardinality(Workers(m)) <= Cardinality(Replicas))'
  <2>1. PICK v \in Nat : v = Cardinality(V) /\ v <= w
    BY <1>4, <1>7, FS_Subset, FS_CardinalityType
  <2>2. written[m] = 0 \/ written[m] + w <= N
    BY <1>1, <1>3, <1>4
  <2>3. written[m] = 0 \/ written[m] + v <= N
    BY <1>2, <1>4, <2>1, <2>2
  <2> QED BY <1>2, <1>6, <1>7, <2>1, <2>3
<1>8. ASSUME NEW r \in Replicas, NEW p \in Task, task' = [task EXCEPT ![r] = p], p.pc # "work"
      PROVE  V = W \ {r}
  BY <1>3, <1>5, <1>8 DEF Workers, TasksTell
<1>9. CASE BrokerStep
  <2>1. written' = written /\ task' = task
    BY <1>9, BrokerLeaves
  <2>2. V = W
    BY <1>3, <1>5, <2>1 DEF Workers
  <2> QED BY <1>7, <2>1, <2>2
<1>10. ASSUME NEW r \in Replicas, Quiet(r)
       PROVE  (written[m] = 0 \/ written[m] + Cardinality(Workers(m)) <= Cardinality(Replicas))'
  <2>1. written' = written
    BY <1>10, QuietLeaves
  <2>2. PICK p \in Task :
          /\ task' = [task EXCEPT ![r] = p]
          /\ p.pc = "work" => written[Head(p.batch)] = 0
    BY <1>10, QuietTells
  <2>3. CASE p.pc # "work"
    <3>1. V \subseteq W
      BY <1>8, <2>2, <2>3
    <3> QED BY <1>7, <2>1, <3>1
  <2>4. CASE p.pc = "work" /\ Head(p.batch) = m
    <3>1. written'[m] = 0
      BY <2>1, <2>2, <2>4
    <3> QED BY <3>1
  <2>5. CASE p.pc = "work" /\ Head(p.batch) # m
    <3>1. V \subseteq W
      BY <1>3, <1>5, <2>2, <2>5 DEF Workers, TasksTell
    <3> QED BY <1>7, <2>1, <3>1
  <2> QED BY <2>3, <2>4, <2>5
<1>11. ASSUME NEW r \in Replicas, Work(r) \/ AuditDowntime(r)
       PROVE  (written[m] = 0 \/ written[m] + Cardinality(Workers(m)) <= Cardinality(Replicas))'
  <2>1. PICK x \in Msgs, p \in Task :
          Adds(r, x) /\ task' = [task EXCEPT ![r] = p] /\ p.pc # "work"
    BY <1>11, WorkTells DEF Acking
  <2>2. V = W \ {r}
    BY <1>8, <2>1
  <2>3. CASE written'[m] = written[m]
    BY <1>7, <2>2, <2>3
  <2>4. CASE written'[m] # written[m]
    <3>1. x = m /\ written'[m] = written[m] + 1 /\ written' # written
      BY <1>2, <2>1, <2>4 DEF Adds
    <3>2. r \in W
      <4>1. task[r].pc = "work" /\ Head(task[r].batch) = m
        BY <2>1, <3>1 DEF Adds, Current
      <4> QED BY <1>3, <4>1 DEF Workers
    <3>3. Cardinality(V) = w - 1
      BY <1>4, <2>2, <3>2, FS_RemoveElement
    <3>4. w >= 1
      <4>1. w # 0
        BY <1>4, <3>2, FS_EmptySet
      <4> QED BY <4>1
    <3>5. PICK n \in Nat, v \in Nat : n = written[m] + 1 /\ v = w - 1
      BY <1>2, <3>4
    <3>6. written[m] = 0 \/ written[m] + w <= N
      BY <1>1, <1>3, <1>4
    <3>7. n + v <= N
      BY <1>2, <1>4, <3>5, <3>6
    <3> QED BY <1>6, <3>1, <3>3, <3>5, <3>7
  <2> QED BY <2>3, <2>4
<1> QED BY <1>9, <1>10, <1>11, StepsAre

-----------------------------------------------------------------------------
LEMMA ConsumersStep == ConsumersInv /\ [ConsumersNext]_consumervars => ConsumersInv'
<1> SUFFICES ASSUME ConsumersInv, [ConsumersNext]_consumervars
             PROVE  ConsumersInv'
  OBVIOUS
<1>1. CASE UNCHANGED consumervars
  <2>1. UNCHANGED <<kind, body, streams, limit, msg, task, written, downtime, asked, expiries, failures>>
    BY <1>1 DEF consumervars
  <2> QED BY <2>1 DEF ConsumersInv, Shapes, TasksTell, Tells, MessagesTell, MessageTells, FewRows,
                      Workers, Handled, Terminable, Deserving, Refused
<1>2. CASE ConsumersNext
  BY <1>2, ShapesStep, TasksStep, MessagesStep, FewRowsStep DEF ConsumersInv
<1> QED BY <1>1, <1>2

LEMMA EffectsFollow == ConsumersInv => EffectsFirst
<1> SUFFICES ASSUME Shapes, TasksTell, MessagesTell, FewRows
             PROVE  EffectsFirst
  BY DEF ConsumersInv
<1>1. ConsumerTypes
  <2>1. \A r \in Replicas :
          /\ Len(task[r].batch) <= FetchBatch
          /\ task[r].batch = <<>> <=> task[r].pc \in {"start", "fetch", "dead", "stopped"}
    BY DEF TasksTell, Proper
  <2>2. task \in [Replicas -> [pc : {"start", "fetch", "dedup", "work", "audit", "term",
                                     "nak", "dead", "stopped"} \cup Acking, batch : Seq(Msgs)]]
    <3>1. Pcs = {"start", "fetch", "dedup", "work", "audit", "term",
                 "nak", "dead", "stopped"} \cup Acking
      BY DEF Pcs, Acking
    <3> QED BY <3>1 DEF TasksTell, Task
  <2> QED BY <2>1, <2>2 DEF Shapes, ConsumerTypes
<1>2. SettledWasHandled
  <2> SUFFICES ASSUME NEW m \in Msgs
               PROVE  /\ msg[m].state = "done" /\ ~Refused(body[m]) => Handled(m)
                      /\ msg[m].state = "terminated" => kind = "qi" /\ (Refused(body[m]) \/ failures > 0)
                      /\ body[m] = "invalid" => written[m] = 0 /\ m \notin downtime
                      /\ kind = "pm" /\ body[m] = "mismatch" => written[m] = 0
    BY DEF SettledWasHandled
  <2>1. MessageTells(m) /\ written[m] \in Nat
    BY DEF MessagesTell, Shapes
  <2> QED BY <2>1 DEF MessageTells, Deserving, Terminable, Refused
<1>3. QualityRowsBounded
  <2> SUFFICES ASSUME kind = "qi", NEW m \in Msgs
               PROVE  written[m] <= Cardinality(Replicas)
    BY DEF QualityRowsBounded
  <2>1. PICK n \in Nat, w \in Nat, c \in Nat :
          n = written[m] /\ w = Cardinality(Workers(m)) /\ c = Cardinality(Replicas)
    BY WorkersCount DEF Shapes
  <2>2. n = 0 \/ n + w <= c
    BY <2>1 DEF FewRows
  <2> QED BY <2>1, <2>2
<1>4. DowntimeAudited
  BY DEF DowntimeAudited, MessagesTell, MessageTells
<1> QED BY <1>1, <1>2, <1>3, <1>4 DEF EffectsFirst

\* Effect before ack, for every consumer: whatever is redelivered, shared or
\* killed, an acknowledged message has had its effect, a refused one none, one
\* that is in order is terminated by qi alone and only after something raised, and
\* no event has more rows than its replicas and deliveries explain
\* (nats_consumer.py:14, consumer.py of downtime-analyzer:133).
THEOREM EffectsComeFirst == ConsumersSpec => []EffectsFirst
<1>1. ConsumersInit => ConsumersInv
  BY ConsumersStart
<1> QED BY <1>1, ConsumersStep, EffectsFollow, PTL DEF ConsumersSpec
=============================================================================
