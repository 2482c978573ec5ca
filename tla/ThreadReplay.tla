----------------------------- MODULE ThreadReplay -----------------------------
(***************************************************************************)
(* replay_thread: the audit rows of a thread are read once, up to an action*)
(* that is looked for, and gone through one by one; with a model at hand   *)
(* the hash of each row is computed anew, and with a writer each step is   *)
(* recorded as a row of its own, in the same thread.  Agents, tools and    *)
(* other replays write to the thread meanwhile.                            *)
(*                                                                         *)
(* Rows are committed in the order of their ts: the writes of one thread   *)
(* are awaited one after the other.                                        *)
(***************************************************************************)
EXTENDS Integers, FiniteSets, Sequences, SequencesExt

CONSTANTS
  Threads, Unknown,  \* the thread of a tool that was not told its own
  Actions,           \* action ids, derived from the content of an action
  None,
  Replays,           \* invocations of replay_thread
  Limit,             \* LIMIT of the query (1000)
  MaxLog             \* bound: audit rows

VARIABLES
  log,     \* audit.actions in the order of ts
  replay,  \* [Replays -> what the invocation holds]
  checked  \* does the table refuse the action type REPLAY:..., as the CHECK
           \* constraint of the migrations does, and no test's table does?

\* of: the row a replay recorded.  canonical: the row carries the hash that
\* replay_thread computes from its summary and its tool calls.
Row(thread, action, canonical, of) ==
  [thread |-> thread, action |-> action, canonical |-> canonical, of |-> of]

Idle == [at |-> "idle"]

ReplayInit == log = <<>> /\ replay = [p \in Replays |-> Idle] /\ checked \in BOOLEAN

-----------------------------------------------------------------------------
(* Writers.                                                                *)

Written(row) ==
  /\ Len(log) < MaxLog
  /\ log' = Append(log, row)

\* An agent records an action, once more when it is decided, escalated or
\* timed out: the rows share the action's id.
Record(t, a) ==
  /\ \E canonical \in BOOLEAN : Written(Row(t, a, canonical, 0))
  /\ UNCHANGED <<replay, checked>>

\* The log_event tool: an id of its own, no hash, and a thread only the caller
\* could have told it; the loop of the operator assistant tells it none.
LogEvent ==
  /\ Written(Row(Unknown, Len(log) + 1, FALSE, 0))
  /\ UNCHANGED <<replay, checked>>

-----------------------------------------------------------------------------
(* What is read.                                                           *)

\* The rows of a thread in the order of ts: their places in the log.
Places(t) == SelectSeq([i \in 1..Len(log) |-> i], LAMBDA i : log[i].thread = t)

Oldest(s, n) == SubSeq(s, 1, IF Len(s) < n THEN Len(s) ELSE n)

Matches(list, a) == {i \in DOMAIN list : log[list[i]].action = a}

\* Fault variant of Truncated: up to the last row of the action.
TruncatedAtLast(list, a) ==
  IF Matches(list, a) = {} THEN list
  ELSE SubSeq(list, 1, CHOOSE i \in Matches(list, a) : \A j \in Matches(list, a) : j <= i)

\* Up to the first row of the action; all when there is none.
Truncated(list, a) ==
  IF Matches(list, a) = {} THEN list
  ELSE SubSeq(list, 1, CHOOSE i \in Matches(list, a) : \A j \in Matches(list, a) : i <= j)

-----------------------------------------------------------------------------
(* replay_thread.                                                          *)

Begin(p, t, until, compare, write) ==
  /\ replay[p] = Idle
  /\ replay' = [replay EXCEPT ![p] =
       [at |-> "read", thread |-> t, until |-> until, compare |-> compare, write |-> write,
        list |-> <<>>, next |-> 1, diverged |-> 0, added |-> <<>>, upto |-> 0]]
  /\ UNCHANGED <<log, checked>>

\* upto: how long the log was, history.
Read(p) ==
  /\ replay[p].at = "read"
  /\ LET first == Oldest(Places(replay[p].thread), Limit) IN
     replay' = [replay EXCEPT
       ![p].at = "steps", ![p].upto = Len(log),
       ![p].list = IF replay[p].until = None THEN first ELSE Truncated(first, replay[p].until)]
  /\ UNCHANGED <<log, checked>>

Current(p) == log[replay[p].list[replay[p].next]]

\* The first step whose hash is another is kept.
Compared(p) ==
  IF replay[p].compare /\ ~Current(p).canonical /\ replay[p].diverged = 0
  THEN replay[p].next ELSE replay[p].diverged

AtStep(p) == replay[p].at = "steps" /\ replay[p].next <= Len(replay[p].list)

Step(p) ==
  /\ AtStep(p) /\ ~replay[p].write
  /\ replay' = [replay EXCEPT ![p].diverged = Compared(p), ![p].next = @ + 1]
  /\ UNCHANGED <<log, checked>>

\* The copy has an id of its own; its summary says what it is a copy of, so the
\* hash it takes over does not fit it.
StepWritten(p) ==
  /\ AtStep(p) /\ replay[p].write /\ ~checked
  /\ Written(Row(replay[p].thread, Len(log) + 1, FALSE, replay[p].list[replay[p].next]))
  /\ replay' = [replay EXCEPT ![p].diverged = Compared(p), ![p].next = @ + 1,
                              ![p].added = Append(@, Len(log'))]
  /\ UNCHANGED checked

\* The INSERT violates the constraint: write() raises, and so does the replay.
StepRefused(p) ==
  /\ AtStep(p) /\ replay[p].write /\ checked
  /\ replay' = [replay EXCEPT ![p].at = "raised"]
  /\ UNCHANGED <<log, checked>>

Return(p) ==
  /\ replay[p].at = "steps" /\ replay[p].next > Len(replay[p].list)
  /\ replay' = [replay EXCEPT ![p].at = "done"]
  /\ UNCHANGED <<log, checked>>

ReplayNext ==
  \/ \E t \in Threads, a \in Actions : Record(t, a)
  \/ LogEvent
  \/ \E p \in Replays :
       \/ \E t \in Threads \cup {Unknown}, until \in Actions \cup {None},
             compare, write \in BOOLEAN : Begin(p, t, until, compare, write)
       \/ Read(p) \/ Step(p) \/ StepWritten(p) \/ StepRefused(p) \/ Return(p)

-----------------------------------------------------------------------------
(* EpisodicReplay.query.                                                   *)

\* By thread: the first k it ever wrote.
QueryThread(t, k) == Oldest(Oldest(Places(t), Limit), k)

\* By agent: its latest k (the agent of a row is left out: all rows have one).
QueryAgent(k) == Oldest(Reverse([i \in 1..Len(log) |-> i]), k)

-----------------------------------------------------------------------------
(* Properties.                                                             *)

Reading(p) == replay[p].at \in {"steps", "raised", "done"}

\* A replay goes through the thread as it was when it was read, whatever was
\* written since, by others or by itself: every row of the thread up to the
\* first of the action it was bounded by, unless the limit cut it short
\* (from_checkpoint.py:281).
HistoryTrue ==
  \A p \in Replays : Reading(p) =>
    LET rp == replay[p]
        inList == ToSet(rp.list)
        ofThread == {i \in 1..rp.upto : log[i].thread = rp.thread}
        last == rp.list[Len(rp.list)]
    IN /\ inList \subseteq ofThread
       /\ \A i, j \in DOMAIN rp.list : i < j => rp.list[i] < rp.list[j]
       /\ \A i \in inList, j \in ofThread : j < i => j \in inList
       /\ \A i \in inList : log[i].action = rp.until => i = last
       /\ \/ inList = ofThread
          \/ Len(rp.list) = Limit
          \/ log[last].action = rp.until

\* The step it reports is the first whose hash differs, and it reports none
\* without a model.
DivergenceTrue ==
  \A p \in Replays : replay[p].at = "done" =>
    LET odd == {i \in DOMAIN replay[p].list : ~log[replay[p].list[i]].canonical} IN
    IF replay[p].compare /\ odd # {}
    THEN replay[p].diverged \in odd /\ \A i \in odd : replay[p].diverged <= i
    ELSE replay[p].diverged = 0

\* A row of a replay stands in the thread of the row it copies, after it, and is
\* the copy of one replay only; a replay that returned has written one for each
\* of its steps or, on its own choice, none.  A table that refuses them never
\* holds one, and no replay that would write gets past its first step.
CopiesTrue ==
  /\ \A i \in DOMAIN log : log[i].of # 0 =>
       /\ ~checked
       /\ log[i].of < i /\ log[log[i].of].thread = log[i].thread
       /\ Cardinality({p \in Replays : Reading(p) /\ i \in ToSet(replay[p].added)}) = 1
  /\ \A p \in Replays : replay[p].at = "done" =>
       Len(replay[p].added) = (IF replay[p].write THEN Len(replay[p].list) ELSE 0)
  /\ \A p \in Replays : replay[p].at = "raised" => replay[p].next = 1

\* Of a thread memory returns the beginning, of an agent the end.
MemoryTrue ==
  \A k \in 1..2 :
    /\ \A t \in Threads, i \in DOMAIN log :
         i \in ToSet(QueryThread(t, k)) <=>
           log[i].thread = t /\
           LET earlier == Cardinality({j \in 1..(i - 1) : log[j].thread = t}) IN
           earlier < k /\ earlier < Limit
    /\ \A i \in DOMAIN log : i \in ToSet(QueryAgent(k)) <=> Len(log) - i < k

\* What a replay says happened did happen, and what it writes is told apart.
ReplayTells == HistoryTrue /\ DivergenceTrue /\ CopiesTrue /\ MemoryTrue
=============================================================================
