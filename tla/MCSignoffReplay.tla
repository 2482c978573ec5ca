--------------------------- MODULE MCSignoffReplay ---------------------------
(* Instances of SignoffReplay and ThreadReplay for TLC: a behaviour is about the *)
(* one or the other.                                                            *)
EXTENDS SignoffReplay, TLC

CONSTANTS
  t1, t2, t3, t4, t5, t6, t7, t8, t9,  \* threads
  c2,                          \* content that only the runs of t7 find
  unknown, a1, a2              \* the thread of a tool that knows none; actions

\* One thread of every agent; t8 and t9 with the audit writer of the gateway.
EveryAgent ==
  (t1 :> "training-coach") @@ (t2 :> "documentation-synthesizer") @@ (t3 :> "rca-specialist")
    @@ (t4 :> "inventory-manager") @@ (t5 :> "energy-optimizer") @@ (t6 :> "demand-forecaster")
    @@ (t7 :> "shift-handover") @@ (t8 :> "shift-handover") @@ (t9 :> "training-coach")

\* Threads do not interact: a behaviour is about one of them.  Runs are alike and
\* begin in the order of their numbers; an agent that may be made to start over at
\* any time has three.
VARIABLE subject
OneThread ==
  /\ \A t \in Threads \ {subject} : thread[t].status = "new"
  /\ \A r \in Runs \ {1} : run[r] # Idle => run[r - 1] # Idle
  /\ AgentOf[subject] \in OwnResume => run[4] = Idle
  /\ \A r \in Runs : \/ run[r] = Idle \/ run[r].content # c2
                     \/ subject = t7

\* audit.actions as replay_thread reads it: three rows, of which it reads two,
\* one replay, and one more that writes.
VARIABLES log, replay, checked
R == INSTANCE ThreadReplay WITH
       Threads <- {t1}, Unknown <- unknown, Actions <- {a1, a2}, None <- Nothing,
       Replays <- {1, 2}, Limit <- 2, MaxLog <- 3

VARIABLE part
MCInit ==
  /\ Init /\ R!ReplayInit
  /\ \/ part = "signoff" /\ subject \in Threads /\ ~checked
     \/ part = "replay" /\ subject = t1

SignoffPart ==
  /\ part = "signoff" /\ UNCHANGED <<log, replay, checked, subject, part>>
  /\ Next /\ OneThread'
ReplayPart ==
  /\ part = "replay" /\ R!ReplayNext
  /\ replay'[1] # R!Idle => replay'[1].until # a2  \* a1 and a2 are alike
  /\ replay'[2] # R!Idle =>
       replay'[2].write /\ ~replay'[2].compare /\ replay'[2].until = Nothing /\ replay'[2].thread = t1
  /\ UNCHANGED <<vars, subject, part>>

MCNext == SignoffPart \/ ReplayPart
allvars == <<vars, subject, log, replay, checked, part>>
MCSpec ==
  /\ MCInit /\ [][MCNext]_allvars
  /\ \A r \in Runs : WF_allvars(part = "signoff" /\ Execute(r) /\ UNCHANGED <<log, replay, checked, subject, part>>)

\* What a replay says happened did happen, and what it writes is told apart.
ReplayTells == part = "replay" => R!ReplayTells
=============================================================================
