------------------------------ MODULE Simulator ------------------------------
(***************************************************************************)
(* simulators/sim-textile: one asyncio task an asset.  The sensor tasks    *)
(* write the tags of their asset into the OPC-UA server, disturbed as the  *)
(* profile of the family says; the quality and downtime tasks publish      *)
(* random events.  A behaviour is about tasks of one kind.  Time is wall   *)
(* time counted in sample periods: a task sleeps one period at least.  The *)
(* values themselves, their jitter and their NaNs are left out.            *)
(***************************************************************************)
EXTENDS Integers, Sequences, FiniteSets, SequencesExt

CONSTANTS
  Assets, FamilyOf,       \* the assets and their families
  Tags,                   \* the tags of an asset, in order
  Profiles,               \* family -> profile, for the families that are enabled
  Taxonomy,               \* the families with maintenance entries in failure_modes.yaml
  TicksPerMin,            \* samples a minute
  Rates,                  \* kind -> [nominal, faulted] events a minute
  Interval, DayLength, Drawn,  \* rotation of the dye lots; Drawn: what token_hex may yield
  ErrorPause,             \* the sleep of a sensor task that failed
  MaxTime, MaxFaults, None

VARIABLES
  kind,        \* "sensor", "quality" or "downtime"
  clock,
  task,        \* asset -> where its task is, and when it wakes
  emitter,     \* asset -> EmitterState of its sensor task
  samples,     \* asset -> what was written, in order
  lot, drawn,  \* asset -> its ProductionState; the lots it ever had
  events,      \* asset -> the quality events it made, sent or not
  simFaults

simvars == <<kind, clock, task, emitter, samples, lot, drawn, events, simFaults>>

Profile(a) == Profiles[FamilyOf[a]]
HasProfile(a) == FamilyOf[a] \in DOMAIN Profiles
Fault == simFaults < MaxFaults /\ simFaults' = simFaults + 1

NewLot(now, token) == [id |-> <<now \div DayLength, token>>, since |-> now]

\* A family without reason codes has nothing to emit, and a task that sleeps.
Mute(a) == kind = "downtime" /\ FamilyOf[a] \notin Taxonomy

\* run() and start_*_event_tasks(): a task for each asset whose family has a profile.
SimInit ==
  /\ kind \in {"sensor", "quality", "downtime"} /\ clock = 0 /\ simFaults = 0
  /\ task = [a \in Assets |-> [pc |-> IF ~HasProfile(a) THEN "none" ELSE IF Mute(a) THEN "mute" ELSE "loop",
                              wake |-> 0]]
  /\ emitter = [a \in Assets |-> [drift |-> 0, recent |-> << >>, burst |-> None]]
  /\ samples = [a \in Assets |-> << >>] /\ events = [a \in Assets |-> << >>]
  /\ \E token \in Drawn : lot = [a \in Assets |-> NewLot(0, token)]
  /\ drawn = [a \in Assets |-> <<lot[a].id>>]

Wakes(a, pc) == task[a].pc = pc /\ clock >= task[a].wake
SleepFor(a, pc, n) == task' = [task EXCEPT ![a] = [pc |-> pc, wake |-> clock + n]]

-----------------------------------------------------------------------------
(* emitter.py: the faults of one sample, in order.  The state is the       *)
(* asset's, not the tag's.                                                 *)

\* One more step of drift at each sample of a tag that drifts.
Drifted(st, p, tag) == IF tag \in p.drift THEN [st EXCEPT !.drift = @ + 1] ELSE st

\* A burst begins in its part of the period; when it is over its state is
\* cleared and this sample is left as it is.
BurstBegun(st, p) ==
  IF st.burst = None /\ clock % p.burst.period < p.burst.duration THEN [st EXCEPT !.burst = clock] ELSE st
Bursting(st, p) == st.burst # None /\ clock - st.burst <= p.burst.duration
Burst(st, p, tag) ==
  IF tag \notin p.burst.tags THEN st
  ELSE LET begun == BurstBegun(st, p) IN
       IF Bursting(begun, p) THEN begun ELSE [begun EXCEPT !.burst = None]

\* Fault variant of Alarmed: nothing leaves the window.
AlarmedForEver(st, p, tag) ==
  IF tag \notin p.storm.tags THEN st ELSE [st EXCEPT !.recent = Append(@, clock)]

\* Every sample counts as an alarm, those that left the window are dropped.
Alarmed(st, p, tag) ==
  IF tag \notin p.storm.tags THEN st
  ELSE [st EXCEPT !.recent = Append(SelectSeq(@, LAMBDA t : t >= clock - p.storm.window), clock)]

Sampled(acc, p, tag) ==
  IF tag \notin p.baseline THEN acc
  ELSE LET st == Alarmed(Burst(Drifted(acc.st, p, tag), p, tag), p, tag) IN
       [st |-> st,
        written |-> Append(acc.written,
          [tag |-> tag, at |-> clock, drift |-> IF tag \in p.drift THEN st.drift ELSE 0,
           burst |-> IF tag \in p.burst.tags THEN st.burst ELSE None,
           storm |-> tag \in p.storm.tags /\ Len(st.recent) >= p.storm.threshold])]

Round(a, n) == FoldLeft(LAMBDA acc, tag : Sampled(acc, Profile(a), tag),
                        [st |-> emitter[a], written |-> << >>], SubSeq(Tags, 1, n))

\* asset_emitter: a sample of each tag, then the sleep.
Emit(a) ==
  /\ kind = "sensor" /\ Wakes(a, "loop")
  /\ LET round == Round(a, Len(Tags)) IN
     /\ emitter' = [emitter EXCEPT ![a] = round.st]
     /\ samples' = [samples EXCEPT ![a] = @ \o round.written]
  /\ SleepFor(a, "loop", 1)
  /\ UNCHANGED <<kind, clock, lot, drawn, events, simFaults>>

\* write_value raises: logged, and the task ends after its pause; the asset is
\* silent from now on.
EmitFails(a) ==
  /\ kind = "sensor" /\ Wakes(a, "loop") /\ Fault
  /\ \E n \in 0..(Len(Tags) - 1) : samples' = [samples EXCEPT ![a] = @ \o Round(a, n).written]
  /\ SleepFor(a, "pause", ErrorPause)
  /\ UNCHANGED <<kind, clock, emitter, lot, drawn, events>>

EmitterEnds(a) ==
  /\ Wakes(a, "pause") /\ SleepFor(a, "ended", 0)
  /\ UNCHANGED <<kind, clock, emitter, samples, lot, drawn, events, simFaults>>

-----------------------------------------------------------------------------
(* quality_event_generator.py, downtime_event_generator.py                 *)

\* noisy: jitter or NaNs.
Faulted(p) == p.drift # {} \/ p.burst.tags # {} \/ p.storm.tags # {} \/ p.noisy
RatePerMin(p) == IF Faulted(p) THEN Rates[kind].faulted ELSE Rates[kind].nominal

\* A Bernoulli draw each period: certain when the rate asks for more than one.
Draws(p) == IF RatePerMin(p) >= TicksPerMin THEN {TRUE} ELSE BOOLEAN

\* maybe_rotate: before the draw, event or not.
Rotated(a, token) == IF clock - lot[a].since >= Interval THEN NewLot(clock, token) ELSE lot[a]

\* A publish that raises is logged and the loop goes on.
Published(a, event) ==
  \E sent \in BOOLEAN :
    /\ IF sent THEN UNCHANGED simFaults ELSE Fault
    /\ events' = [events EXCEPT ![a] = Append(@, event @@ [sent |-> sent])]

EmitQuality(a) ==
  /\ kind = "quality" /\ Wakes(a, "loop")
  /\ \E token \in Drawn, draw \in Draws(Profile(a)) :
       /\ lot' = [lot EXCEPT ![a] = Rotated(a, token)]
       /\ drawn' = IF lot'[a] = lot[a] THEN drawn ELSE [drawn EXCEPT ![a] = Append(@, lot'[a].id)]
       /\ IF draw THEN Published(a, [lot |-> lot'[a].id, at |-> clock]) ELSE UNCHANGED <<events, simFaults>>
  /\ SleepFor(a, "loop", 1)
  /\ UNCHANGED <<kind, clock, emitter, samples>>

\* A stop of the asset, of no lot; the next one may be drawn before it is over.
EmitDowntime(a) ==
  /\ kind = "downtime" /\ Wakes(a, "loop")
  /\ \E draw \in Draws(Profile(a)) :
       IF draw THEN Published(a, [lot |-> None, at |-> clock]) ELSE UNCHANGED <<events, simFaults>>
  /\ SleepFor(a, "loop", 1)
  /\ UNCHANGED <<kind, clock, emitter, samples, lot, drawn>>

-----------------------------------------------------------------------------
Tick == clock < MaxTime /\ clock' = clock + 1
        /\ UNCHANGED <<kind, task, emitter, samples, lot, drawn, events, simFaults>>

\* The process is told to stop: every task re-raises its cancellation.
Cancel ==
  /\ \E a \in Assets : task[a].pc \in {"loop", "mute", "pause"}
  /\ task' = [a \in Assets |-> IF task[a].pc \in {"loop", "mute", "pause"}
                               THEN [pc |-> "cancelled", wake |-> 0] ELSE task[a]]
  /\ UNCHANGED <<kind, clock, emitter, samples, lot, drawn, events, simFaults>>

SimNext ==
  \/ Tick \/ Cancel
  \/ \E a \in Assets : Emit(a) \/ EmitFails(a) \/ EmitterEnds(a) \/ EmitQuality(a) \/ EmitDowntime(a)

-----------------------------------------------------------------------------
(* Properties.                                                             *)

\* A sample is called a storm exactly when so many samples of the tags it
\* watches lie in the window that ends with it, whatever ticks came late
\* (alarm_storm.py:40).
StormsCounted ==
  \A a \in Assets : \A i \in DOMAIN samples[a] :
    LET p == Profile(a)  s == samples[a][i] IN
    s.storm <=> /\ s.tag \in p.storm.tags
                /\ Cardinality({j \in 1..i : /\ samples[a][j].tag \in p.storm.tags
                                             /\ samples[a][j].at >= s.at - p.storm.window}) >= p.storm.threshold

\* A burst begins in its part of a period and lasts one duration, on every tag
\* of the asset: a sample in that part escapes it only where it is the one that
\* finds the burst before over (emitter.py:95).
BurstsFit ==
  \A a \in Assets : \A i \in DOMAIN samples[a] :
    LET p == Profile(a)  s == samples[a][i]
        Stale(j) == samples[a][j].burst # None /\ s.at - samples[a][j].burst > p.burst.duration
    IN s.tag \in p.burst.tags =>
       /\ s.burst # None => s.burst % p.burst.period < p.burst.duration /\ s.at - s.burst \in 0..p.burst.duration
       /\ s.burst = None /\ s.at % p.burst.period < p.burst.duration =>
            \E j \in 1..(i - 1) : /\ Stale(j)
                                  /\ \A k \in (j + 1)..(i - 1) : samples[a][k].tag \notin p.burst.tags

\* Two events of one dye lot lie less than a rotation apart, unless the random
\* part of two lots of a day came out alike (production_state.py:63).
LotsSpanOneInterval ==
  kind = "quality" => \A a \in Assets : \A i, j \in DOMAIN events[a] :
    i < j /\ events[a][i].lot = events[a][j].lot =>
      \/ events[a][j].at - events[a][i].at < Interval
      \/ \E k, l \in DOMAIN drawn[a] : k # l /\ drawn[a][k] = drawn[a][l] /\ drawn[a][k] = events[a][i].lot

\* The simulated factory misbehaves as its profiles say, no more and no less.
FaultsAsProfiled ==
  /\ StormsCounted
  /\ BurstsFit
  /\ LotsSpanOneInterval
=============================================================================
