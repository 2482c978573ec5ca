----------------------------- MODULE Scheduling -----------------------------
(***************************************************************************)
(* The production planner's two heuristics: orders are taken shortest      *)
(* first (spt) or by due date (edd) and each is put at the end of the      *)
(* compatible asset that is free first.  Times are minutes from the start  *)
(* of the horizon.  Orders and assets are numbered in the order of their   *)
(* names, which breaks ties.                                               *)
(*                                                                         *)
(*   order:    [id, minutes, due, families, lot]                           *)
(*   capacity: [assets -> [family, changeover]]                            *)
(*   modes:    [names of failure modes -> their setup minutes]             *)
(*   item:     [order, asset, start, end, lot]                             *)
(***************************************************************************)
EXTENDS Integers, FiniteSets, FiniteSetsExt, Sequences, SequencesExt

Larger(a, b) == IF a >= b THEN a ELSE b

\* The setup is looked up in the failure modes under the ASSET's name; the
\* planner's dictionary has the names of the modes.
SetupMinutes(prev, order, cap, modes) ==
  LET mode == IF prev.asset \in DOMAIN modes THEN modes[prev.asset] ELSE 0
  IN IF prev.lot # order.lot THEN Larger(mode, cap.changeover) ELSE mode

\* Fault variant of EarliestSlot: the setup is left out.
EarliestSlotBare(timeline, order, cap, modes) ==
  IF timeline = <<>> THEN 0 ELSE Last(timeline).end
EarliestSlot(timeline, order, cap, modes) ==
  IF timeline = <<>> THEN 0
  ELSE Last(timeline).end + SetupMinutes(Last(timeline), order, cap, modes)

Timeline(draft, asset) == SelectSeq(draft.items, LAMBDA item : item.asset = asset)
Eligible(order, capacity) == {a \in DOMAIN capacity : capacity[a].family \in order.families}

\* One round of the loop: the earliest slot, the smallest name among equals.
Place(draft, order, capacity, modes, horizon) ==
  LET eligible == Eligible(order, capacity)
      slot(a) == EarliestSlot(Timeline(draft, a), order, capacity[a], modes)
      first == Min({slot(a) : a \in eligible})
      asset == Min({a \in eligible : slot(a) = first})
  IN IF eligible = {} \/ first + order.minutes > horizon
     THEN [draft EXCEPT !.unscheduled = Append(@, order.id)]
     ELSE [draft EXCEPT !.items = Append(@, [order |-> order.id, asset |-> asset,
             start |-> first, end |-> first + order.minutes, lot |-> order.lot])]

Schedule(pending, capacity, modes, horizon) ==
  FoldLeft(LAMBDA draft, order : Place(draft, order, capacity, modes, horizon),
           [items |-> <<>>, unscheduled |-> <<>>], pending)

Before(k1, id1, k2, id2) == k1 < k2 \/ (k1 = k2 /\ id1 < id2)
Spt(orders) == SetToSortSeq(orders, LAMBDA o, p : Before(o.minutes, o.id, p.minutes, p.id))
Edd(orders) == SetToSortSeq(orders, LAMBDA o, p : Before(o.due, o.id, p.due, p.id))

Plan(strategy, orders, capacity, modes, horizon) ==
  Schedule(IF strategy = "spt" THEN Spt(orders) ELSE Edd(orders),
           capacity, modes, horizon)

-----------------------------------------------------------------------------
(* What a draft promises.                                                  *)

\* Every order has one place, in the plan or among the unscheduled.
EachOnce(draft, orders) ==
  LET places == [k \in DOMAIN draft.items |-> draft.items[k].order] \o draft.unscheduled
  IN IsInjective(places) /\ Range(places) = {o.id : o \in orders}

\* An asset runs one order at a time, is set up between two lots, and only
\* takes orders of its family, inside the horizon.
AssetsRespected(draft, orders, capacity, horizon) ==
  \A k \in DOMAIN draft.items :
    LET item == draft.items[k] IN
    /\ \E o \in orders : /\ o.id = item.order /\ item.end = item.start + o.minutes
                         /\ capacity[item.asset].family \in o.families
    /\ 0 <= item.start /\ item.end <= horizon
    /\ \A j \in 1..(k - 1) :
         LET earlier == draft.items[j]
         IN earlier.asset = item.asset =>
              item.start >= earlier.end + (IF earlier.lot = item.lot THEN 0
                                           ELSE capacity[item.asset].changeover)

\* An order is left out only when no compatible asset has room after its last order.
NoRoomLeft(draft, orders, capacity, modes, horizon) ==
  \A o \in orders : o.id \in Range(draft.unscheduled) =>
    \A a \in Eligible(o, capacity) :
      EarliestSlot(Timeline(draft, a), o, capacity[a], modes) + o.minutes > horizon

Minutes(orders) == MapThenSumSet(LAMBDA o : o.minutes, orders)
\* With one asset and one lot, shortest first schedules as many orders as can fit.
MostOrders(draft, orders, horizon) ==
  Len(draft.items) = Max({Cardinality(S) : S \in {T \in SUBSET orders : Minutes(T) <= horizon}})
\* With one asset and one lot, due date first misses a date only when every
\* order of work does: some date's orders need more time than there is.
DatesKept(draft, orders) ==
  (\A d \in {o.due : o \in orders} : Minutes({o \in orders : o.due <= d}) <= d) =>
    \A k \in DOMAIN draft.items : \A o \in orders :
      o.id = draft.items[k].order => draft.items[k].end <= o.due
=============================================================================
