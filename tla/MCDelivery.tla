------------------------------ MODULE MCDelivery ------------------------------
(***************************************************************************)
(* Will what was handed to NATS and to the database arrive?  The audit     *)
(* records with their outbox and the OT bridge share neither state nor     *)
(* streams: a behaviour is about one of them.                              *)
(***************************************************************************)
EXTENDS MCAuditOutbox, Integers, Sequences

CONSTANTS n1, n2, e1, e2, e3, w1, w2, Loop, Closer

VARIABLES
  bridge, live, nodeid_map, sent, queue, unfinished, worker, buffer, lock, flight,
  events, alarms, table, trail, logged, strangers, bridgeFaults,
  part

bridgevars == <<bridge, live, nodeid_map, sent, queue, unfinished, worker, buffer, lock, flight,
                events, alarms, table, trail, logged, strangers, bridgeFaults>>
outboxvars == <<vars, batch, subject>>
allvars == <<outboxvars, bridgevars, part>>

\* A queue and a batch of two; one event is an alarm, one of another node.
Workers == {w1, w2}
B == INSTANCE OtBridge WITH
       Nodes <- {n1, n2}, Events <- {e1, e2, e3}, NodeOf <- e1 :> n1 @@ e2 :> n1 @@ e3 :> n2,
       Alarms <- {e2}, QueueSize <- 2, BatchSize <- 2, MaxFaults <- 2,
       stream <- events, audit <- trail, faults <- bridgeFaults

DeliveryInit ==
  /\ part \in {"outbox", "bridge"} /\ MCInit /\ B!BridgeInit
  /\ part = "bridge" => batch = 1 /\ subject = Streamless

OutboxPart == part = "outbox" /\ UNCHANGED <<part, bridgevars>>
BridgePart == part = "bridge" /\ UNCHANGED <<part, outboxvars>>

DeliveryNext ==
  \/ OutboxPart /\ MCNext
  \/ BridgePart /\ B!BridgeNext

\* The retry loops wake up, and the event loop runs every task of the bridge.
DeliverySpec ==
  /\ DeliveryInit /\ [][DeliveryNext]_allvars
  /\ \A k \in Replicas :
       /\ WF_allvars(OutboxPart /\ Select(k) /\ UNCHANGED <<batch, subject>>)
       /\ WF_allvars(OutboxPart /\ RetryRow(k) /\ UNCHANGED <<batch, subject>>)
  /\ \A r \in Records : WF_allvars(OutboxPart /\ BackoffElapses(r) /\ UNCHANGED <<batch, subject>>)
  /\ WF_allvars(BridgePart /\ B!LoopStep) /\ WF_allvars(BridgePart /\ B!Shutdown)
  /\ \A w \in Workers : WF_allvars(BridgePart /\ B!WorkerStep(w))

\* A shutdown of the bridge ends, and until then every event settles.
BridgeDrains == B!BridgeDrains
=============================================================================
