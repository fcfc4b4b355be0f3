------------------------ MODULE InterBatchScheduler ------------------------
(***************************************************************************)
(* The micro-batch scheduler of one pipeline stage: two static round       *)
(* robins spread micro-batches over the nodes' forward and backward queues *)
(* and tick() drains one micro-batch per node.  Micro-batches are numbered *)
(* in the order in which the driver submits them.                          *)
(***************************************************************************)
EXTENDS DeficitRoundRobin, Sequences, FiniteSets, Functions

CONSTANT MaxBatches    \* bound on the number of micro-batches

ASSUME StageAssumption == MaxBatches \in Nat

(* Both round robins weigh a node by its share of the capacities' sum         *)
(* (:38-43), so Unit is that sum.                                             *)
ExactShares == Unit = SumFunction(Capacity)

Batches == 0..(MaxBatches - 1)

VARIABLES
  isLast,        (* is_last_stage                                           *)
  submitted,     (* micro-batches the driver has enqueued forward           *)
  fwdDeficit,    (* _fwd.deficit                                            *)
  bwdDeficit,    (* _bwd.deficit                                            *)
  fwdQueue,      (* fwd_queue of each node                                  *)
  bwdQueue,      (* bwd_queue of each node                                  *)
  dispatched,    (* history: forward micro-batches given to each node       *)
  fwdAt, bwdAt,  (* history: node that ran a micro-batch, NoNode before     *)
  lastRun        (* history: the last event of each node                    *)

histories == <<dispatched, fwdAt, bwdAt, lastRun>>
vars == <<isLast, submitted, fwdDeficit, bwdDeficit, fwdQueue, bwdQueue, histories>>

Idle == [direction |-> "none", mb |-> 0]

Init ==
  /\ isLast \in BOOLEAN
  /\ submitted = 0
  /\ fwdDeficit = [n \in Nodes |-> 0] /\ bwdDeficit = [n \in Nodes |-> 0]
  /\ fwdQueue = [n \in Nodes |-> <<>>] /\ bwdQueue = [n \in Nodes |-> <<>>]
  /\ dispatched = [n \in Nodes |-> 0]
  /\ fwdAt = [mb \in Batches |-> NoNode] /\ bwdAt = [mb \in Batches |-> NoNode]
  /\ lastRun = [n \in Nodes |-> Idle]

Enqueued(queue, mb) == Append(queue, mb)

\* pick() or, when nobody is due, nodes[microbatch_id % len(nodes)].
Target(picked, mb) == IF picked = NoNode THEN (mb % N) + 1 ELSE picked

EnqueueForward ==
  /\ submitted < MaxBatches
  /\ LET n == Target(Pick(fwdDeficit, Capacity), submitted)
     IN  /\ fwdQueue' = [fwdQueue EXCEPT ![n] = Enqueued(@, submitted)]
         /\ dispatched' = [dispatched EXCEPT ![n] = @ + 1]
  /\ fwdDeficit' = AfterPick(fwdDeficit, Capacity)
  /\ submitted' = submitted + 1
  /\ UNCHANGED <<isLast, bwdDeficit, bwdQueue, fwdAt, bwdAt, lastRun>>

Queued(queue, mb) == \E n \in Nodes : mb \in Range(queue[n])

\* The next stage hands back a gradient, once per micro-batch and in any order.
Returns(mb) ==
  ~isLast /\ fwdAt[mb] # NoNode /\ bwdAt[mb] = NoNode /\ ~Queued(bwdQueue, mb)

\* enqueue_backward(mb, target_node_id=the node that ran it forward).
EnqueueBackwardTo(mb) ==
  /\ Returns(mb)
  /\ bwdQueue' = [bwdQueue EXCEPT ![fwdAt[mb]] = Enqueued(@, mb)]
  /\ UNCHANGED <<isLast, submitted, fwdDeficit, bwdDeficit, fwdQueue, histories>>

\* enqueue_backward(mb).
EnqueueBackward(mb) ==
  /\ Returns(mb)
  /\ LET n == Target(Pick(bwdDeficit, Capacity), mb)
     IN  bwdQueue' = [bwdQueue EXCEPT ![n] = Enqueued(@, mb)]
  /\ bwdDeficit' = AfterPick(bwdDeficit, Capacity)
  /\ UNCHANGED <<isLast, submitted, fwdDeficit, fwdQueue, histories>>

\* Slip: the forward queue goes first.
RunsBackwardLate(n) == bwdQueue[n] # <<>> /\ fwdQueue[n] = <<>>

\* R1.
RunsBackward(n) == bwdQueue[n] # <<>>
RunsForward(n) == ~RunsBackward(n) /\ fwdQueue[n] # <<>>

\* Slip: no micro-batch is taken.
BwdAfterPeek(n) ==
  IF isLast /\ RunsForward(n) THEN Enqueued(bwdQueue[n], Head(fwdQueue[n]))
  ELSE bwdQueue[n]

FwdAfter(n) == IF RunsForward(n) THEN Tail(fwdQueue[n]) ELSE fwdQueue[n]

\* R2: on the last stage the node queues the backward pass right away.
BwdAfter(n) ==
  IF RunsBackward(n) THEN Tail(bwdQueue[n])
  ELSE IF isLast /\ RunsForward(n) THEN Enqueued(bwdQueue[n], Head(fwdQueue[n]))
  ELSE bwdQueue[n]

Event(n) ==
  IF RunsBackward(n) THEN [direction |-> "bwd", mb |-> Head(bwdQueue[n])]
  ELSE IF RunsForward(n) THEN [direction |-> "fwd", mb |-> Head(fwdQueue[n])]
  ELSE lastRun[n]

\* One call of tick(); nodes touch only their own queues.
Tick ==
  /\ \E n \in Nodes : RunsBackward(n) \/ RunsForward(n)
  /\ fwdQueue' = [n \in Nodes |-> FwdAfter(n)]
  /\ bwdQueue' = [n \in Nodes |-> BwdAfter(n)]
  /\ lastRun' = [n \in Nodes |-> Event(n)]
  /\ fwdAt' = [mb \in Batches |->
       IF \E n \in Nodes : RunsForward(n) /\ Head(fwdQueue[n]) = mb
       THEN CHOOSE n \in Nodes : RunsForward(n) /\ Head(fwdQueue[n]) = mb ELSE fwdAt[mb]]
  /\ bwdAt' = [mb \in Batches |->
       IF \E n \in Nodes : RunsBackward(n) /\ Head(bwdQueue[n]) = mb
       THEN CHOOSE n \in Nodes : RunsBackward(n) /\ Head(bwdQueue[n]) = mb ELSE bwdAt[mb]]
  /\ UNCHANGED <<isLast, submitted, fwdDeficit, bwdDeficit, dispatched>>

Next ==
  \/ EnqueueForward
  \/ \E mb \in Batches : EnqueueBackwardTo(mb) \/ EnqueueBackward(mb)
  \/ Tick

Spec == Init /\ [][Next]_vars

\* The driver keeps calling tick() while something is pending.
FairSpec == Spec /\ WF_vars(Tick)

-----------------------------------------------------------------------------
Slots(queue, mb) ==
  {slot \in UNION {{n} \X DOMAIN queue[n] : n \in Nodes} : queue[slot[1]][slot[2]] = mb}

(* A micro-batch is queued at most once at a time, waits for its forward pass *)
(* until it has run it, never runs again what it has run, and on the last     *)
(* stage is never without a queue between its two passes (:271-302).          *)
NothingLostOrRepeated ==
  \A mb \in 0..(submitted - 1) :
    LET fwd == Cardinality(Slots(fwdQueue, mb))
        bwd == Cardinality(Slots(bwdQueue, mb))
    IN  \/ fwdAt[mb] = NoNode /\ bwdAt[mb] = NoNode /\ fwd = 1 /\ bwd = 0
        \/ fwdAt[mb] # NoNode /\ bwdAt[mb] = NoNode /\ fwd = 0
           /\ IF isLast THEN bwd = 1 ELSE bwd <= 1
        \/ fwdAt[mb] # NoNode /\ bwdAt[mb] # NoNode /\ fwd = 0 /\ bwd = 0

(* R1 and R2 together (:6-9): on the last stage a node that ran a forward     *)
(* pass runs the backward pass of the same micro-batch next, so it holds the  *)
(* activations of at most one micro-batch.                                    *)
BackwardFollows ==
  [][\A n \in Nodes :
       isLast /\ lastRun[n].direction = "fwd" /\ lastRun'[n] # lastRun[n] =>
         lastRun'[n] = [direction |-> "bwd", mb |-> lastRun[n].mb]]_vars

(* Every node's share of the forward micro-batches stays within N - 1 of its  *)
(* share of the capacity, although the fallback of :273-274 charges nobody's  *)
(* deficit.                                                                   *)
DispatchProportional ==
  \A n \in Nodes :
    LET error == submitted * Capacity[n] - dispatched[n] * Unit
    IN  error <= (N - 1) * Unit /\ -error <= (N - 1) * Unit

(* Every submitted micro-batch runs forward and on the last stage backward,   *)
(* although backward work always goes first (R1).                             *)
Drains ==
  \A mb \in Batches :
    mb < submitted ~> fwdAt[mb] # NoNode /\ (isLast => bwdAt[mb] # NoNode)
=============================================================================
