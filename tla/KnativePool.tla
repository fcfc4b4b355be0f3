---------------------------- MODULE KnativePool ----------------------------
(***************************************************************************)
(* KnativePool.scale behind make_knative_scale_fn: pin the service's       *)
(* min-scale and max-scale to the target, then list its pods until enough  *)
(* of them are ready (or none is left), or time is up.  The cluster acts   *)
(* on its own and is external: it brings the pods of a service to the      *)
(* pinned scale, and pods start, become ready, are evicted and end.        *)
(***************************************************************************)
EXTENDS PoolCalls

CONSTANTS
  Services,       (* Knative services                                      *)
  MaxPods,        (* bound on the pods of a service, terminating ones too  *)
  MaxEvictions    (* bound on the evictions of a run                       *)

ASSUME KnativeAssumption ==
  /\ Services # {} /\ MaxPods \in Nat /\ MaxEvictions \in Nat
  /\ \A u \in Setups : u.route \in [Jobs -> Services]

VARIABLES
  scale,      (* min-scale = max-scale of each service                     *)
  pods,       (* pods of each service: starting, ready, terminating        *)
  reported,   (* the KnativeScaleResult of the service's last patch: none
                 yet, reached or timed_out; its target is the scale        *)
  evictions   (* evictions so far                                          *)

knativeVars == <<scale, pods, reported, evictions>>

KnativeInit ==
  /\ scale = [s \in Services |-> 0]
  /\ pods = [s \in Services |-> [starting |-> 0, ready |-> 0, dying |-> 0]]
  /\ reported = [s \in Services |-> "none"]
  /\ evictions = 0

\* Slip: pool_for is ignored, and every job drives the adapter's own pool.
DefaultService(j) == CHOOSE s \in Services : TRUE

\* pool_for: the service a job drives.  Without it, the same one for every job.
ServiceOf(j) == setup.route[j]

Live(s) == pods[s].starting + pods[s].ready
Listed(s) == Live(s) + pods[s].dying

KnativeBegin(j) ==
  /\ setup.backend = "knative" /\ j \in setup.jobs /\ Idle
  /\ \E waits \in BOOLEAN :
       call' = [job |-> j, op |-> "patch", target |-> want[j], waits |-> waits]
  /\ UNCHANGED <<setup, want, knativeVars>>

\* _patch_annotations sets both bounds in one call, or raises.
Patch ==
  LET s == ServiceOf(call.job) IN
  /\ call.op = "patch"
  /\ \/ /\ scale' = [scale EXCEPT ![s] = call.target]
        /\ reported' = [reported EXCEPT ![s] = "none"]
        /\ call' = [call EXCEPT !.op = "list"]
     \/ call' = NoCall /\ UNCHANGED <<scale, reported>>
  /\ UNCHANGED <<setup, want, pods, evictions>>

\* A patch that is tried again and again succeeds once.
Pinned(j) == Patch /\ call.job = j /\ call'.op = "list"

\* Slip: "0 ready pods" counts as drained.
ReachedReady(target, waits, ready, listed) ==
  IF target = 0 THEN ready = 0
  ELSE IF waits THEN ready >= target ELSE listed >= target

\* When the poll loop breaks.
Reached(target, waits, ready, listed) ==
  IF target = 0 THEN listed = 0
  ELSE IF waits THEN ready >= target ELSE listed >= target

\* One listing.  Terminating pods are listed, and some still count as ready.
\* The call returns when the target is reached; when it is not, this listing
\* may be the last before the timeout, or the loop sleeps and lists again.
Poll ==
  LET s == ServiceOf(call.job) IN
  /\ call.op = "list"
  /\ \E ready \in pods[s].ready..(pods[s].ready + pods[s].dying) :
       reported' = [reported EXCEPT ![s] =
         IF Reached(call.target, call.waits, ready, Listed(s)) THEN "reached" ELSE "timed_out"]
  /\ call' = NoCall
  /\ UNCHANGED <<setup, want, scale, pods, evictions>>

\* kubectl get pods raised: the annotations stay, no result is stored.
PollFails ==
  /\ call.op = "list"
  /\ call' = NoCall
  /\ UNCHANGED <<setup, want, knativeVars>>

\* The orchestrator restarts: the call is gone, the annotations are not.
Forget ==
  /\ setup.backend = "knative" /\ ~Idle
  /\ call' = NoCall
  /\ UNCHANGED <<setup, want, knativeVars>>

PodsChange(s, starting, ready, dying) ==
  /\ pods' = [pods EXCEPT ![s].starting = @ + starting, ![s].ready = @ + ready,
                          ![s].dying = @ + dying]
  /\ UNCHANGED <<callVars, scale, reported>>

CreatePod(s) ==
  /\ Live(s) < scale[s] /\ Listed(s) < MaxPods
  /\ PodsChange(s, 1, 0, 0) /\ UNCHANGED evictions

BecomeReady(s) ==
  pods[s].starting > 0 /\ PodsChange(s, -1, 1, 0) /\ UNCHANGED evictions

Terminate(s) ==
  /\ Live(s) > scale[s] /\ UNCHANGED evictions
  /\ \/ pods[s].starting > 0 /\ PodsChange(s, -1, 0, 1)
     \/ pods[s].ready > 0 /\ PodsChange(s, 0, -1, 1)

PodEnds(s) ==
  pods[s].dying > 0 /\ PodsChange(s, 0, 0, -1) /\ UNCHANGED evictions

Evict(s) ==
  /\ evictions < MaxEvictions /\ pods[s].ready > 0
  /\ PodsChange(s, 0, -1, 1)
  /\ evictions' = evictions + 1

Cluster(s) == CreatePod(s) \/ BecomeReady(s) \/ Terminate(s) \/ PodEnds(s)

KnativeNext ==
  \/ \E j \in Jobs : KnativeBegin(j)
  \/ Patch \/ Poll \/ PollFails \/ Forget
  \/ \E s \in Services : Cluster(s) \/ Evict(s)
=============================================================================
