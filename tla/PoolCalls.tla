----------------------------- MODULE PoolCalls -----------------------------
(***************************************************************************)
(* The control loop's side of a worker pool.  Every tick calls             *)
(* pool_scale_fn(job, target) for each listed job, one call at a time, and *)
(* swallows what the call raises; the next tick calls again.               *)
(***************************************************************************)
EXTENDS Integers

CONSTANTS
  Jobs,       (* job ids                                                   *)
  Setups      (* ways to wire a loop: which pool is behind pool_scale_fn,
                 the jobs it lists, the widest target, and for Knative the
                 service each job drives                                   *)

ASSUME PoolAssumption ==
  \A s \in Setups :
    s.backend \in {"docker", "knative"} /\ s.jobs \subseteq Jobs /\ s.widest \in Nat

VARIABLES
  setup,     (* how this loop is wired; never changes                      *)
  want,      (* pool_target of each job in the last decision               *)
  call       (* the scale() call in progress, or NoCall                    *)

callVars == <<setup, want, call>>

NoCall == [op |-> "none"]
Idle == call = NoCall

PoolInit ==
  /\ setup \in Setups
  /\ want = [j \in Jobs |-> 0]
  /\ call = NoCall

\* A later tick decides another target, or a pause (target 0).  The loop is the
\* thread that makes the calls, so none is in progress.
Retarget(j) ==
  /\ Idle /\ j \in setup.jobs
  /\ \E t \in (0..setup.widest) \ {want[j]} : want' = [want EXCEPT ![j] = t]
  /\ UNCHANGED <<setup, call>>
=============================================================================
