---------------------------- MODULE ElasticPool ----------------------------
(***************************************************************************)
(* The control loop in front of either pool: what its retried, fallible    *)
(* scale() calls make of the replicas that really run.                     *)
(***************************************************************************)
EXTENDS DockerPool, KnativePool

vars == <<callVars, dockerVars, knativeVars>>

Init == PoolInit /\ DockerInit /\ KnativeInit

Docker(A) == A /\ UNCHANGED knativeVars
Knative(A) == A /\ UNCHANGED dockerVars

Next ==
  \/ (\E j \in Jobs : Retarget(j)) /\ UNCHANGED <<dockerVars, knativeVars>>
  \/ Docker(DockerNext)
  \/ Knative(KnativeNext)

Spec == Init /\ [][Next]_vars

\* What the loop's calls do to job j: one begins, and the commands of one return
\* and, tried for ever, succeed some time.
Begin(j) == Docker(DockerBegin(j)) \/ Knative(KnativeBegin(j))
Return == Docker(DockerStep) \/ Knative(Patch \/ Poll)
Success(j) == Docker(Succeeds(j)) \/ Knative(Pinned(j))

\* The loop ticks for ever and calls scale() for every job it lists; the cluster
\* brings a service to its scale.
FairSpec ==
  /\ Spec
  /\ WF_vars(Return)
  /\ \A j \in Jobs : SF_vars(Begin(j)) /\ SF_vars(Success(j))
  /\ \A s \in Services : WF_vars(Knative(Cluster(s)))

-----------------------------------------------------------------------------
(* What the docker pool believes and what runs part only through the fault    *)
(* that is known to part them: a container is forgotten only by a failed stop *)
(* or a restart, one is imagined only after an exit, and the names stay dense *)
(* - so that counting them gives the next free one (local_pool.py:33-45) -    *)
(* unless a scale-down was cut short.  Failed docker runs never matter.       *)
ListMatchesDaemon ==
  \A j \in Jobs :
    /\ blame[j] \intersect {"stop", "restart"} = {} =>
         containers[j] \subseteq ToSet(spawned[j])
    /\ "exit" \notin blame[j] => ToSet(spawned[j]) \subseteq containers[j]
    /\ Idle /\ "missing" \notin blame[j] => spawned[j] = NewNames(0, Len(spawned[j]))

(* A scale-to-zero that was reported complete is complete, and stays so until *)
(* the service is patched again: no pod is left, terminating ones included    *)
(* (knative_pool.py:160-162, :184-196), whoever else polls or is evicted.     *)
DrainIsFinal ==
  \A s \in Services :
    scale[s] = 0 /\ reported[s] = "reached" => Listed(s) = 0

Replicas(j) == IF setup.backend = "docker" THEN Cardinality(containers[j])
                                           ELSE Live(setup.route[j])

(* A job whose target has come to rest gets that many replicas, through       *)
(* failed calls, timeouts and evictions, if its service is its own            *)
(* (scale_adapter.py:39-40) and no container escaped the docker pool's list.  *)
PoolConverges ==
  \A j \in Jobs :
    <>[][want'[j] = want[j]]_want =>
      <>[](\/ setup.backend = "docker" /\ blame[j] # {}
           \/ \E k \in setup.jobs \ {j} : setup.route[k] = setup.route[j]
           \/ Replicas(j) = want[j])
=============================================================================
