--------------------------- MODULE MCElasticPool ---------------------------
(* One job on docker, and one or two jobs on Knative with a service each or *)
(* one for both.                                                            *)
EXTENDS ElasticPool

CONSTANTS j1, j2, s1, s2

OneEach == [j \in Jobs |-> IF j = j1 THEN s1 ELSE s2]
Shared == [j \in Jobs |-> s1]

MCSetups == {
  [backend |-> "docker", jobs |-> {j1}, widest |-> 3, route |-> Shared],
  [backend |-> "knative", jobs |-> {j1}, widest |-> 2, route |-> Shared],
  [backend |-> "knative", jobs |-> Jobs, widest |-> 2, route |-> Shared],
  [backend |-> "knative", jobs |-> Jobs, widest |-> 1, route |-> OneEach]}
=============================================================================
