----------------------------- MODULE DockerPool -----------------------------
(***************************************************************************)
(* LocalDockerPool: the list of container names the pool believes in, next *)
(* to the containers the docker daemon runs.  A call of scale() is split   *)
(* at every docker command; containers exit on their own at any time.      *)
(* The names of a job are hasagi-<job>-0, -1, ...: a name is its number.   *)
(***************************************************************************)
EXTENDS PoolCalls, FiniteSets, SequencesExt

VARIABLES
  spawned,      (* spawned, the names of each job in order                 *)
  containers,   (* the names of the containers that run (external)         *)
  blame         (* history: faults that may have parted the two for good   *)

dockerVars == <<spawned, containers, blame>>

DockerInit ==
  /\ spawned = [j \in Jobs |-> <<>>]
  /\ containers = [j \in Jobs |-> {}]
  /\ blame = [j \in Jobs |-> {}]

\* Names from the length of the list on, or what the list has beyond the target.
NewNames(n, t) == [k \in 1..(t - n) |-> n + k - 1]

Surplus(j, t) == SubSeq(spawned[j], t + 1, Len(spawned[j]))

DockerCall(j, op, todo) == [job |-> j, op |-> op, todo |-> todo]

\* scale(j, want[j]): compare the target with the length of the list.
DockerBegin(j) ==
  LET n == Len(spawned[j]) IN
  /\ setup.backend = "docker" /\ Idle
  /\ \/ want[j] > n /\ call' = DockerCall(j, "run", NewNames(n, want[j]))
     \/ want[j] < n /\ call' = DockerCall(j, "stop", Surplus(j, want[j]))
  /\ UNCHANGED <<setup, want, dockerVars>>

\* The for loop of scale() goes on with the next name, or the call returns.
Advance ==
  call' = IF Len(call.todo) = 1 THEN NoCall ELSE [call EXCEPT !.todo = Tail(@)]

\* Slip: the name is noted before docker run is tried.
NoteFirst(j, name) ==
  /\ spawned' = [spawned EXCEPT ![j] = Append(@, name)]
  /\ \/ /\ name \notin containers[j] /\ Advance
        /\ containers' = [containers EXCEPT ![j] = @ \union {name}]
     \/ /\ call' = NoCall /\ UNCHANGED containers

\* docker run: check=True, so a failure (the daemon's, or a name still in use)
\* leaves scale(); the name is appended only after success.
RunOne(j, name) ==
  \/ /\ name \notin containers[j] /\ Advance
     /\ containers' = [containers EXCEPT ![j] = @ \union {name}]
     /\ spawned' = [spawned EXCEPT ![j] = Append(@, name)]
  \/ /\ call' = NoCall /\ UNCHANGED <<containers, spawned>>

DockerRun ==
  /\ call.op = "run"
  /\ RunOne(call.job, Head(call.todo))
  /\ UNCHANGED <<setup, want, blame>>

\* docker stop: check=False, so the name is removed whatever happened.
DockerStop ==
  LET j == call.job  name == Head(call.todo) IN
  /\ call.op = "stop" /\ Advance
  /\ spawned' = [spawned EXCEPT ![j] = RemoveFirst(@, name)]
  /\ \/ /\ containers' = [containers EXCEPT ![j] = @ \ {name}]
        /\ UNCHANGED blame
     \/ /\ name \in containers[j] /\ UNCHANGED containers
        /\ blame' = [blame EXCEPT ![j] = @ \union {"stop"}]
  /\ UNCHANGED <<setup, want>>

\* _docker() finds no binary: RuntimeError out of the middle of a scale-down.
DockerMissing ==
  /\ call.op = "stop" /\ call' = NoCall
  /\ blame' = [blame EXCEPT ![call.job] = @ \union {"missing"}]
  /\ UNCHANGED <<setup, want, spawned, containers>>

\* A container ends on its own, and --rm removes it.
Exit(j) ==
  /\ \E name \in containers[j] : containers' = [containers EXCEPT ![j] = @ \ {name}]
  /\ blame' = [blame EXCEPT ![j] = @ \union {"exit"}]
  /\ UNCHANGED <<callVars, spawned>>

\* A restarted orchestrator begins with an empty list.
Restart ==
  /\ \E j \in Jobs : containers[j] # {}
  /\ call' = NoCall
  /\ spawned' = [j \in Jobs |-> <<>>]
  /\ blame' = [j \in Jobs |->
                 IF containers[j] = {} THEN blame[j] ELSE blame[j] \union {"restart"}]
  /\ UNCHANGED <<setup, want, containers>>

DockerStep == DockerRun \/ DockerStop

DockerNext ==
  \/ \E j \in Jobs : DockerBegin(j) \/ Exit(j)
  \/ DockerStep \/ DockerMissing \/ Restart

\* A docker command that is tried again and again succeeds once.
Succeeds(j) == DockerRun /\ call.job = j /\ spawned' # spawned
=============================================================================
