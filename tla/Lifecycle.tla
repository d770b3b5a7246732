-------------------------------- MODULE Lifecycle --------------------------------
(* The control plane of one live pipeline: API requests (task_manager main.py),  *)
(* the controller's and the watchdog's loops, the PipelineState they share in    *)
(* Redis (redis_repo.py), the producer they start and stop through the Docker or *)
(* the Kubernetes runtime, and the Kafka topic a create makes and a delete takes *)
(* away. Pipelines share no key, so one is enough. Every step is what happens    *)
(* between two awaits: other actors may run between any two of them.             *)
EXTENDS Naturals

CONSTANTS Clients,      \* concurrent API requests
          Loops,        \* the background loops beside Docker: Controller and Watchdog
          Controller,
          Watchdog,
          Runtimes,     \* of "docker" and "kubernetes"
          None,         \* no state, nothing pending
          MaxCalls,     \* API calls
          MaxFailures,  \* runtime and Kafka calls that raise or refuse
          MaxDeaths,    \* producers that exit by themselves
          MaxCrashes,   \* processes killed in the middle of a handler
          MaxAccidents, \* all of these together
          MaxLag        \* records the pool may lag behind

Actors == Clients \cup Loops

Statuses == {"CREATED", "STARTING", "RUNNING", "STOPPING", "STOPPED", "FAILED"}
States == [desired : {"RUNNING", "STOPPED"}, status : Statuses, named : BOOLEAN]

ASSUME LifecycleAssumption ==
    /\ Loops \subseteq {Controller, Watchdog} /\ Controller # Watchdog
    /\ Controller \notin Clients /\ Watchdog \notin Clients
    /\ Runtimes \subseteq {"docker", "kubernetes"}
    /\ None \notin States
    /\ {MaxCalls, MaxFailures, MaxDeaths, MaxCrashes, MaxAccidents, MaxLag} \subseteq Nat

Calls == {"create", "start", "stop", "restart", "delete"}

VARIABLES
  runtime,   \* RUNTIME_MODE of the deployment
  config,    \* the PipelineConfig is in Redis
  state,     \* the PipelineState in Redis, or None
  event,     \* a state event is on its way to the controller
  producer,  \* "absent", "running", "exited" (its container is still there),
             \* "terminating" (its pod is still flushing)
  topic,     \* the topic exists
  lag,       \* its records that the pool has not committed
  lost,      \* history: a topic was deleted with records in it
  op,        \* op[a]: what actor a is doing
  pc,        \* where it is
  fields,    \* what its update_state is to change
  copy,      \* the state its update_state has read
  next,      \* where it goes after update_state
  abandoned, \* history: records of a running producer were deleted
  used       \* calls and accidents so far, and whether the watchdog has restarted

redisVars == <<config, state>>
kafkaVars == <<topic, lag, lost>>
updateVars == <<fields, copy, next>>
vars == <<runtime, redisVars, event, producer, kafkaVars, op, pc, updateVars, abandoned,
          used>>

Init ==
    /\ runtime \in Runtimes
    /\ config = FALSE /\ state = None /\ event = FALSE
    /\ producer = "absent"
    /\ topic = FALSE /\ lag = 0 /\ lost = FALSE
    /\ op = [a \in Actors |-> "none"]
    /\ pc = [a \in Actors |-> "idle"]
    /\ fields = [a \in Actors |-> None]
    /\ copy = [a \in Actors |-> None]
    /\ next = [a \in Actors |-> "idle"]
    /\ abandoned = FALSE
    /\ used = [call |-> 0, fail |-> 0, death |-> 0, crash |-> 0, restart |-> 0]

Spend(what, max) ==
    /\ used[what] < max /\ used' = [used EXCEPT ![what] = @ + 1]
    /\ what # "call" => used.fail + used.death + used.crash < MaxAccidents
Fail == Spend("fail", MaxFailures)
Fine == UNCHANGED used

\* The loops are there beside Docker, Kubernetes does their work itself.
Deployed(loop) == loop \in Loops /\ runtime = "docker"

Goto(a, where) == pc' = [pc EXCEPT ![a] = where]
Idle(a) == pc[a] = "idle"

\* A handler has returned or raised: its process forgets the request.
Finish(a) ==
    /\ Goto(a, "idle")
    /\ op' = [op EXCEPT ![a] = "none"]
    /\ fields' = [fields EXCEPT ![a] = None]
    /\ copy' = [copy EXCEPT ![a] = None]
    /\ next' = [next EXCEPT ![a] = "idle"]

-----------------------------------------------------------------------------
(* update_state: GET, change some fields, SET the whole record. Its GET is UpdateGet. *)

\* Call update_state(changes), then go on at where.
Update(a, changes, where) ==
    /\ Goto(a, "get")
    /\ fields' = [fields EXCEPT ![a] = changes]
    /\ next' = [next EXCEPT ![a] = where]
    /\ UNCHANGED copy

\* SET: what others wrote since the GET is overwritten, a deleted record returns.
UpdateSet(a) ==
    /\ pc[a] = "set"
    /\ state' = copy[a]
    /\ IF next[a] = "idle"
       THEN Finish(a)
       ELSE /\ Goto(a, next[a])
            /\ fields' = [fields EXCEPT ![a] = None]
            /\ copy' = [copy EXCEPT ![a] = None]
            /\ next' = [next EXCEPT ![a] = "idle"]
            /\ UNCHANGED op
    /\ UNCHANGED <<config, event, producer, kafkaVars, abandoned, runtime>> /\ Fine

-----------------------------------------------------------------------------
(* What each handler writes before the runtime is called, when it has returned  *)
(* and when it has raised. A loop's restart is the watchdog's.                  *)

Claim(a, what) ==
    IF a \in Loops THEN [status |-> IF what = "stop" THEN "STOPPING" ELSE "STARTING"]
    ELSE IF what = "start" THEN [desired |-> "RUNNING", status |-> "STARTING"]
    ELSE [desired |-> "STOPPED", status |-> "STOPPING"]

\* Mutant: a restart does not write the desired state.
Success_NoDesired(a) ==
    IF op[a] \in {"stop", "delete"} THEN [status |-> "STOPPED", named |-> FALSE]
    ELSE [status |-> IF a \in Loops THEN "STARTING" ELSE "RUNNING", named |-> TRUE]

\* Mutant: a start leaves STARTING behind, as the loops do.
Success_Starting(a) ==
    IF op[a] \in {"stop", "delete"} THEN [status |-> "STOPPED", named |-> FALSE]
    ELSE IF a \in Loops \/ op[a] = "start" THEN [status |-> "STARTING", named |-> TRUE]
    ELSE [desired |-> "RUNNING", status |-> "RUNNING", named |-> TRUE]

Success(a) ==
    IF op[a] \in {"stop", "delete"} THEN [status |-> "STOPPED", named |-> FALSE]
    ELSE IF a \in Loops THEN [status |-> "STARTING", named |-> TRUE]
    ELSE IF op[a] = "start" THEN [status |-> "RUNNING", named |-> TRUE]
    ELSE [desired |-> "RUNNING", status |-> "RUNNING", named |-> TRUE]

\* Mutant: a failed start takes the desired state back and keeps the status.
Failure_NoStatus(a) ==
    IF op[a] = "start" THEN [desired |-> "STOPPED"] ELSE [status |-> "FAILED"]

Failure(a) ==
    IF op[a] = "start" THEN [desired |-> "STOPPED", status |-> "FAILED"]
    ELSE [status |-> "FAILED"]

Succeeded(a) ==
    Update(a, Success(a), IF a \in Clients THEN "publish" ELSE "idle") /\ UNCHANGED op

\* Mutant: nothing catches what a runtime call raises.
Failed_Uncaught(a) == Finish(a)

Failed(a) == Update(a, Failure(a), "idle") /\ UNCHANGED op

\* The updates made inside a try: those of a loop that a runtime call has returned, and
\* the watchdog's claim.
Guarded(a) ==
    a \in Loops /\ (fields[a] = Success(a) \/ (a = Watchdog /\ fields[a] = Claim(a, op[a])))

\* Mutant: only what changes is written back.
UpdateGet_Partial(a) ==
    /\ pc[a] = "get"
    /\ IF state = None
       THEN IF Guarded(a) THEN Failed(a) ELSE Finish(a)
       ELSE /\ copy' = [copy EXCEPT ![a] = fields[a]]
            /\ Goto(a, "set")
            /\ UNCHANGED <<op, fields, next>>
    /\ UNCHANGED <<redisVars, event, producer, kafkaVars, abandoned, runtime>> /\ Fine

\* GET; a missing record raises KeyError, which ends the handler, or has a loop's except
\* clause write a failure.
UpdateGet(a) ==
    /\ pc[a] = "get"
    /\ IF state = None
       THEN IF Guarded(a) THEN Failed(a) ELSE Finish(a)
       ELSE /\ copy' = [copy EXCEPT ![a] =
                   [f \in DOMAIN state |->
                       IF f \in DOMAIN fields[a] THEN fields[a][f] ELSE state[f]]]
            /\ Goto(a, "set")
            /\ UNCHANGED <<op, fields, next>>
    /\ UNCHANGED <<redisVars, event, producer, kafkaVars, abandoned, runtime>> /\ Fine

\* The first runtime call of a handler. Docker restarts by stop, remove, run.
FirstCall(what) ==
    IF what \in {"stop", "delete"} \/ (what = "restart" /\ runtime = "docker") THEN "halt"
    ELSE IF runtime = "kubernetes" THEN "apply" ELSE "remove"

-----------------------------------------------------------------------------
(* The runtimes. A call that raises may have been carried out, or half of it.   *)

Halted ==
    IF runtime = "docker" THEN "absent"
    ELSE IF producer = "running" THEN "terminating" ELSE producer

\* stop_live_pipeline: the container is stopped and removed, the Deployment scaled
\* to 0, which does not wait for its pod. Nothing there to stop is no error.
Halt(a) ==
    /\ pc[a] = "halt"
    /\ \/ /\ producer' = Halted /\ Fine
          /\ IF op[a] = "restart" THEN Goto(a, "remove") /\ UNCHANGED <<op, updateVars>>
             ELSE Succeeded(a)
       \/ /\ producer' \in {producer, Halted} \cup
                 (IF runtime = "docker" /\ producer = "running" THEN {"exited"} ELSE {})
          /\ Fail /\ Failed(a)
    /\ UNCHANGED <<redisVars, event, kafkaVars, abandoned, runtime>>

\* Docker: _remove_if_exists, by force.
Remove(a) ==
    /\ pc[a] = "remove"
    /\ \/ producer' = "absent" /\ Fine /\ Goto(a, "run") /\ UNCHANGED <<op, updateVars>>
       \/ producer' \in {producer, "absent"} /\ Fail /\ Failed(a)
    /\ UNCHANGED <<redisVars, event, kafkaVars, abandoned, runtime>>

\* Docker: _run raises if another container has taken the name since.
Run(a) ==
    /\ pc[a] = "run"
    /\ \/ producer = "absent" /\ producer' = "running" /\ Fine /\ Succeeded(a)
       \/ producer # "absent" /\ UNCHANGED producer /\ Fine /\ Failed(a)
       \/ /\ producer = "absent" /\ producer' \in {"absent", "exited", "running"}
          /\ Fail /\ Failed(a)
    /\ UNCHANGED <<redisVars, event, kafkaVars, abandoned, runtime>>

\* Kubernetes: _apply_deployment with one replica, created or patched; a restart
\* then rolls the pods.
Apply(a) ==
    /\ pc[a] = "apply"
    /\ \/ producer' = "running" /\ Fine /\ Succeeded(a)
       \/ producer' \in {producer, "running"} /\ Fail /\ Failed(a)
    /\ UNCHANGED <<redisVars, event, kafkaVars, abandoned, runtime>>

-----------------------------------------------------------------------------
(* API requests.                                                              *)

Call(r, what) ==
    /\ Idle(r) /\ Spend("call", MaxCalls)
    /\ op' = [op EXCEPT ![r] = what]
    /\ Goto(r, "config")
    /\ UNCHANGED <<redisVars, event, producer, kafkaVars, updateVars, abandoned, runtime>>

\* get_config: 409 for a create that finds it (in the API or in the repository),
\* 404 for the others when it is missing.
FindConfig(r) ==
    /\ pc[r] = "config"
    /\ IF config = (op[r] = "create")
       THEN Finish(r)
       ELSE /\ Goto(r, IF op[r] = "create" THEN "setConfig" ELSE "state")
            /\ UNCHANGED <<op, updateVars>>
    /\ UNCHANGED <<redisVars, event, producer, kafkaVars, abandoned, runtime>> /\ Fine

SetConfig(r) ==
    /\ pc[r] = "setConfig"
    /\ config' = TRUE
    /\ Goto(r, "setState")
    /\ UNCHANGED <<state, event, producer, kafkaVars, op, updateVars, abandoned, runtime>> /\ Fine

SetState(r) ==
    /\ pc[r] = "setState"
    /\ state' = [desired |-> "STOPPED", status |-> "CREATED", named |-> FALSE]
    /\ Goto(r, "provision")
    /\ UNCHANGED <<config, event, producer, kafkaVars, op, updateVars, abandoned, runtime>> /\ Fine

\* provision: topic, then table. If either raises the records are taken back; the
\* topic stays if it was the table that failed. A broker that refuses the topic says so
\* by a code create_topic does not read: then there is a table and no topic.
Provision(r) ==
    /\ pc[r] = "provision"
    /\ \/ topic' = TRUE /\ Fine /\ Finish(r)
       \/ UNCHANGED topic /\ Fail /\ Finish(r)
       \/ /\ topic' \in {topic, TRUE} /\ Fail
          /\ Goto(r, "delConfig") /\ UNCHANGED <<op, updateVars>>
    /\ UNCHANGED <<redisVars, event, producer, lag, lost, abandoned, runtime>>

\* get_state: "Already running", "Already stopped", or what to do next.
ReadState(r) ==
    LET what == op[r]
        already == /\ state # None
                   /\ state.desired = IF what = "start" THEN "RUNNING" ELSE "STOPPED"
    IN  /\ pc[r] = "state"
        /\ CASE what = "restart" /\ state = None -> Finish(r)
             [] what = "restart" /\ state # None ->
                    Goto(r, FirstCall(what)) /\ UNCHANGED <<op, updateVars>>
             [] what = "delete" /\ already -> Goto(r, "drain") /\ UNCHANGED <<op, updateVars>>
             [] what \in {"start", "stop"} /\ already -> Finish(r)
             [] OTHER -> Update(r, Claim(r, what), FirstCall(what)) /\ UNCHANGED op
        /\ UNCHANGED <<redisVars, event, producer, kafkaVars, abandoned, runtime>> /\ Fine

\* publish_state_event, which is the end unless this stop is a delete's.
Publish(r) ==
    /\ pc[r] = "publish"
    /\ event' = Deployed(Controller)
    /\ IF op[r] = "delete" THEN Goto(r, "drain") /\ UNCHANGED <<op, updateVars>>
       ELSE Finish(r)
    /\ UNCHANGED <<redisVars, producer, kafkaVars, abandoned, runtime>> /\ Fine

\* Mutant: delete does not wait for the pool.
Drain_NoWait(r) ==
    /\ pc[r] = "drain"
    /\ Goto(r, "dropTopic")
    /\ UNCHANGED <<redisVars, event, producer, kafkaVars, op, updateVars, abandoned, runtime>> /\ Fine

\* wait_for_drain: no lag, or a 409 when the time is up.
Drain(r) ==
    /\ pc[r] = "drain"
    /\ IF topic /\ lag > 0 THEN Finish(r)
       ELSE Goto(r, "dropTopic") /\ UNCHANGED <<op, updateVars>>
    /\ UNCHANGED <<redisVars, event, producer, kafkaVars, abandoned, runtime>> /\ Fine

TopicGone == topic' = FALSE /\ lag' = 0 /\ lost' = (lost \/ lag > 0)

\* delete_topic; a topic that is not there is no error.
DropTopic(r) ==
    /\ pc[r] = "dropTopic"
    /\ \/ TopicGone /\ Fine /\ Goto(r, "delConfig") /\ UNCHANGED <<op, updateVars>>
       \/ (TopicGone \/ UNCHANGED kafkaVars) /\ Fail /\ Finish(r)
    /\ UNCHANGED <<redisVars, event, producer, abandoned, runtime>>

\* Mutant: both DELs name the state.
DelConfig_KeepsConfig(r) ==
    /\ pc[r] = "delConfig"
    /\ state' = None
    /\ Goto(r, "delState")
    /\ UNCHANGED <<config, event, producer, kafkaVars, op, updateVars, abandoned, runtime>> /\ Fine

\* delete_pipeline of the repository: two DELs.
DelConfig(r) ==
    /\ pc[r] = "delConfig"
    /\ config' = FALSE
    /\ abandoned' = (abandoned \/ producer = "running")
    /\ Goto(r, "delState")
    /\ UNCHANGED <<state, event, producer, kafkaVars, op, updateVars, runtime>> /\ Fine

DelState(r) ==
    /\ pc[r] = "delState"
    /\ state' = None
    /\ Finish(r)
    /\ UNCHANGED <<config, event, producer, kafkaVars, abandoned, runtime>> /\ Fine

-----------------------------------------------------------------------------
(* The background loops.                                                      *)

\* Mutant: a pipeline that is being stopped counts as drifted.
ToStop_Stopping == {"STARTING", "RUNNING", "STOPPING"}

\* Statuses that are neither at rest nor on their way there (not _ALREADY_STOPPED).
ToStop == {"STARTING", "RUNNING"}

\* _act, triggered by the reconcile loop or by an event: it reads the record
\* again, so only what it reads decides. An event also acts on STOPPING.
ControllerActs ==
    /\ Deployed(Controller) /\ Idle(Controller) /\ config /\ state # None
    /\ LET what == IF state.desired = "RUNNING" THEN "start" ELSE "stop"
       IN  /\ IF what = "start"
              THEN \/ state.status \in {"CREATED", "STOPPED", "FAILED"}
                   \/ state.status = "STOPPING" /\ event
              ELSE state.status \in ToStop
           /\ op' = [op EXCEPT ![Controller] = what]
           /\ Update(Controller, Claim(Controller, what), FirstCall(what))
    /\ event' = (event /\ state.status # "STOPPING")
    /\ UNCHANGED <<redisVars, producer, kafkaVars, abandoned, runtime>> /\ Fine

\* An event that finds the pipeline's lock held is dropped, as is one that finds
\* nothing to do.
EventIgnored ==
    /\ event /\ event' = FALSE
    /\ UNCHANGED <<redisVars, producer, kafkaVars, op, pc, updateVars, abandoned, runtime>> /\ Fine

\* _check: only what should run, is not being started and has a container. The
\* heartbeat it would look at first is written by nobody.
WatchdogReads ==
    /\ Deployed(Watchdog) /\ Idle(Watchdog) /\ config /\ state # None
    /\ state.desired = "RUNNING" /\ state.status # "STARTING" /\ state.named
    /\ op' = [op EXCEPT ![Watchdog] = "restart"]
    /\ Goto(Watchdog, "probe")
    /\ UNCHANGED <<redisVars, event, producer, kafkaVars, updateVars, abandoned, runtime>> /\ Fine

\* is_running, then _restart on what was read before.
WatchdogProbes ==
    /\ Deployed(Watchdog) /\ pc[Watchdog] = "probe"
    /\ \/ producer = "running" /\ Finish(Watchdog) /\ Fine
       \/ /\ producer # "running"
          /\ Update(Watchdog, Claim(Watchdog, "restart"), FirstCall("restart"))
          /\ used' = [used EXCEPT !.restart = 1] /\ UNCHANGED op
    /\ UNCHANGED <<redisVars, event, producer, kafkaVars, abandoned, runtime>>

-----------------------------------------------------------------------------
(* The producer, the pool and accidents.                                      *)

Produce ==
    /\ producer \in {"running", "terminating"} /\ topic /\ lag < MaxLag
    /\ lag' = lag + 1
    /\ UNCHANGED <<redisVars, event, producer, topic, lost, op, pc, updateVars, abandoned, runtime>>
    /\ Fine

\* The consumer pool commits some of what it lags behind; it needs the config.
PoolCommits ==
    /\ topic /\ config /\ lag > 0
    /\ lag' \in 0 .. lag - 1
    /\ UNCHANGED <<redisVars, event, producer, topic, lost, op, pc, updateVars, abandoned, runtime>>
    /\ Fine

\* A pod that was scaled away has flushed and is gone.
Terminated ==
    /\ producer = "terminating" /\ producer' = "absent"
    /\ UNCHANGED <<redisVars, event, kafkaVars, op, pc, updateVars, abandoned, runtime>> /\ Fine

\* A container exits for good (Kubernetes would restart it).
Die ==
    /\ runtime = "docker" /\ producer = "running" /\ Spend("death", MaxDeaths)
    /\ producer' = "exited"
    /\ UNCHANGED <<redisVars, event, kafkaVars, op, pc, updateVars, abandoned, runtime>>

\* A process dies in the middle of a handler.
Crash(a) ==
    /\ ~Idle(a) /\ Spend("crash", MaxCrashes)
    /\ Finish(a)
    /\ UNCHANGED <<redisVars, event, producer, kafkaVars, abandoned, runtime>>

Request(r) ==
    \/ \E what \in Calls : Call(r, what)
    \/ FindConfig(r) \/ SetConfig(r) \/ SetState(r) \/ Provision(r)
    \/ ReadState(r) \/ Publish(r)
    \/ Drain(r) \/ DropTopic(r) \/ DelConfig(r) \/ DelState(r)

Next ==
    \/ \E r \in Clients : Request(r)
    \/ \E a \in Actors : \/ UpdateGet(a) \/ UpdateSet(a)
                         \/ Halt(a) \/ Remove(a) \/ Run(a) \/ Apply(a)
                         \/ Crash(a)
    \/ ControllerActs \/ EventIgnored \/ WatchdogReads \/ WatchdogProbes
    \/ Produce \/ PoolCommits \/ Terminated \/ Die

Spec == Init /\ [][Next]_vars

-----------------------------------------------------------------------------
(* Properties.                                                                *)

Places == {"idle", "config", "state", "get", "set", "halt", "remove", "run", "apply",
           "publish", "drain", "dropTopic", "setConfig", "setState", "provision",
           "delConfig", "delState", "probe"}

\* The changes a handler may pass to update_state.
Changes == [status : Statuses]
           \cup [desired : {"RUNNING", "STOPPED"}, status : Statuses]
           \cup [status : Statuses, named : BOOLEAN]
           \cup States

\* Every variable has its type; what update_state writes is always a whole record.
TypeOK ==
    /\ runtime \in Runtimes
    /\ config \in BOOLEAN /\ state \in States \cup {None} /\ event \in BOOLEAN
    /\ producer \in {"absent", "running", "exited", "terminating"}
    /\ topic \in BOOLEAN /\ lag \in 0 .. MaxLag /\ lost \in BOOLEAN
    /\ op \in [Actors -> Calls \cup {"none"}]
    /\ pc \in [Actors -> Places] /\ next \in [Actors -> Places \ {"get"}]
    /\ fields \in [Actors -> Changes \cup {None}]
    /\ copy \in [Actors -> States \cup {None}]
    /\ abandoned \in BOOLEAN
    /\ used \in [{"call", "fail", "death", "crash", "restart"} -> Nat]

Settled == \A a \in Actors : Idle(a)

\* No failure, death, crash or watchdog restart so far.
Calm == used.fail = 0 /\ used.death = 0 /\ used.crash = 0 /\ used.restart = 0

\* desired_state and the producer say the same.
Agrees == (state.desired = "RUNNING") = (producer = "running")

\* The API and the controller do not get in each other's way: as long as nothing fails,
\* dies or is found dead by the watchdog, the controller never acts on a pipeline,
\* whatever calls arrive and whenever its loop or an event wakes it. Every call but a
\* restart claims the status before it touches the runtime, and a restart leaves alone
\* a status and a desired state that the controller passes over.
ControllerStaysOut ==
    Calm /\ Deployed(Controller) => Idle(Controller)

\* ... so that every call ends with desired_state and the producer in agreement,
\* and a deleted pipeline has neither record nor producer.
CalmAgrees ==
    Calm /\ Settled => IF config THEN state # None /\ Agrees
                       ELSE state = None /\ producer # "running"

\* A delete loses no record: stop, drain, and only then take the topic away. This
\* needs a stop that waits until the producer is gone, as Docker's does.
CalmDeleteLosesNothing == Calm /\ runtime = "docker" => ~lost

\* The docstring of wait_for_drain promises it of every delete. Kubernetes' scale
\* to 0 does not wait for the pod, which flushes after the drain was seen.
DeleteLosesNothing == ~lost

\* Whatever runtime calls fail, carried out or not, a producer that is not as desired
\* is marked FAILED, until a call repairs it or a delete forgets it. (Beside Docker a
\* loop that acts on what it read before a call can undo this.)
FailureIsFlagged ==
    runtime = "kubernetes" /\ Settled /\ used.crash = 0 /\ ~abandoned =>
        (config => state # None /\ (Agrees \/ state.status = "FAILED"))

\* A producer that exits by itself is not overlooked: whatever calls came before it
\* died or cross with it, it is left in a state in which the watchdog looks at it.
\* (This is so until the watchdog has restarted it once, which leaves STARTING
\* behind, a status it passes over.)
DeathIsNoticed ==
    /\ Settled /\ config /\ producer = "exited"
    /\ used.fail = 0 /\ used.crash = 0 /\ used.restart = 0
    => /\ state # None
       /\ state.desired = "RUNNING" /\ state.status # "STARTING" /\ state.named

\* The statuses of a call that somebody is still carrying out. A loop's restart
\* beside Docker ends in STARTING.
Transitional == {"STOPPING"} \cup IF runtime = "docker" THEN {} ELSE {"STARTING"}

\* However many requests and loops overwrite each other's record, and whatever
\* runtime calls fail, no pipeline is left behind in STOPPING or STARTING: whoever
\* writes one of them writes again when the runtime has answered, and no write that
\* was read before can come last (the except clauses of main.py and of the loops).
NoCallLeftHanging ==
    Settled /\ used.crash = 0 /\ state # None => state.status \notin Transitional

\* A config without a state is a create in the middle of its two SETs. Such a pipeline
\* could be neither created nor started, restarted or deleted: 409, and a KeyError
\* from update_state. (With two requests at once, a delete's second DEL may hit the
\* state of the create that follows it.)
ConfigHasState ==
    used.crash = 0 /\ config => state # None \/ \E r \in Clients : pc[r] = "setState"
=============================================================================
