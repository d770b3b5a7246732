------------------------------ MODULE Registration ------------------------------
(* How pipelines come into being: API creates and definition files that the      *)
(* folder watchers of several Task Manager replicas find (folder_watcher.py),    *)
(* the collection counter and the two records in Redis (redis_repo.py), topic    *)
(* and table (provisioning.py). All pipelines are user "0"'s and use the default *)
(* table name, so a table is known by its collection number. A file bears the    *)
(* name of its pipeline. Every step is what happens between two awaits.          *)
EXTENDS Naturals, FiniteSets

CONSTANTS Pipelines,     \* pipeline ids
          Replicas,      \* Task Manager replicas on one definitions directory
          None,          \* no counter, no pipeline
          Old,           \* numbers that pipelines older than the counter may have
          Named,         \* numbers an API request may ask for itself
          MaxRequests,   \* API requests
          MaxAccidents   \* unreadable files, Redis errors, provisioning that raises,
                         \* topics that are refused unnoticed,
                         \* handlers that take more than the 30 s, observer threads
                         \* that die and replicas that are killed, taken together

ASSUME RegistrationAssumption ==
    /\ None \notin Nat /\ None \notin Pipelines
    /\ IsFiniteSet(Pipelines) /\ Replicas # {}
    /\ Old \subseteq Nat \ {0} /\ Named \subseteq Nat \ {0}
    /\ MaxRequests \in Nat /\ MaxAccidents \in Nat

\* Each replica answers an API request, handles an observer's event, possibly still
\* one the observer no longer waits for, and what its start-up scan has found.
Tasks == Replicas \X {"api", "event", "late", "scan"}
Host(t) == t[1]
Role(t) == t[2]

VARIABLES
  config,    \* config[p]: the collection number in p's PipelineConfig, 0: none
  state,     \* state[p]: its PipelineState's status, or "none"
  counter,   \* the user's collection counter, or None
  topics,    \* pipelines whose topic exists
  where,     \* where[p]: p's file: "nowhere", "pending", "processed", "failed"
  up,        \* replicas that run
  watching,  \* replicas whose observer thread is alive
  toList,    \* replicas that have started and not yet listed the directory
  events,    \* events[r]: files whose creation r's observer has still to report
  listed,    \* listed[r]: files r's start-up scan has still to handle
  pc, pid, num, \* each task: where it is, its pipeline, its collection number
  deleted,    \* history: pipelines somebody has begun to delete
  rolledBack, \* history: pipelines whose API create has begun to be rolled back
  refused,    \* history: pipelines whose topic the broker refused unnoticed
  tables,     \* history: numbers that configs have or had
  used        \* bounds spent

recordVars == <<config, state, counter, topics>>
watchVars == <<up, watching, toList, events, listed>>
taskVars == <<pc, pid, num>>
history == <<deleted, rolledBack, refused, tables>>
vars == <<recordVars, where, watchVars, taskVars, history, used>>

Init ==
    /\ config \in {f \in [Pipelines -> {0} \cup Old] :
                      \A p, q \in Pipelines : p # q /\ f[p] = f[q] => f[p] = 0}
    /\ state = [p \in Pipelines |-> IF config[p] = 0 THEN "none" ELSE "CREATED"]
    /\ topics = {p \in Pipelines : config[p] # 0}
    /\ counter = None
    /\ where = [p \in Pipelines |-> "nowhere"]
    /\ up = {} /\ watching = {} /\ toList = {}
    /\ events = [r \in Replicas |-> {}]
    /\ listed = [r \in Replicas |-> {}]
    /\ pc = [t \in Tasks |-> "idle"]
    /\ pid = [t \in Tasks |-> None]
    /\ num = [t \in Tasks |-> 0]
    /\ deleted = {} /\ rolledBack = {} /\ refused = {}
    /\ tables = {config[p] : p \in Pipelines} \ {0}
    /\ used = [request |-> 0, fail |-> 0, refusal |-> 0, timeout |-> 0, blind |-> 0,
               crash |-> 0]

Spend(what) ==
    /\ IF what = "request" THEN used.request < MaxRequests
       ELSE used.fail + used.refusal + used.timeout + used.blind + used.crash < MaxAccidents
    /\ used' = [used EXCEPT ![what] = @ + 1]
Fail == Spend("fail")

Idle(t) == pc[t] = "idle"
Goto(t, place) == pc' = [pc EXCEPT ![t] = place] /\ UNCHANGED pid
Finish(t) ==
    /\ pc' = [pc EXCEPT ![t] = "idle"]
    /\ pid' = [pid EXCEPT ![t] = None]
    /\ num' = [num EXCEPT ![t] = 0]

\* _move: a file that has gone already is no error.
Move(p, to) == where' = [where EXCEPT ![p] = IF @ = "pending" THEN to ELSE @]

\* A watcher's task ends with its file in a directory; an API request has none.
Settle(t, to) ==
    /\ IF Role(t) = "api" THEN UNCHANGED where ELSE Move(pid[t], to)
    /\ Finish(t)

-----------------------------------------------------------------------------
(* The watchers.                                                              *)

\* A definition file appears, whole. Every live observer will report it.
Drop(p) ==
    /\ where[p] = "nowhere" /\ where' = [where EXCEPT ![p] = "pending"]
    /\ events' = [r \in Replicas |-> IF r \in watching THEN events[r] \cup {p} ELSE events[r]]
    /\ UNCHANGED <<recordVars, up, watching, toList, listed, taskVars, history, used>>

\* Mutant: no scan at start-up.
Boot_NoScan(r) ==
    /\ r \notin up
    /\ up' = up \cup {r} /\ watching' = watching \cup {r} /\ toList' = toList
    /\ UNCHANGED <<recordVars, where, events, listed, taskVars, history, used>>

\* folder_watcher_loop: the observer first, then the scan, so that no file falls
\* between the two.
Boot(r) ==
    /\ r \notin up
    /\ up' = up \cup {r} /\ watching' = watching \cup {r} /\ toList' = toList \cup {r}
    /\ UNCHANGED <<recordVars, where, events, listed, taskVars, history, used>>

ListFiles(r) ==
    /\ r \in toList /\ toList' = toList \ {r}
    /\ listed' = [listed EXCEPT ![r] = {p \in Pipelines : where[p] = "pending"}]
    /\ UNCHANGED <<recordVars, where, up, watching, events, taskVars, history, used>>

\* _handle up to its first await: the file is read and validated, or it is gone, or
\* it is moved to failed; an error nobody expected leaves the scan's file.
Begin(t, p) ==
    \/ /\ where[p] = "pending"
       /\ pc' = [pc EXCEPT ![t] = "check"] /\ pid' = [pid EXCEPT ![t] = p]
       /\ UNCHANGED <<num, where, used>>
    \/ where[p] # "pending" /\ UNCHANGED <<taskVars, where, used>>
    \/ /\ where[p] = "pending" /\ Fail /\ UNCHANGED taskVars
       /\ Move(p, "failed") \/ (Role(t) = "scan" /\ UNCHANGED where)

\* The observer thread waits for the handler of one event before it reports the
\* next; its set of files in flight is for a name reported twice, and each is
\* dropped once here.
TakeEvent(r, p) ==
    /\ p \in events[r] /\ Idle(<<r, "event">>)
    /\ events' = [events EXCEPT ![r] = @ \ {p}]
    /\ Begin(<<r, "event">>, p)
    /\ UNCHANGED <<recordVars, up, watching, toList, listed, history>>

TakeListed(r, p) ==
    /\ p \in listed[r] /\ Idle(<<r, "scan">>)
    /\ listed' = [listed EXCEPT ![r] = @ \ {p}]
    /\ Begin(<<r, "scan">>, p)
    /\ UNCHANGED <<recordVars, up, watching, toList, events, history>>

\* future.result(timeout=30) raises: the file goes to failed and the observer to its
\* next event, while _process goes on. (One such handler for a replica at a time.)
Timeout(r) ==
    LET event == <<r, "event">>
        late  == <<r, "late">>
    IN  /\ ~Idle(event) /\ Idle(late) /\ Spend("timeout")
        /\ Move(pid[event], "failed")
        /\ pc' = [pc EXCEPT ![late] = pc[event], ![event] = "idle"]
        /\ pid' = [pid EXCEPT ![late] = pid[event], ![event] = None]
        /\ num' = [num EXCEPT ![late] = num[event], ![event] = 0]
        /\ UNCHANGED <<recordVars, watchVars, history>>

\* The observer thread dies with what it had to report; the loop looks every
\* second and starts another, which does not know what it missed.
ObserverDies(r) ==
    /\ r \in watching /\ Spend("blind")
    /\ watching' = watching \ {r}
    /\ events' = [events EXCEPT ![r] = {}]
    /\ UNCHANGED <<recordVars, where, up, toList, listed, taskVars, history>>

ObserverRestarts(r) ==
    /\ r \in up \ watching /\ watching' = watching \cup {r}
    /\ UNCHANGED <<recordVars, where, up, toList, events, listed, taskVars, history, used>>

-----------------------------------------------------------------------------
(* The API.                                                                   *)

\* A request starts with a look at the config; the 409 and 404 are no steps here.
Request(t, p, place) ==
    /\ Role(t) = "api" /\ Host(t) \in up /\ Idle(t) /\ Spend("request")
    /\ pc' = [pc EXCEPT ![t] = place]
    /\ pid' = [pid EXCEPT ![t] = p]
    /\ UNCHANGED <<recordVars, where, watchVars>>

CreateRequest(t, p) ==
    /\ config[p] = 0
    /\ \E n \in {0} \cup Named :
          /\ Request(t, p, IF n = 0 THEN "counter" ELSE "recheck")
          /\ num' = [num EXCEPT ![t] = n]
    /\ UNCHANGED history

\* A delete of a pipeline that does not run and has nothing left to drain.
DeleteRequest(t, p) ==
    /\ config[p] # 0
    /\ Request(t, p, "dropTopic")
    /\ deleted' = deleted \cup {p}
    /\ UNCHANGED <<num, rolledBack, refused, tables>>

-----------------------------------------------------------------------------
(* What the two have in common, from the first look at Redis on.              *)

\* The pipeline is there already: 409, or the file has done its work.
Taken(t) == Settle(t, "processed") /\ UNCHANGED <<recordVars, watchVars, history, used>>

\* Mutant: the file is claimed by moving it before it is registered.
CheckConfig_MovesFirst(t) ==
    /\ pc[t] = "check"
    /\ \/ config[pid[t]] # 0 /\ Taken(t)
       \/ /\ config[pid[t]] = 0 /\ Move(pid[t], "processed")
          /\ Goto(t, "counter")
          /\ UNCHANGED <<recordVars, watchVars, num, history, used>>

CheckConfig(t) ==
    /\ pc[t] = "check"
    /\ \/ config[pid[t]] # 0 /\ Taken(t)
       \/ /\ config[pid[t]] = 0
          /\ Goto(t, "counter")
          /\ UNCHANGED <<recordVars, where, watchVars, num, history, used>>

\* next_collection_number: EXISTS, and without a counter a look at all configs,
\* SET NX of the largest number, and INCR. A counter that exists stays, so nothing
\* can come between EXISTS and INCR then.
NoCounter(t) ==
    /\ pc[t] = "counter" /\ counter = None
    /\ Goto(t, "scan")
    /\ UNCHANGED <<recordVars, where, watchVars, num, history, used>>

\* max(used, default=0)
LargestNumber ==
    LET numbers == {0} \cup {config[p] : p \in Pipelines}
    IN  CHOOSE n \in numbers : \A m \in numbers : m =< n

ScanNumbers(t) ==
    /\ pc[t] = "scan"
    /\ num' = [num EXCEPT ![t] = LargestNumber]
    /\ Goto(t, "seed")
    /\ UNCHANGED <<recordVars, where, watchVars, history, used>>

\* Mutant: SET without NX.
Seed_NoNX(t) ==
    /\ pc[t] = "seed"
    /\ counter' = num[t]
    /\ Goto(t, "incr")
    /\ UNCHANGED <<config, state, topics, where, watchVars, num, history, used>>

Seed(t) ==
    /\ pc[t] = "seed"
    /\ counter' = IF counter = None THEN num[t] ELSE counter
    /\ Goto(t, "incr")
    /\ UNCHANGED <<config, state, topics, where, watchVars, num, history, used>>

Incr(t) ==
    /\ pc[t] \in {"counter", "incr"} /\ counter # None
    /\ counter' = counter + 1
    /\ num' = [num EXCEPT ![t] = counter + 1]
    /\ Goto(t, "recheck")
    /\ UNCHANGED <<config, state, topics, where, watchVars, history, used>>

\* Mutant: the loser of a race between replicas counts its file as failed.
Recheck_LoserFails(t) ==
    /\ pc[t] = "recheck"
    /\ \/ /\ config[pid[t]] # 0 /\ Settle(t, "failed")
          /\ UNCHANGED <<recordVars, watchVars, history, used>>
       \/ /\ config[pid[t]] = 0 /\ Goto(t, "setConfig")
          /\ UNCHANGED <<recordVars, where, watchVars, num, history, used>>

\* create_pipeline of the repository looks again, and then writes two keys.
Recheck(t) ==
    /\ pc[t] = "recheck"
    /\ \/ config[pid[t]] # 0 /\ Taken(t)
       \/ /\ config[pid[t]] = 0 /\ Goto(t, "setConfig")
          /\ UNCHANGED <<recordVars, where, watchVars, num, history, used>>

SetConfig(t) ==
    /\ pc[t] = "setConfig"
    /\ config' = [config EXCEPT ![pid[t]] = num[t]]
    /\ tables' = tables \cup {num[t]}
    /\ Goto(t, "setState")
    /\ UNCHANGED <<state, counter, topics, where, watchVars, num, deleted, rolledBack, refused,
                   used>>

SetState(t) ==
    /\ pc[t] = "setState"
    /\ state' = [state EXCEPT ![pid[t]] = "CREATED"]
    /\ Goto(t, "provision")
    /\ UNCHANGED <<config, counter, topics, where, watchVars, num, history, used>>

\* create_topic takes an answer for a success, whichever error code the broker has put
\* into it for the topic; that it exists is one of them.
Provisioned(t) ==
    \/ topics' = topics \cup {pid[t]} /\ UNCHANGED <<refused, used>>
    \/ /\ pid[t] \notin topics /\ Spend("refusal")
       /\ refused' = refused \cup {pid[t]} /\ UNCHANGED topics

\* Mutant: provisioning that raised is only logged.
Provision_Ignored(t) ==
    /\ pc[t] = "provision"
    /\ \/ Provisioned(t)
       \/ Fail /\ UNCHANGED <<topics, refused>>
    /\ Settle(t, "processed")
    /\ UNCHANGED <<config, state, counter, watchVars, deleted, rolledBack, tables>>

\* provision: topic, then table. If it raises, the API takes the records back, the
\* watcher keeps them and marks them.
Provision(t) ==
    /\ pc[t] = "provision"
    /\ \/ /\ Provisioned(t)
          /\ Settle(t, "processed")
          /\ UNCHANGED rolledBack
       \/ /\ Fail /\ topics' \in {topics, topics \cup {pid[t]}}
          /\ IF Role(t) = "api"
             THEN rolledBack' = rolledBack \cup {pid[t]} /\ Goto(t, "delConfig")
             ELSE UNCHANGED rolledBack /\ Goto(t, "mark")
          /\ UNCHANGED <<where, num, refused>>
    /\ UNCHANGED <<config, state, counter, watchVars, deleted, tables>>

\* update_state(FAILED) reads the record first. If it has gone meanwhile that raises;
\* the observer's caller moves the file all the same, the scan's only logs.
MarkGet(t) ==
    /\ pc[t] = "mark"
    /\ \/ /\ state[pid[t]] # "none" /\ Goto(t, "markSet")
          /\ UNCHANGED <<where, num>>
       \/ /\ state[pid[t]] = "none" /\ Finish(t)
          /\ IF Role(t) = "scan" THEN UNCHANGED where ELSE Move(pid[t], "failed")
    /\ UNCHANGED <<recordVars, watchVars, history, used>>

\* It writes what it has read, FAILED, though a delete may have come in between.
MarkSet(t) ==
    /\ pc[t] = "markSet"
    /\ state' = [state EXCEPT ![pid[t]] = "FAILED"]
    /\ Settle(t, "failed")
    /\ UNCHANGED <<config, counter, topics, watchVars, history, used>>

\* A Redis call raises. Around create_pipeline _handle catches it; elsewhere it is
\* the observer's caller that does, and the scan's caller leaves the file.
Raise(t) ==
    /\ pc[t] \notin {"idle", "provision"} /\ Fail
    /\ IF \/ Role(t) = "api"
          \/ Role(t) = "scan" /\ pc[t] \notin {"recheck", "setConfig", "setState"}
       THEN UNCHANGED where
       ELSE Move(pid[t], "failed")
    /\ Finish(t)
    /\ UNCHANGED <<recordVars, watchVars, history>>

-----------------------------------------------------------------------------
(* Taking a pipeline away: a delete, or an API create that is rolled back.     *)

DropTopic(t) ==
    /\ pc[t] = "dropTopic"
    /\ topics' = topics \ {pid[t]}
    /\ Goto(t, "delConfig")
    /\ UNCHANGED <<config, state, counter, where, watchVars, num, history, used>>

\* A number that goes before there is a counter leaves no trace: the counter will be
\* seeded from the configs that are left.
DelConfig(t) ==
    /\ pc[t] = "delConfig"
    /\ config' = [config EXCEPT ![pid[t]] = 0]
    /\ tables' = IF counter = None THEN tables \ {config[pid[t]]} ELSE tables
    /\ Goto(t, "delState")
    /\ UNCHANGED <<state, counter, topics, where, watchVars, num, deleted, rolledBack, refused,
                   used>>

DelState(t) ==
    /\ pc[t] = "delState"
    /\ state' = [state EXCEPT ![pid[t]] = "none"]
    /\ Finish(t)
    /\ UNCHANGED <<config, counter, topics, where, watchVars, history, used>>

-----------------------------------------------------------------------------
\* Mutant: the observer is taken to outlive its process.
Crash_ObserverStays(r) ==
    /\ r \in up /\ Spend("crash")
    /\ up' = up \ {r} /\ toList' = toList \ {r}
    /\ events' = [events EXCEPT ![r] = {}]
    /\ listed' = [listed EXCEPT ![r] = {}]
    /\ pc' = [t \in Tasks |-> IF Host(t) = r THEN "idle" ELSE pc[t]]
    /\ pid' = [t \in Tasks |-> IF Host(t) = r THEN None ELSE pid[t]]
    /\ num' = [t \in Tasks |-> IF Host(t) = r THEN 0 ELSE num[t]]
    /\ UNCHANGED <<recordVars, where, watching, history>>

\* A replica is killed with everything it was doing.
Crash(r) ==
    /\ r \in up /\ Spend("crash")
    /\ up' = up \ {r} /\ watching' = watching \ {r} /\ toList' = toList \ {r}
    /\ events' = [events EXCEPT ![r] = {}]
    /\ listed' = [listed EXCEPT ![r] = {}]
    /\ pc' = [t \in Tasks |-> IF Host(t) = r THEN "idle" ELSE pc[t]]
    /\ pid' = [t \in Tasks |-> IF Host(t) = r THEN None ELSE pid[t]]
    /\ num' = [t \in Tasks |-> IF Host(t) = r THEN 0 ELSE num[t]]
    /\ UNCHANGED <<recordVars, where, history>>

\* One step of a task that is under way.
Step(t) ==
    \/ CheckConfig(t) \/ NoCounter(t) \/ ScanNumbers(t) \/ Seed(t) \/ Incr(t)
    \/ Recheck(t) \/ SetConfig(t) \/ SetState(t) \/ Provision(t) \/ MarkGet(t)
    \/ MarkSet(t) \/ DropTopic(t) \/ DelConfig(t) \/ DelState(t)

Next ==
    \/ \E p \in Pipelines : Drop(p)
    \/ \E r \in Replicas : Boot(r) \/ ListFiles(r) \/ ObserverDies(r) \/ ObserverRestarts(r)
                           \/ Timeout(r) \/ Crash(r)
    \/ \E r \in Replicas, p \in Pipelines : TakeEvent(r, p) \/ TakeListed(r, p)
    \/ \E t \in Tasks : Step(t) \/ Raise(t)
    \/ \E t \in Tasks, p \in Pipelines : CreateRequest(t, p) \/ DeleteRequest(t, p)

Spec == Init /\ [][Next]_vars

-----------------------------------------------------------------------------
(* Properties.                                                                *)

Places == {"idle", "check", "counter", "scan", "seed", "incr", "recheck", "setConfig",
           "setState", "provision", "mark", "markSet", "dropTopic", "delConfig", "delState"}

\* Every variable has its type, and a task that is under way has a pipeline.
TypeOK ==
    /\ config \in [Pipelines -> Nat]
    /\ state \in [Pipelines -> {"none", "CREATED", "FAILED"}]
    /\ counter \in Nat \cup {None}
    /\ topics \subseteq Pipelines /\ deleted \subseteq Pipelines
    /\ rolledBack \subseteq Pipelines /\ refused \subseteq Pipelines /\ tables \subseteq Nat
    /\ where \in [Pipelines -> {"nowhere", "pending", "processed", "failed"}]
    /\ up \subseteq Replicas /\ watching \subseteq up /\ toList \subseteq up
    /\ events \in [Replicas -> SUBSET Pipelines] /\ listed \in [Replicas -> SUBSET Pipelines]
    /\ pc \in [Tasks -> Places]
    /\ pid \in [Tasks -> Pipelines \cup {None}]
    /\ num \in [Tasks -> Nat]
    /\ used \in [{"request", "fail", "refusal", "timeout", "blind", "crash"} -> Nat]
    /\ \A t \in Tasks : Idle(t) <=> pid[t] = None

\* "Pipeline registered exactly once", whichever replicas and clients see it at the
\* same time: the folder watcher's docstring. create_pipeline looks and then writes
\* in two steps, so two creators may both have looked before one writes.
RegisteredOnce == \A t \in Tasks : pc[t] = "setConfig" => config[pid[t]] = 0

\* "Each new pipeline gets its own table", of a number that is "never reused after a
\* delete": the docstring of next_collection_number. A number from the counter that is
\* about to be written into a config is and was no config's, though many tasks seed
\* and increment the counter at once. Two cases are left out. A request may name a
\* number itself, and the counter, once seeded, does not look at those. And a pipeline
\* older than the counter that is deleted before the first create is forgotten (see
\* DelConfig): its number, and the data in its table, go to the next pipeline,
\* against what the docstring says.
CounterGivesOwnTable ==
    \A t \in Tasks : pc[t] = "setConfig" => num[t] \in Named \/ num[t] \notin tables

\* A good file lands in failed only if something failed or took longer than the
\* 30 s: losing a race against another replica or a client is no failure.
FailedIsExplained ==
    \A p \in Pipelines : where[p] = "failed" => used.fail + used.timeout > 0

Settled == \A t \in Tasks : Idle(t)

\* A file in processed has its pipeline registered, whatever fails and dies, and
\* registered whole unless a call failed or a replica died over it: being overtaken by
\* another replica or a client loses nothing. Two cases are left out: a delete that
\* somebody asked for, and an API create that is rolled back when its provisioning
\* fails. The latter takes away records by which a watcher may have taken its file
\* for registered: that file stays in processed without a pipeline.
ProcessedIsRegistered ==
    \A p \in Pipelines \ (deleted \cup rolledBack) :
        where[p] = "processed" =>
            config[p] # 0 /\ (Settled /\ used.crash + used.fail = 0 => state[p] # "none")

\* A registered pipeline that is not marked FAILED has its topic, so its first
\* record has somewhere to land, whichever of several creates failed at provisioning.
\* (It takes a second failure, of Redis, to lose the mark.) Left out are the topics
\* that the broker refused with an error code: create_topic reads no codes, though
\* delete_topic does, and such a pipeline is CREATED without a topic.
ProvisionedOrMarked ==
    used.crash = 0 /\ used.fail < 2 /\ Settled =>
        \A p \in Pipelines \ (deleted \cup refused) :
            config[p] # 0 /\ state[p] = "CREATED" => p \in topics

\* r has p's file in hand or will come across it.
Knows(r, p) ==
    \/ r \notin up \/ r \in toList
    \/ p \in events[r] \cup listed[r]
    \/ \E t \in Tasks : Host(t) = r /\ pid[t] = p /\ Role(t) # "api"

\* A file that waits is known to some replica, or will be at its next start, though
\* replicas die and time out over it: none falls between the scan and the observer.
\* An observer that died may have missed it, and an error ends the scan's attempt.
NoFileForgotten ==
    used.fail = 0 /\ used.blind = 0 =>
        \A p \in Pipelines : where[p] = "pending" => \E r \in Replicas : Knows(r, p)
=============================================================================
