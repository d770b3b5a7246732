# A TLA+ verification project for the live streaming data pipelines

The repository moves sensor readings from a source through Kafka into ClickHouse, and
lets an operator create, start, stop, restart and delete such pipelines. These modules
state what the parts with state promise, check it on small instances with TLC and prove
the most important of it for all instances with TLAPS. Paths below are relative to `src/`.

## 1. The system

| Part | Keeps | Operations | Talks to |
|---|---|---|---|
| Producer (Telegraf, and the OPC UA connector for that source) | nothing durable; the time of the last read | read, emit, health answer | source, Kafka |
| Consumer pool, `services/consumer_pool/app` | per replica: assignment, positions, registry cache, known tables, the lock `_handle` holds | poll, route, map, insert, isolate, dead-letter, commit; hold a rebalance | Kafka, Redis (config), ClickHouse |
| Task Manager API, `services/task_manager/task_manager/app` | nothing of its own | create, start, stop, restart, delete; provision, drain | Redis, runtime, Kafka, ClickHouse |
| Folder watcher, same process | files in flight, an observer thread | scan at start-up, handle an event, restart the observer | directory shared by the replicas, Redis, Kafka, ClickHouse |
| Repository, `common/app_common/redis_repo.py` | config and state record per pipeline, a collection counter per user | create, update (GET then SET), delete (two DELs), publish | Redis |
| Controller, `services/task_manager/controller` | an asyncio lock per pipeline | reconcile loop, event listener, `_act` | Redis, Docker |
| Watchdog, `services/task_manager/watchdog` | nothing | `_check`, `_restart` | Redis, Docker |
| Leader lock, `common/app_common/leader_lock.py` | a Redis key with a time to live, a renewal task | acquire, renew, release | Redis |
| Runtimes, `common/app_common/runtime` | containers or Deployments | start, stop, restart, is_running | Docker, Kubernetes |
| Row mapping, naming, DDL, Telegraf configuration, settings | nothing | pure functions | |

What is hard in it, and what makes each part correct:

* **Pool.** Insert and commit are two systems; between them a replica may die, be thrown
  out of the group, or be in the middle of a rebalance that every new pipeline causes.
  Correct means: no committed record without a row or a dead letter, few and accounted-for
  duplicates, a bad record that harms only itself, and a lag that ends.
* **Leader lock.** A lease with a clock, a background renewal and a non-atomic release.
  Correct means: one main loop at a time, nobody's key deleted but one's own, and a
  bounded gap after a crash.
* **Control plane.** API, controller and watchdog write the same record with GET and SET
  and command the same container, each with awaits in between. Correct means: they do not
  get in each other's way, the record tells what the runtime does, and a delete does not
  take records away.
* **Registration.** Files seen by several replicas, by a scan and by an observer thread whose
  time-out does not stop the coroutine it waits for, against API creates, roll-backs and
  deletes. Correct means: no file forgotten or counted as failed without a failure, no half
  registered pipeline that looks whole, and one table per pipeline.
* **Connector.** Alive but silent, a server that accepts and does not answer, a session that
  is lost, a server that is slow. Correct means: silence ends, a hiccup does not cost the pod of
  a prompt source, and the connector comes back.

`PROJECT.json` lists each hazard at its line with the properties that would catch it.

## 2. The modules

```
DeliveryContract   <-- implemented by --  ConsumerPool     <- MCConsumerPool, ConsumerPoolProofs,
                                                              CommitProofs, WriteProofs
                                          LeaderLock       <- MCLeaderLock, LeaderLockProofs
                                          Lifecycle        <- MCLifecycle, LifecycleProofs
                                          Registration     <- MCRegistration, RegistrationProofs, ProvisioningProofs
                                          SourceHealth     <- SourceHealthProofs
```

The properties stand with the component, the inductive invariants with the proofs. The modules
meet at shared interfaces. `Lifecycle.PoolCommits` is what `ConsumerPool.EventuallyDrained`
promises and what the API's drain waits for. `ConsumerPool.NewTopic`/`Register` are the ends
of `Registration.SetConfig` .. `Provision`, of which `Lifecycle` has its own, for a pipeline no file competes for.
`LeaderLock.Working` is when the loops of `Lifecycle` run, of which `Lifecycle` has one each.
`SourceHealth` is the inside of a producer that `Lifecycle` calls "running".

### ConsumerPool

Replicas of `main.py`, the broker's side of the consumer group, Redis' configs and
ClickHouse's tables. A topic has one partition (`provisioning.create_topic`), so a topic stands
for its partition.

| Code | Model |
|---|---|
| `run` up to the loop | `Start` (dies at once if ClickHouse is away: it stays down until it is back) |
| `getmany`, `_handle` taking the lock, the assignment check of line 150 | `Poll`: nothing between them can block, so the batch is still assigned |
| `PipelineRegistry.get` | `RouteTopic`; a topic with no config is skipped |
| `ensure_table`, then `to_row` on every record | `PrepareTable`: `TableFails`, or `MapRecords` |
| `_insert`, `_insert_individually`, `_dead_letter` | `InsertBatch`, one `IsolateRecord` per record in order, `DeadLetter` |
| `ClickHouseConnectionManager.execute` | `Execute`: how often the insert was applied, and whether the caller sees success |
| the rest of the loop, `commit` | `WriteDone`, `WriteFailed`, `EndOfBatch`, `Commit` |
| `CommitBeforeRevoke` | `BeginRevoke`, then `Join` only with the lock free |
| SIGTERM, kill, expulsion | `Stop`, `Crash`, `Kick`, `ExpireDead` |

A record is `good`, `unmappable` (`to_row` raises `RecordError`), `poison` (ClickHouse refuses it) or `huge`: an
integer that `float()` cannot hold (`rows.py` 67) raises `OverflowError`, which `write` does not catch, so its batch is
given up with ClickHouse up. A table that a ClickHouse which is up refuses does the same, once and for an outage.
`rows[t][o]` and `dlq[t][o]` count, so duplicates are visible. `setAside` is a history of the
offsets a batch moved past without writing (lines 154 and 174). "ClickHouse down" means longer
than a whole ladder of retries; a shorter outage is invisible to the caller but for an insert
applied again, once for each reply that was lost. Batches keep their topics in a set: the order `getmany` returns them in is arbitrary.

The eager protocol of aiokafka is assumed: every member gives all partitions up and joins again.
Redis and Kafka client errors other than the two that `commit` catches leave `run` and kill the
process, so they are `Crash`. So does a record without a value, or one on which `json.loads` raises what
`main.py` 161 does not catch; it does so again after each restart, as often as `MaxCrashes` allows.

### DeliveryContract

What is left when consumers, lock, group and ClickHouse are taken away: records are delivered any
number of times or set aside, and one commit moves offsets forward over such records only.
`ConsumerPool` implements it with `delivered` mapped to the offsets with a row or a dead letter.

### LeaderLock

One action per Redis command, `Tick` for the clock. `MaxDelay` bounds a chain, not a single delay: what the
reply of the last refresh, the late wake-up, GET and EXPIRE of one renewal take together beyond `Renew`, the same for one
attempt, and GET and DELETE of one release together. Redis applies a command at an instant. `RenewGet` and `RenewExpire` are apart, as are
`ReleaseGet` and `ReleaseDelete`. `RenewDies` is a Redis error in the renewal task: nobody awaits
it. The main loops never look at `is_leader`, so `RenewGet` clearing it stops nothing. `acting` is who has an `_act` or
a restart under way: `ActStarts` in the main loop, `ActEnds` whenever it is through, for `Release` neither cancels nor
awaits it. What a loop has started may so outlive its lock; the exclusion is one of main loops. The
non-blocking context-manager form is used by no service and left out.

### Lifecycle

One live pipeline (pipelines share no key), the API's handlers, both loops, both runtimes, the
topic and its lag. `UpdateGet`/`UpdateSet` are the two round trips of `update_state`; between any two awaits others
run. `Claim`, `Success` and `Failure` are the fields written before the runtime is called, after it
returned and after it raised, by each caller. An update that finds no record raises: a handler ends there, a loop
that is inside its `try` (`Guarded`) goes on to write a failure. A Redis error in a handler ends it as `Crash` does. A
runtime call that raises may have been carried out, partly or not at all. `Provision` may succeed without a topic:
`create_topic` does not read the codes in the broker's response. Folded, because nothing another actor does in between is told apart:

* the two reads of the config in create (API and repository) are one: a second create that falls between them is
  `Registration`'s;
* `_act`'s reads of state and config are one step, and so are `_check`'s;
* the reconcile loop's own read is only a trigger: `_act` reads again and only that decides;
* `wait_for_drain` asks for end and committed offset in two calls; the model sees the lag at once;
* `next_collection_number`, `list_pipeline_ids` and the read-only routes change nothing here.

`runtime` is `RUNTIME_MODE`: the loops are deployed beside Docker only (`Deployed`; under
Kubernetes they get the adapter that does nothing). `Calm` (nothing failed, died or crashed, and the
watchdog restarted nothing yet) reads `used`, which counts the accidents; `abandoned` (a delete
took the records of a running producer away) is a history variable.

`Clients` are requests that may overlap on the pipeline. With one, record and producer end in agreement. With two they need
not: no call takes a lock (`main.py` 204), so a start and a stop that cross may each leave the other's record behind.
What overlapping requests still keep is `NoCallLeftHanging`: start, stop and the loops pass over a record in STARTING or
STOPPING, taking it for a call under way, so one that stays in such a status is looked after by nobody. `ConfigHasState`
is about the two keys of a pipeline, which create and delete write one after the other and every other handler reads.

### Registration

Several Task Manager replicas on one directory, each with four tasks: an API request, the event
the observer thread waits for, the handler of an event it stopped waiting for, and the start-up scan.

| Code | Model |
|---|---|
| `folder_watcher_loop` | `Boot` (the observer), then `ListFiles`; `ObserverRestarts` |
| `on_created`, `_process` | `TakeEvent`, one file at a time; `Timeout` moves the file and leaves the coroutine running as `late` |
| `_scan_existing` | `TakeListed`, one file at a time |
| `_handle` | `Begin` up to its first await, `CheckConfig`, the counter, `Recheck` .. `SetState`, `Provision`, `MarkGet` and `MarkSet` (the two round trips of `update_state`); each return is a `Settle` |
| `create_topic`, `provision` | `Provisioned`: with the topic, or with a refusal nobody notices; else `Provision`'s failure |
| `_move` | `Move`: a file that has gone is no error |
| `next_collection_number` | `NoCounter`, `ScanNumbers`, `Seed`, `Incr`: EXISTS, the scan, SET NX, INCR |
| `create_pipeline`, `delete_pipeline` of the repository | `Recheck`, `SetConfig`, `SetState`; `DelConfig`, `DelState` |
| API create and delete | `CreateRequest`, the same steps, roll-back through `DelConfig`; `DeleteRequest`, `DropTopic` |
| a Redis call that raises | `Raise`, with the file where each caller leaves it |

All pipelines are user "0"'s with the default table name, so a table is its collection number.
Folded: the look-ups of the scan for the largest number are one step (a config that is written
meanwhile has its number from the counter, which then exists); an API request's first look at the
config is the request itself. A delete is one of a stopped, drained pipeline: `Lifecycle` has the rest.
A file bears its pipeline's name and appears whole; one that cannot be read or fails validation is
an accident of `Begin`, and so is an error nobody expected, after which the scan leaves its file where it is.

Four histories tell what the properties need to know of the past: `tables` (numbers that configs have or had, those
deleted before the counter excepted), `deleted`, `rolledBack` (pipelines whose API create was taken back) and `refused`
(pipelines whose topic the broker refused).

### SourceHealth

The connector's process (`connecting`, `subscribing`, `on`, `cut`, `closing`, `off`, `gone`), Telegraf's restart after
`restart_delay`, and kubelet's probe, on a clock of ticks. `ConnectTimeout` is how long one request is waited for, and
connecting and subscribing take several (`Answer`); a whole connect to a source that is up takes at most `MaxConnect`, the
disconnect of a process that failed at most `MaxClose`. Nothing in the code or its settings relates these two to the
probe. `Prompt` says which values a source must keep to for a dropped session to be harmless. The source is up, quiet (sessions live,
nothing changes: the mock server's freeze), hung (accepts, does not answer) or down. `age` is what
`/healthz` sees; `quiet` is the time this process has really been subscribed without data, which no
code keeps. Compose is the same without a probe. `TimingAssumption` states what the manifest's
numbers satisfy whatever the connector's settings are; see section 3.

## 3. The runs

| Run | Question | Bounds |
|---|---|---|
| `pool_rebalance` | do rebalances lose or repeat records? | 2 replicas, 2 topics appearing at any time, 2 records each of all kinds, 1 orderly stop |
| `pool_faults` | what do a crash, an expulsion, a lost reply, an outage, a huge record and a missing config cost? | 2 replicas, 1 orphan topic, 2 records good or huge, 1 of each accident |
| `pool_live` | does the lag end? does the pool implement the contract? | 2 replicas, 2 records, batches of 1, 1 crash, 1 expulsion, fair |
| `pool_outage_loses` | violation: a skipped batch is not read again | 1 replica, 2 good records, 1 outage |
| `pool_outage_dead_letters` | violation: an outage dead-letters good records | same |
| `lock` | exclusion, ownership, takeover | 3 instances, TTL 5, renew 2, retry 1, delay 1, 1 failed renewal task |
| `lock_split_brain` | violation: a dead renewal task | 2 instances, same times |
| `lifecycle` | do API, controller and watchdog interfere? does the record admit what failed? is a death noticed? can the record stay in a status everybody passes over, or without its other key? | 1 client, both loops, both runtimes, 4 calls, 2 accidents out of 2 failures, 2 deaths, 1 crash |
| `lifecycle_late_flush` | violation: a delete under Kubernetes loses a late flush | 1 client, 4 calls |
| `registration` | is every file dealt with, every pipeline whole, every number from the counter a new one? | 2 pipelines (perhaps one there already), 1 replica with its four tasks, 1 API request, 1 accident (an error, a refused topic, a time-out, a death) |
| `registration_twice` | violation: two replicas register one pipeline | 2 replicas, 1 file |
| `source_health` | is silence bounded, a hiccup harmless to a prompt source, recovery final? | numbers below, 3 changes of the source or dropped sessions, fair |

**Why these bounds.** Two replicas are what a rebalance moves a topic between; a third would only repeat the
second's part. Two records make a batch that is partly bad, and a batch that follows a skipped one. One of
each accident suffices for the double handling a bug would show, and the bound on duplicates counts accidents,
so a second would only raise both sides. The lock's numbers keep the order of the real ones (15, 5, 3): TTL
larger than renewal plus two delays, retry smaller than TTL; its state space is finite without further bounds,
processes may die and restart for ever. Four calls are a create, a start, and a failed stop or restart with
what repairs it; two accidents are a failed call and a death that crosses it. Overlapping requests are left to
the proof of `NoCallHangs`, which takes any number; to see two in TLC, give `lifecycle.cfg` a second client,
the controller alone, no deaths, crashes or lag, and the invariant `NoCallLeftHanging` (1.5 million states).
In `registration` the one replica's event, late, scan and API tasks already race for both pipelines and for
the counter; the second replica adds no kind of race and is what the proofs cover. `source_health` has the
real numbers' order at 2.5 s a tick (check 5 s, a request 4 s, restart 10 s, period 10 s, three failures, threshold
60 s, start 30 s after it): all of them to scale, a whole connect that takes more than one request's time-out and just
less than the probe leaves it, and a source that has data just often enough. The proofs lift
the bounds.

Deadlock is checked in the runs of the lock and of the connector. `ConsumerPool`, `Lifecycle` and `Registration`
may stop because of the bounds: all records produced and committed, all calls and accidents spent.

**What the violations say.** Five statements of the repository are not what the code does:

1. `main.py` 171: a batch whose write failed is "re-read when it's back". Nothing seeks back; the
   next batch of that topic commits over it. Only a rebalance or restart before that re-reads it.
2. ARCHITECTURE 3.3.1: an outage is "*not* dead-lettered". The per-record retries catch everything;
   if ClickHouse returns before the dead-letter insert, good records end there.
3. `leader_lock.py` 16: "Only the holder runs the main loop." Not after its renewal task died.
   (Also its line 18, takeover "within LOCK_TTL_S": the bound that holds adds the retry interval and
   a delay, `TakenOver`.)
4. `provisioning.py` 72: the drain is there so that a delete drops nothing. Scaling to 0 does not
   wait for the pod, which may flush after the drain was seen. Docker's stop waits.
5. `folder_watcher.py` 31: the second replica's `create_pipeline` "raises ValueError", so the pipeline is
   "registered exactly once". It looks and then writes with a plain SET; both replicas may have looked
   before either writes, and the second overwrites the first's collection number. (The first number is
   then nobody's: `CounterGivesOwnTable` still holds.)

A sixth is named in a property instead: `redis_repo.py` 53, a number is "Never reused after a delete". It is, if the
pipeline that had it was deleted before the first create, when there was no counter yet: the seed is the largest number of
the configs that are left. `CounterGivesOwnTable` speaks of all others (and of numbers from the counter only: one that a
request names itself is not entered into it).

What the properties leave out on purpose, because the code does not give it: `FailureIsFlagged` is stated for
Kubernetes, since a controller or watchdog that acts on what it read before an API call can undo what
the call wrote; `DeathIsNoticed` holds until the watchdog's first restart, which leaves STARTING behind, a status
the watchdog passes over, and for the same reason `NoCallLeftHanging` counts STARTING beside Kubernetes only;
`ConfigHasState` ends with a crash, which the code does not repair, and is for one request at a time, since the second DEL
of a delete can hit the state of the create that follows it; `NoFileForgotten` excepts an observer that died, whose successor does not scan;
`SilenceIsBounded` is about one process, since each reconnection starts a fresh last read; `ProcessedIsRegistered`
excepts pipelines whose API create was rolled back, since the roll-back (`main.py` 161) deletes records on the strength of which
a watcher may have moved its file; `ProvisionedOrMarked` excepts topics the broker refused, since `create_topic`
(`provisioning.py` 33) takes any response for a success; `OneDropCostsNoPod` is for a prompt source, since the
time-out is one request's and a connect makes several; `CommittedIsHandled` is checked without huge records, which are one
of the ways into the first finding. `CalmAgrees` and `ControllerStaysOut` say nothing of dropped events: while nothing goes
wrong the controller has nothing to do, and that its reconcile loop needs no event is what makes a dropped one harmless.

**Fairness.** `pool_live`: Weak fairness of a replica's own steps, of its part in a
rebalance, and of restarting: processes are scheduled, and Compose and Kubernetes restart them.
Weak fairness of the broker ending a rebalance and timing a dead member out, which session
time-outs do. ClickHouse comes back eventually. Nothing is assumed of producers, of live members
being thrown out, or of crashes; those are bounded in number, which "once disturbances stop" means.
`source_health`: weak fairness of the clock and of each step of connector, Telegraf and kubelet, which are
timers and retries that their programs serve; of the source nothing but that one that is up answers each
request within the time-out and a connect within `MaxConnect`, and has data every `MaxGap`, which the guard of `Tick` says. The other runs have safety only.

## 4. What is proved

With TLAPS, for any constants that satisfy the named assumptions.

`ConsumerPoolProofs`, from `ConstantsAssumption`:

* `DeliveryInvariant`: `Spec => []DeliveryInv`. `NothingLostSilently` is not inductive: a commit
  moves the offset to the replica's position, so one must know that all below the position of a
  topic in `offsets` is dealt with. `ReadOK` says it, with the topics still in `todo` excepted;
  `BatchOK` says that a batch's records are in `keep`, in `dead` or in the table at each await; and
  `LockOK` says that a replica with a batch in hand has not joined the next generation, hence
  is not assigned anything new under its batch. `CommittedInRange` gives a new assignment its
  starting position. One lemma per group of actions shows that they preserve each part.
* `TypeCorrect` and `LossNeedsSetAside` follow.
* `CommittedMeansHandled`: with `MaxOutages = 0`, `Orphans = {}` and no huge records, `CommittedIsHandled`. `CleanInv`
  adds that assigned topics exist and existing topics have a config, so nothing is ever set aside.

`CommitProofs`, on top of these:

* `OneCommitterHolds` (`OneCommitter`) and `CommitsAdvance` (`CommitsOnlyAdvance`) from `HolderInv`. Neither is
  inductive: that two replicas share no topic follows from the broker's `owner`, and that `owner[t] = c` for what
  `c` is assigned is true only while `c` is `Current`: a member that has not joined the next generation and either
  has a batch in hand or no revocation pending. `LockOK` keeps a rebalance from completing under a member's batch.
  That a current replica's position is not below the committed offset gives `CommitsAdvance`.
* `PoolImplementsContract` (`ImplementsContract`): one lemma per group of actions shows that its step is a step of
  `DeliveryContract` or a stutter. Writes are deliveries, skips are settings-aside, and a commit needs `ReadOK`
  for what it covers and `HolderInv` for its direction. `HandInv` says that only logged records are written.

`WriteProofs`, on top of these:

* `DuplicatesPaid` (`DuplicatesArePaidFor`) from `PaidInv`. The bound itself is not inductive: a replica that has
  written a batch and not committed it has used up a record's one free write, one that was expelled may write it
  once more without any further accident. So each record has an account: copies written, plus one
  for each replica outside the group that may still write it (`Strays`), plus one while the group itself may
  (`Open`: not committed, and no member that has written it is on its way to the commit, `Secures`). Crash,
  expulsion, lost reply and outage pay in; an insert moves one from "may" to "written". A rebalance changes
  nothing, because the listener holds it until the batch is committed; that is where `LockOK` and `HolderInv` enter.
* `OnlyBadRecordsDie` (`OnlyBadRecordsDeadLetter`) from `KindInv`: while there was no outage, `keep` has no record
  the mapping rejects and `dead` no good one, at each await of the isolation.

`LeaderLockProofs`, from `LockAssumption`:

* `LockInvariant`, and from it `OneLeaderHolds` and `DeletesOwnLockHolds`, assuming
  `Timely == Renew + MaxDelay + MaxDelay < TTL`: a renewal and a release as late as they may be still
  beat the expiry. `Holds` relates `ttl` to the ticks since the last refresh; the two add up to at least
  TTL, which is what each step preserves. With the code's 15 and 5, all the delays of one renewal together, and all of
  one release, must stay below 5 s.
* `TakeoverBound`: `TakenOver` with no timing assumption. `WaitInv` relates the time waited to what is
  left of the key, and after its expiry to the timer of the next attempt.

`RegistrationProofs`, from `RegistrationAssumption`:

* `TypeCorrect`.
* `WaitingIsKnown` (`NoFileForgotten`) and `OnlyFailuresFail` (`FailedIsExplained`) from one invariant, `FileInv`.
  It adds to the two that a task marks a pipeline only after something failed, that only API tasks delete (so a
  watcher's task ends with its file moved), and that while no observer has died every replica that is up watches.
  `Keeps` is what all the steps of a task have in common.
* `TablesAreOwn`: `CounterGivesOwnTable`. `NumberInv` says where numbers are between the steps of
  `next_collection_number`: once there is a counter no number a config has or had, and none in hand, is above it; a seed
  in hand while there is none is at least as large as every number in `tables`; and, named numbers apart, no two tasks hold
  one number, nor one that is in `tables`. Before there is a counter each
  is a config's or named, and a creator replaces no config but one with a named number (`Overwrites`). `LargestExists` (a finite set of numbers has a largest) comes
  from the library's well-foundedness of finite subsets.

`ProvisioningProofs`, on top of these:

* `ProcessedIsWhole` (`ProcessedIsRegistered`) and `TopicOrMark` (`ProvisionedOrMarked`) from `WholeInv`, which says,
  of a pipeline nobody has asked to delete, which task accounts for what is not there yet: a config without a
  state has a task at `SetState`, a CREATED pipeline without a topic one at `Provision` or was refused, and after one failure
  one that still has to mark the pipeline, to take it away, or to begin again (`Halfway`). `Kept` says that only a
  delete and a roll-back take a config away, whatever fails, which is the half of `ProcessedIsRegistered` that holds always. It needs `NumberInv` (the number a
  task writes is not 0, "no config") and `FileInv` (who marks has met a failure). `PassedBy` shows that a task's step
  leaves other pipelines alone, the `Own` lemmas what it does to its own.

`SourceHealthProofs`, from `TimingAssumption` and `HorizonAssumption`:

* `TypeCorrect`.
* `NeverAliveAndSilent` (`SilenceIsBounded`): `SilenceInv` bounds the silence plus the time to the next probe by the
  initial delay and a period for each failure so far. A probe that finds the threshold not yet passed resets
  the failures and still keeps it, because the initial delay exceeds the threshold by at least a period.
* `OneDropIsHarmless` (`OneDropCostsNoPod`): `DropInv` says of a pod that was never troubled that before its drop
  no probe has failed, and that after it the failures times the period do not exceed the time the connector
  has been away plus the time to the next probe. `Prompt`, an antecedent of the property and no assumption of the
  module, has disconnect, delay and connect over before the third.

`LifecycleProofs`, from `LifecycleAssumption`:

* `LifecycleTypes` (`TypeOK`), for any number of concurrent requests. It needs `ChangesOK` (a handler about to read
  has changes to make) and that the absence of a record is no record (`None \notin States`): a SET could otherwise
  write what no GET returns whole.
* `ControllerKeepsOut`, `CalmRequestsAgree`, `CalmDeletesAreSafe` and `DeathsAreNoticed`, from `RequestInv`. It gives
  for each place of a handler what the request knows of record and producer there: at rest they agree (`AtRest`);
  after its claim the record says STARTING or STOPPING, or, for a restart, still what it said (`Claimed`); and once
  the runtime has answered, the producer is up exactly when the request will report so (`Reports`). In all of them the
  record is one the controller leaves alone (`ControllerHasNothingToDo`), so the steps that remain are the request's
  own, producer and pool, and a watchdog that finds nothing.
* `FailuresAreFlagged` (`FailureIsFlagged`), from `FlagInv`: the same by place beside Kubernetes, where calls may fail.
  A record that disagrees with its Deployment is either marked FAILED or has a request at work on it that knows
  what it will write (`Confirms`, `Admits`).

* `NoCallHangs` (`NoCallLeftHanging`), for any number of requests at once, from `HangInv`. The property looks at a
  pipeline nobody is at work on; the invariant has to say who will write when somebody is: behind every transitional status
  there is a handler that still has its GET, its SET or a runtime call before it (`AtWork`), and whatever a
  handler that is about to end or to publish writes last is at rest (`SaveOK`). The order in which handlers overwrite
  each other then does not matter: every update sets the status, whatever else it takes over from what it read, and a
  claim leads on to a runtime call, whose answer, or whose exception by `Failed`, leads to another update.
* `ConfigsHaveStates` (`ConfigHasState`), from `KeysInv`: the state is missing only between a create's two SETs, and a
  request between a delete's two DELs has already taken the config.

`LifecycleTypes` and `NoCallHangs` hold for any number of requests at once. The others assume `Clients = {r}`, one
request at a time, with any number of calls, failures, deaths and records: with two they are not theorems
(see the module in section 2), and the run `lifecycle` has one client for the same reason.

The proofs corrected the model once: `Claim`, `Success` and `FirstCall` were CASEs whose guards overlap, and such a
CASE has an arbitrary one of the values whose guard holds, which TLC does not show because it takes the first. They are IFs now.

**Only model-checked:** `EventuallyDrained` and `RecoversForGood`, which rest on fairness and are out of the
prover's reach. Every invariant and action property of a passing run is a theorem, and so is the refinement.

## 5. What stays open

Not stated, because the code gives nothing to state:

* `main.py` 204: that record and producer agree after two calls on one pipeline that cross. No call takes a lock.
* `redis_repo.py` 53: that a number given once is never given again, if its pipeline goes before the counter comes.
* `main.py` 161: that a file in `processed/` keeps its pipeline when an API create of it is rolled back.
* `provisioning.py` 33: that a pipeline whose topic the broker refused is told from one that has its topic.
* `controller/app/main.py` 80: that the work of a controller on a pipeline ends before its lock does.
* `connector.py` 177: that a slow source survives a dropped session under the probe.
* `rows.py` 67: that a number too large for a float costs no more than its record.
* `main.py` 208 and `redis_repo.py` 104: what a crash between two writes leaves behind. Reachable in `Lifecycle`, and
  nothing in the code repairs it.
* `watchdog/app/main.py` 117 and 126: that a restart from what was read before the probe does not undo a call.
  Reachable in `Lifecycle`; the properties are stated up to the first restart.
* `consumer_pool/app/main.py` 154: that the lag ends after an outage, or with a topic that has no config. It does not,
  by the first finding.

Left out: a registry cache that outlives a pipeline (`consumer_pool/app/main.py` 52: `ConsumerPool` takes no config away);
two creates of one pipeline that cross by the API alone (`Registration` has one request beside the files); `to_row`'s
conversions and the table, container and key names, which are functions over strings with no state (a record is
of one of four kinds, a table its number); rendering of Telegraf configuration and manifests, the
producer image's shell script, metrics, logs and the read-only routes (text and I/O without state that a property
could relate); normal pipelines, which the Task Manager only records; monitoring and deployment files beyond the
numbers taken from them. Kafka, Redis, ClickHouse, Docker, Kubernetes, Telegraf and the watchdog library's
threads are external: modelled as far as the code uses them, and marked so in the map.
