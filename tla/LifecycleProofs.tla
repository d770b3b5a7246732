---------------------------- MODULE LifecycleProofs ----------------------------
(* Proofs about Lifecycle: its types for any number of concurrent requests, and *)
(* that the loops and the requests agree when requests come one at a time.      *)
EXTENDS Lifecycle, TLAPS

(* The inductive invariants behind the properties, for one request at a time.  *)

\* A handler that is about to read the record has changes to make.
ChangesOK == \A a \in Actors : pc[a] = "get" => fields[a] \in Changes

Undisturbed == used.fail = 0 /\ used.crash = 0 /\ used.restart = 0

\* A producer that was started and not stopped, dead or alive.
Up == producer \in {"running", "exited"}

Record(s, desired, status) == s \in States /\ s.desired = desired /\ s.status = status

\* The record of a pipeline that no request is working on.
AtRest == \/ Record(state, "RUNNING", "RUNNING") /\ state.named /\ Up
          \/ Record(state, "STOPPED", "CREATED") /\ ~Up
          \/ Record(state, "STOPPED", "STOPPED") /\ ~Up

\* The record once the call has claimed it: a restart does not claim it.
Claimed(what, s) ==
    CASE what = "start"   -> Record(s, "RUNNING", "STARTING")
      [] what = "restart" -> \/ Record(s, "RUNNING", "RUNNING")
                             \/ Record(s, "STOPPED", "CREATED")
                             \/ Record(s, "STOPPED", "STOPPED")
      [] OTHER            -> Record(s, "STOPPED", "STOPPING")

\* The record that reports a call the runtime has carried out.
Reported(what, s) ==
    IF what \in {"start", "restart"} THEN Record(s, "RUNNING", "RUNNING") /\ s.named
    ELSE Record(s, "STOPPED", "STOPPED")

\* What each place of a request knows of the records and the producer.
Between(r) ==
    /\ pc[r] = "idle" \/ (pc[r] = "config" /\ op[r] \in Calls)
    /\ IF config THEN AtRest ELSE state = None /\ ~Up

Creating(r) ==
    /\ pc[r] \in {"setConfig", "setState", "provision"} /\ ~Up
    /\ config <=> pc[r] # "setConfig"
    /\ IF pc[r] = "provision" THEN AtRest ELSE state = None

Decides(r) == pc[r] = "state" /\ config /\ AtRest /\ op[r] \in Calls \ {"create"}

Claims(r) ==
    /\ pc[r] \in {"get", "set"} /\ config /\ AtRest
    /\ op[r] \in {"start", "stop", "delete"} /\ next[r] = FirstCall(op[r])
    /\ IF pc[r] = "get" THEN fields[r] = Claim(r, op[r]) ELSE Claimed(op[r], copy[r])

Carries(r) ==
    /\ config /\ Claimed(op[r], state) /\ op[r] \in Calls \ {"create"}
    /\ \/ pc[r] = "halt" /\ op[r] # "start" /\ (op[r] = "restart" => runtime = "docker")
       \/ pc[r] = "remove" /\ op[r] \in {"start", "restart"} /\ runtime = "docker"
       \/ pc[r] = "run" /\ op[r] \in {"start", "restart"} /\ producer = "absent"
       \/ pc[r] = "apply" /\ op[r] \in {"start", "restart"} /\ runtime = "kubernetes"

Reports(r) ==
    /\ pc[r] \in {"get", "set"} /\ next[r] = "publish" /\ op[r] \in Calls \ {"create"}
    /\ config /\ Claimed(op[r], state) /\ (Up <=> op[r] \in {"start", "restart"})
    /\ IF pc[r] = "get" THEN fields[r] = Success(r) ELSE Reported(op[r], copy[r])

Closes(r) ==
    /\ pc[r] \in {"publish", "drain", "dropTopic", "delConfig"} /\ config /\ AtRest
    /\ op[r] = "delete" \/ pc[r] = "publish"
    /\ op[r] = "delete" => ~Up
    /\ pc[r] = "dropTopic" /\ runtime = "docker" => lag = 0

Forgets(r) == pc[r] = "delState" /\ ~config /\ ~Up

RequestOK(r) == \/ Between(r) \/ Creating(r) \/ Decides(r) \/ Claims(r) \/ Carries(r)
                \/ Reports(r) \/ Closes(r) \/ Forgets(r)

ProducerOK ==
    /\ runtime = "docker" => producer # "terminating"
    /\ runtime = "kubernetes" \/ used.death = 0 => producer # "exited"

LoopsOK == \A a \in Loops : Idle(a) \/ (a = Watchdog /\ pc[a] = "probe")

LagOK == /\ topic \/ lag = 0
         /\ Undisturbed /\ runtime = "docker" => ~lost

\* As long as no call fails, no process crashes and the watchdog restarts nothing,
\* the loops have nothing to do.
RequestInv ==
    /\ LagOK
    /\ Undisturbed => (\A r \in Clients : RequestOK(r)) /\ LoopsOK /\ ProducerOK

-----------------------------------------------------------------------------
(* Types.                                                                       *)

\* What update_state is to write: the record it has read, with the changes.
Merge(s, changes) ==
    [f \in DOMAIN s |-> IF f \in DOMAIN changes THEN changes[f] ELSE s[f]]

LEMMA MergeType ==
  ASSUME NEW s \in States, NEW changes \in Changes
  PROVE  Merge(s, changes) \in States
  <1>1. /\ s = [desired |-> s.desired, status |-> s.status, named |-> s.named]
        /\ s.desired \in {"RUNNING", "STOPPED"} /\ s.status \in Statuses
        /\ s.named \in BOOLEAN
    BY DEF States
  <1>2. CASE changes \in [status : Statuses]
    <2>1. Merge(s, changes) = [desired |-> s.desired, status |-> changes.status,
                               named |-> s.named]
      BY <1>1, <1>2 DEF Merge
    <2> QED BY <1>1, <1>2, <2>1 DEF States
  <1>3. CASE changes \in [desired : {"RUNNING", "STOPPED"}, status : Statuses]
    <2>1. Merge(s, changes) = [desired |-> changes.desired, status |-> changes.status,
                               named |-> s.named]
      BY <1>1, <1>3 DEF Merge
    <2> QED BY <1>1, <1>3, <2>1 DEF States
  <1>4. CASE changes \in [status : Statuses, named : BOOLEAN]
    <2>1. Merge(s, changes) = [desired |-> s.desired, status |-> changes.status,
                               named |-> changes.named]
      BY <1>1, <1>4 DEF Merge
    <2> QED BY <1>1, <1>4, <2>1 DEF States
  <1>5. CASE changes \in States
    <2>1. Merge(s, changes) = [desired |-> changes.desired, status |-> changes.status,
                               named |-> changes.named]
      BY <1>1, <1>5 DEF Merge, States
    <2> QED BY <1>5, <2>1 DEF States
  <1> QED BY <1>2, <1>3, <1>4, <1>5 DEF Changes

TypeInv == TypeOK /\ ChangesOK

\* The changes the handlers pass.
LEMMA ChangesTypes ==
  ASSUME TypeOK, NEW a \in Actors, NEW what
  PROVE  /\ Claim(a, what) \in Changes /\ Success(a) \in Changes /\ Failure(a) \in Changes
         /\ FirstCall(what) \in Places \ {"get"}
  <1>1. \A st \in Statuses : [status |-> st] \in Changes
    BY DEF Changes
  <1>2. \A d \in {"RUNNING", "STOPPED"}, st \in Statuses :
           [desired |-> d, status |-> st] \in Changes
    BY DEF Changes
  <1>3. \A st \in Statuses, n \in BOOLEAN : [status |-> st, named |-> n] \in Changes
    BY DEF Changes
  <1>4. [desired |-> "RUNNING", status |-> "RUNNING", named |-> TRUE] \in Changes
    BY DEF Changes, States, Statuses
  <1>5. Claim(a, what) \in Changes
    BY <1>1, <1>2 DEF Claim, Statuses
  <1>6. Success(a) \in Changes
    BY <1>1, <1>3, <1>4 DEF Success, Statuses
  <1>7. Failure(a) \in Changes
    BY <1>1, <1>2 DEF Failure, Statuses
  <1>8. FirstCall(what) \in Places \ {"get"}
    BY DEF FirstCall, Places
  <1> QED BY <1>5, <1>6, <1>7, <1>8

\* The variables of a handler.
HandlerTypes ==
    /\ op \in [Actors -> Calls \cup {"none"}]
    /\ pc \in [Actors -> Places] /\ next \in [Actors -> Places \ {"get"}]
    /\ fields \in [Actors -> Changes \cup {None}]
    /\ copy \in [Actors -> States \cup {None}]
    /\ ChangesOK

LEMMA FinishType ==
  ASSUME TypeInv, NEW a \in Actors, Finish(a)
  PROVE  HandlerTypes'
  <1>1. /\ op \in [Actors -> Calls \cup {"none"}]
        /\ pc \in [Actors -> Places] /\ next \in [Actors -> Places \ {"get"}]
        /\ fields \in [Actors -> Changes \cup {None}]
        /\ copy \in [Actors -> States \cup {None}] /\ ChangesOK
    BY DEF TypeInv, TypeOK
  <1> QED BY <1>1 DEF HandlerTypes, ChangesOK, Finish, Goto, Places

\* A handler goes on, or calls update_state.
LEMMA MoveType ==
  ASSUME TypeInv, NEW a \in Actors,
         op' = op \/ (\E what \in Calls : op' = [op EXCEPT ![a] = what]),
         \/ \E p \in Places \ {"get"} : Goto(a, p) /\ UNCHANGED updateVars
         \/ \E changes \in Changes, p \in Places \ {"get"} : Update(a, changes, p)
  PROVE  HandlerTypes'
  <1>1. /\ op \in [Actors -> Calls \cup {"none"}]
        /\ pc \in [Actors -> Places] /\ next \in [Actors -> Places \ {"get"}]
        /\ fields \in [Actors -> Changes \cup {None}]
        /\ copy \in [Actors -> States \cup {None}] /\ ChangesOK
    BY DEF TypeInv, TypeOK
  <1>2. op' \in [Actors -> Calls \cup {"none"}]
    BY <1>1
  <1>3. CASE \E p \in Places \ {"get"} : Goto(a, p) /\ UNCHANGED updateVars
    BY <1>1, <1>2, <1>3 DEF HandlerTypes, ChangesOK, Goto, updateVars
  <1>4. CASE \E changes \in Changes, p \in Places \ {"get"} : Update(a, changes, p)
    <2>1. PICK changes \in Changes, p \in Places \ {"get"} : Update(a, changes, p)
      BY <1>4
    <2>2. /\ pc' = [pc EXCEPT ![a] = "get"] /\ fields' = [fields EXCEPT ![a] = changes]
          /\ next' = [next EXCEPT ![a] = p] /\ copy' = copy
      BY <2>1 DEF Update, Goto
    <2>3. \A b \in Actors : /\ b = a => fields'[b] = changes
                            /\ b # a => pc'[b] = pc[b] /\ fields'[b] = fields[b]
      BY <1>1, <2>2
    <2>4. ChangesOK'
      BY <1>1, <2>3 DEF ChangesOK
    <2> QED BY <1>1, <1>2, <2>2, <2>4 DEF HandlerTypes, Places
  <1> QED BY <1>3, <1>4

LEMMA SpendType ==
  ASSUME TypeOK, NEW what \in {"call", "fail", "death", "crash", "restart"}, NEW max,
         Spend(what, max)
  PROVE  used' \in [{"call", "fail", "death", "crash", "restart"} -> Nat]
  BY DEF TypeOK, Spend

\* The variables that are not a handler's.
WorldTypes ==
    /\ runtime \in Runtimes
    /\ config \in BOOLEAN /\ state \in States \cup {None} /\ event \in BOOLEAN
    /\ producer \in {"absent", "running", "exited", "terminating"}
    /\ topic \in BOOLEAN /\ lag \in 0 .. MaxLag /\ lost \in BOOLEAN
    /\ abandoned \in BOOLEAN
    /\ used \in [{"call", "fail", "death", "crash", "restart"} -> Nat]

LEMMA TypeParts ==
  /\ TypeInv <=> HandlerTypes /\ WorldTypes
  /\ TypeInv' <=> HandlerTypes' /\ WorldTypes'
  BY DEF TypeInv, TypeOK, HandlerTypes, WorldTypes

LEMMA OutcomeType ==
  ASSUME TypeInv, NEW a \in Actors, Succeeded(a) \/ Failed(a)
  PROVE  HandlerTypes'
  <1>1. /\ Success(a) \in Changes /\ Failure(a) \in Changes
        /\ {"publish", "idle"} \subseteq Places \ {"get"}
    BY ChangesTypes DEF TypeInv, Places
  <1>2. op' = op
    BY DEF Succeeded, Failed
  <1>3. \E changes \in Changes, p \in Places \ {"get"} : Update(a, changes, p)
    <2>1. CASE Succeeded(a)
      BY <1>1, <2>1 DEF Succeeded
    <2>2. CASE Failed(a)
      BY <1>1, <2>2 DEF Failed
    <2> QED BY <2>1, <2>2
  <1> QED BY <1>2, <1>3, MoveType

LEMMA UpdateGetType ==
  ASSUME TypeInv, NEW a \in Actors, UpdateGet(a)
  PROVE  TypeInv'
  <1>1. WorldTypes'
    BY TypeParts DEF UpdateGet, WorldTypes, Fine, redisVars, kafkaVars
  <1>2. CASE state = None
    <2>1. Finish(a) \/ Failed(a)
      BY <1>2 DEF UpdateGet
    <2> QED BY <1>1, <2>1, FinishType, OutcomeType, TypeParts
  <1>3. CASE state # None
    <2>1. /\ copy' = [copy EXCEPT ![a] = Merge(state, fields[a])]
          /\ pc' = [pc EXCEPT ![a] = "set"] /\ UNCHANGED <<op, fields, next>>
      BY <1>3 DEF UpdateGet, Goto, Merge
    <2>2. state \in States /\ fields[a] \in Changes
      BY <1>3 DEF TypeInv, TypeOK, ChangesOK, UpdateGet
    <2>3. Merge(state, fields[a]) \in States
      BY <2>2, MergeType
    <2>4. HandlerTypes
      BY TypeParts
    <2>5. HandlerTypes'
      BY <2>1, <2>3, <2>4 DEF HandlerTypes, ChangesOK, Places
    <2> QED BY <1>1, <2>5, TypeParts
  <1> QED BY <1>2, <1>3

LEMMA UpdateSetType ==
  ASSUME TypeInv, NEW a \in Actors, UpdateSet(a)
  PROVE  TypeInv'
  <1>1. HandlerTypes /\ WorldTypes
    BY TypeParts
  <1>2. WorldTypes'
    BY <1>1 DEF UpdateSet, WorldTypes, HandlerTypes, Fine, kafkaVars
  <1>3. CASE next[a] = "idle"
    BY <1>2, <1>3, FinishType, TypeParts DEF UpdateSet
  <1>4. CASE next[a] # "idle"
    <2>1. /\ pc' = [pc EXCEPT ![a] = next[a]] /\ fields' = [fields EXCEPT ![a] = None]
          /\ copy' = [copy EXCEPT ![a] = None] /\ next' = [next EXCEPT ![a] = "idle"]
          /\ UNCHANGED op
      BY <1>4 DEF UpdateSet, Goto
    <2> QED BY <1>1, <1>2, <2>1, TypeParts DEF HandlerTypes, ChangesOK, Places
  <1> QED BY <1>3, <1>4

\* A handler's step that is no call of update_state.
LEMMA GotoType ==
  ASSUME TypeInv, NEW a \in Actors, NEW p \in Places \ {"get"}, Goto(a, p),
         UNCHANGED <<op, updateVars>>
  PROVE  HandlerTypes'
  BY MoveType

LEMMA RuntimeType ==
  ASSUME TypeInv, NEW a \in Actors, Halt(a) \/ Remove(a) \/ Run(a) \/ Apply(a)
  PROVE  TypeInv'
  <1>1. \/ \E p \in {"remove", "run"} : Goto(a, p) /\ UNCHANGED <<op, updateVars>>
        \/ Succeeded(a) \/ Failed(a)
    BY DEF Halt, Remove, Run, Apply
  <1>2. HandlerTypes'
    BY <1>1, GotoType, OutcomeType DEF Places
  <1>3. /\ UNCHANGED <<config, state, event, topic, lag, lost, abandoned, runtime>>
        /\ Fine \/ Fail
    BY DEF Halt, Remove, Run, Apply, redisVars, kafkaVars
  <1>4. WorldTypes
    BY TypeParts
  <1>5. producer' \in {"absent", "running", "exited", "terminating"}
    BY <1>4 DEF Halt, Remove, Run, Apply, Halted, WorldTypes
  <1>6. used' \in [{"call", "fail", "death", "crash", "restart"} -> Nat]
    BY <1>3, <1>4, SpendType DEF Fine, Fail, WorldTypes, TypeInv
  <1> QED BY <1>2, <1>3, <1>4, <1>5, <1>6, TypeParts DEF WorldTypes

LEMMA RequestType ==
  ASSUME TypeInv, NEW r \in Clients, Request(r)
  PROVE  TypeInv'
  <1>0. r \in Actors /\ WorldTypes /\ HandlerTypes /\ TypeOK
    BY TypeParts DEF Actors, TypeInv
  <1>1. HandlerTypes'
    <2>1. ASSUME NEW what \in Calls, Call(r, what) PROVE HandlerTypes'
      <3>1. Goto(r, "config") /\ "config" \in Places \ {"get"} /\ UNCHANGED updateVars
        BY <2>1 DEF Call, Places
      <3> QED BY <1>0, <2>1, <3>1, MoveType DEF Call
    <2>2. CASE \/ Finish(r)
               \/ \E p \in Places \ {"get"} : Goto(r, p) /\ UNCHANGED <<op, updateVars>>
      BY <1>0, <2>2, FinishType, GotoType
    <2>3. CASE ReadState(r)
      <3>1. \/ Finish(r)
            \/ \E p \in {"drain", FirstCall(op[r])} : Goto(r, p) /\ UNCHANGED <<op, updateVars>>
            \/ Update(r, Claim(r, op[r]), FirstCall(op[r])) /\ UNCHANGED op
        BY <2>3 DEF ReadState
      <3>2. /\ FirstCall(op[r]) \in Places \ {"get"} /\ "drain" \in Places \ {"get"}
            /\ Claim(r, op[r]) \in Changes
        BY <1>0, ChangesTypes DEF Places
      <3> QED BY <1>0, <2>2, <3>1, <3>2, MoveType
    <2>4. \/ \E what \in Calls : Call(r, what)
          \/ ReadState(r) \/ Finish(r)
          \/ \E p \in {"setConfig", "state", "setState", "provision", "delConfig", "drain",
                        "dropTopic", "delState"} :
                 Goto(r, p) /\ UNCHANGED <<op, updateVars>>
      BY DEF Request, FindConfig, SetConfig, SetState, Provision, Publish, Drain, DropTopic,
             DelConfig, DelState, updateVars
    <2>5. {"setConfig", "state", "setState", "provision", "delConfig", "drain", "dropTopic",
           "delState"} \subseteq Places \ {"get"}
      BY DEF Places
    <2> QED BY <2>1, <2>2, <2>3, <2>4, <2>5
  <1>2. used' \in [{"call", "fail", "death", "crash", "restart"} -> Nat]
    <2>1. Fine \/ Fail \/ Spend("call", MaxCalls)
      BY DEF Request, Call, FindConfig, SetConfig, SetState, Provision, ReadState, Publish,
             Drain, DropTopic, DelConfig, DelState
    <2> QED BY <1>0, <2>1, SpendType DEF Fine, Fail, WorldTypes
  <1>3. /\ runtime' = runtime /\ producer' = producer /\ config' \in BOOLEAN
        /\ state' \in States \cup {None}
    <2>1. state' \in {state, None, [desired |-> "STOPPED", status |-> "CREATED", named |-> FALSE]}
      BY DEF Request, Call, FindConfig, SetConfig, SetState, Provision, ReadState, Publish,
             Drain, DropTopic, DelConfig, DelState, redisVars
    <2>2. runtime' = runtime /\ producer' = producer /\ config' \in {config, TRUE, FALSE}
      BY DEF Request, Call, FindConfig, SetConfig, SetState, Provision, ReadState, Publish,
             Drain, DropTopic, DelConfig, DelState, redisVars
    <2>3. [desired |-> "STOPPED", status |-> "CREATED", named |-> FALSE] \in States
      BY DEF States, Statuses
    <2>4. config' \in BOOLEAN
      BY <1>0, <2>2 DEF WorldTypes
    <2>5. state' \in States \cup {None}
      BY <1>0, <2>1, <2>3 DEF WorldTypes
    <2> QED BY <2>2, <2>4, <2>5
  <1>4. event' \in BOOLEAN /\ abandoned' \in BOOLEAN
    BY <1>0 DEF Request, Call, FindConfig, SetConfig, SetState, Provision, ReadState, Publish,
                Drain, DropTopic, DelConfig, DelState, WorldTypes, Deployed
  <1>5. topic' \in BOOLEAN /\ lag' \in 0 .. MaxLag /\ lost' \in BOOLEAN
    <2>1. \/ UNCHANGED kafkaVars \/ TopicGone
          \/ UNCHANGED <<lag, lost>> /\ topic' \in {topic, TRUE}
      BY DEF Request, Call, FindConfig, SetConfig, SetState, Provision, ReadState, Publish,
             Drain, DropTopic, DelConfig, DelState, kafkaVars
    <2>2. topic' \in BOOLEAN
      BY <1>0, <2>1 DEF kafkaVars, TopicGone, WorldTypes
    <2>3. lag' \in 0 .. MaxLag
      <3>1. MaxLag \in Nat /\ lag \in 0 .. MaxLag /\ lag' \in {lag, 0}
        BY <1>0, <2>1, LifecycleAssumption DEF kafkaVars, TopicGone, WorldTypes
      <3> QED BY <3>1
    <2>4. lost' \in BOOLEAN
      <3>1. lost' = lost \/ lost' = (lost \/ lag > 0)
        BY <2>1 DEF kafkaVars, TopicGone
      <3>2. lost \in BOOLEAN
        BY <1>0 DEF WorldTypes
      <3> QED BY <3>1, <3>2, Zenon
    <2> QED BY <2>2, <2>3, <2>4
  <1> QED BY <1>0, <1>1, <1>2, <1>3, <1>4, <1>5, TypeParts DEF WorldTypes

LEMMA LoopType ==
  ASSUME TypeInv, ControllerActs \/ WatchdogReads \/ WatchdogProbes
  PROVE  TypeInv'
  <1>0. WorldTypes /\ HandlerTypes /\ TypeOK
    BY TypeParts DEF TypeInv
  <1>1. PICK a \in Actors :
           \/ Finish(a)
           \/ Goto(a, "probe") /\ UNCHANGED updateVars /\ op' = [op EXCEPT ![a] = "restart"]
           \/ \E what \in Calls : /\ Update(a, Claim(a, what), FirstCall(what))
                                  /\ op' = op \/ op' = [op EXCEPT ![a] = what]
    <2>1. CASE ControllerActs
      <3>1. Controller \in Actors
        BY <2>1 DEF ControllerActs, Deployed, Actors
      <3> QED BY <2>1, <3>1 DEF ControllerActs, Calls
    <2>2. CASE WatchdogReads \/ WatchdogProbes
      <3>1. Watchdog \in Actors
        BY <2>2 DEF WatchdogReads, WatchdogProbes, Deployed, Actors
      <3> QED BY <2>2, <3>1 DEF WatchdogReads, WatchdogProbes, Calls
    <2> QED BY <2>1, <2>2
  <1>2. HandlerTypes'
    <2>1. CASE Goto(a, "probe") /\ UNCHANGED updateVars /\ op' = [op EXCEPT ![a] = "restart"]
      <3>1. "probe" \in Places \ {"get"} /\ "restart" \in Calls
        BY DEF Places, Calls
      <3> QED BY <2>1, <3>1, MoveType
    <2>2. ASSUME NEW what \in Calls, Update(a, Claim(a, what), FirstCall(what)),
                 op' = op \/ op' = [op EXCEPT ![a] = what]
          PROVE  HandlerTypes'
      <3>1. Claim(a, what) \in Changes /\ FirstCall(what) \in Places \ {"get"}
        BY <1>0, ChangesTypes
      <3> QED BY <2>2, <3>1, MoveType
    <2> QED BY <1>1, <2>1, <2>2, FinishType
  <1>3. UNCHANGED <<config, state, producer, topic, lag, lost, abandoned, runtime>>
    BY DEF ControllerActs, WatchdogReads, WatchdogProbes, redisVars, kafkaVars
  <1>4. used' \in [{"call", "fail", "death", "crash", "restart"} -> Nat]
    BY <1>0 DEF ControllerActs, WatchdogReads, WatchdogProbes, Fine, WorldTypes
  <1>5. event' \in BOOLEAN
    <2>1. event' = event \/ event' = FALSE
      BY DEF ControllerActs, WatchdogReads, WatchdogProbes
    <2>2. event \in BOOLEAN
      BY <1>0 DEF WorldTypes
    <2> QED BY <2>1, <2>2, Zenon
  <1> QED BY <1>0, <1>2, <1>3, <1>4, <1>5, TypeParts DEF WorldTypes

LEMMA WorldType ==
  ASSUME TypeInv,
         EventIgnored \/ Produce \/ PoolCommits \/ Terminated \/ Die \/ UNCHANGED vars
  PROVE  TypeInv'
  <1>0. WorldTypes /\ HandlerTypes
    BY TypeParts
  <1>1. UNCHANGED <<op, pc, fields, copy, next>>
    BY DEF EventIgnored, Produce, PoolCommits, Terminated, Die, vars, updateVars
  <1>2. HandlerTypes'
    BY <1>0, <1>1 DEF HandlerTypes, ChangesOK
  <1>3. UNCHANGED <<config, state, lost, abandoned, runtime>> /\ topic' \in {topic}
    BY DEF EventIgnored, Produce, PoolCommits, Terminated, Die, vars, redisVars, kafkaVars
  <1>4. lag' \in 0 .. MaxLag
    <2>1. MaxLag \in Nat /\ lag \in 0 .. MaxLag
      BY <1>0, LifecycleAssumption DEF WorldTypes
    <2>2. \/ lag' = lag \/ (lag < MaxLag /\ lag' = lag + 1) \/ (lag > 0 /\ lag' \in 0 .. lag - 1)
      BY DEF EventIgnored, Produce, PoolCommits, Terminated, Die, vars, kafkaVars
    <2> QED BY <2>1, <2>2
  <1>5. /\ producer' \in {"absent", "running", "exited", "terminating"}
        /\ event' \in BOOLEAN
    BY <1>0 DEF EventIgnored, Produce, PoolCommits, Terminated, Die, vars, WorldTypes
  <1>6. used' \in [{"call", "fail", "death", "crash", "restart"} -> Nat]
    <2>1. UNCHANGED used \/ Spend("death", MaxDeaths)
      BY DEF EventIgnored, Produce, PoolCommits, Terminated, Die, vars, Fine
    <2> QED BY <1>0, <2>1, SpendType DEF WorldTypes, TypeInv
  <1> QED BY <1>0, <1>2, <1>3, <1>4, <1>5, <1>6, TypeParts DEF WorldTypes

LEMMA CrashType ==
  ASSUME TypeInv, NEW a \in Actors, Crash(a)
  PROVE  TypeInv'
  <1>1. HandlerTypes'
    BY FinishType DEF Crash
  <1>2. used' \in [{"call", "fail", "death", "crash", "restart"} -> Nat]
    BY SpendType DEF Crash, TypeInv
  <1> QED BY <1>1, <1>2, TypeParts DEF Crash, WorldTypes, redisVars, kafkaVars

LEMMA TypeStep == ASSUME TypeInv, [Next]_vars PROVE TypeInv'
  BY UpdateGetType, UpdateSetType, RuntimeType, RequestType, LoopType, WorldType, CrashType
  DEF Next

LEMMA InitTypes == Init => TypeInv
  <1> SUFFICES ASSUME Init PROVE TypeInv
    OBVIOUS
  <1>1. HandlerTypes
    BY DEF Init, HandlerTypes, ChangesOK, Places
  <1>2. used \in [{"call", "fail", "death", "crash", "restart"} -> Nat]
    BY DEF Init
  <1>3. lag \in 0 .. MaxLag
    BY LifecycleAssumption DEF Init
  <1> QED BY <1>1, <1>2, <1>3, TypeParts DEF Init, WorldTypes

THEOREM TypeInvariant == Spec => []TypeInv
  <1>1. TypeInv /\ [Next]_vars => TypeInv'
    BY TypeStep
  <1> QED BY <1>1, InitTypes, PTL DEF Spec

\* Every variable has its type, whatever requests and loops overlap; what
\* update_state writes is always a whole record.
THEOREM LifecycleTypes == Spec => []TypeOK
  <1>1. TypeInv => TypeOK
    BY DEF TypeInv
  <1> QED BY <1>1, TypeInvariant, PTL

-----------------------------------------------------------------------------
(* Undisturbed requests.                                                        *)

LEMMA MergeFields ==
  ASSUME NEW s \in States, NEW changes \in Changes
  PROVE  /\ Merge(s, changes) \in States
         /\ Merge(s, changes).desired =
               IF "desired" \in DOMAIN changes THEN changes.desired ELSE s.desired
         /\ Merge(s, changes).status = changes.status
         /\ Merge(s, changes).named =
               IF "named" \in DOMAIN changes THEN changes.named ELSE s.named
  <1>1. DOMAIN s = {"desired", "status", "named"}
    BY DEF States
  <1>2. "status" \in DOMAIN changes
    BY DEF Changes, States
  <1> QED BY <1>1, <1>2, MergeType DEF Merge

\* A call that fails, a crash and a restart by the watchdog are never undone.
LEMMA StaysUndisturbed ==
  ASSUME TypeOK, [Next]_vars, Undisturbed'
  PROVE  Undisturbed
  <1>1. /\ used["fail"] \in Nat /\ used["crash"] \in Nat /\ used["restart"] \in Nat
        /\ DOMAIN used = {"call", "fail", "death", "crash", "restart"}
    BY DEF TypeOK
  <1>2. ASSUME NEW what \in {"call", "fail", "death", "crash"}, NEW max, Spend(what, max)
        PROVE  Undisturbed
    BY <1>1, <1>2 DEF Spend, Undisturbed
  <1>3. \/ UNCHANGED used \/ used' = [used EXCEPT !.restart = 1]
        \/ \E what \in {"call", "fail", "death", "crash"} : \E max : Spend(what, max)
    BY DEF Next, Request, Call, FindConfig, SetConfig, SetState, Provision, ReadState, Publish,
           Drain, DropTopic, DelConfig, DelState, UpdateGet, UpdateSet, Halt, Remove, Run,
           Apply, Crash, ControllerActs, EventIgnored, WatchdogReads, WatchdogProbes, Produce,
           PoolCommits, Terminated, Die, Fine, Fail, vars
  <1> QED BY <1>1, <1>2, <1>3 DEF Undisturbed

LEMMA NoAccident ==
  ASSUME TypeOK, Undisturbed, Undisturbed'
  PROVE  ~Fail /\ ~Spend("crash", MaxCrashes) /\ used' # [used EXCEPT !.restart = 1]
  <1>1. /\ used["fail"] \in Nat /\ used["crash"] \in Nat /\ used["restart"] \in Nat
        /\ DOMAIN used = {"call", "fail", "death", "crash", "restart"}
    BY DEF TypeOK
  <1> QED BY <1>1 DEF Fail, Spend, Undisturbed

\* A step that does not touch what a request works on.
LEMMA RequestFrame ==
  ASSUME NEW r, RequestOK(r), UNCHANGED <<runtime, config, state>>,
         pc'[r] = pc[r], op'[r] = op[r], next'[r] = next[r], fields'[r] = fields[r],
         copy'[r] = copy[r], Up' <=> Up, producer = "absent" => producer' = "absent",
         Closes(r) /\ pc[r] = "dropTopic" /\ runtime = "docker" => lag' = 0
  PROVE  RequestOK(r)'
  <1>1. AtRest' <=> AtRest
    BY DEF AtRest
  <1>2. Between(r) => Between(r)'
    BY <1>1 DEF Between
  <1>3. Creating(r) => Creating(r)'
    BY <1>1 DEF Creating
  <1>4. Decides(r) => Decides(r)'
    BY <1>1 DEF Decides
  <1>5. Claims(r) => Claims(r)'
    BY <1>1 DEF Claims, FirstCall, Claim, Claimed
  <1>6. Carries(r) => Carries(r)'
    BY DEF Carries, Claimed
  <1>7. Reports(r) => Reports(r)'
    BY DEF Reports, Claimed, Success, Reported
  <1>8. Closes(r) => Closes(r)'
    BY <1>1 DEF Closes
  <1>9. Forgets(r) => Forgets(r)'
    BY DEF Forgets
  <1> QED BY <1>2, <1>3, <1>4, <1>5, <1>6, <1>7, <1>8, <1>9 DEF RequestOK

\* A record with a request at work is one the controller leaves alone.
LEMMA ControllerHasNothingToDo ==
  ASSUME NEW r, RequestOK(r)
  PROVE  ~ControllerActs
  <1> SUFFICES ASSUME ControllerActs PROVE FALSE
    OBVIOUS
  <1>1. config /\ state # None
    BY DEF ControllerActs
  <1>2. \/ Record(state, "RUNNING", "RUNNING") \/ Record(state, "RUNNING", "STARTING")
        \/ Record(state, "STOPPED", "CREATED") \/ Record(state, "STOPPED", "STOPPED")
        \/ Record(state, "STOPPED", "STOPPING")
    BY <1>1 DEF RequestOK, Between, Creating, Decides, Claims, Carries, Reports, Closes,
                Forgets, AtRest, Claimed
  <1> QED BY <1>2 DEF ControllerActs, Record, ToStop

\* The assumptions under which a request takes its steps.
Working(r) ==
    /\ TypeInv /\ Undisturbed /\ Undisturbed' /\ RequestOK(r) /\ ProducerOK /\ LagOK
    /\ r \in Clients

LEMMA WorkingFacts ==
  ASSUME NEW r, Working(r)
  PROVE  /\ r \in Actors /\ r \notin Loops /\ TypeOK /\ ~Fail
         /\ runtime \in {"docker", "kubernetes"}
         /\ \A d, st : Record(state, d, st) => state # None
  BY NoAccident, LifecycleAssumption
  DEF Working, Actors, TypeInv, TypeOK, Record

LEMMA FinishPoint ==
  ASSUME NEW r, Working(r), Finish(r)
  PROVE  pc'[r] = "idle" /\ \A a \in Loops : pc'[a] = pc[a]
  BY WorkingFacts DEF Finish, Goto, TypeOK, Actors

LEMMA GotoPoint ==
  ASSUME NEW r, Working(r), NEW p, Goto(r, p)
  PROVE  pc'[r] = p /\ \A a \in Loops : pc'[a] = pc[a]
  BY WorkingFacts DEF Goto, TypeOK, Actors

LEMMA UpdatePoint ==
  ASSUME NEW r, Working(r), NEW changes, NEW p, Update(r, changes, p)
  PROVE  /\ pc'[r] = "get" /\ next'[r] = p /\ fields'[r] = changes
         /\ \A a \in Loops : pc'[a] = pc[a]
  BY WorkingFacts DEF Update, Goto, TypeOK, Actors

\* The changes a request passes to update_state.
LEMMA RequestChanges ==
  ASSUME NEW r, Working(r)
  PROVE  /\ Claim(r, op[r]) = IF op[r] = "start"
                              THEN [desired |-> "RUNNING", status |-> "STARTING"]
                              ELSE [desired |-> "STOPPED", status |-> "STOPPING"]
         /\ Success(r) =
               IF op[r] \in {"stop", "delete"} THEN [status |-> "STOPPED", named |-> FALSE]
               ELSE IF op[r] = "start" THEN [status |-> "RUNNING", named |-> TRUE]
               ELSE [desired |-> "RUNNING", status |-> "RUNNING", named |-> TRUE]
  BY WorkingFacts DEF Claim, Success

LEMMA GetWorks ==
  ASSUME NEW r, Working(r), UpdateGet(r)
  PROVE  RequestOK(r)'
  <1>0. r \in Actors /\ TypeOK /\ ChangesOK /\ pc[r] = "get"
    BY WorkingFacts DEF Working, TypeInv, UpdateGet
  <1>1. Claims(r) \/ Reports(r)
    BY <1>0 DEF Working, RequestOK, Between, Creating, Decides, Carries, Closes, Forgets
  <1>2. state \in States /\ state # None /\ fields[r] \in Changes
    <2>1. state \in States
      BY <1>1 DEF Claims, Reports, AtRest, Claimed, Record
    <2> QED BY <1>0, <2>1, LifecycleAssumption DEF ChangesOK
  <1>3. /\ copy' = [copy EXCEPT ![r] = Merge(state, fields[r])]
        /\ pc' = [pc EXCEPT ![r] = "set"]
        /\ UNCHANGED <<op, fields, next, config, state, producer, runtime>>
    BY <1>2 DEF UpdateGet, Merge, Goto, redisVars
  <1>4. copy'[r] = Merge(state, fields[r]) /\ pc'[r] = "set"
    BY <1>0, <1>3 DEF TypeOK
  <1> DEFINE m == Merge(state, fields[r])
  <1>5. /\ m \in States /\ m.status = fields[r].status
        /\ m.desired = IF "desired" \in DOMAIN fields[r] THEN fields[r].desired
                       ELSE state.desired
        /\ m.named = IF "named" \in DOMAIN fields[r] THEN fields[r].named ELSE state.named
    BY <1>2, MergeFields
  <1>6. AtRest' <=> AtRest
    BY <1>3 DEF AtRest, Up
  <1> HIDE DEF m
  <1>7. CASE Claims(r)
    <2>1. fields[r] = Claim(r, op[r]) /\ op[r] \in {"start", "stop", "delete"}
      BY <1>0, <1>7 DEF Claims
    <2>2. Claimed(op[r], m)
      BY <1>5, <2>1, RequestChanges DEF Claimed, Record
    <2>3. Claims(r)'
      BY <1>3, <1>4, <1>6, <1>7, <2>2 DEF Claims, FirstCall, Claimed, m
    <2> QED BY <2>3 DEF RequestOK
  <1>8. CASE Reports(r)
    <2>1. /\ fields[r] = Success(r) /\ op[r] \in Calls \ {"create"}
          /\ Claimed(op[r], state)
      BY <1>0, <1>8 DEF Reports
    <2>2. Reported(op[r], m)
      <3>1. CASE op[r] = "start"
        BY <1>5, <2>1, <3>1, RequestChanges DEF Reported, Claimed, Record
      <3>2. CASE op[r] = "restart"
        BY <1>5, <2>1, <3>2, RequestChanges DEF Reported, Record
      <3>3. CASE op[r] \in {"stop", "delete"}
        BY <1>5, <2>1, <3>3, RequestChanges DEF Reported, Claimed, Record
      <3> QED BY <2>1, <3>1, <3>2, <3>3 DEF Calls
    <2>3. Reports(r)'
      BY <1>3, <1>4, <1>8, <2>2 DEF Reports, Claimed, Up, Reported, m
    <2> QED BY <2>3 DEF RequestOK
  <1> QED BY <1>1, <1>7, <1>8

LEMMA SetWorks ==
  ASSUME NEW r, Working(r), UpdateSet(r)
  PROVE  RequestOK(r)'
  <1>0. /\ r \in Actors /\ TypeOK /\ pc[r] = "set" /\ state' = copy[r]
        /\ runtime \in {"docker", "kubernetes"} /\ UNCHANGED <<config, producer, runtime>>
    BY WorkingFacts DEF UpdateSet
  <1>1. Claims(r) \/ Reports(r)
    BY <1>0 DEF Working, RequestOK, Between, Creating, Decides, Carries, Closes, Forgets
  <1>2. next[r] # "idle"
    BY <1>1 DEF Claims, Reports, FirstCall
  <1>3. pc'[r] = next[r] /\ op' = op
    BY <1>0, <1>2 DEF UpdateSet, Goto, TypeOK
  <1>4. CASE Claims(r)
    <2>1. /\ Claimed(op[r], copy[r]) /\ op[r] \in {"start", "stop", "delete"} /\ config
          /\ next[r] = FirstCall(op[r])
      BY <1>0, <1>4 DEF Claims
    <2>2. Claimed(op[r], state)'
      BY <1>0, <1>3, <2>1 DEF Claimed, Record
    <2>3. pc'[r] = IF op[r] # "start" THEN "halt"
                   ELSE IF runtime = "docker" THEN "remove" ELSE "apply"
      <3>1. FirstCall("start") = IF runtime = "docker" THEN "remove" ELSE "apply"
        BY <1>0 DEF FirstCall
      <3>2. FirstCall("stop") = "halt" /\ FirstCall("delete") = "halt"
        BY DEF FirstCall
      <3> QED BY <1>3, <2>1, <3>1, <3>2
    <2>4. op'[r] = op[r] /\ op[r] \in Calls \ {"create"} /\ op[r] # "restart" /\ config'
      BY <1>0, <1>3, <2>1 DEF Calls
    <2>5. Carries(r)'
      BY <1>0, <2>1, <2>2, <2>3, <2>4 DEF Carries
    <2> QED BY <2>5 DEF RequestOK
  <1>5. CASE Reports(r)
    <2>1. /\ Reported(op[r], copy[r]) /\ next[r] = "publish" /\ config
          /\ Up <=> op[r] \in {"start", "restart"}
      BY <1>0, <1>5 DEF Reports
    <2>2. (Up' <=> Up) /\ Reported(op[r], state')
      BY <1>0, <2>1 DEF Up
    <2>3. AtRest'
      BY <2>1, <2>2 DEF AtRest, Reported, Record
    <2>4. Closes(r)'
      BY <1>0, <1>3, <2>1, <2>2, <2>3 DEF Closes
    <2> QED BY <2>4 DEF RequestOK
  <1> QED BY <1>1, <1>4, <1>5

\* The runtime has carried out what the request asked for.
LEMMA SucceededWorks ==
  ASSUME NEW r, Working(r), Succeeded(r), UNCHANGED <<config, state, runtime>>,
         config, Claimed(op[r], state), op[r] \in Calls \ {"create"},
         Up' <=> op[r] \in {"start", "restart"}
  PROVE  RequestOK(r)'
  <1>1. /\ pc'[r] = "get" /\ next'[r] = "publish" /\ fields'[r] = Success(r) /\ op' = op
    BY UpdatePoint DEF Succeeded, Working
  <1>2. Success(r)' = Success(r) /\ Claimed(op[r], state)'
    BY <1>1 DEF Success, Claimed, Record
  <1>3. Reports(r)'
    BY <1>1, <1>2 DEF Reports
  <1> QED BY <1>3 DEF RequestOK

LEMMA CarriesOnly ==
  ASSUME NEW r, Working(r), pc[r] \in {"halt", "remove", "run", "apply"}
  PROVE  Carries(r)
  BY DEF Working, RequestOK, Between, Creating, Decides, Claims, Reports, Closes, Forgets

LEMMA HaltWorks ==
  ASSUME NEW r, Working(r), Halt(r)
  PROVE  RequestOK(r)' /\ ProducerOK'
  <1>0. /\ pc[r] = "halt" /\ producer' = Halted /\ UNCHANGED <<config, state, runtime, used>>
        /\ IF op[r] = "restart" THEN Goto(r, "remove") /\ UNCHANGED <<op, updateVars>>
           ELSE Succeeded(r)
    BY WorkingFacts DEF Halt, Fine, redisVars
  <1>1. Carries(r)
    BY <1>0, CarriesOnly
  <1>2. /\ config /\ Claimed(op[r], state) /\ op[r] \in Calls \ {"create"}
        /\ op[r] # "start" /\ (op[r] = "restart" => runtime = "docker")
    BY <1>0, <1>1 DEF Carries
  <1>3. ProducerOK' /\ ~Up'
    BY <1>0, WorkingFacts DEF Working, ProducerOK, Halted, Up
  <1>4. CASE op[r] = "restart"
    <2>1. pc'[r] = "remove" /\ op' = op
      BY <1>0, <1>4, GotoPoint
    <2>2. Claimed(op[r], state)'
      BY <1>0, <1>2, <2>1 DEF Claimed, Record
    <2>3. Carries(r)'
      BY <1>0, <1>2, <1>4, <2>1, <2>2 DEF Carries
    <2> QED BY <1>3, <2>3 DEF RequestOK
  <1>5. CASE op[r] # "restart"
    BY <1>0, <1>2, <1>3, <1>5, SucceededWorks
  <1> QED BY <1>4, <1>5

LEMMA RemoveWorks ==
  ASSUME NEW r, Working(r), Remove(r)
  PROVE  RequestOK(r)' /\ ProducerOK'
  <1>0. /\ pc[r] = "remove" /\ producer' = "absent" /\ UNCHANGED <<config, state, runtime, op>>
        /\ Goto(r, "run")
    BY WorkingFacts DEF Remove, redisVars
  <1>1. Carries(r)
    BY <1>0, CarriesOnly
  <1>2. pc'[r] = "run" /\ Claimed(op[r], state)'
    BY <1>0, <1>1, GotoPoint DEF Carries, Claimed, Record
  <1>3. Carries(r)'
    BY <1>0, <1>1, <1>2 DEF Carries
  <1> QED BY <1>0, <1>3 DEF RequestOK, ProducerOK

LEMMA RunWorks ==
  ASSUME NEW r, Working(r), Run(r) \/ Apply(r)
  PROVE  RequestOK(r)' /\ ProducerOK'
  <1>0. pc[r] \in {"run", "apply"} /\ UNCHANGED <<config, state, runtime>>
    BY DEF Run, Apply, redisVars
  <1>1. Carries(r)
    BY <1>0, CarriesOnly
  <1>2. /\ config /\ Claimed(op[r], state) /\ op[r] \in {"start", "restart"}
        /\ pc[r] = "run" => producer = "absent"
    BY <1>0, <1>1 DEF Carries
  <1>3. producer' = "running" /\ Succeeded(r)
    BY <1>0, <1>2, WorkingFacts DEF Run, Apply
  <1>4. RequestOK(r)'
    BY <1>0, <1>2, <1>3, SucceededWorks DEF Up, Calls
  <1> QED BY <1>3, <1>4 DEF ProducerOK

-----------------------------------------------------------------------------
LEMMA FinishWorks ==
  ASSUME NEW r, Working(r), Finish(r), UNCHANGED <<config, state, producer>>,
         IF config THEN AtRest ELSE state = None /\ ~Up
  PROVE  RequestOK(r)'
  <1>1. pc'[r] = "idle" /\ (Up' <=> Up)
    BY FinishPoint DEF Up
  <1>2. AtRest' <=> AtRest
    BY <1>1 DEF AtRest, Record
  <1>3. Between(r)'
    BY <1>1, <1>2 DEF Between
  <1> QED BY <1>3 DEF RequestOK

LEMMA CallWorks ==
  ASSUME NEW r, Working(r), NEW what \in Calls, Call(r, what)
  PROVE  RequestOK(r)'
  <1>0. /\ pc[r] = "idle" /\ Goto(r, "config") /\ op' = [op EXCEPT ![r] = what]
        /\ UNCHANGED <<config, state, producer>>
    BY DEF Call, Idle, redisVars
  <1>1. pc'[r] = "config" /\ op'[r] = what
    BY <1>0, GotoPoint, WorkingFacts DEF TypeOK
  <1>2. Between(r)
    BY <1>0 DEF Working, RequestOK, Creating, Decides, Claims, Carries, Reports, Closes,
                Forgets
  <1>3. AtRest' <=> AtRest
    BY <1>0 DEF AtRest, Record, Up
  <1>4. Between(r)'
    BY <1>0, <1>1, <1>2, <1>3 DEF Between, Up
  <1> QED BY <1>4 DEF RequestOK

LEMMA FindConfigWorks ==
  ASSUME NEW r, Working(r), FindConfig(r)
  PROVE  RequestOK(r)'
  <1>0. pc[r] = "config" /\ UNCHANGED <<config, state, producer>>
    BY DEF FindConfig, redisVars
  <1>1. Between(r)
    BY <1>0 DEF Working, RequestOK, Creating, Decides, Claims, Carries, Reports, Closes,
                Forgets
  <1>2. op[r] \in Calls /\ IF config THEN AtRest ELSE state = None /\ ~Up
    BY <1>0, <1>1 DEF Between
  <1>3. AtRest' <=> AtRest
    BY <1>0 DEF AtRest, Record, Up
  <1>4. CASE config = (op[r] = "create")
    BY <1>0, <1>2, <1>4, FinishWorks DEF FindConfig
  <1>5. CASE ~(config = (op[r] = "create"))
    <2>1. /\ Goto(r, IF op[r] = "create" THEN "setConfig" ELSE "state")
          /\ UNCHANGED <<op, updateVars>>
      BY <1>5 DEF FindConfig
    <2>2. pc'[r] = IF op[r] = "create" THEN "setConfig" ELSE "state"
      BY <2>1, GotoPoint
    <2>3. config \in BOOLEAN
      BY WorkingFacts DEF TypeOK
    <2>4. CASE op[r] = "create"
      <3>1. ~config
        BY <1>5, <2>3, <2>4
      <3>2. Creating(r)'
        BY <1>0, <1>2, <2>2, <2>4, <3>1 DEF Creating, Up
      <3> QED BY <3>2 DEF RequestOK
    <2>5. CASE op[r] # "create"
      <3>1. config
        BY <1>5, <2>3, <2>5
      <3>2. Decides(r)'
        BY <1>0, <1>2, <1>3, <2>1, <2>2, <2>5, <3>1 DEF Decides
      <3> QED BY <3>2 DEF RequestOK
    <2> QED BY <2>4, <2>5
  <1> QED BY <1>4, <1>5

\* The three writes of a create, of which only the last can be seen at rest.
LEMMA CreateWorks ==
  ASSUME NEW r, Working(r), SetConfig(r) \/ SetState(r) \/ Provision(r)
  PROVE  RequestOK(r)'
  <1>0. /\ pc[r] \in {"setConfig", "setState", "provision"} /\ producer' = producer
    BY DEF SetConfig, SetState, Provision
  <1>1. Creating(r)
    BY <1>0 DEF Working, RequestOK, Between, Decides, Claims, Carries, Reports, Closes,
                Forgets
  <1>2. CASE SetConfig(r)
    <2>1. pc'[r] = "setState"
      BY <1>2, GotoPoint DEF SetConfig
    <2>2. Creating(r)'
      BY <1>0, <1>1, <1>2, <2>1 DEF Creating, SetConfig, Up
    <2> QED BY <2>2 DEF RequestOK
  <1>3. CASE SetState(r)
    <2>1. pc'[r] = "provision"
      BY <1>3, GotoPoint DEF SetState
    <2>2. Record(state', "STOPPED", "CREATED")
      BY <1>3 DEF SetState, Record, States, Statuses
    <2>3. config' /\ ~Up'
      BY <1>0, <1>1, <1>3 DEF Creating, SetState, Up
    <2>4. AtRest'
      BY <2>2, <2>3 DEF AtRest, Record
    <2>5. Creating(r)'
      BY <2>1, <2>3, <2>4 DEF Creating
    <2> QED BY <2>5 DEF RequestOK
  <1>4. CASE Provision(r)
    <2>1. Finish(r) /\ UNCHANGED <<config, state, producer>>
      BY <1>4, WorkingFacts DEF Provision, redisVars
    <2>2. config /\ AtRest
      BY <1>1, <1>4 DEF Creating, Provision
    <2> QED BY <2>1, <2>2, FinishWorks
  <1> QED BY <1>2, <1>3, <1>4

LEMMA ReadStateWorks ==
  ASSUME NEW r, Working(r), ReadState(r)
  PROVE  RequestOK(r)'
  <1>0. pc[r] = "state" /\ UNCHANGED <<config, state, producer, runtime>>
    BY DEF ReadState, redisVars
  <1>1. Decides(r)
    BY <1>0 DEF Working, RequestOK, Between, Creating, Claims, Carries, Reports, Closes,
                Forgets
  <1>2. config /\ AtRest /\ op[r] \in {"start", "stop", "restart", "delete"}
    BY <1>1 DEF Decides, Calls
  <1>3. state # None
    BY <1>2, WorkingFacts DEF AtRest
  <1>4. AtRest' <=> AtRest
    BY <1>0 DEF AtRest, Record, Up
  <1>5. \/ Finish(r)
        \/ op[r] = "restart" /\ Goto(r, FirstCall(op[r])) /\ op' = op
        \/ op[r] = "delete" /\ state.desired = "STOPPED" /\ Goto(r, "drain") /\ op' = op
        \/ op[r] # "restart" /\ Update(r, Claim(r, op[r]), FirstCall(op[r])) /\ op' = op
    BY <1>2, <1>3 DEF ReadState
  <1>6. CASE Finish(r)
    BY <1>0, <1>2, <1>6, FinishWorks
  <1>7. CASE op[r] = "restart" /\ Goto(r, FirstCall(op[r])) /\ op' = op
    <2>1. pc'[r] = IF runtime = "docker" THEN "halt" ELSE "apply"
      BY <1>7, GotoPoint, WorkingFacts DEF FirstCall
    <2>2. Claimed(op[r], state)'
      BY <1>0, <1>2, <1>7 DEF Claimed, AtRest, Record
    <2>3. Carries(r)'
      BY <1>0, <1>2, <1>7, <2>1, <2>2, WorkingFacts DEF Carries, Calls
    <2> QED BY <2>3 DEF RequestOK
  <1>8. CASE op[r] = "delete" /\ state.desired = "STOPPED" /\ Goto(r, "drain") /\ op' = op
    <2>1. pc'[r] = "drain"
      BY <1>8, GotoPoint
    <2>2. ~Up'
      BY <1>0, <1>2, <1>8 DEF AtRest, Record, Up
    <2>3. Closes(r)'
      BY <1>0, <1>2, <1>4, <1>8, <2>1, <2>2 DEF Closes
    <2> QED BY <2>3 DEF RequestOK
  <1>9. CASE op[r] # "restart" /\ Update(r, Claim(r, op[r]), FirstCall(op[r])) /\ op' = op
    <2>1. pc'[r] = "get" /\ next'[r] = FirstCall(op[r]) /\ fields'[r] = Claim(r, op[r])
      BY <1>9, UpdatePoint
    <2>2. FirstCall(op[r])' = FirstCall(op[r]) /\ Claim(r, op[r])' = Claim(r, op[r])
      BY <1>0, <1>9 DEF FirstCall, Claim
    <2>3. Claims(r)'
      BY <1>0, <1>2, <1>4, <1>9, <2>1, <2>2 DEF Claims
    <2> QED BY <2>3 DEF RequestOK
  <1> QED BY <1>5, <1>6, <1>7, <1>8, <1>9

LEMMA CloseWorks ==
  ASSUME NEW r, Working(r),
         Publish(r) \/ Drain(r) \/ DropTopic(r) \/ DelConfig(r) \/ DelState(r)
  PROVE  RequestOK(r)'
  <1>0. producer' = producer /\ runtime' = runtime
    BY DEF Publish, Drain, DropTopic, DelConfig, DelState
  <1>1. CASE DelState(r)
    <2>1. Forgets(r)
      BY <1>1 DEF DelState, Working, RequestOK, Between, Creating, Decides, Claims, Carries,
                  Reports, Closes
    <2>2. pc'[r] = "idle"
      BY <1>1, FinishPoint DEF DelState
    <2>3. Between(r)'
      BY <1>0, <1>1, <2>1, <2>2 DEF DelState, Forgets, Between, Up
    <2> QED BY <2>3 DEF RequestOK
  <1>2. CASE ~DelState(r)
    <2>1. Closes(r)
      BY <1>2 DEF Publish, Drain, DropTopic, DelConfig, Working, RequestOK, Between, Creating,
                  Decides, Claims, Carries, Reports, Forgets
    <2>2. config /\ AtRest /\ (op[r] = "delete" => ~Up)
      BY <2>1 DEF Closes
    <2>3. CASE Finish(r) /\ UNCHANGED <<config, state>>
      BY <1>0, <2>2, <2>3, FinishWorks
    <2>4. CASE DelConfig(r)
      <3>1. pc'[r] = "delState"
        BY <2>4, GotoPoint DEF DelConfig
      <3>2. Forgets(r)'
        BY <1>0, <2>1, <2>4, <3>1 DEF Closes, DelConfig, Forgets, Up
      <3> QED BY <3>2 DEF RequestOK
    <2>5. ASSUME ~Finish(r), Publish(r) \/ Drain(r) \/ DropTopic(r) PROVE RequestOK(r)'
      <3>1. PICK p \in {"drain", "dropTopic", "delConfig"} :
               /\ Goto(r, p) /\ UNCHANGED <<config, state, op>>
               /\ op[r] = "delete"
               /\ p = "dropTopic" => ~(topic /\ lag > 0) /\ lag' = lag
        BY <2>1, <2>5, WorkingFacts DEF Publish, Drain, DropTopic, Closes, redisVars, kafkaVars
      <3>2. pc'[r] = p
        BY <3>1, GotoPoint
      <3>3. p = "dropTopic" => lag' = 0
        <4>1. lag \in Nat
          BY WorkingFacts DEF TypeOK
        <4> QED BY <3>1, <4>1 DEF Working, LagOK
      <3>4. AtRest' <=> AtRest
        BY <1>0, <3>1 DEF AtRest, Record, Up
      <3>5. Closes(r)'
        BY <1>0, <2>2, <3>1, <3>2, <3>3, <3>4 DEF Closes, Up
      <3> QED BY <3>5 DEF RequestOK
    <2>6. Finish(r) => DelState(r) \/ UNCHANGED <<config, state>> \/ DelConfig(r)
      BY DEF Publish, Drain, DropTopic, redisVars
    <2> QED BY <1>2, <2>3, <2>4, <2>5, <2>6
  <1> QED BY <1>1, <1>2

-----------------------------------------------------------------------------
LEMMA OwnStep ==
  ASSUME NEW r, Working(r), LoopsOK,
         \/ Request(r) \/ UpdateGet(r) \/ UpdateSet(r) \/ Halt(r) \/ Remove(r) \/ Run(r)
         \/ Apply(r)
  PROVE  RequestOK(r)' /\ LoopsOK' /\ ProducerOK'
  <1>0. r \in Actors /\ r \notin Loops
    BY WorkingFacts
  <1>1. /\ \A a \in Actors \ {r} : pc'[a] = pc[a]
        /\ runtime' = runtime
    <2>1. /\ runtime' = runtime
          /\ \/ Finish(r) \/ \E p : Goto(r, p)
             \/ \E changes, p : Update(r, changes, p)
      BY DEF Request, Call, FindConfig, SetConfig, SetState, Provision, ReadState, Publish,
             Drain, DropTopic, DelConfig, DelState, UpdateGet, UpdateSet, Halt, Remove, Run,
             Apply, Succeeded, Failed
    <2> QED BY <1>0, <2>1, WorkingFacts DEF Finish, Update, Goto, TypeOK
  <1>2. LoopsOK'
    BY <1>0, <1>1 DEF LoopsOK, Idle, Actors
  <1>3. CASE Request(r) \/ UpdateGet(r) \/ UpdateSet(r)
    <2>1. RequestOK(r)'
      BY <1>3, CallWorks, FindConfigWorks, CreateWorks, ReadStateWorks, CloseWorks, GetWorks,
         SetWorks DEF Request
    <2>2. UNCHANGED <<producer, runtime>> /\ (UNCHANGED used \/ Spend("call", MaxCalls))
      BY <1>3, WorkingFacts
      DEF Request, Call, FindConfig, SetConfig, SetState, Provision, ReadState, Publish,
          Drain, DropTopic, DelConfig, DelState, UpdateGet, UpdateSet, Fine
    <2>3. used'.death = used.death
      BY <2>2, WorkingFacts DEF TypeOK, Spend
    <2> QED BY <1>2, <2>1, <2>2, <2>3 DEF Working, ProducerOK
  <1>4. CASE Halt(r) \/ Remove(r) \/ Run(r) \/ Apply(r)
    BY <1>2, <1>4, HaltWorks, RemoveWorks, RunWorks
  <1> QED BY <1>3, <1>4

\* The producer, the pool and the loops.
LEMMA OthersStep ==
  ASSUME NEW r, Working(r), LoopsOK, 
         \/ EventIgnored \/ WatchdogReads \/ WatchdogProbes
         \/ Produce \/ PoolCommits \/ Terminated \/ Die \/ UNCHANGED vars
  PROVE  RequestOK(r)' /\ LoopsOK' /\ ProducerOK'
  <1>0. /\ r \in Actors /\ r # Watchdog /\ TypeOK /\ used' # [used EXCEPT !.restart = 1]
        /\ RequestOK(r) /\ ProducerOK /\ LagOK
    BY WorkingFacts, NoAccident, LifecycleAssumption DEF Working, Actors
  <1>1. \/ UNCHANGED <<op, pc, fields, copy, next>>
        \/ /\ Watchdog \in Actors /\ Finish(Watchdog)
        \/ /\ Watchdog \in Actors /\ op' = [op EXCEPT ![Watchdog] = "restart"]
           /\ Goto(Watchdog, "probe") /\ UNCHANGED updateVars
    BY <1>0 DEF EventIgnored, WatchdogReads, WatchdogProbes, Produce, PoolCommits, Terminated,
                Die, vars, updateVars, Deployed, Actors
  <1>2. /\ pc'[r] = pc[r] /\ op'[r] = op[r] /\ next'[r] = next[r] /\ fields'[r] = fields[r]
        /\ copy'[r] = copy[r]
        /\ \A a \in Loops : pc'[a] = pc[a] \/ (a = Watchdog /\ pc'[a] \in {"idle", "probe"})
    BY <1>0, <1>1 DEF Finish, Goto, updateVars, TypeOK, Actors
  <1>3. LoopsOK'
    BY <1>2 DEF LoopsOK, Idle
  <1>4. /\ UNCHANGED <<runtime, config, state>>
        /\ \/ producer' = producer
           \/ producer = "terminating" /\ producer' = "absent"
           \/ /\ producer = "running" /\ producer' = "exited" /\ runtime = "docker"
              /\ Spend("death", MaxDeaths)
        /\ UNCHANGED used \/ Spend("death", MaxDeaths)
    BY <1>0 DEF EventIgnored, WatchdogReads, WatchdogProbes, Produce, PoolCommits, Terminated,
                Die, vars, redisVars, Fine
  <1>5. (Up' <=> Up) /\ (producer = "absent" => producer' = "absent")
    BY <1>4 DEF Up
  <1>6. ProducerOK'
    <2>1. used["death"] \in Nat /\ DOMAIN used = {"call", "fail", "death", "crash", "restart"}
      BY <1>0 DEF TypeOK
    <2>2. Spend("death", MaxDeaths) => used'.death # 0
      BY <2>1 DEF Spend
    <2>3. UNCHANGED used => used'.death = used.death
      OBVIOUS
    <2> QED BY <1>0, <1>4, <2>2, <2>3 DEF ProducerOK
  <1>7. Closes(r) /\ pc[r] = "dropTopic" /\ runtime = "docker" => lag' = 0
    <2> SUFFICES ASSUME Closes(r), pc[r] = "dropTopic", runtime = "docker" PROVE lag' = 0
      OBVIOUS
    <2>1. lag = 0 /\ ~Up
      BY DEF Closes
    <2>2. ~Produce /\ ~PoolCommits
      BY <1>0, <2>1 DEF Produce, PoolCommits, ProducerOK, Up
    <2> QED BY <2>1, <2>2 DEF EventIgnored, WatchdogReads, WatchdogProbes, Terminated, Die,
                               vars, kafkaVars
  <1> QED BY <1>0, <1>2, <1>3, <1>4, <1>5, <1>6, <1>7, RequestFrame

LEMMA LagStep ==
  ASSUME TypeInv, LagOK, Undisturbed' => Undisturbed, [Next]_vars,
         Undisturbed => \A r \in Clients : RequestOK(r)
  PROVE  LagOK'
  <1>0. lag \in Nat /\ TypeOK
    BY DEF TypeInv, TypeOK
  <1>1. \/ UNCHANGED kafkaVars
        \/ \E r \in Clients : Provision(r) \/ DropTopic(r)
        \/ Produce \/ PoolCommits
    BY DEF Next, Request, Call, FindConfig, SetConfig, SetState, ReadState, Publish, Drain,
           DelConfig, DelState, UpdateGet, UpdateSet, Halt, Remove, Run, Apply, Crash,
           ControllerActs, EventIgnored, WatchdogReads, WatchdogProbes, Terminated, Die, vars
  <1>2. topic' \/ lag' = 0
    <2>0. topic \in BOOLEAN /\ (topic \/ lag = 0)
      BY <1>0 DEF TypeOK, LagOK
    <2>1. CASE UNCHANGED kafkaVars \/ Produce \/ PoolCommits
      BY <2>0, <2>1 DEF kafkaVars, Produce, PoolCommits
    <2>2. ASSUME NEW r \in Clients, Provision(r) PROVE topic' \/ lag' = 0
      BY <2>0, <2>2 DEF Provision
    <2>3. ASSUME NEW r \in Clients, DropTopic(r) PROVE topic' \/ lag' = 0
      BY <2>0, <2>3 DEF DropTopic, TopicGone, kafkaVars
    <2> QED BY <1>1, <2>1, <2>2, <2>3
  <1>3. ASSUME Undisturbed', runtime' = "docker" PROVE ~lost'
    <2>1. Undisturbed /\ runtime' = runtime
      BY <1>3 DEF Next, Request, Call, FindConfig, SetConfig, SetState, Provision, ReadState,
           Publish, Drain, DropTopic, DelConfig, DelState, UpdateGet, UpdateSet, Halt, Remove,
           Run, Apply, Crash, ControllerActs, EventIgnored, WatchdogReads, WatchdogProbes,
           Produce, PoolCommits, Terminated, Die, vars
    <2>2. ~lost
      BY <1>3, <2>1 DEF LagOK
    <2>3. ASSUME NEW r \in Clients, DropTopic(r) PROVE lag = 0
      <3>1. Closes(r)
        BY <2>1, <2>3 DEF DropTopic, RequestOK, Between, Creating, Decides, Claims, Carries,
                          Reports, Forgets
      <3> QED BY <1>3, <2>1, <2>3, <3>1 DEF Closes, DropTopic
    <2>4. ASSUME NEW r \in Clients, DropTopic(r) PROVE ~lost'
      <3>1. lost' = lost \/ lost' = (lost \/ lag > 0)
        BY <2>4 DEF DropTopic, TopicGone, kafkaVars
      <3>2. ~(lag > 0)
        BY <2>3, <2>4
      <3> QED BY <2>2, <3>1, <3>2
    <2>5. CASE lost' = lost
      BY <2>2, <2>5
    <2> QED BY <1>1, <2>4, <2>5 DEF kafkaVars, Provision, Produce, PoolCommits
  <1> QED BY <1>2, <1>3 DEF LagOK

LEMMA RequestStep ==
  ASSUME NEW r, Clients = {r}, TypeInv, RequestInv, [Next]_vars
  PROVE  RequestInv'
  <1>0. Undisturbed' => Undisturbed
    BY StaysUndisturbed DEF TypeInv
  <1>1. LagOK'
    BY <1>0, LagStep DEF RequestInv
  <1> SUFFICES ASSUME Undisturbed' PROVE RequestOK(r)' /\ LoopsOK' /\ ProducerOK'
    BY <1>1 DEF RequestInv
  <1>2. Working(r) /\ LoopsOK
    BY <1>0 DEF RequestInv, Working
  <1>3. \A a \in Actors : ~Crash(a)
    BY <1>2, NoAccident DEF Crash, Working, TypeInv
  <1>4. ~ControllerActs
    BY <1>2, ControllerHasNothingToDo DEF Working
  <1>5. ASSUME NEW a \in Actors,
               \/ UpdateGet(a) \/ UpdateSet(a) \/ Halt(a) \/ Remove(a) \/ Run(a) \/ Apply(a)
        PROVE  a = r
    BY <1>2, <1>5 DEF Actors, LoopsOK, Idle, UpdateGet, UpdateSet, Halt, Remove, Run, Apply
  <1>6. \/ Request(r) \/ UpdateGet(r) \/ UpdateSet(r) \/ Halt(r) \/ Remove(r) \/ Run(r)
        \/ Apply(r)
        \/ EventIgnored \/ WatchdogReads \/ WatchdogProbes
        \/ Produce \/ PoolCommits \/ Terminated \/ Die \/ UNCHANGED vars
    BY <1>3, <1>4, <1>5 DEF Next
  <1> QED BY <1>2, <1>6, OwnStep, OthersStep

LEMMA InitRequest == Init => RequestInv
  <1> SUFFICES ASSUME Init PROVE RequestInv
    OBVIOUS
  <1>1. LagOK
    BY DEF Init, LagOK
  <1>2. \A r \in Clients : RequestOK(r)
    BY DEF Init, RequestOK, Between, Up, Actors
  <1>3. LoopsOK /\ ProducerOK
    BY DEF Init, LoopsOK, ProducerOK, Idle, Actors
  <1> QED BY <1>1, <1>2, <1>3 DEF RequestInv

\* What a request knows at each of its awaits, when no other request is served.
THEOREM RequestInvariant == ASSUME NEW r, Clients = {r} PROVE Spec => []RequestInv
  <1>1. TypeInv /\ RequestInv /\ [Next]_vars => RequestInv'
    BY RequestStep
  <1> QED BY <1>1, InitRequest, TypeInvariant, PTL DEF Spec

LEMMA OneRequest ==
  ASSUME NEW r, Clients = {r}, TypeInv, RequestInv, Undisturbed
  PROVE  /\ LoopsOK /\ ProducerOK /\ RequestOK(r) /\ (runtime = "docker" => ~lost)
         /\ Settled => IF config THEN AtRest ELSE state = None /\ ~Up
  <1>1. LoopsOK /\ ProducerOK /\ RequestOK(r) /\ LagOK
    BY DEF RequestInv
  <1>2. ASSUME Settled PROVE Between(r)
    BY <1>1, <1>2 DEF Settled, Idle, Actors, RequestOK, Creating, Decides, Claims, Carries,
                      Reports, Closes, Forgets
  <1> QED BY <1>1, <1>2 DEF Between, LagOK

\* While nothing fails, dies or is found dead, the controller never acts on a
\* pipeline whose requests come one at a time: each claims the status before it
\* touches the runtime (main.py _start, _stop; controller _act).
THEOREM ControllerKeepsOut ==
  ASSUME NEW r, Clients = {r} PROVE Spec => []ControllerStaysOut
  <1>1. TypeInv /\ RequestInv => ControllerStaysOut
    BY OneRequest, LifecycleAssumption
    DEF ControllerStaysOut, Calm, Undisturbed, Deployed, LoopsOK
  <1> QED BY <1>1, RequestInvariant, TypeInvariant, PTL

\* Then every request ends with desired_state and the producer in agreement.
THEOREM CalmRequestsAgree ==
  ASSUME NEW r, Clients = {r} PROVE Spec => []CalmAgrees
  <1>1. TypeInv /\ RequestInv => CalmAgrees
    <2> SUFFICES ASSUME TypeInv, RequestInv, Calm, Settled
                 PROVE  IF config THEN state # None /\ Agrees
                        ELSE state = None /\ producer # "running"
      BY DEF CalmAgrees
    <2>1. (IF config THEN AtRest ELSE state = None /\ ~Up) /\ ProducerOK
      BY OneRequest DEF Calm, Undisturbed
    <2>2. producer # "exited"
      BY <2>1 DEF ProducerOK, Calm
    <2>3. AtRest => state # None /\ Agrees
      BY <2>2, LifecycleAssumption DEF AtRest, Record, Up, Agrees
    <2> QED BY <2>1, <2>3 DEF Up
  <1> QED BY <1>1, RequestInvariant, TypeInvariant, PTL

\* A delete beside Docker takes no topic away with records in it: stop, then
\* drain, then delete (main.py _delete_pipeline).
THEOREM CalmDeletesAreSafe ==
  ASSUME NEW r, Clients = {r} PROVE Spec => []CalmDeleteLosesNothing
  <1>1. TypeInv /\ RequestInv => CalmDeleteLosesNothing
    BY OneRequest DEF CalmDeleteLosesNothing, Calm, Undisturbed
  <1> QED BY <1>1, RequestInvariant, TypeInvariant, PTL

\* A producer that exits by itself is left in a state the watchdog looks at
\* (watchdog main.py _check).
THEOREM DeathsAreNoticed ==
  ASSUME NEW r, Clients = {r} PROVE Spec => []DeathIsNoticed
  <1>1. TypeInv /\ RequestInv => DeathIsNoticed
    <2> SUFFICES ASSUME TypeInv, RequestInv, Undisturbed, Settled, config,
                        producer = "exited"
                 PROVE  /\ state # None
                        /\ state.desired = "RUNNING" /\ state.status # "STARTING"
                        /\ state.named
      BY DEF DeathIsNoticed, Undisturbed
    <2>1. AtRest
      BY OneRequest
    <2> QED BY <2>1, LifecycleAssumption DEF AtRest, Record, Up
  <1> QED BY <1>1, RequestInvariant, TypeInvariant, PTL

-----------------------------------------------------------------------------
(* Kubernetes, where calls may fail as well.                                    *)

\* Beside Kubernetes, runtime calls may fail too: what each place of a request knows
\* of the record and the Deployment, as long as no process dies and no delete has
\* left a producer behind.
Watched == runtime = "kubernetes" /\ used.crash = 0 /\ ~abandoned

Runs == producer = "running"

Flagged == state \in States /\ (Agrees \/ state.status = "FAILED")

\* What start, stop and delete want, and what the producer does once they have it.
Wanted(what) == IF what \in {"start", "restart"} THEN "RUNNING" ELSE "STOPPED"

Waits(r) ==
    /\ pc[r] = "idle" \/ (pc[r] = "config" /\ op[r] \in Calls)
    /\ IF config THEN Flagged ELSE state = None /\ ~Runs

Makes(r) ==
    /\ pc[r] \in {"setConfig", "setState"} /\ (config <=> pc[r] = "setState")
    /\ state = None /\ ~Runs

Holds(r) ==
    /\ pc[r] \in {"provision", "state", "publish", "drain", "dropTopic", "delConfig"}
    /\ config /\ Flagged
    /\ pc[r] = "state" => op[r] \in Calls \ {"create"}

Asks(r) ==
    /\ pc[r] \in {"get", "set"} /\ next[r] = FirstCall(op[r]) /\ config /\ state \in States
    /\ op[r] \in {"start", "stop", "delete"}
    /\ IF pc[r] = "get" THEN fields[r] = Claim(r, op[r])
       ELSE copy[r] \in States /\ copy[r].desired = Wanted(op[r])

Acts(r) ==
    /\ config /\ state \in States
    /\ op[r] # "restart" => state.desired = Wanted(op[r])
    /\ \/ pc[r] = "halt" /\ op[r] \in {"stop", "delete"}
       \/ pc[r] = "apply" /\ op[r] \in {"start", "restart"}

Confirms(r) ==
    /\ pc[r] \in {"get", "set"} /\ next[r] = "publish" /\ config /\ state \in States
    /\ op[r] \in Calls \ {"create"} /\ (Runs <=> op[r] \in {"start", "restart"})
    /\ IF pc[r] = "get"
       THEN /\ fields[r] = Success(r)
            /\ op[r] # "restart" => state.desired = Wanted(op[r])
       ELSE copy[r] \in States /\ copy[r].desired = Wanted(op[r])

Admits(r) ==
    /\ pc[r] \in {"get", "set"} /\ next[r] = "idle" /\ config /\ state \in States
    /\ IF pc[r] = "get" THEN fields[r] = Failure(r)
       ELSE copy[r] \in States /\ copy[r].status = "FAILED"

Leaves(r) == pc[r] = "delState" /\ ~config /\ ~Runs

FlagOK(r) == \/ Waits(r) \/ Makes(r) \/ Holds(r) \/ Asks(r) \/ Acts(r) \/ Confirms(r)
             \/ Admits(r) \/ Leaves(r)

FlagInv == Watched => (\A r \in Clients : FlagOK(r)) /\ (\A a \in Loops : Idle(a))

\* The assumptions under which a request takes its steps here.
Serving(r) == TypeInv /\ Watched /\ Watched' /\ FlagOK(r) /\ r \in Clients

LEMMA ServingFacts ==
  ASSUME NEW r, Serving(r)
  PROVE  /\ r \in Actors /\ TypeOK /\ None \notin States /\ runtime = "kubernetes"
         /\ config \in BOOLEAN /\ state \in States \cup {None} /\ ~abandoned /\ ~abandoned'
  BY LifecycleAssumption DEF Serving, Watched, Actors, TypeInv, TypeOK

\* Where a step of its own leaves a request.
LEMMA ServingPoint ==
  ASSUME NEW r, Serving(r)
  PROVE  /\ Finish(r) => pc'[r] = "idle"
         /\ \A p : Goto(r, p) => pc'[r] = p
         /\ \A p, changes : Update(r, changes, p) =>
               pc'[r] = "get" /\ next'[r] = p /\ fields'[r] = changes
  BY ServingFacts DEF Finish, Update, Goto, TypeOK

\* The changes a request passes to update_state.
LEMMA ServingChanges ==
  ASSUME NEW r, Serving(r)
  PROVE  /\ Claim(r, op[r]) = IF op[r] = "start"
                              THEN [desired |-> "RUNNING", status |-> "STARTING"]
                              ELSE [desired |-> "STOPPED", status |-> "STOPPING"]
         /\ Success(r) =
               IF op[r] \in {"stop", "delete"} THEN [status |-> "STOPPED", named |-> FALSE]
               ELSE IF op[r] = "start" THEN [status |-> "RUNNING", named |-> TRUE]
               ELSE [desired |-> "RUNNING", status |-> "RUNNING", named |-> TRUE]
         /\ Failure(r) = IF op[r] = "start" THEN [desired |-> "STOPPED", status |-> "FAILED"]
                         ELSE [status |-> "FAILED"]
  <1>1. r \notin Loops
    BY LifecycleAssumption DEF Serving
  <1> QED BY <1>1 DEF Claim, Success, Failure

\* Whether the record is flagged depends on the record and the producer only.
LEMMA FlaggedFrame ==
  ASSUME state' = state, Runs' <=> Runs
  PROVE  Flagged' <=> Flagged
  BY DEF Flagged, Agrees, Runs

LEMMA FlagFrame ==
  ASSUME NEW r, FlagOK(r), UNCHANGED <<runtime, config, state>>, Runs' <=> Runs,
         pc'[r] = pc[r], op'[r] = op[r], next'[r] = next[r], fields'[r] = fields[r],
         copy'[r] = copy[r]
  PROVE  FlagOK(r)'
  <1>1. Flagged' <=> Flagged
    BY FlaggedFrame
  <1>2. Waits(r) \/ Makes(r) \/ Holds(r) \/ Leaves(r) =>
            Waits(r)' \/ Makes(r)' \/ Holds(r)' \/ Leaves(r)'
    BY <1>1 DEF Waits, Makes, Holds, Leaves
  <1>3. Asks(r) => Asks(r)'
    BY DEF Asks, FirstCall, Claim, Wanted
  <1>4. Acts(r) => Acts(r)'
    BY DEF Acts, Wanted
  <1>5. Confirms(r) => Confirms(r)'
    BY DEF Confirms, Success, Wanted
  <1>6. Admits(r) => Admits(r)'
    BY DEF Admits, Failure
  <1> QED BY <1>2, <1>3, <1>4, <1>5, <1>6 DEF FlagOK

LEMMA FlagFinish ==
  ASSUME NEW r, Serving(r), Finish(r), UNCHANGED <<config, state, producer>>,
         IF config THEN Flagged ELSE state = None /\ ~Runs
  PROVE  FlagOK(r)'
  <1>1. pc'[r] = "idle" /\ (Runs' <=> Runs)
    BY ServingPoint DEF Runs
  <1>2. Waits(r)'
    BY <1>1, FlaggedFrame DEF Waits
  <1> QED BY <1>2 DEF FlagOK

\* GET: what the record will be is the record with the changes.
LEMMA FlagGet ==
  ASSUME NEW r, Serving(r), UpdateGet(r)
  PROVE  FlagOK(r)'
  <1>0. pc[r] = "get" /\ TypeOK /\ ChangesOK /\ r \in Actors
    BY ServingFacts DEF UpdateGet, Serving, TypeInv
  <1>1. Asks(r) \/ Confirms(r) \/ Admits(r)
    BY <1>0 DEF Serving, FlagOK, Waits, Makes, Holds, Acts, Leaves
  <1>2. state \in States /\ config /\ fields[r] \in Changes
    BY <1>0, <1>1 DEF Asks, Confirms, Admits, ChangesOK
  <1>3. /\ copy' = [copy EXCEPT ![r] = Merge(state, fields[r])]
        /\ pc' = [pc EXCEPT ![r] = "set"]
        /\ UNCHANGED <<op, fields, next, config, state, producer, runtime>>
    BY <1>2, ServingFacts DEF UpdateGet, Merge, Goto, redisVars
  <1> DEFINE m == Merge(state, fields[r])
  <1>4. copy'[r] = m /\ pc'[r] = "set"
    BY <1>0, <1>3 DEF TypeOK
  <1>5. /\ m \in States /\ m.status = fields[r].status
        /\ m.desired = IF "desired" \in DOMAIN fields[r] THEN fields[r].desired
                       ELSE state.desired
    BY <1>2, MergeFields
  <1> HIDE DEF m
  <1>6. CASE Asks(r)
    <2>1. /\ fields[r] = Claim(r, op[r]) /\ op[r] \in {"start", "stop", "delete"}
          /\ next[r] = FirstCall(op[r])
      BY <1>0, <1>6 DEF Asks
    <2>2. m.desired = Wanted(op[r])
      BY <1>5, <2>1, ServingChanges DEF Wanted
    <2>3. Asks(r)'
      BY <1>2, <1>3, <1>4, <1>5, <2>1, <2>2 DEF Asks, FirstCall, Wanted
    <2> QED BY <2>3 DEF FlagOK
  <1>7. CASE Confirms(r)
    <2>1. /\ fields[r] = Success(r) /\ op[r] \in {"start", "stop", "restart", "delete"}
          /\ op[r] # "restart" => state.desired = Wanted(op[r])
          /\ next[r] = "publish" /\ (Runs <=> op[r] \in {"start", "restart"})
      BY <1>0, <1>7 DEF Confirms, Calls
    <2>2. m.desired = Wanted(op[r])
      <3>1. CASE op[r] = "restart"
        BY <1>5, <2>1, <3>1, ServingChanges DEF Wanted
      <3>2. CASE op[r] # "restart"
        BY <1>5, <2>1, <3>2, ServingChanges
      <3> QED BY <3>1, <3>2
    <2>3. Confirms(r)'
      BY <1>2, <1>3, <1>4, <1>5, <2>1, <2>2 DEF Confirms, Wanted, Runs, Calls
    <2> QED BY <2>3 DEF FlagOK
  <1>8. CASE Admits(r)
    <2>1. fields[r] = Failure(r) /\ next[r] = "idle"
      BY <1>0, <1>8 DEF Admits
    <2>2. m.status = "FAILED"
      BY <1>5, <2>1, ServingChanges
    <2>3. Admits(r)'
      BY <1>2, <1>3, <1>4, <1>5, <2>1, <2>2 DEF Admits
    <2> QED BY <2>3 DEF FlagOK
  <1> QED BY <1>1, <1>6, <1>7, <1>8

LEMMA FlagSet ==
  ASSUME NEW r, Serving(r), UpdateSet(r)
  PROVE  FlagOK(r)'
  <1>0. /\ pc[r] = "set" /\ state' = copy[r] /\ UNCHANGED <<config, producer, runtime>>
        /\ TypeOK /\ r \in Actors
    BY ServingFacts DEF UpdateSet
  <1>1. Asks(r) \/ Confirms(r) \/ Admits(r)
    BY <1>0 DEF Serving, FlagOK, Waits, Makes, Holds, Acts, Leaves
  <1>2. config /\ copy[r] \in States
    BY <1>0, <1>1 DEF Asks, Confirms, Admits
  <1>3. next[r] # "idle" => pc'[r] = next[r] /\ op'[r] = op[r]
    BY <1>0, ServingPoint DEF UpdateSet
  <1>4. CASE Asks(r)
    <2>1. /\ next[r] = FirstCall(op[r]) /\ op[r] \in {"start", "stop", "delete"}
          /\ copy[r].desired = Wanted(op[r])
      BY <1>0, <1>4 DEF Asks
    <2>2. next[r] = IF op[r] = "start" THEN "apply" ELSE "halt"
      BY <2>1, ServingFacts DEF FirstCall
    <2>3. Acts(r)'
      BY <1>0, <1>2, <1>3, <2>1, <2>2 DEF Acts, Wanted
    <2> QED BY <2>3 DEF FlagOK
  <1>5. CASE Confirms(r)
    <2>1. /\ next[r] = "publish" /\ (Runs <=> op[r] \in {"start", "restart"})
          /\ copy[r].desired = Wanted(op[r])
      BY <1>0, <1>5 DEF Confirms
    <2>2. Agrees' /\ state' \in States
      BY <1>0, <1>2, <2>1 DEF Agrees, Runs, Wanted
    <2>3. pc'[r] = "publish"
      BY <1>3, <2>1
    <2>4. Holds(r)'
      BY <1>0, <1>2, <2>2, <2>3 DEF Holds, Flagged
    <2> QED BY <2>4 DEF FlagOK
  <1>6. CASE Admits(r)
    <2>1. next[r] = "idle" /\ copy[r].status = "FAILED"
      BY <1>0, <1>6 DEF Admits
    <2>2. pc'[r] = "idle"
      BY <2>1, ServingPoint DEF UpdateSet
    <2>3. Waits(r)'
      BY <1>0, <1>2, <2>1, <2>2 DEF Waits, Flagged
    <2> QED BY <2>3 DEF FlagOK
  <1> QED BY <1>1, <1>4, <1>5, <1>6

\* A runtime call, carried out or not: the answer says what to write.
LEMMA FlagRuntime ==
  ASSUME NEW r, Serving(r), Halt(r) \/ Remove(r) \/ Run(r) \/ Apply(r)
  PROVE  FlagOK(r)'
  <1>0. pc[r] \in {"halt", "remove", "run", "apply"} /\ UNCHANGED <<config, state, runtime>>
    BY DEF Halt, Remove, Run, Apply, redisVars
  <1>1. Acts(r)
    BY <1>0 DEF Serving, FlagOK, Waits, Makes, Holds, Asks, Confirms, Admits, Leaves
  <1>2. /\ config /\ state \in States /\ (op[r] # "restart" => state.desired = Wanted(op[r]))
        /\ \/ op[r] \in {"stop", "delete"} /\ Halt(r)
           \/ op[r] \in {"start", "restart"} /\ Apply(r)
    BY <1>1 DEF Acts, Halt, Remove, Run, Apply
  <1>3. \/ Failed(r)
        \/ Succeeded(r) /\ (Runs' <=> op[r] \in {"start", "restart"})
    BY <1>2, ServingFacts DEF Halt, Apply, Halted, Runs
  <1>4. CASE Failed(r)
    <2>1. pc'[r] = "get" /\ next'[r] = "idle" /\ fields'[r] = Failure(r) /\ op' = op
      BY <1>4, ServingPoint DEF Failed
    <2>2. Admits(r)'
      BY <1>0, <1>2, <2>1 DEF Admits, Failure
    <2> QED BY <2>2 DEF FlagOK
  <1>5. CASE Succeeded(r) /\ (Runs' <=> op[r] \in {"start", "restart"})
    <2>1. pc'[r] = "get" /\ next'[r] = "publish" /\ fields'[r] = Success(r) /\ op' = op
      BY <1>5, ServingPoint DEF Succeeded, Serving
    <2>2. op[r] \in Calls \ {"create"}
      BY <1>2 DEF Calls
    <2>3. Confirms(r)'
      BY <1>0, <1>2, <1>5, <2>1, <2>2 DEF Confirms, Success, Wanted
    <2> QED BY <2>3 DEF FlagOK
  <1> QED BY <1>3, <1>4, <1>5

\* The steps of a request that touch no runtime.
LEMMA FlagLook ==
  ASSUME NEW r, Serving(r),
         (\E what \in Calls : Call(r, what)) \/ FindConfig(r) \/ ReadState(r)
  PROVE  FlagOK(r)'
  <1>0. /\ UNCHANGED <<config, state, producer, runtime>>
        /\ pc[r] \in {"idle", "config", "state"}
    BY DEF Call, FindConfig, ReadState, Idle, redisVars
  <1>1. Flagged' <=> Flagged
    BY <1>0, FlaggedFrame DEF Runs
  <1>2. /\ pc[r] = "idle" => Waits(r)
        /\ pc[r] = "config" => Waits(r)
        /\ pc[r] = "state" => Holds(r)
    BY DEF Serving, FlagOK, Waits, Makes, Holds, Asks, Acts, Confirms, Admits, Leaves
  <1>3. ASSUME NEW what \in Calls, Call(r, what) PROVE FlagOK(r)'
    <2>1. pc'[r] = "config" /\ op'[r] = what /\ Waits(r)
      BY <1>2, <1>3, ServingPoint, ServingFacts DEF Call, Idle, TypeOK
    <2>2. Waits(r)'
      BY <1>0, <1>1, <2>1 DEF Waits, Runs
    <2> QED BY <2>2 DEF FlagOK
  <1>4. CASE FindConfig(r)
    <2>1. /\ pc[r] = "config" /\ op[r] \in Calls
          /\ IF config THEN Flagged ELSE state = None /\ ~Runs
      BY <1>2, <1>4 DEF FindConfig, Waits
    <2>2. CASE Finish(r)
      BY <1>0, <2>1, <2>2, FlagFinish
    <2>3. CASE ~Finish(r)
      <3>1. /\ config # (op[r] = "create") /\ op'[r] = op[r]
            /\ pc'[r] = IF op[r] = "create" THEN "setConfig" ELSE "state"
        BY <1>4, <2>3, ServingPoint DEF FindConfig
      <3>2. config <=> op[r] # "create"
        BY <3>1, ServingFacts
      <3>3. CASE op[r] = "create"
        <4>1. Makes(r)'
          BY <1>0, <2>1, <3>1, <3>2, <3>3 DEF Makes, Runs
        <4> QED BY <4>1 DEF FlagOK
      <3>4. CASE op[r] # "create"
        <4>1. Holds(r)'
          BY <1>0, <1>1, <2>1, <3>1, <3>2, <3>4 DEF Holds
        <4> QED BY <4>1 DEF FlagOK
      <3> QED BY <3>3, <3>4
    <2> QED BY <2>2, <2>3
  <1>5. CASE ReadState(r)
    <2>1. config /\ Flagged /\ op[r] \in {"start", "stop", "restart", "delete"}
      BY <1>2, <1>5 DEF ReadState, Holds, Calls
    <2>2. state # None /\ state \in States
      BY <2>1, ServingFacts DEF Flagged
    <2>3. \/ Finish(r)
          \/ op[r] = "restart" /\ Goto(r, FirstCall(op[r])) /\ op' = op
          \/ op[r] = "delete" /\ Goto(r, "drain") /\ op' = op
          \/ op[r] # "restart" /\ Update(r, Claim(r, op[r]), FirstCall(op[r])) /\ op' = op
      BY <1>5, <2>1, <2>2 DEF ReadState
    <2>4. CASE Finish(r)
      BY <1>0, <2>1, <2>4, FlagFinish
    <2>5. CASE op[r] = "restart" /\ Goto(r, FirstCall(op[r])) /\ op' = op
      <3>1. pc'[r] = "apply"
        BY <2>5, ServingPoint, ServingFacts DEF FirstCall
      <3>2. Acts(r)'
        BY <1>0, <2>1, <2>2, <2>5, <3>1 DEF Acts
      <3> QED BY <3>2 DEF FlagOK
    <2>6. CASE op[r] = "delete" /\ Goto(r, "drain") /\ op' = op
      <3>1. pc'[r] = "drain"
        BY <2>6, ServingPoint
      <3>2. Holds(r)'
        BY <1>0, <1>1, <2>1, <3>1 DEF Holds
      <3> QED BY <3>2 DEF FlagOK
    <2>7. CASE op[r] # "restart" /\ Update(r, Claim(r, op[r]), FirstCall(op[r])) /\ op' = op
      <3>1. pc'[r] = "get" /\ next'[r] = FirstCall(op[r]) /\ fields'[r] = Claim(r, op[r])
        BY <2>7, ServingPoint
      <3>2. FirstCall(op[r])' = FirstCall(op[r]) /\ Claim(r, op[r])' = Claim(r, op[r])
        BY <1>0, <2>7 DEF FirstCall, Claim
      <3>3. Asks(r)'
        BY <1>0, <2>1, <2>2, <2>7, <3>1, <3>2 DEF Asks
      <3> QED BY <3>3 DEF FlagOK
    <2> QED BY <2>3, <2>4, <2>5, <2>6, <2>7
  <1> QED BY <1>3, <1>4, <1>5

\* A create that fails takes its records back; a delete forgets no running producer.
LEMMA FlagMake ==
  ASSUME NEW r, Serving(r),
         SetConfig(r) \/ SetState(r) \/ Provision(r) \/ DelConfig(r) \/ DelState(r)
  PROVE  FlagOK(r)'
  <1>0. UNCHANGED <<producer, runtime>> /\ (Runs' <=> Runs)
    BY DEF SetConfig, SetState, Provision, DelConfig, DelState, Runs
  <1>1. /\ pc[r] \in {"setConfig", "setState"} => Makes(r)
        /\ pc[r] \in {"provision", "delConfig"} => Holds(r)
        /\ pc[r] = "delState" => Leaves(r)
    BY DEF Serving, FlagOK, Waits, Makes, Holds, Asks, Acts, Confirms, Admits, Leaves
  <1>2. CASE SetConfig(r)
    <2>1. pc'[r] = "setState"
      BY <1>2, ServingPoint DEF SetConfig
    <2>2. Makes(r)'
      BY <1>0, <1>1, <1>2, <2>1 DEF SetConfig, Makes
    <2> QED BY <2>2 DEF FlagOK
  <1>3. CASE SetState(r)
    <2>1. pc'[r] = "provision" /\ config' /\ ~Runs'
      BY <1>0, <1>1, <1>3, ServingPoint DEF SetState, Makes
    <2>2. state' \in States /\ state'.desired = "STOPPED"
      BY <1>3 DEF SetState, States, Statuses
    <2>3. Holds(r)'
      BY <2>1, <2>2 DEF Holds, Flagged, Agrees, Runs
    <2> QED BY <2>3 DEF FlagOK
  <1>4. CASE Provision(r)
    <2>1. config /\ Flagged /\ UNCHANGED <<config, state>>
      BY <1>1, <1>4 DEF Provision, Holds, redisVars
    <2>2. Finish(r) \/ pc'[r] = "delConfig"
      BY <1>4, ServingPoint DEF Provision
    <2>3. CASE Finish(r)
      BY <1>0, <2>1, <2>3, FlagFinish
    <2>4. CASE pc'[r] = "delConfig"
      <3>1. Holds(r)'
        BY <1>0, <2>1, <2>4, FlaggedFrame DEF Holds
      <3> QED BY <3>1 DEF FlagOK
    <2> QED BY <2>2, <2>3, <2>4
  <1>5. CASE DelConfig(r)
    <2>1. pc'[r] = "delState" /\ ~config'
      BY <1>5, ServingPoint DEF DelConfig
    <2>2. ~Runs
      BY <1>5, ServingFacts DEF DelConfig, Runs
    <2>3. Leaves(r)'
      BY <1>0, <2>1, <2>2 DEF Leaves
    <2> QED BY <2>3 DEF FlagOK
  <1>6. CASE DelState(r)
    <2>1. ~config' /\ state' = None /\ ~Runs' /\ pc'[r] = "idle"
      BY <1>0, <1>1, <1>6, ServingPoint DEF DelState, Leaves
    <2>2. Waits(r)'
      BY <2>1 DEF Waits
    <2> QED BY <2>2 DEF FlagOK
  <1> QED BY <1>2, <1>3, <1>4, <1>5, <1>6

LEMMA FlagClose ==
  ASSUME NEW r, Serving(r), Publish(r) \/ Drain(r) \/ DropTopic(r)
  PROVE  FlagOK(r)'
  <1>0. UNCHANGED <<config, state, producer, runtime>> /\ (Runs' <=> Runs)
    BY DEF Publish, Drain, DropTopic, Runs, redisVars
  <1>1. Holds(r)
    BY DEF Publish, Drain, DropTopic, Serving, FlagOK, Waits, Makes, Holds, Asks, Acts,
           Confirms, Admits, Leaves
  <1>2. config /\ Flagged
    BY <1>1 DEF Holds
  <1>3. Finish(r) \/ \E p \in {"drain", "dropTopic", "delConfig"} : Goto(r, p)
    BY DEF Publish, Drain, DropTopic
  <1>4. CASE Finish(r)
    BY <1>0, <1>2, <1>4, FlagFinish
  <1>5. ASSUME NEW p \in {"drain", "dropTopic", "delConfig"}, Goto(r, p) PROVE FlagOK(r)'
    <2>1. pc'[r] = p
      BY <1>5, ServingPoint
    <2>2. Holds(r)'
      BY <1>0, <1>2, <2>1, FlaggedFrame DEF Holds
    <2> QED BY <2>2 DEF FlagOK
  <1> QED BY <1>3, <1>4, <1>5

\* Once a process has died or a producer was left behind, that stays so.
LEMMA StaysWatched ==
  ASSUME TypeOK, [Next]_vars, Watched'
  PROVE  Watched /\ \A a \in Actors : ~Crash(a)
  <1>1. used["crash"] \in Nat /\ DOMAIN used = {"call", "fail", "death", "crash", "restart"}
    BY DEF TypeOK
  <1>2. ASSUME NEW max, Spend("crash", max) PROVE FALSE
    BY <1>1, <1>2 DEF Spend, Watched
  <1>3. ASSUME NEW what \in {"call", "fail", "death"}, NEW max, Spend(what, max)
        PROVE  used'.crash = used.crash
    BY <1>1, <1>3 DEF Spend
  <1>4. used' = [used EXCEPT !.restart = 1] => used'.crash = used.crash
    BY <1>1
  <1>5. \/ UNCHANGED used \/ used' = [used EXCEPT !.restart = 1]
        \/ \E what \in {"call", "fail", "death", "crash"} : \E max : Spend(what, max)
    BY DEF Next, Request, Call, FindConfig, SetConfig, SetState, Provision, ReadState, Publish,
           Drain, DropTopic, DelConfig, DelState, UpdateGet, UpdateSet, Halt, Remove, Run,
           Apply, Crash, ControllerActs, EventIgnored, WatchdogReads, WatchdogProbes, Produce,
           PoolCommits, Terminated, Die, Fine, Fail, vars
  <1>6. used'.crash = used.crash
    BY <1>2, <1>3, <1>4, <1>5
  <1>7. /\ runtime' = runtime
        /\ UNCHANGED abandoned \/ abandoned' = (abandoned \/ producer = "running")
    BY DEF Next, Request, Call, FindConfig, SetConfig, SetState, Provision, ReadState, Publish,
           Drain, DropTopic, DelConfig, DelState, UpdateGet, UpdateSet, Halt, Remove, Run,
           Apply, Crash, ControllerActs, EventIgnored, WatchdogReads, WatchdogProbes, Produce,
           PoolCommits, Terminated, Die, vars
  <1>8. ~Spend("crash", MaxCrashes)
    BY <1>2
  <1>9. ~abandoned
    BY <1>7, Zenon DEF Watched
  <1> QED BY <1>6, <1>7, <1>8, <1>9 DEF Watched, Crash

LEMMA FlagStep ==
  ASSUME NEW r, Clients = {r}, TypeInv, FlagInv, [Next]_vars
  PROVE  FlagInv'
  <1> SUFFICES ASSUME Watched' PROVE FlagOK(r)' /\ \A a \in Loops : Idle(a)'
    BY DEF FlagInv
  <1>0. Serving(r) /\ (\A a \in Loops : Idle(a)) /\ \A a \in Actors : ~Crash(a)
    BY StaysWatched DEF FlagInv, Serving, TypeInv
  <1>1. runtime = "kubernetes" /\ r \in Actors /\ r \notin Loops /\ TypeOK
    BY <1>0, ServingFacts, LifecycleAssumption
  <1>2. ~ControllerActs /\ ~WatchdogReads /\ ~WatchdogProbes /\ ~Die
    BY <1>1 DEF ControllerActs, WatchdogReads, WatchdogProbes, Die, Deployed
  <1>3. ASSUME NEW a \in Actors,
               \/ UpdateGet(a) \/ UpdateSet(a) \/ Halt(a) \/ Remove(a) \/ Run(a) \/ Apply(a)
        PROVE  a = r
    BY <1>0, <1>3 DEF Actors, Idle, UpdateGet, UpdateSet, Halt, Remove, Run, Apply
  <1>4. \/ Request(r) \/ UpdateGet(r) \/ UpdateSet(r) \/ Halt(r) \/ Remove(r) \/ Run(r)
        \/ Apply(r)
        \/ EventIgnored \/ Produce \/ PoolCommits \/ Terminated \/ UNCHANGED vars
    BY <1>0, <1>2, <1>3 DEF Next
  <1>5. CASE \/ Request(r) \/ UpdateGet(r) \/ UpdateSet(r) \/ Halt(r) \/ Remove(r) \/ Run(r)
             \/ Apply(r)
    <2>1. FlagOK(r)'
      BY <1>0, <1>5, FlagLook, FlagMake, FlagClose, FlagGet, FlagSet, FlagRuntime DEF Request
    <2>2. Finish(r) \/ (\E p : Goto(r, p)) \/ \E changes, p : Update(r, changes, p)
      BY <1>5 DEF Request, Call, FindConfig, SetConfig, SetState, Provision, ReadState,
             Publish, Drain, DropTopic, DelConfig, DelState, UpdateGet, UpdateSet, Halt,
             Remove, Run, Apply, Succeeded, Failed
    <2>3. \A a \in Loops : pc'[a] = pc[a]
      BY <1>1, <2>2 DEF Finish, Update, Goto, TypeOK, Actors
    <2> QED BY <1>0, <2>1, <2>3 DEF Idle
  <1>6. CASE EventIgnored \/ Produce \/ PoolCommits \/ Terminated \/ UNCHANGED vars
    <2>1. /\ UNCHANGED <<runtime, config, state, op, pc, fields, copy, next>>
          /\ Runs' <=> Runs
      BY <1>6 DEF EventIgnored, Produce, PoolCommits, Terminated, vars, redisVars,
                  updateVars, Runs
    <2>2. FlagOK(r)'
      BY <1>0, <2>1, FlagFrame DEF Serving
    <2> QED BY <1>0, <2>1, <2>2 DEF Idle
  <1> QED BY <1>4, <1>5, <1>6

LEMMA InitFlag == Init => FlagInv
  BY DEF Init, FlagInv, FlagOK, Waits, Runs, Idle, Actors

\* What a request beside Kubernetes knows at each of its awaits, whatever calls fail.
THEOREM FlagInvariant == ASSUME NEW r, Clients = {r} PROVE Spec => []FlagInv
  <1>1. TypeInv /\ FlagInv /\ [Next]_vars => FlagInv'
    BY FlagStep
  <1> QED BY <1>1, InitFlag, TypeInvariant, PTL DEF Spec

\* Whichever runtime and Kafka calls fail, carried out or not, a Deployment that is
\* not as desired is marked FAILED when the request has ended (main.py _start,
\* _stop, _restart and their except clauses).
THEOREM FailuresAreFlagged ==
  ASSUME NEW r, Clients = {r} PROVE Spec => []FailureIsFlagged
  <1>1. TypeInv /\ FlagInv => FailureIsFlagged
    <2> SUFFICES ASSUME TypeInv, FlagInv, Watched, Settled, config
                 PROVE  state # None /\ (Agrees \/ state.status = "FAILED")
      BY DEF FailureIsFlagged, Watched
    <2>1. Waits(r)
      BY DEF FlagInv, FlagOK, Settled, Idle, Actors, Makes, Holds, Asks, Acts, Confirms,
             Admits, Leaves
    <2> QED BY <2>1, LifecycleAssumption DEF Waits, Flagged
  <1> QED BY <1>1, FlagInvariant, TypeInvariant, PTL
-----------------------------------------------------------------------------
(* Any number of requests at once.                                              *)

\* The runtime calls a handler makes between its two writes.
RuntimeCalls == {"halt", "remove", "run", "apply"}

\* Where the last update_state of a handler leads.
Ends == {"idle", "publish"}

\* The last write of a handler is one at rest, and what it writes is a whole record.
SaveOK(a) ==
    /\ next[a] \in Ends \cup RuntimeCalls
    /\ pc[a] = "get" /\ next[a] \in Ends => fields[a].status \notin Transitional
    /\ pc[a] = "set" => /\ copy[a] \in States
                        /\ next[a] \in Ends => copy[a].status \notin Transitional

AtWork(a) == pc[a] \in {"get", "set"} \cup RuntimeCalls

\* Somebody who still has to write is behind every transitional status. The loops
\* are there beside Docker only.
HangInv ==
    /\ \A a \in Actors : SaveOK(a)
    /\ runtime # "docker" => \A a \in Loops : Idle(a)
    /\ used.crash = 0 /\ state # None /\ state.status \in Transitional =>
           \E a \in Actors : AtWork(a)

\* The three ways a step changes what a handler is doing.
Moves(a) ==
    \/ Finish(a)
    \/ UNCHANGED updateVars /\ \E p \in Places \ {"get", "set"} : Goto(a, p)
    \/ \E changes, p : /\ Update(a, changes, p)
                       /\ \/ p \in RuntimeCalls
                          \/ p \in Ends /\ changes.status \notin Transitional

LEMMA MoveFrame ==
  ASSUME TypeOK, NEW a \in Actors, Moves(a)
  PROVE  \A b \in Actors \ {a} : /\ pc'[b] = pc[b] /\ fields'[b] = fields[b]
                                 /\ copy'[b] = copy[b] /\ next'[b] = next[b]
  <1>1. CASE Finish(a)
    BY <1>1 DEF Finish, Goto, TypeOK
  <1>2. CASE UNCHANGED updateVars /\ \E p \in Places \ {"get", "set"} : Goto(a, p)
    BY <1>2 DEF updateVars, Goto, TypeOK
  <1>3. ASSUME NEW changes, NEW p, Update(a, changes, p)
        PROVE  \A b \in Actors \ {a} : /\ pc'[b] = pc[b] /\ fields'[b] = fields[b]
                                       /\ copy'[b] = copy[b] /\ next'[b] = next[b]
    BY <1>3 DEF Update, Goto, TypeOK
  <1> QED BY <1>1, <1>2, <1>3 DEF Moves

LEMMA MoveSaves ==
  ASSUME TypeOK, NEW a \in Actors, Moves(a), runtime' = runtime,
         \A b \in Actors : SaveOK(b)
  PROVE  \A b \in Actors : SaveOK(b)'
  <1>1. Transitional' = Transitional
    BY DEF Transitional
  <1>2. \A b \in Actors \ {a} : SaveOK(b)'
    BY <1>1, MoveFrame DEF SaveOK
  <1>3. CASE Finish(a)
    <2>1. pc'[a] = "idle" /\ next'[a] = "idle"
      BY <1>3 DEF Finish, Goto, TypeOK
    <2>2. SaveOK(a)'
      BY <2>1 DEF SaveOK, Ends
    <2> QED BY <1>2, <2>2
  <1>4. ASSUME NEW p \in Places \ {"get", "set"}, Goto(a, p), UNCHANGED updateVars
        PROVE  SaveOK(a)'
    <2>1. pc'[a] = p /\ next'[a] = next[a]
      BY <1>4 DEF Goto, updateVars, TypeOK
    <2> QED BY <2>1, <1>4 DEF SaveOK
  <1>5. ASSUME NEW changes, NEW p, Update(a, changes, p),
               \/ p \in RuntimeCalls
               \/ p \in Ends /\ changes.status \notin Transitional
        PROVE  SaveOK(a)'
    <2>1. pc'[a] = "get" /\ next'[a] = p /\ fields'[a] = changes
      BY <1>5 DEF Update, Goto, TypeOK
    <2>2. RuntimeCalls \cap Ends = {}
      BY DEF RuntimeCalls, Ends
    <2> QED BY <1>1, <1>5, <2>1, <2>2 DEF SaveOK
  <1> QED BY <1>2, <1>3, <1>4, <1>5 DEF Moves

\* A handler that has written to do goes on, and nobody else is disturbed.
LEMMA WorkKept ==
  ASSUME TypeOK, NEW a \in Actors, Moves(a), AtWork(a) => AtWork(a)'
  PROVE  \A b \in Actors : AtWork(b) => AtWork(b)'
  <1>1. \A b \in Actors \ {a} : pc'[b] = pc[b]
    BY MoveFrame
  <1> QED BY <1>1 DEF AtWork

LEMMA HangGet ==
  ASSUME TypeInv, HangInv, NEW a \in Actors, UpdateGet(a)
  PROVE  /\ \A b \in Actors : SaveOK(b)'
         /\ state' = state /\ (state # None => \A b \in Actors : AtWork(b) => AtWork(b)')
  <1>0. /\ TypeOK /\ ChangesOK /\ (\A b \in Actors : SaveOK(b)) /\ pc[a] = "get"
        /\ UNCHANGED <<runtime, state>> /\ Transitional' = Transitional
    BY DEF TypeInv, HangInv, UpdateGet, redisVars, Transitional
  <1>1. CASE state = None
    <2>1. CASE Finish(a)
      <3>1. Moves(a)
        BY <2>1 DEF Moves
      <3> QED BY <1>0, <1>1, <3>1, MoveSaves
    <2>2. CASE a \in Loops /\ Failed(a)
      <3>1. runtime = "docker"
        BY <1>0, <2>2 DEF HangInv, Idle
      <3>2. Update(a, Failure(a), "idle") /\ Failure(a).status \notin Transitional
        BY <2>2, <3>1 DEF Failed, Failure, Transitional
      <3>3. Moves(a)
        BY <3>2 DEF Moves, Ends
      <3> QED BY <1>0, <1>1, <3>3, MoveSaves
    <2> QED BY <1>1, <2>1, <2>2 DEF UpdateGet, Guarded
  <1>2. CASE state # None
    <2>1. /\ copy' = [copy EXCEPT ![a] = Merge(state, fields[a])]
          /\ pc' = [pc EXCEPT ![a] = "set"] /\ UNCHANGED <<fields, next>>
      BY <1>2 DEF UpdateGet, Goto, Merge
    <2>2. state \in States /\ fields[a] \in Changes
      BY <1>0, <1>2 DEF TypeOK, ChangesOK
    <2>3. Merge(state, fields[a]) \in States /\ Merge(state, fields[a]).status = fields[a].status
      BY <2>2, MergeFields
    <2>4. /\ pc'[a] = "set" /\ copy'[a] = Merge(state, fields[a])
          /\ \A b \in Actors \ {a} : pc'[b] = pc[b] /\ copy'[b] = copy[b]
      BY <1>0, <2>1 DEF TypeOK
    <2> HIDE DEF Merge
    <2>5. SaveOK(a)'
      BY <1>0, <2>1, <2>3, <2>4 DEF SaveOK
    <2>6. \A b \in Actors \ {a} : SaveOK(b)'
      BY <1>0, <2>1, <2>4 DEF SaveOK
    <2>7. \A b \in Actors : AtWork(b) => AtWork(b)'
      BY <2>4 DEF AtWork
    <2> QED BY <1>0, <2>5, <2>6, <2>7
  <1> QED BY <1>1, <1>2

\* SET: either the handler's last word, or a claim with the runtime still to call.
LEMMA HangSet ==
  ASSUME TypeInv, HangInv, NEW a \in Actors, UpdateSet(a)
  PROVE  /\ \A b \in Actors : SaveOK(b)'
         /\ state' # None /\ state'.status \in Transitional' => AtWork(a)'
  <1>0. /\ TypeOK /\ (\A b \in Actors : SaveOK(b)) /\ pc[a] = "set" /\ state' = copy[a]
        /\ runtime' = runtime /\ Transitional' = Transitional
    BY DEF TypeInv, HangInv, UpdateSet, Transitional
  <1>1. CASE next[a] = "idle"
    <2>1. Moves(a)
      BY <1>1 DEF UpdateSet, Moves
    <2>2. state'.status \notin Transitional
      BY <1>0, <1>1 DEF SaveOK, Ends
    <2> QED BY <1>0, <2>1, <2>2, MoveSaves
  <1>2. CASE next[a] # "idle"
    <2>1. /\ pc' = [pc EXCEPT ![a] = next[a]] /\ fields' = [fields EXCEPT ![a] = None]
          /\ copy' = [copy EXCEPT ![a] = None] /\ next' = [next EXCEPT ![a] = "idle"]
      BY <1>2 DEF UpdateSet, Goto
    <2>2. next[a] \in RuntimeCalls \cup {"publish"} /\ next[a] \notin {"get", "set"}
      BY <1>0, <1>2 DEF SaveOK, Ends, RuntimeCalls
    <2>3. /\ pc'[a] = next[a] /\ next'[a] = "idle"
          /\ \A b \in Actors \ {a} : /\ pc'[b] = pc[b] /\ fields'[b] = fields[b]
                                     /\ copy'[b] = copy[b] /\ next'[b] = next[b]
      BY <1>0, <2>1 DEF TypeOK
    <2>4. SaveOK(a)'
      BY <2>2, <2>3 DEF SaveOK, Ends
    <2>5. \A b \in Actors \ {a} : SaveOK(b)'
      BY <1>0, <2>3 DEF SaveOK
    <2>6. state'.status \in Transitional => AtWork(a)'
      BY <1>0, <2>2, <2>3 DEF SaveOK, Ends, AtWork
    <2> QED BY <1>0, <2>4, <2>5, <2>6
  <1> QED BY <1>1, <1>2

\* Whatever the runtime answers, what is written next is at rest.
LEMMA HangRuntime ==
  ASSUME TypeInv, HangInv, NEW a \in Actors, Halt(a) \/ Remove(a) \/ Run(a) \/ Apply(a)
  PROVE  Moves(a) /\ AtWork(a)' /\ UNCHANGED <<state, runtime>>
  <1>0. TypeOK /\ pc[a] \in RuntimeCalls /\ UNCHANGED <<state, runtime>>
    BY DEF TypeInv, Halt, Remove, Run, Apply, RuntimeCalls, redisVars
  <1>1. a \in Loops => runtime = "docker"
    BY <1>0 DEF HangInv, Idle, RuntimeCalls
  <1>2. Success(a).status \notin Transitional /\ Failure(a).status \notin Transitional
    BY <1>1 DEF Success, Failure, Transitional
  <1>3. \/ \E p \in {"remove", "run"} : Goto(a, p) /\ UNCHANGED <<op, updateVars>>
        \/ Succeeded(a) \/ Failed(a)
    BY DEF Halt, Remove, Run, Apply
  <1>4. ASSUME NEW p \in {"remove", "run"}, Goto(a, p), UNCHANGED updateVars
        PROVE  Moves(a) /\ AtWork(a)'
    <2>1. p \in Places \ {"get", "set"} /\ pc'[a] = p
      BY <1>0, <1>4 DEF Goto, TypeOK, Places
    <2> QED BY <1>4, <2>1 DEF Moves, AtWork, RuntimeCalls
  <1>5. ASSUME NEW changes, NEW p \in Ends, Update(a, changes, p),
               changes.status \notin Transitional
        PROVE  Moves(a) /\ AtWork(a)'
    <2>1. pc'[a] = "get"
      BY <1>0, <1>5 DEF Update, Goto, TypeOK
    <2> QED BY <1>5, <2>1 DEF Moves, AtWork
  <1>6. CASE Succeeded(a)
    <2>1. \E p \in Ends : Update(a, Success(a), p)
      BY <1>6 DEF Succeeded, Ends
    <2> QED BY <1>0, <1>2, <1>5, <2>1
  <1>7. CASE Failed(a)
    <2>1. \E p \in Ends : Update(a, Failure(a), p)
      BY <1>7 DEF Failed, Ends
    <2> QED BY <1>0, <1>2, <1>5, <2>1
  <1> QED BY <1>0, <1>3, <1>4, <1>6, <1>7

LEMMA HangRequest ==
  ASSUME TypeInv, NEW r \in Clients, Request(r)
  PROVE  /\ r \in Actors /\ Moves(r) /\ ~AtWork(r) /\ runtime' = runtime
         /\ state' = state \/ state' = None \/ state'.status = "CREATED"
  <1>1. r \in Actors
    BY DEF Actors
  <1>2. Moves(r)
    <2>1. \A p \in {"setConfig", "state", "setState", "provision", "delConfig", "drain",
                    "dropTopic", "delState", "config"} \cup RuntimeCalls :
             p \in Places \ {"get", "set"}
      BY DEF Places, RuntimeCalls
    <2>2. CASE ReadState(r)
      <3>1. FirstCall(op[r]) \in RuntimeCalls
        BY DEF FirstCall, RuntimeCalls
      <3>2. \/ Finish(r)
            \/ \E p \in {"drain", FirstCall(op[r])} : Goto(r, p) /\ UNCHANGED <<op, updateVars>>
            \/ Update(r, Claim(r, op[r]), FirstCall(op[r])) /\ UNCHANGED op
        BY <2>2 DEF ReadState
      <3> QED BY <2>1, <3>1, <3>2 DEF Moves
    <2>3. ASSUME NEW what \in Calls, Call(r, what) PROVE Moves(r)
      BY <2>1, <2>3 DEF Call, Moves
    <2>4. \/ \E what \in Calls : Call(r, what)
          \/ ReadState(r) \/ Finish(r)
          \/ \E p \in {"setConfig", "state", "setState", "provision", "delConfig", "drain",
                        "dropTopic", "delState"} :
                 Goto(r, p) /\ UNCHANGED updateVars
      BY DEF Request, FindConfig, SetConfig, SetState, Provision, Publish, Drain, DropTopic,
             DelConfig, DelState, updateVars
    <2> QED BY <2>1, <2>2, <2>3, <2>4 DEF Moves
  <1>3. ~AtWork(r) /\ runtime' = runtime
    <2>1. /\ pc[r] \in {"idle", "config", "setConfig", "setState", "provision", "state",
                       "publish", "drain", "dropTopic", "delConfig", "delState"}
          /\ runtime' = runtime
      BY DEF Request, Call, FindConfig, SetConfig, SetState, Provision, ReadState, Publish,
             Drain, DropTopic, DelConfig, DelState, Idle
    <2> QED BY <2>1 DEF AtWork, RuntimeCalls
  <1>4. state' = state \/ state' = None \/ state'.status = "CREATED"
    <2>1. state' \in {state, None, [desired |-> "STOPPED", status |-> "CREATED", named |-> FALSE]}
      BY DEF Request, Call, FindConfig, SetConfig, SetState, Provision, ReadState, Publish,
             Drain, DropTopic, DelConfig, DelState, redisVars
    <2> QED BY <2>1
  <1> QED BY <1>1, <1>2, <1>3, <1>4

LEMMA HangLoop ==
  ASSUME TypeInv, ControllerActs \/ WatchdogReads \/ WatchdogProbes
  PROVE  /\ runtime = "docker" /\ UNCHANGED <<runtime, state>>
         /\ \E a \in Actors : Moves(a) /\ ~AtWork(a)
  <1>0. \A what : FirstCall(what) \in RuntimeCalls
    BY DEF FirstCall, RuntimeCalls
  <1>1. CASE ControllerActs
    <2>1. Controller \in Actors /\ ~AtWork(Controller)
      BY <1>1 DEF ControllerActs, Deployed, Actors, Idle, AtWork, RuntimeCalls
    <2>2. Moves(Controller)
      BY <1>0, <1>1 DEF ControllerActs, Moves
    <2> QED BY <1>1, <2>1, <2>2 DEF ControllerActs, Deployed, redisVars
  <1>2. CASE WatchdogReads \/ WatchdogProbes
    <2>1. Watchdog \in Actors /\ ~AtWork(Watchdog)
      BY <1>2 DEF WatchdogReads, WatchdogProbes, Deployed, Actors, Idle, AtWork, RuntimeCalls
    <2>2. Moves(Watchdog)
      BY <1>0, <1>2 DEF WatchdogReads, WatchdogProbes, Moves, Places
    <2> QED BY <1>2, <2>1, <2>2 DEF WatchdogReads, WatchdogProbes, Deployed, redisVars
  <1> QED BY <1>1, <1>2

\* No step takes a crash back.
LEMMA NoCrashBefore ==
  ASSUME TypeOK, [Next]_vars, used'.crash = 0
  PROVE  used.crash = 0 /\ \A a \in Actors : ~Crash(a)
  <1>1. used["crash"] \in Nat /\ DOMAIN used = {"call", "fail", "death", "crash", "restart"}
    BY DEF TypeOK
  <1>2. ASSUME NEW max, Spend("crash", max) PROVE FALSE
    BY <1>1, <1>2 DEF Spend
  <1>3. ASSUME NEW what \in {"call", "fail", "death"}, NEW max, Spend(what, max)
        PROVE  used'.crash = used.crash
    BY <1>1, <1>3 DEF Spend
  <1>4. used' = [used EXCEPT !.restart = 1] => used'.crash = used.crash
    BY <1>1
  <1>5. \/ UNCHANGED used \/ used' = [used EXCEPT !.restart = 1]
        \/ \E what \in {"call", "fail", "death", "crash"} : \E max : Spend(what, max)
    BY DEF Next, Request, Call, FindConfig, SetConfig, SetState, Provision, ReadState, Publish,
           Drain, DropTopic, DelConfig, DelState, UpdateGet, UpdateSet, Halt, Remove, Run,
           Apply, Crash, ControllerActs, EventIgnored, WatchdogReads, WatchdogProbes, Produce,
           PoolCommits, Terminated, Die, Fine, Fail, vars
  <1> QED BY <1>2, <1>3, <1>4, <1>5 DEF Crash

\* What SaveOK and the transitional status need of a step.
HangOK == (\A a \in Actors : SaveOK(a)')
          /\ (used'.crash = 0 /\ state' # None /\ state'.status \in Transitional' =>
                 \E a \in Actors : AtWork(a)')

LEMMA HangQuiet ==
  ASSUME TypeInv, HangInv, [Next]_vars, UNCHANGED <<runtime, state>>,
         \A a \in Actors : SaveOK(a)', \A a \in Actors : AtWork(a) => AtWork(a)'
  PROVE  HangOK
  <1>1. used'.crash = 0 => used.crash = 0
    BY NoCrashBefore DEF TypeInv
  <1>2. Transitional' = Transitional
    BY DEF Transitional
  <1> QED BY <1>1, <1>2 DEF HangInv, HangOK

LEMMA HangStep == ASSUME TypeInv, HangInv, [Next]_vars PROVE HangInv'
  <1>0. TypeOK /\ \A a \in Actors : SaveOK(a)
    BY DEF TypeInv, HangInv
  <1>1. ASSUME NEW a \in Actors, UpdateGet(a) PROVE HangOK
    <2>1. CASE state = None
      BY <1>1, <2>1, HangGet DEF HangOK
    <2>2. CASE state # None
      <3>1. runtime' = runtime
        BY <1>1 DEF UpdateGet
      <3> QED BY <1>1, <2>2, <3>1, HangGet, HangQuiet
    <2> QED BY <2>1, <2>2
  <1>2. ASSUME NEW a \in Actors, UpdateSet(a) PROVE HangOK
    BY <1>2, HangSet DEF HangOK
  <1>3. ASSUME NEW a \in Actors, Halt(a) \/ Remove(a) \/ Run(a) \/ Apply(a) PROVE HangOK
    <2>1. Moves(a) /\ AtWork(a)' /\ UNCHANGED <<state, runtime>>
      BY <1>3, HangRuntime
    <2> QED BY <1>0, <2>1, MoveSaves, WorkKept, HangQuiet
  <1>4. ASSUME NEW r \in Clients, Request(r) PROVE HangOK
    <2>1. /\ r \in Actors /\ Moves(r) /\ ~AtWork(r) /\ runtime' = runtime
          /\ state' = state \/ state' = None \/ state'.status = "CREATED"
      BY <1>4, HangRequest
    <2>2. \A a \in Actors : SaveOK(a)'
      BY <1>0, <2>1, MoveSaves
    <2>3. CASE state' = state
      BY <1>0, <2>1, <2>2, <2>3, WorkKept, HangQuiet
    <2>4. "CREATED" \notin Transitional'
      BY DEF Transitional
    <2> QED BY <2>1, <2>2, <2>3, <2>4 DEF HangOK
  <1>5. ASSUME ControllerActs \/ WatchdogReads \/ WatchdogProbes PROVE HangOK
    <2>1. PICK a \in Actors : Moves(a) /\ ~AtWork(a) /\ UNCHANGED <<runtime, state>>
      BY <1>5, HangLoop
    <2>2. \A b \in Actors : SaveOK(b)'
      BY <1>0, <2>1, MoveSaves
    <2>3. \A b \in Actors : AtWork(b) => AtWork(b)'
      BY <1>0, <2>1, WorkKept
    <2> QED BY <2>1, <2>2, <2>3, HangQuiet
  <1>6. ASSUME NEW a \in Actors, Crash(a) PROVE HangOK
    <2>1. Moves(a) /\ runtime' = runtime
      BY <1>6 DEF Crash, Moves
    <2>2. used'.crash # 0
      BY <1>0, <1>6, NoCrashBefore
    <2> QED BY <1>0, <2>1, <2>2, MoveSaves DEF HangOK
  <1>7. ASSUME EventIgnored \/ Produce \/ PoolCommits \/ Terminated \/ Die \/ UNCHANGED vars
        PROVE  HangOK
    <2>1. UNCHANGED <<runtime, state, pc, fields, copy, next>>
      BY <1>7 DEF EventIgnored, Produce, PoolCommits, Terminated, Die, vars, redisVars,
                  updateVars
    <2>2. \A a \in Actors : SaveOK(a)'
      BY <1>0, <2>1 DEF SaveOK, Transitional
    <2>3. \A a \in Actors : AtWork(a) => AtWork(a)'
      BY <2>1 DEF AtWork
    <2> QED BY <2>1, <2>2, <2>3, HangQuiet
  <1>8. HangOK
    <2>1. CASE Next
      BY <2>1, <1>1, <1>2, <1>3, <1>4, <1>5, <1>6, <1>7 DEF Next
    <2> QED BY <1>7, <2>1
  <1>9. runtime' # "docker" => \A a \in Loops : Idle(a)'
    <2> SUFFICES ASSUME runtime' # "docker", NEW b \in Loops PROVE Idle(b)'
      OBVIOUS
    <2>1. runtime' = runtime
      BY DEF Next, Request, Call, FindConfig, SetConfig, SetState, Provision, ReadState,
             Publish, Drain, DropTopic, DelConfig, DelState, UpdateGet, UpdateSet, Halt,
             Remove, Run, Apply, Crash, ControllerActs, EventIgnored, WatchdogReads,
             WatchdogProbes, Produce, PoolCommits, Terminated, Die, vars
    <2>2. Idle(b) /\ b \in Actors /\ b \notin Clients
      BY <2>1, LifecycleAssumption DEF HangInv, Actors
    <2>3. ASSUME NEW a \in Actors, Moves(a), a # b PROVE Idle(b)'
      BY <1>0, <2>2, <2>3, MoveFrame DEF Idle
    <2>4. CASE \E r \in Clients : Request(r)
      BY <2>2, <2>3, <2>4, HangRequest
    <2>5. ASSUME NEW a \in Actors, Halt(a) \/ Remove(a) \/ Run(a) \/ Apply(a) PROVE Idle(b)'
      <3>1. a # b
        BY <2>2, <2>5 DEF Idle, Halt, Remove, Run, Apply
      <3> QED BY <2>3, <2>5, <3>1, HangRuntime
    <2>6. ASSUME NEW a \in Actors, UpdateGet(a) \/ UpdateSet(a) PROVE Idle(b)'
      <3>1. a # b
        BY <2>2, <2>6 DEF Idle, UpdateGet, UpdateSet
      <3>2. \E p : pc' = [pc EXCEPT ![a] = p]
        BY <2>6 DEF UpdateGet, UpdateSet, Failed, Update, Finish, Goto
      <3> QED BY <1>0, <2>2, <3>1, <3>2 DEF Idle, TypeOK
    <2>7. ASSUME NEW a \in Actors, Crash(a) PROVE Idle(b)'
      <3>1. a # b
        BY <2>2, <2>7 DEF Crash
      <3> QED BY <2>3, <2>7, <3>1 DEF Crash, Moves
    <2>8. ~(ControllerActs \/ WatchdogReads \/ WatchdogProbes)
      BY <2>1, HangLoop
    <2>9. CASE EventIgnored \/ Produce \/ PoolCommits \/ Terminated \/ Die \/ UNCHANGED vars
      BY <2>2, <2>9 DEF EventIgnored, Produce, PoolCommits, Terminated, Die, vars, Idle
    <2> QED BY <2>4, <2>5, <2>6, <2>7, <2>8, <2>9 DEF Next
  <1> QED BY <1>8, <1>9 DEF HangInv, HangOK

LEMMA InitHang == Init => HangInv
  <1> SUFFICES ASSUME Init PROVE HangInv
    OBVIOUS
  <1>1. \A a \in Actors : SaveOK(a) /\ Idle(a)
    BY DEF Init, SaveOK, Ends, Idle
  <1> QED BY <1>1 DEF Init, HangInv, Actors

\* Behind every transitional status there is a handler that has yet to write, however
\* many requests and loops overlap.
THEOREM HangInvariant == Spec => []HangInv
  <1>1. TypeInv /\ HangInv /\ [Next]_vars => HangInv'
    BY HangStep
  <1> QED BY <1>1, InitHang, TypeInvariant, PTL DEF Spec

\* No pipeline is left behind in STOPPING or STARTING by any number of requests that
\* overwrite each other's record, as long as no process dies (main.py 204 and the
\* except clauses after it; redis_repo.py update_state).
THEOREM NoCallHangs == Spec => []NoCallLeftHanging
  <1>1. HangInv => NoCallLeftHanging
    BY DEF HangInv, NoCallLeftHanging, Settled, Idle, AtWork, RuntimeCalls
  <1> QED BY <1>1, HangInvariant, PTL

-----------------------------------------------------------------------------
(* The two keys of a pipeline, for one request at a time.                       *)

\* A state is missing beside its config only between the two SETs of a create.
KeysInv ==
    /\ used.crash = 0 /\ config => state # None \/ \E r \in Clients : pc[r] = "setState"
    /\ \A r \in Clients : pc[r] = "delState" => ~config

LEMMA KeysStep ==
  ASSUME NEW r, Clients = {r}, TypeInv, HangInv, KeysInv, [Next]_vars
  PROVE  KeysInv'
  <1>0. TypeOK /\ r \in Actors /\ (used'.crash = 0 => used.crash = 0)
    BY NoCrashBefore DEF TypeInv, Actors
  <1>1. CASE UNCHANGED <<config, state>> /\ pc'[r] = pc[r]
    BY <1>0, <1>1 DEF KeysInv
  <1>2. ASSUME UNCHANGED <<config, state>>, pc[r] # "setState", pc'[r] # "delState"
        PROVE  KeysInv'
    BY <1>0, <1>2 DEF KeysInv
  <1>3. CASE Request(r)
    <2>1. ASSUME NEW what \in Calls, Call(r, what) PROVE KeysInv'
      <3>1. pc[r] = "idle" /\ pc'[r] = "config" /\ UNCHANGED <<config, state>>
        BY <1>0, <2>1 DEF Call, Goto, Idle, TypeOK, redisVars
      <3> QED BY <1>2, <3>1
    <2>2. CASE FindConfig(r) \/ Provision(r) \/ ReadState(r) \/ Publish(r) \/ Drain(r)
               \/ DropTopic(r)
      <3>1. pc[r] # "setState" /\ UNCHANGED <<config, state>>
        BY <2>2 DEF FindConfig, Provision, ReadState, Publish, Drain, DropTopic, redisVars
      <3>2. \/ Finish(r)
            \/ \E p \in {"setConfig", "state", "delConfig", "drain", "dropTopic"} : Goto(r, p)
            \/ \E p \in RuntimeCalls : Goto(r, p)
            \/ \E changes, p : Update(r, changes, p)
        BY <2>2 DEF FindConfig, Provision, ReadState, Publish, Drain, DropTopic, FirstCall,
                    RuntimeCalls
      <3>3. pc'[r] # "delState"
        BY <1>0, <3>2 DEF Finish, Goto, Update, TypeOK, RuntimeCalls
      <3> QED BY <1>2, <3>1, <3>3
    <2>3. CASE SetConfig(r)
      <3>1. pc'[r] = "setState"
        BY <1>0, <2>3 DEF SetConfig, Goto, TypeOK
      <3> QED BY <3>1 DEF KeysInv
    <2>4. CASE SetState(r)
      <3>1. pc'[r] = "provision" /\ state' \in States
        BY <1>0, <2>4 DEF SetState, Goto, TypeOK, States, Statuses
      <3> QED BY <3>1, LifecycleAssumption DEF KeysInv
    <2>5. CASE DelConfig(r)
      BY <2>5 DEF DelConfig, KeysInv
    <2>6. CASE DelState(r)
      BY <2>6 DEF DelState, KeysInv
    <2> QED BY <1>3, <2>1, <2>2, <2>3, <2>4, <2>5, <2>6 DEF Request
  <1>4. ASSUME NEW a \in Actors,
               UpdateGet(a) \/ Halt(a) \/ Remove(a) \/ Run(a) \/ Apply(a)
        PROVE  KeysInv'
    <2>1. UNCHANGED <<config, state>> /\ pc[a] \notin {"setState"}
      BY <1>4 DEF UpdateGet, Halt, Remove, Run, Apply, redisVars
    <2>2. \E p \in {"idle", "set", "get", "remove", "run"} : pc' = [pc EXCEPT ![a] = p]
      BY <1>4 DEF UpdateGet, Halt, Remove, Run, Apply, Finish, Succeeded, Failed, Update, Goto
    <2>3. \/ pc'[r] = pc[r]
          \/ pc[r] # "setState" /\ pc'[r] # "delState"
      BY <1>0, <2>1, <2>2 DEF TypeOK
    <2> QED BY <1>1, <1>2, <2>1, <2>3
  <1>5. ASSUME NEW a \in Actors, UpdateSet(a) PROVE KeysInv'
    <2>1. /\ pc[a] = "set" /\ config' = config /\ state' \in States
          /\ next[a] \in Ends \cup RuntimeCalls
      BY <1>5 DEF UpdateSet, HangInv, SaveOK
    <2>2. \E p \in Ends \cup RuntimeCalls : pc' = [pc EXCEPT ![a] = p]
      BY <1>5, <2>1 DEF UpdateSet, Finish, Goto, Ends
    <2>3. pc'[r] = pc[r] \/ pc'[r] # "delState"
      BY <1>0, <2>2 DEF TypeOK, Ends, RuntimeCalls
    <2> QED BY <2>1, <2>3, LifecycleAssumption DEF KeysInv
  <1>6. ASSUME NEW a \in Actors, Crash(a) PROVE KeysInv'
    <2>1. used'.crash # 0 /\ UNCHANGED <<config, state>>
      BY <1>0, <1>6, NoCrashBefore DEF Crash, redisVars
    <2>2. pc' = [pc EXCEPT ![a] = "idle"]
      BY <1>6 DEF Crash, Finish, Goto
    <2>3. pc'[r] = "delState" => pc[r] = "delState"
      BY <1>0, <2>2 DEF TypeOK
    <2> QED BY <2>1, <2>3 DEF KeysInv
  <1>7. CASE ControllerActs \/ WatchdogReads \/ WatchdogProbes
    <2>1. UNCHANGED <<config, state>> /\ r # Controller /\ r # Watchdog
      BY <1>7, LifecycleAssumption DEF ControllerActs, WatchdogReads, WatchdogProbes, redisVars
    <2>2. \E a \in {Controller, Watchdog} : \E p : pc' = [pc EXCEPT ![a] = p]
      BY <1>7 DEF ControllerActs, WatchdogReads, WatchdogProbes, Update, Finish, Goto
    <2>3. pc'[r] = pc[r]
      BY <1>0, <2>1, <2>2 DEF TypeOK
    <2> QED BY <1>1, <2>1, <2>3
  <1>8. CASE EventIgnored \/ Produce \/ PoolCommits \/ Terminated \/ Die \/ UNCHANGED vars
    <2>1. UNCHANGED <<config, state, pc>>
      BY <1>8 DEF EventIgnored, Produce, PoolCommits, Terminated, Die, vars, redisVars
    <2> QED BY <1>1, <2>1
  <1> QED BY <1>3, <1>4, <1>5, <1>6, <1>7, <1>8 DEF Next

LEMMA InitKeys == Init => KeysInv
  BY DEF Init, KeysInv, Actors

\* Whatever calls fail, producers die and loops interfere: as long as no process dies
\* and requests come one at a time, no config is left without its state
\* (redis_repo.py create_pipeline and delete_pipeline).
THEOREM ConfigsHaveStates ==
  ASSUME NEW r, Clients = {r} PROVE Spec => []ConfigHasState
  <1>1. TypeInv /\ HangInv /\ KeysInv /\ [Next]_vars => KeysInv'
    BY KeysStep
  <1>2. KeysInv => ConfigHasState
    BY DEF KeysInv, ConfigHasState
  <1> QED BY <1>1, <1>2, InitKeys, TypeInvariant, HangInvariant, PTL DEF Spec
=============================================================================
