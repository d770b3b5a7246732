--------------------------- MODULE ProvisioningProofs ---------------------------
(* Proofs about what a registration leaves behind: records that are whole and a   *)
(* topic, whatever replicas and clients cross, for any number of them.            *)
EXTENDS RegistrationProofs

At(p, place) == \E t \in Tasks : pid[t] = p /\ pc[t] = place

\* Tasks at these places account for a pipeline that is not whole.
Halfway == {"setState", "provision", "mark", "markSet", "delConfig"}

\* A file in processed stands for a config, and so does a task that is going to move
\* its own there.
Kept(p) ==
    /\ where[p] = "processed" => config[p] # 0
    /\ At(p, "setState") \/ At(p, "provision") => config[p] # 0

\* Before anything has failed.
Whole(p) ==
    used.fail = 0 /\ used.crash = 0 =>
        /\ config[p] # 0 => state[p] # "none" \/ At(p, "setState")
        /\ state[p] = "CREATED" => p \in topics \cup refused \/ At(p, "provision")

\* After one failure: its task still has to mark the pipeline or to take it away, or
\* another creator has begun again, which does not fail then.
Marked(p) ==
    used.fail = 1 /\ used.crash = 0 /\ config[p] # 0 /\ state[p] = "CREATED" =>
        p \in topics \cup refused \/ \E place \in Halfway : At(p, place)

\* Somebody has asked for what is taken away, or a create has failed.
Asked(p) ==
    /\ At(p, "dropTopic") => p \in deleted
    /\ At(p, "delConfig") \/ At(p, "delState") => p \in deleted \cup rolledBack
    /\ p \in rolledBack => used.fail > 0

\* All that p's config, state and topic owe to each other.
Sound(p) ==
    /\ Asked(p)
    /\ p \in deleted \cup rolledBack \/ Kept(p)
    /\ p \in deleted \/ (Whole(p) /\ Marked(p))

WholeInv == \A p \in Pipelines : Sound(p)

Known == FileInv /\ NumberInv /\ WholeInv

Tracked == Halfway \cup Deleting

(* Steps that pass p by, and steps that fail.                                     *)

LEMMA StaysKept ==
  ASSUME NEW p, Kept(p), config'[p] = config[p],
         where'[p] = "processed" => where[p] = "processed" \/ config[p] # 0,
         \A place \in Halfway : At(p, place)' => At(p, place)
  PROVE  Kept(p)'
  <1> HIDE DEF At
  <1> QED BY DEF Kept, Halfway

LEMMA Steady ==
  ASSUME NEW p, Whole(p), Marked(p),
         used'.fail = used.fail, used'.crash = 0 => used.crash = 0,
         config'[p] = config[p], state'[p] = state[p],
         p \in topics \cup refused => p \in topics' \cup refused',
         used'.crash = 0 => \A place \in Halfway : At(p, place) => At(p, place)'
  PROVE  Whole(p)' /\ Marked(p)'
  <1> HIDE DEF At
  <1>1. Whole(p)'
    BY DEF Whole, Halfway
  <1>2. Marked(p)'
    BY DEF Marked, Halfway
  <1> QED BY <1>1, <1>2

LEMMA FailureRises ==
  ASSUME NEW p, Whole(p), Marked(p), used.fail \in Nat,
         used'.fail = used.fail + 1, used'.crash = 0 => used.crash = 0,
         config'[p] = config[p], state'[p] = state[p],
         p \in topics \cup refused => p \in topics' \cup refused',
         At(p, "provision") => \E place \in Halfway : At(p, place)'
  PROVE  Whole(p)' /\ Marked(p)'
  <1> HIDE DEF At
  <1>1. Whole(p)'
    BY DEF Whole
  <1>2. Marked(p)'
    <2> SUFFICES ASSUME used'.fail = 1, used'.crash = 0, config'[p] # 0,
                        state'[p] = "CREATED", p \notin topics' \cup refused'
                 PROVE  \E place \in Halfway : At(p, place)'
      BY DEF Marked
    <2>1. used.fail = 0 /\ used.crash = 0
      OBVIOUS
    <2>2. At(p, "provision")
      BY <2>1 DEF Whole
    <2> QED BY <2>2
  <1> QED BY <1>1, <1>2

LEMMA Failed ==
  ASSUME TypeOK, Fail
  PROVE  used.fail \in Nat /\ used'.fail = used.fail + 1 /\ used'.crash = used.crash
  BY DEF TypeOK, Fail, Spend

\* Of the accidents, those that no invariant here counts.
Unnoticed == used'.fail = used.fail /\ used'.crash = used.crash

LEMMA Refused == ASSUME TypeOK, Spend("refusal") PROVE Unnoticed
  BY DEF TypeOK, Spend, Unnoticed

(* What a task's step leaves alone.                                               *)

LEMMA Frame ==
  ASSUME TypeOK, NEW t \in Tasks, Step(t) \/ Raise(t)
  PROVE  /\ pid[t] \in Pipelines /\ pc[t] # "idle"
         /\ \A u \in Tasks \ {t} : pc'[u] = pc[u] /\ pid'[u] = pid[u]
         /\ pid'[t] \in {pid[t], None} /\ (pid'[t] = None => pc'[t] = "idle")
         /\ \A p \in Pipelines \ {pid[t]} :
               /\ config'[p] = config[p] /\ state'[p] = state[p] /\ where'[p] = where[p]
               /\ p \in topics' <=> p \in topics
               /\ p \in refused' <=> p \in refused
               /\ p \in rolledBack' <=> p \in rolledBack
         /\ UNCHANGED deleted /\ rolledBack \subseteq rolledBack' /\ refused \subseteq refused'
         /\ Unnoticed \/ Fail
  <1>1. pc[t] # "idle"
    BY DEF Step, Raise, CheckConfig, NoCounter, ScanNumbers, Seed, Incr, Recheck, SetConfig,
           SetState, Provision, MarkGet, MarkSet, DropTopic, DelConfig, DelState
  <1>2. pid[t] \in Pipelines
    BY <1>1 DEF TypeOK, Idle
  <1>3. Finish(t) \/ \E place : Goto(t, place)
    BY DEF Step, Raise, CheckConfig, NoCounter, ScanNumbers, Seed, Incr, Recheck, SetConfig,
           SetState, Provision, MarkGet, MarkSet, DropTopic, DelConfig, DelState, Taken, Settle
  <1>4. /\ \A u \in Tasks \ {t} : pc'[u] = pc[u] /\ pid'[u] = pid[u]
        /\ pid'[t] \in {pid[t], None} /\ (pid'[t] = None => pc'[t] = "idle")
    BY <1>2, <1>3, RegistrationAssumption DEF Finish, Goto, TypeOK
  <1>5. /\ UNCHANGED deleted
        /\ rolledBack' \in {rolledBack, rolledBack \cup {pid[t]}}
        /\ refused' \in {refused, refused \cup {pid[t]}}
    BY DEF Step, Raise, CheckConfig, NoCounter, ScanNumbers, Seed, Incr, Recheck, SetConfig,
           SetState, Provision, Provisioned, MarkGet, MarkSet, DropTopic, DelConfig, DelState,
           Taken, history
  <1>u. Unnoticed \/ Fail
    <2>1. UNCHANGED used \/ Fail \/ Spend("refusal")
      BY DEF Step, Raise, CheckConfig, NoCounter, ScanNumbers, Seed, Incr, Recheck, SetConfig,
             SetState, Provision, Provisioned, MarkGet, MarkSet, DropTopic, DelConfig, DelState,
             Taken
    <2> QED BY <2>1, Refused DEF Unnoticed
  <1>6. /\ UNCHANGED config \/ \E n : config' = [config EXCEPT ![pid[t]] = n]
        /\ UNCHANGED state \/ \E s : state' = [state EXCEPT ![pid[t]] = s]
        /\ UNCHANGED where \/ \E to : Move(pid[t], to)
        /\ topics' \in {topics, topics \cup {pid[t]}, topics \ {pid[t]}}
    <2>1. CASE CheckConfig(t) \/ Recheck(t)
      BY <2>1 DEF CheckConfig, Recheck, Taken, Settle, recordVars
    <2>2. CASE NoCounter(t) \/ ScanNumbers(t) \/ Seed(t) \/ Incr(t)
      BY <2>2 DEF NoCounter, ScanNumbers, Seed, Incr, recordVars
    <2>3. CASE SetConfig(t) \/ DelConfig(t)
      BY <2>3 DEF SetConfig, DelConfig
    <2>4. CASE SetState(t) \/ DelState(t)
      BY <2>4 DEF SetState, DelState
    <2>5. CASE Provision(t)
      BY <2>5 DEF Provision, Provisioned, Settle
    <2>6. CASE MarkGet(t)
      BY <2>6 DEF MarkGet, recordVars
    <2>7. CASE MarkSet(t)
      BY <2>7 DEF MarkSet, Settle
    <2>8. CASE DropTopic(t)
      BY <2>8 DEF DropTopic
    <2>9. CASE Raise(t)
      BY <2>9 DEF Raise, recordVars
    <2> QED BY <2>1, <2>2, <2>3, <2>4, <2>5, <2>6, <2>7, <2>8, <2>9 DEF Step
  <1>7. \A p \in Pipelines \ {pid[t]} : config'[p] = config[p] /\ state'[p] = state[p]
    BY <1>6 DEF TypeOK
  <1>8. \A p \in Pipelines \ {pid[t]} : where'[p] = where[p]
    BY <1>6 DEF TypeOK, Move
  <1>9. \A p \in Pipelines \ {pid[t]} : p \in topics' <=> p \in topics
    BY <1>6
  <1> QED BY <1>1, <1>2, <1>4, <1>5, <1>u, <1>7, <1>8, <1>9

LEMMA OthersStay ==
  ASSUME TypeOK, NEW t \in Tasks, Step(t) \/ Raise(t), NEW p \in Pipelines \ {pid[t]}
  PROVE  \A place : At(p, place)' <=> At(p, place)
  <1>1. p # None
    BY RegistrationAssumption
  <1>2. \A u \in Tasks : pid'[u] = p <=> pid[u] = p
    BY <1>1, Frame
  <1>3. \A u \in Tasks : pid[u] = p => pc'[u] = pc[u]
    BY Frame
  <1> QED BY <1>2, <1>3 DEF At

LEMMA PassedBy ==
  ASSUME Known, NEW t \in Tasks, Step(t) \/ Raise(t), NEW p \in Pipelines \ {pid[t]}
  PROVE  Sound(p)'
  <1>t. TypeOK
    BY DEF Known, FileInv
  <1>1. /\ config'[p] = config[p] /\ state'[p] = state[p] /\ where'[p] = where[p]
        /\ p \in topics' <=> p \in topics
        /\ p \in refused' <=> p \in refused
        /\ p \in rolledBack' <=> p \in rolledBack
        /\ UNCHANGED deleted /\ (Unnoticed \/ Fail)
    BY <1>t, Frame
  <1>2. \A place : At(p, place)' <=> At(p, place)
    BY <1>t, OthersStay
  <1>3. Sound(p)
    BY DEF Known, WholeInv
  <1> HIDE DEF At
  <1>4. used'.fail = used.fail \/ (used.fail \in Nat /\ used'.fail = used.fail + 1)
    BY <1>t, <1>1, Failed DEF Unnoticed
  <1>5. Asked(p)'
    BY <1>1, <1>2, <1>3, <1>4 DEF Sound, Asked
  <1>6. p \in deleted' \cup rolledBack' \/ Kept(p)'
    BY <1>1, <1>2, <1>3, StaysKept DEF Sound
  <1>7. CASE p \notin deleted /\ Unnoticed
    <2>1. Whole(p)' /\ Marked(p)'
      BY <1>1, <1>2, <1>3, <1>7, Steady DEF Sound, Unnoticed
    <2> QED BY <1>5, <1>6, <2>1 DEF Sound
  <1>8. CASE p \notin deleted /\ Fail
    <2>1. At(p, "provision") => \E place \in Halfway : At(p, place)'
      BY <1>2 DEF Halfway
    <2>2. Whole(p)' /\ Marked(p)'
      BY <1>t, <1>1, <1>3, <1>8, <2>1, Failed, FailureRises DEF Sound
    <2> QED BY <1>5, <1>6, <2>2 DEF Sound
  <1> QED BY <1>1, <1>5, <1>6, <1>7, <1>8 DEF Sound

(* What it does to its own pipeline.                                              *)

LEMMA OwnPlaces ==
  ASSUME TypeOK, NEW t \in Tasks, Step(t) \/ Raise(t), NEW p \in Pipelines, pid[t] = p
  PROVE  /\ At(p, pc[t])
         /\ \A place : place # pc[t] /\ At(p, place) => At(p, place)'
         /\ \A place : place # "idle" /\ At(p, place)' => At(p, place) \/ pc'[t] = place
         /\ \A place : pc'[t] = place /\ place # "idle" => At(p, place)'
  <1>1. At(p, pc[t])
    BY DEF At
  <1>2. \A place : place # pc[t] /\ At(p, place) => At(p, place)'
    <2> SUFFICES ASSUME NEW place, place # pc[t], At(p, place) PROVE At(p, place)'
      OBVIOUS
    <2>1. PICK u \in Tasks : pid[u] = p /\ pc[u] = place
      BY DEF At
    <2>2. pid'[u] = p /\ pc'[u] = place
      BY <2>1, Frame
    <2> QED BY <2>2 DEF At
  <1>3. \A place : place # "idle" /\ At(p, place)' => At(p, place) \/ pc'[t] = place
    <2> SUFFICES ASSUME NEW place, At(p, place)', pc'[t] # place PROVE At(p, place)
      OBVIOUS
    <2>1. PICK u \in Tasks : pid'[u] = p /\ pc'[u] = place
      BY DEF At
    <2> QED BY <2>1, Frame DEF At
  <1>4. \A place : pc'[t] = place /\ place # "idle" => At(p, place)'
    <2> SUFFICES ASSUME pc'[t] # "idle" PROVE pid'[t] = p
      BY DEF At
    <2> QED BY Frame
  <1> QED BY <1>1, <1>2, <1>3, <1>4

LEMMA OwnAsked ==
  ASSUME Known, NEW t \in Tasks, Step(t) \/ Raise(t), NEW p \in Pipelines, pid[t] = p
  PROVE  Asked(p)'
  <1>t. TypeOK
    BY DEF Known, FileInv
  <1>1. Asked(p) /\ At(p, pc[t])
    BY <1>t, OwnPlaces DEF Known, WholeInv, Sound
  <1>2. /\ UNCHANGED deleted /\ rolledBack \subseteq rolledBack'
        /\ used.fail > 0 => used'.fail > 0
        /\ Fail => used'.fail > 0
    BY <1>t, Frame, Failed DEF Unnoticed
  <1>3. /\ \/ pc'[t] \notin Deleting
           \/ pc'[t] = "delConfig" /\ (p \in rolledBack' \/ pc[t] = "dropTopic")
           \/ pc'[t] = "delState" /\ pc[t] = "delConfig"
        /\ UNCHANGED rolledBack \/ Fail
    <2>0. pc \in [Tasks -> Places]
      BY <1>t DEF TypeOK
    <2>1. CASE CheckConfig(t) \/ NoCounter(t) \/ ScanNumbers(t) \/ Seed(t) \/ Incr(t) \/ Recheck(t)
      BY <2>0, <2>1 DEF CheckConfig, NoCounter, ScanNumbers, Seed, Incr, Recheck, Taken, Settle,
                        Finish, Goto, Deleting, history
    <2>2. CASE SetConfig(t) \/ SetState(t) \/ DropTopic(t) \/ DelConfig(t)
      BY <2>0, <2>2 DEF SetConfig, SetState, DropTopic, DelConfig, Goto, Deleting, history
    <2>3. CASE Provision(t)
      BY <2>0, <2>3 DEF Provision, Settle, Finish, Goto, Deleting
    <2>4. CASE MarkGet(t) \/ MarkSet(t) \/ DelState(t) \/ Raise(t)
      BY <2>0, <2>4 DEF MarkGet, MarkSet, DelState, Raise, Settle, Finish, Goto, Deleting, history
    <2> QED BY <2>1, <2>2, <2>3, <2>4 DEF Step
  <1>4. \A place \in Deleting : At(p, place)' => At(p, place) \/ pc'[t] = place
    BY <1>t, OwnPlaces DEF Deleting
  <1> HIDE DEF At
  <1> QED BY <1>1, <1>2, <1>3, <1>4 DEF Asked, Deleting

\* Looking, counting, and finding the pipeline there already.
LEMMA OwnLooks ==
  ASSUME TypeOK, NEW t \in Tasks, NEW p \in Pipelines, pid[t] = p,
         CheckConfig(t) \/ NoCounter(t) \/ ScanNumbers(t) \/ Seed(t) \/ Incr(t) \/ Recheck(t)
  PROVE  /\ Whole(p) /\ Marked(p) => Whole(p)' /\ Marked(p)'
         /\ Kept(p) => Kept(p)'
  <1>1. UNCHANGED <<config, state, topics, refused, used>>
    BY DEF CheckConfig, NoCounter, ScanNumbers, Seed, Incr, Recheck, Taken, recordVars, history
  <1>2. where' = where \/ config[p] # 0
    BY DEF CheckConfig, NoCounter, ScanNumbers, Seed, Incr, Recheck, Taken
  <1>3. pc[t] \notin Halfway /\ pc'[t] \notin Halfway
    <2>1. pc \in [Tasks -> Places]
      BY DEF TypeOK
    <2> QED BY <2>1 DEF CheckConfig, NoCounter, ScanNumbers, Seed, Incr, Recheck, Taken, Settle,
                        Finish, Goto, Halfway
  <1>4. Step(t)
    BY DEF Step
  <1>5. \A place \in Halfway : At(p, place)' <=> At(p, place)
    BY <1>3, <1>4, OwnPlaces DEF Halfway
  <1> HIDE DEF At
  <1>6. where'[p] = "processed" => where[p] = "processed" \/ config[p] # 0
    BY <1>2
  <1> QED BY <1>1, <1>5, <1>6, Steady, StaysKept

LEMMA OwnWrites ==
  ASSUME Known, NEW t \in Tasks, NEW p \in Pipelines, pid[t] = p,
         SetConfig(t) \/ SetState(t)
  PROVE  /\ Whole(p) /\ Marked(p) => Whole(p)' /\ Marked(p)'
         /\ Kept(p) => Kept(p)'
  <1>t. TypeOK /\ Step(t)
    BY DEF Known, FileInv, Step
  <1>1. UNCHANGED <<topics, refused, where, used>>
    BY DEF SetConfig, SetState, history
  <1>p. /\ At(p, pc[t])
        /\ \A place : place # pc[t] /\ At(p, place) => At(p, place)'
        /\ \A place : place # "idle" /\ At(p, place)' => At(p, place) \/ pc'[t] = place
        /\ \A place : pc'[t] = place /\ place # "idle" => At(p, place)'
    BY <1>t, OwnPlaces
  <1>2. CASE SetConfig(t)
    <2>1. config'[p] # 0 /\ state'[p] = state[p]
      BY <1>t, <1>2, NumberTypes DEF SetConfig, Known, NumberInv, Holds
    <2>2. pc[t] = "setConfig" /\ pc'[t] = "setState"
      BY <1>t, <1>2, NumberTypes DEF SetConfig, Goto
    <2>3. At(p, "setState")' /\ (At(p, "provision") => At(p, "provision")')
      BY <1>p, <2>2
    <2> HIDE DEF At
    <2>4. Whole(p) => Whole(p)'
      BY <1>1, <2>1, <2>3 DEF Whole
    <2>5. Marked(p)'
      BY <2>3 DEF Marked, Halfway
    <2>6. Kept(p)'
      BY <2>1 DEF Kept
    <2> QED BY <2>4, <2>5, <2>6
  <1>3. CASE SetState(t)
    <2>1. config'[p] = config[p] /\ state'[p] = "CREATED"
      BY <1>t, <1>3 DEF SetState, TypeOK
    <2>2. pc[t] = "setState" /\ pc'[t] = "provision"
      BY <1>t, <1>3, NumberTypes DEF SetState, Goto
    <2>3. At(p, "provision")' /\ At(p, "setState")
      BY <1>p, <2>2
    <2> HIDE DEF At
    <2>4. Whole(p)'
      BY <1>1, <2>1, <2>3 DEF Whole
    <2>5. Marked(p)'
      BY <2>3 DEF Marked, Halfway
    <2>6. Kept(p) => Kept(p)'
      BY <1>1, <2>1, <2>3 DEF Kept
    <2> QED BY <2>4, <2>5, <2>6
  <1> QED BY <1>2, <1>3

LEMMA OwnProvisions ==
  ASSUME TypeOK, NEW t \in Tasks, NEW p \in Pipelines, pid[t] = p, Provision(t)
  PROVE  /\ Whole(p) /\ Marked(p) => Whole(p)' /\ Marked(p)'
         /\ Kept(p) => Kept(p)'
  <1>1. UNCHANGED <<config, state>> /\ pc[t] = "provision" /\ Step(t)
    BY DEF Provision, Step
  <1>p. /\ At(p, pc[t])
        /\ \A place : place # pc[t] /\ At(p, place) => At(p, place)'
        /\ \A place : place # "idle" /\ At(p, place)' => At(p, place) \/ pc'[t] = place
        /\ \A place : pc'[t] = place /\ place # "idle" => At(p, place)'
    BY <1>1, OwnPlaces
  <1>2. CASE Provisioned(t) /\ Settle(t, "processed")
    <2>1. pc'[t] = "idle"
      BY <1>2 DEF Settle, Finish, TypeOK
    <2>2. /\ At(p, "provision") /\ (At(p, "setState") => At(p, "setState")')
          /\ \A place \in Halfway : At(p, place)' => At(p, place)
      BY <1>1, <1>p, <2>1 DEF Halfway
    <2>3. p \in topics' \cup refused'
      BY <1>2 DEF Provisioned
    <2>4. Unnoticed
      BY <1>2, Refused DEF Provisioned, Unnoticed
    <2> HIDE DEF At
    <2>5. Whole(p) => Whole(p)'
      BY <1>1, <2>2, <2>3, <2>4 DEF Whole, Unnoticed
    <2>6. Marked(p)'
      BY <2>3 DEF Marked
    <2>7. Kept(p) => Kept(p)'
      BY <1>1, <2>2 DEF Kept, Halfway
    <2> QED BY <2>5, <2>6, <2>7
  <1>3. CASE /\ topics' \in {topics, topics \cup {p}} /\ Fail /\ UNCHANGED <<where, refused>>
             /\ Goto(t, "delConfig") \/ Goto(t, "mark")
    <2>1. pc'[t] \in {"delConfig", "mark"}
      BY <1>3 DEF Goto, TypeOK
    <2>2. \E place \in Halfway : At(p, place)'
      BY <1>p, <2>1 DEF Halfway
    <2>3. \A place \in {"setState", "provision"} : At(p, place)' => At(p, place)
      BY <1>p, <2>1
    <2> HIDE DEF At
    <2>4. Kept(p) => Kept(p)'
      BY <1>1, <1>3, <2>3 DEF Kept
    <2> QED BY <1>1, <1>3, <2>2, <2>4, Failed, FailureRises
  <1> QED BY <1>2, <1>3 DEF Provision

\* Where something has failed, and where somebody has asked.
LEMMA OwnFails ==
  ASSUME Known, NEW t \in Tasks, NEW p \in Pipelines \ deleted, pid[t] = p, Whole(p), Marked(p),
         \/ MarkGet(t) \/ MarkSet(t) \/ DropTopic(t) \/ DelConfig(t) \/ DelState(t) \/ Raise(t)
  PROVE  Whole(p)' /\ Marked(p)'
  <1>t. TypeOK
    BY DEF Known, FileInv
  <1>p. /\ At(p, pc[t])
        /\ \A place : place # pc[t] /\ At(p, place) => At(p, place)'
        /\ \A place : pc'[t] = place /\ place # "idle" => At(p, place)'
    BY <1>t, OwnPlaces DEF Step
  <1>a. Asked(p)
    BY DEF Known, WholeInv, Sound
  <1>1. CASE MarkGet(t)
    <2>1. used.fail > 0 /\ UNCHANGED <<config, state, topics, refused, used>> /\ pc[t] = "mark"
      BY <1>1 DEF MarkGet, Known, FileInv, RolesKept, recordVars, history
    <2>2. CASE pc'[t] = "markSet"
      <3>1. At(p, "markSet")'
        BY <1>p, <2>2
      <3> HIDE DEF At
      <3> QED BY <2>1, <3>1 DEF Whole, Marked, Halfway
    <2>3. CASE state[p] = "none"
      BY <2>1, <2>3 DEF Whole, Marked
    <2> QED BY <1>t, <1>1, <2>1, <2>2, <2>3 DEF MarkGet, Goto, TypeOK
  <1>2. CASE MarkSet(t)
    <2>1. used.fail > 0 /\ UNCHANGED used
      BY <1>2 DEF MarkSet, Known, FileInv, RolesKept
    <2>2. state'[p] # "CREATED"
      BY <1>t, <1>2 DEF MarkSet, TypeOK
    <2> QED BY <2>1, <2>2 DEF Whole, Marked
  <1>3. CASE DropTopic(t)
    BY <1>3, <1>a, <1>p DEF DropTopic, Asked
  <1>4. CASE DelConfig(t)
    <2>1. used.fail > 0 /\ UNCHANGED used
      BY <1>4, <1>a, <1>p DEF DelConfig, Asked
    <2>2. config'[p] = 0
      BY <1>t, <1>4 DEF DelConfig, TypeOK
    <2> QED BY <2>1, <2>2 DEF Whole, Marked
  <1>5. CASE DelState(t)
    <2>1. used.fail > 0 /\ UNCHANGED used
      BY <1>5, <1>a, <1>p DEF DelState, Asked
    <2>2. state'[p] = "none"
      BY <1>t, <1>5 DEF DelState, TypeOK
    <2> QED BY <2>1, <2>2 DEF Whole, Marked
  <1>6. CASE Raise(t)
    <2>1. UNCHANGED <<config, state, topics, refused>> /\ Fail /\ pc[t] # "provision"
      BY <1>6 DEF Raise, recordVars, history
    <2>2. At(p, "provision") => \E place \in Halfway : At(p, place)'
      BY <1>p, <2>1 DEF Halfway
    <2> HIDE DEF At
    <2> QED BY <1>t, <2>1, <2>2, Failed, FailureRises
  <1> QED BY <1>1, <1>2, <1>3, <1>4, <1>5, <1>6

LEMMA OwnKeeps ==
  ASSUME Known, NEW t \in Tasks, NEW p \in Pipelines \ (deleted \cup rolledBack), pid[t] = p, Kept(p),
         \/ MarkGet(t) \/ MarkSet(t) \/ DropTopic(t) \/ DelConfig(t) \/ DelState(t) \/ Raise(t)
  PROVE  Kept(p)'
  <1>t. TypeOK
    BY DEF Known, FileInv
  <1>1. At(p, pc[t]) /\ Asked(p)
    BY <1>t, OwnPlaces DEF Known, WholeInv, Sound, Step
  <1>2. ~DropTopic(t) /\ ~DelConfig(t) /\ ~DelState(t)
    BY <1>1 DEF Asked, DropTopic, DelConfig, DelState
  <1>3. UNCHANGED config /\ pc'[t] \notin {"setState", "provision"}
    BY <1>t, <1>2 DEF MarkGet, MarkSet, Raise, Goto, Settle, Finish, recordVars, TypeOK
  <1>4. where' = where \/ Move(p, "failed")
    BY <1>2 DEF MarkGet, MarkSet, Raise, Settle
  <1>5. where'[p] = "processed" => where[p] = "processed"
    BY <1>t, <1>4 DEF Move, TypeOK
  <1>6. \A place \in {"setState", "provision"} : At(p, place)' => At(p, place)
    BY <1>t, <1>3, OwnPlaces DEF Step
  <1> HIDE DEF At
  <1> QED BY <1>3, <1>5, <1>6 DEF Kept

LEMMA TaskWhole ==
  ASSUME Known, NEW t \in Tasks, Step(t) \/ Raise(t)
  PROVE  WholeInv'
  <1> SUFFICES ASSUME NEW p \in Pipelines PROVE Sound(p)'
    BY DEF WholeInv
  <1>1. CASE pid[t] # p
    BY <1>1, PassedBy
  <1>2. CASE pid[t] = p
    <2>1. Asked(p)' /\ TypeOK /\ Sound(p)
      BY <1>2, OwnAsked DEF Known, FileInv, WholeInv
    <2>2. UNCHANGED deleted /\ rolledBack \subseteq rolledBack'
      BY <2>1, Frame
    <2>3. p \in deleted \/ (Whole(p)' /\ Marked(p)')
      BY <1>2, <2>1, OwnLooks, OwnWrites, OwnProvisions, OwnFails DEF Step, Sound
    <2>4. p \in deleted \cup rolledBack \/ Kept(p)'
      BY <1>2, <2>1, OwnLooks, OwnWrites, OwnProvisions, OwnKeeps DEF Step, Sound
    <2> QED BY <2>1, <2>2, <2>3, <2>4 DEF Sound
  <1> QED BY <1>1, <1>2

(* The watchers' steps, requests and crashes.                                     *)

LEMMA Bystanders ==
  ASSUME Known, UNCHANGED <<config, state, topics, rolledBack, refused>>,
         deleted \subseteq deleted',
         used'.fail = used.fail, used'.crash = 0 => used.crash = 0,
         \A p \in Pipelines : where'[p] = "processed" => where[p] = "processed",
         \A p \in Pipelines, place \in Tracked :
            At(p, place)' => At(p, place) \/ (place = "dropTopic" /\ p \in deleted'),
         used'.crash = 0 => \A p \in Pipelines, place \in Halfway : At(p, place) => At(p, place)'
  PROVE  WholeInv'
  <1> SUFFICES ASSUME NEW p \in Pipelines PROVE Sound(p)'
    BY DEF WholeInv
  <1>1. Sound(p)
    BY DEF Known, WholeInv
  <1>2. \A place \in Tracked :
           At(p, place)' => At(p, place) \/ (place = "dropTopic" /\ p \in deleted')
    OBVIOUS
  <1>3. used'.crash = 0 => \A place \in Halfway : At(p, place) => At(p, place)'
    OBVIOUS
  <1>4. where'[p] = "processed" => where[p] = "processed"
    OBVIOUS
  <1> HIDE DEF At
  <1>5. Asked(p)'
    BY <1>1, <1>2 DEF Sound, Asked, Tracked, Halfway, Deleting
  <1>6. \A place \in Halfway : At(p, place)' => At(p, place)
    BY <1>2 DEF Tracked, Halfway
  <1>7. p \in deleted \cup rolledBack \/ Kept(p)'
    BY <1>1, <1>4, <1>6, StaysKept DEF Sound
  <1>8. p \in deleted \/ (Whole(p)' /\ Marked(p)')
    BY <1>1, <1>3, Steady DEF Sound
  <1> QED BY <1>5, <1>7, <1>8 DEF Sound

LEMMA SamePlaces == ASSUME UNCHANGED taskVars PROVE \A p, place : At(p, place)' <=> At(p, place)
  BY DEF At, taskVars

\* A task that was idle takes up pipeline q at one place.
LEMMA TakenUp ==
  ASSUME TypeOK, NEW t \in Tasks, Idle(t), NEW place, NEW q \in Pipelines,
         pc' = [pc EXCEPT ![t] = place], pid' = [pid EXCEPT ![t] = q]
  PROVE  \A p \in Pipelines : \A other :
            /\ At(p, other) => At(p, other)'
            /\ At(p, other)' => At(p, other) \/ (p = q /\ other = place)
  <1>1. pid[t] = None /\ None \notin Pipelines
    BY RegistrationAssumption DEF TypeOK, Idle
  <1>2. /\ pc'[t] = place /\ pid'[t] = q
        /\ \A u \in Tasks \ {t} : pc'[u] = pc[u] /\ pid'[u] = pid[u]
    BY DEF TypeOK
  <1> SUFFICES ASSUME NEW p \in Pipelines, NEW other
               PROVE  /\ At(p, other) => At(p, other)'
                      /\ At(p, other)' => At(p, other) \/ (p = q /\ other = place)
    OBVIOUS
  <1>3. ASSUME At(p, other) PROVE At(p, other)'
    <2>1. PICK u \in Tasks : pid[u] = p /\ pc[u] = other
      BY <1>3 DEF At
    <2> QED BY <1>1, <1>2, <2>1 DEF At
  <1>4. ASSUME At(p, other)' PROVE At(p, other) \/ (p = q /\ other = place)
    <2>1. PICK u \in Tasks : pid'[u] = p /\ pc'[u] = other
      BY <1>4 DEF At
    <2> QED BY <1>2, <2>1 DEF At
  <1> QED BY <1>3, <1>4

LEMMA FailurePasses ==
  ASSUME Known, Fail, UNCHANGED <<config, state, topics, history, taskVars>>,
         \A p \in Pipelines : where'[p] = "processed" => where[p] = "processed"
  PROVE  WholeInv'
  <1> SUFFICES ASSUME NEW p \in Pipelines PROVE Sound(p)'
    BY DEF WholeInv
  <1>1. \A place : At(p, place)' <=> At(p, place)
    BY SamePlaces
  <1>2. Sound(p) /\ UNCHANGED <<deleted, rolledBack, refused>>
    BY DEF Known, WholeInv, history
  <1>3. used.fail \in Nat /\ used'.fail = used.fail + 1 /\ used'.crash = used.crash
    BY Failed DEF Known, FileInv
  <1> HIDE DEF At
  <1>4. Asked(p)'
    BY <1>1, <1>2, <1>3 DEF Sound, Asked
  <1>5. p \in deleted \cup rolledBack \/ Kept(p)'
    BY <1>1, <1>2, StaysKept DEF Sound
  <1>6. CASE p \notin deleted
    <2>1. At(p, "provision") => \E place \in Halfway : At(p, place)'
      BY <1>1 DEF Halfway
    <2>2. Whole(p)' /\ Marked(p)'
      BY <1>2, <1>3, <1>6, <2>1, FailureRises DEF Sound
    <2> QED BY <1>2, <1>4, <1>5, <2>2 DEF Sound
  <1> QED BY <1>2, <1>4, <1>6 DEF Sound

LEMMA TakeWhole ==
  ASSUME Known, NEW r \in Replicas, NEW q \in Pipelines, TakeEvent(r, q) \/ TakeListed(r, q)
  PROVE  WholeInv'
  <1>t. TypeOK
    BY DEF Known, FileInv
  <1>1. PICK t \in Tasks : Idle(t) /\ Begin(t, q)
    BY TasksHaveHosts DEF TakeEvent, TakeListed
  <1>2. UNCHANGED <<config, state, topics, history>>
    BY DEF TakeEvent, TakeListed, recordVars
  <1>3. CASE /\ pc' = [pc EXCEPT ![t] = "check"] /\ pid' = [pid EXCEPT ![t] = q]
             /\ UNCHANGED <<num, where, used>>
    <2>1. \A p \in Pipelines : \A place :
             /\ At(p, place) => At(p, place)'
             /\ At(p, place)' => At(p, place) \/ (p = q /\ place = "check")
      BY <1>t, <1>1, <1>3, TakenUp
    <2> HIDE DEF At
    <2>2. \A p \in Pipelines, place \in Tracked : At(p, place)' => At(p, place)
      BY <2>1 DEF Tracked, Halfway, Deleting
    <2> QED BY <1>2, <1>3, <2>1, <2>2, Bystanders DEF history
  <1>4. CASE UNCHANGED <<taskVars, where, used>>
    BY <1>2, <1>4, SamePlaces, Bystanders DEF history
  <1>5. CASE Fail /\ UNCHANGED taskVars /\ (Move(q, "failed") \/ UNCHANGED where)
    <2>1. \A p \in Pipelines : where'[p] = "processed" => where[p] = "processed"
      BY <1>t, <1>5 DEF Move, TypeOK
    <2> QED BY <1>2, <1>5, <2>1, FailurePasses
  <1> QED BY <1>1, <1>3, <1>4, <1>5 DEF Begin

LEMMA TimeoutWhole == ASSUME Known, NEW r \in Replicas, Timeout(r) PROVE WholeInv'
  <1> DEFINE event == <<r, "event">>
             late == <<r, "late">>
  <1>t. TypeOK
    BY DEF Known, FileInv
  <1>1. event \in Tasks /\ late \in Tasks /\ event # late /\ pid[late] = None
    BY <1>t, TasksHaveHosts DEF Timeout, TypeOK, Idle
  <1>2. /\ pc'[late] = pc[event] /\ pid'[late] = pid[event] /\ pid'[event] = None
        /\ \A u \in Tasks \ {event, late} : pc'[u] = pc[u] /\ pid'[u] = pid[u]
    BY <1>t, <1>1 DEF Timeout, TypeOK
  <1> HIDE DEF event, late
  <1>3. \A p \in Pipelines : \A place : At(p, place)' <=> At(p, place)
    <2> SUFFICES ASSUME NEW p \in Pipelines, NEW place PROVE At(p, place)' <=> At(p, place)
      OBVIOUS
    <2>n. p # None
      BY RegistrationAssumption
    <2>1. ASSUME At(p, place) PROVE At(p, place)'
      <3>1. PICK u \in Tasks : pid[u] = p /\ pc[u] = place
        BY <2>1 DEF At
      <3>2. u # late
        BY <1>1, <2>n, <3>1
      <3> QED BY <1>1, <1>2, <3>1, <3>2 DEF At
    <2>2. ASSUME At(p, place)' PROVE At(p, place)
      <3>1. PICK u \in Tasks : pid'[u] = p /\ pc'[u] = place
        BY <2>2 DEF At
      <3>2. u # event
        BY <1>2, <2>n, <3>1
      <3> QED BY <1>1, <1>2, <3>1, <3>2 DEF At
    <2> QED BY <2>1, <2>2
  <1>4. UNCHANGED <<config, state, topics, deleted, rolledBack, refused>>
    BY DEF Timeout, recordVars, history
  <1>5. used'.fail = used.fail /\ used'.crash = used.crash
    BY <1>t DEF Timeout, Spend, TypeOK
  <1>6. \A p \in Pipelines : where'[p] = "processed" => where[p] = "processed"
    BY <1>t DEF Timeout, Move, TypeOK
  <1> HIDE DEF At
  <1> QED BY <1>3, <1>4, <1>5, <1>6, Bystanders

LEMMA CrashWhole == ASSUME Known, NEW r \in Replicas, Crash(r) PROVE WholeInv'
  <1>t. TypeOK
    BY DEF Known, FileInv
  <1>1. \A p \in Pipelines : \A place : At(p, place)' => At(p, place)
    <2> SUFFICES ASSUME NEW p \in Pipelines, NEW place, At(p, place)' PROVE At(p, place)
      OBVIOUS
    <2>1. PICK u \in Tasks : pid'[u] = p /\ pc'[u] = place
      BY DEF At
    <2>2. Host(u) # r
      BY <2>1, RegistrationAssumption DEF Crash
    <2> QED BY <2>1, <2>2 DEF Crash, At
  <1>2. UNCHANGED <<config, state, topics, deleted, rolledBack, refused, where>>
    BY DEF Crash, recordVars, history
  <1>3. used'.fail = used.fail /\ used'.crash # 0
    BY <1>t DEF Crash, Spend, TypeOK
  <1> HIDE DEF At
  <1> QED BY <1>1, <1>2, <1>3, Bystanders

LEMMA RequestWhole ==
  ASSUME Known, NEW t \in Tasks, NEW q \in Pipelines, CreateRequest(t, q) \/ DeleteRequest(t, q)
  PROVE  WholeInv'
  <1>t. TypeOK
    BY DEF Known, FileInv
  <1>1. PICK place : /\ Request(t, q, place)
                     /\ \/ place \in {"counter", "recheck"} /\ UNCHANGED deleted
                        \/ place = "dropTopic" /\ deleted' = deleted \cup {q}
                     /\ UNCHANGED <<rolledBack, refused>>
    BY DEF CreateRequest, DeleteRequest, history
  <1>2. \A p \in Pipelines : \A other :
           /\ At(p, other) => At(p, other)'
           /\ At(p, other)' => At(p, other) \/ (p = q /\ other = place)
    BY <1>t, <1>1, TakenUp DEF Request
  <1>3. UNCHANGED <<config, state, topics, where>>
    BY <1>1 DEF Request, recordVars
  <1>4. used'.fail = used.fail /\ used'.crash = used.crash
    BY <1>t, <1>1 DEF Request, Spend, TypeOK
  <1> HIDE DEF At
  <1>5. \A p \in Pipelines, other \in Tracked :
           At(p, other)' => At(p, other) \/ (other = "dropTopic" /\ p \in deleted')
    BY <1>1, <1>2 DEF Tracked, Halfway, Deleting
  <1> QED BY <1>1, <1>2, <1>3, <1>4, <1>5, Bystanders

LEMMA WatchWhole ==
  ASSUME Known,
         \/ \E p \in Pipelines : Drop(p)
         \/ \E r \in Replicas : Boot(r) \/ ListFiles(r) \/ ObserverDies(r) \/ ObserverRestarts(r)
         \/ UNCHANGED vars
  PROVE  WholeInv'
  <1>t. TypeOK
    BY DEF Known, FileInv
  <1>1. UNCHANGED <<config, state, topics, deleted, rolledBack, refused, taskVars>>
    BY DEF Drop, Boot, ListFiles, ObserverDies, ObserverRestarts, vars, recordVars, history
  <1>2. used'.fail = used.fail /\ used'.crash = used.crash
    BY <1>t DEF Drop, Boot, ListFiles, ObserverDies, ObserverRestarts, vars, Spend, TypeOK
  <1>3. \A p \in Pipelines : where'[p] = "processed" => where[p] = "processed"
    BY <1>t DEF Drop, Boot, ListFiles, ObserverDies, ObserverRestarts, vars, TypeOK
  <1>4. \A p, place : At(p, place)' <=> At(p, place)
    BY <1>1, SamePlaces
  <1> HIDE DEF At
  <1> QED BY <1>1, <1>2, <1>3, <1>4, Bystanders

LEMMA WholeKept == ASSUME Known, [Next]_vars PROVE WholeInv'
  BY TaskWhole, TakeWhole, TimeoutWhole, CrashWhole, RequestWhole, WatchWhole DEF Next

LEMMA WholeInit == ASSUME Init PROVE WholeInv
  <1> SUFFICES ASSUME NEW p \in Pipelines PROVE Asked(p) /\ Kept(p) /\ Whole(p) /\ Marked(p)
    BY DEF WholeInv, Sound
  <1>1. \A place : place # "idle" => ~At(p, place)
    BY DEF Init, At
  <1>2. /\ where[p] = "nowhere" /\ used.fail = 0 /\ p \notin rolledBack
        /\ config[p] # 0 => p \in topics
        /\ state[p] = IF config[p] = 0 THEN "none" ELSE "CREATED"
    BY DEF Init
  <1> HIDE DEF At
  <1> QED BY <1>1, <1>2 DEF Asked, Kept, Whole, Marked

LEMMA KnownAlways == Spec => []Known
  <1>1. Init => Known
    BY FilesInit, NumbersInit, WholeInit DEF Known
  <1>2. Known /\ [Next]_vars => Known'
    <2>1. Known => TypeOK
      BY DEF Known, FileInv
    <2> QED BY <2>1, FilesKept, NumbersKept, WholeKept DEF Known
  <1> QED BY <1>1, <1>2, PTL DEF Spec

\* A file in processed has its pipeline registered, unless somebody asked for a delete
\* or an API create of it was rolled back, and both its records once all tasks have
\* ended if nothing failed: a file is moved only by a task that found the config or
\* wrote it, and those two are all that take a config away.
THEOREM ProcessedIsWhole == Spec => []ProcessedIsRegistered
  <1>1. Known => ProcessedIsRegistered
    <2> SUFFICES ASSUME Known, NEW p \in Pipelines \ (deleted \cup rolledBack),
                        where[p] = "processed"
                 PROVE  config[p] # 0 /\ (Settled /\ used.crash + used.fail = 0 => state[p] # "none")
      BY DEF ProcessedIsRegistered
    <2>1. Kept(p) /\ Whole(p)
      BY DEF Known, WholeInv, Sound
    <2>2. Settled => ~At(p, "setState")
      BY DEF Settled, Idle, At
    <2>3. used.crash + used.fail = 0 => used.crash = 0 /\ used.fail = 0
      BY DEF Known, FileInv, TypeOK
    <2> HIDE DEF At
    <2> QED BY <2>1, <2>2, <2>3 DEF Kept, Whole
  <1> QED BY <1>1, KnownAlways, PTL

\* A registered pipeline that nobody marked FAILED has its topic once all tasks have
\* ended, or the broker refused it with a code that create_topic does not read: who
\* wrote CREATED still has to provision, and the one whose provisioning raised still
\* has to write FAILED or to take the records back.
THEOREM TopicOrMark == Spec => []ProvisionedOrMarked
  <1>1. Known => ProvisionedOrMarked
    <2> SUFFICES ASSUME Known, used.crash = 0, used.fail < 2, Settled,
                        NEW p \in Pipelines \ (deleted \cup refused), config[p] # 0,
                        state[p] = "CREATED"
                 PROVE  p \in topics
      BY DEF ProvisionedOrMarked
    <2>1. Whole(p) /\ Marked(p)
      BY DEF Known, WholeInv, Sound
    <2>2. \A place \in Halfway : ~At(p, place)
      BY DEF Settled, Idle, At, Halfway
    <2>3. used.fail = 0 \/ used.fail = 1
      BY DEF Known, FileInv, TypeOK
    <2> HIDE DEF At
    <2> QED BY <2>1, <2>2, <2>3 DEF Whole, Marked, Halfway
  <1> QED BY <1>1, KnownAlways, PTL
=============================================================================
