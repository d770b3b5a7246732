--------------------------- MODULE RegistrationProofs ---------------------------
(* Proofs about Registration, for any number of pipelines, replicas, requests and *)
(* accidents.                                                                     *)
EXTENDS Registration, FiniteSetTheorems, WellFoundedInduction, TLAPS

LEMMA TasksHaveHosts ==
  /\ \A t \in Tasks : Host(t) \in Replicas /\ Role(t) \in {"api", "event", "late", "scan"}
  /\ \A r \in Replicas : <<r, "event">> \in Tasks /\ <<r, "late">> \in Tasks
                         /\ <<r, "scan">> \in Tasks
  /\ \A r \in Replicas : /\ Host(<<r, "event">>) = r /\ Role(<<r, "event">>) = "event"
                         /\ Host(<<r, "late">>) = r /\ Role(<<r, "late">>) = "late"
                         /\ Host(<<r, "scan">>) = r /\ Role(<<r, "scan">>) = "scan"
  BY DEF Tasks, Host, Role

(* Types, one group of variables at a time.                                       *)

TaskTypes ==
    /\ pc \in [Tasks -> Places]
    /\ pid \in [Tasks -> Pipelines \cup {None}]
    /\ num \in [Tasks -> Nat]
    /\ \A t \in Tasks : Idle(t) <=> pid[t] = None

LEMMA GotoType ==
  ASSUME TypeOK, NEW t \in Tasks, ~Idle(t), NEW place \in Places \ {"idle"}, Goto(t, place),
         num' \in [Tasks -> Nat]
  PROVE  TaskTypes'
  BY DEF TypeOK, TaskTypes, Idle, Goto, Places

LEMMA FinishType ==
  ASSUME TypeOK, NEW t \in Tasks, Finish(t)
  PROVE  TaskTypes'
  BY DEF TypeOK, TaskTypes, Idle, Finish, Places

LEMMA SameTasks ==
  ASSUME TypeOK, UNCHANGED taskVars
  PROVE  TaskTypes'
  BY DEF TypeOK, TaskTypes, Idle, taskVars

LEMMA MoveType ==
  ASSUME TypeOK, NEW p, NEW to \in {"processed", "failed"}, Move(p, to)
  PROVE  where' \in [Pipelines -> {"nowhere", "pending", "processed", "failed"}]
  BY DEF TypeOK, Move

LEMMA SettleType ==
  ASSUME TypeOK, NEW t \in Tasks, NEW to \in {"processed", "failed"}, Settle(t, to)
  PROVE  /\ where' \in [Pipelines -> {"nowhere", "pending", "processed", "failed"}]
         /\ TaskTypes'
  BY FinishType, MoveType DEF TypeOK, Settle

LEMMA SpendType ==
  ASSUME TypeOK, NEW what \in {"request", "fail", "refusal", "timeout", "blind", "crash"},
         Spend(what)
  PROVE  used' \in [{"request", "fail", "refusal", "timeout", "blind", "crash"} -> Nat]
  BY DEF TypeOK, Spend

LEMMA InitTypes == ASSUME Init PROVE TypeOK
  <1>1. config \in [Pipelines -> Nat] /\ state \in [Pipelines -> {"none", "CREATED", "FAILED"}]
    <2>1. config \in [Pipelines -> {0} \cup Old] /\ {0} \cup Old \subseteq Nat
      BY RegistrationAssumption DEF Init
    <2> QED BY <2>1 DEF Init
  <1>2. /\ counter \in Nat \cup {None} /\ topics \subseteq Pipelines
        /\ deleted \subseteq Pipelines /\ rolledBack \subseteq Pipelines
        /\ refused \subseteq Pipelines /\ tables \subseteq Nat
    BY <1>1 DEF Init
  <1>3. where \in [Pipelines -> {"nowhere", "pending", "processed", "failed"}]
    BY DEF Init
  <1>4. /\ up \subseteq Replicas /\ watching \subseteq up /\ toList \subseteq up
        /\ events \in [Replicas -> SUBSET Pipelines] /\ listed \in [Replicas -> SUBSET Pipelines]
    BY DEF Init
  <1>5. TaskTypes
    BY DEF Init, TaskTypes, Idle, Places
  <1>6. used \in [{"request", "fail", "refusal", "timeout", "blind", "crash"} -> Nat]
    BY DEF Init
  <1> QED BY <1>1, <1>2, <1>3, <1>4, <1>5, <1>6 DEF TypeOK, TaskTypes

(* A type, from what an action leaves alone and what it changes.                  *)

RecordTypes ==
    /\ config \in [Pipelines -> Nat]
    /\ state \in [Pipelines -> {"none", "CREATED", "FAILED"}]
    /\ counter \in Nat \cup {None}
    /\ topics \subseteq Pipelines
WatchTypes ==
    /\ up \subseteq Replicas /\ watching \subseteq up /\ toList \subseteq up
    /\ events \in [Replicas -> SUBSET Pipelines] /\ listed \in [Replicas -> SUBSET Pipelines]
RestTypes ==
    /\ where \in [Pipelines -> {"nowhere", "pending", "processed", "failed"}]
    /\ deleted \subseteq Pipelines /\ rolledBack \subseteq Pipelines
    /\ refused \subseteq Pipelines /\ tables \subseteq Nat
    /\ used \in [{"request", "fail", "refusal", "timeout", "blind", "crash"} -> Nat]

LEMMA Parts == (RecordTypes /\ WatchTypes /\ RestTypes /\ TaskTypes)' => TypeOK'
  BY DEF TypeOK, RecordTypes, WatchTypes, RestTypes, TaskTypes

LEMMA SameRecords == ASSUME TypeOK, UNCHANGED recordVars PROVE RecordTypes'
  BY DEF TypeOK, RecordTypes, recordVars

LEMMA SameWatchers == ASSUME TypeOK, UNCHANGED watchVars PROVE WatchTypes'
  BY DEF TypeOK, WatchTypes, watchVars

LEMMA SameRest == ASSUME TypeOK, UNCHANGED <<where, history, used>> PROVE RestTypes'
  BY DEF TypeOK, RestTypes, history

(* The watchers' steps.                                                           *)

LEMMA BeginType ==
  ASSUME TypeOK, NEW t \in Tasks, Idle(t), NEW p \in Pipelines, Begin(t, p),
         UNCHANGED history
  PROVE  TaskTypes' /\ RestTypes'
  <1>1. CASE /\ pc' = [pc EXCEPT ![t] = "check"] /\ pid' = [pid EXCEPT ![t] = p]
             /\ UNCHANGED <<num, where, used>>
    <2>1. TaskTypes'
      BY <1>1, RegistrationAssumption DEF TypeOK, TaskTypes, Idle, Places
    <2> QED BY <1>1, <2>1, SameRest
  <1>2. CASE UNCHANGED <<taskVars, where, used>>
    BY <1>2, SameRest, SameTasks
  <1>3. CASE Fail /\ (Move(p, "failed") \/ UNCHANGED where) /\ UNCHANGED taskVars
    <2>1. used' \in [{"request", "fail", "refusal", "timeout", "blind", "crash"} -> Nat]
      BY <1>3, SpendType DEF Fail
    <2>2. where' \in [Pipelines -> {"nowhere", "pending", "processed", "failed"}]
      BY <1>3, MoveType DEF TypeOK
    <2> QED BY <1>3, <2>1, <2>2, SameTasks DEF TypeOK, RestTypes, history
  <1> QED BY <1>1, <1>2, <1>3 DEF Begin

LEMMA WatcherTypes ==
  ASSUME TypeOK, NEW r \in Replicas, NEW p,
         \/ p \in Pipelines /\ (Drop(p) \/ TakeEvent(r, p) \/ TakeListed(r, p))
         \/ Boot(r) \/ ListFiles(r)
         \/ Timeout(r) \/ ObserverDies(r) \/ ObserverRestarts(r) \/ Crash(r)
  PROVE  TypeOK'
  <1>1. CASE p \in Pipelines /\ Drop(p)
    <2>1. RestTypes' /\ WatchTypes'
      BY <1>1 DEF Drop, TypeOK, RestTypes, WatchTypes, history
    <2> QED BY <1>1, <2>1, Parts, SameRecords, SameTasks DEF Drop
  <1>2. CASE Boot(r)
    <2>1. WatchTypes'
      BY <1>2 DEF Boot, TypeOK, WatchTypes
    <2> QED BY <1>2, <2>1, Parts, SameRecords, SameTasks, SameRest DEF Boot
  <1>3. CASE ListFiles(r)
    <2>1. WatchTypes'
      BY <1>3 DEF ListFiles, TypeOK, WatchTypes
    <2> QED BY <1>3, <2>1, Parts, SameRecords, SameTasks, SameRest DEF ListFiles
  <1>4. CASE p \in Pipelines /\ TakeEvent(r, p)
    <2>1. WatchTypes'
      BY <1>4 DEF TakeEvent, TypeOK, WatchTypes
    <2> QED BY <1>4, <2>1, Parts, SameRecords, BeginType, TasksHaveHosts DEF TakeEvent
  <1>5. CASE p \in Pipelines /\ TakeListed(r, p)
    <2>1. WatchTypes'
      BY <1>5 DEF TakeListed, TypeOK, WatchTypes
    <2> QED BY <1>5, <2>1, Parts, SameRecords, BeginType, TasksHaveHosts DEF TakeListed
  <1>6. CASE Timeout(r)
    <2>1. TaskTypes'
      BY <1>6, TasksHaveHosts DEF Timeout, TypeOK, TaskTypes, Idle, Places
    <2>2. RestTypes'
      BY <1>6, SpendType, MoveType DEF Timeout, TypeOK, RestTypes, history
    <2> QED BY <1>6, <2>1, <2>2, Parts, SameRecords, SameWatchers DEF Timeout
  <1>7. CASE ObserverDies(r)
    <2>1. WatchTypes'
      BY <1>7 DEF ObserverDies, TypeOK, WatchTypes
    <2>2. RestTypes'
      BY <1>7, SpendType DEF ObserverDies, TypeOK, RestTypes, history
    <2> QED BY <1>7, <2>1, <2>2, Parts, SameRecords, SameTasks DEF ObserverDies
  <1>8. CASE ObserverRestarts(r)
    <2>1. WatchTypes'
      BY <1>8 DEF ObserverRestarts, TypeOK, WatchTypes
    <2> QED BY <1>8, <2>1, Parts, SameRecords, SameTasks, SameRest DEF ObserverRestarts
  <1>9. CASE Crash(r)
    <2>1. WatchTypes'
      BY <1>9 DEF Crash, TypeOK, WatchTypes
    <2>2. RestTypes'
      BY <1>9, SpendType DEF Crash, TypeOK, RestTypes, history
    <2>3. TaskTypes'
      BY <1>9 DEF Crash, TypeOK, TaskTypes, Idle, Places
    <2> QED BY <1>9, <2>1, <2>2, <2>3, Parts, SameRecords DEF Crash
  <1> QED BY <1>1, <1>2, <1>3, <1>4, <1>5, <1>6, <1>7, <1>8, <1>9

(* The tasks' steps.                                                              *)

(* A finite set of numbers has a largest one: a smallest finite set without one   *)
(* would still have none with an element taken away.                              *)

NoLargest == {S \in FiniteSubsetsOf(Nat) : S # {} /\ \A n \in S : \E m \in S : n < m}

LEMMA LargestExists ==
  ASSUME NEW S \in SUBSET Nat, IsFiniteSet(S), S # {}
  PROVE  \E n \in S : \A m \in S : m =< n
  <1> SUFFICES ASSUME ~(\E n \in S : \A m \in S : m =< n) PROVE FALSE
    OBVIOUS
  <1>0. S \in NoLargest
    <2>1. \A n \in S : \E m \in S : n < m
      OBVIOUS
    <2> QED BY <2>1 DEF NoLargest, FiniteSubsetsOf
  <1>1. NoLargest \subseteq FiniteSubsetsOf(Nat)
    BY DEF NoLargest
  <1>2. PICK T \in NoLargest : \A U \in NoLargest : <<U, T>> \notin StrictSubsetOrdering(Nat)
    BY <1>0, <1>1, FS_StrictSubsetOrderingWellFounded, WFMin
  <1>3. T \subseteq Nat /\ IsFiniteSet(T) /\ \A n \in T : \E m \in T : n < m
    BY DEF NoLargest, FiniteSubsetsOf
  <1>4. PICK x \in T : TRUE
    BY DEF NoLargest
  <1>5. PICK y \in T : x < y
    BY <1>3
  <1> DEFINE U == T \ {x}
  <1>6. IsFiniteSet(U) /\ U # {} /\ U \subseteq Nat
    BY <1>3, <1>5, FS_RemoveElement
  <1>7. \A n \in U : \E m \in U : n < m
    <2> SUFFICES ASSUME NEW n \in U PROVE \E m \in U : n < m
      OBVIOUS
    <2>1. PICK m \in T : n < m
      BY <1>3
    <2> QED BY <1>3, <1>5, <2>1
  <1>8. U \in NoLargest
    BY <1>6, <1>7 DEF NoLargest, FiniteSubsetsOf
  <1>9. <<U, T>> \in StrictSubsetOrdering(Nat)
    BY <1>3, <1>4, <1>6 DEF StrictSubsetOrdering
  <1> QED BY <1>2, <1>8, <1>9

LEMMA LargestNumberIs ==
  ASSUME TypeOK
  PROVE  LargestNumber \in Nat /\ \A p \in Pipelines : config[p] =< LargestNumber
  <1> DEFINE range == {config[p] : p \in Pipelines}
             numbers == {0} \cup range
  <1>1. IsFiniteSet(range)
    <2>1. config \in Surjection(Pipelines, range)
      BY DEF TypeOK, Surjection
    <2> QED BY <2>1, FS_Surjection, RegistrationAssumption
  <1>2. IsFiniteSet(numbers) /\ numbers \in SUBSET Nat /\ numbers # {}
    <2>1. IsFiniteSet(range \cup {0})
      BY <1>1, FS_AddElement
    <2>2. numbers = range \cup {0}
      OBVIOUS
    <2>3. range \subseteq Nat
      BY DEF TypeOK
    <2> HIDE DEF range
    <2> QED BY <2>1, <2>2, <2>3
  <1> HIDE DEF numbers
  <1>3. \E n \in numbers : \A m \in numbers : m =< n
    BY <1>2, LargestExists
  <1>4. LargestNumber \in numbers /\ \A m \in numbers : m =< LargestNumber
    BY <1>3 DEF LargestNumber, numbers
  <1> QED BY <1>2, <1>4 DEF numbers

LEMMA StepTypes ==
  ASSUME TypeOK, NEW t \in Tasks, Step(t) \/ Raise(t)
  PROVE  TypeOK'
  <1>t. pc[t] # "idle" => ~Idle(t) /\ pid[t] \in Pipelines
    BY DEF TypeOK, Idle
  <1>s. \A to \in {"processed", "failed"} : Settle(t, to) =>
           /\ where' \in [Pipelines -> {"nowhere", "pending", "processed", "failed"}]
           /\ TaskTypes'
    BY SettleType
  <1>1. CASE CheckConfig(t)
    <2>1. CASE config[pid[t]] # 0 /\ Taken(t)
      BY <2>1, <1>s, Parts, SameRecords, SameWatchers DEF Taken, TypeOK, RestTypes, history
    <2>2. CASE Goto(t, "counter") /\ UNCHANGED <<recordVars, where, watchVars, num, history, used>>
      BY <1>1, <2>2, <1>t, GotoType, Parts, SameRecords, SameWatchers, SameRest
         DEF CheckConfig, TypeOK, Places
    <2> QED BY <1>1, <2>1, <2>2 DEF CheckConfig
  <1>2. CASE NoCounter(t)
    BY <1>2, <1>t, GotoType, Parts, SameRecords, SameWatchers, SameRest
       DEF NoCounter, TypeOK, Places
  <1>3. CASE ScanNumbers(t)
    <2>1. num' \in [Tasks -> Nat]
      BY <1>3, LargestNumberIs DEF ScanNumbers, TypeOK
    <2> QED BY <1>3, <2>1, <1>t, GotoType, Parts, SameRecords, SameWatchers, SameRest
            DEF ScanNumbers, Places
  <1>4. CASE Seed(t)
    <2>1. RecordTypes'
      BY <1>4 DEF Seed, TypeOK, RecordTypes
    <2> QED BY <1>4, <2>1, <1>t, GotoType, Parts, SameWatchers, SameRest DEF Seed, TypeOK, Places
  <1>5. CASE Incr(t)
    <2>1. RecordTypes' /\ num' \in [Tasks -> Nat]
      BY <1>5 DEF Incr, TypeOK, RecordTypes
    <2> QED BY <1>5, <2>1, <1>t, GotoType, Parts, SameWatchers, SameRest DEF Incr, Places
  <1>6. CASE Recheck(t)
    <2>1. CASE config[pid[t]] # 0 /\ Taken(t)
      BY <2>1, <1>s, Parts, SameRecords, SameWatchers DEF Taken, TypeOK, RestTypes, history
    <2>2. CASE /\ Goto(t, "setConfig")
               /\ UNCHANGED <<recordVars, where, watchVars, num, history, used>>
      BY <1>6, <2>2, <1>t, GotoType, Parts, SameRecords, SameWatchers, SameRest
         DEF Recheck, TypeOK, Places
    <2> QED BY <1>6, <2>1, <2>2 DEF Recheck
  <1>7. CASE SetConfig(t)
    <2>1. RecordTypes' /\ RestTypes'
      BY <1>7 DEF SetConfig, TypeOK, RecordTypes, RestTypes
    <2> QED BY <1>7, <2>1, <1>t, GotoType, Parts, SameWatchers DEF SetConfig, TypeOK, Places
  <1>8. CASE SetState(t)
    <2>1. RecordTypes'
      BY <1>8 DEF SetState, TypeOK, RecordTypes
    <2> QED BY <1>8, <2>1, <1>t, GotoType, Parts, SameWatchers, SameRest
            DEF SetState, TypeOK, Places
  <1>9. CASE Provision(t)
    <2>1. RecordTypes'
      BY <1>9, <1>t DEF Provision, Provisioned, TypeOK, RecordTypes
    <2>2. CASE Provisioned(t) /\ Settle(t, "processed") /\ UNCHANGED rolledBack
      <3>1. refused' \subseteq Pipelines
        BY <1>t, <1>9, <2>2 DEF Provision, Provisioned, TypeOK
      <3>2. used' \in [{"request", "fail", "refusal", "timeout", "blind", "crash"} -> Nat]
        BY <2>2, SpendType DEF Provisioned, TypeOK
      <3>3. RestTypes'
        BY <1>9, <2>2, <3>1, <3>2, <1>s DEF Provision, TypeOK, RestTypes
      <3> QED BY <1>9, <2>1, <2>2, <3>3, <1>s, Parts, SameWatchers DEF Provision
    <2>3. CASE /\ Fail /\ UNCHANGED <<where, num, refused>>
               /\ IF Role(t) = "api"
                  THEN rolledBack' = rolledBack \cup {pid[t]} /\ Goto(t, "delConfig")
                  ELSE UNCHANGED rolledBack /\ Goto(t, "mark")
      <3>1. TaskTypes'
        <4>1. PICK place \in {"delConfig", "mark"} : Goto(t, place)
          BY <2>3
        <4> QED BY <1>9, <2>3, <4>1, <1>t, GotoType DEF Provision, TypeOK, Places
      <3>2. rolledBack' \subseteq Pipelines
        BY <1>9, <2>3, <1>t DEF Provision, TypeOK
      <3>3. RestTypes'
        BY <1>9, <2>3, <3>2, SpendType DEF Provision, Fail, TypeOK, RestTypes
      <3> QED BY <1>9, <2>1, <3>1, <3>3, Parts, SameWatchers DEF Provision
    <2> QED BY <1>9, <2>2, <2>3 DEF Provision
  <1>10. CASE MarkGet(t) \/ MarkSet(t)
    <2>1. RecordTypes'
      BY <1>10, <1>t DEF MarkGet, MarkSet, TypeOK, RecordTypes, recordVars
    <2>2. RestTypes'
      BY <1>10, <1>s, MoveType DEF MarkGet, MarkSet, TypeOK, RestTypes, history
    <2>3. TaskTypes'
      <3>1. CASE MarkGet(t)
        BY <1>t, <3>1, FinishType, GotoType DEF MarkGet, TypeOK, Places
      <3>2. CASE MarkSet(t)
        BY <1>s, <3>2 DEF MarkSet
      <3> QED BY <1>10, <3>1, <3>2
    <2> QED BY <1>10, <2>1, <2>2, <2>3, Parts, SameWatchers DEF MarkGet, MarkSet
  <1>11. CASE DropTopic(t)
    <2>1. RecordTypes'
      BY <1>11 DEF DropTopic, TypeOK, RecordTypes
    <2> QED BY <1>11, <2>1, <1>t, GotoType, Parts, SameWatchers, SameRest
            DEF DropTopic, TypeOK, Places
  <1>12. CASE DelConfig(t)
    <2>1. RecordTypes' /\ RestTypes'
      BY <1>12 DEF DelConfig, TypeOK, RecordTypes, RestTypes
    <2> QED BY <1>12, <2>1, <1>t, GotoType, Parts, SameWatchers DEF DelConfig, TypeOK, Places
  <1>13. CASE DelState(t)
    <2>1. RecordTypes'
      BY <1>13 DEF DelState, TypeOK, RecordTypes
    <2> QED BY <1>13, <2>1, FinishType, Parts, SameWatchers, SameRest DEF DelState
  <1>14. CASE Raise(t)
    <2>1. RestTypes'
      BY <1>14, SpendType, MoveType DEF Raise, Fail, TypeOK, RestTypes, history
    <2> QED BY <1>14, <2>1, FinishType, Parts, SameRecords, SameWatchers DEF Raise
  <1> QED BY <1>1, <1>2, <1>3, <1>4, <1>5, <1>6, <1>7, <1>8, <1>9, <1>10, <1>11, <1>12,
             <1>13, <1>14 DEF Step

LEMMA RequestTypes ==
  ASSUME TypeOK, NEW t \in Tasks, NEW p \in Pipelines, CreateRequest(t, p) \/ DeleteRequest(t, p)
  PROVE  TypeOK'
  <1>1. CASE CreateRequest(t, p)
    <2>1. PICK n \in {0} \cup Named :
             /\ Request(t, p, IF n = 0 THEN "counter" ELSE "recheck")
             /\ num' = [num EXCEPT ![t] = n]
      BY <1>1 DEF CreateRequest
    <2>2. n \in Nat
      BY RegistrationAssumption
    <2>3. TaskTypes'
      BY <2>1, <2>2, RegistrationAssumption DEF Request, TypeOK, TaskTypes, Idle, Places
    <2>4. RestTypes'
      BY <1>1, <2>1, SpendType DEF CreateRequest, Request, TypeOK, RestTypes, history
    <2> QED BY <2>1, <2>3, <2>4, Parts, SameRecords, SameWatchers DEF Request
  <1>2. CASE DeleteRequest(t, p)
    <2>1. TaskTypes'
      BY <1>2, RegistrationAssumption DEF DeleteRequest, Request, TypeOK, TaskTypes, Idle, Places
    <2>2. RestTypes'
      BY <1>2, SpendType DEF DeleteRequest, Request, TypeOK, RestTypes
    <2> QED BY <1>2, <2>1, <2>2, Parts, SameRecords, SameWatchers DEF DeleteRequest, Request
  <1> QED BY <1>1, <1>2

LEMMA StaysTyped == ASSUME TypeOK, [Next]_vars PROVE TypeOK'
  <1>1. CASE UNCHANGED vars
    BY <1>1, Parts, SameRecords, SameWatchers, SameRest, SameTasks DEF vars
  <1>2. CASE Next
    BY <1>2, WatcherTypes, StepTypes, RequestTypes, RegistrationAssumption DEF Next
  <1> QED BY <1>1, <1>2

\* Every reachable state has its types, and the tasks under way have a pipeline.
THEOREM TypeCorrect == Spec => []TypeOK
  BY InitTypes, StaysTyped, PTL DEF Spec

-----------------------------------------------------------------------------
(* Files. A file leaves the hands of a replica only into a directory, unless      *)
(* something failed; a task that marks a pipeline FAILED has met a failure.       *)

Deleting == {"dropTopic", "delConfig", "delState"}

RolesKept ==
    \A t \in Tasks : /\ pc[t] \in {"mark", "markSet"} => used.fail > 0
                     /\ pc[t] \in Deleting => Role(t) = "api"

FileInv ==
    /\ TypeOK
    /\ RolesKept
    /\ used.blind = 0 => watching = up
    /\ FailedIsExplained
    /\ NoFileForgotten

LEMMA Spent ==
  ASSUME TypeOK, NEW what \in {"request", "fail", "refusal", "timeout", "blind", "crash"},
         Spend(what)
  PROVE  /\ \A kind \in {"request", "fail", "refusal", "timeout", "blind", "crash"} :
                used[kind] \in Nat /\ used[kind] =< used'[kind]
         /\ used'[what] > 0
  BY DEF TypeOK, Spend

\* What a step of task t leaves of what the others rely on.
Keeps(t) ==
    /\ UNCHANGED watchVars
    /\ \A kind \in {"fail", "timeout", "blind"} :
          used[kind] \in Nat /\ used'[kind] \in Nat /\ used[kind] =< used'[kind]
    /\ \A u \in Tasks \ {t} : pc'[u] = pc[u] /\ pid'[u] = pid[u]
    /\ \A p \in Pipelines :
          where'[p] # where[p] =>
              where'[p] = "processed" \/ (where'[p] = "failed" /\ used'.fail > 0)
    /\ \/ pid'[t] = pid[t]
       \/ Role(t) = "api" \/ used'.fail > 0
       \/ where'[pid[t]] # "pending"
    /\ pc'[t] \in {"mark", "markSet"} => used'.fail > 0
    /\ pc'[t] \in Deleting => Role(t) = "api"

NothingReturned ==
    \A kind \in {"fail", "timeout", "blind"} :
        used[kind] \in Nat /\ used'[kind] \in Nat /\ used[kind] =< used'[kind]

LEMMA GotoKeeps ==
  ASSUME FileInv, NEW t \in Tasks, NEW place, Goto(t, place), UNCHANGED <<where, watchVars>>,
         NothingReturned, place \in {"mark", "markSet"} => used'.fail > 0,
         place \in Deleting => Role(t) = "api"
  PROVE  Keeps(t)
  BY DEF FileInv, TypeOK, Goto, Keeps, NothingReturned

LEMMA FinishKeeps ==
  ASSUME FileInv, NEW t \in Tasks, Finish(t), NEW to \in {"processed", "failed"},
         to = "failed" => used'.fail > 0,
         \/ Move(pid[t], to)
         \/ UNCHANGED where /\ (Role(t) = "api" \/ used'.fail > 0),
         pc[t] # "idle", UNCHANGED watchVars, NothingReturned
  PROVE  Keeps(t)
  <1>1. pid[t] \in Pipelines /\ pid \in [Tasks -> Pipelines \cup {None}]
        /\ pc \in [Tasks -> Places]
        /\ where \in [Pipelines -> {"nowhere", "pending", "processed", "failed"}]
    BY DEF FileInv, TypeOK, Idle
  <1>2. \A u \in Tasks \ {t} : pc'[u] = pc[u] /\ pid'[u] = pid[u]
    BY <1>1 DEF Finish
  <1>3. pc'[t] = "idle"
    BY <1>1 DEF Finish
  <1>4. \A p \in Pipelines :
           where'[p] # where[p] =>
               where'[p] = "processed" \/ (where'[p] = "failed" /\ used'.fail > 0)
    <2> SUFFICES ASSUME NEW p \in Pipelines, where'[p] # where[p]
                 PROVE  where'[p] = to
      OBVIOUS
    <2> QED BY <1>1 DEF Move
  <1>5. Role(t) = "api" \/ used'.fail > 0 \/ where'[pid[t]] # "pending"
    BY <1>1 DEF Move
  <1> QED BY <1>2, <1>3, <1>4, <1>5 DEF Keeps, NothingReturned, Deleting

LEMMA TaskKeeps == ASSUME FileInv, NEW t \in Tasks, Step(t) \/ Raise(t) PROVE Keeps(t)
  <1>u. UNCHANGED used => NothingReturned
    BY DEF FileInv, TypeOK, NothingReturned
  <1>f. Fail => NothingReturned /\ used'.fail > 0
    <2>1. ASSUME Fail
          PROVE  used' \in [{"request", "fail", "refusal", "timeout", "blind", "crash"} -> Nat]
      BY <2>1, SpendType DEF Fail, FileInv
    <2> QED BY <2>1, Spent DEF Fail, NothingReturned, FileInv
  <1>s. Settle(t, "processed") => Finish(t) /\ (Move(pid[t], "processed")
                                               \/ (UNCHANGED where /\ Role(t) = "api"))
    <2>1. CASE Role(t) = "api"
      BY <2>1 DEF Settle
    <2>2. CASE Role(t) # "api"
      BY <2>2 DEF Settle
    <2> QED BY <2>1, <2>2
  <1>1. CASE CheckConfig(t)
    BY <1>1, <1>u, <1>s, GotoKeeps, FinishKeeps DEF CheckConfig, Taken, Deleting
  <1>2. CASE NoCounter(t) \/ ScanNumbers(t) \/ Seed(t) \/ Incr(t)
    BY <1>2, <1>u, GotoKeeps DEF NoCounter, ScanNumbers, Seed, Incr, Deleting
  <1>3. CASE Recheck(t)
    BY <1>3, <1>u, <1>s, GotoKeeps, FinishKeeps DEF Recheck, Taken, Deleting
  <1>4. CASE SetConfig(t) \/ SetState(t)
    BY <1>4, <1>u, GotoKeeps DEF SetConfig, SetState, Deleting
  <1>r. Spend("refusal") => NothingReturned
    <2>1. ASSUME Spend("refusal")
          PROVE  used' \in [{"request", "fail", "refusal", "timeout", "blind", "crash"} -> Nat]
      BY <2>1, SpendType DEF FileInv
    <2> QED BY <2>1, Spent DEF NothingReturned, FileInv
  <1>5. CASE Provision(t)
    <2>1. CASE Settle(t, "processed") /\ (UNCHANGED used \/ Spend("refusal"))
      BY <1>5, <2>1, <1>u, <1>r, <1>s, FinishKeeps DEF Provision
    <2>2. CASE Fail /\ UNCHANGED where /\ Role(t) = "api" /\ Goto(t, "delConfig")
      BY <1>5, <2>2, <1>f, GotoKeeps DEF Provision, Deleting
    <2>3. CASE Fail /\ UNCHANGED where /\ Goto(t, "mark")
      BY <1>5, <2>3, <1>f, GotoKeeps DEF Provision, Deleting
    <2> QED BY <1>5, <2>1, <2>2, <2>3 DEF Provision, Provisioned
  <1>6. CASE MarkGet(t) \/ MarkSet(t)
    <2>1. used' = used /\ pc[t] \in {"mark", "markSet"}
      BY <1>6 DEF MarkGet, MarkSet
    <2>2. used'.fail > 0 /\ NothingReturned /\ UNCHANGED watchVars
      BY <1>6, <1>u, <2>1 DEF FileInv, RolesKept, MarkGet, MarkSet
    <2>3. CASE Goto(t, "markSet") /\ UNCHANGED where
      BY <2>2, <2>3, GotoKeeps DEF Deleting
    <2>4. CASE Finish(t) /\ (Move(pid[t], "failed") \/ UNCHANGED where)
      BY <2>1, <2>2, <2>4, FinishKeeps
    <2> QED BY <1>6, <2>3, <2>4 DEF MarkGet, MarkSet, Settle
  <1>7. CASE DropTopic(t) \/ DelConfig(t)
    <2>1. Role(t) = "api"
      BY <1>7 DEF DropTopic, DelConfig, FileInv, RolesKept, Deleting
    <2> QED BY <1>7, <2>1, <1>u, GotoKeeps DEF DropTopic, DelConfig
  <1>8. CASE DelState(t)
    <2>1. Role(t) = "api"
      BY <1>8 DEF DelState, FileInv, RolesKept, Deleting
    <2> QED BY <1>8, <2>1, <1>u, FinishKeeps DEF DelState
  <1>9. CASE Raise(t)
    BY <1>9, <1>f, FinishKeeps DEF Raise
  <1> QED BY <1>1, <1>2, <1>3, <1>4, <1>5, <1>6, <1>7, <1>8, <1>9 DEF Step

LEMMA StepFiles ==
  ASSUME FileInv, NEW t \in Tasks, Step(t) \/ Raise(t)
  PROVE  FileInv'
  <1>1. TypeOK' /\ Keeps(t)
    BY StepTypes, TaskKeeps DEF FileInv
  <1>2. used.fail > 0 => used'.fail > 0
    BY <1>1 DEF Keeps
  <1>3. RolesKept'
    <2> SUFFICES ASSUME NEW u \in Tasks
                 PROVE  /\ pc'[u] \in {"mark", "markSet"} => used'.fail > 0
                        /\ pc'[u] \in Deleting => Role(u) = "api"
      BY DEF RolesKept, Deleting
    <2>1. CASE u = t
      BY <1>1, <2>1 DEF Keeps
    <2>2. CASE u # t
      <3>1. pc'[u] = pc[u]
        BY <1>1, <2>2 DEF Keeps
      <3>2. /\ pc[u] \in {"mark", "markSet"} => used.fail > 0
            /\ pc[u] \in Deleting => Role(u) = "api"
        BY DEF FileInv, RolesKept
      <3> QED BY <1>2, <3>1, <3>2
    <2> QED BY <2>1, <2>2
  <1>4. used'.blind = 0 => watching' = up'
    BY <1>1 DEF Keeps, FileInv, watchVars
  <1>5. FailedIsExplained'
    <2> SUFFICES ASSUME NEW p \in Pipelines, where'[p] = "failed"
                 PROVE  used'.fail + used'.timeout > 0
      BY DEF FailedIsExplained
    <2>1. CASE where[p] = "failed"
      BY <1>1, <2>1 DEF Keeps, FileInv, FailedIsExplained
    <2>2. CASE where[p] # "failed"
      BY <1>1, <2>2 DEF Keeps
    <2> QED BY <2>1, <2>2
  <1>6. NoFileForgotten'
    <2> SUFFICES ASSUME used'.fail = 0, used'.blind = 0, NEW p \in Pipelines,
                        where'[p] = "pending"
                 PROVE  \E r \in Replicas : Knows(r, p)'
      BY DEF NoFileForgotten
    <2>1. used.fail = 0 /\ used.blind = 0 /\ where[p] = "pending"
      BY <1>1 DEF Keeps
    <2>2. PICK r \in Replicas : Knows(r, p)
      BY <2>1 DEF FileInv, NoFileForgotten
    <2>3. CASE r \notin up \/ r \in toList \/ p \in events[r] \cup listed[r]
      BY <1>1, <2>3 DEF Keeps, watchVars, Knows
    <2>4. CASE \E u \in Tasks : Host(u) = r /\ pid[u] = p /\ Role(u) # "api"
      <3>1. PICK u \in Tasks : Host(u) = r /\ pid[u] = p /\ Role(u) # "api"
        BY <2>4
      <3>2. pid'[u] = p
        BY <1>1, <3>1 DEF Keeps
      <3> QED BY <3>1, <3>2 DEF Knows
    <2> QED BY <2>2, <2>3, <2>4 DEF Knows
  <1> QED BY <1>1, <1>3, <1>4, <1>5, <1>6 DEF FileInv

(* The watchers: what one has been told, has listed or is handling stays with it  *)
(* until the next step of its way, and a replica that dies starts over.           *)

LEMMA SameRoles ==
  ASSUME RolesKept, UNCHANGED pc, used.fail > 0 => used'.fail > 0
  PROVE  RolesKept'
  BY DEF RolesKept, Deleting

LEMMA StillExplained ==
  ASSUME FileInv, NothingReturned, UNCHANGED where
  PROVE  FailedIsExplained'
  BY DEF FileInv, NothingReturned, FailedIsExplained

LEMMA AccidentSpent ==
  ASSUME FileInv, NEW what \in {"request", "fail", "refusal", "timeout", "blind", "crash"},
         Spend(what)
  PROVE  NothingReturned /\ used'[what] > 0
  <1>1. used' \in [{"request", "fail", "refusal", "timeout", "blind", "crash"} -> Nat]
    BY SpendType DEF FileInv
  <1> QED BY <1>1, Spent DEF NothingReturned, FileInv

LEMMA NothingSpent == ASSUME FileInv, UNCHANGED used PROVE NothingReturned
  BY DEF FileInv, TypeOK, NothingReturned

LEMMA Later == ASSUME NothingReturned PROVE used.fail > 0 => used'.fail > 0
  BY DEF NothingReturned

\* A witness for every file is enough.
LEMMA ByFile ==
  ASSUME FileInv, NothingReturned,
         ASSUME used'.fail = 0, used'.blind = 0, NEW p \in Pipelines, where'[p] = "pending",
                where[p] = "pending" => \E r \in Replicas : Knows(r, p)
         PROVE  \E r \in Replicas : Knows(r, p)'
  PROVE  NoFileForgotten'
  <1> SUFFICES ASSUME used'.fail = 0, used'.blind = 0, NEW p \in Pipelines,
                      where'[p] = "pending"
               PROVE  \E r \in Replicas : Knows(r, p)'
    BY DEF NoFileForgotten
  <1>1. used.fail = 0 /\ used.blind = 0
    BY DEF NothingReturned
  <1>2. where[p] = "pending" => \E r \in Replicas : Knows(r, p)
    BY <1>1 DEF FileInv, NoFileForgotten
  <1> QED BY <1>2

LEMMA DropFiles == ASSUME FileInv, NEW p \in Pipelines, Drop(p) PROVE FileInv'
  <1>1. TypeOK'
    BY WatcherTypes, RegistrationAssumption DEF FileInv
  <1>2. RolesKept' /\ NothingReturned
    BY SameRoles, NothingSpent DEF Drop, taskVars, FileInv
  <1>3. used'.blind = 0 => watching' = up'
    BY DEF Drop, FileInv
  <1>4. FailedIsExplained'
    BY DEF Drop, FileInv, TypeOK, FailedIsExplained
  <1>5. NoFileForgotten'
    <2> SUFFICES ASSUME used'.fail = 0, used'.blind = 0, NEW q \in Pipelines,
                        where'[q] = "pending",
                        where[q] = "pending" => \E r \in Replicas : Knows(r, q)
                 PROVE  \E r \in Replicas : Knows(r, q)'
      BY <1>2, ByFile
    <2>1. CASE where[q] = "pending"
      <3>1. PICK r \in Replicas : Knows(r, q)
        BY <2>1
      <3>2. events[r] \subseteq events'[r]
        BY DEF Drop, FileInv, TypeOK
      <3> QED BY <3>1, <3>2 DEF Knows, Drop, taskVars
    <2>2. CASE where[q] # "pending"
      <3>1. q = p
        BY <2>2 DEF Drop, FileInv, TypeOK
      <3>2. PICK r \in Replicas : TRUE
        BY RegistrationAssumption
      <3>3. r \notin up \/ r \in watching
        BY DEF Drop, FileInv
      <3>4. r \in watching => p \in events'[r]
        BY DEF Drop
      <3> QED BY <3>1, <3>3, <3>4 DEF Knows, Drop
    <2> QED BY <2>1, <2>2
  <1> QED BY <1>1, <1>2, <1>3, <1>4, <1>5 DEF FileInv

LEMMA BootFiles ==
  ASSUME FileInv, NEW r \in Replicas,
         Boot(r) \/ ListFiles(r) \/ ObserverDies(r) \/ ObserverRestarts(r)
  PROVE  FileInv'
  <1>1. TypeOK'
    BY WatcherTypes DEF FileInv
  <1>2. NothingReturned
    BY NothingSpent, AccidentSpent DEF Boot, ListFiles, ObserverDies, ObserverRestarts
  <1>3. RolesKept'
    BY <1>2, SameRoles, Later
       DEF Boot, ListFiles, ObserverDies, ObserverRestarts, taskVars, FileInv
  <1>4. FailedIsExplained'
    BY <1>2, StillExplained DEF Boot, ListFiles, ObserverDies, ObserverRestarts
  <1>5. used'.blind = 0 => watching' = up'
    <2>1. CASE ObserverDies(r)
      BY <2>1, AccidentSpent DEF ObserverDies
    <2>2. CASE Boot(r) \/ ListFiles(r) \/ ObserverRestarts(r)
      BY <2>2 DEF Boot, ListFiles, ObserverRestarts, FileInv
    <2> QED BY <2>1, <2>2
  <1>6. NoFileForgotten'
    <2> SUFFICES ASSUME used'.fail = 0, used'.blind = 0, NEW q \in Pipelines,
                        where'[q] = "pending",
                        where[q] = "pending" => \E s \in Replicas : Knows(s, q)
                 PROVE  \E s \in Replicas : Knows(s, q)'
      BY <1>2, ByFile
    <2>1. where[q] = "pending"
      BY DEF Boot, ListFiles, ObserverDies, ObserverRestarts
    <2>2. PICK s \in Replicas : Knows(s, q)
      BY <2>1
    <2>3. CASE Boot(r)
      BY <2>2, <2>3 DEF Knows, Boot, taskVars
    <2>4. CASE ListFiles(r)
      <3>1. CASE s = r /\ r \in toList
        <4>1. q \in listed'[r]
          BY <2>1, <2>4 DEF ListFiles, FileInv, TypeOK
        <4> QED BY <3>1, <4>1 DEF Knows
      <3>2. CASE s # r \/ s \notin toList
        <4>1. s # r
          BY <2>4, <3>2 DEF ListFiles
        <4>2. listed'[s] = listed[s] /\ (s \in toList => s \in toList')
          BY <2>4, <4>1 DEF ListFiles, FileInv, TypeOK
        <4> QED BY <2>2, <2>4, <4>2 DEF Knows, ListFiles, taskVars
      <3> QED BY <2>4, <3>1, <3>2 DEF ListFiles
    <2>5. CASE ObserverDies(r)
      BY <2>5, AccidentSpent DEF ObserverDies
    <2>6. CASE ObserverRestarts(r)
      BY <2>2, <2>6 DEF Knows, ObserverRestarts, taskVars
    <2> QED BY <2>3, <2>4, <2>5, <2>6
  <1> QED BY <1>1, <1>3, <1>4, <1>5, <1>6 DEF FileInv

\* What beginning to handle p's file by t changes: t holds the file if it waits.
LEMMA BeginHolds ==
  ASSUME FileInv, NEW t \in Tasks, Idle(t), Role(t) # "api", NEW p \in Pipelines, Begin(t, p)
  PROVE  /\ NothingReturned /\ RolesKept' /\ FailedIsExplained'
         /\ \A q \in Pipelines : where'[q] = "pending" => where[q] = "pending"
         /\ \A u \in Tasks : pid[u] # None => pid'[u] = pid[u]
         /\ used'.fail = 0 /\ where'[p] = "pending" => pid'[t] = p
         /\ used'.blind = 0 => used.blind = 0
  <1>t. TypeOK /\ RolesKept
    BY DEF FileInv
  <1>1. CASE /\ where[p] = "pending"
             /\ pc' = [pc EXCEPT ![t] = "check"] /\ pid' = [pid EXCEPT ![t] = p]
             /\ UNCHANGED <<num, where, used>>
    <2>1. NothingReturned /\ FailedIsExplained'
      BY <1>1, NothingSpent, StillExplained
    <2>2. RolesKept'
      BY <1>1, <1>t DEF RolesKept, Deleting, TypeOK
    <2>3. \A u \in Tasks : pid[u] # None => pid'[u] = pid[u]
      BY <1>1, <1>t DEF TypeOK
    <2>4. pid'[t] = p
      BY <1>1, <1>t DEF TypeOK
    <2> QED BY <1>1, <2>1, <2>2, <2>3, <2>4
  <1>2. CASE where[p] # "pending" /\ UNCHANGED <<taskVars, where, used>>
    BY <1>2, <1>t, NothingSpent, StillExplained, SameRoles DEF taskVars
  <1>3. CASE Fail /\ (Move(p, "failed") \/ UNCHANGED where) /\ UNCHANGED taskVars
    <2>1. NothingReturned /\ used'.fail > 0
      BY <1>3, AccidentSpent DEF Fail
    <2>2. RolesKept'
      BY <1>3, <1>t, <2>1, SameRoles DEF taskVars
    <2>3. \A q \in Pipelines : where'[q] = "pending" => where[q] = "pending"
      BY <1>3, <1>t DEF Move, TypeOK
    <2>4. used'.fail # 0 /\ (used'.blind = 0 => used.blind = 0) /\ used'.fail + used'.timeout > 0
      BY <2>1 DEF NothingReturned
    <2> QED BY <1>3, <2>1, <2>2, <2>3, <2>4 DEF taskVars, FailedIsExplained
  <1> QED BY <1>1, <1>2, <1>3 DEF Begin

LEMMA TakeFiles ==
  ASSUME FileInv, NEW r \in Replicas, NEW p \in Pipelines, TakeEvent(r, p) \/ TakeListed(r, p)
  PROVE  FileInv'
  <1>1. TypeOK'
    BY WatcherTypes DEF FileInv
  <1>2. PICK t \in Tasks : Host(t) = r /\ Role(t) # "api" /\ Idle(t) /\ Begin(t, p)
    BY TasksHaveHosts DEF TakeEvent, TakeListed
  <1>3. /\ NothingReturned /\ RolesKept' /\ FailedIsExplained'
        /\ \A q \in Pipelines : where'[q] = "pending" => where[q] = "pending"
        /\ \A u \in Tasks : pid[u] # None => pid'[u] = pid[u]
        /\ used'.fail = 0 /\ where'[p] = "pending" => pid'[t] = p
        /\ used'.blind = 0 => used.blind = 0
    BY <1>2, BeginHolds
  <1>4. used'.blind = 0 => watching' = up'
    BY <1>3 DEF TakeEvent, TakeListed, FileInv
  <1>5. /\ UNCHANGED <<up, toList>>
        /\ \A s \in Replicas, q \in Pipelines :
              q \in events[s] \cup listed[s] =>
                  (q \in events'[s] \cup listed'[s] \/ (s = r /\ q = p))
    BY DEF TakeEvent, TakeListed, FileInv, TypeOK
  <1>6. NoFileForgotten'
    <2> SUFFICES ASSUME used'.fail = 0, used'.blind = 0, NEW q \in Pipelines,
                        where'[q] = "pending",
                        where[q] = "pending" => \E s \in Replicas : Knows(s, q)
                 PROVE  \E s \in Replicas : Knows(s, q)'
      BY <1>3, ByFile
    <2>1. PICK s \in Replicas : Knows(s, q)
      BY <1>3
    <2>2. CASE s \notin up \/ s \in toList
      BY <1>5, <2>2 DEF Knows
    <2>3. CASE q \in events[s] \cup listed[s]
      <3>1. CASE s = r /\ q = p
        BY <1>2, <1>3, <3>1 DEF Knows
      <3>2. CASE q \in events'[s] \cup listed'[s]
        BY <3>2 DEF Knows
      <3> QED BY <1>5, <2>3, <3>1, <3>2
    <2>4. CASE \E u \in Tasks : Host(u) = s /\ pid[u] = q /\ Role(u) # "api"
      <3>1. PICK u \in Tasks : Host(u) = s /\ pid[u] = q /\ Role(u) # "api"
        BY <2>4
      <3>2. pid'[u] = q
        BY <1>3, <3>1, RegistrationAssumption
      <3> QED BY <3>1, <3>2 DEF Knows
    <2> QED BY <2>1, <2>2, <2>3, <2>4 DEF Knows
  <1> QED BY <1>1, <1>3, <1>4, <1>6 DEF FileInv

LEMMA TimeoutFiles == ASSUME FileInv, NEW r \in Replicas, Timeout(r) PROVE FileInv'
  <1> DEFINE event == <<r, "event">>
             late == <<r, "late">>
  <1>1. TypeOK' /\ TypeOK /\ RolesKept
    BY WatcherTypes DEF FileInv
  <1>2. NothingReturned /\ used'.timeout > 0
    BY AccidentSpent DEF Timeout
  <1>3. /\ event \in Tasks /\ late \in Tasks /\ event # late
        /\ Role(event) # "api" /\ Role(late) # "api"
        /\ ~Idle(event) /\ Idle(late) /\ pid[event] \in Pipelines
    BY <1>1, TasksHaveHosts DEF Timeout, TypeOK
  <1>4. RolesKept'
    <2>1. /\ \A u \in Tasks : u \notin {event, late} => pc'[u] = pc[u]
          /\ pc'[late] = pc[event] /\ pc'[event] = "idle"
      BY <1>1, <1>3 DEF Timeout, TypeOK
    <2>2. \A u \in Tasks : pc'[u] = pc[u] \/ pc'[u] = "idle" \/ (u = late /\ pc'[u] = pc[event])
      BY <2>1
    <2> QED BY <1>1, <1>2, <1>3, <2>2, Later DEF RolesKept, Deleting
  <1>5. used'.blind = 0 => watching' = up'
    BY <1>2 DEF Timeout, FileInv, watchVars, NothingReturned
  <1>6. FailedIsExplained'
    BY <1>2 DEF FailedIsExplained, NothingReturned
  <1>7. NoFileForgotten'
    <2> SUFFICES ASSUME used'.fail = 0, used'.blind = 0, NEW q \in Pipelines,
                        where'[q] = "pending",
                        where[q] = "pending" => \E s \in Replicas : Knows(s, q)
                 PROVE  \E s \in Replicas : Knows(s, q)'
      BY <1>2, ByFile
    <2>1. where[q] = "pending" /\ q # pid[event]
      BY <1>1, <1>3 DEF Timeout, Move, TypeOK
    <2>2. PICK s \in Replicas : Knows(s, q)
      BY <2>1
    <2>3. \A u \in Tasks : pid[u] = q => pid'[u] = q
      <3>1. pid[late] = None
        BY <1>1, <1>3 DEF TypeOK
      <3>2. \A u \in Tasks : u # late /\ u # event => pid'[u] = pid[u]
        BY <1>1 DEF Timeout, TypeOK
      <3>3. q # None
        BY RegistrationAssumption
      <3> HIDE DEF event, late
      <3> QED BY <2>1, <3>1, <3>2, <3>3
    <2> QED BY <2>2, <2>3 DEF Knows, Timeout, watchVars
  <1> QED BY <1>1, <1>4, <1>5, <1>6, <1>7 DEF FileInv

LEMMA CrashFiles == ASSUME FileInv, NEW r \in Replicas, Crash(r) PROVE FileInv'
  <1>1. TypeOK' /\ TypeOK /\ RolesKept
    BY WatcherTypes DEF FileInv
  <1>2. NothingReturned
    BY AccidentSpent DEF Crash
  <1>3. RolesKept'
    BY <1>1, <1>2, Later DEF Crash, RolesKept, Deleting
  <1>4. used'.blind = 0 => watching' = up'
    BY <1>2 DEF Crash, FileInv, NothingReturned
  <1>5. FailedIsExplained'
    BY <1>2, StillExplained DEF Crash
  <1>6. NoFileForgotten'
    BY <1>1 DEF NoFileForgotten, Knows, Crash
  <1> QED BY <1>1, <1>3, <1>4, <1>5, <1>6 DEF FileInv

LEMMA RequestFiles ==
  ASSUME FileInv, NEW t \in Tasks, NEW p \in Pipelines, CreateRequest(t, p) \/ DeleteRequest(t, p)
  PROVE  FileInv'
  <1>1. TypeOK' /\ TypeOK /\ RolesKept
    BY RequestTypes DEF FileInv
  <1>2. PICK place \in {"counter", "recheck", "dropTopic"} : Request(t, p, place)
    BY DEF CreateRequest, DeleteRequest
  <1>3. NothingReturned /\ Role(t) = "api" /\ UNCHANGED <<where, watchVars>>
    BY <1>2, AccidentSpent DEF Request
  <1>4. \A u \in Tasks \ {t} : pc'[u] = pc[u] /\ pid'[u] = pid[u]
    BY <1>1, <1>2 DEF Request, TypeOK
  <1>5. RolesKept'
    <2>1. pc'[t] \notin {"mark", "markSet"}
      BY <1>1, <1>2 DEF Request, TypeOK
    <2> QED BY <1>1, <1>3, <1>4, <2>1, Later DEF RolesKept, Deleting
  <1>6. used'.blind = 0 => watching' = up'
    BY <1>3 DEF FileInv, watchVars, NothingReturned
  <1>7. FailedIsExplained'
    BY <1>3, StillExplained
  <1>8. NoFileForgotten'
    <2> SUFFICES ASSUME used'.fail = 0, used'.blind = 0, NEW q \in Pipelines,
                        where'[q] = "pending",
                        where[q] = "pending" => \E s \in Replicas : Knows(s, q)
                 PROVE  \E s \in Replicas : Knows(s, q)'
      BY <1>3, ByFile
    <2>1. PICK s \in Replicas : Knows(s, q)
      BY <1>3
    <2> QED BY <1>3, <1>4, <2>1 DEF Knows, watchVars
  <1> QED BY <1>1, <1>5, <1>6, <1>7, <1>8 DEF FileInv

LEMMA FilesInit == ASSUME Init PROVE FileInv
  <1>1. RolesKept
    BY DEF Init, RolesKept, Deleting
  <1>2. FailedIsExplained /\ NoFileForgotten
    BY DEF Init, FailedIsExplained, NoFileForgotten
  <1>3. used.blind = 0 => watching = up
    BY DEF Init
  <1> QED BY <1>1, <1>2, <1>3, InitTypes DEF FileInv

LEMMA FilesKept == ASSUME FileInv, [Next]_vars PROVE FileInv'
  <1>1. CASE UNCHANGED vars
    <2>1. TypeOK' /\ RolesKept' /\ NothingReturned
      BY <1>1, StaysTyped, SameRoles, NothingSpent DEF FileInv, vars, taskVars
    <2>2. FailedIsExplained'
      BY <1>1, <2>1, StillExplained DEF vars
    <2>3. (used'.blind = 0 => watching' = up') /\ NoFileForgotten'
      BY <1>1 DEF FileInv, vars, watchVars, taskVars, NoFileForgotten, Knows
    <2> QED BY <2>1, <2>2, <2>3 DEF FileInv
  <1>2. CASE Next
    BY <1>2, DropFiles, BootFiles, TakeFiles, TimeoutFiles, CrashFiles, StepFiles, RequestFiles
       DEF Next
  <1> QED BY <1>1, <1>2

\* A file that waits is known to a replica, or will be when one starts: the observer
\* is started before the scan lists the directory, a name leaves one's hands only
\* when its file has left, and a replica that dies scans again.
THEOREM WaitingIsKnown == Spec => []NoFileForgotten
  <1>1. FileInv => NoFileForgotten
    BY DEF FileInv
  <1> QED BY <1>1, FilesInit, FilesKept, PTL DEF Spec

\* A file lands in failed only after an error or a handler beyond the 30 s, however
\* many replicas and clients register the same pipeline at once.
THEOREM OnlyFailuresFail == Spec => []FailedIsExplained
  <1>1. FileInv => FailedIsExplained
    BY DEF FileInv
  <1> QED BY <1>1, FilesInit, FilesKept, PTL DEF Spec

-----------------------------------------------------------------------------
(* Numbers. A number that came from the counter and is not yet written to a       *)
(* config is nobody else's, and no number that configs have or had, but those     *)
(* that clients have named, is beyond the counter; before there is one, it is some *)
(* config's, and not beyond what the counter will be seeded with.                 *)

Holds(t) == pc[t] \in {"recheck", "setConfig"}

Below(bound) == \A n \in tables : n \in Named \/ n =< bound

\* What t's config is going to replace, if another creator was there first.
Overwrites(t) == config[pid[t]]

NumberInv ==
    /\ 0 \notin tables
    /\ counter = None => \A n \in tables : n \in Named \/ \E p \in Pipelines : config[p] = n
    /\ counter # None => Below(counter)
    /\ \A t \in Tasks : counter = None /\ pc[t] = "seed" => Below(num[t])
    /\ \A t \in Tasks : counter = None /\ pc[t] = "setConfig" => Overwrites(t) \in {0} \cup Named
    /\ \A t \in Tasks : Holds(t) =>
          /\ num[t] # 0
          /\ counter = None => num[t] \in Named
          /\ counter # None => num[t] \in Named \/ num[t] =< counter
          /\ num[t] \in tables => num[t] \in Named
    /\ \A t, u \in Tasks : t # u /\ Holds(t) /\ Holds(u) /\ num[t] = num[u] => num[t] \in Named

LEMMA NumberTypes ==
  ASSUME TypeOK
  PROVE  /\ config \in [Pipelines -> Nat] /\ counter \in Nat \cup {None}
         /\ num \in [Tasks -> Nat] /\ pc \in [Tasks -> Places]
         /\ tables \subseteq Nat /\ Named \subseteq Nat \ {0} /\ None \notin Nat
  BY RegistrationAssumption DEF TypeOK

\* Steps that give nobody a number.
LEMMA NobodyGains ==
  ASSUME TypeOK, NumberInv, UNCHANGED <<config, counter, tables>>,
         \A u \in Tasks : /\ Holds(u)' => Holds(u) /\ num'[u] = num[u]
                          /\ pc'[u] = "seed" => pc[u] = "seed" /\ num'[u] = num[u]
                          /\ pc'[u] = "setConfig" =>
                                pid'[u] = pid[u] /\ (pc[u] = "setConfig" \/ Overwrites(u) = 0)
  PROVE  NumberInv'
  BY DEF NumberInv, Below, Holds, Overwrites

LEMMA NumbersSeed == ASSUME TypeOK, NumberInv, NEW t \in Tasks, Seed(t) PROVE NumberInv'
  <1>1. \A u \in Tasks : /\ Holds(u)' => Holds(u)
                         /\ pc'[u] = "seed" => pc[u] = "seed"
                         /\ pc'[u] = "setConfig" => pc[u] = "setConfig" /\ pid'[u] = pid[u]
    BY NumberTypes DEF Seed, Goto, Holds
  <1>2. UNCHANGED <<config, num, tables>>
    BY DEF Seed, history
  <1>3. CASE counter # None
    BY <1>1, <1>2, <1>3, NobodyGains DEF Seed
  <1>4. CASE counter = None
    <2>1. counter' = num[t] /\ counter' # None /\ Below(num[t])
      BY <1>4, NumberTypes DEF Seed, NumberInv
    <2>2. Below(counter)'
      BY <1>2, <2>1 DEF Below
    <2>3. \A u \in Tasks : Holds(u)' => num[u] \in Named /\ num[u] # 0
      BY <1>1, <1>4 DEF NumberInv
    <2> QED BY <1>2, <2>1, <2>2, <2>3 DEF NumberInv
  <1> QED BY <1>3, <1>4

LEMMA NumbersScan == ASSUME TypeOK, NumberInv, NEW t \in Tasks, ScanNumbers(t) PROVE NumberInv'
  <1>1. UNCHANGED <<config, counter, tables>>
    BY DEF ScanNumbers, recordVars, history
  <1>2. \A u \in Tasks : /\ Holds(u)' => Holds(u) /\ num'[u] = num[u]
                         /\ pc'[u] = "setConfig" => pc[u] = "setConfig" /\ pid'[u] = pid[u]
    BY NumberTypes DEF ScanNumbers, Goto, Holds
  <1>3. \A u \in Tasks : pc'[u] = "seed" =>
           num'[u] = LargestNumber \/ (pc[u] = "seed" /\ num'[u] = num[u])
    BY NumberTypes DEF ScanNumbers, Goto
  <1>4. counter = None => Below(LargestNumber)
    BY LargestNumberIs DEF NumberInv, Below
  <1>5. \A u \in Tasks : counter = None /\ pc'[u] = "seed" => Below(num'[u])
    BY <1>3, <1>4 DEF NumberInv
  <1> QED BY <1>1, <1>2, <1>5 DEF NumberInv, Below, Overwrites

LEMMA NumbersIncr == ASSUME TypeOK, NumberInv, NEW t \in Tasks, Incr(t) PROVE NumberInv'
  <1>1. counter \in Nat /\ counter' = counter + 1 /\ UNCHANGED <<config, tables>>
    BY NumberTypes DEF Incr, history
  <1>2. num'[t] = counter + 1 /\ \A u \in Tasks \ {t} : num'[u] = num[u] /\ pc'[u] = pc[u]
    BY NumberTypes DEF Incr, Goto
  <1>3. Below(counter) /\ counter # None /\ counter' # None
    BY <1>1, NumberTypes DEF Incr, NumberInv
  <1>4. Below(counter)'
    BY <1>1, <1>3, NumberTypes DEF Below
  <1>5. \A u \in Tasks \ {t} : Holds(u)' =>
           /\ num[u] # 0 /\ (num[u] \in Named \/ num[u] =< counter)
           /\ num[u] \in tables => num[u] \in Named
    BY <1>2 DEF NumberInv, Holds
  <1>6. \A u \in Tasks : Holds(u)' =>
           /\ num'[u] # 0 /\ (num'[u] \in Named \/ num'[u] =< counter')
           /\ num'[u] \in tables => num'[u] \in Named
    <2> SUFFICES ASSUME NEW u \in Tasks, Holds(u)'
                 PROVE  /\ num'[u] # 0 /\ (num'[u] \in Named \/ num'[u] =< counter')
                        /\ num'[u] \in tables => num'[u] \in Named
      OBVIOUS
    <2>1. CASE u = t
      <3>1. counter + 1 \in tables => counter + 1 \in Named
        BY <1>1, <1>3, NumberTypes DEF Below
      <3> QED BY <1>1, <1>2, <2>1, <3>1
    <2>2. CASE u # t
      BY <1>1, <1>2, <1>5, <2>2, NumberTypes
    <2> QED BY <2>1, <2>2
  <1>7. \A u \in Tasks \ {t} : Holds(u)' /\ num'[u] = counter + 1 => counter + 1 \in Named
    BY <1>1, <1>2, <1>5, NumberTypes
  <1>8. \A u, w \in Tasks : u # w /\ Holds(u)' /\ Holds(w)' /\ num'[u] = num'[w] =>
                               num'[u] \in Named
    <2> SUFFICES ASSUME NEW u \in Tasks, NEW w \in Tasks, u # w, Holds(u)', Holds(w)',
                        num'[u] = num'[w]
                 PROVE  num'[u] \in Named
      OBVIOUS
    <2>1. CASE u = t \/ w = t
      BY <1>2, <1>7, <2>1
    <2>2. CASE u # t /\ w # t
      BY <1>2, <2>2 DEF NumberInv, Holds
    <2> QED BY <2>1, <2>2
  <1> QED BY <1>1, <1>3, <1>4, <1>6, <1>8 DEF NumberInv

LEMMA NumbersWritten == ASSUME TypeOK, NumberInv, NEW t \in Tasks, SetConfig(t) PROVE NumberInv'
  <1> DEFINE p == pid[t]
             n == num[t]
  <1>1. p \in Pipelines /\ n \in Nat /\ Holds(t) /\ UNCHANGED <<counter, num, pid>>
        /\ pc[t] = "setConfig" /\ tables' = tables \cup {n}
    BY NumberTypes DEF SetConfig, TypeOK, Holds, Idle, Goto
  <1>2. config'[p] = n /\ \A q \in Pipelines \ {p} : config'[q] = config[q]
    BY <1>1, NumberTypes DEF SetConfig
  <1>3. \A u \in Tasks : /\ Holds(u)' => Holds(u) /\ u # t
                         /\ pc'[u] = "seed" => pc[u] = "seed"
                         /\ pc'[u] = "setConfig" => pc[u] = "setConfig"
    BY NumberTypes DEF SetConfig, Goto, Holds
  <1>4. /\ n # 0 /\ 0 \notin tables /\ (counter = None => n \in Named)
        /\ counter # None => n \in Named \/ n =< counter
        /\ \A u \in Tasks : Holds(u) /\ u # t /\ num[u] = n => n \in Named
        /\ counter = None => config[p] \in {0} \cup Named
    BY <1>1 DEF NumberInv, Overwrites
  <1>5. counter' = None => \A m \in tables' : m \in Named \/ \E q \in Pipelines : config'[q] = m
    <2> SUFFICES ASSUME counter = None, NEW m \in tables, m \notin Named
                 PROVE  \E q \in Pipelines : config'[q] = m
      BY <1>1, <1>4 DEF NumberInv
    <2>1. PICK q \in Pipelines : config[q] = m
      BY DEF NumberInv
    <2>2. q # p
      <3>1. m # 0
        BY <1>4
      <3> QED BY <1>4, <2>1, <3>1
    <2> QED BY <1>2, <2>1, <2>2
  <1>6. counter' # None => Below(counter)'
    BY <1>1, <1>4 DEF NumberInv, Below
  <1>7. \A u \in Tasks : counter' = None /\ pc'[u] = "seed" => Below(num[u])'
    BY <1>1, <1>3, <1>4 DEF NumberInv, Below
  <1>8. \A u \in Tasks : counter' = None /\ pc'[u] = "setConfig" =>
                            config'[pid[u]] \in {0} \cup Named
    <2> SUFFICES ASSUME NEW u \in Tasks, counter = None, pc[u] = "setConfig"
                 PROVE  config'[pid[u]] \in {0} \cup Named
      BY <1>1, <1>3
    <2>1. pid[u] \in Pipelines /\ config[pid[u]] \in {0} \cup Named
      BY DEF NumberInv, Overwrites, TypeOK, Idle
    <2> QED BY <1>2, <1>4, <2>1
  <1> HIDE DEF p, n
  <1>9. \A u \in Tasks : Holds(u)' =>
           /\ num[u] # 0
           /\ counter = None => num[u] \in Named
           /\ counter # None => num[u] \in Named \/ num[u] =< counter
           /\ num[u] \in tables' => num[u] \in Named
    BY <1>1, <1>3, <1>4 DEF NumberInv
  <1>10. \A u, w \in Tasks : u # w /\ Holds(u)' /\ Holds(w)' /\ num[u] = num[w] => num[u] \in Named
    BY <1>3 DEF NumberInv
  <1>11. 0 \notin tables'
    BY <1>1, <1>4 DEF n
  <1> QED BY <1>1, <1>5, <1>6, <1>7, <1>8, <1>9, <1>10, <1>11 DEF NumberInv, Below, Overwrites

LEMMA NumbersTakenBack ==
  ASSUME TypeOK, NumberInv, NEW t \in Tasks, DelConfig(t)
  PROVE  NumberInv'
  <1> DEFINE p == pid[t]
  <1>1. p \in Pipelines /\ UNCHANGED <<counter, num, pid>> /\ tables' \subseteq tables
        /\ (counter = None => config[p] \notin tables')
    BY DEF DelConfig, TypeOK, Idle, Goto
  <1>2. \A q \in Pipelines : config'[q] = IF q = p THEN 0 ELSE config[q]
    BY NumberTypes DEF DelConfig
  <1>3. \A u \in Tasks : /\ Holds(u)' => Holds(u)
                         /\ pc'[u] = "seed" => pc[u] = "seed"
                         /\ pc'[u] = "setConfig" => pc[u] = "setConfig"
    BY NumberTypes DEF DelConfig, Goto, Holds
  <1> HIDE DEF p
  <1>4. counter' = None => \A m \in tables' : m \in Named \/ \E q \in Pipelines : config'[q] = m
    <2> SUFFICES ASSUME counter = None, NEW m \in tables', m \notin Named
                 PROVE  \E q \in Pipelines : config'[q] = m
      BY <1>1
    <2>1. PICK q \in Pipelines : config[q] = m
      BY <1>1 DEF NumberInv
    <2> QED BY <1>1, <1>2, <2>1
  <1>5. \A bound \in Nat : Below(bound) => Below(bound)'
    BY <1>1, NumberTypes DEF Below
  <1>6. counter' # None => Below(counter)'
    BY <1>1, <1>5, NumberTypes DEF NumberInv, Below
  <1>7. \A u \in Tasks : counter' = None /\ pc'[u] = "seed" => Below(num[u])'
    BY <1>1, <1>3, <1>5, NumberTypes DEF NumberInv, Below
  <1>8. \A u \in Tasks : counter' = None /\ pc'[u] = "setConfig" =>
                            config'[pid[u]] \in {0} \cup Named
    <2> SUFFICES ASSUME NEW u \in Tasks, counter = None, pc[u] = "setConfig"
                 PROVE  config'[pid[u]] \in {0} \cup Named
      BY <1>1, <1>3
    <2>1. pid[u] \in Pipelines /\ config[pid[u]] \in {0} \cup Named
      BY DEF NumberInv, Overwrites, TypeOK, Idle
    <2> QED BY <1>2, <2>1
  <1>9. \A u \in Tasks : Holds(u)' =>
           /\ num[u] # 0
           /\ counter = None => num[u] \in Named
           /\ counter # None => num[u] \in Named \/ num[u] =< counter
           /\ num[u] \in tables' => num[u] \in Named
    BY <1>1, <1>3 DEF NumberInv
  <1>10. \A u, w \in Tasks : u # w /\ Holds(u)' /\ Holds(w)' /\ num[u] = num[w] => num[u] \in Named
    BY <1>3 DEF NumberInv
  <1> QED BY <1>1, <1>4, <1>6, <1>7, <1>8, <1>9, <1>10 DEF NumberInv, Below, Overwrites

\* The number goes with the handler the observer no longer waits for.
LEMMA NumbersTimeout ==
  ASSUME TypeOK, NumberInv, NEW r \in Replicas, Timeout(r)
  PROVE  NumberInv'
  <1> DEFINE event == <<r, "event">>
             late == <<r, "late">>
             from(u) == IF u = late THEN event ELSE u
  <1>1. UNCHANGED <<config, counter, tables>>
    BY DEF Timeout, recordVars, history
  <1>2. event \in Tasks /\ late \in Tasks /\ event # late
    BY TasksHaveHosts
  <1>3. /\ pc'[late] = pc[event] /\ num'[late] = num[event] /\ pid'[late] = pid[event]
        /\ pc'[event] = "idle"
        /\ \A u \in Tasks \ {event, late} : pc'[u] = pc[u] /\ num'[u] = num[u] /\ pid'[u] = pid[u]
    BY <1>2, NumberTypes DEF Timeout, TypeOK
  <1>4. \A u \in Tasks : /\ from(u) \in Tasks
                         /\ Holds(u)' => Holds(from(u)) /\ num'[u] = num[from(u)] /\ u # event
                         /\ pc'[u] = "seed" => pc[from(u)] = "seed" /\ num'[u] = num[from(u)]
                         /\ pc'[u] = "setConfig" =>
                               pc[from(u)] = "setConfig" /\ pid'[u] = pid[from(u)]
    BY <1>2, <1>3 DEF Holds
  <1>5. \A u, w \in Tasks : u # w /\ Holds(u)' /\ Holds(w)' => from(u) # from(w)
    BY <1>2, <1>4
  <1> HIDE DEF event, late, from
  <1>6. \A u, w \in Tasks : u # w /\ Holds(u)' /\ Holds(w)' /\ num'[u] = num'[w] =>
                               num'[u] \in Named
    BY <1>4, <1>5 DEF NumberInv
  <1>7. \A u \in Tasks : counter' = None /\ pc'[u] = "seed" => Below(num[from(u)])
    BY <1>1, <1>4 DEF NumberInv
  <1>8. \A u \in Tasks : counter' = None /\ pc'[u] = "seed" => Below(num[u])'
    BY <1>1, <1>4, <1>7 DEF Below
  <1>9. \A u \in Tasks : Holds(u)' =>
          /\ num'[u] # 0
          /\ counter = None => num'[u] \in Named
          /\ counter # None => num'[u] \in Named \/ num'[u] =< counter
          /\ num'[u] \in tables => num'[u] \in Named
    BY <1>4 DEF NumberInv
  <1>10. \A u \in Tasks : counter' = None /\ pc'[u] = "setConfig" =>
                             Overwrites(u)' \in {0} \cup Named
    BY <1>1, <1>4 DEF NumberInv, Overwrites
  <1> QED BY <1>1, <1>6, <1>8, <1>9, <1>10 DEF NumberInv, Below

\* A number that a client names is in Named, whoever else has it.
LEMMA NumbersNamed ==
  ASSUME TypeOK, NumberInv, NEW t \in Tasks, NEW p \in Pipelines, CreateRequest(t, p)
  PROVE  NumberInv'
  <1>1. PICK m \in {0} \cup Named :
           /\ Request(t, p, IF m = 0 THEN "counter" ELSE "recheck")
           /\ num' = [num EXCEPT ![t] = m]
    BY DEF CreateRequest
  <1>2. UNCHANGED <<config, counter, tables>>
    BY <1>1 DEF Request, recordVars, CreateRequest, history
  <1>3. \A u \in Tasks : /\ pc'[u] = "seed" => pc[u] = "seed" /\ num'[u] = num[u]
                         /\ pc'[u] = "setConfig" => pc[u] = "setConfig" /\ pid'[u] = pid[u]
                         /\ Holds(u)' => \/ Holds(u) /\ num'[u] = num[u]
                                         \/ num'[u] \in Named
    BY <1>1, NumberTypes DEF Request, Holds
  <1>4. \A u \in Tasks : counter' = None /\ pc'[u] = "seed" => Below(num[u])'
    BY <1>2, <1>3 DEF NumberInv, Below
  <1>5. \A u \in Tasks : Holds(u)' =>
          /\ num'[u] # 0
          /\ counter = None => num'[u] \in Named
          /\ counter # None => num'[u] \in Named \/ num'[u] =< counter
          /\ num'[u] \in tables => num'[u] \in Named
    BY <1>3, NumberTypes DEF NumberInv
  <1>6. \A u, w \in Tasks : u # w /\ Holds(u)' /\ Holds(w)' /\ num'[u] = num'[w] =>
                               num'[u] \in Named
    BY <1>3 DEF NumberInv
  <1> QED BY <1>2, <1>3, <1>4, <1>5, <1>6 DEF NumberInv, Below, Overwrites

LEMMA NumbersKept == ASSUME TypeOK, NumberInv, [Next]_vars PROVE NumberInv'
  <1>1. ASSUME NEW t \in Tasks, Step(t) \/ Raise(t) PROVE NumberInv'
    <2>1. CASE Seed(t) \/ ScanNumbers(t) \/ Incr(t) \/ SetConfig(t) \/ DelConfig(t)
      BY <2>1, NumbersSeed, NumbersScan, NumbersIncr, NumbersWritten, NumbersTakenBack
    <2>2. CASE CheckConfig(t) \/ NoCounter(t) \/ Recheck(t) \/ SetState(t) \/ DropTopic(t)
      <3>1. \/ Finish(t)
            \/ UNCHANGED num /\ \E place \in Places \ {"seed"} :
                  /\ Goto(t, place) /\ (place \in {"recheck", "setConfig"} => Holds(t))
                  /\ place = "setConfig" => Overwrites(t) = 0
        BY <2>2 DEF CheckConfig, NoCounter, Recheck, SetState, DropTopic, Taken, Settle, Holds,
                    Places, Overwrites
      <3>2. UNCHANGED <<config, counter, tables>>
        BY <2>2 DEF CheckConfig, NoCounter, Recheck, SetState, DropTopic, Taken, recordVars,
                    history
      <3>3. CASE Finish(t)
        BY <3>2, <3>3, NobodyGains, NumberTypes DEF Finish, Holds, TypeOK
      <3>4. CASE ~Finish(t)
        BY <3>1, <3>2, <3>4, NobodyGains, NumberTypes DEF Goto, Holds
      <3> QED BY <3>3, <3>4
    <2>3. CASE Provision(t) \/ MarkGet(t) \/ MarkSet(t) \/ DelState(t) \/ Raise(t)
      <3>1. \/ Finish(t)
            \/ UNCHANGED num /\ \E place \in {"delConfig", "mark", "markSet"} : Goto(t, place)
        BY <2>3 DEF Provision, Settle, MarkGet, MarkSet, DelState, Raise
      <3>2. UNCHANGED <<config, counter, tables>>
        BY <2>3 DEF Provision, MarkGet, MarkSet, DelState, Raise, recordVars, history
      <3>3. CASE Finish(t)
        BY <3>2, <3>3, NobodyGains, NumberTypes DEF Finish, Holds, TypeOK
      <3>4. CASE ~Finish(t)
        BY <3>1, <3>2, <3>4, NobodyGains, NumberTypes DEF Goto, Holds
      <3> QED BY <3>3, <3>4
    <2> QED BY <1>1, <2>1, <2>2, <2>3 DEF Step
  <1>2. ASSUME NEW t \in Tasks, NEW p \in Pipelines, CreateRequest(t, p) \/ DeleteRequest(t, p)
        PROVE  NumberInv'
    <2>1. CASE CreateRequest(t, p)
      BY <2>1, NumbersNamed
    <2>2. CASE DeleteRequest(t, p)
      BY <2>2, NobodyGains, NumberTypes DEF DeleteRequest, Request, recordVars, Holds, TypeOK
    <2> QED BY <1>2, <2>1, <2>2
  <1>3. ASSUME NEW r \in Replicas, Timeout(r) \/ Crash(r) PROVE NumberInv'
    <2>1. CASE Timeout(r)
      BY <2>1, NumbersTimeout
    <2>2. CASE Crash(r)
      BY <2>2, NobodyGains, NumberTypes DEF Crash, recordVars, history, Holds, TypeOK
    <2> QED BY <1>3, <2>1, <2>2
  <1>4. ASSUME NEW r \in Replicas, NEW p \in Pipelines, TakeEvent(r, p) \/ TakeListed(r, p)
        PROVE  NumberInv'
    <2>1. PICK t \in Tasks : Begin(t, p)
      BY <1>4, TasksHaveHosts DEF TakeEvent, TakeListed
    <2>2. UNCHANGED <<config, counter, tables>>
      BY <1>4 DEF TakeEvent, TakeListed, recordVars, history
    <2>3. \A u \in Tasks : pc'[u] = "check" \/ (pc'[u] = pc[u] /\ pid'[u] = pid[u])
      BY <2>1, NumberTypes DEF Begin, taskVars, TypeOK
    <2>4. UNCHANGED num
      BY <2>1 DEF Begin, taskVars
    <2> QED BY <2>2, <2>3, <2>4, NobodyGains DEF Holds
  <1>5. ASSUME NEW r \in Replicas,
               Boot(r) \/ ListFiles(r) \/ ObserverDies(r) \/ ObserverRestarts(r)
        PROVE  NumberInv'
    BY <1>5, NobodyGains
       DEF Boot, ListFiles, ObserverDies, ObserverRestarts, recordVars, taskVars, history, Holds
  <1>6. ASSUME NEW p \in Pipelines, Drop(p) PROVE NumberInv'
    BY <1>6, NobodyGains DEF Drop, recordVars, taskVars, history, Holds
  <1>7. CASE UNCHANGED vars
    BY <1>7, NobodyGains DEF vars, recordVars, taskVars, history, Holds
  <1> QED BY <1>1, <1>2, <1>3, <1>4, <1>5, <1>6, <1>7 DEF Next

LEMMA NumbersInit == ASSUME Init PROVE NumberInv
  <1>1. counter = None /\ \A t \in Tasks : pc[t] = "idle"
    BY DEF Init
  <1>2. 0 \notin tables /\ \A n \in tables : \E p \in Pipelines : config[p] = n
    BY DEF Init
  <1> QED BY <1>1, <1>2 DEF NumberInv, Holds

\* No number from the counter was ever another config's, but one that was deleted
\* before there was a counter: the seed is at least every number that is left then,
\* SET NX keeps the first seed of several, INCR hands each number out once, and a
\* number is written to a config only by the task it was handed to.
THEOREM TablesAreOwn == Spec => []CounterGivesOwnTable
  <1>1. NumberInv => CounterGivesOwnTable
    BY DEF NumberInv, Holds, CounterGivesOwnTable
  <1>2. Init => TypeOK /\ NumberInv
    BY InitTypes, NumbersInit
  <1>3. TypeOK /\ NumberInv /\ [Next]_vars => (TypeOK /\ NumberInv)'
    BY StaysTyped, NumbersKept
  <1> QED BY <1>1, <1>2, <1>3, PTL DEF Spec
=============================================================================
