--------------------------- MODULE ConsumerPoolProofs ---------------------------
(* Proofs about ConsumerPool for every value of its constants.                  *)
EXTENDS ConsumerPool, TLAPS

(* The inductive invariant behind the delivery properties.                    *)

Busy(c) == pc[c] \notin {"down", "idle"}
Writing(c) == pc[c] \in {"table", "insert", "isolate", "deadLetter"}

\* A replica joins a generation only with the lock free, so a busy one has not
\* joined, and is not waiting for an assignment either.
LockOK(c) ==
    /\ c \in joined => /\ c \in members /\ phase = "rebalancing" /\ ~Busy(c)
                       /\ revoking[c] \/ pc[c] = "down"
    /\ Busy(c) /\ c \in members /\ revoking[c] => phase = "rebalancing"
    /\ pc[c] = "down" => ~revoking[c]

\* What _insert_then_commit holds of the batch at each of its awaits.
BatchOK(c) ==
    /\ todo[c] \subseteq assigned[c] /\ offsets[c] \subseteq assigned[c] \ todo[c]
    /\ ~Busy(c) \/ pc[c] = "commit" => todo[c] = {}
    /\ ~Busy(c) => offsets[c] = {}
    /\ Writing(c) => cur[c] \in todo[c]
    /\ pc[c] = "deadLetter" => keep[c] = {}
    /\ pc[c] \in {"insert", "isolate", "deadLetter"} =>
          \A o \in Batch(c, cur[c]) : o \in keep[c] \cup dead[c] \/ rows[cur[c]][o] > 0

\* Every offset below a replica's position is dealt with, or is in the part of
\* its batch still to be written.
ReadOK(c) ==
    \A t \in Topics :
        /\ fetched[c][t] =< position[c][t] /\ position[c][t] =< Len(log[t])
        /\ t \in assigned[c] =>
              \A o \in 0 .. position[c][t] - 1 :
                  Dealt(t, o) \/ (t \in todo[c] /\ o \in Batch(c, t))

CommittedInRange == \A t \in Topics : committed[t] =< Len(log[t])

DeliveryInv ==
    /\ TypeOK
    /\ \A c \in Consumers : LockOK(c) /\ BatchOK(c) /\ ReadOK(c)
    /\ CommittedInRange
    /\ NothingLostSilently

\* Nothing is ever set aside when ClickHouse never goes away and no topic comes
\* before its config.
CleanInv ==
    /\ ch = "up" /\ topics \subseteq registered
    /\ \A t \in Topics : owner[t] # None => t \in topics
    /\ \A c \in Consumers : assigned[c] \subseteq topics
    /\ \A t \in Topics : setAside[t] = {}

-----------------------------------------------------------------------------
USE ConstantsAssumption DEF RecordKinds

(* Types.                                                                       *)

LEMMA InitTypeOK == Init => TypeOK
  BY DEF Init, TypeOK, Offsets, NoOffsets, Stages, Disturbances

LEMMA SpendType ==
  ASSUME TypeOK, NEW what \in Disturbances, NEW max, Spend(what, max)
  PROVE  used' \in [Disturbances -> Nat]
  BY DEF TypeOK, Disturbances, Spend

LEMMA NewTopicType == ASSUME TypeOK, NEW t \in Topics, NewTopic(t) PROVE TypeOK'
  BY DEF TypeOK, Stages, Disturbances, NewTopic, kafkaVars, groupVars, readVars, batchVars, memoVars

LEMMA RegisterType == ASSUME TypeOK, NEW t \in Topics, Register(t) PROVE TypeOK'
  BY DEF TypeOK, Stages, Disturbances, Register, kafkaVars, groupVars, readVars, batchVars, memoVars

LEMMA ProduceType == ASSUME TypeOK, NEW t \in Topics, Produce(t) PROVE TypeOK'
  <1>1. log' \in [Topics -> Seq(RecordKinds)] /\ \A u \in Topics : Len(log'[u]) =< MaxLog
    BY DEF TypeOK, Produce
  <1> QED BY <1>1 DEF TypeOK, Produce, groupVars, readVars, batchVars, memoVars

LEMMA ClickHouseDownType == ASSUME TypeOK, ClickHouseDown PROVE TypeOK'
  <1>1. used' \in [Disturbances -> Nat] /\ ch' \in {"up", "down"}
    BY DEF TypeOK, Disturbances, ClickHouseDown, Spend
  <1> QED BY <1>1 DEF TypeOK, ClickHouseDown, kafkaVars, readVars, batchVars, memoVars

LEMMA ClickHouseUpType == ASSUME TypeOK, ClickHouseUp PROVE TypeOK'
  BY DEF TypeOK, Stages, Disturbances, ClickHouseUp, kafkaVars, groupVars, readVars, batchVars, memoVars

LEMMA CompleteRebalanceType == ASSUME TypeOK, CompleteRebalance PROVE TypeOK'
  BY DEF TypeOK, Stages, Disturbances, CompleteRebalance, kafkaVars, groupVars, readVars, batchVars, memoVars

LEMMA StartType == ASSUME TypeOK, NEW c \in Consumers, Start(c) PROVE TypeOK'
  BY DEF TypeOK, Stages, Disturbances, Start, Enter, kafkaVars, groupVars, readVars, batchVars, memoVars

LEMMA BeginRevokeType == ASSUME TypeOK, NEW c \in Consumers, BeginRevoke(c) PROVE TypeOK'
  BY DEF TypeOK, Stages, Disturbances, BeginRevoke, kafkaVars, groupVars, readVars, batchVars, memoVars

LEMMA JoinType == ASSUME TypeOK, NEW c \in Consumers, Join(c) PROVE TypeOK'
  BY DEF TypeOK, Stages, Disturbances, Join, LockFree, Enter, kafkaVars, groupVars, readVars, batchVars, memoVars

LEMMA AssignType == ASSUME TypeOK, NEW c \in Consumers, Assign(c) PROVE TypeOK'
  BY DEF TypeOK, Stages, Disturbances, Assign, StartOffsets, kafkaVars, groupVars, readVars, batchVars, memoVars

LEMMA KickType == ASSUME TypeOK, NEW c \in Consumers, Kick(c) PROVE TypeOK'
  <1>1. used' \in [Disturbances -> Nat]
    BY SpendType DEF Kick, Disturbances
  <1> QED BY <1>1 DEF TypeOK, Kick, Leave, readVars, batchVars, memoVars

LEMMA ExpireDeadType == ASSUME TypeOK, NEW c \in Consumers, ExpireDead(c) PROVE TypeOK'
  BY DEF TypeOK, Stages, Disturbances, ExpireDead, Leave, kafkaVars, groupVars, readVars, batchVars, memoVars

LEMMA CrashType == ASSUME TypeOK, NEW c \in Consumers, Crash(c) PROVE TypeOK'
  <1>1. used' \in [Disturbances -> Nat]
    BY SpendType DEF Crash, Disturbances
  <1> QED BY <1>1 DEF TypeOK, Stages, Crash, Forget, NoOffsets, kafkaVars

LEMMA StopType == ASSUME TypeOK, NEW c \in Consumers, Stop(c) PROVE TypeOK'
  <1>1. used' \in [Disturbances -> Nat]
    BY SpendType DEF Stop, Disturbances
  <1> QED BY <1>1 DEF TypeOK, Stages, Stop, Forget, NoOffsets, Leave

LEMMA EndOfBatchType == ASSUME TypeOK, NEW c \in Consumers, EndOfBatch(c) PROVE TypeOK'
  BY DEF TypeOK, Stages, Disturbances, EndOfBatch, kafkaVars, groupVars, readVars, batchVars, memoVars

LEMMA BatchInOffsets ==
  ASSUME TypeOK, NEW c \in Consumers, NEW t \in Topics
  PROVE  Batch(c, t) \subseteq Offsets
  <1>1. fetched[c][t] \in 0 .. MaxLog /\ position[c][t] \in 0 .. MaxLog
    BY DEF TypeOK
  <1> QED BY <1>1 DEF Batch, Offsets

LEMMA CountInType ==
  ASSUME NEW table \in [Topics -> [Offsets -> Nat]], NEW t \in Topics,
         NEW S \in SUBSET Offsets, NEW n \in Nat
  PROVE  CountIn(table, t, S, n) \in [Topics -> [Offsets -> Nat]]
  <1>1. [o \in Offsets |-> IF o \in S THEN table[t][o] + n ELSE table[t][o]]
           \in [Offsets -> Nat]
    OBVIOUS
  <1> QED BY <1>1 DEF CountIn

LEMMA ExecuteType ==
  ASSUME TypeOK, NEW accepted, NEW n \in Nat, NEW ok, Execute(accepted, n, ok)
  PROVE  used' \in [Disturbances -> Nat]
  <1>0. used \in [Disturbances -> Nat] /\ "lost" \in Disturbances
    BY DEF TypeOK, Disturbances
  <1>1. ASSUME NEW k \in Nat, Lose(k) PROVE used' \in [Disturbances -> Nat]
    <2>1. used["lost"] + k \in Nat
      BY <1>0
    <2>2. used' = [used EXCEPT !["lost"] = used["lost"] + k]
      BY <1>1 DEF Lose
    <2> QED BY <1>0, <2>1, <2>2
  <1> QED BY <1>0, <1>1 DEF Execute

LEMMA MovePastType ==
  ASSUME TypeOK, NEW c \in Consumers, NEW T, MovePast(c, T)
  PROVE  setAside' \in [Topics -> SUBSET Offsets]
  BY BatchInOffsets DEF TypeOK, MovePast

\* The variables a write's end changes.
LoopTypeOK ==
    /\ pc \in [Consumers -> Stages]
    /\ todo \in [Consumers -> SUBSET Topics]
    /\ cur \in [Consumers -> Topics \cup {None}]
    /\ keep \in [Consumers -> SUBSET Offsets]
    /\ dead \in [Consumers -> SUBSET Offsets]
    /\ offsets \in [Consumers -> SUBSET Topics]
    /\ setAside \in [Topics -> SUBSET Offsets]

LEMMA WriteDoneType ==
  ASSUME TypeOK, NEW c \in Consumers, cur[c] \in Topics, WriteDone(c)
  PROVE  LoopTypeOK'
  BY DEF TypeOK, LoopTypeOK, WriteDone, Stages

LEMMA WriteFailedType ==
  ASSUME TypeOK, NEW c \in Consumers, WriteFailed(c)
  PROVE  LoopTypeOK'
  <1>1. setAside' \in [Topics -> SUBSET Offsets]
    BY MovePastType DEF WriteFailed
  <1> QED BY <1>1 DEF TypeOK, LoopTypeOK, WriteFailed, Stages

LEMMA PollType == ASSUME TypeOK, NEW c \in Consumers, Poll(c) PROVE TypeOK'
  <1> PICK upTo \in [assigned[c] -> 0 .. MaxLog] :
        /\ fetched' = [fetched EXCEPT ![c] = position[c]]
        /\ position' = [position EXCEPT ![c] =
              [t \in Topics |-> IF t \in assigned[c] THEN upTo[t] ELSE position[c][t]]]
        /\ todo' = [todo EXCEPT ![c] = {t \in assigned[c] : upTo[t] > position[c][t]}]
    BY DEF Poll
  <1>1. position[c] \in [Topics -> 0 .. MaxLog] /\ assigned[c] \subseteq Topics
    BY DEF TypeOK
  <1>2. position' \in [Consumers -> [Topics -> 0 .. MaxLog]]
    BY <1>1 DEF TypeOK
  <1>3. fetched' \in [Consumers -> [Topics -> 0 .. MaxLog]]
    BY <1>1 DEF TypeOK
  <1>4. todo' \in [Consumers -> SUBSET Topics]
    BY <1>1 DEF TypeOK
  <1>5. pc' \in [Consumers -> Stages]
    BY DEF TypeOK, Poll, Stages
  <1> QED BY <1>2, <1>3, <1>4, <1>5 DEF TypeOK, Poll, kafkaVars, memoVars

LEMMA RouteTopicType ==
  ASSUME TypeOK, NEW c \in Consumers, NEW t \in Topics, RouteTopic(c, t) PROVE TypeOK'
  <1>1. CASE t \in cache[c] \cup registered
    <2>1. /\ cache' = [cache EXCEPT ![c] = @ \cup {t}]
          /\ cur' = [cur EXCEPT ![c] = t]
          /\ pc' = [pc EXCEPT ![c] = "table"]
          /\ UNCHANGED <<todo, setAside>>
      BY <1>1 DEF RouteTopic
    <2>2. /\ cache' \in [Consumers -> SUBSET Topics]
          /\ cur' \in [Consumers -> Topics \cup {None}]
          /\ pc' \in [Consumers -> Stages]
      BY <2>1 DEF TypeOK, Stages
    <2> QED BY <2>1, <2>2 DEF RouteTopic, TypeOK, kafkaVars, readVars
  <1>2. CASE t \notin cache[c] \cup registered
    <2>1. /\ todo' = [todo EXCEPT ![c] = @ \ {t}]
          /\ MovePast(c, {t})
          /\ UNCHANGED <<cache, cur, pc>>
      BY <1>2 DEF RouteTopic
    <2>2. todo' \in [Consumers -> SUBSET Topics]
      BY <2>1 DEF TypeOK
    <2>3. setAside' \in [Topics -> SUBSET Offsets]
      BY <2>1, MovePastType
    <2> QED BY <2>1, <2>2, <2>3 DEF RouteTopic, TypeOK, kafkaVars, readVars
  <1> QED BY <1>1, <1>2

\* What PrepareTable comes to: the records are mapped, or the write raises.
LEMMA TableOutcome ==
  ASSUME NEW c \in Consumers, PrepareTable(c)
  PROVE  /\ pc[c] = "table"
         /\ UNCHANGED <<kafkaVars, registered, ch, rows, dlq, revoking, readVars, cache>>
         /\ known' = known \/ known' = [known EXCEPT ![c] = @ \cup {cur[c]}]
         /\ UNCHANGED used \/ Spend("outage", MaxOutages)
         /\ \/ WriteFailed(c)
            \/ OfKind(c, "huge") = {} /\ Mapped(c) /\ UNCHANGED used
  BY Zenon DEF PrepareTable, TableFails, MapRecords

LEMMA PrepareTableType ==
  ASSUME TypeOK, NEW c \in Consumers, cur[c] \in Topics, PrepareTable(c) PROVE TypeOK'
  <1>1. LoopTypeOK'
    <2>1. CASE WriteFailed(c)
      BY <2>1, WriteFailedType
    <2>2. CASE Mapped(c)
      <3> DEFINE unmappable == OfKind(c, "unmappable")
      <3>1. /\ dead' = [dead EXCEPT ![c] = unmappable]
            /\ keep' = [keep EXCEPT ![c] = Batch(c, cur[c]) \ unmappable]
            /\ pc' = [pc EXCEPT ![c] = IF Batch(c, cur[c]) \subseteq unmappable
                                       THEN "deadLetter" ELSE "insert"]
            /\ UNCHANGED <<todo, cur, offsets, setAside>>
        BY <2>2 DEF Mapped
      <3>2. Batch(c, cur[c]) \subseteq Offsets /\ unmappable \in SUBSET Offsets
        BY BatchInOffsets DEF OfKind
      <3> HIDE DEF unmappable
      <3> QED BY <3>1, <3>2 DEF TypeOK, LoopTypeOK, Stages
    <2> QED BY <2>1, <2>2, TableOutcome
  <1>2. used' \in [Disturbances -> Nat]
    BY TableOutcome, SpendType DEF TypeOK, Disturbances
  <1>3. known' \in [Consumers -> SUBSET Topics]
    <2>1. known' = known \/ known' = [known EXCEPT ![c] = @ \cup {cur[c]}]
      BY TableOutcome
    <2>2. known \in [Consumers -> SUBSET Topics]
      BY DEF TypeOK
    <2> QED BY <2>1, <2>2
  <1>4. UNCHANGED <<kafkaVars, registered, ch, rows, dlq, revoking, readVars, cache>>
    BY TableOutcome
  <1> QED BY <1>1, <1>2, <1>3, <1>4 DEF TypeOK, LoopTypeOK, kafkaVars, readVars

LEMMA InsertBatchType ==
  ASSUME TypeOK, NEW c \in Consumers, cur[c] \in Topics, InsertBatch(c) PROVE TypeOK'
  <1> PICK n \in 0 .. MaxLostReplies + 1, ok \in BOOLEAN :
        /\ Execute(Accepted(cur[c], keep[c]), n, ok)
        /\ rows' = CountIn(rows, cur[c], keep[c], n)
        /\ \/ ok /\ dead[c] = {} /\ WriteDone(c)
           \/ /\ ok /\ dead[c] # {}
              /\ keep' = [keep EXCEPT ![c] = {}]
              /\ pc' = [pc EXCEPT ![c] = "deadLetter"]
              /\ UNCHANGED <<todo, cur, dead, offsets, setAside>>
           \/ /\ ~ok
              /\ pc' = [pc EXCEPT ![c] = "isolate"]
              /\ UNCHANGED <<batchVars, setAside>>
    BY DEF InsertBatch
  <1>0. n \in Nat
    OBVIOUS
  <1>1. keep[c] \in SUBSET Offsets
    BY DEF TypeOK
  <1>2. used' \in [Disturbances -> Nat]
    BY ExecuteType
  <1>3. rows' \in [Topics -> [Offsets -> Nat]]
    BY <1>0, <1>1, CountInType DEF TypeOK
  <1>4. LoopTypeOK'
    BY WriteDoneType DEF TypeOK, LoopTypeOK, batchVars, Stages
  <1> QED BY <1>2, <1>3, <1>4 DEF TypeOK, LoopTypeOK, InsertBatch, kafkaVars, readVars, memoVars

LEMMA IsolateRecordType ==
  ASSUME TypeOK, NEW c \in Consumers, NEW o \in Offsets, cur[c] \in Topics,
         IsolateRecord(c, o)
  PROVE  TypeOK'
  <1> PICK n \in 0 .. MaxLostReplies + 1, ok \in BOOLEAN :
        LET failed == IF ok THEN dead[c] ELSE dead[c] \cup {o}
        IN  /\ Execute(Accepted(cur[c], {o}), n, ok)
            /\ rows' = CountIn(rows, cur[c], {o}, n)
            /\ \/ keep[c] = {o} /\ failed = {} /\ WriteDone(c)
               \/ /\ keep[c] # {o} \/ failed # {}
                  /\ keep' = [keep EXCEPT ![c] = @ \ {o}]
                  /\ dead' = [dead EXCEPT ![c] = failed]
                  /\ pc' = [pc EXCEPT ![c] = IF keep[c] = {o} THEN "deadLetter" ELSE @]
                  /\ UNCHANGED <<todo, cur, offsets, setAside>>
    BY DEF IsolateRecord
  <1>0. n \in Nat /\ {o} \in SUBSET Offsets
    BY DEF TypeOK, Offsets
  <1>1. used' \in [Disturbances -> Nat]
    BY ExecuteType
  <1>2. rows' \in [Topics -> [Offsets -> Nat]]
    BY <1>0, CountInType DEF TypeOK
  <1>3. CASE WriteDone(c)
    <2>1. LoopTypeOK'
      BY <1>3, WriteDoneType
    <2> QED BY <1>1, <1>2, <2>1 DEF TypeOK, LoopTypeOK, IsolateRecord, kafkaVars, readVars,
                                    memoVars
  <1>4. CASE ~WriteDone(c)
    <2> DEFINE failed == IF ok THEN dead[c] ELSE dead[c] \cup {o}
    <2>1. /\ keep' = [keep EXCEPT ![c] = @ \ {o}]
          /\ dead' = [dead EXCEPT ![c] = failed]
          /\ pc' = [pc EXCEPT ![c] = IF keep[c] = {o} THEN "deadLetter" ELSE @]
          /\ UNCHANGED <<todo, cur, offsets, setAside>>
      BY <1>4
    <2>2. failed \in SUBSET Offsets
      BY DEF TypeOK
    <2> HIDE DEF failed
    <2>3. LoopTypeOK'
      BY <2>1, <2>2 DEF TypeOK, LoopTypeOK, Stages
    <2> QED BY <1>1, <1>2, <2>3 DEF TypeOK, LoopTypeOK, IsolateRecord, kafkaVars, readVars,
                                    memoVars
  <1> QED BY <1>3, <1>4

LEMMA DeadLetterType ==
  ASSUME TypeOK, NEW c \in Consumers, cur[c] \in Topics, DeadLetter(c) PROVE TypeOK'
  <1> PICK n \in 0 .. MaxLostReplies + 1, ok \in BOOLEAN :
        /\ Execute(TRUE, n, ok)
        /\ dlq' = CountIn(dlq, cur[c], dead[c], n)
        /\ IF ok THEN WriteDone(c) ELSE WriteFailed(c)
    BY DEF DeadLetter
  <1>0. n \in Nat /\ dead[c] \in SUBSET Offsets
    BY DEF TypeOK, Offsets
  <1>1. used' \in [Disturbances -> Nat]
    BY <1>0, ExecuteType
  <1>2. dlq' \in [Topics -> [Offsets -> Nat]]
    BY <1>0, CountInType DEF TypeOK
  <1>3. LoopTypeOK'
    BY WriteDoneType, WriteFailedType
  <1> QED BY <1>1, <1>2, <1>3 DEF TypeOK, LoopTypeOK, DeadLetter, kafkaVars, readVars, memoVars

LEMMA CommitType == ASSUME TypeOK, NEW c \in Consumers, Commit(c) PROVE TypeOK'
  <1>1. committed' \in [Topics -> 0 .. MaxLog]
    BY DEF TypeOK, Commit
  <1>2. /\ offsets' \in [Consumers -> SUBSET Topics]
        /\ pc' \in [Consumers -> Stages]
    BY DEF TypeOK, Commit, Stages
  <1> QED BY <1>1, <1>2 DEF TypeOK, Commit, groupVars, readVars, memoVars

-----------------------------------------------------------------------------
(* The lock keeps a busy replica out of every new generation.                 *)

LockInv == \A c \in Consumers : LockOK(c)

LEMMA LockQuiet ==
  ASSUME TypeOK, LockInv, NEW c \in Consumers, Busy(c), pc'[c] # "down",
         \A d \in Consumers : d # c => pc'[d] = pc[d],
         UNCHANGED <<members, joined, phase, revoking>>
  PROVE  LockInv'
  BY DEF LockInv, LockOK, Busy, TypeOK

LEMMA LockStep == ASSUME TypeOK, LockInv, Next PROVE LockInv'
  <1> USE DEF kafkaVars, groupVars, readVars, batchVars, memoVars
  <1>1. ASSUME NEW t \in Topics, NewTopic(t) \/ Register(t) \/ Produce(t) PROVE LockInv'
    BY <1>1 DEF NewTopic, Register, Produce, LockInv, LockOK, Busy
  <1>2. CASE ClickHouseDown \/ ClickHouseUp
    BY <1>2 DEF ClickHouseDown, ClickHouseUp, LockInv, LockOK, Busy
  <1>3. CASE CompleteRebalance
    BY <1>3 DEF CompleteRebalance, LockInv, LockOK, Busy
  <1>4. ASSUME NEW c \in Consumers, Start(c) \/ Join(c) PROVE LockInv'
    BY <1>4 DEF Start, Join, Enter, LockFree, LockInv, LockOK, Busy, TypeOK
  <1>5. ASSUME NEW c \in Consumers, BeginRevoke(c) \/ Assign(c) PROVE LockInv'
    BY <1>5 DEF BeginRevoke, Assign, LockInv, LockOK, Busy, TypeOK
  <1>6. ASSUME NEW c \in Consumers, Kick(c) \/ ExpireDead(c) PROVE LockInv'
    BY <1>6 DEF Kick, ExpireDead, Leave, LockInv, LockOK, Busy, TypeOK
  <1>7. ASSUME NEW c \in Consumers, Crash(c) \/ Stop(c) PROVE LockInv'
    <2>1. /\ pc' = [pc EXCEPT ![c] = "down"] /\ pc \in [Consumers -> Stages]
          /\ revoking' = [revoking EXCEPT ![c] = FALSE] /\ revoking \in [Consumers -> BOOLEAN]
      BY <1>7 DEF Crash, Stop, Forget, TypeOK
    <2>2. CASE UNCHANGED <<members, joined, phase>>
      BY <2>1, <2>2 DEF LockInv, LockOK, Busy
    <2>3. CASE Leave(c)
      BY <2>1, <2>3 DEF Leave, LockInv, LockOK, Busy
    <2> QED BY <1>7, <2>2, <2>3 DEF Crash, Stop
  <1>8. ASSUME NEW c \in Consumers, Poll(c) PROVE LockInv'
    BY <1>8 DEF Poll, LockInv, LockOK, Busy, TypeOK
  <1>9. ASSUME NEW c \in Consumers, NEW t \in Topics, RouteTopic(c, t) PROVE LockInv'
    BY <1>9, LockQuiet DEF RouteTopic, Busy, TypeOK
  <1>10. ASSUME NEW c \in Consumers, PrepareTable(c) PROVE LockInv'
    <2>1. Busy(c) /\ UNCHANGED <<members, joined, phase, revoking>>
      BY <1>10, TableOutcome DEF Busy
    <2>2. \E stage \in {"deadLetter", "insert", "route"} : pc' = [pc EXCEPT ![c] = stage]
      BY <1>10, TableOutcome DEF WriteFailed, Mapped
    <2>3. pc'[c] # "down" /\ \A d \in Consumers : d # c => pc'[d] = pc[d]
      BY <2>2 DEF TypeOK
    <2> QED BY <2>1, <2>3, LockQuiet
  <1>11. ASSUME NEW c \in Consumers, InsertBatch(c) PROVE LockInv'
    BY <1>11, LockQuiet DEF InsertBatch, WriteDone, Busy, TypeOK
  <1>12. ASSUME NEW c \in Consumers, NEW o \in Offsets, IsolateRecord(c, o) PROVE LockInv'
    BY <1>12, LockQuiet DEF IsolateRecord, WriteDone, Busy, TypeOK
  <1>13. ASSUME NEW c \in Consumers, DeadLetter(c) PROVE LockInv'
    BY <1>13, LockQuiet DEF DeadLetter, WriteDone, WriteFailed, Busy, TypeOK
  <1>14. ASSUME NEW c \in Consumers, EndOfBatch(c) \/ Commit(c) PROVE LockInv'
    BY <1>14, LockQuiet DEF EndOfBatch, Commit, Busy, TypeOK
  <1> QED
    BY <1>1, <1>2, <1>3, <1>4, <1>5, <1>6, <1>7, <1>8, <1>9, <1>10, <1>11, <1>12, <1>13,
       <1>14 DEF Next, Process

-----------------------------------------------------------------------------
(* What is dealt with stays so; a batch is written before it is committed.      *)

ReplicaInv == \A c \in Consumers : BatchOK(c) /\ ReadOK(c)

\* No step takes a row, a dead letter or a set-aside offset back.
Grows ==
    \A t \in Topics, o \in Offsets :
        /\ rows[t][o] > 0 => rows'[t][o] > 0
        /\ Dealt(t, o) => Dealt(t, o)'

LEMMA CountInGrows ==
  ASSUME NEW table \in [Topics -> [Offsets -> Nat]], NEW u \in Topics,
         NEW S \in SUBSET Offsets, NEW n \in Nat, NEW t \in Topics, NEW o \in Offsets
  PROVE  /\ CountIn(table, u, S, n)[t][o] \in Nat
         /\ table[t][o] =< CountIn(table, u, S, n)[t][o]
         /\ t = u /\ o \in S /\ n > 0 => CountIn(table, u, S, n)[t][o] > 0
  BY DEF CountIn

\* A replica whose own state a step leaves alone keeps its invariant.
LEMMA OthersBatchOK ==
  ASSUME TypeOK, NEW d \in Consumers, BatchOK(d), Grows,
         pc'[d] = pc[d], assigned'[d] = assigned[d], position'[d] = position[d],
         fetched'[d] = fetched[d], todo'[d] = todo[d], cur'[d] = cur[d],
         keep'[d] = keep[d], dead'[d] = dead[d], offsets'[d] = offsets[d]
  PROVE  BatchOK(d)'
  <1>1. Writing(d) => cur[d] \in Topics
    BY DEF BatchOK, TypeOK
  <1>2. \A t \in Topics : Batch(d, t)' = Batch(d, t) /\ Batch(d, t) \subseteq Offsets
    BY BatchInOffsets DEF Batch
  <1> QED BY <1>1, <1>2 DEF BatchOK, Busy, Writing, Grows

\* So does, for what it has read, any replica that a step makes drop from todo only
\* topics that are dealt with.
LEMMA DealtReadOK ==
  ASSUME TypeOK, NEW d \in Consumers, ReadOK(d), Grows,
         \A t \in Topics : Len(log[t]) =< Len(log'[t]),
         log' \in [Topics -> Seq(RecordKinds)],
         assigned'[d] = assigned[d], position'[d] = position[d], fetched'[d] = fetched[d],
         \A t \in todo[d] \ todo'[d] : \A o \in Batch(d, t) : Dealt(t, o)'
  PROVE  ReadOK(d)'
  <1>1. SUFFICES ASSUME NEW t \in Topics
                 PROVE  /\ fetched[d][t] =< position[d][t] /\ position[d][t] =< Len(log'[t])
                        /\ t \in assigned[d] =>
                              \A o \in 0 .. position[d][t] - 1 :
                                  Dealt(t, o)' \/ (t \in todo'[d] /\ o \in Batch(d, t)')
    BY DEF ReadOK
  <1>2. /\ position[d][t] \in 0 .. MaxLog /\ Len(log[t]) \in Nat /\ Len(log'[t]) \in Nat
        /\ fetched[d][t] \in Nat
    BY DEF TypeOK
  <1>3. fetched[d][t] =< position[d][t] /\ position[d][t] =< Len(log'[t])
    BY <1>2 DEF ReadOK
  <1>4. ASSUME t \in assigned[d], NEW o \in 0 .. position[d][t] - 1
        PROVE  Dealt(t, o)' \/ (t \in todo'[d] /\ o \in Batch(d, t)')
    <2>1. Dealt(t, o) \/ (t \in todo[d] /\ o \in Batch(d, t))
      BY <1>4 DEF ReadOK
    <2>2. o \in Offsets
      BY <1>2 DEF Offsets
    <2>3. Batch(d, t)' = Batch(d, t)
      BY DEF Batch
    <2> QED BY <2>1, <2>2, <2>3 DEF Grows
  <1> QED BY <1>3, <1>4

\* A step that leaves the replicas and ClickHouse alone.
LEMMA FrameReplicaInv ==
  ASSUME TypeOK, ReplicaInv, UNCHANGED <<log, rows, dlq, setAside, pc, readVars, batchVars>>
  PROVE  ReplicaInv'
  <1>1. Grows
    BY DEF Grows, Dealt, Handled
  <1>2. log' \in [Topics -> Seq(RecordKinds)] /\ \A t \in Topics : Len(log[t]) =< Len(log'[t])
    BY DEF TypeOK
  <1> QED BY <1>1, <1>2, OthersBatchOK, DealtReadOK DEF ReplicaInv, readVars, batchVars

LEMMA ActingReplica ==
  ASSUME TypeOK, ReplicaInv, NEW c \in Consumers, Grows, UNCHANGED <<log, readVars>>,
         \A d \in Consumers \ {c} :
            /\ pc'[d] = pc[d] /\ todo'[d] = todo[d] /\ cur'[d] = cur[d]
            /\ keep'[d] = keep[d] /\ dead'[d] = dead[d] /\ offsets'[d] = offsets[d],
         \A t \in todo[c] \ todo'[c] : \A o \in Batch(c, t) : Dealt(t, o)',
         BatchOK(c)'
  PROVE  ReplicaInv'
  <1>1. log' \in [Topics -> Seq(RecordKinds)] /\ \A t \in Topics : Len(log[t]) =< Len(log'[t])
    BY DEF TypeOK
  <1>2. \A d \in Consumers : ReadOK(d)'
    BY <1>1, DealtReadOK DEF ReplicaInv, readVars
  <1>3. \A d \in Consumers \ {c} : BatchOK(d)'
    BY OthersBatchOK DEF ReplicaInv, readVars
  <1> QED BY <1>2, <1>3 DEF ReplicaInv

LEMMA MovePastGrows ==
  ASSUME TypeOK, NEW c \in Consumers, NEW T \in SUBSET Topics, MovePast(c, T),
         UNCHANGED <<rows, dlq>>
  PROVE  Grows /\ \A t \in T : \A o \in Batch(c, t) : Dealt(t, o)'
  <1>1. \A t \in Topics : setAside[t] \subseteq setAside'[t]
    BY DEF TypeOK, MovePast
  <1>2. \A t \in T : Batch(c, t) \subseteq setAside'[t]
    BY DEF TypeOK, MovePast
  <1> QED BY <1>1, <1>2 DEF Grows, Dealt, Handled

\* A write that returned: the whole batch of its topic is dealt with.
LEMMA WriteDoneStep ==
  ASSUME TypeOK, ReplicaInv, NEW c \in Consumers, NEW u, u = cur[c], Writing(c), WriteDone(c), Grows,
         UNCHANGED <<log, readVars>>,
         \A o \in Batch(c, u) : Dealt(u, o)'
  PROVE  ReplicaInv'
  <1>1. cur[c] \in todo[c] /\ todo[c] \subseteq assigned[c] /\ offsets[c] \subseteq assigned[c]
    BY DEF ReplicaInv, BatchOK
  <1>2. /\ pc'[c] = "route" /\ todo'[c] = todo[c] \ {cur[c]}
        /\ offsets'[c] = offsets[c] \cup {cur[c]} /\ assigned' = assigned
    BY DEF WriteDone, TypeOK, readVars
  <1>3. BatchOK(c)'
    BY <1>1, <1>2 DEF ReplicaInv, BatchOK, Busy, Writing
  <1>4. \A d \in Consumers \ {c} :
            /\ pc'[d] = pc[d] /\ todo'[d] = todo[d] /\ cur'[d] = cur[d]
            /\ keep'[d] = keep[d] /\ dead'[d] = dead[d] /\ offsets'[d] = offsets[d]
    BY DEF WriteDone, TypeOK
  <1>5. \A t \in todo[c] \ todo'[c] : t = u
    BY <1>2
  <1> QED BY <1>3, <1>4, <1>5, ActingReplica

\* A write that raised: what is left of the batch is set aside.
LEMMA WriteFailedStep ==
  ASSUME TypeOK, ReplicaInv, NEW c \in Consumers, WriteFailed(c), Grows,
         UNCHANGED <<log, readVars>>,
         \A t \in todo[c] : \A o \in Batch(c, t) : Dealt(t, o)'
  PROVE  ReplicaInv'
  <1>1. /\ pc'[c] = "route" /\ todo'[c] = {} /\ offsets' = offsets /\ assigned' = assigned
    BY DEF WriteFailed, TypeOK, readVars
  <1>2. BatchOK(c)'
    BY <1>1 DEF ReplicaInv, BatchOK, Busy, Writing
  <1>3. \A d \in Consumers \ {c} :
            /\ pc'[d] = pc[d] /\ todo'[d] = todo[d] /\ cur'[d] = cur[d]
            /\ keep'[d] = keep[d] /\ dead'[d] = dead[d] /\ offsets'[d] = offsets[d]
    BY DEF WriteFailed, TypeOK
  <1> QED BY <1>2, <1>3, ActingReplica

LEMMA RouteTopicStep ==
  ASSUME TypeOK, ReplicaInv, NEW c \in Consumers, NEW t \in Topics, RouteTopic(c, t)
  PROVE  ReplicaInv' /\ Grows
  <1>0. UNCHANGED <<log, rows, dlq, readVars, keep, dead, offsets>> /\ t \in todo[c]
    BY DEF RouteTopic, kafkaVars
  <1>1. CASE t \in cache[c] \cup registered
    <2>1. /\ cur' = [cur EXCEPT ![c] = t]
          /\ pc' = [pc EXCEPT ![c] = "table"]
          /\ UNCHANGED <<todo, setAside>>
      BY <1>1 DEF RouteTopic
    <2>2. Grows
      BY <1>0, <2>1 DEF Grows, Dealt, Handled
    <2>3. BatchOK(c)'
      BY <1>0, <2>1 DEF ReplicaInv, BatchOK, Busy, Writing, TypeOK, RouteTopic, readVars
    <2> QED BY <1>0, <2>1, <2>2, <2>3, ActingReplica DEF TypeOK
  <1>2. CASE t \notin cache[c] \cup registered
    <2>1. /\ todo' = [todo EXCEPT ![c] = @ \ {t}]
          /\ MovePast(c, {t})
          /\ UNCHANGED <<cur, pc>>
      BY <1>2 DEF RouteTopic
    <2>2. Grows /\ \A o \in Batch(c, t) : Dealt(t, o)'
      BY <1>0, <2>1, MovePastGrows
    <2>3. BatchOK(c)'
      BY <1>0, <2>1 DEF ReplicaInv, BatchOK, Busy, Writing, TypeOK, RouteTopic, readVars
    <2>4. todo[c] \ todo'[c] \subseteq {t}
      BY <2>1 DEF TypeOK
    <2> QED BY <1>0, <2>1, <2>2, <2>3, <2>4, ActingReplica DEF TypeOK
  <1> QED BY <1>1, <1>2

LEMMA EndOfBatchStep ==
  ASSUME TypeOK, ReplicaInv, NEW c \in Consumers, EndOfBatch(c) \/ Commit(c)
  PROVE  ReplicaInv' /\ Grows
  <1>1. UNCHANGED <<log, rows, dlq, setAside, readVars, todo, cur, keep, dead>>
    BY DEF EndOfBatch, Commit, kafkaVars, batchVars
  <1>2. Grows
    BY <1>1 DEF Grows, Dealt, Handled
  <1>3. BatchOK(c)'
    BY <1>1 DEF ReplicaInv, BatchOK, Busy, Writing, TypeOK, EndOfBatch, Commit, readVars,
                batchVars
  <1>4. \A d \in Consumers \ {c} : pc'[d] = pc[d] /\ offsets'[d] = offsets[d]
    BY DEF EndOfBatch, Commit, TypeOK, batchVars
  <1> QED BY <1>1, <1>2, <1>3, <1>4, ActingReplica

LEMMA PrepareTableStep ==
  ASSUME TypeOK, ReplicaInv, NEW c \in Consumers, PrepareTable(c)
  PROVE  ReplicaInv' /\ Grows
  <1>0. UNCHANGED <<log, rows, dlq, readVars>> /\ pc[c] = "table"
    BY TableOutcome DEF kafkaVars
  <1>1. CASE Mapped(c)
    <2> DEFINE unmappable == OfKind(c, "unmappable")
    <2>1. /\ dead' = [dead EXCEPT ![c] = unmappable]
          /\ keep' = [keep EXCEPT ![c] = Batch(c, cur[c]) \ unmappable]
          /\ pc' = [pc EXCEPT ![c] = IF Batch(c, cur[c]) \subseteq unmappable
                                     THEN "deadLetter" ELSE "insert"]
          /\ UNCHANGED <<todo, cur, offsets, setAside>>
      BY <1>1 DEF Mapped
    <2> HIDE DEF unmappable
    <2>2. Grows
      BY <1>0, <2>1 DEF Grows, Dealt, Handled
    <2>3. /\ dead'[c] = unmappable /\ keep'[c] = Batch(c, cur[c]) \ unmappable
          /\ pc'[c] = "deadLetter" => Batch(c, cur[c]) \subseteq unmappable
          /\ pc'[c] \in {"deadLetter", "insert"}
          /\ Batch(c, cur[c])' = Batch(c, cur[c])
      BY <1>0, <2>1 DEF TypeOK, Batch, readVars
    <2>4. BatchOK(c)'
      BY <1>0, <2>1, <2>3 DEF ReplicaInv, BatchOK, Busy, Writing, readVars
    <2>5. \A d \in Consumers \ {c} : pc'[d] = pc[d] /\ keep'[d] = keep[d] /\ dead'[d] = dead[d]
      BY <2>1 DEF TypeOK
    <2> QED BY <1>0, <2>1, <2>2, <2>4, <2>5, ActingReplica
  <1>2. CASE WriteFailed(c)
    <2>1. MovePast(c, todo[c])
      BY <1>2 DEF WriteFailed
    <2>2. Grows /\ \A t \in todo[c] : \A o \in Batch(c, t) : Dealt(t, o)'
      BY <1>0, <2>1, MovePastGrows DEF TypeOK
    <2> QED BY <1>0, <1>2, <2>2, WriteFailedStep
  <1> QED BY <1>1, <1>2, TableOutcome

\* An insert into a table that sets nothing aside.
LEMMA InsertGrows ==
  ASSUME TypeOK, NEW u \in Topics, NEW S \in SUBSET Offsets, NEW n \in Nat,
         rows' = CountIn(rows, u, S, n), UNCHANGED <<dlq, setAside>>
  PROVE  /\ Grows
         /\ \A o \in S : n > 0 => rows'[u][o] > 0
         /\ \A o \in Offsets : rows'[u][o] > 0 => Dealt(u, o)'
  <1>1. ASSUME NEW t \in Topics, NEW o \in Offsets
        PROVE  /\ rows[t][o] \in Nat /\ dlq[t][o] \in Nat /\ rows'[t][o] \in Nat
               /\ rows[t][o] =< rows'[t][o]
               /\ t = u /\ o \in S /\ n > 0 => rows'[t][o] > 0
    <2>1. rows \in [Topics -> [Offsets -> Nat]] /\ dlq \in [Topics -> [Offsets -> Nat]]
      BY DEF TypeOK
    <2> QED BY <2>1, CountInGrows
  <1>2. Grows
    BY <1>1 DEF Grows, Dealt, Handled
  <1> QED BY <1>1, <1>2 DEF Dealt, Handled

LEMMA InsertBatchStep ==
  ASSUME TypeOK, ReplicaInv, NEW c \in Consumers, InsertBatch(c)
  PROVE  ReplicaInv' /\ Grows
  <1> DEFINE Outcome(n, ok) ==
        \/ ok /\ dead[c] = {} /\ WriteDone(c)
        \/ /\ ok /\ dead[c] # {}
           /\ keep' = [keep EXCEPT ![c] = {}]
           /\ pc' = [pc EXCEPT ![c] = "deadLetter"]
           /\ UNCHANGED <<todo, cur, dead, offsets, setAside>>
        \/ /\ ~ok
           /\ pc' = [pc EXCEPT ![c] = "isolate"]
           /\ UNCHANGED <<batchVars, setAside>>
  <1>0. PICK n \in 0 .. MaxLostReplies + 1, ok \in BOOLEAN :
        /\ Execute(Accepted(cur[c], keep[c]), n, ok)
        /\ rows' = CountIn(rows, cur[c], keep[c], n)
        /\ Outcome(n, ok)
    BY DEF InsertBatch
  <1>1. /\ UNCHANGED <<log, dlq, readVars, setAside>> /\ pc[c] = "insert"
        /\ n \in Nat /\ (ok => n > 0) /\ keep[c] \in SUBSET Offsets
        /\ cur[c] \in todo[c] /\ cur[c] \in Topics
    BY <1>0 DEF InsertBatch, kafkaVars, WriteDone, Execute, ReplicaInv, BatchOK, Writing, TypeOK
  <1> PICK u \in Topics : u = cur[c]
    BY <1>1
  <1>2. /\ Grows /\ (ok => \A o \in keep[c] : rows'[u][o] > 0)
        /\ \A o \in Offsets : rows'[u][o] > 0 => Dealt(u, o)'
    BY <1>0, <1>1, InsertGrows
  <1>3. Batch(c, u) \subseteq Offsets /\ Batch(c, u)' = Batch(c, u)
    BY <1>1, BatchInOffsets DEF Batch, readVars
  <1>4. \A o \in Batch(c, u) : o \in keep[c] \cup dead[c] \/ rows'[u][o] > 0
    BY <1>1, <1>2, <1>3 DEF ReplicaInv, BatchOK, Grows
  <1>5. CASE ok /\ dead[c] = {} /\ WriteDone(c)
    <2>1. \A o \in Batch(c, u) : Dealt(u, o)'
      BY <1>2, <1>3, <1>4, <1>5
    <2> QED BY <1>1, <1>2, <1>5, <2>1, WriteDoneStep DEF Writing
  <1>6. CASE ok /\ dead[c] # {} /\ keep' = [keep EXCEPT ![c] = {}]
             /\ pc' = [pc EXCEPT ![c] = "deadLetter"]
             /\ UNCHANGED <<todo, cur, dead, offsets, setAside>>
    <2>1. pc'[c] = "deadLetter" /\ keep'[c] = {} /\ cur'[c] = u
      BY <1>6 DEF TypeOK
    <2>2. \A o \in Batch(c, u)' : o \in dead[c] \/ rows'[u][o] > 0
      BY <1>2, <1>3, <1>4, <1>6
    <2>3. BatchOK(c)'
      BY <1>1, <1>6, <2>1, <2>2 DEF ReplicaInv, BatchOK, Busy, Writing, readVars
    <2>4. \A d \in Consumers \ {c} : pc'[d] = pc[d] /\ keep'[d] = keep[d]
      BY <1>6 DEF TypeOK
    <2> QED BY <1>1, <1>2, <1>6, <2>3, <2>4, ActingReplica
  <1>7. CASE ~ok /\ pc' = [pc EXCEPT ![c] = "isolate"] /\ UNCHANGED <<batchVars, setAside>>
    <2>1. pc'[c] = "isolate" /\ UNCHANGED <<todo, cur, keep, dead, offsets>>
      BY <1>7 DEF TypeOK, batchVars
    <2>2. \A o \in Batch(c, u)' : o \in keep[c] \cup dead[c] \/ rows'[u][o] > 0
      BY <1>3, <1>4
    <2>3. BatchOK(c)'
      BY <1>1, <2>1, <2>2 DEF ReplicaInv, BatchOK, Busy, Writing, readVars
    <2>4. \A d \in Consumers \ {c} : pc'[d] = pc[d]
      BY <1>7 DEF TypeOK
    <2> QED BY <1>1, <1>2, <2>1, <2>3, <2>4, ActingReplica
  <1> QED BY <1>0, <1>2, <1>5, <1>6, <1>7

LEMMA IsolateRecordStep ==
  ASSUME TypeOK, ReplicaInv, NEW c \in Consumers, NEW o \in Offsets, IsolateRecord(c, o)
  PROVE  ReplicaInv' /\ Grows
  <1> DEFINE failed(ok) == IF ok THEN dead[c] ELSE dead[c] \cup {o}
             Outcome(ok) ==
               \/ keep[c] = {o} /\ failed(ok) = {} /\ WriteDone(c)
               \/ /\ keep[c] # {o} \/ failed(ok) # {}
                  /\ keep' = [keep EXCEPT ![c] = @ \ {o}]
                  /\ dead' = [dead EXCEPT ![c] = failed(ok)]
                  /\ pc' = [pc EXCEPT ![c] = IF keep[c] = {o} THEN "deadLetter" ELSE @]
                  /\ UNCHANGED <<todo, cur, offsets, setAside>>
  <1>0. PICK n \in 0 .. MaxLostReplies + 1, ok \in BOOLEAN :
        /\ Execute(Accepted(cur[c], {o}), n, ok)
        /\ rows' = CountIn(rows, cur[c], {o}, n)
        /\ Outcome(ok)
    BY DEF IsolateRecord
  <1>1. /\ UNCHANGED <<log, dlq, readVars, setAside>> /\ pc[c] = "isolate"
        /\ n \in Nat /\ (ok => n > 0) /\ {o} \in SUBSET Offsets /\ o \in keep[c]
        /\ cur[c] \in todo[c] /\ cur[c] \in Topics
    BY <1>0 DEF IsolateRecord, kafkaVars, WriteDone, Execute, ReplicaInv, BatchOK, Writing,
                TypeOK
  <1> PICK u \in Topics : u = cur[c]
    BY <1>1
  <1>2. /\ Grows /\ (ok => rows'[u][o] > 0)
        /\ \A p \in Offsets : rows'[u][p] > 0 => Dealt(u, p)'
    BY <1>0, <1>1, InsertGrows
  <1>3. Batch(c, u) \subseteq Offsets /\ Batch(c, u)' = Batch(c, u)
    BY <1>1, BatchInOffsets DEF Batch, readVars
  <1>4. \A p \in Batch(c, u) :
           p \in (keep[c] \ {o}) \cup failed(ok) \/ rows'[u][p] > 0
    <2>1. \A p \in Batch(c, u) : p \in keep[c] \cup dead[c] \/ rows'[u][p] > 0
      BY <1>1, <1>2, <1>3 DEF ReplicaInv, BatchOK, Grows
    <2> QED BY <1>2, <2>1
  <1>5. CASE keep[c] = {o} /\ failed(ok) = {} /\ WriteDone(c)
    <2>1. \A p \in Batch(c, u) : Dealt(u, p)'
      BY <1>2, <1>3, <1>4, <1>5
    <2> QED BY <1>1, <1>2, <1>5, <2>1, WriteDoneStep DEF Writing
  <1>6. CASE /\ keep[c] # {o} \/ failed(ok) # {}
             /\ keep' = [keep EXCEPT ![c] = @ \ {o}]
             /\ dead' = [dead EXCEPT ![c] = failed(ok)]
             /\ pc' = [pc EXCEPT ![c] = IF keep[c] = {o} THEN "deadLetter" ELSE @]
             /\ UNCHANGED <<todo, cur, offsets, setAside>>
    <2> HIDE DEF failed
    <2>1. /\ keep'[c] = keep[c] \ {o} /\ dead'[c] = failed(ok) /\ cur'[c] = u
          /\ pc'[c] = IF keep[c] = {o} THEN "deadLetter" ELSE "isolate"
      BY <1>1, <1>6 DEF TypeOK
    <2>2. \A p \in Batch(c, u)' : p \in keep'[c] \cup dead'[c] \/ rows'[u][p] > 0
      BY <1>3, <1>4, <2>1
    <2>3. BatchOK(c)'
      BY <1>1, <1>6, <2>1, <2>2 DEF ReplicaInv, BatchOK, Busy, Writing, readVars
    <2>4. \A d \in Consumers \ {c} : pc'[d] = pc[d] /\ keep'[d] = keep[d] /\ dead'[d] = dead[d]
      BY <1>6 DEF TypeOK
    <2> QED BY <1>1, <1>2, <1>6, <2>3, <2>4, ActingReplica
  <1> QED BY <1>0, <1>2, <1>5, <1>6

LEMMA DeadLetterStep ==
  ASSUME TypeOK, ReplicaInv, NEW c \in Consumers, DeadLetter(c)
  PROVE  ReplicaInv' /\ Grows
  <1>0. PICK n \in 0 .. MaxLostReplies + 1, ok \in BOOLEAN :
        /\ Execute(TRUE, n, ok)
        /\ dlq' = CountIn(dlq, cur[c], dead[c], n)
        /\ IF ok THEN WriteDone(c) ELSE WriteFailed(c)
    BY DEF DeadLetter
  <1>1. /\ UNCHANGED <<log, rows, readVars>> /\ pc[c] = "deadLetter"
        /\ n \in Nat /\ (ok => n > 0) /\ dead[c] \in SUBSET Offsets
        /\ cur[c] \in todo[c] /\ cur[c] \in Topics
    BY <1>0 DEF DeadLetter, kafkaVars, Execute, ReplicaInv, BatchOK, Writing, TypeOK
  <1> PICK u \in Topics : u = cur[c]
    BY <1>1
  <1>2. ASSUME NEW t \in Topics, NEW o \in Offsets
        PROVE  /\ rows[t][o] \in Nat /\ dlq[t][o] \in Nat /\ dlq'[t][o] \in Nat
               /\ dlq[t][o] =< dlq'[t][o]
               /\ t = u /\ o \in dead[c] /\ n > 0 => dlq'[t][o] > 0
    <2>1. rows \in [Topics -> [Offsets -> Nat]] /\ dlq \in [Topics -> [Offsets -> Nat]]
      BY DEF TypeOK
    <2> QED BY <1>0, <1>1, <2>1, CountInGrows
  <1>3. CASE ok
    <2>1. WriteDone(c) /\ setAside' = setAside
      BY <1>0, <1>3 DEF WriteDone
    <2>2. Grows
      BY <1>1, <1>2, <2>1 DEF Grows, Dealt, Handled
    <2>3. Batch(c, u) \subseteq Offsets /\ \A o \in Batch(c, u) : o \in dead[c] \/ rows[u][o] > 0
      BY <1>1, BatchInOffsets DEF ReplicaInv, BatchOK
    <2>4. \A o \in Batch(c, u) : Dealt(u, o)'
      BY <1>1, <1>2, <1>3, <2>3 DEF Dealt, Handled
    <2> QED BY <1>1, <2>1, <2>2, <2>4, WriteDoneStep DEF Writing
  <1>4. CASE ~ok
    <2>1. WriteFailed(c) /\ MovePast(c, todo[c]) /\ todo[c] \subseteq Topics
      BY <1>0, <1>4 DEF WriteFailed, TypeOK
    <2>2. /\ \A t \in Topics : setAside[t] \subseteq setAside'[t]
          /\ \A t \in todo[c] : Batch(c, t) \subseteq setAside'[t]
      BY <2>1 DEF MovePast, TypeOK
    <2>3. Grows
      BY <1>1, <1>2, <2>2 DEF Grows, Dealt, Handled
    <2>4. \A t \in todo[c] : \A o \in Batch(c, t) : Dealt(t, o)'
      BY <2>2 DEF Dealt
    <2> QED BY <1>1, <2>1, <2>3, <2>4, WriteFailedStep
  <1> QED BY <1>3, <1>4

LEMMA PollStep ==
  ASSUME TypeOK, ReplicaInv, NEW c \in Consumers, Poll(c)
  PROVE  ReplicaInv' /\ Grows
  <1>1. PICK upTo \in [assigned[c] -> 0 .. MaxLog] :
        /\ \A t \in assigned[c] : upTo[t] \in position[c][t] .. Len(log[t])
        /\ fetched' = [fetched EXCEPT ![c] = position[c]]
        /\ position' = [position EXCEPT ![c] =
              [t \in Topics |-> IF t \in assigned[c] THEN upTo[t] ELSE position[c][t]]]
        /\ todo' = [todo EXCEPT ![c] = {t \in assigned[c] : upTo[t] > position[c][t]}]
    BY DEF Poll
  <1>2. /\ UNCHANGED <<log, rows, dlq, setAside, assigned, cur, keep, dead, offsets>>
        /\ pc[c] = "idle" /\ pc' = [pc EXCEPT ![c] = "route"]
    BY DEF Poll, kafkaVars
  <1>3. Grows
    BY <1>2 DEF Grows, Dealt, Handled
  <1>4. log' \in [Topics -> Seq(RecordKinds)] /\ \A t \in Topics : Len(log[t]) =< Len(log'[t])
    BY <1>2 DEF TypeOK
  <1>5. ASSUME NEW d \in Consumers, d # c PROVE BatchOK(d)' /\ ReadOK(d)'
    <2>1. /\ pc'[d] = pc[d] /\ position'[d] = position[d] /\ fetched'[d] = fetched[d]
          /\ todo'[d] = todo[d]
      BY <1>1, <1>2, <1>5 DEF TypeOK
    <2> QED BY <1>2, <1>3, <1>4, <2>1, OthersBatchOK, DealtReadOK DEF ReplicaInv
  <1>6. /\ pc'[c] = "route" /\ assigned[c] \subseteq Topics /\ todo[c] = {} /\ offsets[c] = {}
        /\ todo'[c] = {t \in assigned[c] : upTo[t] > position[c][t]}
        /\ fetched'[c] = position[c]
        /\ \A t \in Topics : position'[c][t] = IF t \in assigned[c] THEN upTo[t]
                                               ELSE position[c][t]
    BY <1>1, <1>2 DEF TypeOK, ReplicaInv, BatchOK, Busy
  <1>7. BatchOK(c)'
    BY <1>2, <1>6 DEF BatchOK, Busy, Writing
  <1>8. ReadOK(c)'
    <2>1. SUFFICES ASSUME NEW t \in Topics
                   PROVE  /\ fetched'[c][t] =< position'[c][t]
                          /\ position'[c][t] =< Len(log'[t])
                          /\ t \in assigned'[c] =>
                              \A o \in 0 .. position'[c][t] - 1 :
                                Dealt(t, o)' \/ (t \in todo'[c] /\ o \in Batch(c, t)')
      BY DEF ReadOK
    <2>2. /\ position[c][t] \in 0 .. MaxLog /\ Len(log[t]) \in Nat
          /\ position[c][t] =< Len(log[t]) /\ Len(log[t]) =< MaxLog
      BY DEF TypeOK, ReplicaInv, ReadOK
    <2>3. CASE t \notin assigned[c]
      BY <1>2, <1>6, <2>2, <2>3
    <2>4. CASE t \in assigned[c]
      <3>1. /\ position'[c][t] = upTo[t] /\ upTo[t] \in position[c][t] .. Len(log[t])
            /\ Batch(c, t)' = position[c][t] .. upTo[t] - 1
        BY <1>1, <1>6, <2>4 DEF Batch
      <3>2. ASSUME NEW o \in 0 .. upTo[t] - 1
            PROVE  Dealt(t, o)' \/ (t \in todo'[c] /\ o \in Batch(c, t)')
        <4>1. CASE o < position[c][t]
          <5>1. Dealt(t, o)
            BY <1>6, <2>2, <2>4, <4>1 DEF ReplicaInv, ReadOK
          <5>2. o \in Offsets
            BY <2>2, <4>1 DEF Offsets
          <5> QED BY <1>3, <5>1, <5>2 DEF Grows
        <4>2. CASE o >= position[c][t]
          BY <1>6, <2>2, <2>4, <3>1, <4>2
        <4> QED BY <2>2, <4>1, <4>2
      <3> QED BY <1>2, <1>6, <2>2, <3>1, <3>2
    <2> QED BY <2>3, <2>4
  <1> QED BY <1>3, <1>5, <1>7, <1>8 DEF ReplicaInv

\* A new assignment starts at the committed offsets, below which all is dealt with.
LEMMA AssignStep ==
  ASSUME DeliveryInv, NEW c \in Consumers, Assign(c)
  PROVE  ReplicaInv' /\ Grows
  <1>0. TypeOK /\ ReplicaInv /\ CommittedInRange /\ NothingLostSilently /\ LockOK(c)
    BY DEF DeliveryInv, ReplicaInv
  <1>1. /\ UNCHANGED <<log, rows, dlq, setAside, pc, todo, cur, keep, dead, offsets>>
        /\ position' = [position EXCEPT ![c] = committed]
        /\ fetched' = [fetched EXCEPT ![c] = committed]
        /\ assigned' = [assigned EXCEPT ![c] = {t \in Topics : owner[t] = c}]
    BY DEF Assign, StartOffsets, kafkaVars, batchVars
  <1>2. Grows
    BY <1>1 DEF Grows, Dealt, Handled
  <1>3. log' \in [Topics -> Seq(RecordKinds)] /\ \A t \in Topics : Len(log[t]) =< Len(log'[t])
    BY <1>0, <1>1 DEF TypeOK
  <1>4. ASSUME NEW d \in Consumers, d # c PROVE BatchOK(d)' /\ ReadOK(d)'
    <2>1. position'[d] = position[d] /\ fetched'[d] = fetched[d] /\ assigned'[d] = assigned[d]
      BY <1>0, <1>1, <1>4 DEF TypeOK
    <2> QED BY <1>0, <1>1, <1>2, <1>3, <2>1, OthersBatchOK, DealtReadOK DEF ReplicaInv
  <1>5. ~Busy(c) /\ todo[c] = {} /\ offsets[c] = {}
    BY <1>0 DEF LockOK, Assign, ReplicaInv, BatchOK
  <1>6. BatchOK(c)'
    BY <1>1, <1>5 DEF BatchOK, Busy, Writing
  <1>7. position'[c] = committed /\ fetched'[c] = committed
    BY <1>0, <1>1 DEF TypeOK
  <1>8. \A t \in Topics : committed[t] \in Nat /\ committed[t] =< Len(log[t])
    BY <1>0 DEF TypeOK, CommittedInRange
  <1>9. \A t \in Topics : \A o \in 0 .. committed[t] - 1 : Dealt(t, o)'
    BY <1>0, <1>1 DEF NothingLostSilently, Dealt, Handled
  <1>10. ReadOK(c)'
    BY <1>1, <1>7, <1>8, <1>9 DEF ReadOK
  <1> QED BY <1>2, <1>4, <1>6, <1>10 DEF ReplicaInv

LEMMA ForgetStep ==
  ASSUME TypeOK, ReplicaInv, NEW c \in Consumers, Crash(c) \/ Stop(c)
  PROVE  ReplicaInv' /\ Grows
  <1>1. UNCHANGED <<log, rows, dlq, setAside>> /\ Forget(c)
        /\ pc' = [pc EXCEPT ![c] = "down"]
    BY DEF Crash, Stop, kafkaVars
  <1>2. Grows
    BY <1>1 DEF Grows, Dealt, Handled
  <1>3. log' \in [Topics -> Seq(RecordKinds)] /\ \A t \in Topics : Len(log[t]) =< Len(log'[t])
    BY <1>1 DEF TypeOK
  <1>4. ASSUME NEW d \in Consumers, d # c PROVE BatchOK(d)' /\ ReadOK(d)'
    <2>1. /\ pc'[d] = pc[d] /\ position'[d] = position[d] /\ fetched'[d] = fetched[d]
          /\ assigned'[d] = assigned[d] /\ todo'[d] = todo[d] /\ cur'[d] = cur[d]
          /\ keep'[d] = keep[d] /\ dead'[d] = dead[d] /\ offsets'[d] = offsets[d]
      BY <1>1, <1>4 DEF TypeOK, Forget
    <2> QED BY <1>2, <1>3, <2>1, OthersBatchOK, DealtReadOK DEF ReplicaInv
  <1>5. /\ pc'[c] = "down" /\ todo'[c] = {} /\ offsets'[c] = {} /\ assigned'[c] = {}
        /\ position'[c] = NoOffsets /\ fetched'[c] = NoOffsets
    BY <1>1 DEF TypeOK, Forget
  <1>6. BatchOK(c)'
    BY <1>5 DEF BatchOK, Busy, Writing
  <1>7. \A t \in Topics : Len(log'[t]) \in Nat
    BY <1>3
  <1>8. ReadOK(c)'
    BY <1>5, <1>7 DEF ReadOK, NoOffsets
  <1> QED BY <1>2, <1>4, <1>6, <1>8 DEF ReplicaInv

LEMMA ProduceStep ==
  ASSUME TypeOK, ReplicaInv, NEW u \in Topics, Produce(u)
  PROVE  /\ ReplicaInv' /\ Grows
         /\ \A t \in Topics : Len(log[t]) =< Len(log'[t])
  <1>1. UNCHANGED <<rows, dlq, setAside, pc, readVars, batchVars>>
    BY DEF Produce
  <1>2. Grows
    BY <1>1 DEF Grows, Dealt, Handled
  <1>3. log' \in [Topics -> Seq(RecordKinds)] /\ \A t \in Topics : Len(log[t]) =< Len(log'[t])
    BY DEF Produce, TypeOK
  <1> QED BY <1>1, <1>2, <1>3, OthersBatchOK, DealtReadOK DEF ReplicaInv, readVars, batchVars

\* The rest of the next-state relation leaves batches and records alone.
Elsewhere(c) ==
    Start(c) \/ BeginRevoke(c) \/ Join(c) \/ Kick(c) \/ ExpireDead(c)

LEMMA ElsewhereStep ==
  ASSUME TypeOK, ReplicaInv, NEW c \in Consumers, Elsewhere(c)
  PROVE  ReplicaInv' /\ Grows
  <1>1. UNCHANGED <<log, rows, dlq, setAside, readVars, batchVars>>
    BY DEF Elsewhere, Start, BeginRevoke, Join, Kick, ExpireDead, kafkaVars
  <1>2. CASE UNCHANGED pc
    BY <1>1, <1>2, FrameReplicaInv DEF Grows, Dealt, Handled
  <1>3. CASE Start(c)
    <2>1. Grows
      BY <1>1 DEF Grows, Dealt, Handled
    <2>2. pc[c] = "down" /\ pc' = [pc EXCEPT ![c] = "idle"]
      BY <1>3 DEF Start
    <2>3. BatchOK(c)'
      BY <1>1, <2>2 DEF TypeOK, ReplicaInv, BatchOK, Busy, Writing, readVars, batchVars
    <2>4. \A d \in Consumers \ {c} : pc'[d] = pc[d]
      BY <2>2 DEF TypeOK
    <2> QED BY <1>1, <2>1, <2>3, <2>4, ActingReplica DEF batchVars
  <1> QED BY <1>2, <1>3 DEF Elsewhere, BeginRevoke, Join, Kick, ExpireDead

LEMMA EnvironmentStep ==
  ASSUME TypeOK, ReplicaInv,
         \/ \E t \in Topics : NewTopic(t) \/ Register(t)
         \/ ClickHouseDown \/ ClickHouseUp \/ CompleteRebalance
  PROVE  ReplicaInv' /\ Grows /\ UNCHANGED <<log, committed>>
  <1>1. UNCHANGED <<log, committed, rows, dlq, setAside, pc, readVars, batchVars>>
    BY DEF NewTopic, Register, ClickHouseDown, ClickHouseUp, CompleteRebalance, kafkaVars
  <1> QED BY <1>1, FrameReplicaInv DEF Grows, Dealt, Handled

-----------------------------------------------------------------------------
(* The inductive invariant.                                                     *)

LEMMA InitDeliveryInv == Init => DeliveryInv
  <1> SUFFICES ASSUME Init PROVE DeliveryInv
    OBVIOUS
  <1>1. TypeOK
    BY InitTypeOK
  <1>2. \A c \in Consumers : LockOK(c) /\ BatchOK(c)
    BY DEF Init, LockOK, BatchOK, Busy, Writing
  <1>3. \A t \in Topics : Len(log[t]) = 0 /\ committed[t] = 0
    BY DEF Init, NoOffsets
  <1>4. \A c \in Consumers : ReadOK(c)
    BY <1>3 DEF Init, ReadOK, NoOffsets
  <1> QED BY <1>1, <1>2, <1>3, <1>4 DEF DeliveryInv, CommittedInRange, NothingLostSilently

LEMMA TypeStep ==
  ASSUME TypeOK, ReplicaInv, Next
  PROVE  TypeOK'
  <1>1. ASSUME NEW t \in Topics, NewTopic(t) \/ Register(t) \/ Produce(t) PROVE TypeOK'
    BY <1>1, NewTopicType, RegisterType, ProduceType
  <1>2. CASE ClickHouseDown \/ ClickHouseUp \/ CompleteRebalance
    BY <1>2, ClickHouseDownType, ClickHouseUpType, CompleteRebalanceType
  <1>3. ASSUME NEW c \in Consumers, Process(c) PROVE TypeOK'
    <2>1. Writing(c) => cur[c] \in Topics
      BY DEF ReplicaInv, BatchOK, TypeOK
    <2>2. PrepareTable(c) \/ InsertBatch(c) \/ DeadLetter(c)
          \/ (\E o \in Offsets : IsolateRecord(c, o)) => Writing(c)
      BY DEF PrepareTable, InsertBatch, DeadLetter, IsolateRecord, Writing
    <2> QED
      BY <1>3, <2>1, <2>2, PollType, RouteTopicType, PrepareTableType, InsertBatchType,
         IsolateRecordType, DeadLetterType, EndOfBatchType, CommitType DEF Process
  <1>4. ASSUME NEW c \in Consumers,
               \/ Start(c) \/ BeginRevoke(c) \/ Join(c) \/ Assign(c)
               \/ Kick(c) \/ ExpireDead(c) \/ Crash(c) \/ Stop(c)
        PROVE  TypeOK'
    BY <1>4, StartType, BeginRevokeType, JoinType, AssignType, KickType, ExpireDeadType,
       CrashType, StopType
  <1> QED BY <1>1, <1>2, <1>3, <1>4 DEF Next

\* Committed offsets stay dealt with in a step that commits nothing.
LEMMA NoCommitStep ==
  ASSUME DeliveryInv, Grows, UNCHANGED committed,
         \A t \in Topics : Len(log[t]) =< Len(log'[t]),
         \A t \in Topics : Len(log'[t]) \in Nat
  PROVE  CommittedInRange' /\ NothingLostSilently'
  <1>1. \A t \in Topics : /\ committed[t] \in 0 .. MaxLog /\ Len(log[t]) \in Nat
                          /\ committed[t] =< Len(log[t])
    BY DEF DeliveryInv, TypeOK, CommittedInRange
  <1>2. \A t \in Topics : \A o \in 0 .. committed[t] - 1 : Dealt(t, o)'
    BY <1>1 DEF DeliveryInv, NothingLostSilently, Grows, Offsets
  <1> QED BY <1>1, <1>2 DEF CommittedInRange, NothingLostSilently

\* A commit covers topics whose whole batch has been written.
LEMMA CommitStep ==
  ASSUME DeliveryInv, NEW c \in Consumers, Commit(c)
  PROVE  CommittedInRange' /\ NothingLostSilently'
  <1>0. TypeOK /\ BatchOK(c) /\ ReadOK(c) /\ CommittedInRange /\ NothingLostSilently
    BY DEF DeliveryInv
  <1>1. UNCHANGED <<log, rows, dlq, setAside>> /\ pc[c] = "commit"
    BY DEF Commit
  <1>2. \A t \in Topics : \A o : Dealt(t, o) => Dealt(t, o)'
    BY <1>1 DEF Dealt, Handled
  <1>3. todo[c] = {} /\ offsets[c] \subseteq assigned[c]
    BY <1>0, <1>1 DEF BatchOK
  <1>4. SUFFICES ASSUME NEW t \in Topics
                 PROVE  /\ committed'[t] =< Len(log'[t])
                        /\ \A o \in 0 .. committed'[t] - 1 : Dealt(t, o)'
    BY DEF CommittedInRange, NothingLostSilently
  <1>5. CASE committed'[t] = committed[t]
    BY <1>0, <1>1, <1>2, <1>5 DEF CommittedInRange, NothingLostSilently
  <1>6. CASE t \in offsets[c] /\ committed'[t] = position[c][t]
    BY <1>0, <1>1, <1>2, <1>3, <1>6 DEF ReadOK
  <1>7. \/ committed'[t] = committed[t]
        \/ t \in offsets[c] /\ committed'[t] = position[c][t]
    BY DEF Commit
  <1> QED BY <1>5, <1>6, <1>7

\* Every step keeps what the replicas hold, and either keeps the committed
\* offsets and only adds to what is dealt with, or is a commit.
LEMMA ReplicaStep ==
  ASSUME DeliveryInv, Next
  PROVE  /\ ReplicaInv'
         /\ \/ /\ Grows /\ UNCHANGED committed
               /\ \A t \in Topics : Len(log[t]) =< Len(log'[t])
            \/ \E c \in Consumers : Commit(c)
  <1>0. TypeOK /\ ReplicaInv
    BY DEF DeliveryInv, ReplicaInv
  <1> DEFINE Kept == /\ Grows /\ UNCHANGED committed
                     /\ \A t \in Topics : Len(log[t]) =< Len(log'[t])
  <1>1. \A t \in Topics : Len(log[t]) \in Nat
    BY <1>0 DEF TypeOK
  <1>2. Grows /\ UNCHANGED <<log, committed>> => Kept
    BY <1>1
  <1> HIDE DEF Kept
  <1>3. ASSUME NEW t \in Topics, Produce(t) PROVE ReplicaInv' /\ Kept
    BY <1>0, <1>3, ProduceStep DEF Produce, Kept
  <1>4. CASE \/ \E t \in Topics : NewTopic(t) \/ Register(t)
             \/ ClickHouseDown \/ ClickHouseUp \/ CompleteRebalance
    BY <1>0, <1>2, <1>4, EnvironmentStep
  <1>5. ASSUME NEW c \in Consumers, Elsewhere(c) PROVE ReplicaInv' /\ Kept
    <2>1. UNCHANGED <<log, committed>>
      BY <1>5 DEF Elsewhere, Start, BeginRevoke, Join, Kick, ExpireDead, kafkaVars
    <2> QED BY <1>0, <1>2, <1>5, <2>1, ElsewhereStep
  <1>6. ASSUME NEW c \in Consumers, Assign(c) \/ Crash(c) \/ Stop(c) PROVE ReplicaInv' /\ Kept
    <2>1. UNCHANGED <<log, committed>>
      BY <1>6 DEF Assign, Crash, Stop, kafkaVars
    <2> QED BY <1>0, <1>2, <1>6, <2>1, AssignStep, ForgetStep
  <1>7. ASSUME NEW c \in Consumers, Process(c), ~Commit(c) PROVE ReplicaInv' /\ Kept
    <2>1. UNCHANGED <<log, committed>>
      BY <1>7 DEF Process, Poll, RouteTopic, PrepareTable, InsertBatch, IsolateRecord,
                  DeadLetter, EndOfBatch, kafkaVars
    <2>2. ReplicaInv' /\ Grows
      BY <1>0, <1>7, PollStep, RouteTopicStep, PrepareTableStep, InsertBatchStep,
         IsolateRecordStep, DeadLetterStep, EndOfBatchStep DEF Process
    <2> QED BY <1>2, <2>1, <2>2
  <1>8. ASSUME NEW c \in Consumers, Commit(c) PROVE ReplicaInv'
    BY <1>0, <1>8, EndOfBatchStep
  <1> QED
    BY <1>3, <1>4, <1>5, <1>6, <1>7, <1>8 DEF Next, Elsewhere, Kept

LEMMA DeliveryStep == ASSUME DeliveryInv, Next PROVE DeliveryInv'
  <1>0. TypeOK /\ LockInv /\ ReplicaInv
    BY DEF DeliveryInv, LockInv, ReplicaInv
  <1>1. TypeOK' /\ LockInv' /\ ReplicaInv'
    BY <1>0, TypeStep, LockStep, ReplicaStep
  <1>2. \A t \in Topics : Len(log'[t]) \in Nat
    BY <1>1 DEF TypeOK
  <1>3. CommittedInRange' /\ NothingLostSilently'
    BY <1>2, ReplicaStep, NoCommitStep, CommitStep
  <1> QED BY <1>1, <1>3 DEF DeliveryInv, LockInv, ReplicaInv

LEMMA DeliveryStutter == ASSUME DeliveryInv, UNCHANGED vars PROVE DeliveryInv'
  BY DEF DeliveryInv, vars, kafkaVars, readVars, batchVars, memoVars, TypeOK, LockOK, BatchOK,
         ReadOK, CommittedInRange, NothingLostSilently, Busy, Writing, Batch, Dealt, Handled

\* The inductive invariant holds in every reachable state, whatever the number of
\* replicas, topics and records and however many disturbances there are.
THEOREM DeliveryInvariant == Spec => []DeliveryInv
  <1>1. DeliveryInv /\ [Next]_vars => DeliveryInv'
    BY DeliveryStep, DeliveryStutter
  <1> QED BY InitDeliveryInv, <1>1, PTL DEF Spec

\* Type correctness.
THEOREM TypeCorrect == Spec => []TypeOK
  <1>1. DeliveryInv => TypeOK
    BY DEF DeliveryInv
  <1> QED BY <1>1, DeliveryInvariant, PTL

\* The order insert-then-commit loses nothing by itself: a committed record has a
\* row or a dead letter, or was set aside by a topic without a config or a failed
\* write (main.py, _insert_then_commit).
THEOREM LossNeedsSetAside == Spec => []NothingLostSilently
  <1>1. DeliveryInv => NothingLostSilently
    BY DEF DeliveryInv
  <1> QED BY <1>1, DeliveryInvariant, PTL

-----------------------------------------------------------------------------
(* The producers emit what Kinds names.                                         *)

KindsInv == \A t \in Topics : \A o \in Logged(t) : Kind(t, o) \in Kinds

LEMMA KindsStep == ASSUME TypeOK, KindsInv, [Next]_vars PROVE KindsInv'
  <1>1. ASSUME NEW t \in Topics, Produce(t) PROVE KindsInv'
    <2>1. PICK k \in Kinds : log' = [log EXCEPT ![t] = Append(@, k)]
      BY <1>1 DEF Produce
    <2> SUFFICES ASSUME NEW u \in Topics, NEW o \in Logged(u)' PROVE Kind(u, o)' \in Kinds
      BY DEF KindsInv
    <2>2. log[u] \in Seq(RecordKinds) /\ log'[u] = IF u = t THEN Append(log[u], k) ELSE log[u]
      BY <2>1 DEF TypeOK
    <2>3. CASE o \in Logged(u)
      <3>1. Kind(u, o)' = Kind(u, o)
        BY <2>2, <2>3 DEF Kind, Logged
      <3> QED BY <2>3, <3>1 DEF KindsInv
    <2>4. CASE o \notin Logged(u)
      <3>1. u = t /\ Kind(u, o)' = k
        BY <2>2, <2>4 DEF Kind, Logged
      <3> QED BY <3>1
    <2> QED BY <2>3, <2>4
  <1>2. CASE log' = log
    BY <1>2 DEF KindsInv, Logged, Kind
  <1>3. CASE UNCHANGED vars
    BY <1>2, <1>3 DEF vars, kafkaVars
  <1>4. ASSUME Next, ~\E t \in Topics : Produce(t) PROVE log' = log
    <2>1. ASSUME NEW c \in Consumers, Process(c) PROVE log' = log
      BY <2>1 DEF Process, Poll, RouteTopic, PrepareTable, InsertBatch, IsolateRecord,
                  DeadLetter, EndOfBatch, Commit, kafkaVars
    <2> QED
      BY <1>4, <2>1
         DEF Next, NewTopic, Register, ClickHouseDown, ClickHouseUp, CompleteRebalance,
             Start, BeginRevoke, Join, Assign, Kick, ExpireDead, Crash, Stop, kafkaVars
  <1> QED BY <1>1, <1>2, <1>3, <1>4

\* With ClickHouse there and no huge record a write raises for no other reason.
LEMMA CleanTable ==
  ASSUME MaxOutages = 0, "huge" \notin Kinds, TypeOK, KindsInv, ch = "up",
         NEW c \in Consumers, BatchOK(c), ReadOK(c), PrepareTable(c)
  PROVE  UNCHANGED setAside
  <1>1. cur[c] \in Topics
    BY DEF BatchOK, Writing, PrepareTable, TypeOK
  <1>2. Batch(c, cur[c]) \subseteq Logged(cur[c])
    BY <1>1 DEF ReadOK, Batch, Logged, TypeOK
  <1>3. OfKind(c, "huge") = {}
    BY <1>1, <1>2 DEF OfKind, KindsInv
  <1>4. ~Spend("outage", MaxOutages)
    BY DEF Spend, TypeOK, Disturbances
  <1>5. Mapped(c)
    BY <1>3, <1>4 DEF PrepareTable, TableFails, MapRecords
  <1> QED BY <1>5 DEF Mapped

(* Without outages, orphans and huge records nothing is set aside.              *)

LEMMA CleanStep ==
  ASSUME MaxOutages = 0, Orphans = {}, "huge" \notin Kinds,
         DeliveryInv, KindsInv, CleanInv, [Next]_vars
  PROVE  CleanInv'
  <1>0. TypeOK /\ \A c \in Consumers : BatchOK(c) /\ ReadOK(c)
    BY DEF DeliveryInv
  <1> USE DEF kafkaVars, groupVars, readVars, batchVars, memoVars
  <1>1. ASSUME NEW t \in Topics, NewTopic(t) \/ Register(t) \/ Produce(t) PROVE CleanInv'
    BY <1>1 DEF NewTopic, Register, Produce, CleanInv
  <1>2. CASE ClickHouseDown
    <2>1. used["outage"] \in Nat /\ used["outage"] < 0
      BY <1>0, <1>2 DEF ClickHouseDown, Spend, TypeOK, Disturbances
    <2> QED BY <2>1
  <1>3. CASE ClickHouseUp \/ CompleteRebalance
    BY <1>3 DEF ClickHouseUp, CompleteRebalance, CleanInv
  <1>4. ASSUME NEW c \in Consumers, Elsewhere(c) PROVE CleanInv'
    BY <1>4 DEF Elsewhere, Start, BeginRevoke, Join, Kick, ExpireDead, CleanInv
  <1>5. ASSUME NEW c \in Consumers, Assign(c) PROVE CleanInv'
    <2>1. \A d \in Consumers : assigned'[d] \subseteq topics
      BY <1>0, <1>5 DEF Assign, CleanInv, TypeOK
    <2> QED BY <1>5, <2>1 DEF Assign, CleanInv
  <1>6. ASSUME NEW c \in Consumers, Crash(c) \/ Stop(c) PROVE CleanInv'
    <2>1. \A d \in Consumers : assigned'[d] \subseteq topics
      <3>1. assigned' = [assigned EXCEPT ![c] = {}]
        BY <1>6 DEF Crash, Stop, Forget
      <3> QED BY <1>0, <3>1 DEF CleanInv, TypeOK
    <2> QED BY <1>6, <2>1 DEF Crash, Stop, CleanInv
  <1>7. ASSUME NEW c \in Consumers, NEW t \in Topics, RouteTopic(c, t) PROVE CleanInv'
    <2>1. t \in registered
      BY <1>0, <1>7 DEF RouteTopic, BatchOK, CleanInv, TypeOK
    <2> QED BY <1>7, <2>1 DEF RouteTopic, CleanInv
  <1>8. ASSUME NEW c \in Consumers, PrepareTable(c) \/ InsertBatch(c) PROVE CleanInv'
    <2>1. UNCHANGED setAside
      BY <1>0, <1>8, CleanTable DEF InsertBatch, WriteDone, CleanInv
    <2> QED BY <1>8, <2>1 DEF PrepareTable, InsertBatch, CleanInv
  <1>9. ASSUME NEW c \in Consumers, NEW o \in Offsets, IsolateRecord(c, o) PROVE CleanInv'
    BY <1>9 DEF IsolateRecord, WriteDone, CleanInv
  <1>10. ASSUME NEW c \in Consumers, DeadLetter(c) PROVE CleanInv'
    BY <1>10 DEF DeadLetter, Execute, WriteDone, CleanInv
  <1>11. ASSUME NEW c \in Consumers, Poll(c) \/ EndOfBatch(c) \/ Commit(c) PROVE CleanInv'
    BY <1>11 DEF Poll, EndOfBatch, Commit, CleanInv
  <1>12. CASE UNCHANGED vars
    BY <1>12 DEF vars, CleanInv
  <1> QED
    BY <1>1, <1>2, <1>3, <1>4, <1>5, <1>6, <1>7, <1>8, <1>9, <1>10, <1>11, <1>12
       DEF Next, Process, Elsewhere

\* The contract as documented, under what the documents assume: ClickHouse stays
\* reachable and takes the tables, configs precede topics, and to_row raises nothing
\* but RecordError. Crashes, kicks, rebalances and lost replies are allowed.
THEOREM CommittedMeansHandled ==
  ASSUME MaxOutages = 0, Orphans = {}, "huge" \notin Kinds
  PROVE  Spec => []CommittedIsHandled
  <1>1. Init => CleanInv
    BY DEF Init, CleanInv
  <1>2. DeliveryInv /\ KindsInv /\ CleanInv /\ [Next]_vars => CleanInv'
    BY CleanStep
  <1>3. DeliveryInv /\ CleanInv => CommittedIsHandled
    BY DEF DeliveryInv, TypeOK, CleanInv, NothingLostSilently, CommittedIsHandled, Dealt
  <1>4. Init => KindsInv
    BY DEF Init, KindsInv, Logged
  <1>5. DeliveryInv /\ KindsInv /\ [Next]_vars => KindsInv'
    BY KindsStep DEF DeliveryInv
  <1> QED BY <1>1, <1>2, <1>3, <1>4, <1>5, DeliveryInvariant, PTL DEF Spec

=============================================================================
