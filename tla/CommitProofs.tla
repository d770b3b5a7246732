------------------------------ MODULE CommitProofs ------------------------------
(* Who may commit what: proofs that the replicas of one generation hold different *)
(* topics, that committed offsets only advance, and that ConsumerPool implements  *)
(* DeliveryContract.                                                            *)
EXTENDS ConsumerPoolProofs

(* The inductive invariants.                                                    *)

\* A replica that holds an assignment of the current generation. It is the owner
\* of what it is assigned, and nobody has committed past where it reads.
Current(c) == c \in members \ joined /\ (Busy(c) \/ ~revoking[c])

HolderOK(c) ==
    /\ pc[c] = "down" => assigned[c] = {}
    /\ Current(c) =>
          \A t \in assigned[c] :
              /\ owner[t] = c /\ committed[t] =< position[c][t]
              /\ t \in todo[c] => committed[t] =< fetched[c][t]

HolderInv == \A c \in Consumers : HolderOK(c)

\* The records a write has in hand are of its batch, and nothing is written that
\* is not in the log.
InHand == {"insert", "isolate", "deadLetter"}

HandOK(c) ==
    /\ pc[c] \notin InHand => keep[c] = {} /\ dead[c] = {}
    /\ pc[c] \in InHand => /\ keep[c] \cup dead[c] \subseteq Batch(c, cur[c])
                           /\ keep[c] \cap dead[c] = {}

WrittenOK == \A t \in Topics : \A o \in Offsets : Dealt(t, o) => o \in Logged(t)

HandInv == WrittenOK /\ \A c \in Consumers : HandOK(c)

-----------------------------------------------------------------------------
USE ConstantsAssumption

(* The current generation.                                                      *)

\* A replica that a step makes neither current nor read on keeps its invariant.
LEMMA HolderFrame ==
  ASSUME TypeOK, NEW d \in Consumers, HolderOK(d),
         UNCHANGED <<owner, committed>>, Current(d)' => Current(d),
         pc'[d] = "down" => pc[d] = "down", assigned'[d] = assigned[d],
         position'[d] = position[d], fetched'[d] = fetched[d], todo'[d] \subseteq todo[d]
  PROVE  HolderOK(d)'
  BY DEF HolderOK

\* The steps of a batch between getmany and the commit.
BatchStep(c) ==
    \/ \E t \in Topics : RouteTopic(c, t)
    \/ PrepareTable(c) \/ InsertBatch(c) \/ DeadLetter(c) \/ EndOfBatch(c)
    \/ \E o \in Offsets : IsolateRecord(c, o)

LEMMA BatchStepFrame ==
  ASSUME TypeOK, NEW c \in Consumers, BatchStep(c)
  PROVE  /\ UNCHANGED <<topics, log, committed, members, joined, owner, phase, revoking,
                        registered, ch, assigned, position, fetched>>
         /\ Busy(c) /\ pc'[c] # "down" /\ todo'[c] \subseteq todo[c]
         /\ \A d \in Consumers \ {c} : pc'[d] = pc[d] /\ todo'[d] = todo[d]
  <1> USE DEF kafkaVars, groupVars, readVars, batchVars, memoVars, Busy
  <1>1. ASSUME NEW t \in Topics, RouteTopic(c, t)
        PROVE  /\ Busy(c) /\ pc'[c] # "down" /\ todo'[c] \subseteq todo[c]
               /\ \A d \in Consumers \ {c} : pc'[d] = pc[d] /\ todo'[d] = todo[d]
    BY <1>1 DEF RouteTopic, TypeOK
  <1>2. CASE PrepareTable(c)
    <2>1. /\ pc[c] = "table"
          /\ \E stage \in {"deadLetter", "insert", "route"} : pc' = [pc EXCEPT ![c] = stage]
          /\ todo' = todo \/ todo' = [todo EXCEPT ![c] = {}]
      BY <1>2, TableOutcome DEF Mapped, WriteFailed
    <2>2. pc'[c] # "down" /\ \A d \in Consumers \ {c} : pc'[d] = pc[d]
      BY <2>1 DEF TypeOK
    <2>3. todo'[c] \subseteq todo[c] /\ \A d \in Consumers \ {c} : todo'[d] = todo[d]
      BY <2>1 DEF TypeOK
    <2> QED BY <1>2, <2>1, <2>2, <2>3, TableOutcome
  <1>3. CASE InsertBatch(c)
    BY <1>3 DEF InsertBatch, WriteDone, TypeOK
  <1>4. CASE DeadLetter(c)
    BY <1>4 DEF DeadLetter, WriteDone, WriteFailed, TypeOK
  <1>5. CASE EndOfBatch(c)
    BY <1>5 DEF EndOfBatch, TypeOK
  <1>6. ASSUME NEW o \in Offsets, IsolateRecord(c, o)
        PROVE  /\ Busy(c) /\ pc'[c] # "down" /\ todo'[c] \subseteq todo[c]
               /\ \A d \in Consumers \ {c} : pc'[d] = pc[d] /\ todo'[d] = todo[d]
    BY <1>6 DEF IsolateRecord, WriteDone, TypeOK
  <1>7. UNCHANGED <<topics, log, committed, members, joined, owner, phase, revoking,
                    registered, ch, assigned, position, fetched>>
    BY DEF BatchStep, RouteTopic, PrepareTable, InsertBatch, DeadLetter, EndOfBatch,
           IsolateRecord
  <1> QED BY <1>1, <1>2, <1>3, <1>4, <1>5, <1>6, <1>7 DEF BatchStep

LEMMA HolderStep == ASSUME DeliveryInv, HolderInv, Next PROVE HolderInv'
  <1>0. TypeOK /\ \A d \in Consumers : LockOK(d) /\ BatchOK(d) /\ ReadOK(d) /\ HolderOK(d)
    BY DEF DeliveryInv, HolderInv
  <1> USE DEF kafkaVars, groupVars, readVars, batchVars, memoVars
  <1>1. CASE \/ \E t \in Topics : NewTopic(t) \/ Register(t) \/ Produce(t)
             \/ ClickHouseDown \/ ClickHouseUp
    <2>1. UNCHANGED <<owner, committed, members, joined, revoking, pc, assigned, position,
                      fetched, todo>>
      BY <1>1 DEF NewTopic, Register, Produce, ClickHouseDown, ClickHouseUp
    <2> QED BY <1>0, <2>1 DEF HolderInv, HolderOK, Current, Busy
  <1>2. CASE CompleteRebalance
    <2>1. /\ UNCHANGED <<committed, members, revoking, pc, assigned, position, fetched, todo>>
          /\ joined = members /\ phase = "rebalancing"
      BY <1>2 DEF CompleteRebalance
    <2>2. \A d \in Consumers : Current(d)' => pc[d] = "down"
      BY <1>0, <2>1 DEF LockOK, Current, Busy
    <2> QED BY <1>0, <2>1, <2>2 DEF HolderInv, HolderOK
  <1>3. ASSUME NEW c \in Consumers, Start(c) \/ Join(c) PROVE HolderInv'
    <2>1. /\ UNCHANGED <<owner, committed, assigned, position, fetched, todo>>
          /\ Enter(c) /\ pc'[c] # "down"
          /\ \A d \in Consumers \ {c} : pc'[d] = pc[d] /\ revoking'[d] = revoking[d]
      BY <1>0, <1>3 DEF Start, Join, LockFree, TypeOK
    <2>2. \A d \in Consumers : Current(d)' => Current(d)
      BY <2>1 DEF Current, Busy, Enter
    <2> QED BY <1>0, <2>1, <2>2 DEF HolderInv, HolderOK
  <1>4. ASSUME NEW c \in Consumers, BeginRevoke(c) \/ Kick(c) \/ ExpireDead(c) PROVE HolderInv'
    <2>1. /\ UNCHANGED <<owner, committed, pc, assigned, position, fetched, todo>>
          /\ members' \ joined' \subseteq members \ joined
          /\ \A d \in Consumers : revoking[d] => revoking'[d]
      BY <1>0, <1>4 DEF BeginRevoke, Kick, ExpireDead, Leave, LockOK, TypeOK
    <2>2. \A d \in Consumers : Current(d)' => Current(d)
      BY <1>0, <2>1 DEF Current, Busy
    <2> QED BY <1>0, <2>1, <2>2 DEF HolderInv, HolderOK
  <1>5. ASSUME NEW c \in Consumers, Assign(c) PROVE HolderInv'
    <2>1. /\ UNCHANGED <<owner, committed, members, joined, pc, todo>>
          /\ assigned' = [assigned EXCEPT ![c] = {t \in Topics : owner[t] = c}]
          /\ position' = [position EXCEPT ![c] = committed]
          /\ fetched' = [fetched EXCEPT ![c] = committed]
          /\ revoking' = [revoking EXCEPT ![c] = FALSE]
          /\ revoking[c] /\ phase = "stable" /\ c \in members
      BY <1>5 DEF Assign, StartOffsets
    <2>2. ASSUME NEW d \in Consumers \ {c} PROVE HolderOK(d)'
      <3>1. /\ assigned'[d] = assigned[d] /\ position'[d] = position[d]
            /\ fetched'[d] = fetched[d] /\ revoking'[d] = revoking[d]
        BY <1>0, <2>1 DEF TypeOK
      <3> QED BY <1>0, <2>1, <3>1 DEF HolderOK, Current, Busy
    <2>3. /\ assigned'[c] = {t \in Topics : owner[t] = c}
          /\ position'[c] = committed /\ fetched'[c] = committed /\ pc[c] # "down"
      BY <1>0, <2>1 DEF TypeOK, LockOK
    <2>4. \A t \in Topics : committed[t] =< committed[t]
      BY <1>0 DEF TypeOK
    <2>5. HolderOK(c)'
      BY <2>1, <2>3, <2>4 DEF HolderOK
    <2> QED BY <2>2, <2>5 DEF HolderInv
  <1>6. ASSUME NEW c \in Consumers, Crash(c) \/ Stop(c) PROVE HolderInv'
    <2>1. /\ UNCHANGED <<owner, committed>> /\ Forget(c)
          /\ pc' = [pc EXCEPT ![c] = "down"]
          /\ (UNCHANGED members /\ UNCHANGED joined) \/ Leave(c)
      BY <1>6 DEF Crash, Stop
    <2>2. ASSUME NEW d \in Consumers \ {c} PROVE HolderOK(d)'
      <3>1. /\ assigned'[d] = assigned[d] /\ position'[d] = position[d] /\ pc'[d] = pc[d]
            /\ fetched'[d] = fetched[d] /\ revoking'[d] = revoking[d] /\ todo'[d] = todo[d]
        BY <1>0, <2>1 DEF TypeOK, Forget
      <3>2. Current(d)' => Current(d)
        BY <2>1, <3>1 DEF Current, Busy, Leave
      <3> QED BY <1>0, <2>1, <3>1, <3>2 DEF HolderOK
    <2>3. assigned'[c] = {}
      BY <1>0, <2>1 DEF TypeOK, Forget
    <2>4. HolderOK(c)'
      BY <2>3 DEF HolderOK
    <2> QED BY <2>2, <2>4 DEF HolderInv
  <1>7. ASSUME NEW c \in Consumers, Poll(c) PROVE HolderInv'
    <2>1. PICK upTo \in [assigned[c] -> 0 .. MaxLog] :
          /\ \A t \in assigned[c] : upTo[t] \in position[c][t] .. Len(log[t])
          /\ fetched' = [fetched EXCEPT ![c] = position[c]]
          /\ position' = [position EXCEPT ![c] =
                [t \in Topics |-> IF t \in assigned[c] THEN upTo[t] ELSE position[c][t]]]
          /\ todo' = [todo EXCEPT ![c] = {t \in assigned[c] : upTo[t] > position[c][t]}]
      BY <1>7 DEF Poll
    <2>2. /\ UNCHANGED <<owner, committed, members, joined, revoking, assigned>>
          /\ pc[c] = "idle" /\ ~revoking[c] /\ pc' = [pc EXCEPT ![c] = "route"]
      BY <1>7 DEF Poll
    <2>3. ASSUME NEW d \in Consumers \ {c} PROVE HolderOK(d)'
      <3>1. /\ position'[d] = position[d] /\ pc'[d] = pc[d]
            /\ fetched'[d] = fetched[d] /\ todo'[d] = todo[d]
        BY <1>0, <2>1, <2>2 DEF TypeOK
      <3> QED BY <1>0, <2>2, <3>1 DEF HolderOK, Current, Busy
    <2>4. /\ pc'[c] = "route" /\ fetched'[c] = position[c]
          /\ \A t \in assigned[c] : position'[c][t] = upTo[t]
      BY <1>0, <2>1, <2>2 DEF TypeOK
    <2>5. Current(c)' => Current(c)
      BY <2>2 DEF Current
    <2>6. \A t \in assigned[c] : /\ committed[t] \in Nat /\ position[c][t] \in Nat
                                 /\ upTo[t] \in Nat /\ position[c][t] =< upTo[t]
      BY <1>0, <2>1 DEF TypeOK
    <2>7. HolderOK(c)'
      BY <1>0, <2>2, <2>4, <2>5, <2>6 DEF HolderOK
    <2> QED BY <2>3, <2>7 DEF HolderInv
  <1>8. ASSUME NEW c \in Consumers, BatchStep(c) PROVE HolderInv'
    <2>1. \A d \in Consumers : /\ Current(d)' => Current(d)
                               /\ pc'[d] = "down" => pc[d] = "down"
                               /\ todo'[d] \subseteq todo[d]
      BY <1>0, <1>8, BatchStepFrame DEF Current, Busy
    <2> QED BY <1>0, <1>8, <2>1, BatchStepFrame, HolderFrame DEF HolderInv
  <1>9. ASSUME NEW c \in Consumers, Commit(c) PROVE HolderInv'
    <2>1. /\ UNCHANGED <<owner, members, joined, revoking, assigned, position, fetched, todo>>
          /\ pc[c] = "commit" /\ pc' = [pc EXCEPT ![c] = "idle"]
          /\ todo[c] = {} /\ offsets[c] \subseteq assigned[c] /\ Busy(c)
      BY <1>0, <1>9 DEF Commit, BatchOK, Busy
    <2>2. \A t \in Topics : \/ committed'[t] = committed[t]
                            \/ /\ t \in offsets[c] /\ CommitAccepted(c)
                               /\ committed'[t] = position[c][t]
      BY <1>9 DEF Commit
    <2>3. \A t \in Topics : position[c][t] =< position[c][t]
      BY <1>0 DEF TypeOK
    <2>4. SUFFICES ASSUME NEW d \in Consumers PROVE HolderOK(d)'
      BY DEF HolderInv
    <2>5. Current(d)' => Current(d)
      BY <1>0, <2>1 DEF Current, Busy, TypeOK
    <2>6. assigned[d] \subseteq Topics /\ (pc'[d] = "down" => pc[d] = "down")
      BY <1>0, <2>1 DEF TypeOK
    <2>7. ASSUME NEW t \in assigned[d], Current(d), committed'[t] # committed[t]
          PROVE  d = c
      <3>1. CommitAccepted(c) /\ t \in assigned[c]
        BY <2>1, <2>2, <2>6, <2>7
      <3>2. Current(c)
        BY <2>1, <3>1 DEF CommitAccepted, Current
      <3> QED BY <1>0, <2>7, <3>1, <3>2 DEF HolderOK
    <2> QED BY <1>0, <2>1, <2>2, <2>3, <2>5, <2>6, <2>7 DEF HolderOK
  <1> QED
    BY <1>1, <1>2, <1>3, <1>4, <1>5, <1>6, <1>7, <1>8, <1>9 DEF Next, Process, BatchStep

LEMMA HolderStutter == ASSUME HolderInv, UNCHANGED vars PROVE HolderInv'
  BY DEF HolderInv, HolderOK, Current, Busy, vars, kafkaVars, readVars, batchVars

LEMMA InitHolderInv == Init => HolderInv
  BY DEF Init, HolderInv, HolderOK

\* Whoever holds an assignment of the current generation owns its topics, and
\* nobody has committed past where it reads.
THEOREM HolderInvariant == Spec => []HolderInv
  <1>1. DeliveryInv /\ HolderInv /\ [Next]_vars => HolderInv'
    BY HolderStep, HolderStutter
  <1> QED BY InitHolderInv, <1>1, DeliveryInvariant, PTL DEF Spec

\* No two members of the current generation have a batch of the same topic in
\* hand, whatever rebalances, crashes and kicks came before (main.py, the listener
\* that holds a rebalance while _handle has the lock).
THEOREM OneCommitterHolds == Spec => []OneCommitter
  <1>1. HolderInv => OneCommitter
    BY DEF HolderInv, HolderOK, OneCommitter, CommitAccepted, Current, Busy
  <1> QED BY <1>1, HolderInvariant, PTL

\* A commit never moves an offset back.
LEMMA CommitAdvances ==
  ASSUME DeliveryInv, HolderInv, [Next]_vars
  PROVE  \A t \in Topics : committed'[t] >= committed[t]
  <1>0. TypeOK /\ \A c \in Consumers : BatchOK(c) /\ HolderOK(c)
    BY DEF DeliveryInv, HolderInv
  <1>1. \A t \in Topics : committed[t] \in Nat
    BY <1>0 DEF TypeOK
  <1>2. CASE UNCHANGED committed
    BY <1>1, <1>2
  <1>3. ASSUME NEW c \in Consumers, Commit(c), NEW t \in Topics
        PROVE  committed'[t] >= committed[t]
    <2>1. CASE committed'[t] = committed[t]
      BY <1>1, <2>1
    <2>2. CASE /\ t \in offsets[c] /\ CommitAccepted(c)
               /\ committed'[t] = position[c][t]
      <3>1. Current(c) /\ t \in assigned[c]
        BY <1>0, <1>3, <2>2 DEF Commit, CommitAccepted, Current, Busy, BatchOK
      <3>2. committed[t] =< position[c][t] /\ position[c][t] \in Nat
        BY <1>0, <3>1 DEF HolderOK, TypeOK
      <3> QED BY <1>1, <2>2, <3>2
    <2> QED BY <1>3, <2>1, <2>2 DEF Commit
  <1> QED BY <1>2, <1>3, ReplicaStep DEF vars, kafkaVars

\* The committed offset never moves back: a replica that commits after it was
\* thrown out is refused, and one that is not reads no record the offset has passed.
THEOREM CommitsAdvance == Spec => CommitsOnlyAdvance
  <1>1. DeliveryInv /\ HolderInv /\ [Next]_vars
           => [\A t \in Topics : committed'[t] >= committed[t]]_committed
    BY CommitAdvances
  <1> QED BY <1>1, DeliveryInvariant, HolderInvariant, PTL DEF Spec, CommitsOnlyAdvance

-----------------------------------------------------------------------------
(* What a write has in hand, and what it writes.                                *)

HandsOK == \A c \in Consumers : HandOK(c)

\* A replica that has no write in hand, before or after.
LEMMA EmptyHands ==
  ASSUME TypeOK, HandsOK, NEW c \in Consumers, pc[c] \notin InHand, pc'[c] \notin InHand,
         UNCHANGED <<keep, dead, cur>>,
         \A d \in Consumers \ {c} : pc'[d] = pc[d] /\ position'[d] = position[d]
                                    /\ fetched'[d] = fetched[d]
  PROVE  HandsOK'
  BY DEF HandsOK, HandOK, Batch

\* A write goes on with less in hand than the batch.
LEMMA FullHands ==
  ASSUME TypeOK, HandsOK, NEW c \in Consumers, UNCHANGED <<position, fetched>>,
         pc'[c] \in InHand, cur'[c] = cur[c],
         keep'[c] \cup dead'[c] \subseteq Batch(c, cur[c]), keep'[c] \cap dead'[c] = {},
         \A d \in Consumers \ {c} : pc'[d] = pc[d] /\ keep'[d] = keep[d]
                                    /\ dead'[d] = dead[d] /\ cur'[d] = cur[d]
  PROVE  HandsOK'
  BY DEF HandsOK, HandOK, Batch

\* A write ends, and there is nothing in hand any more.
LEMMA WriteEndsHands ==
  ASSUME TypeOK, HandsOK, NEW c \in Consumers, WriteDone(c) \/ WriteFailed(c),
         UNCHANGED <<position, fetched>>
  PROVE  HandsOK'
  <1>1. /\ pc'[c] = "route" /\ keep'[c] = {} /\ dead'[c] = {}
        /\ \A d \in Consumers \ {c} : pc'[d] = pc[d] /\ keep'[d] = keep[d]
                                      /\ dead'[d] = dead[d] /\ cur'[d] = cur[d]
    BY DEF TypeOK, WriteDone, WriteFailed
  <1> QED BY <1>1 DEF HandsOK, HandOK, Batch, InHand

LEMMA PrepareTableHands ==
  ASSUME TypeOK, HandsOK, NEW c \in Consumers, PrepareTable(c)
  PROVE  HandsOK'
  <1>0. UNCHANGED <<position, fetched>> /\ pc[c] = "table"
    BY TableOutcome DEF readVars
  <1>1. CASE Mapped(c)
    <2> DEFINE unmappable == OfKind(c, "unmappable")
    <2>1. /\ dead' = [dead EXCEPT ![c] = unmappable]
          /\ keep' = [keep EXCEPT ![c] = Batch(c, cur[c]) \ unmappable]
          /\ pc' = [pc EXCEPT ![c] = IF Batch(c, cur[c]) \subseteq unmappable
                                     THEN "deadLetter" ELSE "insert"]
          /\ cur' = cur
      BY <1>1 DEF Mapped
    <2>2. unmappable \subseteq Batch(c, cur[c])
      BY DEF OfKind
    <2> HIDE DEF unmappable
    <2>3. /\ dead'[c] = unmappable /\ keep'[c] = Batch(c, cur[c]) \ unmappable
          /\ pc'[c] \in {"deadLetter", "insert"}
          /\ \A d \in Consumers \ {c} : pc'[d] = pc[d] /\ keep'[d] = keep[d]
                                        /\ dead'[d] = dead[d] /\ cur'[d] = cur[d]
      BY <2>1 DEF TypeOK
    <2> QED BY <1>0, <2>1, <2>2, <2>3, FullHands DEF InHand
  <1>2. CASE WriteFailed(c)
    BY <1>0, <1>2, WriteEndsHands
  <1> QED BY <1>1, <1>2, TableOutcome

LEMMA InsertBatchHands ==
  ASSUME TypeOK, HandsOK, NEW c \in Consumers, InsertBatch(c)
  PROVE  HandsOK'
  <1>0. UNCHANGED <<position, fetched>> /\ pc[c] = "insert"
    BY DEF InsertBatch, readVars
  <1>1. \/ WriteDone(c)
        \/ /\ keep' = [keep EXCEPT ![c] = {}]
           /\ pc' = [pc EXCEPT ![c] = "deadLetter"]
           /\ UNCHANGED <<cur, dead>>
        \/ pc' = [pc EXCEPT ![c] = "isolate"] /\ UNCHANGED <<cur, keep, dead>>
    BY DEF InsertBatch, batchVars
  <1>2. CASE ~WriteDone(c)
    <2>1. /\ pc'[c] \in InHand /\ keep'[c] \subseteq keep[c]
          /\ UNCHANGED <<cur, dead>>
          /\ \A d \in Consumers \ {c} : pc'[d] = pc[d] /\ keep'[d] = keep[d]
      BY <1>1, <1>2 DEF TypeOK, InHand
    <2>2. keep[c] \cup dead[c] \subseteq Batch(c, cur[c]) /\ keep[c] \cap dead[c] = {}
      BY <1>0 DEF HandsOK, HandOK, InHand
    <2>3. /\ keep'[c] \cup dead'[c] \subseteq Batch(c, cur[c])
          /\ keep'[c] \cap dead'[c] = {}
      BY <2>1, <2>2
    <2> QED BY <1>0, <2>1, <2>3, FullHands
  <1> QED BY <1>0, <1>2, WriteEndsHands

LEMMA IsolateRecordHands ==
  ASSUME TypeOK, HandsOK, NEW c \in Consumers, NEW o \in Offsets, IsolateRecord(c, o)
  PROVE  HandsOK'
  <1>0. UNCHANGED <<position, fetched>> /\ pc[c] = "isolate" /\ o \in keep[c]
    BY DEF IsolateRecord, readVars
  <1>1. \/ WriteDone(c)
        \/ \E failed \in {dead[c], dead[c] \cup {o}} :
              /\ keep' = [keep EXCEPT ![c] = @ \ {o}]
              /\ dead' = [dead EXCEPT ![c] = failed]
              /\ pc' = [pc EXCEPT ![c] = IF keep[c] = {o} THEN "deadLetter" ELSE @]
              /\ UNCHANGED cur
    BY DEF IsolateRecord
  <1>2. CASE ~WriteDone(c)
    <2>1. PICK failed \in {dead[c], dead[c] \cup {o}} :
              /\ keep' = [keep EXCEPT ![c] = @ \ {o}]
              /\ dead' = [dead EXCEPT ![c] = failed]
              /\ pc' = [pc EXCEPT ![c] = IF keep[c] = {o} THEN "deadLetter" ELSE @]
              /\ UNCHANGED cur
      BY <1>1, <1>2
    <2>2. /\ pc'[c] \in InHand /\ keep'[c] = keep[c] \ {o} /\ dead'[c] = failed
          /\ \A d \in Consumers \ {c} : pc'[d] = pc[d] /\ keep'[d] = keep[d] /\ dead'[d] = dead[d]
      BY <1>0, <2>1 DEF TypeOK, InHand
    <2>3. keep[c] \cup dead[c] \subseteq Batch(c, cur[c]) /\ keep[c] \cap dead[c] = {}
      BY <1>0 DEF HandsOK, HandOK, InHand
    <2>4. /\ keep'[c] \cup dead'[c] \subseteq Batch(c, cur[c])
          /\ keep'[c] \cap dead'[c] = {}
      BY <1>0, <2>2, <2>3
    <2> QED BY <1>0, <2>1, <2>2, <2>4, FullHands
  <1> QED BY <1>0, <1>2, WriteEndsHands

LEMMA HandsStep == ASSUME DeliveryInv, HandsOK, Next PROVE HandsOK'
  <1>0. TypeOK /\ \A c \in Consumers : LockOK(c)
    BY DEF DeliveryInv
  <1> USE DEF kafkaVars, groupVars, readVars, batchVars, memoVars
  <1>1. CASE UNCHANGED <<pc, readVars, batchVars>>
    BY <1>1 DEF HandsOK, HandOK, Batch
  <1>2. ASSUME NEW c \in Consumers,
               \/ Start(c) \/ Assign(c) \/ Poll(c) \/ EndOfBatch(c) \/ Commit(c)
               \/ \E t \in Topics : RouteTopic(c, t) /\ cur' = cur
        PROVE  HandsOK'
    <2>1. pc[c] \notin InHand /\ pc'[c] \notin InHand
      <3>1. CASE Assign(c)
        BY <1>0, <3>1 DEF Assign, InHand, LockOK, Busy
      <3>2. CASE Poll(c) \/ Commit(c) \/ EndOfBatch(c)
        BY <1>0, <3>2 DEF Poll, Commit, EndOfBatch, InHand, TypeOK
      <3>3. CASE Start(c)
        BY <1>0, <3>3 DEF Start, InHand, TypeOK
      <3>4. ASSUME NEW t \in Topics, RouteTopic(c, t)
            PROVE  pc[c] \notin InHand /\ pc'[c] \notin InHand
        BY <1>0, <3>4 DEF RouteTopic, InHand, TypeOK
      <3> QED BY <1>2, <3>1, <3>2, <3>3, <3>4
    <2>2. UNCHANGED <<keep, dead, cur>>
      BY <1>2 DEF Start, Assign, Poll, EndOfBatch, Commit, RouteTopic
    <2>3. \A d \in Consumers \ {c} : pc'[d] = pc[d] /\ position'[d] = position[d]
                                    /\ fetched'[d] = fetched[d]
      BY <1>0, <1>2 DEF Start, Assign, Poll, EndOfBatch, Commit, RouteTopic, TypeOK
    <2> QED BY <1>0, <2>1, <2>2, <2>3, EmptyHands
  <1>3. ASSUME NEW c \in Consumers, NEW t \in Topics, RouteTopic(c, t), cur' # cur
        PROVE  HandsOK'
    <2>1. /\ cur' = [cur EXCEPT ![c] = t] /\ pc' = [pc EXCEPT ![c] = "table"]
          /\ pc[c] = "route" /\ UNCHANGED <<keep, dead, position, fetched>>
      BY <1>3 DEF RouteTopic
    <2>2. \A d \in Consumers \ {c} : pc'[d] = pc[d] /\ cur'[d] = cur[d]
      BY <1>0, <2>1 DEF TypeOK
    <2>3. pc'[c] = "table"
      BY <1>0, <2>1 DEF TypeOK
    <2> QED BY <2>1, <2>2, <2>3 DEF HandsOK, HandOK, Batch, InHand
  <1>4. ASSUME NEW c \in Consumers, Crash(c) \/ Stop(c) PROVE HandsOK'
    <2>1. /\ pc'[c] = "down" /\ keep'[c] = {} /\ dead'[c] = {}
          /\ \A d \in Consumers \ {c} : /\ pc'[d] = pc[d] /\ keep'[d] = keep[d]
                                        /\ dead'[d] = dead[d] /\ cur'[d] = cur[d]
                                        /\ position'[d] = position[d]
                                        /\ fetched'[d] = fetched[d]
      BY <1>0, <1>4 DEF Crash, Stop, Forget, TypeOK
    <2> QED BY <2>1 DEF HandsOK, HandOK, Batch, InHand
  <1>5. ASSUME NEW c \in Consumers, PrepareTable(c) \/ InsertBatch(c) \/ DeadLetter(c)
        PROVE  HandsOK'
    <2>1. CASE DeadLetter(c)
      BY <1>0, <2>1, WriteEndsHands DEF DeadLetter
    <2> QED BY <1>0, <1>5, <2>1, PrepareTableHands, InsertBatchHands
  <1>6. ASSUME NEW c \in Consumers, NEW o \in Offsets, IsolateRecord(c, o) PROVE HandsOK'
    BY <1>0, <1>6, IsolateRecordHands
  <1>7. CASE \/ \E t \in Topics : NewTopic(t) \/ Register(t) \/ Produce(t)
             \/ ClickHouseDown \/ ClickHouseUp \/ CompleteRebalance
             \/ \E c \in Consumers : BeginRevoke(c) \/ Join(c) \/ Kick(c) \/ ExpireDead(c)
    <2>1. UNCHANGED <<pc, readVars, batchVars>>
      BY <1>7 DEF NewTopic, Register, Produce, ClickHouseDown, ClickHouseUp,
                  CompleteRebalance, BeginRevoke, Join, Kick, ExpireDead
    <2> QED BY <1>1, <2>1
  <1> QED BY <1>2, <1>3, <1>4, <1>5, <1>6, <1>7 DEF Next, Process

\* What a step does to rows, dead letters and set-aside offsets: it only adds, and
\* only offsets that a replica has in its batch.
Adds ==
    \A t \in Topics, o \in Offsets :
        /\ Handled(t, o) => Handled(t, o)'
        /\ o \in setAside[t] => o \in setAside'[t]
        /\ Dealt(t, o)' => Dealt(t, o) \/ \E c \in Consumers : o \in Batch(c, t)

LEMMA NothingAdded ==
  ASSUME UNCHANGED <<rows, dlq, setAside>>
  PROVE  Adds
  BY DEF Adds, Dealt, Handled

LEMMA MovePastAdds ==
  ASSUME TypeOK, NEW c \in Consumers, NEW T \in SUBSET Topics, MovePast(c, T),
         NEW t \in Topics
  PROVE  setAside[t] \subseteq setAside'[t] /\ setAside'[t] \subseteq setAside[t] \cup Batch(c, t)
  BY DEF TypeOK, MovePast

LEMMA InsertAdds ==
  ASSUME TypeOK, NEW c \in Consumers, NEW u \in Topics, NEW S \in SUBSET Offsets,
         NEW n \in Nat, S \subseteq Batch(c, u), rows' = CountIn(rows, u, S, n),
         UNCHANGED <<dlq, setAside>>
  PROVE  Adds
  <1>1. ASSUME NEW t \in Topics, NEW o \in Offsets
        PROVE  /\ rows[t][o] \in Nat /\ dlq[t][o] \in Nat
               /\ rows'[t][o] = IF t = u /\ o \in S THEN rows[t][o] + n ELSE rows[t][o]
    BY DEF TypeOK, CountIn
  <1> QED BY <1>1 DEF Adds, Dealt, Handled

LEMMA DeadLetterAdds ==
  ASSUME TypeOK, HandsOK, NEW c \in Consumers, cur[c] \in Topics, DeadLetter(c)
  PROVE  Adds
  <1>1. PICK n \in 0 .. MaxLostReplies + 1, ok \in BOOLEAN :
        /\ dlq' = CountIn(dlq, cur[c], dead[c], n)
        /\ IF ok THEN WriteDone(c) ELSE WriteFailed(c)
    BY DEF DeadLetter
  <1>2. /\ n \in Nat /\ rows' = rows /\ todo[c] \subseteq Topics
        /\ dead[c] \subseteq Batch(c, cur[c])
    BY <1>1 DEF DeadLetter, HandsOK, HandOK, InHand, TypeOK
  <1>3. ASSUME NEW t \in Topics
        PROVE  setAside[t] \subseteq setAside'[t] /\ setAside'[t] \subseteq setAside[t] \cup Batch(c, t)
    BY <1>1, <1>2, MovePastAdds DEF WriteDone, WriteFailed
  <1>4. ASSUME NEW t \in Topics, NEW o \in Offsets
        PROVE  /\ rows[t][o] \in Nat /\ dlq[t][o] \in Nat
               /\ dlq'[t][o] = IF t = cur[c] /\ o \in dead[c] THEN dlq[t][o] + n
                               ELSE dlq[t][o]
    <2>1. rows[t][o] \in Nat /\ dlq[t][o] \in Nat
      BY DEF TypeOK
    <2>2. dlq' = CountIn(dlq, cur[c], dead[c], n) /\ dlq \in [Topics -> [Offsets -> Nat]]
      BY <1>1 DEF TypeOK
    <2> QED BY <2>1, <2>2 DEF CountIn
  <1> QED BY <1>2, <1>3, <1>4 DEF Adds, Dealt, Handled

LEMMA AddsStep == ASSUME DeliveryInv, HandsOK, Next PROVE Adds
  <1>0. TypeOK /\ \A c \in Consumers : BatchOK(c)
    BY DEF DeliveryInv
  <1> USE DEF kafkaVars, groupVars, readVars, batchVars, memoVars
  <1>1. \A c \in Consumers : Writing(c) => cur[c] \in Topics
    BY <1>0 DEF BatchOK, TypeOK
  <1>2. CASE \/ \E t \in Topics : NewTopic(t) \/ Register(t) \/ Produce(t)
             \/ ClickHouseDown \/ ClickHouseUp \/ CompleteRebalance
             \/ \E c \in Consumers :
                   \/ Start(c) \/ BeginRevoke(c) \/ Join(c) \/ Assign(c) \/ Kick(c)
                   \/ ExpireDead(c) \/ Crash(c) \/ Stop(c)
                   \/ Poll(c) \/ EndOfBatch(c) \/ Commit(c)
    <2>1. UNCHANGED <<rows, dlq, setAside>>
      BY <1>2 DEF NewTopic, Register, Produce, ClickHouseDown, ClickHouseUp,
                  CompleteRebalance, Start, BeginRevoke, Join, Assign, Kick, ExpireDead,
                  Crash, Stop, Poll, EndOfBatch, Commit
    <2> QED BY <2>1, NothingAdded
  <1>3. ASSUME NEW c \in Consumers, UNCHANGED <<rows, dlq>>,
               NEW T \in SUBSET Topics, MovePast(c, T)
        PROVE  Adds
    BY <1>0, <1>3, MovePastAdds DEF Adds, Dealt, Handled
  <1>4. ASSUME NEW c \in Consumers, NEW t \in Topics, RouteTopic(c, t) PROVE Adds
    <2>1. UNCHANGED <<rows, dlq>> /\ (UNCHANGED setAside \/ MovePast(c, {t}))
      BY <1>4 DEF RouteTopic
    <2> QED BY <1>3, <2>1, NothingAdded
  <1>5. ASSUME NEW c \in Consumers, PrepareTable(c) PROVE Adds
    <2>1. UNCHANGED <<rows, dlq>> /\ (UNCHANGED setAside \/ MovePast(c, todo[c]))
      BY <1>5, TableOutcome DEF Mapped, WriteFailed
    <2>2. todo[c] \in SUBSET Topics
      BY <1>0 DEF TypeOK
    <2> QED BY <1>3, <2>1, <2>2, NothingAdded
  <1>6. ASSUME NEW c \in Consumers, InsertBatch(c) PROVE Adds
    <2>1. PICK n \in 0 .. MaxLostReplies + 1 : rows' = CountIn(rows, cur[c], keep[c], n)
      BY <1>6 DEF InsertBatch
    <2>2. /\ n \in Nat /\ UNCHANGED <<dlq, setAside>> /\ cur[c] \in Topics
          /\ keep[c] \in SUBSET Offsets /\ keep[c] \subseteq Batch(c, cur[c])
      BY <1>0, <1>1, <1>6 DEF InsertBatch, WriteDone, HandsOK, HandOK, InHand, Writing, TypeOK
    <2> QED BY <1>0, <2>1, <2>2, InsertAdds
  <1>7. ASSUME NEW c \in Consumers, NEW o \in Offsets, IsolateRecord(c, o) PROVE Adds
    <2>1. PICK n \in 0 .. MaxLostReplies + 1 : rows' = CountIn(rows, cur[c], {o}, n)
      BY <1>7 DEF IsolateRecord
    <2>2. /\ n \in Nat /\ UNCHANGED <<dlq, setAside>> /\ cur[c] \in Topics
          /\ {o} \in SUBSET Offsets /\ {o} \subseteq Batch(c, cur[c])
      BY <1>1, <1>7 DEF IsolateRecord, WriteDone, HandsOK, HandOK, InHand, Writing
    <2> QED BY <1>0, <2>1, <2>2, InsertAdds
  <1>8. ASSUME NEW c \in Consumers, DeadLetter(c) PROVE Adds
    BY <1>0, <1>1, <1>8, DeadLetterAdds DEF DeadLetter, Writing
  <1> QED BY <1>2, <1>4, <1>5, <1>6, <1>7, <1>8 DEF Next, Process

LEMMA HandStep == ASSUME DeliveryInv, HandInv, Next PROVE HandInv'
  <1>1. DeliveryInv' /\ HandsOK /\ HandsOK' /\ Adds
    BY DeliveryStep, HandsStep, AddsStep DEF HandInv, HandsOK
  <1>2. \A t \in Topics : /\ Len(log[t]) \in Nat /\ Len(log'[t]) \in Nat
                          /\ Len(log[t]) =< Len(log'[t])
    <2>1. \A t \in Topics : Len(log[t]) \in Nat /\ Len(log'[t]) \in Nat
      BY <1>1 DEF DeliveryInv, TypeOK
    <2>2. (\E c \in Consumers : Commit(c)) => UNCHANGED log
      BY DEF Commit
    <2> QED BY <2>1, <2>2, ReplicaStep
  <1>3. ASSUME NEW t \in Topics, NEW o \in Offsets, Dealt(t, o)' PROVE o \in Logged(t)'
    <2>1. CASE Dealt(t, o)
      BY <1>2, <2>1 DEF HandInv, WrittenOK, Logged
    <2>2. ASSUME NEW c \in Consumers, o \in Batch(c, t) PROVE o \in Logged(t)'
      <3>1. fetched[c][t] \in Nat /\ position[c][t] \in Nat
        BY DEF DeliveryInv, TypeOK
      <3>2. position[c][t] =< Len(log[t])
        BY DEF DeliveryInv, ReadOK
      <3>3. o \in 0 .. Len(log[t]) - 1
        BY <1>2, <2>2, <3>1, <3>2 DEF Batch
      <3> QED BY <1>2, <3>3 DEF Logged
    <2> QED BY <1>1, <1>3, <2>1, <2>2 DEF Adds
  <1> QED BY <1>1, <1>3 DEF HandInv, HandsOK, WrittenOK

LEMMA HandStutter == ASSUME HandInv, UNCHANGED vars PROVE HandInv'
  BY DEF HandInv, HandOK, WrittenOK, Dealt, Handled, Logged, Batch, vars, kafkaVars,
         readVars, batchVars

LEMMA InitHandInv == Init => HandInv
  BY DEF Init, HandInv, HandOK, WrittenOK, Dealt, Handled, InHand

\* A write has in hand only records of its batch, and what is written or set aside
\* is in the log.
THEOREM HandInvariant == Spec => []HandInv
  <1>1. DeliveryInv /\ HandInv /\ [Next]_vars => HandInv'
    BY HandStep, HandStutter
  <1> QED BY InitHandInv, <1>1, DeliveryInvariant, PTL DEF Spec

-----------------------------------------------------------------------------
(* The pool implements the delivery contract.                                   *)

Delivered == [t \in Topics |-> {o \in Offsets : Handled(t, o)}]

LEMMA InitContract == Init => Contract!Init
  BY DEF Init, NoOffsets, Handled, Contract!Init

\* A record a producer sends.
LEMMA ProduceContract ==
  ASSUME NEW t \in Topics, Produce(t)
  PROVE  Contract!Produce(t)
  <1>1. UNCHANGED <<rows, dlq, setAside, committed>>
    BY DEF Produce
  <1>2. Delivered' = Delivered
    BY <1>1 DEF Delivered, Handled
  <1> QED BY <1>1, <1>2 DEF Produce, Delivered, Contract!Produce

\* A commit, accepted or refused.
LEMMA CommitContract ==
  ASSUME DeliveryInv, HolderInv, Next, NEW c \in Consumers, Commit(c)
  PROVE  Contract!Commit
  <1>1. UNCHANGED <<log, rows, dlq, setAside>>
    BY DEF Commit
  <1>2. Delivered' = Delivered
    BY <1>1 DEF Delivered, Handled
  <1>3. TypeOK' /\ CommittedInRange' /\ NothingLostSilently'
    BY DeliveryStep DEF DeliveryInv
  <1>4. ASSUME NEW t \in Topics, NEW o, o \in 0 .. committed'[t] - 1
        PROVE  o \in Contract!Logged(t) /\ o \in Delivered[t] \cup setAside[t]
    <2>1. /\ committed'[t] \in 0 .. MaxLog /\ Len(log[t]) \in Nat
          /\ committed'[t] =< Len(log[t])
      BY <1>1, <1>3 DEF TypeOK, CommittedInRange
    <2>2. o \in Offsets /\ o \in 0 .. Len(log[t]) - 1
      BY <1>4, <2>1 DEF Offsets
    <2>3. Dealt(t, o)
      BY <1>1, <1>3, <1>4 DEF NothingLostSilently, Dealt, Handled
    <2>4. o \in Delivered[t] \cup setAside[t]
      BY <2>2, <2>3 DEF Delivered, Dealt
    <2> QED BY <2>2, <2>4 DEF Contract!Logged
  <1>5. committed' = [t \in Topics |-> committed'[t]]
    BY <1>3 DEF TypeOK
  <1>6. \A t \in Topics : committed'[t] >= committed[t]
    BY CommitAdvances
  <1> QED BY <1>1, <1>2, <1>4, <1>5, <1>6 DEF Contract!Commit, Delivered

\* Every other step, the writes among them.
LEMMA WriteContract ==
  ASSUME DeliveryInv, HandInv, Next, UNCHANGED <<log, committed>>
  PROVE  Contract!Write
  <1>1. TypeOK' /\ HandInv' /\ Adds
    BY DeliveryStep, HandStep, AddsStep DEF DeliveryInv, HandInv, HandsOK
  <1>2. setAside' = [t \in Topics |-> setAside'[t]]
    BY <1>1 DEF TypeOK
  <1>3. Delivered' = [t \in Topics |-> Delivered'[t]]
    BY DEF Delivered
  <1>4. ASSUME NEW t \in Topics
        PROVE  /\ Delivered[t] \subseteq Delivered'[t] /\ setAside[t] \subseteq setAside'[t]
               /\ Delivered'[t] \cup setAside'[t] \subseteq Contract!Logged(t)
    <2>1. setAside[t] \subseteq Offsets /\ setAside'[t] \subseteq Offsets
      BY <1>1 DEF DeliveryInv, TypeOK
    <2>2. \A o \in Offsets : Dealt(t, o)' => o \in Contract!Logged(t)
      BY <1>1 DEF HandInv, WrittenOK, Logged, Contract!Logged
    <2> QED BY <1>1, <2>1, <2>2 DEF Delivered, Adds, Dealt
  <1> QED BY <1>2, <1>3, <1>4 DEF Contract!Write, Delivered

LEMMA ContractStep ==
  ASSUME DeliveryInv, HolderInv, HandInv, [Next]_vars
  PROVE  [Contract!Next]_(Contract!contractVars)
  <1>1. CASE UNCHANGED vars
    BY <1>1 DEF vars, kafkaVars, Handled, Contract!contractVars
  <1>2. ASSUME NEW t \in Topics, Produce(t) PROVE Contract!Next
    BY <1>2, ProduceContract DEF Contract!Next
  <1>3. ASSUME NEW c \in Consumers, Commit(c), Next PROVE Contract!Next
    BY <1>3, CommitContract DEF Contract!Next
  <1>4. CASE Next /\ UNCHANGED <<log, committed>>
    BY <1>4, WriteContract DEF Contract!Next
  <1>5. \/ UNCHANGED vars \/ UNCHANGED <<log, committed>>
        \/ \E t \in Topics : Produce(t)
        \/ \E c \in Consumers : Commit(c)
    <2>1. ASSUME NEW t \in Topics, NewTopic(t) \/ Register(t)
          PROVE  UNCHANGED <<log, committed>>
      BY <2>1 DEF NewTopic, Register, kafkaVars
    <2>2. CASE ClickHouseDown \/ ClickHouseUp \/ CompleteRebalance
      BY <2>2 DEF ClickHouseDown, ClickHouseUp, CompleteRebalance, kafkaVars
    <2>3. ASSUME NEW c \in Consumers,
                 \/ Start(c) \/ BeginRevoke(c) \/ Join(c) \/ Assign(c)
                 \/ Kick(c) \/ ExpireDead(c) \/ Crash(c) \/ Stop(c) \/ Poll(c)
          PROVE  UNCHANGED <<log, committed>>
      BY <2>3 DEF Start, BeginRevoke, Join, Assign, Kick, ExpireDead, Crash, Stop, Poll,
                  kafkaVars
    <2>4. ASSUME NEW c \in Consumers, BatchStep(c) PROVE UNCHANGED <<log, committed>>
      BY <2>4, BatchStepFrame DEF DeliveryInv
    <2> QED BY <2>1, <2>2, <2>3, <2>4 DEF Next, Process, BatchStep
  <1> QED BY <1>1, <1>2, <1>3, <1>4, <1>5

\* Whatever crashes, kicks, rebalances and outages happen, the pool implements the
\* contract: records are delivered or set aside, and a commit only ever moves
\* forward over such records.
THEOREM PoolImplementsContract == Spec => ImplementsContract
  <1>1. DeliveryInv /\ HolderInv /\ HandInv /\ [Next]_vars
           => [Contract!Next]_(Contract!contractVars)
    BY ContractStep
  <1> QED
    BY InitContract, <1>1, DeliveryInvariant, HolderInvariant, HandInvariant, PTL
       DEF Spec, ImplementsContract, Contract!Spec
=============================================================================
