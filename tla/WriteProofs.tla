------------------------------ MODULE WriteProofs ------------------------------
(* How often a record is written: proofs that every duplicate is paid for, and    *)
(* that without outages only records ClickHouse cannot take are dead letters.    *)
EXTENDS CommitProofs, FiniteSetTheorems

(* The inductive invariants.                                                    *)

\* Who may still write a record. A replica that was thrown out does not notice: it
\* goes on with its batch, and with its old assignment until it joins again.
Detached(c) == c \notin members /\ pc[c] # "down" /\ (Busy(c) \/ ~revoking[c])

Pending(c, t, o) ==
    /\ t \in todo[c] /\ o \in Batch(c, t)
    /\ pc[c] \in InHand /\ cur[c] = t => o \in keep[c] \cup dead[c]

MayWrite(c, t, o) == (t \in assigned[c] /\ o >= position[c][t]) \/ Pending(c, t, o)

Strays(t, o) == {c \in Consumers : Detached(c) /\ MayWrite(c, t, o)}

\* A member that has written a record and is on its way to the commit.
Secures(c, t, o) ==
    /\ Busy(c) /\ c \in members
    /\ \/ t \in offsets[c] /\ o < position[c][t]
       \/ /\ ch = "up" /\ pc[c] \in InHand /\ cur[c] = t
          /\ o \in Batch(c, t) \ (keep[c] \cup dead[c])

\* The group may write the record (again): nobody has committed it or will.
Open(t, o) == o >= committed[t] /\ \A c \in Consumers : ~Secures(c, t, o)

\* Every copy of a record that exists or may still be written is paid for.
Written(t, o) == rows[t][o] + dlq[t][o]
Budget == 1 + used.crash + used.kick + used.lost + used.outage

PaidInv ==
    \A t \in Topics, o \in Offsets :
        /\ IsFiniteSet(Strays(t, o))
        /\ Written(t, o) + Cardinality(Strays(t, o)) + (IF Open(t, o) THEN 1 ELSE 0) =< Budget

\* What is in hand is sorted by what ClickHouse would say of it.
KindOK(c) ==
    /\ \A o \in keep[c] : Kind(cur[c], o) \notin {"unmappable", "huge"}
    /\ \A o \in dead[c] : Kind(cur[c], o) # "good"

KindInv == used.outage = 0 =>
    /\ ch = "up" /\ \A c \in Consumers : KindOK(c)
    /\ OnlyBadRecordsDeadLetter

-----------------------------------------------------------------------------
(* The account of a record.                                                     *)

LEMMA Smaller ==
  ASSUME NEW S, NEW T, IsFiniteSet(S), T \subseteq S
  PROVE  /\ IsFiniteSet(T) /\ Cardinality(T) \in Nat /\ Cardinality(S) \in Nat
         /\ Cardinality(T) =< Cardinality(S)
  BY FS_Subset, FS_CardinalityType

LEMMA OneLess ==
  ASSUME NEW S, NEW T, IsFiniteSet(S), NEW c \in S, T \subseteq S \ {c}
  PROVE  Cardinality(T) + 1 =< Cardinality(S)
  <1>1. /\ IsFiniteSet(S \ {c}) /\ Cardinality(S) \in Nat
        /\ Cardinality(S \ {c}) = Cardinality(S) - 1
    BY FS_RemoveElement, FS_CardinalityType
  <1>2. Cardinality(T) \in Nat /\ Cardinality(T) =< Cardinality(S \ {c})
    BY <1>1, Smaller
  <1> QED BY <1>1, <1>2

LEMMA OneMore ==
  ASSUME NEW S, NEW T, IsFiniteSet(S), NEW c, T \subseteq S \cup {c}
  PROVE  /\ IsFiniteSet(T) /\ Cardinality(T) \in Nat /\ Cardinality(S) \in Nat
         /\ Cardinality(T) =< Cardinality(S) + 1
  <1>1. /\ IsFiniteSet(S \cup {c}) /\ Cardinality(S) \in Nat
        /\ Cardinality(S \cup {c}) \in {Cardinality(S), Cardinality(S) + 1}
    BY FS_AddElement, FS_CardinalityType
  <1>2. IsFiniteSet(T) /\ Cardinality(T) \in Nat /\ Cardinality(T) =< Cardinality(S \cup {c})
    BY <1>1, Smaller
  <1> QED BY <1>1, <1>2

PaidOK(t, o) ==
    /\ IsFiniteSet(Strays(t, o))
    /\ Written(t, o) + Cardinality(Strays(t, o)) + (IF Open(t, o) THEN 1 ELSE 0) =< Budget

LEMMA AccountTypes ==
  ASSUME TypeOK, TypeOK', NEW t \in Topics, NEW o \in Offsets
  PROVE  /\ Written(t, o) \in Nat /\ Budget \in Nat
         /\ Written(t, o)' \in Nat /\ Budget' \in Nat
  <1>1. rows[t][o] \in Nat /\ dlq[t][o] \in Nat /\ rows'[t][o] \in Nat /\ dlq'[t][o] \in Nat
    BY DEF TypeOK
  <1>2. /\ used["crash"] \in Nat /\ used["kick"] \in Nat
        /\ used["lost"] \in Nat /\ used["outage"] \in Nat
        /\ used'["crash"] \in Nat /\ used'["kick"] \in Nat
        /\ used'["lost"] \in Nat /\ used'["outage"] \in Nat
    BY DEF TypeOK, Disturbances
  <1> QED BY <1>1, <1>2 DEF Written, Budget

\* The ways a step may keep the account of a record.
LEMMA Account ==
  ASSUME TypeOK, TypeOK', NEW t \in Topics, NEW o \in Offsets, PaidOK(t, o), NEW c,
         \* nothing new
         \/ /\ Written(t, o)' + Budget =< Written(t, o) + Budget'
            /\ Strays(t, o)' \subseteq Strays(t, o) /\ (Open(t, o)' => Open(t, o))
         \* a disturbance that opens the record again
         \/ /\ Written(t, o)' + Budget + 1 =< Written(t, o) + Budget'
            /\ Strays(t, o)' \subseteq Strays(t, o)
         \* or that leaves a stray behind
         \/ /\ Written(t, o)' + Budget + 1 =< Written(t, o) + Budget'
            /\ Strays(t, o)' \subseteq Strays(t, o) \cup {c} /\ (Open(t, o)' => Open(t, o))
         \* a stray writes
         \/ /\ Written(t, o)' + Budget =< Written(t, o) + 1 + Budget'
            /\ c \in Strays(t, o) /\ Strays(t, o)' \subseteq Strays(t, o) \ {c}
            /\ (Open(t, o)' => Open(t, o))
         \* a member writes, and secures what it has written
         \/ /\ Written(t, o)' + Budget =< Written(t, o) + 1 + Budget'
            /\ Strays(t, o)' \subseteq Strays(t, o) /\ Open(t, o) /\ ~Open(t, o)'
  PROVE  PaidOK(t, o)'
  <1>1. /\ Written(t, o) \in Nat /\ Budget \in Nat /\ Written(t, o)' \in Nat /\ Budget' \in Nat
    BY AccountTypes
  <1> DEFINE S == Strays(t, o)
             debt == IF Open(t, o) THEN 1 ELSE 0
  <1>2. IsFiniteSet(S) /\ Written(t, o) + Cardinality(S) + debt =< Budget
    BY DEF PaidOK
  <1>3. SUFFICES IsFiniteSet(S') /\ Written(t, o)' + Cardinality(S') + debt' =< Budget'
    BY DEF PaidOK
  <1>4. IsFiniteSet(S) => Cardinality(S) \in Nat
    BY FS_CardinalityType
  <1>5. CASE S' \subseteq S
    <2>1. IsFiniteSet(S') /\ Cardinality(S') \in Nat /\ Cardinality(S') =< Cardinality(S)
      BY <1>2, <1>5, Smaller
    <2>2. ASSUME c \in S, S' \subseteq S \ {c} PROVE Cardinality(S') + 1 =< Cardinality(S)
      BY <1>2, <2>2, OneLess
    <2> HIDE DEF S
    <2> QED BY <1>1, <1>2, <1>4, <2>1, <2>2 DEF S
  <1>6. CASE ~(S' \subseteq S)
    <2>1. /\ Written(t, o)' + Budget + 1 =< Written(t, o) + Budget'
          /\ S' \subseteq S \cup {c} /\ (Open(t, o)' => Open(t, o))
      BY <1>6
    <2>2. /\ IsFiniteSet(S') /\ Cardinality(S') \in Nat
          /\ Cardinality(S') =< Cardinality(S) + 1
      BY <1>2, <2>1, OneMore
    <2> HIDE DEF S
    <2> QED BY <1>1, <1>2, <1>4, <2>1, <2>2
  <1> QED BY <1>5, <1>6

-----------------------------------------------------------------------------
(* Steps that write nothing.                                                    *)

\* A replica that a step does not touch.
Same(d) ==
    /\ pc'[d] = pc[d] /\ revoking'[d] = revoking[d] /\ (d \in members' <=> d \in members)
    /\ assigned'[d] = assigned[d] /\ position'[d] = position[d] /\ fetched'[d] = fetched[d]
    /\ todo'[d] = todo[d] /\ cur'[d] = cur[d] /\ keep'[d] = keep[d] /\ dead'[d] = dead[d]
    /\ offsets'[d] = offsets[d]

\* A step of d adds no record to those d may write unnoticed, and takes none back
\* that it was about to commit.
NoStray(d, t, o) == Detached(d)' /\ MayWrite(d, t, o)' => Detached(d) /\ MayWrite(d, t, o)
StaysSecured(d, t, o) == Secures(d, t, o) => Secures(d, t, o)' \/ o < committed'[t]

LEMMA SameReplica ==
  ASSUME NEW d, Same(d), NEW t, NEW o
  PROVE  NoStray(d, t, o) /\ (ch' = "up" \/ ch' = ch => StaysSecured(d, t, o))
  BY DEF Same, NoStray, StaysSecured, Detached, MayWrite, Pending, Secures, Busy, Batch

LEMMA StraysShrink ==
  ASSUME NEW t, NEW o, \A d \in Consumers : NoStray(d, t, o)
  PROVE  Strays(t, o)' \subseteq Strays(t, o)
  BY DEF Strays, NoStray

LEMMA OpenShrinks ==
  ASSUME TypeOK, TypeOK', NEW t \in Topics, NEW o \in Offsets, committed[t] =< committed'[t],
         \A d \in Consumers : StaysSecured(d, t, o)
  PROVE  Open(t, o)' => Open(t, o)
  <1>1. committed[t] \in Nat /\ committed'[t] \in Nat /\ o \in Int
    BY DEF TypeOK, Offsets
  <1> QED BY <1>1 DEF Open, StaysSecured

\* A step of one replica that writes nothing and opens nothing.
LEMMA QuietStep ==
  ASSUME TypeOK, TypeOK', PaidInv, NEW c \in Consumers, UNCHANGED <<ch, rows, dlq>>,
         \A d \in Consumers \ {c} : Same(d),
         \A t \in Topics : committed[t] =< committed'[t],
         Budget =< Budget',
         \A t \in Topics, o \in Offsets : NoStray(c, t, o) /\ StaysSecured(c, t, o)
  PROVE  PaidInv'
  <1> SUFFICES ASSUME NEW t \in Topics, NEW o \in Offsets PROVE PaidOK(t, o)'
    BY DEF PaidInv, PaidOK
  <1>1. \A d \in Consumers : NoStray(d, t, o) /\ StaysSecured(d, t, o)
    BY SameReplica
  <1>2. Strays(t, o)' \subseteq Strays(t, o) /\ (Open(t, o)' => Open(t, o))
    BY <1>1, StraysShrink, OpenShrinks
  <1>3. Written(t, o)' + Budget =< Written(t, o) + Budget'
    <2>1. Written(t, o)' = Written(t, o)
      BY DEF Written
    <2>2. Written(t, o) \in Nat /\ Budget \in Nat /\ Budget' \in Nat
      BY AccountTypes
    <2> QED BY <2>1, <2>2
  <1>4. PaidOK(t, o)
    BY DEF PaidInv, PaidOK
  <1> QED BY <1>2, <1>3, <1>4, Account

LEMMA SpendBudget ==
  ASSUME TypeOK, NEW what \in Disturbances, NEW max, Spend(what, max)
  PROVE  Budget' = IF what = "stop" THEN Budget ELSE Budget + 1
  <1>1. \A w \in Disturbances : /\ used[w] \in Nat
                                /\ used'[w] = IF w = what THEN used[w] + 1 ELSE used[w]
    BY DEF TypeOK, Spend
  <1>2. what = "crash" \/ what = "kick" \/ what = "lost" \/ what = "outage" \/ what = "stop"
    BY DEF Disturbances
  <1>3. /\ used.crash = used["crash"] /\ used.kick = used["kick"]
        /\ used.lost = used["lost"] /\ used.outage = used["outage"]
        /\ used'.crash = used'["crash"] /\ used'.kick = used'["kick"]
        /\ used'.lost = used'["lost"] /\ used'.outage = used'["outage"]
    OBVIOUS
  <1> QED BY <1>1, <1>2, <1>3 DEF Budget, Disturbances

\* Pipelines, producers, the broker, and ClickHouse coming back.
LEMMA OutsidePaid ==
  ASSUME TypeOK, TypeOK', PaidInv,
         \/ \E t \in Topics : NewTopic(t) \/ Register(t) \/ Produce(t)
         \/ ClickHouseUp \/ CompleteRebalance \/ UNCHANGED vars
  PROVE  PaidInv'
  <1>1. /\ UNCHANGED <<committed, rows, dlq, members, pc, revoking, readVars, batchVars, used>>
        /\ ch' = ch \/ ch' = "up"
    BY DEF NewTopic, Register, Produce, ClickHouseUp, CompleteRebalance, vars, kafkaVars,
           groupVars
  <1> SUFFICES ASSUME NEW t \in Topics, NEW o \in Offsets PROVE PaidOK(t, o)'
    BY DEF PaidInv, PaidOK
  <1>2. \A d \in Consumers : Same(d)
    BY <1>1 DEF Same, readVars, batchVars
  <1>3. \A d \in Consumers : NoStray(d, t, o) /\ StaysSecured(d, t, o)
    BY <1>1, <1>2, SameReplica
  <1>4. committed[t] =< committed'[t]
    BY <1>1 DEF TypeOK
  <1>5. Strays(t, o)' \subseteq Strays(t, o) /\ (Open(t, o)' => Open(t, o))
    BY <1>3, <1>4, StraysShrink, OpenShrinks
  <1>6. Written(t, o)' = Written(t, o) /\ Budget' = Budget
    BY <1>1 DEF Written, Budget
  <1>7. PaidOK(t, o) /\ Written(t, o) \in Nat /\ Budget \in Nat
    BY AccountTypes DEF PaidInv, PaidOK
  <1> QED BY <1>5, <1>6, <1>7, Account

\* A replica's part in a rebalance, an orderly stop, and the end of a dead one.
LEMMA GroupPaid ==
  ASSUME DeliveryInv, TypeOK', PaidInv, NEW c \in Consumers,
         \/ Start(c) \/ BeginRevoke(c) \/ Join(c) \/ Assign(c) \/ ExpireDead(c) \/ Stop(c)
  PROVE  PaidInv'
  <1>0. TypeOK /\ LockOK(c)
    BY DEF DeliveryInv
  <1> USE DEF kafkaVars, groupVars, readVars, batchVars, memoVars
  <1>1. UNCHANGED <<ch, rows, dlq, committed>>
    BY DEF Start, BeginRevoke, Join, Assign, ExpireDead, Stop
  <1>2. \A d \in Consumers \ {c} : Same(d)
    <2>1. CASE Start(c) \/ Join(c)
      BY <1>0, <2>1 DEF Start, Join, Enter, Same, TypeOK
    <2>2. CASE BeginRevoke(c)
      BY <1>0, <2>2 DEF BeginRevoke, Same, TypeOK
    <2>3. CASE ExpireDead(c)
      BY <1>0, <2>3 DEF ExpireDead, Leave, Same
    <2>4. CASE Stop(c)
      BY <1>0, <2>4 DEF Stop, Forget, Leave, Same, TypeOK
    <2>5. CASE Assign(c)
      BY <1>0, <2>5 DEF Assign, Same, TypeOK
    <2> QED BY <2>1, <2>2, <2>3, <2>4, <2>5
  <1>3. Budget' = Budget
    <2>1. CASE Stop(c)
      BY <1>0, <2>1, SpendBudget DEF Stop, Disturbances
    <2>2. CASE UNCHANGED used
      BY <2>2 DEF Budget
    <2> QED BY <2>1, <2>2 DEF Start, BeginRevoke, Join, Assign, ExpireDead
  <1>4. ASSUME NEW t \in Topics, NEW o \in Offsets
        PROVE  NoStray(c, t, o) /\ StaysSecured(c, t, o)
    <2>1. CASE BeginRevoke(c)
      BY <1>0, <2>1 DEF BeginRevoke, NoStray, StaysSecured, Detached, MayWrite, Pending,
                        Secures, Busy, Batch, TypeOK
    <2>2. CASE ~BeginRevoke(c)
      <3>1. ~Detached(c)'
        BY <1>0, <2>2 DEF Start, Join, Assign, ExpireDead, Stop, Enter, Detached, LockOK, TypeOK
      <3>2. ~Busy(c)
        BY <1>0, <2>2 DEF Start, Join, LockFree, Assign, ExpireDead, Stop, LockOK, Busy
      <3> QED BY <3>1, <3>2 DEF NoStray, StaysSecured, Secures
    <2> QED BY <2>1, <2>2
  <1>5. Budget =< Budget' /\ \A t \in Topics : committed[t] =< committed'[t]
    <2>1. \A t \in Topics : committed[t] \in Nat
      BY <1>0 DEF TypeOK
    <2>2. Budget \in Nat
      BY <1>0, <1>1 DEF Budget, TypeOK, Disturbances
    <2> QED BY <1>1, <1>3, <2>1, <2>2
  <1> QED BY <1>0, <1>1, <1>2, <1>4, <1>5, QuietStep

LEMMA PollPaid ==
  ASSUME DeliveryInv, TypeOK', PaidInv, NEW c \in Consumers, Poll(c)
  PROVE  PaidInv'
  <1>0. TypeOK
    BY DEF DeliveryInv
  <1> PICK upTo \in [assigned[c] -> 0 .. MaxLog] :
        /\ \A t \in assigned[c] : upTo[t] \in position[c][t] .. Len(log[t])
        /\ fetched' = [fetched EXCEPT ![c] = position[c]]
        /\ position' = [position EXCEPT ![c] =
              [t \in Topics |-> IF t \in assigned[c] THEN upTo[t] ELSE position[c][t]]]
        /\ todo' = [todo EXCEPT ![c] = {t \in assigned[c] : upTo[t] > position[c][t]}]
    BY DEF Poll
  <1>1. /\ UNCHANGED <<ch, rows, dlq, committed, members, revoking, assigned, cur, keep, dead,
                       offsets, used>>
        /\ pc[c] = "idle" /\ ~revoking[c] /\ pc' = [pc EXCEPT ![c] = "route"]
    BY DEF Poll, kafkaVars
  <1>2. \A d \in Consumers \ {c} : Same(d)
    BY <1>0, <1>1 DEF Same, TypeOK
  <1>3. ASSUME NEW t \in Topics, NEW o \in Offsets
        PROVE  NoStray(c, t, o) /\ StaysSecured(c, t, o)
    <2>1. ~Busy(c)
      BY <1>1 DEF Busy
    <2>2. Detached(c)' => Detached(c)
      BY <1>1 DEF Detached, Busy
    <2>3. /\ todo'[c] \subseteq assigned[c] /\ fetched'[c] = position[c] /\ assigned' = assigned
          /\ position'[c][t] = IF t \in assigned[c] THEN upTo[t] ELSE position[c][t]
          /\ position[c][t] \in Nat /\ o \in Int
      BY <1>0, <1>1 DEF TypeOK, Offsets
    <2>4. t \in assigned[c] => position[c][t] =< upTo[t] /\ upTo[t] \in Nat
      BY <2>3
    <2>5. MayWrite(c, t, o)' => MayWrite(c, t, o)
      BY <2>3, <2>4 DEF MayWrite, Pending, Batch
    <2> QED BY <2>1, <2>2, <2>5 DEF NoStray, StaysSecured, Secures
  <1>4. Budget =< Budget' /\ \A t \in Topics : committed[t] =< committed'[t]
    BY <1>0, <1>1 DEF TypeOK, Budget, Disturbances
  <1> QED BY <1>0, <1>1, <1>2, <1>3, <1>4, QuietStep

\* A commit closes what it covers: a busy member is in the current generation.
LEMMA CommitPaid ==
  ASSUME DeliveryInv, HolderInv, TypeOK', PaidInv, NEW c \in Consumers, Commit(c)
  PROVE  PaidInv'
  <1>0. TypeOK /\ LockOK(c) /\ BatchOK(c)
    BY DEF DeliveryInv
  <1>1. /\ UNCHANGED <<ch, rows, dlq, members, revoking, assigned, position, fetched, todo, cur,
                       keep, dead, used>>
        /\ pc[c] = "commit" /\ pc' = [pc EXCEPT ![c] = "idle"]
        /\ offsets' = [offsets EXCEPT ![c] = {}]
    BY DEF Commit, groupVars, readVars
  <1>2. \A d \in Consumers \ {c} : Same(d)
    BY <1>0, <1>1 DEF Same, TypeOK
  <1>3. ASSUME NEW t \in Topics, NEW o \in Offsets
        PROVE  NoStray(c, t, o) /\ StaysSecured(c, t, o)
    <2>1. pc'[c] = "idle" /\ todo[c] = {}
      BY <1>0, <1>1 DEF TypeOK, BatchOK
    <2>2. NoStray(c, t, o)
      BY <1>1, <2>1 DEF NoStray, Detached, MayWrite, Pending, Busy
    <2>3. ASSUME Secures(c, t, o) PROVE o < committed'[t]
      <3>1. c \in members /\ t \in offsets[c] /\ o < position[c][t]
        BY <1>1, <2>3 DEF Secures, InHand
      <3>2. CommitAccepted(c)
        BY <1>0, <1>1, <3>1 DEF CommitAccepted, LockOK, Busy
      <3> QED BY <3>1, <3>2 DEF Commit
    <2> QED BY <2>2, <2>3 DEF StaysSecured
  <1>4. Budget =< Budget'
    BY <1>0, <1>1 DEF TypeOK, Budget, Disturbances
  <1>5. \A t \in Topics : committed[t] =< committed'[t]
    <2>1. \A t \in Topics : committed[t] \in Nat /\ committed'[t] \in Nat
      BY <1>0 DEF TypeOK
    <2>2. \A t \in Topics : committed'[t] >= committed[t]
      BY CommitAdvances DEF Next, Process
    <2> QED BY <2>1, <2>2
  <1> QED BY <1>0, <1>1, <1>2, <1>3, <1>4, <1>5, QuietStep

\* The steps of a batch that write nothing, or give up what is left of it.
LEMMA BatchPaid ==
  ASSUME DeliveryInv, TypeOK', PaidInv, NEW c \in Consumers,
         \/ \E t \in Topics : RouteTopic(c, t)
         \/ PrepareTable(c) \/ EndOfBatch(c)
  PROVE  PaidInv'
  <1>0. TypeOK /\ BatchOK(c)
    BY DEF DeliveryInv
  <1>1. /\ UNCHANGED <<ch, rows, dlq, committed, members, revoking, assigned, position, fetched>>
        /\ UNCHANGED used \/ Spend("outage", MaxOutages)
    BY TableOutcome DEF RouteTopic, EndOfBatch, kafkaVars, readVars
  <1>2. \A d \in Consumers \ {c} : Same(d)
    <2>1. CASE PrepareTable(c)
      <3>1. ASSUME Mapped(c) PROVE \A d \in Consumers \ {c} : Same(d)
        BY <1>0, <1>1, <3>1 DEF Mapped, Same, TypeOK
      <3>2. ASSUME WriteFailed(c) PROVE \A d \in Consumers \ {c} : Same(d)
        BY <1>0, <1>1, <3>2 DEF WriteFailed, Same, TypeOK
      <3> QED BY <2>1, <3>1, <3>2, TableOutcome
    <2>2. ASSUME NEW t \in Topics, RouteTopic(c, t) PROVE \A d \in Consumers \ {c} : Same(d)
      BY <1>0, <1>1, <2>2 DEF RouteTopic, Same, TypeOK
    <2>3. CASE EndOfBatch(c)
      BY <1>0, <1>1, <2>3 DEF EndOfBatch, Same, TypeOK, batchVars
    <2> QED BY <2>1, <2>2, <2>3
  <1>3. /\ Busy(c) /\ pc[c] \notin InHand /\ todo'[c] \subseteq todo[c]
        /\ offsets'[c] = offsets[c] /\ pc'[c] # "down"
        /\ pc'[c] = "idle" => offsets[c] = {}
    <2>1. BatchStep(c) /\ offsets' = offsets /\ pc[c] \in {"route", "table"}
      BY TableOutcome DEF BatchStep, RouteTopic, Mapped, WriteFailed, EndOfBatch, batchVars
    <2>2. pc'[c] = "idle" => offsets[c] = {}
      <3>1. CASE PrepareTable(c)
        <4>1. \E stage \in {"deadLetter", "insert", "route"} : pc' = [pc EXCEPT ![c] = stage]
          BY <3>1, TableOutcome DEF Mapped, WriteFailed
        <4> QED BY <1>0, <4>1 DEF TypeOK
      <3>2. CASE ~PrepareTable(c)
        BY <1>0, <3>2 DEF RouteTopic, EndOfBatch, TypeOK
      <3> QED BY <3>1, <3>2
    <2> QED BY <1>0, <2>1, <2>2, BatchStepFrame DEF InHand
  <1>4. ASSUME NEW t \in Topics, NEW o \in Offsets
        PROVE  NoStray(c, t, o) /\ StaysSecured(c, t, o)
    <2>1. NoStray(c, t, o)
      BY <1>1, <1>3 DEF NoStray, Detached, MayWrite, Pending, Batch, Busy
    <2>2. StaysSecured(c, t, o)
      BY <1>1, <1>3 DEF StaysSecured, Secures, Busy
    <2> QED BY <2>1, <2>2
  <1>5. Budget =< Budget' /\ \A t \in Topics : committed[t] =< committed'[t]
    <2>1. /\ Budget \in Nat
          /\ \A t \in Topics : committed[t] \in Nat
      <3>1. \A w \in {"crash", "kick", "lost", "outage"} : used[w] \in Nat
        BY <1>0 DEF TypeOK, Disturbances
      <3>2. Budget \in Nat
        BY <3>1 DEF Budget
      <3> QED BY <1>0, <3>2 DEF TypeOK
    <2>2. CASE UNCHANGED used
      BY <1>1, <2>1, <2>2 DEF Budget
    <2>3. CASE Spend("outage", MaxOutages)
      <3>1. Budget' = Budget + 1
        BY <1>0, <2>3, SpendBudget DEF Disturbances
      <3> QED BY <1>1, <2>1, <3>1
    <2> QED BY <1>1, <2>2, <2>3
  <1> QED BY <1>0, <1>1, <1>2, <1>4, <1>5, QuietStep

-----------------------------------------------------------------------------
(* Steps that pay for what they open.                                           *)

\* An outage, and the death of a replica, open the records that were about to be
\* committed.
LEMMA ClickHouseDownPaid ==
  ASSUME TypeOK, TypeOK', PaidInv, ClickHouseDown
  PROVE  PaidInv'
  <1> SUFFICES ASSUME NEW t \in Topics, NEW o \in Offsets PROVE PaidOK(t, o)'
    BY DEF PaidInv, PaidOK
  <1>1. UNCHANGED <<rows, dlq, members, pc, revoking, readVars, batchVars>>
    BY DEF ClickHouseDown, kafkaVars
  <1>2. Strays(t, o)' = Strays(t, o) /\ Written(t, o)' = Written(t, o)
    BY <1>1 DEF Strays, Detached, MayWrite, Pending, Batch, Busy, Written, readVars, batchVars
  <1>3. Budget' = Budget + 1
    BY SpendBudget DEF ClickHouseDown, Disturbances
  <1>4. PaidOK(t, o) /\ Written(t, o) \in Nat /\ Budget \in Nat
    BY AccountTypes DEF PaidInv, PaidOK
  <1> QED BY <1>2, <1>3, <1>4, Account

LEMMA CrashPaid ==
  ASSUME TypeOK, TypeOK', PaidInv, NEW c \in Consumers, Crash(c)
  PROVE  PaidInv'
  <1> SUFFICES ASSUME NEW t \in Topics, NEW o \in Offsets PROVE PaidOK(t, o)'
    BY DEF PaidInv, PaidOK
  <1>1. \A d \in Consumers \ {c} : Same(d)
    BY DEF Crash, Forget, Same, TypeOK, kafkaVars
  <1>2. ~Detached(c)'
    BY DEF Crash, Detached, TypeOK
  <1>3. \A d \in Consumers : NoStray(d, t, o)
    BY <1>1, <1>2, SameReplica DEF NoStray
  <1>4. Strays(t, o)' \subseteq Strays(t, o)
    BY <1>3, StraysShrink
  <1>5. Budget' = Budget + 1 /\ Written(t, o)' = Written(t, o)
    BY SpendBudget DEF Crash, Disturbances, Written
  <1>6. PaidOK(t, o) /\ Written(t, o) \in Nat /\ Budget \in Nat
    BY AccountTypes DEF PaidInv, PaidOK
  <1> QED BY <1>4, <1>5, <1>6, Account

\* A replica that is thrown out either may still write a record or was about to
\* commit it, never both.
LEMMA KickPaid ==
  ASSUME DeliveryInv, TypeOK', PaidInv, NEW c \in Consumers, Kick(c)
  PROVE  PaidInv'
  <1>0. TypeOK /\ BatchOK(c)
    BY DEF DeliveryInv
  <1> SUFFICES ASSUME NEW t \in Topics, NEW o \in Offsets PROVE PaidOK(t, o)'
    BY DEF PaidInv, PaidOK
  <1>1. /\ UNCHANGED <<ch, rows, dlq, committed, pc, revoking, assigned, position, fetched, todo,
                       cur, keep, dead, offsets>>
        /\ members' = members \ {c}
    BY DEF Kick, Leave, readVars, batchVars
  <1>2. \A d \in Consumers \ {c} : Same(d)
    BY <1>1 DEF Same
  <1>3. \A d \in Consumers \ {c} : NoStray(d, t, o) /\ StaysSecured(d, t, o)
    BY <1>1, <1>2, SameReplica
  <1>4. Strays(t, o)' \subseteq Strays(t, o) \cup {c}
    BY <1>3 DEF Strays, NoStray
  <1>5. Budget' = Budget + 1 /\ Written(t, o)' = Written(t, o)
    BY <1>0, <1>1, SpendBudget DEF Kick, Disturbances, Written
  <1>6. PaidOK(t, o) /\ Written(t, o) \in Nat /\ Budget \in Nat
    BY <1>0, AccountTypes DEF PaidInv, PaidOK
  <1>7. ASSUME c \in Strays(t, o)' PROVE Open(t, o)' => Open(t, o)
    <2>1. MayWrite(c, t, o)
      BY <1>1, <1>7 DEF Strays, MayWrite, Pending, Batch
    <2>2. position[c][t] \in Nat /\ fetched[c][t] \in Nat /\ o \in Int
      BY <1>0 DEF TypeOK, Offsets
    <2>3. ~Secures(c, t, o)
      BY <1>0, <2>1, <2>2 DEF Secures, MayWrite, Pending, BatchOK, Batch
    <2>4. \A d \in Consumers : StaysSecured(d, t, o)
      BY <1>3, <2>3 DEF StaysSecured
    <2>5. committed[t] =< committed'[t]
      BY <1>0, <1>1 DEF TypeOK
    <2> QED BY <1>0, <2>4, <2>5, OpenShrinks
  <1>8. CASE c \in Strays(t, o)'
    BY <1>0, <1>4, <1>5, <1>6, <1>7, <1>8, Account
  <1>9. CASE c \notin Strays(t, o)'
    <2>1. Strays(t, o)' \subseteq Strays(t, o)
      BY <1>4, <1>9
    <2> QED BY <1>0, <1>5, <1>6, <2>1, Account
  <1> QED BY <1>8, <1>9

-----------------------------------------------------------------------------
(* Writes.                                                                      *)

\* A member with a topic in todo is the only one that could write it: the record
\* is not committed, and nobody else is about to commit it.
LEMMA MemberOpens ==
  ASSUME DeliveryInv, HolderInv, NEW c \in Consumers, NEW t \in Topics, NEW o \in Offsets,
         Busy(c), c \in members, t \in todo[c], o \in Batch(c, t), ~Secures(c, t, o)
  PROVE  Open(t, o)
  <1>0. /\ TypeOK
        /\ \A d \in Consumers : LockOK(d) /\ BatchOK(d) /\ HolderOK(d)
    BY DEF DeliveryInv, HolderInv
  <1>1. \A d \in Consumers : Busy(d) /\ d \in members => Current(d)
    BY <1>0 DEF LockOK, Current
  <1>2. t \in assigned[c] /\ owner[t] = c /\ committed[t] =< fetched[c][t]
    BY <1>0, <1>1 DEF BatchOK, HolderOK
  <1>3. o >= committed[t]
    <2>1. committed[t] \in Nat /\ fetched[c][t] \in Nat /\ position[c][t] \in Nat
      BY <1>0 DEF TypeOK
    <2> QED BY <1>2, <2>1 DEF Batch
  <1>4. ASSUME NEW d \in Consumers, Secures(d, t, o) PROVE d = c
    <2>1. Busy(d) /\ d \in members /\ (t \in offsets[d] \/ (pc[d] \in InHand /\ cur[d] = t))
      BY <1>4 DEF Secures
    <2>2. t \in assigned[d]
      BY <1>0, <2>1 DEF BatchOK, Writing, InHand
    <2>3. owner[t] = d
      BY <1>0, <1>1, <2>1, <2>2 DEF HolderOK
    <2> QED BY <1>2, <2>3
  <1> QED BY <1>3, <1>4 DEF Open

\* How a write step leaves the replica: the topic's write has returned, it has
\* raised, or it goes on with what is left in hand.
Returned(c) ==
    /\ pc'[c] = "route" /\ todo'[c] = todo[c] \ {cur[c]}
    /\ offsets'[c] = offsets[c] \cup {cur[c]}

Raised(c) == ch = "down" /\ pc'[c] = "route" /\ todo'[c] = {} /\ offsets'[c] = offsets[c]

GoesOn(c, W, n) ==
    /\ pc'[c] \in InHand /\ cur'[c] = cur[c] /\ todo'[c] = todo[c]
    /\ offsets'[c] = offsets[c]
    /\ keep'[c] \cup dead'[c] \subseteq keep[c] \cup dead[c]
    /\ n > 0 /\ ch = "up" => W \cap (keep'[c] \cup dead'[c]) = {}

\* A write of the records W, applied n times. More than once, or to a ClickHouse
\* that has gone, costs a lost reply.
Writes(c, W, n) ==
    /\ pc[c] \in InHand /\ W \subseteq keep[c] \cup dead[c]
    /\ \A t \in Topics, o \in Offsets :
          Written(t, o)' = Written(t, o) + (IF t = cur[c] /\ o \in W THEN n ELSE 0)
    /\ n + Budget =< (IF ch = "up" /\ n > 0 THEN 1 ELSE 0) + Budget'
    /\ UNCHANGED <<ch, committed, members, revoking, assigned, position, fetched>>
    /\ \A d \in Consumers \ {c} : Same(d)
    /\ Returned(c) \/ Raised(c) \/ GoesOn(c, W, n)

LEMMA WritesFrame ==
  ASSUME DeliveryInv, NEW c \in Consumers, NEW W, NEW n \in Nat, Writes(c, W, n),
         NEW t \in Topics, NEW o \in Offsets
  PROVE  NoStray(c, t, o) /\ StaysSecured(c, t, o)
  <1>0. TypeOK /\ BatchOK(c)
    BY DEF DeliveryInv
  <1>1. /\ Busy(c) /\ pc[c] \in InHand /\ pc'[c] # "down" /\ pc'[c] # "idle"
        /\ UNCHANGED <<ch, committed, members, revoking, assigned, position, fetched>>
        /\ Batch(c, t)' = Batch(c, t)
    BY DEF Writes, Returned, Raised, GoesOn, Busy, InHand, Batch
  <1>2. Pending(c, t, o)' => Pending(c, t, o)
    <2>1. CASE Returned(c)
      BY <1>1, <2>1 DEF Returned, Pending
    <2>2. CASE Raised(c)
      BY <2>2 DEF Raised, Pending
    <2>3. CASE GoesOn(c, W, n)
      BY <1>1, <2>3 DEF GoesOn, Pending
    <2> QED BY <2>1, <2>2, <2>3 DEF Writes
  <1>3. NoStray(c, t, o)
    BY <1>1, <1>2 DEF NoStray, Detached, MayWrite, Busy
  <1>4. ASSUME Secures(c, t, o) PROVE Secures(c, t, o)'
    <2>1. CASE t \in offsets[c] /\ o < position[c][t]
      <3>1. t \in offsets'[c]
        BY <2>1 DEF Writes, Returned, Raised, GoesOn
      <3> QED BY <1>1, <1>4, <2>1, <3>1 DEF Secures, Busy
    <2>2. CASE ch = "up" /\ cur[c] = t /\ o \in Batch(c, t) \ (keep[c] \cup dead[c])
      <3>1. o < position[c][t]
        BY <1>0, <2>2 DEF TypeOK, Batch
      <3>2. CASE Returned(c)
        BY <1>1, <1>4, <2>2, <3>1, <3>2 DEF Returned, Secures, Busy
      <3>3. CASE GoesOn(c, W, n)
        BY <1>1, <1>4, <2>2, <3>3 DEF GoesOn, Secures, Busy
      <3> QED BY <2>2, <3>2, <3>3 DEF Writes, Raised
    <2> QED BY <1>4, <2>1, <2>2 DEF Secures
  <1> QED BY <1>3, <1>4 DEF StaysSecured

\* A record that is written to a ClickHouse that answers is out of hand, and will
\* be committed if the replica is still a member.
LEMMA WritesRecord ==
  ASSUME DeliveryInv, HolderInv, HandsOK, NEW c \in Consumers, NEW W, NEW n \in Nat,
         Writes(c, W, n), NEW t \in Topics, NEW o \in Offsets,
         t = cur[c], o \in W, n > 0, ch = "up"
  PROVE  IF c \in members THEN Open(t, o) /\ ~Open(t, o)'
         ELSE c \in Strays(t, o) /\ c \notin Strays(t, o)'
  <1>0. TypeOK /\ BatchOK(c)
    BY DEF DeliveryInv
  <1>1. /\ Busy(c) /\ pc[c] \in InHand /\ pc'[c] # "down" /\ pc'[c] # "idle"
        /\ UNCHANGED <<ch, committed, members, revoking, assigned, position, fetched>>
        /\ Batch(c, t)' = Batch(c, t) /\ o \in keep[c] \cup dead[c]
    BY DEF Writes, Returned, Raised, GoesOn, Busy, InHand, Batch
  <1>2. t \in todo[c] /\ t \notin offsets[c] /\ o \in Batch(c, t)
    BY <1>0, <1>1 DEF BatchOK, Writing, InHand, HandsOK, HandOK
  <1>3. position[c][t] \in Nat /\ o < position[c][t] /\ ~(o >= position[c][t])
    BY <1>0, <1>2 DEF TypeOK, Batch
  <1>4. \/ Returned(c)
        \/ GoesOn(c, W, n) /\ o \notin keep'[c] \cup dead'[c]
    BY DEF Writes, Raised, GoesOn
  <1>5. CASE c \in members
    <2>1. ~Secures(c, t, o)
      BY <1>1, <1>2 DEF Secures
    <2>2. Open(t, o)
      BY <1>1, <1>2, <1>5, <2>1, MemberOpens
    <2>3. Secures(c, t, o)'
      <3>1. CASE Returned(c)
        BY <1>1, <1>3, <1>5, <3>1 DEF Returned, Secures, Busy
      <3>2. CASE GoesOn(c, W, n) /\ o \notin keep'[c] \cup dead'[c]
        BY <1>1, <1>2, <1>5, <3>2 DEF GoesOn, Secures, Busy
      <3> QED BY <1>4, <3>1, <3>2
    <2> QED BY <1>5, <2>2, <2>3 DEF Open
  <1>6. CASE c \notin members
    <2>1. c \in Strays(t, o)
      BY <1>1, <1>2, <1>6 DEF Strays, Detached, MayWrite, Pending, Busy
    <2>2. ~MayWrite(c, t, o)'
      <3>1. CASE Returned(c)
        BY <1>1, <1>3, <3>1 DEF Returned, MayWrite, Pending
      <3>2. CASE GoesOn(c, W, n) /\ o \notin keep'[c] \cup dead'[c]
        BY <1>1, <1>3, <3>2 DEF GoesOn, MayWrite, Pending
      <3> QED BY <1>4, <3>1, <3>2
    <2> QED BY <1>6, <2>1, <2>2 DEF Strays
  <1> QED BY <1>5, <1>6

\* x copies of a record that was written n times, y of them the first.
LEMMA Sums ==
  ASSUME NEW w \in Nat, NEW w1 \in Nat, NEW b \in Nat, NEW b1 \in Nat, NEW n \in Nat,
         NEW x \in {0, n}, NEW y \in {0, 1}, y = 1 => n > 0,
         w1 = w + x, n + b =< y + b1
  PROVE  /\ w1 + b =< w + 1 + b1
         /\ x = 0 \/ y = 0 => w1 + b =< w + b1
  OBVIOUS

LEMMA WritesPaid ==
  ASSUME DeliveryInv, HolderInv, HandsOK, TypeOK', PaidInv, NEW c \in Consumers,
         NEW W, NEW n \in Nat, Writes(c, W, n)
  PROVE  PaidInv'
  <1>0. TypeOK
    BY DEF DeliveryInv
  <1> SUFFICES ASSUME NEW t \in Topics, NEW o \in Offsets PROVE PaidOK(t, o)'
    BY DEF PaidInv, PaidOK
  <1>1. ch' = ch /\ committed' = committed
    BY DEF Writes
  <1>2. \A d \in Consumers : NoStray(d, t, o) /\ StaysSecured(d, t, o)
    BY <1>1, SameReplica, WritesFrame DEF Writes
  <1>3. committed[t] =< committed'[t]
    BY <1>0, <1>1 DEF TypeOK
  <1>4. Strays(t, o)' \subseteq Strays(t, o) /\ (Open(t, o)' => Open(t, o))
    BY <1>0, <1>2, <1>3, StraysShrink, OpenShrinks
  <1>5. /\ Written(t, o) \in Nat /\ Budget \in Nat /\ Written(t, o)' \in Nat
        /\ Budget' \in Nat
    BY <1>0, AccountTypes
  <1>6. PaidOK(t, o)
    BY DEF PaidInv, PaidOK
  <1>7. PICK x \in {0, n}, y \in {0, 1} :
           /\ x = IF t = cur[c] /\ o \in W THEN n ELSE 0
           /\ y = IF ch = "up" /\ n > 0 THEN 1 ELSE 0
    OBVIOUS
  <1>8. Written(t, o)' = Written(t, o) + x /\ n + Budget =< y + Budget'
    BY <1>7 DEF Writes
  <1>9. /\ Written(t, o)' + Budget =< Written(t, o) + 1 + Budget'
        /\ x = 0 \/ y = 0 => Written(t, o)' + Budget =< Written(t, o) + Budget'
    <2>1. y = 1 => n > 0
      BY <1>7
    <2> QED BY <1>5, <1>8, <2>1, Sums
  <1>10. CASE x = 0 \/ y = 0
    BY <1>0, <1>4, <1>6, <1>9, <1>10, Account
  <1>11. CASE ~(x = 0 \/ y = 0)
    <2>1. t = cur[c] /\ o \in W /\ n > 0 /\ ch = "up"
      BY <1>7, <1>11
    <2>2. CASE c \in members
      BY <1>0, <1>4, <1>6, <1>9, <2>1, <2>2, WritesRecord, Account
    <2>3. CASE c \notin members
      <3>1. c \in Strays(t, o) /\ Strays(t, o)' \subseteq Strays(t, o) \ {c}
        BY <1>4, <2>1, <2>3, WritesRecord
      <3> QED BY <1>0, <1>4, <1>6, <1>9, <3>1, Account
    <2> QED BY <2>2, <2>3
  <1> QED BY <1>10, <1>11

\* What execute() costs, and what its answer says of ClickHouse.
LEMMA ExecutePaid ==
  ASSUME TypeOK, TypeOK', NEW accepted, NEW n \in Nat, NEW ok, Execute(accepted, n, ok)
  PROVE  /\ n + Budget =< (IF ch = "up" /\ n > 0 THEN 1 ELSE 0) + Budget'
         /\ n > 0 /\ ch = "up" => ok
         /\ accepted /\ ~ok => ch = "down"
  <1>1. \A w \in {"crash", "kick", "lost", "outage"} : used[w] \in Nat
    BY DEF TypeOK, Disturbances
  <1>2. Budget \in Nat /\ (UNCHANGED used => Budget' = Budget)
    BY <1>1 DEF Budget
  <1>3. ASSUME NEW k \in Nat, Lose(k) PROVE Budget' = Budget + k
    BY <1>1, <1>3 DEF Lose, Budget, TypeOK, Disturbances
  <1>4. n > 0 /\ Lose(n - 1) => Budget' = Budget + (n - 1)
    <2>1. n > 0 => n - 1 \in Nat
      OBVIOUS
    <2> QED BY <1>3, <2>1
  <1>5. Lose(n) => Budget' = Budget + n
    BY <1>3
  <1>6. \/ ch = "up" /\ n > 0 /\ Lose(n - 1)
        \/ ch = "down" /\ Lose(n)
        \/ n = 0 /\ UNCHANGED used
    BY DEF Execute
  <1>7. n + Budget =< (IF ch = "up" /\ n > 0 THEN 1 ELSE 0) + Budget'
    BY <1>2, <1>4, <1>5, <1>6
  <1> QED BY <1>7 DEF Execute

LEMMA WriteCounts ==
  ASSUME TypeOK, NEW u \in Topics, NEW W, NEW n \in Nat,
         \/ rows' = CountIn(rows, u, W, n) /\ dlq' = dlq
         \/ dlq' = CountIn(dlq, u, W, n) /\ rows' = rows,
         NEW t \in Topics, NEW o \in Offsets
  PROVE  Written(t, o)' = Written(t, o) + (IF t = u /\ o \in W THEN n ELSE 0)
  <1>1. rows[t][o] \in Nat /\ dlq[t][o] \in Nat
    BY DEF TypeOK
  <1>2. CASE rows' = CountIn(rows, u, W, n) /\ dlq' = dlq
    BY <1>1, <1>2 DEF TypeOK, CountIn, Written
  <1>3. CASE dlq' = CountIn(dlq, u, W, n) /\ rows' = rows
    BY <1>1, <1>3 DEF TypeOK, CountIn, Written
  <1> QED BY <1>2, <1>3

\* What a replica that is writing has in hand.
LEMMA InHandFacts ==
  ASSUME DeliveryInv, HandsOK, NEW c \in Consumers, pc[c] \in InHand
  PROVE  /\ cur[c] \in Topics /\ keep[c] \cap dead[c] = {}
         /\ keep[c] \subseteq Offsets /\ dead[c] \subseteq Offsets
  BY DEF DeliveryInv, TypeOK, BatchOK, Writing, InHand, HandsOK, HandOK

LEMMA InsertBatchWrites ==
  ASSUME DeliveryInv, HandsOK, TypeOK', NEW c \in Consumers, InsertBatch(c)
  PROVE  \E n \in Nat : Writes(c, keep[c], n)
  <1>0. TypeOK /\ pc[c] = "insert" /\ pc[c] \in InHand
    BY DEF DeliveryInv, InsertBatch, InHand
  <1>1. PICK n \in Nat, ok \in BOOLEAN :
        /\ Execute(Accepted(cur[c], keep[c]), n, ok)
        /\ rows' = CountIn(rows, cur[c], keep[c], n)
        /\ \/ ok /\ dead[c] = {} /\ WriteDone(c)
           \/ /\ ok /\ dead[c] # {}
              /\ keep' = [keep EXCEPT ![c] = {}]
              /\ pc' = [pc EXCEPT ![c] = "deadLetter"]
              /\ UNCHANGED <<todo, cur, dead, offsets, setAside>>
           \/ /\ ~ok
              /\ pc' = [pc EXCEPT ![c] = "isolate"]
              /\ UNCHANGED <<batchVars, setAside>>
    BY DEF InsertBatch
  <1>2. UNCHANGED <<ch, committed, members, revoking, assigned, position, fetched, dlq>>
    BY DEF InsertBatch, kafkaVars, groupVars, readVars
  <1>3. cur[c] \in Topics /\ keep[c] \cap dead[c] = {} /\ keep[c] \in SUBSET Offsets
    BY <1>0, InHandFacts
  <1>4. \A t \in Topics, o \in Offsets :
           Written(t, o)' = Written(t, o) + (IF t = cur[c] /\ o \in keep[c] THEN n ELSE 0)
    <2>1. rows' = CountIn(rows, cur[c], keep[c], n) /\ dlq' = dlq
      BY <1>1, <1>2
    <2> QED BY <1>0, <1>3, <2>1, WriteCounts
  <1>5. /\ n + Budget =< (IF ch = "up" /\ n > 0 THEN 1 ELSE 0) + Budget'
        /\ n > 0 /\ ch = "up" => ok
    BY <1>0, <1>1, ExecutePaid
  <1>6. \A d \in Consumers \ {c} : Same(d)
    BY <1>0, <1>1, <1>2 DEF Same, TypeOK, WriteDone, batchVars
  <1>7. Returned(c) \/ Raised(c) \/ GoesOn(c, keep[c], n)
    <2>1. CASE ok /\ dead[c] = {} /\ WriteDone(c)
      BY <1>0, <2>1 DEF TypeOK, WriteDone, Returned
    <2>2. CASE /\ ok /\ dead[c] # {}
               /\ keep' = [keep EXCEPT ![c] = {}]
               /\ pc' = [pc EXCEPT ![c] = "deadLetter"]
               /\ UNCHANGED <<todo, cur, dead, offsets, setAside>>
      BY <1>0, <1>3, <2>2 DEF TypeOK, GoesOn, InHand
    <2>3. CASE /\ ~ok
               /\ pc' = [pc EXCEPT ![c] = "isolate"]
               /\ UNCHANGED <<batchVars, setAside>>
      BY <1>0, <1>5, <2>3 DEF TypeOK, GoesOn, InHand, batchVars
    <2> QED BY <1>1, <2>1, <2>2, <2>3
  <1>8. Writes(c, keep[c], n)
    BY <1>0, <1>2, <1>4, <1>5, <1>6, <1>7 DEF Writes
  <1> QED BY <1>8

LEMMA IsolateRecordWrites ==
  ASSUME DeliveryInv, HandsOK, TypeOK', NEW c \in Consumers, NEW o \in Offsets,
         IsolateRecord(c, o)
  PROVE  \E n \in Nat : Writes(c, {o}, n)
  <1>0. TypeOK /\ pc[c] = "isolate" /\ pc[c] \in InHand /\ o \in keep[c]
    BY DEF DeliveryInv, IsolateRecord, InHand
  <1>1. PICK n \in Nat, ok \in BOOLEAN :
        \E failed \in {dead[c], dead[c] \cup {o}} :
          /\ failed = IF ok THEN dead[c] ELSE dead[c] \cup {o}
          /\ Execute(Accepted(cur[c], {o}), n, ok)
          /\ rows' = CountIn(rows, cur[c], {o}, n)
          /\ \/ keep[c] = {o} /\ failed = {} /\ WriteDone(c)
             \/ /\ keep' = [keep EXCEPT ![c] = @ \ {o}]
                /\ dead' = [dead EXCEPT ![c] = failed]
                /\ pc' = [pc EXCEPT ![c] = IF keep[c] = {o} THEN "deadLetter" ELSE @]
                /\ UNCHANGED <<todo, cur, offsets, setAside>>
    BY DEF IsolateRecord
  <1>2. UNCHANGED <<ch, committed, members, revoking, assigned, position, fetched, dlq>>
    BY DEF IsolateRecord, kafkaVars, groupVars, readVars
  <1>3. cur[c] \in Topics /\ keep[c] \cap dead[c] = {} /\ {o} \in SUBSET Offsets
    BY <1>0, InHandFacts
  <1>4. \A t \in Topics, p \in Offsets :
           Written(t, p)' = Written(t, p) + (IF t = cur[c] /\ p \in {o} THEN n ELSE 0)
    BY <1>0, <1>1, <1>2, <1>3, WriteCounts
  <1>5. /\ n + Budget =< (IF ch = "up" /\ n > 0 THEN 1 ELSE 0) + Budget'
        /\ n > 0 /\ ch = "up" => ok
    BY <1>0, <1>1, ExecutePaid
  <1>6. \A d \in Consumers \ {c} : Same(d)
    BY <1>0, <1>1, <1>2 DEF Same, TypeOK, WriteDone
  <1>7. Returned(c) \/ Raised(c) \/ GoesOn(c, {o}, n)
    <2>1. CASE WriteDone(c)
      BY <1>0, <2>1 DEF TypeOK, WriteDone, Returned
    <2>2. ASSUME NEW failed \in {dead[c], dead[c] \cup {o}},
                 failed = IF ok THEN dead[c] ELSE dead[c] \cup {o},
                 keep' = [keep EXCEPT ![c] = @ \ {o}],
                 dead' = [dead EXCEPT ![c] = failed],
                 pc' = [pc EXCEPT ![c] = IF keep[c] = {o} THEN "deadLetter" ELSE @],
                 UNCHANGED <<todo, cur, offsets, setAside>>
          PROVE  GoesOn(c, {o}, n)
      <3>1. /\ keep'[c] = keep[c] \ {o} /\ dead'[c] = failed
            /\ pc'[c] \in {pc[c], "deadLetter"}
        BY <1>0, <2>2 DEF TypeOK
      <3>2. pc'[c] \in InHand
        BY <1>0, <3>1 DEF InHand
      <3>3. n > 0 /\ ch = "up" => failed = dead[c]
        BY <1>5, <2>2
      <3> QED BY <1>0, <1>3, <2>2, <3>1, <3>2, <3>3 DEF GoesOn
    <2> QED BY <1>1, <2>1, <2>2
  <1>8. Writes(c, {o}, n)
    BY <1>0, <1>2, <1>4, <1>5, <1>6, <1>7 DEF Writes
  <1> QED BY <1>8

LEMMA DeadLetterWrites ==
  ASSUME DeliveryInv, HandsOK, TypeOK', NEW c \in Consumers, DeadLetter(c)
  PROVE  \E n \in Nat : Writes(c, dead[c], n)
  <1>0. TypeOK /\ pc[c] = "deadLetter" /\ pc[c] \in InHand
    BY DEF DeliveryInv, DeadLetter, InHand
  <1>1. PICK n \in 0 .. MaxLostReplies + 1, ok \in BOOLEAN :
        /\ Execute(TRUE, n, ok)
        /\ dlq' = CountIn(dlq, cur[c], dead[c], n)
        /\ IF ok THEN WriteDone(c) ELSE WriteFailed(c)
    BY DEF DeadLetter
  <1>2. UNCHANGED <<ch, committed, members, revoking, assigned, position, fetched, rows>>
    BY DEF DeadLetter, kafkaVars, groupVars, readVars
  <1>3. cur[c] \in Topics /\ dead[c] \in SUBSET Offsets
    BY <1>0, InHandFacts
  <1>4. \A t \in Topics, o \in Offsets :
           Written(t, o)' = Written(t, o) + (IF t = cur[c] /\ o \in dead[c] THEN n ELSE 0)
    <2>1. n \in Nat /\ dlq' = CountIn(dlq, cur[c], dead[c], n) /\ rows' = rows
      BY <1>1, <1>2
    <2> QED BY <1>0, <1>3, <2>1, WriteCounts
  <1>5. /\ n + Budget =< (IF ch = "up" /\ n > 0 THEN 1 ELSE 0) + Budget'
        /\ ~ok => ch = "down"
    <2>1. n \in Nat
      OBVIOUS
    <2> QED BY <1>0, <1>1, <2>1, ExecutePaid
  <1>6. \A d \in Consumers \ {c} : Same(d)
    BY <1>0, <1>1, <1>2 DEF Same, TypeOK, WriteDone, WriteFailed
  <1>7. Returned(c) \/ Raised(c)
    <2>1. CASE ok
      BY <1>0, <1>1, <2>1 DEF TypeOK, WriteDone, Returned
    <2>2. CASE ~ok
      BY <1>0, <1>1, <1>5, <2>2 DEF TypeOK, WriteFailed, Raised
    <2> QED BY <2>1, <2>2
  <1>8. Writes(c, dead[c], n)
    BY <1>0, <1>2, <1>4, <1>5, <1>6, <1>7 DEF Writes
  <1> QED BY <1>8

-----------------------------------------------------------------------------
LEMMA PaidStep ==
  ASSUME DeliveryInv, HolderInv, HandInv, PaidInv, Next
  PROVE  PaidInv'
  <1>0. TypeOK /\ TypeOK' /\ HandsOK
    BY DeliveryStep DEF DeliveryInv, HandInv, HandsOK
  <1>1. CASE \/ \E t \in Topics : NewTopic(t) \/ Register(t) \/ Produce(t)
             \/ ClickHouseUp \/ CompleteRebalance
    BY <1>0, <1>1, OutsidePaid
  <1>2. CASE ClickHouseDown
    BY <1>0, <1>2, ClickHouseDownPaid
  <1>3. ASSUME NEW c \in Consumers,
               \/ Start(c) \/ BeginRevoke(c) \/ Join(c) \/ Assign(c)
               \/ ExpireDead(c) \/ Stop(c)
        PROVE  PaidInv'
    BY <1>0, <1>3, GroupPaid
  <1>4. ASSUME NEW c \in Consumers, Kick(c) \/ Crash(c) PROVE PaidInv'
    BY <1>0, <1>4, KickPaid, CrashPaid
  <1>5. ASSUME NEW c \in Consumers, Poll(c) \/ Commit(c) PROVE PaidInv'
    BY <1>0, <1>5, PollPaid, CommitPaid
  <1>6. ASSUME NEW c \in Consumers,
               \/ \E t \in Topics : RouteTopic(c, t)
               \/ PrepareTable(c) \/ EndOfBatch(c)
        PROVE  PaidInv'
    BY <1>0, <1>6, BatchPaid
  <1>7. ASSUME NEW c \in Consumers,
               InsertBatch(c) \/ (\E o \in Offsets : IsolateRecord(c, o)) \/ DeadLetter(c)
        PROVE  PaidInv'
    <2>1. \E W : \E n \in Nat : Writes(c, W, n)
      <3>1. CASE InsertBatch(c)
        BY <1>0, <3>1, InsertBatchWrites
      <3>2. CASE \E o \in Offsets : IsolateRecord(c, o)
        BY <1>0, <3>2, IsolateRecordWrites
      <3>3. CASE DeadLetter(c)
        BY <1>0, <3>3, DeadLetterWrites
      <3> QED BY <1>7, <3>1, <3>2, <3>3
    <2> QED BY <1>0, <2>1, WritesPaid
  <1> QED BY <1>1, <1>2, <1>3, <1>4, <1>5, <1>6, <1>7 DEF Next, Process

LEMMA InitPaid == Init => PaidInv
  <1> SUFFICES ASSUME Init, NEW t \in Topics, NEW o \in Offsets PROVE PaidOK(t, o)
    BY DEF PaidInv, PaidOK
  <1>1. Strays(t, o) = {}
    BY DEF Init, Strays, Detached
  <1>2. IsFiniteSet(Strays(t, o)) /\ Cardinality(Strays(t, o)) = 0
    BY <1>1, FS_EmptySet
  <1>3. rows[t][o] = 0 /\ dlq[t][o] = 0
    BY DEF Init
  <1>4. Written(t, o) = 0 /\ Budget = 1
    BY <1>3 DEF Init, Written, Budget
  <1> QED BY <1>2, <1>4 DEF PaidOK

\* A record costs one budget unit for every row and dead letter it has, for every
\* stray that may still write it, and for the group if it may.
THEOREM PaidInvariant == Spec => []PaidInv
  <1>1. DeliveryInv /\ HolderInv /\ HandInv /\ PaidInv /\ [Next]_vars => PaidInv'
    <2>1. ASSUME DeliveryInv, PaidInv, UNCHANGED vars PROVE PaidInv'
      <3>1. TypeOK /\ TypeOK'
        BY <2>1, DeliveryStutter DEF DeliveryInv
      <3> QED BY <2>1, <3>1, OutsidePaid
    <2> QED BY <2>1, PaidStep
  <1> QED BY <1>1, InitPaid, DeliveryInvariant, HolderInvariant, HandInvariant, PTL DEF Spec

\* At-least-once has a bound: every duplicate of a record is paid for by a crash, a
\* kick, a lost reply or an outage (main.py, the order getmany, insert, commit).
THEOREM DuplicatesPaid == Spec => []DuplicatesArePaidFor
  <1>1. TypeOK /\ PaidInv => DuplicatesArePaidFor
    <2> SUFFICES ASSUME TypeOK, PaidInv, NEW t \in Topics, NEW o \in Offsets
                 PROVE  Written(t, o) =< Budget
      BY DEF DuplicatesArePaidFor, Written, Budget
    <2>1. used["crash"] \in Nat /\ used["kick"] \in Nat /\ used["lost"] \in Nat
          /\ used["outage"] \in Nat /\ rows[t][o] \in Nat /\ dlq[t][o] \in Nat
      BY DEF TypeOK, Disturbances
    <2>2. Written(t, o) \in Nat /\ Budget \in Nat
      BY <2>1 DEF Written, Budget
    <2>3. PICK n \in Nat, m \in {0, 1} :
             n = Cardinality(Strays(t, o)) /\ m = IF Open(t, o) THEN 1 ELSE 0
      BY FS_CardinalityType DEF PaidInv
    <2>4. Written(t, o) + n + m =< Budget
      BY <2>3 DEF PaidInv
    <2> QED BY <2>2, <2>3, <2>4
  <1> QED BY <1>1, PaidInvariant, TypeCorrect, PTL

-----------------------------------------------------------------------------
(* Dead letters.                                                                *)

Sorted ==
    \A t \in Topics : \A o \in Logged(t) :
        IF Kind(t, o) = "good" THEN dlq[t][o] = 0 ELSE rows[t][o] = 0

NoOutage == used["outage"] = 0

LEMMA KindInvParts ==
  /\ KindInv <=> (NoOutage => ch = "up" /\ (\A c \in Consumers : KindOK(c)) /\ Sorted)
  /\ KindInv' <=> (NoOutage' => ch' = "up" /\ (\A c \in Consumers : KindOK(c)') /\ Sorted')
  BY DEF KindInv, NoOutage, Sorted, OnlyBadRecordsDeadLetter

LEMMA OutageStays ==
  ASSUME TypeOK, Next, NoOutage', NoOutage => ch = "up"
  PROVE  NoOutage /\ ch = "up" /\ ch' = "up"
  <1>1. used["outage"] \in Nat
    BY DEF TypeOK, Disturbances
  <1>2. ASSUME NEW what \in Disturbances, NEW max, Spend(what, max)
        PROVE  NoOutage /\ what # "outage"
    BY <1>1, <1>2 DEF NoOutage, Spend, TypeOK, Disturbances
  <1>3. ASSUME NEW accepted, NEW n, NEW ok, Execute(accepted, n, ok) PROVE NoOutage
    BY <1>3 DEF Execute, Lose, NoOutage, TypeOK, Disturbances
  <1>4. ~ClickHouseDown
    BY <1>2 DEF ClickHouseDown, Disturbances
  <1>5. ch' = ch \/ ch' = "up"
    <2>1. CASE \/ \E t \in Topics : NewTopic(t) \/ Register(t) \/ Produce(t)
               \/ ClickHouseUp \/ CompleteRebalance
      BY <2>1 DEF NewTopic, Register, Produce, ClickHouseUp, CompleteRebalance
    <2>2. ASSUME NEW c \in Consumers,
                 \/ Start(c) \/ BeginRevoke(c) \/ Join(c) \/ Assign(c) \/ Kick(c)
                 \/ ExpireDead(c) \/ Crash(c) \/ Stop(c) \/ Poll(c) \/ Commit(c)
          PROVE  ch' = ch
      BY <2>2 DEF Start, BeginRevoke, Join, Assign, Kick, ExpireDead, Crash, Stop, Poll,
                  Commit
    <2>3. ASSUME NEW c \in Consumers, BatchStep(c) PROVE ch' = ch
      BY <2>3, BatchStepFrame
    <2> QED BY <1>4, <2>1, <2>2, <2>3 DEF Next, Process, BatchStep
  <1>6. NoOutage
    <2>1. \/ UNCHANGED used
          \/ \E what \in Disturbances : \E max : Spend(what, max)
          \/ \E accepted, n, ok : Execute(accepted, n, ok)
      <3>1. CASE \/ \E t \in Topics : NewTopic(t) \/ Register(t) \/ Produce(t)
                 \/ ClickHouseUp \/ CompleteRebalance
        BY <3>1 DEF NewTopic, Register, Produce, ClickHouseUp, CompleteRebalance
      <3>2. ASSUME NEW c \in Consumers,
                   \/ Poll(c) \/ (\E t \in Topics : RouteTopic(c, t))
                   \/ EndOfBatch(c) \/ Commit(c) \/ Start(c) \/ BeginRevoke(c)
                   \/ Join(c) \/ Assign(c) \/ ExpireDead(c)
            PROVE  UNCHANGED used
        BY <3>2 DEF Poll, RouteTopic, EndOfBatch, Commit, Start, BeginRevoke, Join, Assign,
                    ExpireDead
      <3>3. ASSUME NEW c \in Consumers, Kick(c) \/ Crash(c) \/ Stop(c)
            PROVE  \E what \in Disturbances : \E max : Spend(what, max)
        BY <3>3 DEF Kick, Crash, Stop, Disturbances
      <3>4. ASSUME NEW c \in Consumers,
                   InsertBatch(c) \/ (\E o \in Offsets : IsolateRecord(c, o)) \/ DeadLetter(c)
            PROVE  \E accepted, n, ok : Execute(accepted, n, ok)
        BY <3>4 DEF InsertBatch, IsolateRecord, DeadLetter
      <3>5. ASSUME NEW c \in Consumers, PrepareTable(c)
            PROVE  UNCHANGED used \/ \E what \in Disturbances : \E max : Spend(what, max)
        BY <3>5, TableOutcome DEF Disturbances
      <3> QED BY <1>4, <3>1, <3>2, <3>3, <3>4, <3>5 DEF Next, Process
    <2> QED BY <1>2, <1>3, <2>1 DEF NoOutage
  <1> QED BY <1>5, <1>6

\* The kind of a record in the log never changes.
SameKinds == \A t \in Topics : \A o \in Logged(t) : Kind(t, o)' = Kind(t, o)

LEMMA HandsLogged ==
  ASSUME DeliveryInv, HandsOK, NEW c \in Consumers, NEW o \in keep[c] \cup dead[c]
  PROVE  cur[c] \in Topics /\ o \in Logged(cur[c]) /\ o \in Offsets
  <1>1. pc[c] \in InHand
    BY DEF HandsOK, HandOK
  <1>2. cur[c] \in Topics /\ o \in Offsets
    BY <1>1, InHandFacts
  <1>3. o \in Batch(c, cur[c])
    BY <1>1 DEF HandsOK, HandOK
  <1>4. /\ fetched[c][cur[c]] \in Nat /\ position[c][cur[c]] \in Nat
        /\ Len(log[cur[c]]) \in Nat /\ position[c][cur[c]] =< Len(log[cur[c]])
    BY <1>2 DEF DeliveryInv, TypeOK, ReadOK
  <1> QED BY <1>2, <1>3, <1>4 DEF Batch, Logged

\* A replica with nothing new in hand.
LEMMA KindKept ==
  ASSUME DeliveryInv, HandsOK, SameKinds, NEW c \in Consumers, KindOK(c),
         keep'[c] \subseteq keep[c], dead'[c] \subseteq dead[c],
         cur'[c] = cur[c] \/ keep'[c] \cup dead'[c] = {}
  PROVE  KindOK(c)'
  <1> SUFFICES ASSUME NEW o \in keep[c] \cup dead[c], cur'[c] = cur[c]
               PROVE  Kind(cur[c], o)' = Kind(cur[c], o)
    BY DEF KindOK, Kind
  <1> QED BY HandsLogged DEF SameKinds, Kind

\* The records that were sorted stay sorted.
LEMMA SortedStep ==
  ASSUME SameKinds, Sorted,
         \A t \in Topics : \A o \in Logged(t)' :
            \/ rows'[t][o] = 0 /\ dlq'[t][o] = 0
            \/ /\ o \in Logged(t)
               /\ Kind(t, o) # "good" \/ dlq'[t][o] = dlq[t][o]
               /\ Kind(t, o) = "good" \/ rows'[t][o] = rows[t][o]
  PROVE  Sorted'
  <1> SUFFICES ASSUME NEW t \in Topics, NEW o, o \in Logged(t)'
               PROVE  IF Kind(t, o)' = "good" THEN dlq'[t][o] = 0 ELSE rows'[t][o] = 0
    BY DEF Sorted
  <1>1. CASE rows'[t][o] = 0 /\ dlq'[t][o] = 0
    BY <1>1
  <1>2. CASE /\ o \in Logged(t)
             /\ Kind(t, o) # "good" \/ dlq'[t][o] = dlq[t][o]
             /\ Kind(t, o) = "good" \/ rows'[t][o] = rows[t][o]
    BY <1>2 DEF SameKinds, Sorted
  <1> QED BY <1>1, <1>2

LEMMA LoggedInOffsets ==
  /\ TypeOK => \A t \in Topics : Logged(t) \subseteq Offsets
  /\ TypeOK' => \A t \in Topics : Logged(t)' \subseteq Offsets
  <1>1. ASSUME TypeOK, NEW t \in Topics PROVE Logged(t) \subseteq Offsets
    <2>1. Len(log[t]) \in Nat /\ Len(log[t]) =< MaxLog
      BY <1>1 DEF TypeOK
    <2> QED BY <2>1, ConstantsAssumption DEF Logged, Offsets
  <1>2. ASSUME TypeOK', NEW t \in Topics PROVE Logged(t)' \subseteq Offsets
    <2>1. Len(log'[t]) \in Nat /\ Len(log'[t]) =< MaxLog
      BY <1>2 DEF TypeOK
    <2> QED BY <2>1, ConstantsAssumption DEF Logged, Offsets
  <1> QED BY <1>1, <1>2

HandsSorted == (\A c \in Consumers : KindOK(c)) /\ Sorted

LEMMA LogKept == UNCHANGED log => SameKinds /\ \A t \in Topics : Logged(t)' = Logged(t)
  BY DEF SameKinds, Kind, Logged

\* The steps that write nothing and take nothing in hand.
LEMMA QuietKinds ==
  ASSUME DeliveryInv, HandsOK, HandsSorted, UNCHANGED <<log, rows, dlq>>,
         \A c \in Consumers : /\ keep'[c] \subseteq keep[c] /\ dead'[c] \subseteq dead[c]
                              /\ cur'[c] = cur[c] \/ keep'[c] \cup dead'[c] = {}
  PROVE  HandsSorted'
  <1>1. SameKinds /\ \A t \in Topics : Logged(t)' = Logged(t)
    BY LogKept
  <1>2. Sorted'
    BY <1>1, SortedStep DEF HandsSorted
  <1>3. \A c \in Consumers : KindOK(c)'
    BY <1>1, KindKept DEF HandsSorted
  <1> QED BY <1>2, <1>3 DEF HandsSorted

\* A record a producer sends has neither a row nor a dead letter.
LEMMA ProduceKinds ==
  ASSUME DeliveryInv, HandInv, TypeOK', HandsSorted, NEW u \in Topics, Produce(u)
  PROVE  HandsSorted'
  <1>0. TypeOK /\ HandsOK
    BY DEF DeliveryInv, HandInv, HandsOK
  <1>1. /\ UNCHANGED <<rows, dlq, keep, dead, cur>>
        /\ \E k \in Kinds : log' = [log EXCEPT ![u] = Append(@, k)]
    BY DEF Produce, batchVars
  <1>2. /\ SameKinds
        /\ \A t \in Topics : \A o \in Logged(t)' : o \in Offsets
    <2>1. PICK k \in Kinds : log' = [log EXCEPT ![u] = Append(@, k)]
      BY <1>1
    <2>2. k \in RecordKinds
      BY ConstantsAssumption
    <2>3. ASSUME NEW t \in Topics, NEW o \in Logged(t) PROVE Kind(t, o)' = Kind(t, o)
      <3>1. log[t] \in Seq(RecordKinds) /\ Len(log[t]) \in Nat
        BY <1>0 DEF TypeOK
      <3>2. o + 1 \in 1 .. Len(log[t])
        BY <3>1 DEF Logged
      <3>3. log'[t] = IF t = u THEN Append(log[t], k) ELSE log[t]
        BY <1>0, <2>1 DEF TypeOK
      <3>4. log'[t][o + 1] = log[t][o + 1]
        BY <2>2, <3>1, <3>2, <3>3
      <3> QED BY <3>4 DEF Kind
    <2>4. \A t \in Topics : \A o \in Logged(t)' : o \in Offsets
      BY LoggedInOffsets
    <2> QED BY <2>3, <2>4 DEF SameKinds
  <1>3. Sorted'
    <2>1. ASSUME NEW t \in Topics, NEW o, o \in Offsets, o \notin Logged(t)
          PROVE  rows[t][o] = 0 /\ dlq[t][o] = 0
      <3>1. rows[t][o] \in Nat /\ dlq[t][o] \in Nat
        BY <1>0, <2>1 DEF TypeOK
      <3> QED BY <2>1, <3>1 DEF HandInv, WrittenOK, Dealt, Handled
    <2> QED BY <1>1, <1>2, <2>1, SortedStep DEF HandsSorted
  <1>4. \A c \in Consumers : KindOK(c)'
    BY <1>0, <1>1, <1>2, KindKept DEF HandsSorted
  <1> QED BY <1>3, <1>4 DEF HandsSorted

LEMMA PrepareTableKinds ==
  ASSUME DeliveryInv, HandsOK, HandsSorted, NEW c \in Consumers, PrepareTable(c)
  PROVE  HandsSorted'
  <1>0. TypeOK
    BY DEF DeliveryInv
  <1>1. UNCHANGED <<log, rows, dlq>>
    BY TableOutcome DEF kafkaVars
  <1>2. CASE WriteFailed(c)
    BY <1>0, <1>1, <1>2, QuietKinds DEF WriteFailed, TypeOK
  <1>3. CASE OfKind(c, "huge") = {} /\ Mapped(c)
    <2> DEFINE unmappable == OfKind(c, "unmappable")
    <2>0. /\ dead' = [dead EXCEPT ![c] = unmappable]
          /\ keep' = [keep EXCEPT ![c] = Batch(c, cur[c]) \ unmappable]
          /\ cur' = cur
      BY <1>3 DEF Mapped
    <2>1. SameKinds /\ \A t \in Topics : Logged(t)' = Logged(t)
      BY <1>1, LogKept
    <2>2. Sorted'
      BY <1>1, <2>1, SortedStep DEF HandsSorted
    <2>3. KindOK(c)'
      <3>1. /\ dead'[c] = unmappable /\ keep'[c] = Batch(c, cur[c]) \ unmappable
            /\ cur'[c] = cur[c] /\ log' = log
        BY <1>0, <1>1, <2>0 DEF TypeOK
      <3> QED BY <1>3, <3>1 DEF KindOK, Kind, OfKind
    <2>4. ASSUME NEW d \in Consumers \ {c} PROVE KindOK(d)'
      <3>1. keep'[d] = keep[d] /\ dead'[d] = dead[d] /\ cur'[d] = cur[d]
        BY <1>0, <2>0 DEF TypeOK
      <3> QED BY <2>1, <3>1, KindKept DEF HandsSorted
    <2> QED BY <2>2, <2>3, <2>4 DEF HandsSorted
  <1> QED BY <1>2, <1>3, TableOutcome

\* An insert of records ClickHouse took: they are good.
LEMMA InsertSorted ==
  ASSUME TypeOK, Sorted, UNCHANGED <<log, dlq>>, NEW u \in Topics, NEW W \in SUBSET Offsets,
         NEW n \in Nat, rows' = CountIn(rows, u, W, n),
         n > 0 => \A o \in W : Kind(u, o) = "good"
  PROVE  Sorted'
  <1>1. SameKinds /\ \A t \in Topics : Logged(t)' = Logged(t) /\ Logged(t) \subseteq Offsets
    BY LogKept, LoggedInOffsets
  <1>2. ASSUME NEW t \in Topics, NEW o \in Logged(t)
        PROVE  Kind(t, o) = "good" \/ rows'[t][o] = rows[t][o]
    <2>1. o \in Offsets /\ rows[t][o] \in Nat
      BY <1>1 DEF TypeOK
    <2>2. rows'[t][o] = IF t = u /\ o \in W THEN rows[t][o] + n ELSE rows[t][o]
      BY <2>1 DEF CountIn, TypeOK
    <2> QED BY <2>1, <2>2
  <1> QED BY <1>1, <1>2, SortedStep

\* A dead-letter insert of records that are not good.
LEMMA DeadLetterSorted ==
  ASSUME TypeOK, Sorted, UNCHANGED <<log, rows>>, NEW u \in Topics, NEW W \in SUBSET Offsets,
         NEW n \in Nat, dlq' = CountIn(dlq, u, W, n), \A o \in W : Kind(u, o) # "good"
  PROVE  Sorted'
  <1>1. SameKinds /\ \A t \in Topics : Logged(t)' = Logged(t) /\ Logged(t) \subseteq Offsets
    BY LogKept, LoggedInOffsets
  <1>2. ASSUME NEW t \in Topics, NEW o \in Logged(t)
        PROVE  Kind(t, o) # "good" \/ dlq'[t][o] = dlq[t][o]
    <2>1. o \in Offsets
      BY <1>1
    <2>2. dlq'[t][o] = IF t = u /\ o \in W THEN dlq[t][o] + n ELSE dlq[t][o]
      BY <2>1 DEF CountIn, TypeOK
    <2> QED BY <2>2
  <1> QED BY <1>1, <1>2, SortedStep

\* What ClickHouse accepts of what to_row could map is good.
LEMMA AcceptedIsGood ==
  ASSUME DeliveryInv, HandsOK, NEW c \in Consumers, KindOK(c), NEW W \in SUBSET keep[c],
         Accepted(cur[c], W)
  PROVE  \A o \in W : Kind(cur[c], o) = "good"
  <1> SUFFICES ASSUME NEW o \in W PROVE Kind(cur[c], o) = "good"
    OBVIOUS
  <1>1. cur[c] \in Topics /\ o \in Logged(cur[c])
    BY HandsLogged
  <1>2. log[cur[c]] \in Seq(RecordKinds) /\ Len(log[cur[c]]) \in Nat
    BY <1>1 DEF DeliveryInv, TypeOK
  <1>3. o + 1 \in 1 .. Len(log[cur[c]])
    BY <1>1, <1>2 DEF Logged
  <1>4. Kind(cur[c], o) \in RecordKinds
    BY <1>2, <1>3 DEF Kind
  <1> QED BY <1>4 DEF KindOK, Accepted, RecordKinds

\* A write of the records in hand ends, or goes on with the rest.
LEMMA InsertBatchKinds ==
  ASSUME DeliveryInv, HandsOK, HandsSorted, ch = "up", NEW c \in Consumers, InsertBatch(c)
  PROVE  HandsSorted'
  <1>0. TypeOK /\ pc[c] \in InHand /\ UNCHANGED <<log, dlq>>
    BY DEF DeliveryInv, InsertBatch, InHand, kafkaVars
  <1>1. PICK n \in Nat, ok \in BOOLEAN :
        /\ Execute(Accepted(cur[c], keep[c]), n, ok)
        /\ rows' = CountIn(rows, cur[c], keep[c], n)
        /\ \/ WriteDone(c)
           \/ /\ keep' = [keep EXCEPT ![c] = {}] /\ UNCHANGED <<cur, dead>>
           \/ UNCHANGED <<cur, keep, dead>>
    BY DEF InsertBatch, batchVars
  <1>2. cur[c] \in Topics /\ keep[c] \in SUBSET Offsets
    BY <1>0, InHandFacts
  <1>3. n > 0 => Accepted(cur[c], keep[c])
    BY <1>1 DEF Execute
  <1>4. n > 0 => \A o \in keep[c] : Kind(cur[c], o) = "good"
    BY <1>3, AcceptedIsGood DEF HandsSorted
  <1>5. Sorted'
    BY <1>0, <1>1, <1>2, <1>4, InsertSorted DEF HandsSorted
  <1>6. \A d \in Consumers : /\ keep'[d] \subseteq keep[d] /\ dead'[d] \subseteq dead[d]
                             /\ cur'[d] = cur[d] \/ keep'[d] \cup dead'[d] = {}
    BY <1>0, <1>1 DEF TypeOK, WriteDone
  <1>7. \A d \in Consumers : KindOK(d)'
    BY <1>0, <1>6, LogKept, KindKept DEF HandsSorted
  <1> QED BY <1>5, <1>7 DEF HandsSorted

\* A record that fails on its own while ClickHouse answers is poison.
LEMMA IsolateRecordKinds ==
  ASSUME DeliveryInv, HandsOK, HandsSorted, ch = "up", NEW c \in Consumers,
         NEW o \in Offsets, IsolateRecord(c, o)
  PROVE  HandsSorted'
  <1>0. TypeOK /\ pc[c] \in InHand /\ o \in keep[c] /\ UNCHANGED <<log, dlq>>
    BY DEF DeliveryInv, IsolateRecord, InHand, kafkaVars
  <1>1. PICK n \in Nat, ok \in BOOLEAN :
        /\ Execute(Accepted(cur[c], {o}), n, ok)
        /\ rows' = CountIn(rows, cur[c], {o}, n)
        /\ \/ WriteDone(c)
           \/ /\ keep' = [keep EXCEPT ![c] = @ \ {o}]
              /\ dead' = [dead EXCEPT ![c] = IF ok THEN dead[c] ELSE dead[c] \cup {o}]
              /\ UNCHANGED cur
    BY DEF IsolateRecord
  <1>2. cur[c] \in Topics /\ {o} \in SUBSET Offsets
    BY <1>0, InHandFacts
  <1>3. /\ n > 0 => Accepted(cur[c], {o})
        /\ ~ok => ~Accepted(cur[c], {o})
    BY <1>1 DEF Execute
  <1>4. n > 0 => \A p \in {o} : Kind(cur[c], p) = "good"
    BY <1>0, <1>3, AcceptedIsGood DEF HandsSorted
  <1>5. Sorted'
    BY <1>0, <1>1, <1>2, <1>4, InsertSorted DEF HandsSorted
  <1>6. SameKinds /\ \A t, p : Kind(t, p)' = Kind(t, p)
    BY <1>0, LogKept DEF Kind
  <1>7. ASSUME NEW d \in Consumers PROVE KindOK(d)'
    <2>1. CASE WriteDone(c) \/ d # c
      <3>1. /\ keep'[d] \subseteq keep[d] /\ dead'[d] \subseteq dead[d]
            /\ cur'[d] = cur[d] \/ keep'[d] \cup dead'[d] = {}
        BY <1>0, <1>1, <2>1 DEF TypeOK, WriteDone
      <3> QED BY <1>0, <1>6, <3>1, KindKept DEF HandsSorted
    <2>2. CASE d = c /\ ~WriteDone(c)
      <3>1. /\ keep'[c] = keep[c] \ {o} /\ cur'[c] = cur[c]
            /\ dead'[c] = IF ok THEN dead[c] ELSE dead[c] \cup {o}
        BY <1>0, <1>1, <2>2 DEF TypeOK
      <3>2. ~ok => Kind(cur[c], o) = "poison"
        BY <1>3 DEF Accepted
      <3> QED BY <1>6, <2>2, <3>1, <3>2 DEF KindOK, HandsSorted
    <2> QED BY <2>1, <2>2
  <1> QED BY <1>5, <1>7 DEF HandsSorted

LEMMA DeadLetterKinds ==
  ASSUME DeliveryInv, HandsOK, HandsSorted, NEW c \in Consumers, DeadLetter(c)
  PROVE  HandsSorted'
  <1>0. TypeOK /\ pc[c] \in InHand /\ UNCHANGED <<log, rows>>
    BY DEF DeliveryInv, DeadLetter, InHand, kafkaVars
  <1>1. PICK n \in Nat : /\ dlq' = CountIn(dlq, cur[c], dead[c], n)
                         /\ WriteDone(c) \/ WriteFailed(c)
    BY DEF DeadLetter
  <1>2. cur[c] \in Topics /\ dead[c] \in SUBSET Offsets
    BY <1>0, InHandFacts
  <1>3. Sorted'
    <2>1. \A o \in dead[c] : Kind(cur[c], o) # "good"
      BY DEF HandsSorted, KindOK
    <2>2. Sorted /\ dlq' = CountIn(dlq, cur[c], dead[c], n)
      BY <1>1 DEF HandsSorted
    <2> QED BY <1>0, <1>2, <2>1, <2>2, DeadLetterSorted
  <1>4. \A d \in Consumers : /\ keep'[d] \subseteq keep[d] /\ dead'[d] \subseteq dead[d]
                             /\ cur'[d] = cur[d] \/ keep'[d] \cup dead'[d] = {}
    BY <1>0, <1>1 DEF TypeOK, WriteDone, WriteFailed
  <1>5. \A d \in Consumers : KindOK(d)'
    BY <1>0, <1>4, LogKept, KindKept DEF HandsSorted
  <1> QED BY <1>3, <1>5 DEF HandsSorted

LEMMA RouteTopicKinds ==
  ASSUME DeliveryInv, HandsOK, HandsSorted, NEW c \in Consumers, NEW t \in Topics,
         RouteTopic(c, t)
  PROVE  HandsSorted'
  <1>1. /\ UNCHANGED <<log, rows, dlq, keep, dead>> /\ pc[c] = "route"
        /\ cur' = cur \/ cur' = [cur EXCEPT ![c] = t]
    BY DEF RouteTopic, kafkaVars
  <1>2. keep[c] = {} /\ dead[c] = {}
    BY <1>1 DEF HandsOK, HandOK, InHand
  <1>3. \A d \in Consumers : cur'[d] = cur[d] \/ keep'[d] \cup dead'[d] = {}
    BY <1>1, <1>2 DEF DeliveryInv, TypeOK
  <1> QED BY <1>1, <1>3, QuietKinds

LEMMA KindStep == ASSUME DeliveryInv, HandInv, KindInv, Next PROVE KindInv'
  <1>0. TypeOK /\ TypeOK' /\ HandsOK
    BY DeliveryStep DEF DeliveryInv, HandInv, HandsOK
  <1> SUFFICES ASSUME NoOutage' PROVE ch' = "up" /\ HandsSorted'
    BY KindInvParts DEF HandsSorted
  <1>1. NoOutage /\ ch = "up" /\ ch' = "up" /\ HandsSorted
    BY <1>0, OutageStays, KindInvParts DEF HandsSorted
  <1>2. CASE \/ \E t \in Topics : NewTopic(t) \/ Register(t)
             \/ ClickHouseUp \/ CompleteRebalance
    <2>1. UNCHANGED <<log, rows, dlq, keep, dead, cur>>
      BY <1>2 DEF NewTopic, Register, ClickHouseUp, CompleteRebalance, kafkaVars, batchVars
    <2> QED BY <1>0, <1>1, <2>1, QuietKinds
  <1>3. ASSUME NEW t \in Topics, Produce(t) PROVE HandsSorted'
    BY <1>0, <1>1, <1>3, ProduceKinds
  <1>4. CASE ClickHouseDown
    BY <1>1, <1>4 DEF ClickHouseDown
  <1>5. ASSUME NEW c \in Consumers,
               \/ Start(c) \/ BeginRevoke(c) \/ Join(c) \/ Assign(c) \/ Kick(c)
               \/ ExpireDead(c) \/ Poll(c) \/ EndOfBatch(c) \/ Commit(c)
        PROVE  HandsSorted'
    <2>1. UNCHANGED <<log, rows, dlq, keep, dead, cur>>
      BY <1>5 DEF Start, BeginRevoke, Join, Assign, Kick, ExpireDead, Poll, EndOfBatch,
                  Commit, kafkaVars, batchVars
    <2> QED BY <1>0, <1>1, <2>1, QuietKinds
  <1>6. ASSUME NEW c \in Consumers, Crash(c) \/ Stop(c) PROVE HandsSorted'
    <2>1. UNCHANGED <<log, rows, dlq>> /\ Forget(c)
      BY <1>6 DEF Crash, Stop, kafkaVars
    <2>2. \A d \in Consumers : /\ keep'[d] \subseteq keep[d] /\ dead'[d] \subseteq dead[d]
                               /\ cur'[d] = cur[d] \/ keep'[d] \cup dead'[d] = {}
      BY <1>0, <2>1 DEF TypeOK, Forget
    <2> QED BY <1>0, <1>1, <2>1, <2>2, QuietKinds
  <1>7. ASSUME NEW c \in Consumers,
               \/ \E t \in Topics : RouteTopic(c, t)
               \/ PrepareTable(c) \/ InsertBatch(c)
               \/ \E o \in Offsets : IsolateRecord(c, o)
               \/ DeadLetter(c)
        PROVE  HandsSorted'
    BY <1>0, <1>1, <1>7, RouteTopicKinds, PrepareTableKinds, InsertBatchKinds,
       IsolateRecordKinds, DeadLetterKinds
  <1> QED BY <1>1, <1>2, <1>3, <1>4, <1>5, <1>6, <1>7 DEF Next, Process

LEMMA KindStutter ==
  ASSUME DeliveryInv, HandInv, KindInv, UNCHANGED vars
  PROVE  KindInv'
  <1>1. /\ UNCHANGED <<ch, used, log, rows, dlq, keep, dead, cur>>
        /\ HandsOK
    BY DEF HandInv, HandsOK, vars, kafkaVars, batchVars
  <1>2. HandsSorted => HandsSorted'
    BY <1>1, QuietKinds
  <1> QED BY <1>1, <1>2, KindInvParts DEF HandsSorted, NoOutage

LEMMA InitKinds == Init => KindInv
  BY DEF Init, KindInv, KindOK, OnlyBadRecordsDeadLetter, Logged

\* What a write has in hand is sorted by what ClickHouse would say of it, as long
\* as ClickHouse never goes away.
THEOREM KindInvariant == Spec => []KindInv
  <1>1. DeliveryInv /\ HandInv /\ KindInv /\ [Next]_vars => KindInv'
    BY KindStep, KindStutter
  <1> QED BY <1>1, InitKinds, DeliveryInvariant, HandInvariant, PTL DEF Spec

\* Without an outage only records ClickHouse cannot take are dead letters, and
\* those never become rows: a poison row spares its neighbours (sink.py,
\* _insert_individually).
THEOREM OnlyBadRecordsDie == Spec => []OnlyBadRecordsDeadLetter
  <1>1. KindInv => OnlyBadRecordsDeadLetter
    BY DEF KindInv, OnlyBadRecordsDeadLetter
  <1> QED BY <1>1, KindInvariant, PTL
=============================================================================
