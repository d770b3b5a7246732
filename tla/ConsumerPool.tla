------------------------------ MODULE ConsumerPool ------------------------------
(* The shared consumer pool: replicas of one process (main.py) that poll a      *)
(* Kafka group, route each topic through Redis to its ClickHouse table, write   *)
(* the records through the sink (sink.py, clickhouse_manager.py) and commit     *)
(* afterwards. A topic has one partition (provisioning.py), so a topic stands   *)
(* for its partition. Kafka's broker and the aiokafka client are external: they *)
(* are modelled as far as the pool relies on them.                              *)
EXTENDS Naturals, Sequences, FiniteSets

CONSTANTS Consumers,        \* the pool's replicas
          Topics,           \* topics that may match the subscription pattern
          Orphans,          \* topics that appear before their config is in Redis
          Kinds,            \* kinds of record the producers emit in this instance
          None,             \* no consumer, no topic
          MaxLog,           \* records per topic
          MaxPoll,          \* max_records of getmany, over all topics
          MaxCrashes,       \* replicas killed
          MaxStops,         \* replicas stopped by SIGTERM
          MaxKicks,         \* live replicas thrown out of the group
          MaxOutages,       \* times ClickHouse goes away for a whole retry ladder, or
                            \* refuses a table
          MaxLostReplies    \* times an insert was applied and its reply lost

\* "unmappable" is rejected by to_row, "poison" only by ClickHouse. On a "huge" one, a
\* number no float holds, to_row raises what write does not catch (rows.py 67).
RecordKinds == {"good", "unmappable", "poison", "huge"}

ASSUME ConstantsAssumption ==
    /\ Orphans \subseteq Topics
    /\ Kinds \subseteq RecordKinds
    /\ None \notin Consumers \cup Topics
    /\ MaxLog \in Nat /\ MaxPoll \in Nat
    /\ {MaxCrashes, MaxStops, MaxKicks, MaxOutages, MaxLostReplies} \subseteq Nat

VARIABLES
  \* Kafka: the logs and the consumer group as the broker sees it
  topics,      \* topics that exist
  log,         \* log[t]: the records of t, offset o at index o + 1
  committed,   \* committed[t]: the group's committed offset of t
  members,     \* replicas in the current generation, or joining the next
  joined,      \* members that have sent JoinGroup for the next generation
  owner,       \* owner[t]: the member t is assigned to
  phase,       \* "stable" or "rebalancing"
  \* Redis and ClickHouse
  registered,  \* topics whose PipelineConfig is in Redis
  ch,          \* "up", or "down" for longer than execute() keeps retrying
  rows,        \* rows[t][o]: rows in t's table that came from offset o
  dlq,         \* dlq[t][o]: dead letters of offset o
  \* each replica
  pc,          \* where its _handle is, "idle" in getmany, or "down"
  revoking,    \* a reassignment is in progress: getmany returns nothing
  assigned,    \* consumer.assignment()
  position,    \* position[c][t]: next offset getmany returns
  fetched,     \* fetched[c][t]: first offset of the batch in hand
  todo,        \* topics of the batch the loop has not reached
  cur,         \* the topic being written
  keep,        \* offsets of cur still to insert
  dead,        \* offsets of cur to dead-letter
  offsets,     \* topics in the offsets dict: written, to be committed
  cache,       \* PipelineRegistry._cache
  known,       \* ClickHouseSink._known_tables
  \* bookkeeping
  setAside,    \* history: offsets a batch moved past without writing them
  used         \* disturbances spent, against the Max constants

kafkaVars == <<topics, log, committed, members, joined, owner, phase>>
groupVars == <<members, joined, owner, phase>>
batchVars == <<todo, cur, keep, dead, offsets>>
readVars  == <<assigned, position, fetched>>
memoVars  == <<cache, known>>
vars == <<kafkaVars, registered, ch, rows, dlq, pc, revoking, readVars, batchVars,
          memoVars, setAside, used>>

Offsets == 0 .. MaxLog - 1
Logged(t) == 0 .. Len(log[t]) - 1
Kind(t, o) == log[t][o + 1]

\* The records of t in the batch replica c has in hand.
Batch(c, t) == fetched[c][t] .. position[c][t] - 1

Handled(t, o) == rows[t][o] + dlq[t][o] > 0
\* An offset that no later step has to care about.
Dealt(t, o) == Handled(t, o) \/ o \in setAside[t]

-----------------------------------------------------------------------------
(* Initial state: no topic, no replica running.                               *)

NoOffsets == [t \in Topics |-> 0]

Init ==
    /\ topics = {} /\ registered = {}
    /\ log = [t \in Topics |-> << >>]
    /\ committed = NoOffsets
    /\ members = {} /\ joined = {} /\ phase = "stable"
    /\ owner = [t \in Topics |-> None]
    /\ ch = "up"
    /\ rows = [t \in Topics |-> [o \in Offsets |-> 0]]
    /\ dlq  = [t \in Topics |-> [o \in Offsets |-> 0]]
    /\ pc = [c \in Consumers |-> "down"]
    /\ revoking = [c \in Consumers |-> FALSE]
    /\ assigned = [c \in Consumers |-> {}]
    /\ position = [c \in Consumers |-> NoOffsets]
    /\ fetched  = [c \in Consumers |-> NoOffsets]
    /\ todo = [c \in Consumers |-> {}]
    /\ cur  = [c \in Consumers |-> None]
    /\ keep = [c \in Consumers |-> {}]
    /\ dead = [c \in Consumers |-> {}]
    /\ offsets = [c \in Consumers |-> {}]
    /\ cache = [c \in Consumers |-> {}]
    /\ known = [c \in Consumers |-> {}]
    /\ setAside = [t \in Topics |-> {}]
    /\ used = [crash |-> 0, stop |-> 0, kick |-> 0, outage |-> 0, lost |-> 0]

-----------------------------------------------------------------------------
(* Pipelines, producers and ClickHouse.                                       *)

Spend(what, max) == used[what] < max /\ used' = [used EXCEPT ![what] = @ + 1]

\* create_pipeline saves the config, then provision creates the topic. An orphan
\* is a topic left by a create whose rollback deleted the config. The group
\* rebalances because the subscription pattern matches one topic more.
NewTopic(t) ==
    /\ t \notin topics
    /\ topics' = topics \cup {t}
    /\ registered' = IF t \in Orphans THEN registered ELSE registered \cup {t}
    /\ phase' = IF members = {} THEN phase ELSE "rebalancing"
    /\ UNCHANGED <<log, committed, members, joined, owner, ch, rows, dlq, pc, revoking,
                   readVars, batchVars, memoVars, setAside, used>>

\* The orphan's pipeline is created again: its config is back in Redis.
Register(t) ==
    /\ t \in topics \ registered
    /\ registered' = registered \cup {t}
    /\ UNCHANGED <<kafkaVars, ch, rows, dlq, pc, revoking, readVars, batchVars, memoVars,
                   setAside, used>>

Produce(t) ==
    /\ t \in topics /\ Len(log[t]) < MaxLog
    /\ \E k \in Kinds : log' = [log EXCEPT ![t] = Append(@, k)]
    /\ UNCHANGED <<topics, committed, groupVars, registered, ch, rows, dlq, pc, revoking,
                   readVars, batchVars, memoVars, setAside, used>>

ClickHouseDown ==
    /\ ch = "up" /\ Spend("outage", MaxOutages)
    /\ ch' = "down"
    /\ UNCHANGED <<kafkaVars, registered, rows, dlq, pc, revoking, readVars, batchVars,
                   memoVars, setAside>>

ClickHouseUp ==
    /\ ch = "down" /\ ch' = "up"
    /\ UNCHANGED <<kafkaVars, registered, rows, dlq, pc, revoking, readVars, batchVars,
                   memoVars, setAside, used>>

-----------------------------------------------------------------------------
(* The consumer group, as the pool's listener takes part in it.               *)

\* What a replica remembers dies with its process.
Forget(c) ==
    /\ revoking' = [revoking EXCEPT ![c] = FALSE]
    /\ assigned' = [assigned EXCEPT ![c] = {}]
    /\ position' = [position EXCEPT ![c] = NoOffsets]
    /\ fetched' = [fetched EXCEPT ![c] = NoOffsets]
    /\ todo' = [todo EXCEPT ![c] = {}]
    /\ cur' = [cur EXCEPT ![c] = None]
    /\ keep' = [keep EXCEPT ![c] = {}]
    /\ dead' = [dead EXCEPT ![c] = {}]
    /\ offsets' = [offsets EXCEPT ![c] = {}]
    /\ cache' = [cache EXCEPT ![c] = {}]
    /\ known' = [known EXCEPT ![c] = {}]

Enter(c) ==
    /\ members' = members \cup {c}
    /\ joined' = joined \cup {c}
    /\ phase' = "rebalancing"

Leave(c) ==
    /\ members' = members \ {c}
    /\ joined' = joined \ {c}
    /\ phase' = "rebalancing"

\* run(): connect to ClickHouse (no retry here: the process dies if it is down,
\* and is started again), then subscribe and join.
Start(c) ==
    /\ pc[c] = "down" /\ ch = "up"
    /\ pc' = [pc EXCEPT ![c] = "idle"]
    /\ revoking' = [revoking EXCEPT ![c] = TRUE]
    /\ Enter(c)
    /\ UNCHANGED <<topics, log, committed, owner, registered, ch, rows, dlq, readVars,
                   batchVars, memoVars, setAside, used>>

\* The client starts a reassignment: getmany returns nothing from here on, and
\* on_partitions_revoked waits for the lock.
BeginRevoke(c) ==
    /\ pc[c] # "down" /\ ~revoking[c]
    /\ c \in members => phase = "rebalancing"
    /\ revoking' = [revoking EXCEPT ![c] = TRUE]
    /\ UNCHANGED <<kafkaVars, registered, ch, rows, dlq, pc, readVars, batchVars, memoVars,
                   setAside, used>>

\* Mutant: no listener, so nothing holds a rebalance back.
LockFree_NoListener(c) == pc[c] # "down"

\* The lock _handle holds across insert and commit is free.
LockFree(c) == pc[c] = "idle"

\* on_partitions_revoked returns; the client sends JoinGroup.
Join(c) ==
    /\ revoking[c] /\ LockFree(c)
    /\ c \notin members \/ (phase = "rebalancing" /\ c \notin joined)
    /\ Enter(c)
    /\ UNCHANGED <<topics, log, committed, owner, registered, ch, rows, dlq, pc, revoking,
                   readVars, batchVars, memoVars, setAside, used>>

\* Every member has joined: the broker starts a generation with an assignment.
CompleteRebalance ==
    /\ phase = "rebalancing" /\ members # {} /\ joined = members
    /\ \E f \in [topics -> members] :
          owner' = [t \in Topics |-> IF t \in topics THEN f[t] ELSE None]
    /\ phase' = "stable" /\ joined' = {}
    /\ UNCHANGED <<topics, log, committed, members, registered, ch, rows, dlq, pc, revoking,
                   readVars, batchVars, memoVars, setAside, used>>

\* Mutant: reading starts one past the committed offset.
StartOffsets_OnePast == [t \in Topics |-> committed[t] + 1]

\* Where a new assignment starts to read: the committed offset, and "earliest",
\* which is 0, where there is none.
StartOffsets == committed

\* The replica takes up its assignment.
Assign(c) ==
    /\ revoking[c] /\ c \in members /\ phase = "stable"
    /\ revoking' = [revoking EXCEPT ![c] = FALSE]
    /\ assigned' = [assigned EXCEPT ![c] = {t \in Topics : owner[t] = c}]
    /\ position' = [position EXCEPT ![c] = StartOffsets]
    /\ fetched' = [fetched EXCEPT ![c] = StartOffsets]
    /\ UNCHANGED <<kafkaVars, registered, ch, rows, dlq, pc, batchVars, memoVars, setAside,
                   used>>

\* The broker drops a member: a live one whose session or poll interval ran out
\* (it keeps its local assignment until it notices), or a dead one.
Kick(c) ==
    /\ c \in members /\ pc[c] # "down" /\ Spend("kick", MaxKicks)
    /\ Leave(c)
    /\ UNCHANGED <<topics, log, committed, owner, registered, ch, rows, dlq, pc, revoking,
                   readVars, batchVars, memoVars, setAside>>

ExpireDead(c) ==
    /\ c \in members /\ pc[c] = "down"
    /\ Leave(c)
    /\ UNCHANGED <<topics, log, committed, owner, registered, ch, rows, dlq, pc, revoking,
                   readVars, batchVars, memoVars, setAside, used>>

Crash(c) ==
    /\ pc[c] # "down" /\ Spend("crash", MaxCrashes)
    /\ pc' = [pc EXCEPT ![c] = "down"]
    /\ Forget(c)
    /\ UNCHANGED <<kafkaVars, registered, ch, rows, dlq, setAside>>

\* SIGTERM is looked at between batches; consumer.stop() leaves the group.
Stop(c) ==
    /\ pc[c] = "idle" /\ Spend("stop", MaxStops)
    /\ pc' = [pc EXCEPT ![c] = "down"]
    /\ Forget(c) /\ Leave(c)
    /\ UNCHANGED <<topics, log, committed, owner, registered, ch, rows, dlq, setAside>>

-----------------------------------------------------------------------------
(* getmany, and _handle taking the lock on what it returned: there is no await *)
(* between the two that can block, so the batch is still assigned.             *)

Poll(c) ==
    /\ pc[c] = "idle" /\ ~revoking[c]
    /\ \E upTo \in [assigned[c] -> 0 .. MaxLog] :
          /\ \A t \in assigned[c] : upTo[t] \in position[c][t] .. Len(log[t])
          /\ \E t \in assigned[c] : upTo[t] > position[c][t]
          /\ Cardinality({r \in assigned[c] \X Offsets :
                             r[2] \in position[c][r[1]] .. upTo[r[1]] - 1}) =< MaxPoll
          /\ fetched' = [fetched EXCEPT ![c] = position[c]]
          /\ position' = [position EXCEPT ![c] =
                 [t \in Topics |-> IF t \in assigned[c] THEN upTo[t] ELSE @[t]]]
          /\ todo' = [todo EXCEPT ![c] = {t \in assigned[c] : upTo[t] > position[c][t]}]
    /\ pc' = [pc EXCEPT ![c] = "route"]
    /\ UNCHANGED <<kafkaVars, registered, ch, rows, dlq, revoking, assigned, cur, keep, dead,
                   offsets, memoVars, setAside, used>>

\* The loop moves past what is left of a batch: nothing seeks back, so the next
\* getmany returns what follows.
MovePast(c, T) ==
    setAside' = [t \in Topics |-> IF t \in T THEN setAside[t] \cup Batch(c, t)
                                  ELSE setAside[t]]

\* registry.get(topic): the cache, else the config in Redis. A topic without a
\* config is skipped.
RouteTopic(c, t) ==
    /\ pc[c] = "route" /\ t \in todo[c]
    /\ IF t \in cache[c] \cup registered
       THEN /\ cache' = [cache EXCEPT ![c] = @ \cup {t}]
            /\ cur' = [cur EXCEPT ![c] = t]
            /\ pc' = [pc EXCEPT ![c] = "table"]
            /\ UNCHANGED <<todo, setAside>>
       ELSE /\ todo' = [todo EXCEPT ![c] = @ \ {t}]
            /\ MovePast(c, {t})
            /\ UNCHANGED <<cache, cur, pc>>
    /\ UNCHANGED <<kafkaVars, registered, ch, rows, dlq, revoking, readVars, keep, dead,
                   offsets, known, used>>

\* Mutant: the batch ends without a commit.
EndOfBatch_NoCommit(c) ==
    /\ pc[c] = "route" /\ todo[c] = {}
    /\ pc' = [pc EXCEPT ![c] = "idle"]
    /\ offsets' = [offsets EXCEPT ![c] = {}]
    /\ UNCHANGED <<kafkaVars, registered, ch, rows, dlq, revoking, readVars, todo, cur, keep,
                   dead, memoVars, setAside, used>>

\* The end of the loop: commit if anything was written.
EndOfBatch(c) ==
    /\ pc[c] = "route" /\ todo[c] = {}
    /\ pc' = [pc EXCEPT ![c] = IF offsets[c] = {} THEN "idle" ELSE "commit"]
    /\ UNCHANGED <<kafkaVars, registered, ch, rows, dlq, revoking, readVars, batchVars,
                   memoVars, setAside, used>>

\* write() returned: the topic's offsets will be committed.
WriteDone(c) ==
    /\ pc' = [pc EXCEPT ![c] = "route"]
    /\ todo' = [todo EXCEPT ![c] = @ \ {cur[c]}]
    /\ offsets' = [offsets EXCEPT ![c] = @ \cup {cur[c]}]
    /\ cur' = [cur EXCEPT ![c] = None]
    /\ keep' = [keep EXCEPT ![c] = {}]
    /\ dead' = [dead EXCEPT ![c] = {}]
    /\ UNCHANGED setAside

\* Mutant: the topic whose write raised is committed all the same.
WriteFailed_Commits(c) == WriteDone(c)

\* write() raised: break. The topic and those after it stay uncommitted.
WriteFailed(c) ==
    /\ pc' = [pc EXCEPT ![c] = "route"]
    /\ MovePast(c, todo[c])
    /\ todo' = [todo EXCEPT ![c] = {}]
    /\ cur' = [cur EXCEPT ![c] = None]
    /\ keep' = [keep EXCEPT ![c] = {}]
    /\ dead' = [dead EXCEPT ![c] = {}]
    /\ UNCHANGED offsets

OfKind(c, k) == {o \in Batch(c, cur[c]) : Kind(cur[c], o) = k}

\* ensure_table raises: ClickHouse is away, or it is there and refuses the table.
TableFails(c) ==
    /\ cur[c] \notin known[c]
    /\ \/ ch = "down" /\ UNCHANGED used
       \/ ch = "up" /\ Spend("outage", MaxOutages)
    /\ WriteFailed(c)
    /\ UNCHANGED known

\* Every record has its row or is unmappable.
Mapped(c) ==
    LET unmappable == OfKind(c, "unmappable")
    IN  /\ dead' = [dead EXCEPT ![c] = unmappable]
        /\ keep' = [keep EXCEPT ![c] = Batch(c, cur[c]) \ unmappable]
        /\ pc' = [pc EXCEPT ![c] = IF Batch(c, cur[c]) \subseteq unmappable
                                   THEN "deadLetter" ELSE "insert"]
        /\ UNCHANGED <<todo, cur, offsets, setAside>>

\* to_row on every record of the topic. One that raises anything but RecordError ends
\* write() with ClickHouse up and nothing inserted.
MapRecords(c) == IF OfKind(c, "huge") # {} THEN WriteFailed(c) ELSE Mapped(c)

\* ensure_table, then the mapping.
PrepareTable(c) ==
    /\ pc[c] = "table"
    /\ \/ TableFails(c)
       \/ /\ cur[c] \in known[c] \/ ch = "up"
          /\ known' = [known EXCEPT ![c] = @ \cup {cur[c]}]
          /\ MapRecords(c)
          /\ UNCHANGED used
    /\ UNCHANGED <<kafkaVars, registered, ch, rows, dlq, revoking, readVars, cache>>

Lose(n) == used.lost + n =< MaxLostReplies /\ used' = [used EXCEPT !.lost = @ + n]

\* ClickHouseConnectionManager.execute: how often the insert was applied when the
\* retries end, and whether the caller sees success. A retry repeats an insert
\* whose reply was lost, as often as replies are lost.
Execute(accepted, applied, ok) ==
    \/ ch = "up" /\ accepted /\ ok /\ applied > 0 /\ Lose(applied - 1)
    \/ ch = "up" /\ ~accepted /\ ~ok /\ applied = 0 /\ UNCHANGED used
    \/ ch = "down" /\ ~ok /\ (accepted \/ applied = 0) /\ Lose(applied)

\* Mutant: an insert leaves the last record of the batch out.
CountIn_LosesLast(table, t, S, n) ==
    [table EXCEPT ![t] = [o \in Offsets |->
        IF o \in S /\ (\E p \in S : p > o \/ S = {p}) THEN @[o] + n ELSE @[o]]]

CountIn(table, t, S, n) ==
    [table EXCEPT ![t] = [o \in Offsets |-> IF o \in S THEN @[o] + n ELSE @[o]]]

Accepted(t, S) == \A o \in S : Kind(t, o) # "poison"

\* One insert of all mapped records; if it fails, records go one by one.
InsertBatch(c) ==
    /\ pc[c] = "insert"
    /\ \E n \in 0 .. MaxLostReplies + 1, ok \in BOOLEAN :
          /\ Execute(Accepted(cur[c], keep[c]), n, ok)
          /\ rows' = CountIn(rows, cur[c], keep[c], n)
          /\ \/ ok /\ dead[c] = {} /\ WriteDone(c)
             \/ /\ ok /\ dead[c] # {}
                /\ keep' = [keep EXCEPT ![c] = {}]
                /\ pc' = [pc EXCEPT ![c] = "deadLetter"]
                /\ UNCHANGED <<todo, cur, dead, offsets, setAside>>
             \/ /\ ~ok
                /\ pc' = [pc EXCEPT ![c] = "isolate"]
                /\ UNCHANGED <<batchVars, setAside>>
    /\ UNCHANGED <<kafkaVars, registered, ch, dlq, revoking, readVars, memoVars>>

\* Mutant: the first record that fails takes the rest of the batch with it.
IsolateRecord_GivesUp(c, o) ==
    /\ pc[c] = "isolate" /\ o \in keep[c] /\ \A p \in keep[c] : o =< p
    /\ keep' = [keep EXCEPT ![c] = {}]
    /\ dead' = [dead EXCEPT ![c] = @ \cup keep[c]]
    /\ pc' = [pc EXCEPT ![c] = "deadLetter"]
    /\ UNCHANGED <<kafkaVars, registered, ch, rows, dlq, revoking, readVars, todo, cur,
                   offsets, memoVars, setAside, used>>

\* _insert_individually: one record; whatever exception it meets, it is dead.
IsolateRecord(c, o) ==
    /\ pc[c] = "isolate" /\ o \in keep[c] /\ \A p \in keep[c] : o =< p
    /\ \E n \in 0 .. MaxLostReplies + 1, ok \in BOOLEAN :
          LET failed == IF ok THEN dead[c] ELSE dead[c] \cup {o}
          IN  /\ Execute(Accepted(cur[c], {o}), n, ok)
              /\ rows' = CountIn(rows, cur[c], {o}, n)
              /\ \/ keep[c] = {o} /\ failed = {} /\ WriteDone(c)
                 \/ /\ keep[c] # {o} \/ failed # {}
                    /\ keep' = [keep EXCEPT ![c] = @ \ {o}]
                    /\ dead' = [dead EXCEPT ![c] = failed]
                    /\ pc' = [pc EXCEPT ![c] = IF keep[c] = {o} THEN "deadLetter" ELSE @]
                    /\ UNCHANGED <<todo, cur, offsets, setAside>>
    /\ UNCHANGED <<kafkaVars, registered, ch, dlq, revoking, readVars, memoVars>>

\* _dead_letter: one insert of all dead records; if it raises, so does write().
DeadLetter(c) ==
    /\ pc[c] = "deadLetter"
    /\ \E n \in 0 .. MaxLostReplies + 1, ok \in BOOLEAN :
          /\ Execute(TRUE, n, ok)
          /\ dlq' = CountIn(dlq, cur[c], dead[c], n)
          /\ IF ok THEN WriteDone(c) ELSE WriteFailed(c)
    /\ UNCHANGED <<kafkaVars, registered, ch, rows, revoking, readVars, memoVars>>

\* Mutant: a commit is accepted from a replica that was thrown out of the group.
CommitAccepted_NoFence(c) == c \in Consumers

\* The broker accepts a commit from a member of the current generation.
CommitAccepted(c) == c \in members \ joined

\* consumer.commit(offsets), last offset + 1 for each; a refusal is swallowed.
Commit(c) ==
    /\ pc[c] = "commit"
    /\ committed' = IF CommitAccepted(c)
                    THEN [t \in Topics |-> IF t \in offsets[c] THEN position[c][t]
                                           ELSE committed[t]]
                    ELSE committed
    /\ offsets' = [offsets EXCEPT ![c] = {}]
    /\ pc' = [pc EXCEPT ![c] = "idle"]
    /\ UNCHANGED <<topics, log, groupVars, registered, ch, rows, dlq, revoking, readVars,
                   todo, cur, keep, dead, memoVars, setAside, used>>

-----------------------------------------------------------------------------
\* One step of a replica's own code.
Process(c) ==
    \/ Poll(c)
    \/ \E t \in Topics : RouteTopic(c, t)
    \/ PrepareTable(c)
    \/ InsertBatch(c)
    \/ \E o \in Offsets : IsolateRecord(c, o)
    \/ DeadLetter(c)
    \/ EndOfBatch(c)
    \/ Commit(c)

Next ==
    \/ \E t \in Topics : NewTopic(t) \/ Register(t) \/ Produce(t)
    \/ ClickHouseDown \/ ClickHouseUp \/ CompleteRebalance
    \/ \E c \in Consumers :
          \/ Process(c)
          \/ Start(c) \/ BeginRevoke(c) \/ Join(c) \/ Assign(c)
          \/ Kick(c) \/ ExpireDead(c) \/ Crash(c) \/ Stop(c)

Spec == Init /\ [][Next]_vars

(* What the deployment keeps doing: the processes are scheduled and restarted,  *)
(* the broker times dead members out and ends rebalances. Nothing makes         *)
(* ClickHouse come back within any time, but it comes back.                     *)
Fairness ==
    /\ WF_vars(CompleteRebalance) /\ WF_vars(ClickHouseUp)
    /\ \A c \in Consumers :
          /\ WF_vars(Process(c)) /\ WF_vars(Start(c)) /\ WF_vars(BeginRevoke(c))
          /\ WF_vars(Join(c)) /\ WF_vars(Assign(c)) /\ WF_vars(ExpireDead(c))

FairSpec == Spec /\ Fairness

-----------------------------------------------------------------------------
(* Properties.                                                                *)

Stages == {"down", "idle", "route", "table", "insert", "isolate", "deadLetter", "commit"}
Disturbances == {"crash", "stop", "kick", "outage", "lost"}

\* Every variable has its type.
TypeOK ==
    /\ topics \subseteq Topics /\ registered \subseteq Topics
    /\ log \in [Topics -> Seq(RecordKinds)]
    /\ \A t \in Topics : Len(log[t]) =< MaxLog
    /\ committed \in [Topics -> 0 .. MaxLog]
    /\ members \subseteq Consumers /\ joined \subseteq Consumers
    /\ owner \in [Topics -> Consumers \cup {None}]
    /\ phase \in {"stable", "rebalancing"}
    /\ ch \in {"up", "down"}
    /\ rows \in [Topics -> [Offsets -> Nat]]
    /\ dlq \in [Topics -> [Offsets -> Nat]]
    /\ pc \in [Consumers -> Stages]
    /\ revoking \in [Consumers -> BOOLEAN]
    /\ assigned \in [Consumers -> SUBSET Topics]
    /\ position \in [Consumers -> [Topics -> 0 .. MaxLog]]
    /\ fetched \in [Consumers -> [Topics -> 0 .. MaxLog]]
    /\ todo \in [Consumers -> SUBSET Topics]
    /\ cur \in [Consumers -> Topics \cup {None}]
    /\ keep \in [Consumers -> SUBSET Offsets]
    /\ dead \in [Consumers -> SUBSET Offsets]
    /\ offsets \in [Consumers -> SUBSET Topics]
    /\ cache \in [Consumers -> SUBSET Topics]
    /\ known \in [Consumers -> SUBSET Topics]
    /\ setAside \in [Topics -> SUBSET Offsets]
    /\ used \in [Disturbances -> Nat]

\* "getmany() -> insert -> commit, the order is the contract": whatever crashes,
\* kicks, rebalances and outages happen, a committed offset has a row or a dead
\* letter, or a batch moved past it because its topic had no config or its write
\* raised: ClickHouse away, its table refused, or a number too large for a float in
\* the same batch. Nothing else can lose a record.
NothingLostSilently ==
    \A t \in Topics : \A o \in 0 .. committed[t] - 1 : Dealt(t, o)

\* The contract as the documents state it: what is committed has been inserted or
\* dead-lettered. It holds while ClickHouse answers, configs precede topics and no
\* record is huge; an outage, an orphan topic or a record that makes to_row raise
\* breaks it (main.py 154, 171-174).
CommittedIsHandled ==
    \A t \in Topics : \A o \in 0 .. committed[t] - 1 : Handled(t, o)

\* At-least-once has a price and a bound: each duplicate of a record is paid for
\* by a crash, a kick, a lost reply or an outage. Rebalances and orderly stops are
\* free: the listener holds a rebalance until the batch is committed.
DuplicatesArePaidFor ==
    \A t \in Topics, o \in Offsets :
        rows[t][o] + dlq[t][o] =< 1 + used.crash + used.kick + used.lost + used.outage

\* As long as ClickHouse never goes away, only records it cannot take are dead
\* letters, and those never become rows: a poison row does not take its
\* neighbours in the batch with it.
OnlyBadRecordsDeadLetter ==
    used.outage = 0 =>
        \A t \in Topics : \A o \in Logged(t) :
            IF Kind(t, o) = "good" THEN dlq[t][o] = 0 ELSE rows[t][o] = 0

\* ARCHITECTURE 3.3.1: a write that fails because ClickHouse is unreachable is not
\* dead-lettered, so good records never are. An outage that ends between the
\* single-record retries and the dead-letter insert breaks it (sink.py 181-182).
GoodNeverDeadLettered ==
    \A t \in Topics : \A o \in Logged(t) : Kind(t, o) = "good" => dlq[t][o] = 0

\* No two replicas in the current generation hold the same topic, so a batch in
\* the hands of a member is being written by nobody else who could commit it.
OneCommitter ==
    \A c, d \in Consumers :
        c # d /\ CommitAccepted(c) /\ CommitAccepted(d) /\ pc[c] \notin {"down", "idle"}
              /\ pc[d] \notin {"down", "idle"}
        => assigned[c] \cap assigned[d] = {}

\* The committed offset never moves back, whoever commits after whatever
\* rebalance, kick or crash.
CommitsOnlyAdvance == [][\A t \in Topics : committed'[t] >= committed[t]]_committed

\* The pool implements the delivery contract.
Contract == INSTANCE DeliveryContract WITH
    delivered <- [t \in Topics |-> {o \in Offsets : Handled(t, o)}]
ImplementsContract == Contract!Spec

\* Once disturbances stop, the pool drains every topic: lag returns to zero,
\* which is what the API waits for before it deletes a topic.
EventuallyDrained == \A t \in Topics : <>[](committed[t] = Len(log[t]))
=============================================================================
