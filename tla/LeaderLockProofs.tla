---------------------------- MODULE LeaderLockProofs ----------------------------
(* Proofs about LeaderLock for every number of processes and every timing.      *)
EXTENDS LeaderLock, TLAPS

USE LockAssumption

(* Every state has its types, and only the main loop has a renewal task.        *)

LEMMA TickType == ASSUME TypeOK, key # None => ttl > 0, Tick PROVE TypeOK'
  BY DEF TypeOK, Tick

LEMMA TypeStep ==
  ASSUME TypeOK, key # None => ttl > 0, Next
  PROVE  TypeOK' /\ (key' # None => ttl' > 0)
  <1>1. CASE Tick
    BY <1>1, TickType DEF Tick, TypeOK
  <1>2. ASSUME NEW p \in Processes, Start(p) PROVE TypeOK' /\ (key' # None => ttl' > 0)
    BY <1>2 DEF TypeOK, Start, redisVars
  <1>3. ASSUME NEW p \in Processes, Acquire(p) PROVE TypeOK' /\ (key' # None => ttl' > 0)
    BY <1>3 DEF TypeOK, Acquire
  <1>4. ASSUME NEW p \in Processes, AttemptFails(p) PROVE TypeOK' /\ (key' # None => ttl' > 0)
    BY <1>4 DEF TypeOK, AttemptFails, redisVars
  <1>5. ASSUME NEW p \in Processes, RenewGet(p) PROVE TypeOK' /\ (key' # None => ttl' > 0)
    BY <1>5 DEF TypeOK, RenewGet, redisVars
  <1>6. ASSUME NEW p \in Processes, RenewExpire(p) PROVE TypeOK' /\ (key' # None => ttl' > 0)
    BY <1>6 DEF TypeOK, RenewExpire
  <1>7. ASSUME NEW p \in Processes, RenewDies(p) PROVE TypeOK' /\ (key' # None => ttl' > 0)
    BY <1>7 DEF TypeOK, RenewDies, redisVars
  <1>8. ASSUME NEW p \in Processes, Release(p) PROVE TypeOK' /\ (key' # None => ttl' > 0)
    BY <1>8 DEF TypeOK, Release, redisVars
  <1>9. ASSUME NEW p \in Processes, ReleaseGet(p) PROVE TypeOK' /\ (key' # None => ttl' > 0)
    BY <1>9 DEF TypeOK, ReleaseGet, redisVars
  <1>10. ASSUME NEW p \in Processes, ReleaseDelete(p)
         PROVE  TypeOK' /\ (key' # None => ttl' > 0)
    BY <1>10 DEF TypeOK, ReleaseDelete
  <1>11. ASSUME NEW p \in Processes, Crash(p) PROVE TypeOK' /\ (key' # None => ttl' > 0)
    BY <1>11 DEF TypeOK, Crash, redisVars
  <1>12. ASSUME NEW p \in Processes, ActStarts(p) \/ ActEnds(p)
         PROVE  TypeOK' /\ (key' # None => ttl' > 0)
    BY <1>12 DEF TypeOK, ActStarts, ActEnds, redisVars
  <1> QED
    BY <1>1, <1>2, <1>3, <1>4, <1>5, <1>6, <1>7, <1>8, <1>9, <1>10, <1>11, <1>12 DEF Next

LEMMA RenewOffStep == ASSUME TypeOK, RenewOff, Next PROVE RenewOff'
  <1>1. CASE Tick
    BY <1>1 DEF RenewOff, Tick
  <1>2. ASSUME NEW p \in Processes, Start(p) \/ Acquire(p) \/ AttemptFails(p) PROVE RenewOff'
    BY <1>2 DEF TypeOK, RenewOff, Start, Acquire, AttemptFails
  <1>3. ASSUME NEW p \in Processes, RenewGet(p) \/ RenewExpire(p) \/ RenewDies(p)
        PROVE  RenewOff'
    BY <1>3 DEF TypeOK, RenewOff, RenewGet, RenewExpire, RenewDies
  <1>4. ASSUME NEW p \in Processes, Release(p) \/ ReleaseGet(p) \/ ReleaseDelete(p) \/ Crash(p)
        PROVE  RenewOff'
    BY <1>4 DEF TypeOK, RenewOff, Release, ReleaseGet, ReleaseDelete, Crash
  <1>5. ASSUME NEW p \in Processes, ActStarts(p) \/ ActEnds(p) PROVE RenewOff'
    BY <1>5 DEF RenewOff, ActStarts, ActEnds
  <1> QED BY <1>1, <1>2, <1>3, <1>4, <1>5 DEF Next

LEMMA InitBase == Init => TypeOK /\ RenewOff /\ (key # None => ttl > 0)
  BY DEF Init, TypeOK, RenewOff

-----------------------------------------------------------------------------
(* Exclusion.                                                                   *)

LEMMA HoldsTick ==
  ASSUME Timely, LockInv, failures = 0, Tick, NEW p \in Processes
  PROVE  Holds(p)'
  <1>1. /\ key \in Processes \cup {None} /\ ttl \in Nat
        /\ timer[p] \in Nat /\ leaving[p] \in Nat
        /\ Holds(p) /\ ~Overdue(p) /\ (key # None => ttl > 0)
    BY DEF LockInv, TypeOK, Tick
  <1>2. /\ pc' = pc /\ renewer' = renewer /\ isLeader' = isLeader
        /\ timer'[p] = IF Ticking(p) THEN timer[p] + 1 ELSE timer[p]
        /\ leaving'[p] = IF pc[p] \in {"releasing", "deleting"} THEN leaving[p] + 1
                         ELSE leaving[p]
        /\ ttl' = IF key = None THEN ttl ELSE ttl - 1
        /\ key' = IF ttl' = 0 THEN None ELSE key
    BY DEF Tick
  <1>3. pc[p] # "working" => renewer[p] = "off"
    BY DEF LockInv, RenewOff
  <1>4. CASE pc[p] = "working"
    <2>1. timer[p] + 1 =< Renew + MaxDelay /\ timer'[p] = timer[p] + 1
      BY <1>1, <1>2, <1>4 DEF Holds, Overdue, Ticking
    <2>2. key = p /\ ttl + timer[p] >= TTL /\ ttl' = ttl - 1
      BY <1>1, <1>2, <1>4 DEF Holds
    <2>3. ttl' # 0
      BY <1>1, <2>1, <2>2 DEF Timely
    <2> QED BY <1>1, <1>2, <1>4, <2>1, <2>2, <2>3 DEF Holds
  <1>5. CASE pc[p] \in {"releasing", "deleting"}
    <2>1. leaving[p] + 1 =< MaxDelay /\ leaving'[p] = leaving[p] + 1
      BY <1>1, <1>2, <1>5 DEF Overdue
    <2>2. timer'[p] = timer[p] + 1
      BY <1>2, <1>3, <1>5 DEF Ticking
    <2>3. key = p /\ ttl + timer[p] >= TTL /\ ttl' = ttl - 1
      BY <1>1, <1>2, <1>5 DEF Holds
    <2>4. timer'[p] =< Renew + MaxDelay + leaving'[p]
      BY <1>1, <1>5, <2>1, <2>2 DEF Holds
    <2>5. ttl' # 0
      BY <1>1, <2>1, <2>2, <2>3, <2>4 DEF Timely
    <2> QED BY <1>1, <1>2, <1>5, <2>1, <2>2, <2>3, <2>4, <2>5 DEF Holds
  <1> QED BY <1>2, <1>4, <1>5 DEF Holds

\* The actions of one process do not touch what the others hold.
LEMMA HoldsStep ==
  ASSUME Timely, LockInv, failures = 0, NEW p \in Processes, NEW q \in Processes,
         \/ Start(p) \/ Acquire(p) \/ AttemptFails(p)
         \/ RenewGet(p) \/ RenewExpire(p)
         \/ ActStarts(p) \/ ActEnds(p)
         \/ Release(p) \/ ReleaseGet(p) \/ ReleaseDelete(p) \/ Crash(p)
  PROVE  Holds(q)'
  <1>1. TypeOK /\ RenewOff /\ Holds(p) /\ Holds(q) /\ p # None /\ q # None
    BY DEF LockInv
  <1>2. timer[p] \in Nat /\ timer[q] \in Nat /\ ttl \in Nat /\ leaving[q] \in Nat
    BY <1>1 DEF TypeOK
  <1>3. CASE Start(p) \/ AttemptFails(p)
    BY <1>1, <1>3 DEF TypeOK, Holds, Start, AttemptFails, redisVars
  <1>4. CASE Acquire(p)
    BY <1>1, <1>4 DEF TypeOK, Holds, Acquire
  <1>5. CASE RenewGet(p)
    BY <1>1, <1>5 DEF TypeOK, RenewOff, Holds, RenewGet, redisVars
  <1>6. CASE RenewExpire(p)
    BY <1>1, <1>2, <1>6 DEF TypeOK, RenewOff, Holds, RenewExpire
  <1>7. CASE Release(p)
    BY <1>1, <1>2, <1>7 DEF TypeOK, Holds, Release, redisVars
  <1>8. CASE ReleaseGet(p)
    BY <1>1, <1>8 DEF TypeOK, Holds, ReleaseGet, redisVars
  <1>9. CASE ReleaseDelete(p)
    BY <1>1, <1>9 DEF TypeOK, Holds, ReleaseDelete
  <1>10. CASE Crash(p)
    BY <1>1, <1>10 DEF TypeOK, Holds, Crash, redisVars
  <1>11. CASE ActStarts(p) \/ ActEnds(p)
    BY <1>1, <1>11 DEF Holds, ActStarts, ActEnds, redisVars
  <1> QED BY <1>3, <1>4, <1>5, <1>6, <1>7, <1>8, <1>9, <1>10, <1>11

LEMMA LockStep == ASSUME Timely, LockInv, [Next]_vars PROVE LockInv'
  <1>1. CASE UNCHANGED vars
    BY <1>1 DEF vars, redisVars, LockInv, TypeOK, RenewOff, Holds
  <1>2. CASE Next
    <2>1. TypeOK' /\ (key' # None => ttl' > 0) /\ RenewOff'
      BY <1>2, TypeStep, RenewOffStep DEF LockInv
    <2>2. ASSUME NEW p \in Processes, RenewDies(p) PROVE failures' # 0
      BY <2>2 DEF LockInv, TypeOK, RenewDies
    <2>3. failures' = 0 => failures = 0 /\ ~\E p \in Processes : RenewDies(p)
      BY <1>2, <2>2
         DEF Next, Tick, Start, Acquire, AttemptFails, RenewGet, RenewExpire, ActStarts,
             ActEnds, Release,
             ReleaseGet, ReleaseDelete, Crash
    <2>4. ASSUME failures' = 0, NEW q \in Processes PROVE Holds(q)'
      BY <1>2, <2>3, <2>4, HoldsTick, HoldsStep DEF Next
    <2> QED BY <2>1, <2>4 DEF LockInv
  <1> QED BY <1>1, <1>2

\* Whoever runs the main loop or releases the lock holds the key, with time left,
\* as long as renewal tasks survive and no renewal or release takes more than MaxDelay.
THEOREM LockInvariant == ASSUME Timely PROVE Spec => []LockInv
  <1>1. Init => LockInv
    BY InitBase DEF Init, LockInv, Holds
  <1>2. LockInv /\ [Next]_vars => LockInv'
    BY LockStep
  <1> QED BY <1>1, <1>2, PTL DEF Spec

\* "Only the holder runs the main loop" (leader_lock.py 16), under that timing.
THEOREM OneLeaderHolds == ASSUME Timely PROVE Spec => []OneLeader
  <1>1. LockInv => OneLeader
    BY DEF LockInv, Holds, OneLeader, OnlyHolderWorks, Working
  <1> QED BY <1>1, LockInvariant, PTL

\* The get-then-delete of release (leader_lock.py 104-107) never deletes the key of
\* another process, under that timing.
THEOREM DeletesOwnLockHolds == ASSUME Timely PROVE Spec => DeletesOwnLock
  <1>1. LockInv => (failures = 0 => \A p \in Processes : ReleaseDelete(p) => key = p)
    BY DEF LockInv, Holds, ReleaseDelete
  <1> QED BY <1>1, LockInvariant, PTL DEF DeletesOwnLock, Spec

-----------------------------------------------------------------------------
(* Takeover. Nothing is assumed of the timing or of the renewal task.           *)

LEMMA WaitsTick == ASSUME WaitInv, Tick, NEW p \in Processes PROVE Waits(p)'
  <1>1. /\ ttl \in Nat /\ timer[p] \in Nat /\ waited[p] \in Nat
        /\ Waits(p) /\ ~Overdue(p) /\ (key # None => ttl > 0)
        /\ pc[p] # "working" => renewer[p] = "off"
    BY DEF WaitInv, TypeOK, Tick, RenewOff
  <1>2. /\ pc' = pc
        /\ timer'[p] = IF Ticking(p) THEN timer[p] + 1 ELSE timer[p]
        /\ waited'[p] = IF pc[p] = "waiting" /\ Working = {} THEN waited[p] + 1 ELSE 0
        /\ ttl' = IF key = None THEN ttl ELSE ttl - 1
        /\ key' = IF ttl' = 0 THEN None ELSE key
    BY DEF Tick
  <1>3. Working' = Working
    BY <1>2 DEF Working
  <1>4. CASE pc[p] = "waiting"
    <2>1. timer'[p] = timer[p] + 1 /\ timer'[p] =< Retry + MaxDelay
      BY <1>1, <1>2, <1>4 DEF Ticking, Overdue, Waits
    <2>2. CASE Working = {}
      BY <1>1, <1>2, <1>3, <1>4, <2>1, <2>2 DEF Waits
    <2>3. CASE Working # {}
      <3>1. waited'[p] = 0 /\ waited[p] = 0
        BY <1>1, <1>2, <2>3 DEF Waits
      <3> QED BY <1>1, <1>2, <1>3, <1>4, <2>1, <3>1 DEF Waits
    <2> QED BY <2>2, <2>3
  <1>5. CASE pc[p] # "waiting"
    <2>1. waited'[p] = 0
      BY <1>2, <1>5
    <2> QED BY <1>1, <1>2, <1>5, <2>1 DEF Waits
  <1> QED BY <1>4, <1>5

LEMMA WaitsStep ==
  ASSUME WaitInv, NEW p \in Processes, NEW q \in Processes,
         \/ Start(p) \/ Acquire(p) \/ AttemptFails(p)
         \/ RenewGet(p) \/ RenewExpire(p) \/ RenewDies(p)
         \/ ActStarts(p) \/ ActEnds(p)
         \/ Release(p) \/ ReleaseGet(p) \/ ReleaseDelete(p) \/ Crash(p)
  PROVE  Waits(q)'
  <1>1. TypeOK /\ RenewOff /\ Waits(q)
    BY DEF WaitInv
  <1>2. /\ ttl \in Nat /\ timer[q] \in Nat /\ waited[q] \in Nat
        /\ key # None => ttl > 0
    BY <1>1 DEF TypeOK, WaitInv
  <1>3. CASE Start(p)
    BY <1>1, <1>2, <1>3 DEF TypeOK, Waits, Working, Start, redisVars
  <1>4. CASE Acquire(p)
    BY <1>1, <1>2, <1>4 DEF TypeOK, Waits, Acquire
  <1>5. CASE AttemptFails(p)
    BY <1>1, <1>2, <1>5 DEF TypeOK, Waits, Working, AttemptFails, redisVars
  <1>6. CASE RenewGet(p) \/ RenewDies(p)
    BY <1>1, <1>2, <1>6 DEF TypeOK, Waits, Working, RenewGet, RenewDies, redisVars
  <1>7. CASE RenewExpire(p)
    <2>1. p \in Working /\ waited[q] = 0
      BY <1>1, <1>7 DEF RenewOff, Working, Waits, RenewExpire
    <2> QED BY <1>1, <1>2, <1>7, <2>1 DEF TypeOK, RenewOff, Waits, Working, RenewExpire
  <1>8. CASE Release(p) \/ ReleaseGet(p) \/ Crash(p)
    <2>1. Working' \subseteq Working
      BY <1>1, <1>8 DEF TypeOK, Working, Release, ReleaseGet, Crash
    <2> QED BY <1>1, <1>2, <1>8, <2>1 DEF TypeOK, Waits, Release, ReleaseGet, Crash, redisVars
  <1>9. CASE ReleaseDelete(p)
    <2>1. Working' = Working
      BY <1>1, <1>9 DEF TypeOK, Working, ReleaseDelete
    <2>2. pc'[q] = "waiting" => pc[q] = "waiting"
      BY <1>1, <1>9 DEF TypeOK, ReleaseDelete
    <2> QED BY <1>1, <1>2, <1>9, <2>1, <2>2 DEF TypeOK, Waits, ReleaseDelete
  <1>10. CASE ActStarts(p) \/ ActEnds(p)
    BY <1>1, <1>10 DEF Waits, Working, ActStarts, ActEnds, redisVars
  <1> QED BY <1>3, <1>4, <1>5, <1>6, <1>7, <1>8, <1>9, <1>10

LEMMA WaitStep == ASSUME WaitInv, [Next]_vars PROVE WaitInv'
  <1>1. CASE UNCHANGED vars
    BY <1>1 DEF vars, redisVars, WaitInv, TypeOK, RenewOff, Waits, Working
  <1>2. CASE Next
    <2>1. TypeOK' /\ (key' # None => ttl' > 0) /\ RenewOff'
      BY <1>2, TypeStep, RenewOffStep DEF WaitInv
    <2>2. ASSUME NEW q \in Processes PROVE Waits(q)'
      BY <1>2, WaitsTick, WaitsStep DEF Next
    <2> QED BY <2>1, <2>2 DEF WaitInv
  <1> QED BY <1>1, <1>2

\* A lock left behind is taken over in bounded time (leader_lock.py 18): no process
\* waits longer than the time to live, a retry interval and a delay while nobody
\* works, even if renewals fail, arrive late or are applied to a foreign key.
THEOREM TakeoverBound == Spec => []TakenOver
  <1>1. Init => WaitInv
    BY InitBase DEF Init, WaitInv, Waits, Working
  <1>2. WaitInv /\ [Next]_vars => WaitInv'
    BY WaitStep
  <1>3. WaitInv => TakenOver
    BY DEF WaitInv, Waits, TakenOver
  <1> QED BY <1>1, <1>2, <1>3, PTL DEF Spec
=============================================================================
