------------------------------- MODULE LeaderLock -------------------------------
(* The Redis leader lock of the controller and the watchdog (leader_lock.py): a *)
(* key with a time to live, renewed by a background task of its holder and      *)
(* deleted by a get-then-delete. Time passes in ticks; Redis applies a command  *)
(* at an instant. What the wake-up and the round trips of one attempt, of one   *)
(* renewal or of one release take together is at most MaxDelay ticks.           *)
EXTENDS Naturals

CONSTANTS Processes,      \* instances of one singleton service
          None,           \* no holder
          TTL,            \* LOCK_TTL_S
          Renew,          \* RENEW_INTERVAL
          Retry,          \* RETRY_INTERVAL
          MaxDelay,       \* how late a whole attempt, renewal or release may be
          MaxFailures     \* renewal tasks that a Redis error ends

ASSUME LockAssumption ==
    /\ None \notin Processes
    /\ TTL \in Nat \ {0} /\ Renew \in Nat /\ Retry \in Nat /\ MaxDelay \in Nat
    /\ MaxFailures \in Nat

VARIABLES
  key,       \* the identity in the Redis key, or None
  ttl,       \* ticks until the key expires
  pc,        \* "waiting", "working" (the main loop runs), "releasing",
             \* "deleting" (release has seen its own identity), "gone"
  renewer,   \* the background task: "off", "asleep", "checked", "ended"
  isLeader,  \* is_leader
  acting,    \* processes with an _act task or its runtime call under way
  timer,     \* ticks since the last attempt (waiting) or the last refresh (holder)
  leaving,   \* ticks since release began
  waited,    \* ticks a process has been waiting while nobody worked
  failures   \* history: renewal tasks ended by an error

redisVars == <<key, ttl>>
vars == <<redisVars, pc, renewer, isLeader, acting, timer, leaving, waited, failures>>

Init ==
    /\ key = None /\ ttl = 0
    /\ pc = [p \in Processes |-> "gone"]
    /\ renewer = [p \in Processes |-> "off"]
    /\ isLeader = [p \in Processes |-> FALSE]
    /\ acting = {}
    /\ timer = [p \in Processes |-> 0]
    /\ leaving = [p \in Processes |-> 0]
    /\ waited = [p \in Processes |-> 0]
    /\ failures = 0

Working == {p \in Processes : pc[p] = "working"}

-----------------------------------------------------------------------------
\* A process starts and makes its first attempt at once. A name is used again only
\* when nothing of the process that had it is left.
Start(p) ==
    /\ pc[p] = "gone" /\ p \notin acting
    /\ pc' = [pc EXCEPT ![p] = "waiting"]
    /\ timer' = [timer EXCEPT ![p] = Retry]
    /\ waited' = [waited EXCEPT ![p] = 0]
    /\ UNCHANGED <<redisVars, renewer, isLeader, acting, leaving, failures>>

\* Mutant: SET without NX.
Acquire_NoNX(p) ==
    /\ pc[p] = "waiting" /\ timer[p] >= Retry
    /\ key' = p /\ ttl' = TTL
    /\ pc' = [pc EXCEPT ![p] = "working"]
    /\ isLeader' = [isLeader EXCEPT ![p] = TRUE]
    /\ renewer' = [renewer EXCEPT ![p] = "asleep"]
    /\ timer' = [timer EXCEPT ![p] = 0]
    /\ waited' = [q \in Processes |-> 0]
    /\ UNCHANGED <<acting, leaving, failures>>

\* acquire_with_retry: SET NX EX succeeds, the renewal task is started and the
\* main loop runs.
Acquire(p) ==
    /\ pc[p] = "waiting" /\ timer[p] >= Retry /\ key = None
    /\ key' = p /\ ttl' = TTL
    /\ pc' = [pc EXCEPT ![p] = "working"]
    /\ isLeader' = [isLeader EXCEPT ![p] = TRUE]
    /\ renewer' = [renewer EXCEPT ![p] = "asleep"]
    /\ timer' = [timer EXCEPT ![p] = 0]
    /\ waited' = [q \in Processes |-> 0]
    /\ UNCHANGED <<acting, leaving, failures>>

\* Mutant: the loop sleeps without having tried when the key has just gone.
AttemptFails_Misses(p) ==
    /\ pc[p] = "waiting" /\ timer[p] >= Retry
    /\ timer' = [timer EXCEPT ![p] = 0]
    /\ UNCHANGED <<redisVars, pc, renewer, isLeader, acting, leaving, waited, failures>>

\* ... or the key exists: sleep and try again.
AttemptFails(p) ==
    /\ pc[p] = "waiting" /\ timer[p] >= Retry /\ key # None
    /\ timer' = [timer EXCEPT ![p] = 0]
    /\ UNCHANGED <<redisVars, pc, renewer, isLeader, acting, leaving, waited, failures>>

\* _renew_loop: GET after the sleep. A foreign identity ends the task and clears
\* is_leader; the main loop does not look at it.
RenewGet(p) ==
    /\ renewer[p] = "asleep" /\ timer[p] >= Renew
    /\ IF key = p
       THEN renewer' = [renewer EXCEPT ![p] = "checked"] /\ UNCHANGED isLeader
       ELSE /\ renewer' = [renewer EXCEPT ![p] = "ended"]
            /\ isLeader' = [isLeader EXCEPT ![p] = FALSE]
    /\ UNCHANGED <<redisVars, pc, acting, timer, leaving, waited, failures>>

\* Mutant: the task sleeps again without EXPIRE.
RenewExpire_NoExpire(p) ==
    /\ renewer[p] = "checked"
    /\ renewer' = [renewer EXCEPT ![p] = "asleep"]
    /\ timer' = [timer EXCEPT ![p] = 0]
    /\ UNCHANGED <<redisVars, pc, isLeader, acting, leaving, waited, failures>>

\* EXPIRE, on whatever the key holds by now.
RenewExpire(p) ==
    /\ renewer[p] = "checked"
    /\ ttl' = IF key = None THEN ttl ELSE TTL
    /\ renewer' = [renewer EXCEPT ![p] = "asleep"]
    /\ timer' = [timer EXCEPT ![p] = 0]
    /\ UNCHANGED <<key, pc, isLeader, acting, leaving, waited, failures>>

\* An exception of Redis ends the task; nobody awaits it, the main loop goes on.
RenewDies(p) ==
    /\ renewer[p] \in {"asleep", "checked"} /\ failures < MaxFailures
    /\ renewer' = [renewer EXCEPT ![p] = "ended"]
    /\ failures' = failures + 1
    /\ UNCHANGED <<redisVars, pc, isLeader, acting, timer, leaving, waited>>

\* The controller's loops start an _act task, or the watchdog a restart.
ActStarts(p) ==
    /\ pc[p] = "working" /\ p \notin acting
    /\ acting' = acting \cup {p}
    /\ UNCHANGED <<redisVars, pc, renewer, isLeader, timer, leaving, waited, failures>>

ActEnds(p) ==
    /\ p \in acting
    /\ acting' = acting \ {p}
    /\ UNCHANGED <<redisVars, pc, renewer, isLeader, timer, leaving, waited, failures>>

\* The main loop ends, by a signal or an exception: release() cancels the renewal.
\* It neither cancels nor awaits what is being done to a pipeline, which goes on
\* while the lock is given up and, a runtime call in its thread, after that.
Release(p) ==
    /\ pc[p] = "working"
    /\ renewer' = [renewer EXCEPT ![p] = "off"]
    /\ leaving' = [leaving EXCEPT ![p] = 0]
    /\ pc' = [pc EXCEPT ![p] = IF isLeader[p] THEN "releasing" ELSE "gone"]
    /\ UNCHANGED <<redisVars, isLeader, acting, timer, waited, failures>>

\* release: GET, and go on to DELETE only if the key is still ours.
ReleaseGet(p) ==
    /\ pc[p] = "releasing"
    /\ pc' = [pc EXCEPT ![p] = IF key = p THEN "deleting" ELSE "gone"]
    /\ isLeader' = [isLeader EXCEPT ![p] = key = p]
    /\ UNCHANGED <<redisVars, renewer, acting, timer, leaving, waited, failures>>

\* release: DELETE, of whatever the key holds by now.
ReleaseDelete(p) ==
    /\ pc[p] = "deleting"
    /\ key' = None /\ ttl' = 0
    /\ pc' = [pc EXCEPT ![p] = "gone"]
    /\ isLeader' = [isLeader EXCEPT ![p] = FALSE]
    /\ UNCHANGED <<renewer, acting, timer, leaving, waited, failures>>

\* A process is killed; its key lives on until it expires.
Crash(p) ==
    /\ pc[p] # "gone" \/ p \in acting
    /\ acting' = acting \ {p}
    /\ pc' = [pc EXCEPT ![p] = "gone"]
    /\ renewer' = [renewer EXCEPT ![p] = "off"]
    /\ isLeader' = [isLeader EXCEPT ![p] = FALSE]
    /\ UNCHANGED <<redisVars, timer, leaving, waited, failures>>

\* What p does next is due now: time cannot pass before it is done. A renewal has one
\* MaxDelay from the refresh before it: that reply, the wake-up, GET and EXPIRE; a
\* release has one for GET and DELETE.
Overdue(p) ==
    \/ pc[p] = "waiting" /\ timer[p] >= Retry + MaxDelay
    \/ pc[p] = "working" /\ renewer[p] \in {"asleep", "checked"}
         /\ timer[p] >= Renew + MaxDelay
    \/ pc[p] \in {"releasing", "deleting"} /\ leaving[p] >= MaxDelay

\* Timers of processes that nothing waits for stand still.
Ticking(p) == pc[p] # "gone" /\ renewer[p] # "ended"

Tick ==
    /\ \A p \in Processes : ~Overdue(p)
    /\ ttl' = IF key = None THEN ttl ELSE ttl - 1
    /\ key' = IF ttl' = 0 THEN None ELSE key
    /\ timer' = [p \in Processes |-> IF Ticking(p) THEN timer[p] + 1 ELSE timer[p]]
    /\ leaving' = [p \in Processes |->
           IF pc[p] \in {"releasing", "deleting"} THEN leaving[p] + 1 ELSE leaving[p]]
    /\ waited' = [p \in Processes |->
           IF pc[p] = "waiting" /\ Working = {} THEN waited[p] + 1 ELSE 0]
    /\ UNCHANGED <<pc, renewer, isLeader, acting, failures>>

Next ==
    \/ Tick
    \/ \E p \in Processes :
          \/ Start(p) \/ Acquire(p) \/ AttemptFails(p)
          \/ RenewGet(p) \/ RenewExpire(p) \/ RenewDies(p)
          \/ ActStarts(p) \/ ActEnds(p)
          \/ Release(p) \/ ReleaseGet(p) \/ ReleaseDelete(p) \/ Crash(p)

Spec == Init /\ [][Next]_vars

-----------------------------------------------------------------------------
(* Properties.                                                                *)

TypeOK ==
    /\ key \in Processes \cup {None} /\ ttl \in Nat
    /\ pc \in [Processes -> {"gone", "waiting", "working", "releasing", "deleting"}]
    /\ renewer \in [Processes -> {"off", "asleep", "checked", "ended"}]
    /\ isLeader \in [Processes -> BOOLEAN] /\ acting \subseteq Processes
    /\ timer \in [Processes -> Nat] /\ leaving \in [Processes -> Nat]
    /\ waited \in [Processes -> Nat] /\ failures \in Nat

\* "Only the holder runs the main loop", so a rolling deploy never has two
\* instances act on the same pipeline: the docstring's claim. It fails once a
\* renewal task has died, because the main loops never look at is_leader.
OnlyHolderWorks == \A p, q \in Working : p = q

\* The claim under what it rests on: as long as every renewal task has survived,
\* one process at most is in its main loop, however late it renews or releases. Of
\* acting nothing like it holds: what a loop has started may outlive its lock.
OneLeader == failures = 0 => OnlyHolderWorks

\* Nobody deletes a lock another process holds, though release is a GET followed by
\* a DELETE: the expiry and a successor's SET do not fit in between.
DeletesOwnLock ==
    [][failures = 0 => \A p \in Processes : ReleaseDelete(p) => key = p]_vars

\* A lock left behind by a crash is taken over within its time to live and one
\* retry interval: nobody waits longer than that for a working leader.
TakenOver == \A p \in Processes : waited[p] =< TTL + Retry + MaxDelay

\* The timing under which the lock excludes: a renewal and a release that are as
\* late as they may be still beat the expiry.
Timely == Renew + MaxDelay + MaxDelay < TTL

-----------------------------------------------------------------------------
(* The inductive invariants.                                                  *)

\* Only the main loop has a renewal task: release and death end it.
RenewOff == \A p \in Processes : pc[p] # "working" => renewer[p] = "off"

\* A process in the main loop or in release holds the key, with time left, unless
\* a renewal task has died.
Holds(p) ==
    /\ pc[p] \in {"working", "releasing", "deleting"} =>
          key = p /\ ttl + timer[p] >= TTL /\ isLeader[p]
    /\ pc[p] = "working" =>
          renewer[p] \in {"asleep", "checked"} /\ timer[p] =< Renew + MaxDelay
    /\ pc[p] \in {"releasing", "deleting"} =>
          leaving[p] =< MaxDelay /\ timer[p] =< Renew + MaxDelay + leaving[p]

LockInv == /\ TypeOK /\ RenewOff
           /\ key # None => ttl > 0
           /\ failures = 0 => \A p \in Processes : Holds(p)

\* While nobody works the key only runs out, and once it is gone the next attempt
\* of whoever waits takes it.
Waits(p) ==
    /\ Working # {} => waited[p] = 0
    /\ key # None => waited[p] + ttl =< TTL
    /\ pc[p] = "waiting" => timer[p] =< Retry + MaxDelay
    /\ pc[p] = "waiting" /\ key = None => waited[p] =< TTL + timer[p]
    /\ waited[p] =< TTL + Retry + MaxDelay

WaitInv == /\ TypeOK /\ RenewOff
           /\ key # None => ttl > 0
           /\ \A p \in Processes : Waits(p)
=============================================================================
