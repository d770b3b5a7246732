--------------------------- MODULE SourceHealthProofs ---------------------------
(* Proofs about SourceHealth for every timing that TimingAssumption admits.      *)
EXTENDS SourceHealth, TLAPS

(* What the types need of the constants.                                         *)

LEMMA Numbers ==
  /\ CheckEvery \in Nat /\ ConnectTimeout \in Nat /\ RestartDelay \in Nat
  /\ MaxConnect \in Nat /\ ConnectTimeout =< MaxConnect
  /\ MaxClose \in Nat /\ MaxGap \in Nat /\ Threshold \in Nat
  /\ Period \in Nat /\ 0 < Period /\ Period =< InitialDelay /\ InitialDelay \in Nat
  /\ FailureThreshold \in Nat /\ 1 < FailureThreshold
  /\ Horizon \in Nat /\ 0 < Horizon /\ MaxTurns \in Nat
  BY TimingAssumption, HorizonAssumption DEF InitialDelay, LongestSilence

(* Products of a number of probes and the period between them.                   *)

LEMMA OneMore == \A n \in Nat : (n + 1) * Period = n * Period + Period
  BY Numbers

LEMMA Products == \A n \in Nat : n * Period \in Nat
  BY Numbers

LEMMA Fewer ==
  ASSUME NEW m \in Nat, NEW n \in Nat, m * Period < n * Period
  PROVE  m < n
  <1> SUFFICES ASSUME n =< m PROVE FALSE
    OBVIOUS
  <1>1. PICK d \in Nat : m = n + d
    <2> m - n \in Nat /\ m = n + (m - n)
      OBVIOUS
    <2> QED OBVIOUS
  <1>2. m * Period = n * Period + d * Period
    BY <1>1, Numbers
  <1> QED BY <1>2, Products

(* Types, what the last failed probe leaves, and how long a source that does not    *)
(* answer keeps the connector.                                                     *)

Base ==
    /\ TypeOK
    /\ fails = FailureThreshold => probeIn = Period
    /\ conn = "connecting" /\ source \in {"hung", "down"} => timer =< asked

LEMMA BaseInit == Init => Base
  BY Numbers DEF Init, Base, TypeOK, Sources, Calm, Probed, Asking

LEMMA BaseStep == ASSUME Base, [Next]_vars PROVE Base'
  <1> USE Numbers DEF Base, TypeOK, Sources, Calm, Probed, Asking
  <1>1. CASE SourceChanges
    BY <1>1 DEF SourceChanges, Turn, probeVars
  <1>2. CASE SessionDrops
    BY <1>2 DEF SessionDrops, Turn, Become, probeVars
  <1>3. CASE Connected
    BY <1>3 DEF Connected, probeVars, lifeVars
  <1>4. CASE ConnectFails
    BY <1>4 DEF ConnectFails, Become, probeVars, lifeVars
  <1>5. CASE Notification
    BY <1>5 DEF Notification, probeVars, lifeVars
  <1>6. CASE CheckConnection
    BY <1>6 DEF CheckConnection, Become, probeVars, lifeVars
  <1>7. CASE Restart
    BY <1>7 DEF Restart, Become, probeVars, lifeVars
  <1>8. CASE Probe
    BY <1>8 DEF Probe, connVars, lifeVars
  <1>9. CASE Recycle
    BY <1>9 DEF Recycle, Become, lifeVars
  <1>10. CASE PodStarts
    BY <1>10 DEF PodStarts, Become
  <1>11. CASE Tick
    BY <1>11 DEF Tick, Older, lifeVars
  <1>12. CASE UNCHANGED vars
    BY <1>12 DEF vars, connVars, probeVars, lifeVars
  <1>13. CASE Answer
    BY <1>13 DEF Answer, probeVars, lifeVars
  <1>14. CASE Subscribed
    BY <1>14 DEF Subscribed, Become, probeVars, lifeVars
  <1>15. CASE Exits
    BY <1>15 DEF Exits, Become, probeVars, lifeVars
  <1> QED BY <1>1, <1>2, <1>3, <1>4, <1>5, <1>6, <1>7, <1>8, <1>9, <1>10, <1>11, <1>12,
             <1>13, <1>14, <1>15
          DEF Next

\* Every reachable state has its types.
THEOREM TypeCorrect == Spec => []TypeOK
  <1>1. Base => TypeOK
    BY DEF Base
  <1> QED BY <1>1, BaseInit, BaseStep, PTL DEF Spec

-----------------------------------------------------------------------------
(* Silence. What is left to the next probe and what the silence has lasted grow  *)
(* no further than a period for every probe that has failed.                     *)

SilenceInv ==
    host = "kubernetes" /\ Running =>
        age = quiet /\ quiet + probeIn =< InitialDelay + fails * Period

LEMMA BaseNumbers ==
  ASSUME Base
  PROVE  /\ quiet \in Nat /\ age \in Nat /\ probeIn \in Nat /\ fails \in Nat
         /\ probeIn =< InitialDelay /\ fails =< FailureThreshold /\ fails * Period \in Nat
  BY Numbers, Products DEF Base, TypeOK

LEMMA SilenceTick == ASSUME Base, SilenceInv, Tick PROVE SilenceInv'
  <1> SUFFICES ASSUME host = "kubernetes", Running PROVE SilenceInv'
    BY DEF SilenceInv, Tick, Running
  <1>1. age = quiet /\ quiet + probeIn =< InitialDelay + fails * Period
    BY DEF SilenceInv
  <1>2. age' = quiet' /\ probeIn' = probeIn - 1 /\ 0 < probeIn /\ fails' = fails
    BY <1>1 DEF Tick, Older, Probed, Running
  <1>3. quiet' \in Nat /\ quiet' =< quiet + 1
    BY BaseNumbers DEF Tick, Older
  <1> QED BY <1>1, <1>2, <1>3, BaseNumbers, Numbers DEF SilenceInv

LEMMA SilenceProbe == ASSUME Base, SilenceInv, Probe PROVE SilenceInv'
  <1> SUFFICES ASSUME host = "kubernetes", Running PROVE SilenceInv'
    BY DEF SilenceInv, Probe, connVars, Running
  <1>1. age = quiet /\ quiet + probeIn =< InitialDelay + fails * Period /\ probeIn = 0
    BY DEF SilenceInv, Probe
  <1>2. age' = age /\ quiet' = quiet /\ probeIn' = Period
    BY DEF Probe, connVars
  <1>3. Threshold \in Nat /\ Threshold + Period =< InitialDelay
    BY TimingAssumption DEF InitialDelay
  <1>4. CASE Healthy
    <2>1. fails' = 0 /\ quiet =< Threshold /\ fails' * Period = 0
      BY <1>1, <1>4, Numbers DEF Probe, Healthy
    <2> QED BY <1>1, <1>2, <1>3, <2>1, BaseNumbers, Numbers DEF SilenceInv
  <1>5. CASE ~Healthy
    <2>1. fails' = fails + 1
      BY <1>5 DEF Probe
    <2>2. fails' * Period = fails * Period + Period
      BY <2>1, BaseNumbers, OneMore
    <2> QED BY <1>1, <1>2, <2>2, BaseNumbers, Numbers DEF SilenceInv
  <1> QED BY <1>4, <1>5

LEMMA SilenceStep == ASSUME Base, SilenceInv, [Next]_vars PROVE SilenceInv'
  <1> USE DEF SilenceInv, Running
  <1>1. CASE SourceChanges \/ SessionDrops
    BY <1>1 DEF SourceChanges, SessionDrops, Become, probeVars
  <1>2. CASE Connected \/ Notification
    <2>1. age' = 0 /\ quiet' = 0 /\ probeIn' = probeIn /\ fails' = fails
      BY <1>2 DEF Connected, Notification, probeVars
    <2> QED BY <2>1, BaseNumbers, Numbers
  <1>3. CASE Answer \/ Subscribed \/ CheckConnection
    BY <1>3 DEF Answer, Subscribed, CheckConnection, Become, probeVars
  <1>4. CASE ConnectFails \/ Exits \/ Restart \/ Recycle \/ PodStarts
    BY <1>4 DEF ConnectFails, Exits, Restart, Recycle, PodStarts, Asking, Become, probeVars
  <1>5. CASE UNCHANGED vars
    BY <1>5 DEF vars, connVars, probeVars
  <1> QED BY <1>1, <1>2, <1>3, <1>4, <1>5, SilenceTick, SilenceProbe DEF Next

LEMMA SilenceBound == Base /\ SilenceInv => SilenceIsBounded
  <1> SUFFICES ASSUME Base, SilenceInv, host = "kubernetes", Running
               PROVE  quiet =< LongestSilence
    BY DEF SilenceIsBounded
  <1>1. quiet + probeIn =< InitialDelay + fails * Period
    BY DEF SilenceInv
  <1>2. PICK k \in Nat : FailureThreshold = k + 1
    <2> FailureThreshold - 1 \in Nat /\ FailureThreshold = (FailureThreshold - 1) + 1
      BY Numbers
    <2> QED OBVIOUS
  <1>3. LongestSilence = InitialDelay + k * Period /\ k * Period \in Nat
    BY <1>2, Products DEF LongestSilence
  <1>4. CASE fails = FailureThreshold
    <2>1. probeIn = Period
      BY <1>4 DEF Base
    <2>2. fails * Period = k * Period + Period
      BY <1>2, <1>4, OneMore
    <2> QED BY <1>1, <1>3, <2>1, <2>2, BaseNumbers, Numbers
  <1>5. CASE fails # FailureThreshold
    <2>1. PICK d \in Nat : k = fails + d
      <3> k - fails \in Nat /\ k = fails + (k - fails)
        BY <1>2, <1>5, BaseNumbers
      <3> QED OBVIOUS
    <2>2. k * Period = fails * Period + d * Period /\ d * Period \in Nat
      BY <2>1, BaseNumbers, Numbers, Products
    <2> QED BY <1>1, <1>3, <2>2, BaseNumbers, Numbers
  <1> QED BY <1>4, <1>5

\* A connector under a probe is never alive and silent for longer than
\* LongestSilence, for all delays, periods and thresholds.
THEOREM NeverAliveAndSilent == Spec => []SilenceIsBounded
  <1>1. Init => SilenceInv
    BY DEF Init, SilenceInv, Running
  <1> QED BY <1>1, BaseInit, BaseStep, SilenceStep, SilenceBound, PTL DEF Spec

-----------------------------------------------------------------------------
(* One drop. Until it, no probe fails; while the connector is away, the probes that *)
(* have failed span no more than the time it has been away, which is too short for  *)
(* as many as the probe needs.                                                      *)

\* Ticks since the connector exited.
Away == IF conn = "off" THEN timer ELSE RestartDelay + timer

BeforeDrop ==
    /\ fails = 0
    /\ conn \in {"connecting", "subscribing", "on", "gone"}
    /\ conn = "connecting" => InitialDelay =< probeIn + timer

AfterDrop ==
    /\ fails < FailureThreshold
    /\ conn = "cut" => fails = 0 /\ age =< MaxGap + timer
    /\ conn = "closing" => fails = 0 /\ age =< MaxGap + CheckEvery + timer
    /\ conn \in {"off", "connecting"} => fails * Period =< Away + probeIn

DropInv ==
    host = "kubernetes" /\ life = "calm" =>
        /\ conn \in {"subscribing", "on"} => age = quiet /\ age =< MaxGap
        /\ drops = 0 => BeforeDrop
        /\ drops = 1 => AfterDrop

\* The margins that a prompt source leaves.
LEMMA Margins ==
  Prompt => MaxGap + CheckEvery + MaxClose =< Threshold /\ MaxConnect < InitialDelay
  BY TimingAssumption DEF Prompt, InitialDelay

\* The probes that fail while the connector is away leave at least one to spare.
LEMMA Spare ==
  ASSUME Prompt, NEW n \in Nat, n * Period =< RestartDelay + MaxConnect
  PROVE  n + 1 < FailureThreshold
  <1>1. FailureThreshold - 1 \in Nat
    BY Numbers
  <1>2. n * Period < (FailureThreshold - 1) * Period
    BY <1>1, Numbers, Products DEF Prompt
  <1>3. n < FailureThreshold - 1
    BY <1>1, <1>2, Fewer
  <1> QED BY <1>3, Numbers

LEMMA DropInit == Init => DropInv
  BY Numbers DEF Init, DropInv, BeforeDrop

LEMMA DropTick == ASSUME Prompt, Base, DropInv, Tick PROVE DropInv'
  <1> SUFFICES ASSUME host = "kubernetes", life = "calm" PROVE DropInv'
    BY DEF DropInv, Tick, lifeVars
  <1>1. /\ conn' = conn /\ fails' = fails /\ drops' = drops /\ source = "up"
        /\ timer \in Nat /\ fails < FailureThreshold
    BY Numbers DEF Tick, lifeVars, Base, TypeOK, Calm
  <1>2. /\ age' \in Nat /\ age' =< age + 1 /\ (age = quiet => age' = quiet')
    BY BaseNumbers DEF Tick, Older
  <1>3. /\ conn \notin {"subscribing", "gone"} => timer' = timer + 1
        /\ conn # "gone" => probeIn' = probeIn - 1
    BY DEF Tick, Probed
  <1>4. conn \in {"subscribing", "on"} => age' = quiet' /\ age' =< MaxGap
    BY <1>1, <1>2, BaseNumbers, Numbers DEF Tick, DropInv
  <1>5. ASSUME drops = 0 PROVE BeforeDrop'
    BY <1>1, <1>3, <1>5, BaseNumbers, Numbers DEF DropInv, BeforeDrop
  <1>6. ASSUME drops = 1 PROVE AfterDrop'
    <2>1. /\ conn = "cut" => fails = 0 /\ age' =< MaxGap + timer'
          /\ conn = "closing" => fails = 0 /\ age' =< MaxGap + CheckEvery + timer'
      BY <1>1, <1>2, <1>3, <1>6, BaseNumbers, Numbers DEF DropInv, AfterDrop
    <2>2. CASE conn = "off"
      <3>1. fails * Period =< timer + probeIn
        BY <1>6, <2>2 DEF DropInv, AfterDrop, Away
      <3>2. fails * Period =< timer' + probeIn'
        BY <1>1, <1>3, <2>2, <3>1, BaseNumbers
      <3> QED BY <1>1, <2>2, <3>2 DEF AfterDrop, Away
    <2>3. CASE conn = "connecting"
      <3>1. fails * Period =< RestartDelay + timer + probeIn
        BY <1>6, <2>3 DEF DropInv, AfterDrop, Away
      <3>2. fails * Period =< RestartDelay + timer' + probeIn'
        BY <1>1, <1>3, <2>3, <3>1, BaseNumbers, Numbers
      <3> QED BY <1>1, <2>3, <3>2 DEF AfterDrop, Away
    <2> QED BY <1>1, <2>1, <2>2, <2>3 DEF AfterDrop
  <1> QED BY <1>1, <1>4, <1>5, <1>6 DEF DropInv

LEMMA DropProbe == ASSUME Prompt, Base, DropInv, Probe PROVE DropInv'
  <1> SUFFICES ASSUME host = "kubernetes", life = "calm" PROVE DropInv'
    BY DEF DropInv, Probe, lifeVars
  <1>1. /\ conn' = conn /\ timer' = timer /\ age' = age /\ quiet' = quiet /\ drops' = drops
        /\ conn # "gone" /\ probeIn = 0 /\ probeIn' = Period
    BY DEF Probe, connVars, lifeVars, Probed
  <1>2. fails' = IF Healthy THEN 0 ELSE fails + 1
    BY DEF Probe
  <1>3. /\ timer \in Nat
        /\ conn = "connecting" => timer =< MaxConnect
        /\ conn = "cut" => timer =< CheckEvery
        /\ conn = "closing" => timer =< MaxClose
        /\ conn = "off" => timer =< RestartDelay
    BY Numbers DEF Base, TypeOK
  <1>4. conn \in {"subscribing", "on"} => age = quiet /\ age =< MaxGap /\ Healthy
    BY BaseNumbers, Numbers, Margins DEF DropInv, Healthy, Running
  <1>5. ASSUME drops = 0 PROVE BeforeDrop'
    <2>1. conn \in {"subscribing", "on"}
      BY <1>1, <1>3, <1>5, Numbers, Margins DEF DropInv, BeforeDrop
    <2> QED BY <1>1, <1>2, <1>4, <2>1 DEF BeforeDrop
  <1>6. ASSUME drops = 1 PROVE AfterDrop'
    <2>1. AfterDrop
      BY <1>6 DEF DropInv
    <2>2. CASE conn \in {"subscribing", "on"}
      BY <1>1, <1>2, <1>4, <2>2, Numbers DEF AfterDrop
    <2>3. CASE conn \in {"cut", "closing"}
      <3>1. Healthy
        BY <1>3, <2>1, <2>3, BaseNumbers, Numbers, Margins DEF AfterDrop, Healthy, Running
      <3> QED BY <1>1, <1>2, <2>1, <2>3, <3>1, Numbers DEF AfterDrop
    <2>4. CASE conn \in {"off", "connecting"}
      <3>1. fails' = fails + 1
        BY <1>2, <2>4 DEF Healthy, Running
      <3>2. fails * Period =< Away /\ Away \in Nat /\ Away =< RestartDelay + MaxConnect
        BY <1>1, <1>3, <2>1, <2>4, BaseNumbers, Numbers DEF AfterDrop, Away
      <3>3. fails * Period =< RestartDelay + MaxConnect
        BY <3>2, BaseNumbers, Numbers
      <3>4. fails' < FailureThreshold
        BY <3>1, <3>3, Spare, BaseNumbers
      <3>5. fails' * Period = fails * Period + Period
        BY <3>1, BaseNumbers, OneMore
      <3>6. Away' = Away
        BY <1>1 DEF Away
      <3>7. fails' * Period =< Away' + probeIn'
        BY <1>1, <3>2, <3>5, <3>6, BaseNumbers, Numbers
      <3> QED BY <1>1, <2>4, <3>4, <3>7 DEF AfterDrop
    <2> QED BY <1>1, <2>2, <2>3, <2>4 DEF Base, TypeOK
  <1> QED BY <1>1, <1>4, <1>5, <1>6 DEF DropInv

LEMMA DropStep == ASSUME Prompt, Base, DropInv, [Next]_vars PROVE DropInv'
  <1> USE BaseNumbers, Numbers, Margins DEF DropInv, BeforeDrop, AfterDrop, Away
  <1>1. CASE SourceChanges
    BY <1>1 DEF SourceChanges
  <1>2. CASE SessionDrops
    BY <1>2 DEF SessionDrops, Become, probeVars, Base, TypeOK
  <1>3. CASE Connected
    BY <1>3 DEF Connected, probeVars, lifeVars, Base, TypeOK
  <1>4. CASE ConnectFails
    BY <1>4 DEF ConnectFails, lifeVars, Base, TypeOK, Calm
  <1>5. CASE Notification
    BY <1>5 DEF Notification, probeVars, lifeVars
  <1>6. CASE CheckConnection
    BY <1>6 DEF CheckConnection, Become, probeVars, lifeVars, Base, TypeOK
  <1>7. CASE Restart
    BY <1>7 DEF Restart, Become, probeVars, lifeVars, Base, TypeOK
  <1>8. CASE Recycle
    BY <1>8 DEF Recycle, Become, lifeVars
  <1>9. CASE PodStarts
    BY <1>9 DEF PodStarts, Become, Base, TypeOK, Probed
  <1>10. CASE UNCHANGED vars
    BY <1>10 DEF vars, connVars, probeVars, lifeVars
  <1>11. CASE Answer \/ Subscribed
    BY <1>11 DEF Answer, Subscribed, Become, probeVars, lifeVars
  <1>12. CASE Exits
    BY <1>12 DEF Exits, Become, probeVars, lifeVars
  <1> QED BY <1>1, <1>2, <1>3, <1>4, <1>5, <1>6, <1>7, <1>8, <1>9, <1>10, <1>11, <1>12,
             DropTick, DropProbe DEF Next

LEMMA DropBound == ASSUME Base, Prompt => DropInv PROVE OneDropCostsNoPod
  <1> SUFFICES ASSUME Prompt, life = "calm", drops =< 1 PROVE fails < FailureThreshold
    BY DEF OneDropCostsNoPod
  <1>1. drops = 0 \/ drops = 1
    BY DEF Base, TypeOK
  <1>2. CASE host = "kubernetes"
    BY <1>1, <1>2, Numbers DEF DropInv, BeforeDrop, AfterDrop
  <1>3. CASE host # "kubernetes"
    BY <1>3, Numbers DEF Base, TypeOK, Probed
  <1> QED BY <1>2, <1>3

\* One dropped session never gets a pod recycled whose source is prompt: for all timings
\* in which Telegraf's delay and all of a connect, not one request of it, take less than
\* the probe's periods but one. Of a source that is slower nothing is claimed.
THEOREM OneDropIsHarmless == Spec => []OneDropCostsNoPod
  <1>1. Init => Base /\ (Prompt => DropInv)
    BY BaseInit, DropInit
  <1>2. Base /\ (Prompt => DropInv) /\ [Next]_vars => (Base /\ (Prompt => DropInv))'
    BY BaseStep, DropStep
  <1>3. Base /\ (Prompt => DropInv) => OneDropCostsNoPod
    BY DropBound
  <1> QED BY <1>1, <1>2, <1>3, PTL DEF Spec
=============================================================================
