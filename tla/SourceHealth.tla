------------------------------ MODULE SourceHealth ------------------------------
(* One pipeline's OPC UA connector (connector.py) and what watches it: Telegraf, *)
(* which starts it again when it exits, and under Kubernetes kubelet's liveness  *)
(* probe on the health endpoint (producer-deployment-template.yaml), which       *)
(* recycles the pod. Time is counted in ticks; a timer that is due is served     *)
(* before the next tick.                                                         *)
EXTENDS Naturals

CONSTANTS CheckEvery,      \* connection_check_s
          ConnectTimeout,  \* connect_timeout_s: how long one request is waited for
          MaxConnect,      \* longest connect to a source that is up: several requests
          MaxClose,        \* longest disconnect, which a process that fails ends with
          RestartDelay,    \* Telegraf's restart_delay
          Threshold,       \* the staleness threshold
          InitialSlack,    \* what PROBE_INITIAL_DELAY_S adds to the threshold
          Period,          \* periodSeconds of the probe
          FailureThreshold,\* failureThreshold of the probe
          MaxGap,          \* longest silence of a source that has data
          Horizon,         \* ages from here on are not told apart
          MaxTurns         \* changes of the source and sessions dropped

\* Told to Telegraf and kubelet as 10 s, 30 s, 10 s and 3; the connector's 5 s, 4 s
\* and 60 s are its defaults.
ASSUME TimingAssumption ==
    /\ {CheckEvery, ConnectTimeout, RestartDelay, Period} \subseteq Nat \ {0}
    /\ MaxConnect \in Nat /\ ConnectTimeout =< MaxConnect
    /\ FailureThreshold \in Nat \ {0, 1}
    /\ {Threshold, InitialSlack, Horizon, MaxClose, MaxGap, MaxTurns} \subseteq Nat
    /\ Period =< InitialSlack

\* The source is prompt: connects before the probe runs out of failures, and closes and
\* has data within the threshold. The defaults leave a whole connect just under 10 s,
\* two or three requests of connect_timeout_s; no setting sees to any of it.
Prompt ==
    /\ MaxConnect < InitialSlack
    /\ RestartDelay + MaxConnect < (FailureThreshold - 1) * Period
    /\ MaxGap + CheckEvery + MaxClose =< Threshold

\* "Give the connector time to connect and read once before the probe can fail it."
InitialDelay == Threshold + InitialSlack
LongestSilence == InitialDelay + (FailureThreshold - 1) * Period
ASSUME HorizonAssumption == LongestSilence < Horizon

VARIABLES
  source,   \* the OPC UA server: "up"; "quiet": its sessions are served and nothing
            \* changes; "hung": it accepts connections and answers nothing; "down"
  host,     \* "kubernetes", which probes, or "compose", which does not
  conn,     \* the connector: "connecting", "subscribing" (connected), "on" (subscribed),
            \* "cut" (still running, its session lost), "closing" (it failed, and
            \* disconnects), "off" (exited, Telegraf waits), "gone" (the pod is replaced)
  timer,    \* ticks in this state of conn; since the last check when on or cut, since
            \* the source last changed when connecting, 0 when subscribing or gone
  asked,    \* ticks the request under way has been waited for
  age,      \* ticks since _LastRead was touched
  probeIn,  \* ticks to the next probe
  fails,    \* probes failed in a row
  quiet,    \* history: ticks this process has been connected without data
  life,     \* history: "calm" while the source has been up for all of the pod's life
  drops,    \* history: sessions dropped in this pod's life
  turns     \* bound spent

connVars  == <<conn, timer, asked, age, quiet>>
probeVars == <<host, probeIn, fails>>
lifeVars  == <<life, drops>>
vars == <<source, connVars, probeVars, lifeVars, turns>>

Sources == {"up", "quiet", "hung", "down"}

Calm(s) == IF s = "up" THEN "calm" ELSE "troubled"

Init ==
    /\ source \in Sources /\ host \in {"kubernetes", "compose"}
    /\ conn = "connecting" /\ timer = 0 /\ asked = 0 /\ age = 0 /\ quiet = 0
    /\ probeIn = InitialDelay /\ fails = 0
    /\ life = Calm(source) /\ drops = 0 /\ turns = 0

\* It waits for the answer to a request.
Asking == conn \in {"connecting", "subscribing"}

\* The process runs and has once connected, whether or not the session still exists.
Running == conn \in {"subscribing", "on", "cut", "closing"}
Probed == host = "kubernetes" /\ conn # "gone"

Become(c) == conn' = c /\ timer' = 0 /\ asked' = 0 /\ UNCHANGED <<age, quiet>>

-----------------------------------------------------------------------------
(* The source.                                                                *)

Turn == turns < MaxTurns /\ turns' = turns + 1

\* A server that goes down takes its sessions with it; any other change may. The
\* mock server's freeze is the one to "quiet".
SourceChanges ==
    /\ Turn
    /\ source' \in Sources \ {source}
    /\ conn' \in IF conn = "on" THEN {"on", "cut"} ELSE {conn}
    /\ source' = "down" => conn' # "on"
    /\ timer' = IF conn = "connecting" THEN 0 ELSE timer
    /\ life' = "troubled"
    /\ UNCHANGED <<asked, age, quiet, probeVars, drops>>

\* A session, or what there is of one, is lost on the way, or the server forgets it.
SessionDrops ==
    /\ Turn
    /\ \/ conn = "on" /\ conn' = "cut" /\ UNCHANGED <<timer, asked, age, quiet>>
       \/ conn = "subscribing" /\ Become("closing")
       \/ conn = "connecting" /\ Become("off")
    /\ drops' = drops + 1
    /\ UNCHANGED <<source, probeVars, life>>

-----------------------------------------------------------------------------
(* The connector.                                                             *)

\* One request is answered, and the next is sent.
Answer ==
    /\ Asking /\ source \in {"up", "quiet"}
    /\ 0 < asked /\ asked' = 0
    /\ UNCHANGED <<source, conn, timer, age, quiet, probeVars, lifeVars, turns>>

\* Mutant: the age of the last read outlives the process.
Connected_OldRead ==
    /\ conn = "connecting" /\ source \in {"up", "quiet"}
    /\ conn' = "subscribing" /\ timer' = 0 /\ asked' = 0
    /\ age' = age /\ quiet' = 0
    /\ UNCHANGED <<source, probeVars, lifeVars, turns>>

\* connect has its last answer: a fresh _LastRead, and the health server.
Connected ==
    /\ conn = "connecting" /\ source \in {"up", "quiet"}
    /\ conn' = "subscribing" /\ timer' = 0 /\ asked' = 0
    /\ age' = 0 /\ quiet' = 0
    /\ UNCHANGED <<source, probeVars, lifeVars, turns>>

\* create_subscription and subscribe_data_change.
Subscribed ==
    /\ conn = "subscribing" /\ source \in {"up", "quiet"}
    /\ Become("on")
    /\ UNCHANGED <<source, probeVars, lifeVars, turns>>

\* Refused, or one request not answered within the timeout: connect raises and the
\* process exits, the subscription raises and it disconnects first.
ConnectFails ==
    /\ Asking
    /\ source = "down" \/ (source = "hung" /\ asked = ConnectTimeout)
    /\ Become(IF conn = "connecting" THEN "off" ELSE "closing")
    /\ UNCHANGED <<source, probeVars, lifeVars, turns>>

\* datachange_notification. One that is malformed is dropped and touches nothing: to
\* this model a source that sends no others is "quiet".
Notification ==
    /\ conn = "on" /\ source = "up"
    /\ age' = 0 /\ quiet' = 0
    /\ UNCHANGED <<source, conn, timer, asked, probeVars, lifeVars, turns>>

\* Mutant: a check that succeeds counts as a read.
CheckConnection_Touches ==
    /\ conn \in {"on", "cut"} /\ timer = CheckEvery
    /\ \/ conn = "on" /\ timer' = 0 /\ age' = 0 /\ UNCHANGED <<conn, asked, quiet>>
       \/ conn = "cut" /\ Become("closing")
    /\ UNCHANGED <<source, probeVars, lifeVars, turns>>

\* Mutant: nothing looks whether the session is still there.
CheckConnection_Blind ==
    /\ conn \in {"on", "cut"} /\ timer = CheckEvery
    /\ Become(conn)
    /\ UNCHANGED <<source, probeVars, lifeVars, turns>>

\* check_connection raises when the session is gone.
CheckConnection ==
    /\ conn \in {"on", "cut"} /\ timer = CheckEvery
    /\ Become(IF conn = "on" THEN "on" ELSE "closing")
    /\ UNCHANGED <<source, probeVars, lifeVars, turns>>

\* The disconnect is over, whatever came of it, and the process exits.
Exits ==
    /\ conn = "closing"
    /\ Become("off")
    /\ UNCHANGED <<source, probeVars, lifeVars, turns>>

\* Telegraf, after restart_delay.
Restart ==
    /\ conn = "off" /\ timer = RestartDelay
    /\ Become("connecting")
    /\ UNCHANGED <<source, probeVars, lifeVars, turns>>

-----------------------------------------------------------------------------
(* kubelet.                                                                   *)

\* /healthz answers 200. Nobody listens there before the connector has connected.
Healthy == Running /\ age =< Threshold

Probe ==
    /\ Probed /\ probeIn = 0
    /\ fails' = IF Healthy THEN 0 ELSE fails + 1
    /\ probeIn' = Period
    /\ UNCHANGED <<source, connVars, host, lifeVars, turns>>

\* Mutant: the failures of the old pod count against the new one.
Recycle_KeepsFailures ==
    /\ fails = FailureThreshold /\ conn # "gone"
    /\ Become("gone") /\ UNCHANGED fails
    /\ UNCHANGED <<source, host, probeIn, lifeVars, turns>>

Recycle ==
    /\ fails = FailureThreshold
    /\ Become("gone") /\ fails' = 0
    /\ UNCHANGED <<source, host, probeIn, lifeVars, turns>>

\* The new pod, after whatever back-off kubelet has come to.
PodStarts ==
    /\ conn = "gone"
    /\ Become("connecting")
    /\ probeIn' = InitialDelay
    /\ life' = Calm(source) /\ drops' = 0
    /\ UNCHANGED <<source, host, fails, turns>>

-----------------------------------------------------------------------------
Older(x) == IF x < Horizon THEN x + 1 ELSE x

\* Time does not pass what is due. A source that is up answers a request within the
\* timeout and a whole connect within MaxConnect, and has data every MaxGap ticks, the
\* subscription included.
Tick ==
    /\ conn = "off" => timer < RestartDelay
    /\ Asking => asked < ConnectTimeout
    /\ conn = "connecting" /\ source \in {"up", "quiet"} => timer < MaxConnect
    /\ conn \in {"on", "cut"} => timer < CheckEvery
    /\ conn = "closing" => timer < MaxClose
    /\ conn \in {"subscribing", "on"} /\ source = "up" => quiet < MaxGap
    /\ Probed => 0 < probeIn
    /\ fails < FailureThreshold
    /\ timer' = IF conn \in {"subscribing", "gone"} THEN timer ELSE timer + 1
    /\ asked' = IF Asking THEN asked + 1 ELSE asked
    /\ age' = Older(age) /\ quiet' = Older(quiet)
    /\ probeIn' = IF Probed THEN probeIn - 1 ELSE probeIn
    /\ UNCHANGED <<source, conn, host, fails, lifeVars, turns>>

Next ==
    \/ SourceChanges \/ SessionDrops
    \/ Answer \/ Connected \/ Subscribed \/ ConnectFails \/ Notification
    \/ CheckConnection \/ Exits \/ Restart
    \/ Probe \/ Recycle \/ PodStarts
    \/ Tick

Spec == Init /\ [][Next]_vars

\* Time passes, and the connector, Telegraf and kubelet run. Nothing is assumed of
\* the source, which has MaxTurns changes in it.
Fairness ==
    /\ WF_vars(Tick)
    /\ WF_vars(Connected) /\ WF_vars(Subscribed) /\ WF_vars(ConnectFails)
    /\ WF_vars(Notification) /\ WF_vars(CheckConnection) /\ WF_vars(Exits) /\ WF_vars(Restart)
    /\ WF_vars(Probe) /\ WF_vars(Recycle) /\ WF_vars(PodStarts)

FairSpec == Spec /\ Fairness

-----------------------------------------------------------------------------
(* Properties.                                                                *)

\* Every variable has its type, no timer is past what it waits for, and failures
\* belong to a pod that is probed.
TypeOK ==
    /\ source \in Sources /\ host \in {"kubernetes", "compose"}
    /\ conn \in {"connecting", "subscribing", "on", "cut", "closing", "off", "gone"}
    /\ timer \in 0 .. (CASE conn = "connecting" -> MaxConnect
                         [] conn \in {"on", "cut"} -> CheckEvery
                         [] conn = "closing" -> MaxClose
                         [] conn = "off" -> RestartDelay
                         [] OTHER -> 0)
    /\ asked \in 0 .. IF Asking THEN ConnectTimeout ELSE 0
    /\ age \in 0 .. Horizon /\ quiet \in 0 .. Horizon
    /\ probeIn \in 0 .. InitialDelay
    /\ fails \in 0 .. FailureThreshold /\ (~Probed => fails = 0)
    /\ life \in {"troubled", Calm(source)}
    /\ drops \in Nat /\ turns \in 0 .. MaxTurns

\* Under a probe a connector that is alive and receives nothing is recycled, at the
\* latest LongestSilence after it connected or last received something, however the
\* silence falls between the probes and whatever the session checks say: the gap
\* that Telegraf alone leaves.
SilenceIsBounded == host = "kubernetes" /\ Running => quiet =< LongestSilence

\* One session that drops, or one connection that is lost while it is set up, does not
\* cost the pod of a prompt source: Telegraf has the connector back before the third
\* probe, whenever the session drops between two of them. A source that is up and not
\* prompt, which takes the rest of (FailureThreshold - 1) * Period over one connect, may
\* well cost it: connector.py advises a longer timeout for those and leaves the probe alone.
OneDropCostsNoPod == Prompt /\ life = "calm" /\ drops =< 1 => fails < FailureThreshold

\* Whatever the source has been through, once it stays up the connector is
\* subscribed to it for good, with a probe or without one.
RecoversForGood == <>[](source = "up") => <>[](conn = "on")
=============================================================================
