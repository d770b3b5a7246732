---------------------------- MODULE DeliveryContract ----------------------------
(* What the consumer pool promises about each topic, with no consumer, lock,   *)
(* group or ClickHouse in it: a record is delivered (a row, or a dead letter)  *)
(* any number of times, the committed offset only moves forward, and it only   *)
(* moves over records that were delivered or that a batch set aside.           *)
EXTENDS Naturals, Sequences

CONSTANTS Topics,     \* single-partition topics
          Kinds       \* what a record turns out to be

VARIABLES log,        \* log[t]: the records of topic t, offset o at index o + 1
          delivered,  \* delivered[t]: offsets with a row or a dead letter
          setAside,   \* setAside[t]: offsets a batch moved past without writing
          committed   \* committed[t]: the group's committed offset

contractVars == <<log, delivered, setAside, committed>>

Logged(t) == 0 .. Len(log[t]) - 1

Init ==
    /\ log = [t \in Topics |-> << >>]
    /\ delivered = [t \in Topics |-> {}]
    /\ setAside = [t \in Topics |-> {}]
    /\ committed = [t \in Topics |-> 0]

Produce(t) ==
    /\ \E k \in Kinds : log' = [log EXCEPT ![t] = Append(@, k)]
    /\ UNCHANGED <<delivered, setAside, committed>>

\* A write delivers what it managed to; one that fails sets the rest of the
\* batch, which may span topics, aside.
Write ==
    /\ delivered' = [t \in Topics |-> delivered'[t]]
    /\ setAside' = [t \in Topics |-> setAside'[t]]
    /\ \A t \in Topics : /\ delivered[t] \subseteq delivered'[t]
                         /\ delivered'[t] \subseteq Logged(t)
                         /\ setAside[t] \subseteq setAside'[t]
                         /\ setAside'[t] \subseteq Logged(t)
    /\ UNCHANGED <<log, committed>>

\* One commit request covers several topics.
Commit ==
    /\ committed' = [t \in Topics |-> committed'[t]]
    /\ \A t \in Topics :
          /\ committed'[t] >= committed[t]
          /\ 0 .. committed'[t] - 1 \subseteq Logged(t) \cap (delivered[t] \cup setAside[t])
    /\ UNCHANGED <<log, delivered, setAside>>

Next == (\E t \in Topics : Produce(t)) \/ Write \/ Commit

Spec == Init /\ [][Next]_contractVars
=============================================================================
