----------------------------- MODULE MCConsumerPool -----------------------------
(* Instances of ConsumerPool for TLC.                                          *)
EXTENDS ConsumerPool, TLC

\* Replicas are interchangeable, and so are topics when none or all are orphans.
Symmetry == Permutations(Consumers) \cup Permutations(Topics)
=============================================================================
