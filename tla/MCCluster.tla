----------------------------- MODULE MCCluster -----------------------------
(* Instances of Cluster for TLC; the .cfg files give the other constants.  *)
EXTENDS Cluster

CONSTANTS a, b, c, all, some

\* One pattern matches every node, the other one leaves out a.
MCMatches == [p \in Patterns |-> IF p = all THEN Keys ELSE Keys \ {a}]

MCFirstNodes == <<a, b, c>>
=============================================================================
