----------------------------- MODULE MCCluster -----------------------------
(* One container, one node and one handler: a small instance of Cluster.   *)
EXTENDS Cluster

CONSTANTS c1, s1, web

OneContainer == {c1}
OneName == {web}
OneStream == {s1}
============================================================================
