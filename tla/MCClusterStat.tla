---------------------------- MODULE MCClusterStat ----------------------------
(* ClusterStat on small instances. *)
EXTENDS ClusterStat

CONSTANT u1

MCUser == {u1}
MCIdle == {Nobody}
=============================================================================
