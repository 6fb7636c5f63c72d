-------------------------- MODULE MCClusterWrites --------------------------
(* One client writes at the master, one through a worker.                  *)
EXTENDS ClusterWrites, TLC

CONSTANTS w1, w2, m, c1, c2
MCHome == (c1 :> m) @@ (c2 :> w1)
=============================================================================
