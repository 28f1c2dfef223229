--------------------------- MODULE MCLoadBalancer ---------------------------
(* Instances of LoadBalancer for TLC.                                      *)
EXTENDS LoadBalancer, TLC

CONSTANTS u1, u2, u3, t1, t2, p1, p2

(* u1 has the better metric, u3 ties with u2.                              *)
RankByName == [u \in Uri |-> IF u = u1 THEN 1 ELSE 2]

ThreadSymmetry == Permutations(Updater) \cup Permutations(Pid)
=============================================================================
