------------------------------- MODULE MCFeed -------------------------------
(* Small instances of Feed for TLC: two configurations of one endpoint, or *)
(* of an endpoint each.                                                    *)
EXTENDS Feed, TLC

CONSTANTS u1, u2, k1, k2

UriSymmetry == Permutations(Uri)

Shared == [u \in {u1, u2} |-> k1]
Apart  == (u1 :> k1) @@ (u2 :> k2)

=============================================================================
