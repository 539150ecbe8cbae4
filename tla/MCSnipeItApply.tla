--------------------------- MODULE MCSnipeItApply ---------------------------
(* Instances of SnipeItApply for TLC. *)
EXTENDS SnipeItApply, TLC

CONSTANTS e1, e2, e3, u, v, unknown, office

\* Two users compete for the asset, and one event names a user Snipe-IT does not have.
Proposals == e1 :> u @@ e2 :> v @@ e3 :> unknown

\* The number of the office is that of u.
Numbers == u :> 1 @@ v :> 2 @@ unknown :> 3 @@ office :> 1

\* The properties do not tell the two processes apart, nor the two ids.
Alike == Permutations(Processors) \cup Permutations(AssetIds)

=============================================================================
