------------------------- MODULE MCOwnerCandidates -------------------------
(* Instances of OwnerCandidates for TLC. *)
EXTENDS OwnerCandidates

CONSTANTS e1, e2, e3, e4, e5, u, v, c1

OneComputer == [e \in Events |-> c1]

\* Four reports of one user, one of another, at times on both sides of the bounds.
Proposals == [e \in Events |-> IF e = e4 THEN v ELSE u]
Times == [e \in Events |-> CASE e = e1 -> 0 [] e = e2 -> 1 [] e = e3 -> 2
                             [] e = e4 -> 3 [] OTHER -> 4]

=============================================================================
