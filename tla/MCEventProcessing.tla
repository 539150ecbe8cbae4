-------------------------- MODULE MCEventProcessing --------------------------
(* Instances of EventProcessing for TLC. *)
EXTENDS EventProcessing

CONSTANTS e1, e2, c1

OneComputer == [e \in Events |-> c1]

\* The older generation was observed later: the generation decides.
Generations == [e \in Events |-> IF e = e1 THEN 1 ELSE 2]
Observations == [e \in Events |-> IF e = e1 THEN 2 ELSE 1]

=============================================================================
