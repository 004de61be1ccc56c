---- MODULE MCRefpropSession ----
(***************************************************************************)
(* Three states over a pure fluid, a mixture and a predefined mixture with *)
(* estimated parameters; a fourth fluid is never found.                    *)
(***************************************************************************)
EXTENDS RefpropSession, TLC

CONSTANTS Pure, Mix, Pre, Lost
Symmetry == Permutations(States)
====
