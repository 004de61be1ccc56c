---- MODULE MCReferenceStates ----
(* The enthalpies of two points without an offset. *)
EXTENDS ReferenceStates

MCPoint == [r \in Points |-> IF r = "NBP" THEN 1 ELSE 3]
====
