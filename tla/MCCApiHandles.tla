---- MODULE MCCApiHandles ----
(* Threads, addresses of states and points are interchangeable. *)
EXTENDS CApiHandles, TLC

Interchangeable == Permutations(Threads) \cup Permutations(States) \cup Permutations(Points)
====
