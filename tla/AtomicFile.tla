---- MODULE AtomicFile ----
(***************************************************************************)
(* What write_bytes_atomic promises to whoever opens the target: the       *)
(* complete file that was there, or one writer's complete payload.         *)
(***************************************************************************)
EXTENDS Integers, Sequences

CONSTANTS Payloads, Pieces   \* a complete file is Pieces pieces of one payload

VARIABLE visible   \* what a reader that opens the file finds, nothing if there is no file

Init == visible = <<>>

Replace == \E v \in Payloads : visible' = [i \in 1..Pieces |-> v]

\* The end of the file is lost, to a power failure; or all of it, to whoever removes it.
Lose == \E n \in 0..Len(visible) : visible' = SubSeq(visible, 1, n)

Next == Replace \/ Lose

Spec == Init /\ [][Next]_visible
====
