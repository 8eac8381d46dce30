---------------------------- MODULE BoundedQueue ----------------------------
(***************************************************************************)
(* What a pipe promises: the bytes come out in the order they went in,     *)
(* each once, at most Capacity of them are in flight, and once the queue   *)
(* is closed nothing goes in any more: end of file is final.               *)
(***************************************************************************)
EXTENDS Naturals, Sequences

CONSTANTS Byte, Capacity

VARIABLES q, closed

QInit == q = <<>> /\ closed = FALSE

Put(b) == ~closed /\ Len(q) < Capacity /\ q' = Append(q, b) /\ UNCHANGED closed

Get == q # <<>> /\ q' = Tail(q) /\ UNCHANGED closed

CloseQ == closed' = TRUE /\ UNCHANGED q

QNext == Get \/ CloseQ \/ \E b \in Byte : Put(b)

QSpec == QInit /\ [][QNext]_<<q, closed>>
=============================================================================
