----------------------------- MODULE BlockStore -----------------------------
(***************************************************************************)
(* What the buffer cache and the disk driver promise together: a set of    *)
(* blocks, each with one value and at most one process that has it open.   *)
(* Caching, recycling, sleeping, DMA and interrupts cannot be seen.        *)
(***************************************************************************)
EXTENDS Naturals

CONSTANTS Proc, Block, Value, NoProc

VARIABLES
  holder,           (* the process that has the block open, or NoProc      *)
  value             (* the value of the block                              *)

vars == <<holder, value>>

Init ==
  /\ holder = [k \in Block |-> NoProc]
  /\ value \in [Block -> Value]

(* bread() returns: the process has the block, whose value is unchanged.   *)
Open(p, k) ==
  /\ holder[k] = NoProc
  /\ \A j \in Block : holder[j] # p
  /\ holder' = [holder EXCEPT ![k] = p]
  /\ UNCHANGED value

Write(p, k, v) ==
  /\ holder[k] = p
  /\ value' = [value EXCEPT ![k] = v]
  /\ UNCHANGED holder

(* brelse(): the block is free for the next process.                       *)
Close(p, k) ==
  /\ holder[k] = p
  /\ holder' = [holder EXCEPT ![k] = NoProc]
  /\ UNCHANGED value

Next == \E p \in Proc, k \in Block :
  \/ Open(p, k)
  \/ \E v \in Value : Write(p, k, v)
  \/ Close(p, k)

Spec == Init /\ [][Next]_vars

=============================================================================
