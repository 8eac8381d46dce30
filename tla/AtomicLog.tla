----------------------------- MODULE AtomicLog -----------------------------
(***************************************************************************)
(* What the write-ahead log of kernel/log.c promises to the file system    *)
(* calls that use it, with no log, no buffers and no recovery in sight.    *)
(* There are two copies of the disk.  view is what the running kernel      *)
(* reads; durable is what the file system will be after a power failure    *)
(* and a reboot.  Durable changes in one step only, the commit, and only   *)
(* when no call is active: it then becomes the whole view.                 *)
(***************************************************************************)
CONSTANTS Proc, Block, Value, InitValue

VARIABLES
  durable,   (* contents after a crash and a recovery                      *)
  view,      (* contents seen by system calls                              *)
  active     (* processes between begin_op() and end_op()                  *)

avars == <<durable, view, active>>

AInit ==
  /\ durable = [b \in Block |-> InitValue]
  /\ view = durable
  /\ active = {}

Begin(p) ==
  /\ active' = active \cup {p}
  /\ UNCHANGED <<durable, view>>

Write(p, b, v) ==
  /\ p \in active
  /\ view' = [view EXCEPT ![b] = v]
  /\ UNCHANGED <<durable, active>>

End(p) ==
  /\ active' = active \ {p}
  /\ UNCHANGED <<durable, view>>

Commit ==
  /\ active = {}
  /\ durable' = view
  /\ UNCHANGED <<view, active>>

PowerFail ==
  /\ view' = durable
  /\ active' = {}
  /\ UNCHANGED durable

ANext ==
  \/ \E p \in Proc : Begin(p) \/ End(p)
  \/ \E p \in Proc, b \in Block, v \in Value : Write(p, b, v)
  \/ Commit
  \/ PowerFail

ASpec == AInit /\ [][ANext]_avars
=============================================================================
