----------------------------- MODULE VirtioDisk -----------------------------
(***************************************************************************)
(* kernel/virtio_disk.c and the device it drives.  Processes transfer      *)
(* buffers: they take three descriptors, post the head of the chain,       *)
(* sleep until the completion interrupt and free the chain.  The device    *)
(* completes the posted requests in any order.                             *)
(*                                                                         *)
(* The critical sections of vdisk_lock are single steps, except that of    *)
(* the interrupt handler: the device adds to the used ring while the       *)
(* handler walks it.  The avail ring is the set of the posted heads, the   *)
(* used ring the sequence of those the handler has yet to see: DmaOwned    *)
(* is what makes ring[idx % NUM] the same thing.  A freed descriptor's     *)
(* ops[] and info[].status, which nobody reads before they are written     *)
(* again, are cleared.                                                     *)
(***************************************************************************)
EXTENDS Integers, Sequences, FiniteSets

CONSTANTS
  Proc, Block, Value,
  NBUF,             (* buffers                                             *)
  NUM,              (* descriptors                                         *)
  Queue,            (* the numbers of descriptors to consider, up to NUM   *)
  NoProc, NoBlock

ASSUME DiskConstants ==
  /\ NBUF \in Nat
  /\ NUM \in Nat
  /\ Queue \subseteq 3 .. NUM
  /\ NoProc \notin Proc
  /\ NoBlock \notin Block

Buf == 0 .. NBUF - 1
NoBuf == -1
Desc == 0 .. NUM - 1

VARIABLES
  buf,              (* the buffers: [blockno, valid, disk, refcnt, data]   *)
  store,            (* the blocks on the disk                              *)
  free,             (* disk.free[]: the set of the free descriptors        *)
  desc,             (* disk.desc[]: [addr, more, next]                     *)
  ops,              (* disk.ops[]: [write, sector]                         *)
  info,             (* disk.info[]: [b, ok], ok when status is 0           *)
  avail,            (* heads that the driver posted, the device not done   *)
  used,             (* heads that the device has done, the driver not seen *)
  intr,             (* VIRTIO_MMIO_INTERRUPT_STATUS                        *)
  handler,          (* virtio_disk_intr() is running, with vdisk_lock      *)
  pc,               (* where each process is                               *)
  b,                (* its buffer, or NoBuf                                *)
  write,            (* the argument write of its virtio_disk_rw()          *)
  head,             (* its idx[0]                                          *)
  panic             (* the text of the panic, or "no"                      *)

queue == <<free, desc, ops, info, avail, used>>
driver == <<queue, intr, handler, store>>
call == <<b, write, head>>

NoDesc == [addr |-> NoBuf, more |-> FALSE, next |-> 0]
NoOps == [write |-> FALSE, sector |-> NoBlock]
NoInfo == [b |-> NoBuf, ok |-> FALSE]

(* What virtio_disk_init() leaves, for a queue of one of the sizes;        *)
(* descriptors past its end are never free.  All blocks start alike.       *)
DiskInit ==
  /\ store = [k \in Block |-> CHOOSE v \in Value : TRUE]
  /\ free \in {0 .. n - 1 : n \in Queue}
  /\ desc = [i \in Desc |-> NoDesc]
  /\ ops = [i \in Desc |-> NoOps]
  /\ info = [i \in Desc |-> NoInfo]
  /\ avail = {}
  /\ used = <<>>
  /\ intr = FALSE
  /\ handler = FALSE

(* wakeup(): the sleepers of a channel go on in their loop.                *)
Wake(f, sleeper, again) ==
  [q \in Proc |-> IF f[q] = sleeper THEN again ELSE f[q]]

WakeDesc(f) == Wake(f, "desc_sleep", "rw")

(* The n-th descriptor that alloc_desc() finds.                            *)
Free(n) == CHOOSE i \in free : Cardinality({j \in free : j < i}) = n

-----------------------------------------------------------------------------
(* virtio_disk_rw() when alloc3_desc() fails.  The one or two descriptors  *)
(* it took are freed again, and every free_desc() wakes the processes that *)
(* sleep for descriptors.                                                  *)
DescSleep(p) ==
  /\ pc[p] = "rw"
  /\ ~handler
  /\ Cardinality(free) < 3
  /\ pc' = [(IF free = {} THEN pc ELSE WakeDesc(pc)) EXCEPT ![p] = "desc_sleep"]
  /\ UNCHANGED <<buf, driver, call, panic>>

(* virtio_disk_rw() when it has its descriptors: format them, post the     *)
(* head, notify the device and sleep while b->disk is 1.                   *)
Post(p) ==
  /\ pc[p] = "rw"
  /\ ~handler
  /\ Cardinality(free) >= 3
  /\ LET i == Free(0)
         j == Free(1)
         k == Free(2)
     IN
     /\ free' = free \ {i, j, k}
     /\ desc' = [desc EXCEPT ![i] = [addr |-> NoBuf, more |-> TRUE, next |-> j],
                             ![j] = [addr |-> b[p], more |-> TRUE, next |-> k],
                             ![k] = NoDesc]
     /\ ops' = [ops EXCEPT ![i] = [write |-> write[p], sector |-> buf[b[p]].blockno]]
     /\ info' = [info EXCEPT ![i] = [b |-> b[p], ok |-> FALSE]]
     /\ avail' = avail \cup {i}
     /\ head' = [head EXCEPT ![p] = i]
  /\ buf' = [buf EXCEPT ![b[p]].disk = TRUE]
  /\ pc' = [pc EXCEPT ![p] = "io_sleep"]
  /\ UNCHANGED <<used, store, intr, handler, b, write, panic>>

(* The descriptors that free_chain(i) frees.                               *)
Chain(i) ==
  LET after(k) == IF desc[k].more THEN {desc[k].next} ELSE {}
      second == after(i)
  IN {i} \cup second \cup UNION {after(k) : k \in second}

(* Woken up by kill(): b->disk is still 1, and the loop sleeps again.      *)
IoSleep(p) ==
  /\ pc[p] = "io_wake"
  /\ ~handler
  /\ buf[b[p]].disk
  /\ pc' = [pc EXCEPT ![p] = "io_sleep"]
  /\ UNCHANGED <<buf, driver, call, panic>>

(* The rest of virtio_disk_rw(), after the interrupt handler cleared       *)
(* b->disk.                                                                *)
Finish(p, next) ==
  /\ pc[p] = "io_wake"
  /\ ~handler
  /\ ~buf[b[p]].disk
  /\ LET chain == Chain(head[p])
     IN
     /\ free' = free \cup chain
     /\ desc' = [i \in Desc |-> IF i \in chain THEN NoDesc ELSE desc[i]]
     /\ panic' = IF chain \cap free = {} THEN panic ELSE "free_desc 2"
  /\ ops' = [ops EXCEPT ![head[p]] = NoOps]
  /\ info' = [info EXCEPT ![head[p]] = NoInfo]
  /\ pc' = [WakeDesc(pc) EXCEPT ![p] = next]
  /\ UNCHANGED <<avail, used, intr, handler, store>>

(* kill() of a process that sleeps in the driver, which does not look at   *)
(* p->killed.                                                              *)
KillInDriver(p) ==
  /\ pc[p] \in {"desc_sleep", "io_sleep"}
  /\ pc' = [pc EXCEPT ![p] = IF @ = "io_sleep" THEN "io_wake" ELSE "rw"]
  /\ UNCHANGED <<buf, driver, call, panic>>

-----------------------------------------------------------------------------
(* The device follows a posted chain: it copies between the disk and the   *)
(* buffer of the second descriptor, writes the status through the third,   *)
(* adds the head to the used ring and raises its interrupt.                *)
DeviceDone(i) ==
  /\ i \in avail
  /\ LET d == desc[i].next
         k == ops[i].sector
     IN IF ops[i].write
        THEN store' = [store EXCEPT ![k] = buf[desc[d].addr].data] /\ UNCHANGED buf
        ELSE buf' = [buf EXCEPT ![desc[d].addr].data = store[k]] /\ UNCHANGED store
  /\ info' = [info EXCEPT ![i].ok = TRUE]
  /\ avail' = avail \ {i}
  /\ used' = Append(used, i)
  /\ intr' = TRUE
  /\ UNCHANGED <<free, desc, ops, handler, pc, call, panic>>

(* virtio_disk_intr() up to its loop: take the lock, acknowledge.          *)
IntrEnter ==
  /\ intr
  /\ ~handler
  /\ intr' = FALSE
  /\ handler' = TRUE
  /\ UNCHANGED <<buf, queue, store, pc, call, panic>>

(* One round of its loop.                                                  *)
IntrLoop ==
  /\ handler
  /\ used # <<>>
  /\ LET i == Head(used)
     IN IF info[i].ok
        THEN /\ buf' = [buf EXCEPT ![info[i].b].disk = FALSE]
             /\ pc' = [q \in Proc |-> IF pc[q] = "io_sleep" /\ b[q] = info[i].b
                                      THEN "io_wake" ELSE pc[q]]
             /\ UNCHANGED panic
        ELSE /\ panic' = "virtio_disk_intr status"
             /\ UNCHANGED <<buf, pc>>
  /\ used' = Tail(used)
  /\ UNCHANGED <<free, desc, ops, info, avail, intr, handler, store, call>>

(* Fault: the handler looks at the used ring once, not until it is empty.  *)
IntrExit_once ==
  /\ handler
  /\ handler' = FALSE
  /\ UNCHANGED <<buf, queue, intr, store, pc, call, panic>>

(* The end of the loop and of virtio_disk_intr().                          *)
IntrExit ==
  /\ handler
  /\ used = <<>>
  /\ handler' = FALSE
  /\ UNCHANGED <<buf, queue, intr, store, pc, call, panic>>

=============================================================================
