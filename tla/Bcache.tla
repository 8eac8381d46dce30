------------------------------- MODULE Bcache -------------------------------
(***************************************************************************)
(* kernel/bio.c and kernel/sleeplock.c over the disk driver of VirtioDisk, *)
(* used the way log.c uses them, but for this: a process has one buffer at *)
(* a time, where install_trans() and write_log() have two for a while.  The *)
(* log's own blocks are written through (bwrite); a change to a file       *)
(* system block pins its buffer until an install writes it (log_write,     *)
(* install_trans); any block may be read.                                  *)
(* The critical sections of bcache.lock and of a sleep lock's spin lock    *)
(* are single steps.                                                       *)
(***************************************************************************)
EXTENDS VirtioDisk

CONSTANTS
  LogBlock,         (* the blocks that are written through                 *)
  Logged,           (* the blocks that are changed through log_write()     *)
  Opens             (* the blocks that each process reads or changes       *)

ASSUME BcacheConstants ==
  /\ LogBlock \subseteq Block
  /\ Logged \subseteq Block \ LogBlock
  /\ Opens \in [Proc -> SUBSET Block]

VARIABLES
  lru,              (* the list from head.next to head.prev                *)
  lock,             (* who has the sleep lock of each buffer, or NoProc    *)
  pinned            (* log.lh.block[]                                      *)

cache == <<lru, lock, pinned>>
vars == <<buf, driver, pc, call, panic, cache>>

PCs == {"idle", "acquiresleep", "lock_sleep", "rw", "desc_sleep", "io_sleep",
        "io_wake", "open", "written", "release", "brelse"}

(* binit().  dev of a fresh buffer is 0, which is no disk.                 *)
Init ==
  /\ DiskInit
  /\ buf = [x \in Buf |-> [blockno |-> NoBlock, valid |-> FALSE, disk |-> FALSE,
                           refcnt |-> 0, data |-> CHOOSE v \in Value : TRUE]]
  /\ lru = [i \in 1 .. NBUF |-> NBUF - i]
  /\ lock = [x \in Buf |-> NoProc]
  /\ pinned = {}
  /\ pc = [p \in Proc |-> "idle"]
  /\ b = [p \in Proc |-> NoBuf]
  /\ write = [p \in Proc |-> FALSE]
  /\ head = [p \in Proc |-> 0]
  /\ panic = "no"

-----------------------------------------------------------------------------
Cached(k) == {x \in Buf : buf[x].blockno = k}

(* The buffer that the second loop of bget() finds, or NoBuf.              *)
Recycled ==
  LET unused == {i \in DOMAIN lru : buf[lru[i]].refcnt = 0}
  IN IF unused = {} THEN NoBuf
     ELSE lru[CHOOSE i \in unused : \A j \in unused : j <= i]

(* bget() up to its acquiresleep().                                        *)
BgetHit(p, k) ==
  /\ pc[p] = "idle"
  /\ \E x \in Cached(k) :
        /\ buf' = [buf EXCEPT ![x].refcnt = @ + 1]
        /\ b' = [b EXCEPT ![p] = x]
  /\ pc' = [pc EXCEPT ![p] = "acquiresleep"]
  /\ UNCHANGED <<driver, write, head, panic, cache>>

(* Fault: the recycled buffer keeps b->valid.                              *)
Recycle_still_valid(x, k) ==
  buf' = [buf EXCEPT ![x].blockno = k, ![x].refcnt = 1]

Recycle(x, k) ==
  buf' = [buf EXCEPT ![x].blockno = k, ![x].valid = FALSE, ![x].refcnt = 1]

BgetMiss(p, k) ==
  /\ pc[p] = "idle"
  /\ Cached(k) = {}
  /\ IF Recycled = NoBuf
     THEN panic' = "bget: no buffers" /\ UNCHANGED <<buf, b, pc>>
     ELSE /\ Recycle(Recycled, k)
          /\ b' = [b EXCEPT ![p] = Recycled]
          /\ pc' = [pc EXCEPT ![p] = "acquiresleep"]
          /\ UNCHANGED panic
  /\ UNCHANGED <<driver, write, head, cache>>

(* acquiresleep() when the lock is taken.                                  *)
LockSleep(p) ==
  /\ pc[p] = "acquiresleep"
  /\ lock[b[p]] # NoProc
  /\ pc' = [pc EXCEPT ![p] = "lock_sleep"]
  /\ UNCHANGED <<buf, driver, call, panic, cache>>

(* kill() of a process that waits for a sleep lock: the loop tests it      *)
(* again.                                                                  *)
KillInSleeplock(p) ==
  /\ pc[p] = "lock_sleep"
  /\ pc' = [pc EXCEPT ![p] = "acquiresleep"]
  /\ UNCHANGED <<buf, driver, call, panic, cache>>

(* acquiresleep() when it is free, and the test of b->valid in bread().    *)
Acquiresleep(p) ==
  /\ pc[p] = "acquiresleep"
  /\ lock[b[p]] = NoProc
  /\ lock' = [lock EXCEPT ![b[p]] = p]
  /\ pc' = [pc EXCEPT ![p] = IF buf[b[p]].valid THEN "open" ELSE "rw"]
  /\ write' = [write EXCEPT ![p] = FALSE]
  /\ UNCHANGED <<buf, driver, b, head, panic, lru, pinned>>

(* virtio_disk_rw() returns to bread().                                    *)
BreadDone(p) ==
  /\ ~write[p]
  /\ Finish(p, "open")
  /\ buf' = [buf EXCEPT ![b[p]].valid = TRUE]
  /\ UNCHANGED <<call, cache>>

(* virtio_disk_rw() returns to bwrite().                                   *)
BwriteDone(p) ==
  /\ write[p]
  /\ Finish(p, "written")
  /\ UNCHANGED <<buf, call, cache>>

-----------------------------------------------------------------------------
(* write_log() and write_head(): change a block of the log, bwrite() it.   *)
Bwrite(p, v) ==
  /\ pc[p] = "open"
  /\ buf[b[p]].blockno \in LogBlock
  /\ buf' = [buf EXCEPT ![b[p]].data = v]
  /\ write' = [write EXCEPT ![p] = TRUE]
  /\ pc' = [pc EXCEPT ![p] = "rw"]
  /\ UNCHANGED <<driver, b, head, panic, cache>>

(* Fault: log_write() pins a block again that is in the log already.       *)
Pins_again(k) == 1

(* What the absorption test of log_write() adds to b->refcnt.              *)
Pins(k) == IF k \in pinned THEN 0 ELSE 1

(* A change to a file system block and log_write(), with its bpin().       *)
LogWrite(p, v) ==
  /\ pc[p] = "open"
  /\ LET k == buf[b[p]].blockno
     IN
     /\ k \in Logged
     /\ pinned' = pinned \cup {k}
     /\ buf' = [buf EXCEPT ![b[p]].data = v, ![b[p]].refcnt = @ + Pins(k)]
  /\ pc' = [pc EXCEPT ![p] = "release"]
  /\ UNCHANGED <<driver, call, panic, lru, lock>>

(* install_trans() writes a logged block to its place...                   *)
Install(p) ==
  /\ pc[p] = "open"
  /\ buf[b[p]].blockno \in pinned
  /\ write' = [write EXCEPT ![p] = TRUE]
  /\ pc' = [pc EXCEPT ![p] = "rw"]
  /\ UNCHANGED <<buf, driver, b, head, panic, cache>>

(* ... and calls bunpin().  A block of the log was never pinned.           *)
Bunpin(p) ==
  /\ pc[p] = "written"
  /\ LET k == buf[b[p]].blockno
     IN
     /\ pinned' = pinned \ {k}
     /\ buf' = [buf EXCEPT ![b[p]].refcnt = IF k \in pinned THEN @ - 1 ELSE @]
  /\ pc' = [pc EXCEPT ![p] = "release"]
  /\ UNCHANGED <<driver, call, panic, lru, lock>>

(* Fault: releasesleep() does not wake the waiters.                        *)
WakeLock_not(x, f) == f

(* wakeup(lk) in releasesleep().                                           *)
WakeLock(x, f) ==
  [q \in Proc |-> IF f[q] = "lock_sleep" /\ b[q] = x THEN "acquiresleep" ELSE f[q]]

(* brelse() up to releasesleep(), which wakes all who wait for the lock.   *)
Releasesleep(p) ==
  /\ pc[p] \in {"open", "release"}
  /\ lock[b[p]] = p
  /\ lock' = [lock EXCEPT ![b[p]] = NoProc]
  /\ pc' = [WakeLock(b[p], pc) EXCEPT ![p] = "brelse"]
  /\ UNCHANGED <<buf, driver, call, panic, lru, pinned>>

MoveToHead(x) == <<x>> \o SelectSeq(lru, LAMBDA y : y # x)

(* The rest of brelse(), under bcache.lock.                                *)
Brelse(p) ==
  /\ pc[p] = "brelse"
  /\ buf' = [buf EXCEPT ![b[p]].refcnt = @ - 1]
  /\ lru' = IF buf[b[p]].refcnt = 1 THEN MoveToHead(b[p]) ELSE lru
  /\ b' = [b EXCEPT ![p] = NoBuf]
  /\ head' = [head EXCEPT ![p] = 0]
  /\ write' = [write EXCEPT ![p] = FALSE]
  /\ pc' = [pc EXCEPT ![p] = "idle"]
  /\ UNCHANGED <<driver, panic, lock, pinned>>

-----------------------------------------------------------------------------
(* One step of a process in a call it has begun.                           *)
Step(p) ==
  \/ LockSleep(p)
  \/ Acquiresleep(p)
  \/ DescSleep(p) /\ UNCHANGED cache
  \/ Post(p) /\ UNCHANGED cache
  \/ IoSleep(p) /\ UNCHANGED cache
  \/ BreadDone(p)
  \/ BwriteDone(p)
  \/ Bunpin(p)
  \/ Releasesleep(p)
  \/ Brelse(p)

Bread(p, k) == BgetHit(p, k) \/ BgetMiss(p, k)

Change(p, v) == Bwrite(p, v) \/ LogWrite(p, v)

Device(i) == DeviceDone(i) /\ UNCHANGED cache

Intr == (IntrEnter \/ IntrLoop \/ IntrExit) /\ UNCHANGED cache

Next ==
  /\ panic = "no"
  /\ \/ \E p \in Proc :
          \/ Step(p)
          \/ \E k \in Opens[p] : Bread(p, k)
          \/ \E v \in Value : Change(p, v)
          \/ Install(p)
          \/ KillInDriver(p) /\ UNCHANGED cache
          \/ KillInSleeplock(p)
     \/ \E i \in Desc : Device(i)
     \/ Intr

(* The device answers every request, its interrupt is taken and handled,   *)
(* and a process that can run, or whose spin lock comes free again and     *)
(* again, runs.                                                            *)
Fairness ==
  /\ \A i \in Desc : WF_vars(panic = "no" /\ Device(i))
  /\ WF_vars(panic = "no" /\ Intr)
  /\ \A p \in Proc : SF_vars(panic = "no" /\ Step(p))

Spec == Init /\ [][Next]_vars /\ Fairness

-----------------------------------------------------------------------------
TypeOK ==
  /\ buf \in [Buf -> [blockno : Block \cup {NoBlock}, valid : BOOLEAN, disk : BOOLEAN,
                      refcnt : 0 .. Cardinality(Proc) + 1, data : Value]]
  /\ store \in [Block -> Value]
  /\ free \subseteq Desc
  /\ desc \in [Desc -> [addr : Buf \cup {NoBuf}, more : BOOLEAN, next : Desc]]
  /\ ops \in [Desc -> [write : BOOLEAN, sector : Block \cup {NoBlock}]]
  /\ info \in [Desc -> [b : Buf \cup {NoBuf}, ok : BOOLEAN]]
  /\ avail \subseteq Desc
  /\ used \in Seq(Desc)
  /\ intr \in BOOLEAN
  /\ handler \in BOOLEAN
  /\ pc \in [Proc -> PCs]
  /\ b \in [Proc -> Buf \cup {NoBuf}]
  /\ write \in [Proc -> BOOLEAN]
  /\ head \in [Proc -> Desc]
  /\ lru \in [1 .. NBUF -> Buf]
  /\ \A x \in Buf : \E i \in 1 .. NBUF : lru[i] = x
  /\ lock \in [Buf -> Proc \cup {NoProc}]
  /\ pinned \subseteq Logged

(* bget() does not run out of buffers, which it would if Opens let NBUF    *)
(* blocks be in use or pinned while another is asked for; free_desc() is   *)
(* never given a free descriptor, and the handler never sees an operation  *)
(* that is not done.                                                       *)
NoPanic == panic = "no"

(* b->refcnt counts the processes between bget() and the end of brelse()   *)
(* and the pin of log_write(), no more and no less: a buffer in use is not *)
(* recycled and a forgotten one does not stay for ever.                    *)
RefcntExact ==
  \A x \in Buf :
    buf[x].refcnt = Cardinality({p \in Proc : b[p] = x})
                    + (IF buf[x].blockno \in pinned THEN 1 ELSE 0)

Posted == avail \cup {used[i] : i \in DOMAIN used}

(* While the device may still touch a buffer, and until the handler has    *)
(* seen the completion, the buffer is locked by the process that asked for *)
(* the transfer and holds the block the request names, and the chain's     *)
(* descriptors belong to no other request.  At most NUM / 3 requests are   *)
(* on the rings, so that an entry is never overwritten.                    *)
DmaOwned ==
  /\ \A i \in Posted : \E p \in Proc :
        /\ head[p] = i
        /\ pc[p] \in {"io_sleep", "io_wake"}
        /\ lock[b[p]] = p
        /\ buf[b[p]].disk
        /\ info[i].b = b[p]
        /\ desc[desc[i].next].addr = b[p]
        /\ ops[i].sector = buf[b[p]].blockno
  /\ \A i \in Posted :
        /\ Cardinality(Chain(i)) = 3
        /\ Chain(i) \cap free = {}
        /\ \A j \in Posted \ {i} : Chain(i) \cap Chain(j) = {}
  /\ Cardinality(avail) + Len(used) <= NUM \div 3

(* The cache over the driver behaves as a store with one value per block   *)
(* and one user at a time.  A block's value is that of its valid buffer,   *)
(* or else the one on the disk: what is recycled without being written     *)
(* would change it.                                                        *)
StoreHolder ==
  [k \in Block |->
     LET users == {p \in Proc : /\ b[p] # NoBuf
                                /\ buf[b[p]].blockno = k
                                /\ buf[b[p]].valid
                                /\ lock[b[p]] = p}
     IN IF users = {} THEN NoProc ELSE CHOOSE p \in users : TRUE]

StoreValue ==
  [k \in Block |->
     LET valid == {x \in Cached(k) : buf[x].valid}
     IN IF valid = {} THEN store[k] ELSE buf[CHOOSE x \in valid : TRUE].data]

Store == INSTANCE BlockStore WITH holder <- StoreHolder, value <- StoreValue
StoreSpec == Store!Spec

(* Whoever sleeps has somebody to wake it.  A sleep lock it waits for is   *)
(* held.  Fewer than three descriptors are free while it waits for them.   *)
(* The transfer it waits for is with the device, or completed with the     *)
(* handler running or an interrupt to come: also when completions come     *)
(* while the handler runs, or several at once.                             *)
SleeperHasWaker ==
  \A p \in Proc :
    /\ pc[p] = "lock_sleep" => lock[b[p]] # NoProc
    /\ pc[p] = "desc_sleep" => Cardinality(free) < 3
    /\ pc[p] = "io_sleep" =>
          /\ buf[b[p]].disk
          /\ \/ head[p] \in avail
             \/ head[p] \in Posted /\ (intr \/ handler)

(* Nobody sleeps for ever: the holder of a sleep lock, the process that    *)
(* frees its descriptors and the completion interrupt wake the sleepers.   *)
SleepersWake ==
  \A p \in Proc : LET asleep == pc[p] \in {"lock_sleep", "desc_sleep", "io_sleep"}
                  IN asleep ~> ~asleep

(* The buffer cache counts its users exactly and panics nowhere.           *)
BcacheInv == TypeOK /\ NoPanic /\ RefcntExact

(* The driver transfers what its callers own and wakes those who wait.     *)
DriverInv == DmaOwned /\ SleeperHasWaker
=============================================================================
