-------------------------------- MODULE Pipe --------------------------------
(***************************************************************************)
(* kernel/pipe.c: one pipe, processes that hold its write end and          *)
(* processes that hold its read end.  pi->lock is kept over several steps, *)
(* one per byte, because kill() can come between them: it changes          *)
(* p->killed without pi->lock.  sleep() releases pi->lock and sleeps in    *)
(* one step and wakeup() wakes all sleepers of its channel, which is what  *)
(* module Proc is about.                                                   *)
(***************************************************************************)
EXTENDS Integers, Sequences, FiniteSets

CONSTANTS
  Writer, Reader,   (* processes with the write end, with the read end     *)
  Killable,         (* those that another process may kill                 *)
  MaxKills,         (* bound on the number of killed processes             *)
  Byte,             (* the values of a byte                                *)
  MaxN,             (* largest n of a read or write system call            *)
  PIPESIZE,
  Wrap              (* nread and nwrite are uint: 2^32 in the code         *)

Proc == Writer \cup Reader
None == "none"

ASSUME PipeConstants ==
  /\ Writer \cap Reader = {}
  /\ None \notin Proc
  /\ Killable \subseteq Proc
  /\ MaxN \in Nat
  /\ PIPESIZE \in Nat \ {0}
  /\ Wrap \in Nat
  /\ PIPESIZE < Wrap
  /\ Wrap % PIPESIZE = 0

VARIABLES
  page,             (* the page of *pi: "none" when pipealloc() failed,    *)
                    (* "used", and "freed" after kfree()                   *)
  data,             (* pi->data                                            *)
  nread, nwrite,    (* pi->nread, pi->nwrite                               *)
  readopen, writeopen,
  lock,             (* the process that holds pi->lock, or None            *)
  ends,             (* processes whose file of this pipe is still open     *)
  killed,           (* killed processes                                    *)
  pc,               (* where each process is                               *)
  left              (* bytes left of the n of its system call              *)

counters == <<data, nread, nwrite>>
open == <<readopen, writeopen, ends>>
vars == <<page, counters, open, lock, killed, pc, left>>

(* asleep_w and asleep_r: in sleep() on &pi->nwrite and on &pi->nread.     *)
PCs == {"user", "write", "writing", "write_one", "asleep_w",
        "read", "reading", "read_wait", "copying", "asleep_r", "kfree", "gone"}

Empty == nread = nwrite

(* Fault: pipewrite() lets one byte too many in.                           *)
Full_off_by_one == nwrite = (nread + PIPESIZE + 1) % Wrap

Full == nwrite = (nread + PIPESIZE) % Wrap

(* wakeup(): the sleepers of a channel go on to acquire(lk) in sleep().    *)
Wake(f, sleep, again) == [p \in Proc |-> IF f[p] = sleep THEN again ELSE f[p]]
WakeReaders(f) == Wake(f, "asleep_r", "read")
WakeWriters(f) == Wake(f, "asleep_w", "write")

(* What pipealloc() leaves.  When there is no file, no second file or no   *)
(* page, the label bad gives back what it got, and nobody has an end.      *)
(* The counters start at 0 and wrap around.                                *)
Init ==
  /\ page \in {"none", "used"}
  /\ data \in [0 .. PIPESIZE - 1 -> Byte]
  /\ nread = 0
  /\ nwrite = 0
  /\ readopen = (page = "used")
  /\ writeopen = (page = "used")
  /\ lock = None
  /\ ends = IF page = "used" THEN Proc ELSE {}
  /\ killed = {}
  /\ pc = [p \in Proc |-> "user"]
  /\ left = [p \in Proc |-> 0]

-----------------------------------------------------------------------------
(* write(fd, addr, n) and read(fd, addr, n).                               *)
Call(p, n) ==
  /\ pc[p] = "user"
  /\ p \in ends
  /\ p \notin killed
  /\ left' = [left EXCEPT ![p] = n]
  /\ pc' = [pc EXCEPT ![p] = IF p \in Writer THEN "write" ELSE "read"]
  /\ UNCHANGED <<page, counters, open, lock, killed>>

(* acquire(&pi->lock), on entry or at the end of sleep().                  *)
Acquire(p) ==
  /\ pc[p] \in {"write", "read"}
  /\ lock = None
  /\ lock' = p
  /\ pc' = [pc EXCEPT ![p] = IF @ = "write" THEN "writing" ELSE "reading"]
  /\ UNCHANGED <<page, counters, open, killed, left>>

(* The return of a system call: release(&pi->lock).                        *)
Return(p, f) ==
  /\ lock' = None
  /\ pc' = [f EXCEPT ![p] = "user"]
  /\ left' = [left EXCEPT ![p] = 0]

(* The test at the head of pipewrite()'s loop.                             *)
WriteCheck(p) ==
  /\ pc[p] = "writing"
  /\ left[p] > 0
  /\ IF ~readopen \/ p \in killed
     THEN Return(p, pc)
     ELSE pc' = [pc EXCEPT ![p] = "write_one"] /\ UNCHANGED <<lock, left>>
  /\ UNCHANGED <<page, counters, open, killed>>

WriteSleep(p) ==
  /\ pc[p] = "write_one"
  /\ Full
  /\ lock' = None
  /\ pc' = [WakeReaders(pc) EXCEPT ![p] = "asleep_w"]
  /\ UNCHANGED <<page, counters, open, killed, left>>

WriteByte(p, b) ==
  /\ pc[p] = "write_one"
  /\ ~Full
  /\ data' = [data EXCEPT ![nwrite % PIPESIZE] = b]
  /\ nwrite' = (nwrite + 1) % Wrap
  /\ left' = [left EXCEPT ![p] = @ - 1]
  /\ pc' = [pc EXCEPT ![p] = "writing"]
  /\ UNCHANGED <<page, nread, open, lock, killed>>

(* All bytes are written, or copyin() failed.                              *)
WriteReturn(p) ==
  /\ \/ pc[p] = "writing" /\ left[p] = 0
     \/ pc[p] = "write_one" /\ ~Full
  /\ Return(p, WakeReaders(pc))
  /\ UNCHANGED <<page, counters, open, killed>>

-----------------------------------------------------------------------------
(* The head of piperead()'s first loop.                                    *)
ReadCheck(p) ==
  /\ pc[p] = "reading"
  /\ IF Empty /\ writeopen
     THEN IF p \in killed
          THEN Return(p, pc)
          ELSE pc' = [pc EXCEPT ![p] = "read_wait"] /\ UNCHANGED <<lock, left>>
     ELSE pc' = [pc EXCEPT ![p] = "copying"] /\ UNCHANGED <<lock, left>>
  /\ UNCHANGED <<page, counters, open, killed>>

ReadSleep(p) ==
  /\ pc[p] = "read_wait"
  /\ lock' = None
  /\ pc' = [pc EXCEPT ![p] = "asleep_r"]
  /\ UNCHANGED <<page, counters, open, killed, left>>

ReadByte(p) ==
  /\ pc[p] = "copying"
  /\ left[p] > 0
  /\ ~Empty
  /\ nread' = (nread + 1) % Wrap
  /\ left' = [left EXCEPT ![p] = @ - 1]
  /\ UNCHANGED <<page, data, nwrite, open, lock, killed, pc>>

(* copyout() fails: the byte is taken out and goes nowhere.                *)
ReadFails(p) ==
  /\ pc[p] = "copying"
  /\ left[p] > 0
  /\ ~Empty
  /\ nread' = (nread + 1) % Wrap
  /\ Return(p, WakeWriters(pc))
  /\ UNCHANGED <<page, data, nwrite, open, killed>>

(* Fault: piperead() does not wake the writers.                            *)
ReadReturn_no_wakeup(p) ==
  /\ pc[p] = "copying"
  /\ left[p] = 0 \/ Empty
  /\ Return(p, pc)
  /\ UNCHANGED <<page, counters, open, killed>>

ReadReturn(p) ==
  /\ pc[p] = "copying"
  /\ left[p] = 0 \/ Empty
  /\ Return(p, WakeWriters(pc))
  /\ UNCHANGED <<page, counters, open, killed>>

-----------------------------------------------------------------------------
(* Where a process goes after pipeclose(): whoever closes the second end   *)
(* frees the page, with pi->lock released.                                 *)
AfterClose == IF ends' = {} THEN "kfree" ELSE "gone"

(* Fault: pipeclose() wakes nobody.                                        *)
Close_silently(p) ==
  /\ pc[p] = "user"
  /\ p \in ends
  /\ lock = None
  /\ ends' = ends \ {p}
  /\ writeopen' = (ends' \cap Writer # {})
  /\ readopen' = (ends' \cap Reader # {})
  /\ pc' = [pc EXCEPT ![p] = AfterClose]
  /\ UNCHANGED <<page, counters, lock, killed, left>>

(* fileclose() of the process's file; the last one of an end goes on to    *)
(* pipeclose().                                                            *)
Close(p) ==
  /\ pc[p] = "user"
  /\ p \in ends
  /\ ends' = ends \ {p}
  /\ IF ends' \cap Writer = {} /\ p \in Writer
     THEN /\ lock = None
          /\ writeopen' = FALSE
          /\ pc' = [WakeReaders(pc) EXCEPT ![p] = AfterClose]
          /\ UNCHANGED readopen
     ELSE IF ends' \cap Reader = {} /\ p \in Reader
     THEN /\ lock = None
          /\ readopen' = FALSE
          /\ pc' = [WakeWriters(pc) EXCEPT ![p] = AfterClose]
          /\ UNCHANGED writeopen
     ELSE /\ pc' = [pc EXCEPT ![p] = "gone"]
          /\ UNCHANGED <<readopen, writeopen>>
  /\ UNCHANGED <<page, counters, lock, killed, left>>

(* kfree(pi): the page is somebody else's from now on.                     *)
Kfree(p) ==
  /\ pc[p] = "kfree"
  /\ page' = "freed"
  /\ pc' = [pc EXCEPT ![p] = "gone"]
  /\ UNCHANGED <<counters, open, lock, killed, left>>

(* kill(), at any time.                                                    *)
Kill(p) ==
  /\ p \in Killable \ killed
  /\ Cardinality(killed) < MaxKills
  /\ killed' = killed \cup {p}
  /\ pc' = [pc EXCEPT ![p] = CASE @ = "asleep_w" -> "write"
                               [] @ = "asleep_r" -> "read"
                               [] OTHER -> @]
  /\ UNCHANGED <<page, counters, open, lock, left>>

Write(p) ==
  \/ WriteCheck(p) \/ WriteSleep(p) \/ WriteReturn(p)
  \/ \E b \in Byte : WriteByte(p, b)

Read(p) ==
  ReadCheck(p) \/ ReadSleep(p) \/ ReadByte(p) \/ ReadFails(p) \/ ReadReturn(p)

Next ==
  \E p \in Proc :
    \/ \E n \in 0 .. MaxN : Call(p, n)
    \/ Acquire(p)
    \/ Write(p)
    \/ Read(p)
    \/ Close(p)
    \/ Kfree(p)
    \/ Kill(p)

Spec == Init /\ [][Next]_vars

(* A process in a system call goes on whenever it can, and a spinning      *)
(* acquire() wins eventually; programs read, and close what they hold.     *)
Fairness ==
  \A p \in Proc :
    /\ SF_vars(Acquire(p) \/ Write(p) \/ Read(p) \/ Kfree(p))
    /\ SF_vars(Close(p))

LiveSpec == Spec /\ Fairness

-----------------------------------------------------------------------------
TypeOK ==
  /\ page \in {"none", "used", "freed"}
  /\ data \in [0 .. PIPESIZE - 1 -> Byte]
  /\ nread \in 0 .. Wrap - 1
  /\ nwrite \in 0 .. Wrap - 1
  /\ readopen \in BOOLEAN /\ writeopen \in BOOLEAN
  /\ lock \in Proc \cup {None}
  /\ ends \subseteq Proc
  /\ killed \subseteq Proc
  /\ pc \in [Proc -> PCs]
  /\ left \in [Proc -> 0 .. MaxN]

(* The bytes in the pipe, oldest first.                                    *)
Count == (nwrite - nread) % Wrap
Contents == [k \in 1 .. Count |-> data[(nread + k - 1) % PIPESIZE]]

(* The pipe is a bounded FIFO queue: pipewrite() and piperead() never      *)
(* overwrite, repeat or reorder a byte, also when the uint counters wrap   *)
(* around between them, and after the last close of the write end no byte  *)
(* appears.                                                                *)
Queue == INSTANCE BoundedQueue WITH
  q <- Contents, closed <- page # "none" /\ ~writeopen, Capacity <- PIPESIZE

QueueSpec == Queue!QSpec

(* The page is there exactly while somebody holds an end or is in a call   *)
(* or close() of the pipe.                                                 *)
PageInUse ==
  page = "used" <=> \E p \in Proc : p \in ends \/ pc[p] \notin {"user", "gone"}

(* A writer asleep on &pi->nwrite has no room and someone to read, and a   *)
(* reader sleeps only while the pipe is empty ("pipe-empty", pipe.c:113)   *)
(* and can still be written: no wakeup of piperead(), pipewrite(),         *)
(* pipeclose() or kill() is lost.  A writer that is killed in the middle   *)
(* of a write returns without waking the readers (pipe.c:84), and they may *)
(* sleep on until the write end is closed.  Nobody is left on a pipe whose *)
(* page pipeclose() freed, and the page is not kept when both ends are     *)
(* closed: PageInUse.                                                      *)
SleepersAreBlocked ==
  /\ TypeOK
  /\ PageInUse
  /\ \A p \in Writer : lock = None /\ pc[p] = "asleep_w" => Full /\ readopen
  /\ \A p \in Reader : lock = None /\ pc[p] = "asleep_r" =>
       writeopen /\ (Empty \/ killed \cap Writer # {})

(* Every read and write system call returns.                               *)
CallsReturn == \A p \in Proc : []<>(pc[p] \in {"user", "gone"})
=============================================================================
