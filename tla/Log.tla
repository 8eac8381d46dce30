-------------------------------- MODULE Log --------------------------------
(***************************************************************************)
(* The write-ahead log of kernel/log.c with the parts of kernel/bio.c it   *)
(* leans on: begin_op, log_write and end_op called by concurrent file      *)
(* system calls, the commit run by the last of them, power failures at     *)
(* any point and the recovery of the next boot.                            *)
(*                                                                         *)
(* A block is one opaque value.  A disk write that a power failure         *)
(* interrupts may leave its block half written (Torn): a block is two      *)
(* sectors.  The header is 4 + 4 * LOGSIZE bytes, in one sector, and is    *)
(* written whole or not at all.  Spinlock sections are one step.           *)
(***************************************************************************)
EXTENDS Integers, Sequences, FiniteSets

CONSTANTS
  Proc,          (* processes that make file system calls                  *)
  Block,         (* home blocks of the file system                         *)
  Value,         (* contents of a block                                    *)
  InitValue,     (* contents of every block on the image                   *)
  Torn,          (* contents of a half-written block                       *)
  NoBuf,         (* "no buffer holds this block"                           *)
  NoBlock,       (* "no block"                                             *)
  LOGSIZE,       (* entries of struct logheader                            *)
  MAXOPBLOCKS,   (* blocks begin_op() reserves for a call                  *)
  nlog,          (* sb.nlog: blocks of the on-disk log, header included    *)
  OpBlocks       (* distinct blocks a call really writes                   *)

ASSUME LogConstants ==
  /\ IsFiniteSet(Proc)
  /\ InitValue \in Value
  /\ Torn \notin Value
  /\ NoBuf \notin Value \cup {Torn}
  /\ NoBlock \notin Block
  /\ LOGSIZE \in Nat
  /\ MAXOPBLOCKS \in Nat \ {0}
  /\ MAXOPBLOCKS <= LOGSIZE
  /\ nlog \in Nat \ {0}
  /\ OpBlocks \in 0 .. MAXOPBLOCKS

VARIABLES
  disk,          (* home blocks on the disk                                *)
  logblk,        (* data blocks of the on-disk log                         *)
  hdr,           (* header block of the on-disk log: home block numbers    *)
  cache,         (* buffer cache, home blocks only: contents or NoBuf      *)
  pinned,        (* blocks whose buffer bpin() keeps in the cache          *)
  lh,            (* log.lh: the first log.lh.n entries                     *)
  outstanding,   (* log.outstanding                                        *)
  committing,    (* log.committing                                         *)
  phase,         (* where commit() or recover_from_log() is                *)
  tail,          (* entries done by the loop of write_log/install_trans    *)
  pc,            (* where each process is                                  *)
  buf,           (* the block whose buffer the process has locked          *)
  wrote          (* blocks the current call of the process has logged      *)

diskVars == <<disk, logblk, hdr>>
cacheVars == <<cache, pinned>>
logVars == <<lh, outstanding, committing>>
commitVars == <<phase, tail>>
procVars == <<pc, buf, wrote>>
vars == <<diskVars, cacheVars, logVars, commitVars, procVars>>

Slot == 1 .. nlog - 1
Entries(s) == {s[i] : i \in 1 .. Len(s)}

RecoveryPhases == {"read_head", "r_install", "r_clear"}
CommitPhases == {"write_log", "write_head", "install", "erase", "done"}
Phases == {"none", "panic"} \cup RecoveryPhases \cup CommitPhases
PCs == {"idle", "begin", "asleep", "op", "modified", "logged", "commit"}

Running == phase \notin RecoveryPhases \cup {"panic"}

-----------------------------------------------------------------------------
(* The first boot finds the image mkfs wrote, whose log is empty, and      *)
(* starts at initlog().                                                    *)
Init ==
  /\ disk = [b \in Block |-> InitValue]
  /\ logblk = [s \in Slot |-> InitValue]
  /\ hdr = <<>>
  /\ cache = [b \in Block |-> NoBuf]
  /\ pinned = {}
  /\ lh = <<>>
  /\ outstanding = 0
  /\ committing = FALSE
  /\ phase = "read_head"
  /\ tail = 0
  /\ pc = [p \in Proc |-> "idle"]
  /\ buf = [p \in Proc |-> NoBlock]
  /\ wrote = [p \in Proc |-> {}]

-----------------------------------------------------------------------------
(* recover_from_log(): read_head, install_trans(1), clear the log.         *)

read_head ==
  /\ phase = "read_head"
  /\ lh' = hdr
  /\ phase' = "r_install"
  /\ tail' = 0
  /\ UNCHANGED <<diskVars, cacheVars, outstanding, committing, procVars>>

(* One iteration of install_trans(): the log block goes to its home        *)
(* location through the home block's buffer.                               *)
InstallBlock ==
  /\ tail < Len(lh)
  /\ disk' = [disk EXCEPT ![lh[tail + 1]] = logblk[tail + 1]]
  /\ cache' = [cache EXCEPT ![lh[tail + 1]] = logblk[tail + 1]]
  /\ tail' = tail + 1

RecoverInstall ==
  /\ phase = "r_install"
  /\ InstallBlock
  /\ UNCHANGED <<logblk, hdr, pinned, logVars, phase, procVars>>

RecoverInstalled ==
  /\ phase = "r_install"
  /\ tail = Len(lh)
  /\ phase' = "r_clear"
  /\ UNCHANGED <<diskVars, cacheVars, logVars, tail, procVars>>

RecoverClear ==
  /\ phase = "r_clear"
  /\ lh' = <<>>
  /\ hdr' = <<>>
  /\ phase' = "none"
  /\ tail' = 0
  /\ UNCHANGED <<disk, logblk, cacheVars, outstanding, committing, procVars>>

-----------------------------------------------------------------------------
(* wakeup(&log): every process asleep in begin_op() runs its loop again.   *)
Woken == [p \in Proc |-> IF pc[p] = "asleep" THEN "begin" ELSE pc[p]]

(* A process enters a file system call.                                    *)
Call(p) ==
  /\ Running
  /\ pc[p] = "idle"
  /\ pc' = [pc EXCEPT ![p] = "begin"]
  /\ UNCHANGED <<diskVars, cacheVars, logVars, commitVars, buf, wrote>>

(* Fault: begin_op() counts the reservations of the other calls only.      *)
LogFull_without_own == Len(lh) + outstanding * MAXOPBLOCKS > LOGSIZE

LogFull == Len(lh) + (outstanding + 1) * MAXOPBLOCKS > LOGSIZE

begin_op(p) ==
  /\ Running
  /\ pc[p] = "begin"
  /\ IF committing \/ LogFull
     THEN /\ pc' = [pc EXCEPT ![p] = "asleep"]
          /\ UNCHANGED outstanding
     ELSE /\ pc' = [pc EXCEPT ![p] = "op"]
          /\ outstanding' = outstanding + 1
  /\ UNCHANGED <<diskVars, cacheVars, lh, committing, commitVars, buf, wrote>>

(* bread() of a block the call then modifies in its locked buffer.  The    *)
(* call keeps to its budget of OpBlocks distinct blocks.                   *)
Modify(p, b, v) ==
  /\ Running
  /\ pc[p] = "op"
  /\ \A q \in Proc : buf[q] # b
  /\ Cardinality(wrote[p] \cup {b}) <= OpBlocks
  /\ cache' = [cache EXCEPT ![b] = v]
  /\ buf' = [buf EXCEPT ![p] = b]
  /\ pc' = [pc EXCEPT ![p] = "modified"]
  /\ UNCHANGED <<diskVars, pinned, logVars, commitVars, wrote>>

TooBig == Len(lh) >= LOGSIZE \/ Len(lh) >= nlog - 1

(* Fault: log_write() does not pin the buffer.                             *)
log_write_without_bpin(p) ==
  /\ Running
  /\ pc[p] = "modified"
  /\ ~TooBig
  /\ lh' = IF buf[p] \in Entries(lh) THEN lh ELSE Append(lh, buf[p])
  /\ wrote' = [wrote EXCEPT ![p] = @ \cup {buf[p]}]
  /\ pc' = [pc EXCEPT ![p] = "logged"]
  /\ UNCHANGED <<diskVars, cacheVars, outstanding, committing, commitVars, buf>>

log_write(p) ==
  /\ Running
  /\ pc[p] = "modified"
  /\ IF TooBig \/ outstanding < 1
     THEN /\ phase' = "panic"
          /\ UNCHANGED <<lh, pinned, pc, wrote>>
     ELSE /\ IF buf[p] \in Entries(lh)          \* log absorption
             THEN UNCHANGED <<lh, pinned>>
             ELSE /\ lh' = Append(lh, buf[p])
                  /\ pinned' = pinned \cup {buf[p]}
          /\ wrote' = [wrote EXCEPT ![p] = @ \cup {buf[p]}]
          /\ pc' = [pc EXCEPT ![p] = "logged"]
          /\ UNCHANGED phase
  /\ UNCHANGED <<diskVars, cache, outstanding, committing, tail, buf>>

brelse(p) ==
  /\ Running
  /\ pc[p] = "logged"
  /\ buf' = [buf EXCEPT ![p] = NoBlock]
  /\ pc' = [pc EXCEPT ![p] = "op"]
  /\ UNCHANGED <<diskVars, cacheVars, logVars, commitVars, wrote>>

(* end_op() up to the release of log.lock; the last call goes on to        *)
(* commit(), which does nothing when log.lh.n is 0.                        *)
end_op(p) ==
  /\ Running
  /\ pc[p] = "op"
  /\ outstanding' = outstanding - 1
  /\ wrote' = [wrote EXCEPT ![p] = {}]
  /\ tail' = 0
  /\ IF committing
     THEN /\ phase' = "panic"
          /\ UNCHANGED <<committing, pc>>
     ELSE IF outstanding' = 0
     THEN /\ committing' = TRUE
          /\ pc' = [pc EXCEPT ![p] = "commit"]
          /\ phase' = IF Len(lh) > 0 THEN "write_log" ELSE "done"
     ELSE /\ pc' = [Woken EXCEPT ![p] = "idle"]
          /\ UNCHANGED <<committing, phase>>
  /\ UNCHANGED <<diskVars, cacheVars, lh, buf>>

-----------------------------------------------------------------------------
(* commit(), one disk write at a time, without log.lock.                   *)

(* bread() of an entry's home block: its buffer if it has one.             *)
Contents(b) == IF cache[b] = NoBuf THEN disk[b] ELSE cache[b]

(* Fault: the header is written before the log blocks.                     *)
write_log_after_head ==
  /\ phase = "write_log"
  /\ hdr' = lh
  /\ IF tail < Len(lh)
     THEN /\ logblk' = [logblk EXCEPT ![tail + 1] = Contents(lh[tail + 1])]
          /\ cache' = [cache EXCEPT ![lh[tail + 1]] = Contents(lh[tail + 1])]
          /\ tail' = tail + 1
          /\ UNCHANGED phase
     ELSE /\ phase' = "write_head"
          /\ UNCHANGED <<logblk, cache, tail>>
  /\ UNCHANGED <<disk, pinned, logVars, procVars>>

write_log ==
  /\ phase = "write_log"
  /\ IF tail < Len(lh)
     THEN /\ logblk' = [logblk EXCEPT ![tail + 1] = Contents(lh[tail + 1])]
          /\ cache' = [cache EXCEPT ![lh[tail + 1]] = Contents(lh[tail + 1])]
          /\ tail' = tail + 1
          /\ UNCHANGED phase
     ELSE /\ phase' = "write_head"
          /\ UNCHANGED <<logblk, cache, tail>>
  /\ UNCHANGED <<disk, hdr, pinned, logVars, procVars>>

write_head ==
  /\ phase = "write_head"
  /\ hdr' = lh
  /\ phase' = "install"
  /\ tail' = 0
  /\ UNCHANGED <<disk, logblk, cacheVars, logVars, procVars>>

install_trans ==
  /\ phase = "install"
  /\ InstallBlock
  /\ pinned' = pinned \ {lh[tail + 1]}
  /\ UNCHANGED <<logblk, hdr, logVars, phase, procVars>>

Installed ==
  /\ phase = "install"
  /\ tail = Len(lh)
  /\ phase' = "erase"
  /\ UNCHANGED <<diskVars, cacheVars, logVars, tail, procVars>>

EraseHead ==
  /\ phase = "erase"
  /\ lh' = <<>>
  /\ hdr' = <<>>
  /\ phase' = "done"
  /\ tail' = 0
  /\ UNCHANGED <<disk, logblk, cacheVars, outstanding, committing, procVars>>

(* Fault: end_op() does not call wakeup(&log) after the commit.            *)
CommitDone_without_wakeup(p) ==
  /\ phase = "done"
  /\ pc[p] = "commit"
  /\ committing' = FALSE
  /\ pc' = [pc EXCEPT ![p] = "idle"]
  /\ phase' = "none"
  /\ UNCHANGED <<diskVars, cacheVars, lh, outstanding, tail, buf, wrote>>

(* The rest of end_op(): the committer takes log.lock again.               *)
CommitDone(p) ==
  /\ phase = "done"
  /\ pc[p] = "commit"
  /\ committing' = FALSE
  /\ pc' = [Woken EXCEPT ![p] = "idle"]
  /\ phase' = "none"
  /\ UNCHANGED <<diskVars, cacheVars, lh, outstanding, tail, buf, wrote>>

-----------------------------------------------------------------------------
(* Buffer cache traffic of other calls: a reader's bread() fills a buffer  *)
(* from the disk, bget() recycles one that nobody holds or has pinned.     *)

Fill(b) ==
  /\ Running
  /\ cache[b] = NoBuf
  /\ cache' = [cache EXCEPT ![b] = disk[b]]
  /\ UNCHANGED <<diskVars, pinned, logVars, commitVars, procVars>>

Recycle(b) ==
  /\ Running
  /\ cache[b] # NoBuf
  /\ b \notin pinned
  /\ \A p \in Proc : buf[p] # b
  /\ cache' = [cache EXCEPT ![b] = NoBuf]
  /\ UNCHANGED <<diskVars, pinned, logVars, commitVars, procVars>>

(* Nothing but the disk survives; the next boot starts at initlog().       *)
Reboot ==
  /\ cache' = [b \in Block |-> NoBuf]
  /\ pinned' = {}
  /\ lh' = <<>>
  /\ outstanding' = 0
  /\ committing' = FALSE
  /\ phase' = "read_head"
  /\ tail' = 0
  /\ pc' = [p \in Proc |-> "idle"]
  /\ buf' = [p \in Proc |-> NoBlock]
  /\ wrote' = [p \in Proc |-> {}]

(* Power failure.  The disk write in flight, if any, may be half done.     *)
TornHome == phase \in {"install", "r_install"} /\ tail < Len(lh)
TornLog == phase = "write_log" /\ tail < Len(lh)

Crash ==
  /\ \/ UNCHANGED <<disk, logblk>>
     \/ /\ TornHome
        /\ disk' = [disk EXCEPT ![lh[tail + 1]] = Torn]
        /\ UNCHANGED logblk
     \/ /\ TornLog
        /\ logblk' = [logblk EXCEPT ![tail + 1] = Torn]
        /\ UNCHANGED disk
  /\ UNCHANGED hdr
  /\ Reboot

ProcNext(p) ==
  \/ Call(p)
  \/ begin_op(p)
  \/ \E b \in Block, v \in Value : Modify(p, b, v)
  \/ log_write(p)
  \/ brelse(p)
  \/ end_op(p)
  \/ CommitDone(p)

Recovery == read_head \/ RecoverInstall \/ RecoverInstalled \/ RecoverClear
CommitNext == write_log \/ write_head \/ install_trans \/ Installed \/ EraseHead

Next ==
  \/ Recovery
  \/ \E p \in Proc : ProcNext(p)
  \/ CommitNext
  \/ \E b \in Block : Fill(b) \/ Recycle(b)
  \/ Crash

Spec == Init /\ [][Next]_vars

(* The scheduler runs every process again and again, the disk answers every*)
(* request, and a call makes finitely many writes before its end_op() (all *)
(* loops between begin_op() and end_op() are bounded).  Power failures do  *)
(* not go on for ever.                                                     *)
Fairness ==
  /\ WF_vars(Recovery \/ CommitNext)
  /\ \A p \in Proc :
       /\ WF_vars(begin_op(p) \/ log_write(p) \/ brelse(p) \/ CommitDone(p))
       /\ SF_vars(end_op(p))

PowerStays == <>[][~Crash]_vars

LiveSpec == Spec /\ Fairness /\ PowerStays

-----------------------------------------------------------------------------
(* Properties.                                                             *)

InOp == {p \in Proc : pc[p] \in {"op", "modified", "logged"}}

TypeOK ==
  /\ disk \in [Block -> Value \cup {Torn}]
  /\ logblk \in [Slot -> Value \cup {Torn}]
  /\ hdr \in Seq(Block) /\ Len(hdr) < nlog
  /\ cache \in [Block -> Value \cup {NoBuf, Torn}]
  /\ pinned \in SUBSET Block
  /\ lh \in Seq(Block) /\ Len(lh) < nlog
  /\ outstanding \in Nat
  /\ committing \in BOOLEAN
  /\ phase \in Phases
  /\ tail \in 0 .. Len(lh)
  /\ pc \in [Proc -> PCs]
  /\ buf \in [Proc -> Block \cup {NoBlock}]
  /\ wrote \in [Proc -> SUBSET Block]

(* What recovery would make of the disk if power failed now: the blocks    *)
(* named by the on-disk header come from the log, the others are at home.  *)
Recovered ==
  [b \in Block |->
     IF b \in Entries(hdr)
     THEN logblk[CHOOSE i \in 1 .. Len(hdr) : hdr[i] = b]
     ELSE disk[b]]

(* What a bread() by a running call returns.  Before recovery is over      *)
(* nobody reads, and the file system is what recovery will make of it.     *)
Visible ==
  IF phase \in RecoveryPhases THEN Recovered ELSE [b \in Block |-> Contents(b)]

(* The log implements AtomicLog: whatever the interleaving of calls and    *)
(* the instant of a power failure, the recovered file system holds all the *)
(* writes of a set of finished calls and nothing of any other call         *)
(* (log.c:10-16).                                                          *)
Atomic == INSTANCE AtomicLog WITH
  durable <- Recovered, view <- Visible, active <- InOp

AtomicSpec == Atomic!ASpec

(* No half-written block survives recovery, wherever in commit() or in     *)
(* recover_from_log() itself the power failed.                             *)
NoTornBlock == Recovered \in [Block -> Value]

(* Once the last end_op() has returned, every block its calls wrote is on  *)
(* the disk for good, nothing is left in the log and no buffer is pinned.  *)
QuietIsDurable ==
  (Running /\ outstanding = 0 /\ ~committing) =>
    Recovered = Visible /\ lh = <<>> /\ hdr = <<>> /\ pinned = {}

(* A process asleep in begin_op() still has its reason to sleep, and       *)
(* someone is at work who will call wakeup(&log): no wakeup is lost.       *)
SleeperWillBeWoken ==
  \A p \in Proc : (Running /\ pc[p] = "asleep") =>
    committing \/ (LogFull /\ InOp # {})

(* commit() runs alone: the header it writes without log.lock cannot       *)
(* change under it, since no call is between begin_op() and end_op().      *)
CommitAlone == committing => InOp = {} /\ outstanding = 0

(* The log comes to rest, however many power failures came before: once    *)
(* one recovers or commits, or begin_op() has put a process to sleep,      *)
(* there will be a moment without recovery, commit and sleepers.           *)
LogSettles ==
  (phase \in RecoveryPhases \/ committing \/ \E p \in Proc : pc[p] = "asleep")
    ~> (Running /\ ~committing /\ \A p \in Proc : pc[p] # "asleep")

(* None of the panics of log.c is reached, as long as calls write fewer    *)
(* blocks than MAXOPBLOCKS: begin_op() counts the header block as room for *)
(* data, and log_write() panics on a full log even for a block that is in  *)
(* it already.                                                             *)
NoPanic == phase # "panic"

-----------------------------------------------------------------------------
(* The inductive invariant behind these properties, in named parts.        *)

NoDup(s) == \A i, j \in 1 .. Len(s) : s[i] = s[j] => i = j

(* log.outstanding counts the calls between begin_op() and end_op(), and   *)
(* log.committing is set exactly while commit() is under way.              *)
Counting ==
  /\ outstanding = Cardinality(InOp)
  /\ phase # "panic" => (committing <=> phase \in CommitPhases)
  /\ committing => InOp = {}
  /\ phase \in RecoveryPhases \cup {"panic"} => ~committing
  /\ phase \in RecoveryPhases => \A p \in Proc : pc[p] = "idle"
  /\ phase = "none" /\ InOp = {} => lh = <<>>

(* The on-disk header is empty, or is the in-memory one, by phase.         *)
Headers ==
  /\ NoDup(lh)
  /\ NoDup(hdr)
  /\ phase \in {"none", "panic", "write_log", "write_head", "done"} => hdr = <<>>
  /\ phase \in {"install", "erase", "r_install", "r_clear"} => hdr = lh
  /\ phase = "done" => lh = <<>>
  /\ phase \in {"write_head", "erase", "r_clear"} => tail = Len(lh)

(* A call holds the buffer it modified until it has logged and released it.*)
Holding ==
  /\ \A p \in Proc : buf[p] # NoBlock <=> pc[p] \in {"modified", "logged"}
  /\ \A p, q \in Proc : buf[p] = buf[q] /\ buf[p] # NoBlock => p = q
  /\ \A p \in Proc : pc[p] = "logged" => buf[p] \in Entries(lh)
  /\ committing => \A p \in Proc : buf[p] = NoBlock

(* Exactly the logged blocks that are not yet installed are pinned.        *)
Pinning ==
  /\ phase \in {"none", "panic", "write_log", "write_head"} => pinned = Entries(lh)
  /\ phase = "install" => pinned = {lh[i] : i \in tail + 1 .. Len(lh)}
  /\ phase \in {"erase", "done"} \cup RecoveryPhases => pinned = {}

(* Every other buffer agrees with the disk.                                *)
Caching ==
  \A b \in Block :
    IF b \in pinned \/ \E p \in Proc : buf[p] = b
    THEN cache[b] \in Value
    ELSE cache[b] \in {NoBuf, disk[b]}

(* What the log holds: before the commit, copies of the buffers; after it, *)
(* whole blocks, of which the first tail are also at home.                 *)
Logging ==
  /\ phase \in {"write_log", "write_head"} =>
       \A i \in 1 .. tail : logblk[i] = cache[lh[i]]
  /\ \A i \in 1 .. Len(hdr) : logblk[i] \in Value
  /\ phase = "install" =>
       \A i \in tail + 1 .. Len(lh) : logblk[i] = cache[lh[i]]
  /\ phase \in {"install", "erase", "r_install", "r_clear"} =>
       \A i \in 1 .. tail : disk[lh[i]] = logblk[i]
  /\ \A b \in Block : b \notin Entries(hdr) => disk[b] \in Value

(* A sleeper's reason to sleep holds until it is woken.                    *)
Sleeping ==
  \A p \in Proc : pc[p] = "asleep" /\ phase # "panic" => committing \/ LogFull

LogInv ==
  TypeOK /\ Counting /\ Headers /\ Holding /\ Pinning /\ Caching /\ Logging /\ Sleeping
=============================================================================
