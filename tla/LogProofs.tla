----------------------------- MODULE LogProofs -----------------------------
(***************************************************************************)
(* Proofs about Log for any number of processes, blocks and values and any *)
(* log size: the parts of LogInv are inductive, and with them the recovered*)
(* disk is never torn, a quiet system is durable, commit() runs alone, no  *)
(* sleeper is stranded, and Log implements AtomicLog.                      *)
(***************************************************************************)
EXTENDS LogCommitProofs

USE DEF diskVars, cacheVars, logVars, commitVars, procVars

(* LogInv is an invariant of the log, for all constants.                   *)
THEOREM LogInvariant == Spec => []LogInv
<1>1. LogInv /\ [Next]_vars => LogInv'
  BY StepReadHead, StepRecoverInstall, StepRecoverInstalled, StepRecoverClear,
     StepCall, StepBeginOp, StepModify, StepLogWrite, StepBrelse, StepEndOp,
     StepWriteLog, StepWriteHead, StepInstall, StepInstalled, StepEraseHead,
     StepCommitDone, StepFill, StepRecycle, StepCrash, StepStutter
  DEF Next, ProcNext, Recovery, CommitNext
<1> QED
  BY InitInv, <1>1, PTL DEF Spec

-----------------------------------------------------------------------------
(* The recovered disk, block by block.                                     *)

LEMMA RecoveredHome ==
  ASSUME NEW b \in Block, b \notin Entries(hdr)
  PROVE  Recovered[b] = disk[b]
BY DEF Recovered

LEMMA RecoveredLogged ==
  ASSUME TypeOK, Headers, NEW i \in 1 .. Len(hdr)
  PROVE  Recovered[hdr[i]] = logblk[i]
<1>1. hdr[i] \in Block /\ hdr[i] \in Entries(hdr)
  <2>1. hdr[i] \in Block
    BY DEF TypeOK
  <2>2. hdr[i] \in Entries(hdr)
    BY DEF Entries
  <2> QED
    BY <2>1, <2>2
<1>2. i = CHOOSE j \in 1 .. Len(hdr) : hdr[j] = hdr[i]
  BY DEF Headers, NoDup
<1> QED
  BY ZenonT(30), <1>1, <1>2 DEF Recovered

(* Every block of the recovered disk is whole: a power failure in the      *)
(* middle of any disk write of write_log() or install_trans(), during a    *)
(* commit or during a recovery, leaves no torn block behind.               *)
THEOREM NoTornBlocks == Spec => []NoTornBlock
<1>1. LogInv => NoTornBlock
  <2> SUFFICES ASSUME LogInv, NEW b \in Block PROVE Recovered[b] \in Value
    BY DEF NoTornBlock, Recovered
  <2>1. CASE b \in Entries(hdr)
    <3>1. PICK i \in 1 .. Len(hdr) : b = hdr[i]
      BY <2>1 DEF Entries
    <3> QED
      BY <3>1, RecoveredLogged DEF LogInv, Logging
  <2>2. CASE b \notin Entries(hdr)
    BY <2>2, RecoveredHome DEF LogInv, Logging
  <2> QED
    BY <2>1, <2>2
<1> QED
  BY <1>1, LogInvariant, PTL

(* commit() never overlaps a file system call.                             *)
THEOREM CommitRunsAlone == Spec => []CommitAlone
<1>1. LogInv => CommitAlone
  BY InOpFinite DEF LogInv, Counting, CommitAlone
<1> QED
  BY <1>1, LogInvariant, PTL

(* Whenever no call is in progress and no commit is under way, all that    *)
(* system calls have written is on the disk.                               *)
THEOREM QuietSystemIsDurable == Spec => []QuietIsDurable
<1>1. LogInv => QuietIsDurable
  <2> SUFFICES ASSUME LogInv, Running, outstanding = 0, ~committing
               PROVE  Recovered = Visible /\ lh = <<>> /\ hdr = <<>> /\ pinned = {}
    BY DEF QuietIsDurable
  <2>1. InOp = {} /\ phase = "none"
    BY InOpFinite DEF LogInv, Counting, TypeOK, Running, Phases
  <2>2. lh = <<>> /\ hdr = <<>>
    BY <2>1 DEF LogInv, Counting, Headers
  <2>3. Entries(lh) = {} /\ Entries(hdr) = {}
    BY <2>2 DEF Entries
  <2>4. pinned = {}
    BY <2>1, <2>3 DEF LogInv, Pinning
  <2>5. \A p \in Proc : buf[p] = NoBlock
    BY <2>1 DEF LogInv, Holding, InOp
  <2>6. \A b \in Block : Contents(b) = disk[b]
    BY <2>4, <2>5, LogConstants DEF LogInv, Caching, Contents
  <2>7. Recovered = Visible
    BY <2>1, <2>3, <2>6 DEF Recovered, Visible, RecoveryPhases
  <2> QED
    BY <2>2, <2>4, <2>7
<1> QED
  BY <1>1, LogInvariant, PTL

(* A process asleep in begin_op() waits for a commit under way or for a    *)
(* call in progress, either of which will wake it.                         *)
THEOREM NoStrandedSleeper == Spec => []SleeperWillBeWoken
<1>1. LogInv => SleeperWillBeWoken
  <2> SUFFICES ASSUME LogInv, NEW p \in Proc, Running, pc[p] = "asleep", ~committing
               PROVE  LogFull /\ InOp # {}
    BY DEF SleeperWillBeWoken
  <2>1. LogFull /\ phase = "none"
    BY DEF LogInv, Sleeping, Counting, TypeOK, Running, Phases
  <2>2. ASSUME InOp = {} PROVE FALSE
    <3>1. Len(lh) = 0 /\ outstanding = 0
      BY <2>1, <2>2, InOpFinite DEF LogInv, Counting
    <3> QED
      BY <2>1, <3>1, LogConstants DEF LogFull
  <2> QED
    BY <2>1, <2>2
<1> QED
  BY <1>1, LogInvariant, PTL

-----------------------------------------------------------------------------
(* Log implements AtomicLog.  Each lemma says which abstract step a group  *)
(* of actions takes.                                                       *)

AbsStutter == Recovered' = Recovered /\ Visible' = Visible /\ InOp' = InOp

LEMMA RecoveredKept ==
  ASSUME UNCHANGED <<disk, logblk, hdr>> PROVE Recovered' = Recovered
BY DEF Recovered

LEMMA VisibleKept ==
  ASSUME UNCHANGED <<disk, cache>>, phase \notin RecoveryPhases,
         phase' \notin RecoveryPhases
  PROVE  Visible' = Visible
BY DEF Visible, Contents

(* One iteration of install_trans() leaves the recovered disk as it was:   *)
(* the block it overwrites is one the header sends to the log.             *)
LEMMA InstallKeepsRecovered ==
  ASSUME LogInv, InstallBlock, hdr = lh, UNCHANGED <<logblk, hdr>>
  PROVE  Recovered' = Recovered
<1>1. lh[tail + 1] \in Entries(hdr)
  BY DEF LogInv, TypeOK, InstallBlock, Entries
<1>2. \A b \in Block : b \notin Entries(hdr) => disk'[b] = disk[b]
  BY <1>1 DEF InstallBlock, LogInv, TypeOK
<1> QED
  BY <1>2 DEF Recovered

(* When all entries are at home, the recovered disk is the disk.           *)
LEMMA InstalledIsRecovered ==
  ASSUME LogInv, phase \in {"erase", "r_clear"}
  PROVE  Recovered = [b \in Block |-> disk[b]]
<1>1. hdr = lh /\ tail = Len(lh)
  BY DEF LogInv, Headers
<1>2. ASSUME NEW b \in Block PROVE Recovered[b] = disk[b]
  <2>1. CASE b \in Entries(hdr)
    <3>1. PICK i \in 1 .. Len(hdr) : b = hdr[i]
      BY <2>1 DEF Entries
    <3>2. disk[lh[i]] = logblk[i]
      BY <1>1 DEF LogInv, Logging
    <3> QED
      BY <1>1, <3>1, <3>2, RecoveredLogged DEF LogInv
  <2>2. CASE b \notin Entries(hdr)
    BY <2>2, RecoveredHome
  <2> QED
    BY <2>1, <2>2
<1> QED
  BY <1>2 DEF Recovered

LEMMA AbsRecovery == ASSUME LogInv, Recovery PROVE AbsStutter
<1> USE DEF RecoveryPhases
<1>1. InOp' = InOp
  BY DEF Recovery, read_head, RecoverInstall, RecoverInstalled, RecoverClear, InOp
<1>2. CASE read_head \/ RecoverInstalled
  <2>1. Recovered' = Recovered
    BY <1>2, RecoveredKept DEF read_head, RecoverInstalled
  <2> QED
    BY <1>1, <1>2, <2>1 DEF read_head, RecoverInstalled, Visible, AbsStutter
<1>3. CASE RecoverInstall
  <2>1. Recovered' = Recovered
    BY <1>3, InstallKeepsRecovered DEF RecoverInstall, LogInv, Headers
  <2> QED
    BY <1>1, <1>3, <2>1 DEF RecoverInstall, Visible, AbsStutter
<1>4. CASE RecoverClear
  <2>1. Recovered = [b \in Block |-> disk[b]]
    BY <1>4, InstalledIsRecovered DEF RecoverClear
  <2>2. hdr' = <<>> /\ disk' = disk /\ cache' = cache /\ phase' = "none"
    BY <1>4 DEF RecoverClear
  <2>3. Entries(hdr') = {}
    BY <2>2 DEF Entries
  <2>4. Recovered' = [b \in Block |-> disk[b]]
    BY <2>2, <2>3 DEF Recovered
  <2>5. \A p \in Proc : buf[p] = NoBlock
    BY <1>4 DEF RecoverClear, LogInv, Counting, Holding
  <2>6. pinned = {}
    BY <1>4 DEF RecoverClear, LogInv, Pinning
  <2>7. \A b \in Block : Contents(b) = disk[b]
    BY <2>5, <2>6, LogConstants DEF LogInv, Caching, Contents
  <2>8. Visible = [b \in Block |-> disk[b]]
    BY <1>4, <2>1 DEF RecoverClear, Visible
  <2>9. Visible' = [b \in Block |-> disk[b]]
    BY <2>2, <2>7 DEF Visible, Contents
  <2> QED
    BY <1>1, <2>1, <2>4, <2>8, <2>9 DEF AbsStutter
<1> QED
  BY <1>2, <1>3, <1>4 DEF Recovery

(* What a process does between its disk writes.                            *)
LEMMA AbsProc ==
  ASSUME LogInv, NEW p \in Proc, ProcNext(p)
  PROVE  \/ AbsStutter
         \/ Atomic!Begin(p)
         \/ Atomic!End(p)
         \/ \E b \in Block, v \in Value : Atomic!Write(p, b, v)
<1> USE DEF Running, RecoveryPhases, CommitPhases
<1>1. CASE Call(p) \/ brelse(p) \/ CommitDone(p)
  <2>1. Recovered' = Recovered
    BY <1>1, RecoveredKept DEF Call, brelse, CommitDone
  <2>2. Visible' = Visible
    BY <1>1, VisibleKept DEF Call, brelse, CommitDone
  <2>3. InOp' = InOp
    BY <1>1 DEF Call, brelse, CommitDone, InOp, Woken, LogInv, TypeOK
  <2> QED
    BY <2>1, <2>2, <2>3 DEF AbsStutter
<1>2. CASE begin_op(p)
  <2>1. Recovered' = Recovered
    BY <1>2, RecoveredKept DEF begin_op
  <2>2. Visible' = Visible
    BY <1>2, VisibleKept DEF begin_op
  <2>3. InOp' = InOp \/ InOp' = InOp \cup {p}
    BY <1>2 DEF begin_op, InOp, LogInv, TypeOK
  <2> QED
    BY <2>1, <2>2, <2>3 DEF AbsStutter, Atomic!Begin
<1>3. CASE end_op(p)
  <2>0. phase = "none" /\ ~committing
    BY <1>3, CallerPhase DEF end_op, InOp
  <2>1. Recovered' = Recovered
    BY <1>3, RecoveredKept DEF end_op
  <2>2. phase' \notin RecoveryPhases
    BY <1>3, <2>0 DEF end_op
  <2>3. Visible' = Visible
    BY <1>3, <2>0, <2>2, VisibleKept DEF end_op
  <2>4. InOp' = InOp \ {p}
    BY <1>3, <2>0 DEF end_op, Woken, InOp, LogInv, TypeOK
  <2> QED
    BY <2>1, <2>3, <2>4 DEF Atomic!End
<1>4. CASE log_write(p)
  <2>0. phase = "none"
    BY <1>4, CallerPhase DEF log_write, InOp
  <2>1. Recovered' = Recovered
    BY <1>4, RecoveredKept DEF log_write
  <2>2. Visible' = Visible
    BY <1>4, <2>0, VisibleKept DEF log_write
  <2>3. InOp' = InOp
    BY <1>4 DEF log_write, InOp, LogInv, TypeOK
  <2> QED
    BY <2>1, <2>2, <2>3 DEF AbsStutter
<1>5. ASSUME NEW b \in Block, NEW v \in Value, Modify(p, b, v)
      PROVE  Atomic!Write(p, b, v)
  <2>0. phase = "none" /\ p \in InOp
    BY <1>5, CallerPhase DEF Modify, InOp
  <2>1. Recovered' = Recovered
    <3>1. UNCHANGED <<disk, logblk, hdr>>
      BY <1>5 DEF Modify
    <3> QED
      BY <3>1, RecoveredKept
  <2>2. InOp' = InOp
    BY <1>5 DEF Modify, InOp, LogInv, TypeOK
  <2>3. Visible = [c \in Block |-> Contents(c)] /\ Visible' = [c \in Block |-> Contents(c)']
    <3>1. phase \notin RecoveryPhases /\ phase' \notin RecoveryPhases
      BY <1>5, <2>0 DEF Modify
    <3> QED
      BY <3>1 DEF Visible
  <2>4. \A c \in Block : Contents(c)' = IF c = b THEN v ELSE Contents(c)
    BY <1>5, LogConstants DEF Modify, Contents, LogInv, TypeOK
  <2>5. Visible' = [Visible EXCEPT ![b] = v]
    BY <2>3, <2>4
  <2> QED
    BY <2>0, <2>1, <2>2, <2>5 DEF Atomic!Write
<1> QED
  BY <1>1, <1>2, <1>3, <1>4, <1>5 DEF ProcNext

(* commit(): only the header write shows, and it is the abstract Commit.   *)
LEMMA AbsCommit == ASSUME LogInv, CommitNext PROVE AbsStutter \/ Atomic!Commit
<1> USE DEF RecoveryPhases
<1>0. InOp' = InOp
  BY DEF CommitNext, write_log, write_head, install_trans, Installed, EraseHead, InOp
<1>1. CASE write_log
  <2>1. hdr = <<>> /\ hdr' = hdr /\ disk' = disk
    BY <1>1 DEF write_log, LogInv, Headers
  <2>2. Entries(hdr) = {} /\ Entries(hdr') = {}
    BY <2>1 DEF Entries
  <2>3. Recovered' = Recovered
    BY <2>1, <2>2 DEF Recovered
  <2>4. cache' = cache
    <3>1. CASE tail < Len(lh)
      <4>0. tail + 1 \in 1 .. Len(lh) /\ lh[tail + 1] \in Block
        BY <3>1 DEF LogInv, TypeOK
      <4>a. pinned = Entries(lh)
        BY <1>1 DEF write_log, LogInv, Pinning
      <4>1. lh[tail + 1] \in Block /\ lh[tail + 1] \in pinned
        BY <4>0, <4>a DEF Entries
      <4>2. Contents(lh[tail + 1]) = cache[lh[tail + 1]]
        BY <4>1, LogConstants DEF LogInv, Caching, Contents
      <4> QED
        BY <1>1, <3>1, <4>1, <4>2 DEF write_log, LogInv, TypeOK
    <3>2. CASE ~(tail < Len(lh))
      BY <1>1, <3>2 DEF write_log
    <3> QED
      BY <3>1, <3>2
  <2>5. Visible' = Visible
    BY <1>1, <2>1, <2>4, VisibleKept DEF write_log
  <2> QED
    BY <1>0, <2>3, <2>5 DEF AbsStutter
<1>2. CASE write_head
  <2>1. InOp = {} /\ \A p \in Proc : buf[p] = NoBlock
    BY <1>2 DEF write_head, LogInv, Counting, Holding, CommitPhases
  <2>2. Visible' = Visible
    BY <1>2, VisibleKept DEF write_head
  <2>3. Visible = [b \in Block |-> Contents(b)]
    BY <1>2 DEF write_head, Visible
  <2>4. hdr' = lh /\ disk' = disk /\ logblk' = logblk /\ pinned = Entries(lh)
    BY <1>2 DEF write_head, LogInv, Pinning
  <2>5. TypeOK' /\ Headers'
    BY <1>2, StepWriteHead DEF LogInv
  <2>6. ASSUME NEW b \in Block PROVE Recovered'[b] = Contents(b)
    <3>1. CASE b \in Entries(lh)
      <4>1. PICK i \in 1 .. Len(lh) : b = lh[i]
        BY <3>1 DEF Entries
      <4>2. logblk[i] = cache[b] /\ cache[b] \in Value
        BY <1>2, <2>4, <3>1, <4>1 DEF write_head, LogInv, Logging, Headers, Caching
      <4>3. i = CHOOSE j \in 1 .. Len(hdr') : hdr'[j] = b
        BY <2>4, <4>1 DEF LogInv, Headers, NoDup
      <4> QED
        BY <2>4, <3>1, <4>2, <4>3, LogConstants DEF Recovered, Contents
    <3>2. CASE b \notin Entries(lh)
      <4>1. cache[b] \in {NoBuf, disk[b]}
        BY <2>1, <2>4, <3>2, LogConstants DEF LogInv, Caching
      <4> QED
        BY <2>4, <3>2, <4>1 DEF Recovered, Contents
    <3> QED
      BY <3>1, <3>2
  <2>7. Recovered' = Visible
    BY ZenonT(30), <2>3, <2>6 DEF Recovered
  <2> QED
    BY <1>0, <2>1, <2>2, <2>7 DEF Atomic!Commit
<1>3. CASE install_trans
  <2>1. Recovered' = Recovered
    BY <1>3, InstallKeepsRecovered DEF install_trans, LogInv, Headers
  <2>2. /\ lh[tail + 1] \in Block /\ logblk[tail + 1] = cache[lh[tail + 1]]
        /\ lh[tail + 1] \in pinned
    <3>1. phase = "install" /\ tail + 1 \in tail + 1 .. Len(lh) /\ lh[tail + 1] \in Block
      BY <1>3 DEF install_trans, InstallBlock, LogInv, TypeOK
    <3>2. pinned = {lh[i] : i \in tail + 1 .. Len(lh)}
      BY <3>1 DEF LogInv, Pinning
    <3>3. logblk[tail + 1] = cache[lh[tail + 1]]
      BY <3>1 DEF LogInv, Logging
    <3> QED
      BY <3>1, <3>2, <3>3
  <2>3. logblk[tail + 1] \in Value
    BY <2>2 DEF LogInv, Caching
  <2>4. \A b \in Block : Contents(b)' = Contents(b)
    BY <1>3, <2>2, <2>3, LogConstants
    DEF install_trans, InstallBlock, Contents, LogInv, TypeOK
  <2>5. Visible' = Visible
    BY <1>3, <2>4 DEF install_trans, Visible
  <2> QED
    BY <1>0, <2>1, <2>5 DEF AbsStutter
<1>4. CASE Installed
  <2>1. Recovered' = Recovered
    BY <1>4, RecoveredKept DEF Installed
  <2> QED
    BY <1>0, <1>4, <2>1, VisibleKept DEF Installed, AbsStutter
<1>5. CASE EraseHead
  <2>1. Recovered = [b \in Block |-> disk[b]]
    BY <1>5, InstalledIsRecovered DEF EraseHead
  <2>2. hdr' = <<>> /\ disk' = disk
    BY <1>5 DEF EraseHead
  <2>3. Entries(hdr') = {}
    BY <2>2 DEF Entries
  <2>4. Recovered' = Recovered
    BY ZenonT(30), <2>1, <2>2, <2>3 DEF Recovered
  <2> QED
    BY <1>0, <1>5, <2>4, VisibleKept DEF EraseHead, AbsStutter
<1> QED
  BY <1>1, <1>2, <1>3, <1>4, <1>5 DEF CommitNext

LEMMA AbsCache ==
  ASSUME LogInv, NEW b \in Block, Fill(b) \/ Recycle(b) PROVE AbsStutter
<1>1. Recovered' = Recovered /\ InOp' = InOp
  BY RecoveredKept DEF Fill, Recycle, InOp
<1>2. phase \notin RecoveryPhases /\ phase' = phase /\ disk' = disk
  BY DEF Fill, Recycle, Running
<1>3. \A c \in Block : Contents(c)' = Contents(c)
  <2>1. CASE Fill(b)
    BY <2>1 DEF Fill, Contents, LogInv, TypeOK
  <2>2. CASE Recycle(b)
    <3>1. cache[b] = disk[b]
      <4>1. b \notin pinned /\ (\A p \in Proc : buf[p] # b) /\ cache[b] # NoBuf
        BY <2>2 DEF Recycle
      <4> QED
        BY <4>1 DEF LogInv, Caching
    <3> QED
      BY <2>2, <3>1 DEF Recycle, Contents, LogInv, TypeOK
  <2> QED
    BY <2>1, <2>2
<1>4. Visible' = Visible
  BY <1>2, <1>3 DEF Visible
<1> QED
  BY <1>1, <1>4 DEF AbsStutter

(* A power failure loses what was not committed, and nothing else.         *)
LEMMA AbsCrash == ASSUME LogInv, Crash PROVE Atomic!PowerFail
<1>1. InOp' = {} /\ phase' \in RecoveryPhases
  BY DEF Crash, Reboot, InOp, RecoveryPhases
<1>2. Recovered' = Recovered
  <2>1. CASE UNCHANGED <<disk, logblk>>
    BY <2>1, RecoveredKept DEF Crash
  <2>2. CASE TornHome /\ disk' = [disk EXCEPT ![lh[tail + 1]] = Torn] /\ UNCHANGED logblk
    <3>1. lh[tail + 1] \in Entries(hdr)
      BY <2>2 DEF TornHome, LogInv, TypeOK, Headers, Entries
    <3>2. \A b \in Block : b \notin Entries(hdr) => disk'[b] = disk[b]
      BY <2>2, <3>1 DEF LogInv, TypeOK
    <3> QED
      BY <2>2, <3>2 DEF Crash, Recovered
  <2>3. CASE TornLog /\ logblk' = [logblk EXCEPT ![tail + 1] = Torn] /\ UNCHANGED disk
    <3>1. hdr = <<>> /\ hdr' = hdr
      BY <2>3 DEF Crash, TornLog, LogInv, Headers
    <3>2. Entries(hdr) = {} /\ Entries(hdr') = {}
      BY <3>1 DEF Entries
    <3> QED
      BY <2>3, <3>2 DEF Recovered
  <2> QED
    BY <2>1, <2>2, <2>3 DEF Crash
<1>3. Visible' = Recovered
  BY <1>1, <1>2 DEF Visible
<1> QED
  BY <1>1, <1>2, <1>3 DEF Atomic!PowerFail

(* The write-ahead log implements the atomic one: for every number of      *)
(* calls, blocks and log entries, and power failures at every point, the   *)
(* recovered disk changes only at the header write of commit(), with no    *)
(* call in progress, and then takes all the writes of the finished calls.  *)
THEOREM LogIsAtomic == Spec => AtomicSpec
<1>1. Init => Atomic!AInit
  <2> SUFFICES ASSUME Init PROVE Atomic!AInit
    OBVIOUS
  <2>1. Entries(hdr) = {}
    BY DEF Init, Entries
  <2>2. Recovered = [b \in Block |-> InitValue]
    BY <2>1 DEF Init, Recovered
  <2>3. Visible = Recovered /\ InOp = {}
    BY DEF Init, Visible, RecoveryPhases, InOp
  <2> QED
    BY <2>2, <2>3 DEF Atomic!AInit
<1>2. LogInv /\ [Next]_vars => [Atomic!ANext]_(Atomic!avars)
  <2> SUFFICES ASSUME LogInv, [Next]_vars
               PROVE  Atomic!ANext \/ AbsStutter
    BY DEF AbsStutter, Atomic!avars
  <2>1. CASE Recovery
    BY <2>1, AbsRecovery
  <2>2. ASSUME NEW p \in Proc, ProcNext(p) PROVE Atomic!ANext \/ AbsStutter
    BY <2>2, AbsProc DEF Atomic!ANext
  <2>3. CASE CommitNext
    BY <2>3, AbsCommit DEF Atomic!ANext
  <2>4. ASSUME NEW b \in Block, Fill(b) \/ Recycle(b) PROVE AbsStutter
    BY <2>4, AbsCache
  <2>5. CASE Crash
    BY <2>5, AbsCrash DEF Atomic!ANext
  <2>6. CASE UNCHANGED vars
    <3>1. Recovered' = Recovered /\ InOp' = InOp
      BY <2>6, RecoveredKept DEF vars, InOp
    <3>2. Visible' = Visible
      BY <2>6, <3>1 DEF vars, Visible, Contents
    <3> QED
      BY <3>1, <3>2 DEF AbsStutter
  <2> QED
    BY <2>1, <2>2, <2>3, <2>4, <2>5, <2>6 DEF Next
<1> QED
  BY <1>1, <1>2, LogInvariant, PTL DEF Spec, AtomicSpec, Atomic!ASpec
=============================================================================
