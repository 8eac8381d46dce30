-------------------------- MODULE LogCommitProofs ---------------------------
(***************************************************************************)
(* Every state after a step of commit(), of the buffer cache or of a power *)
(* failure satisfies LogInv, and a stuttering step keeps it.               *)
(***************************************************************************)
EXTENDS LogCallProofs

USE DEF diskVars, cacheVars, logVars, commitVars, procVars

LEMMA StepWriteLog == ASSUME LogInv, write_log PROVE LogInv'
<1> USE LogConstants
    DEF LogInv, TypeOK, write_log, Phases, RecoveryPhases, CommitPhases, PCs, Slot
<1>0. committing /\ \A p \in Proc : buf[p] = NoBlock
  BY DEF Counting, Holding
<1>1. Counting' /\ Holding'
  BY <1>0 DEF Counting, InOp, Holding
<1>2. Sleeping'
  BY <1>0 DEF Sleeping
<1>3. CASE tail < Len(lh)
  <2> DEFINE b0 == lh[tail + 1]
  <2>1. b0 \in Block /\ b0 \in pinned /\ tail + 1 \in Slot /\ tail + 1 \in 1 .. Len(lh)
    BY <1>3 DEF Pinning, Entries
  <2>2. cache[b0] \in Value /\ Contents(b0) = cache[b0]
    BY <2>1 DEF Caching, Contents
  <2>3. /\ cache' = cache /\ tail' = tail + 1 /\ phase' = phase
        /\ logblk' = [logblk EXCEPT ![tail + 1] = cache[b0]]
    BY <1>3, <2>1, <2>2
  <2>4. TypeOK'
    BY <1>3, <2>1, <2>2, <2>3
  <2>5. Headers' /\ Pinning'
    BY <2>3 DEF Headers, Pinning
  <2>6. Caching'
    BY <2>3 DEF Caching
  <2>7. Logging'
    BY <2>1, <2>3 DEF Logging, Headers
  <2> QED
    BY <1>1, <1>2, <2>4, <2>5, <2>6, <2>7
<1>4. CASE ~(tail < Len(lh))
  <2>1. cache' = cache /\ tail' = tail /\ phase' = "write_head" /\ logblk' = logblk
    BY <1>4
  <2>2. tail = Len(lh)
    BY <1>4
  <2>3. TypeOK' /\ Headers' /\ Pinning'
    BY <2>1, <2>2 DEF Headers, Pinning
  <2>4. Caching' /\ Logging'
    BY <2>1 DEF Caching, Logging
  <2> QED
    BY <1>1, <1>2, <2>3, <2>4
<1> QED
  BY <1>3, <1>4

LEMMA StepWriteHead == ASSUME LogInv, write_head PROVE LogInv'
<1> USE LogConstants
    DEF LogInv, TypeOK, write_head, Phases, RecoveryPhases, CommitPhases, PCs, Slot
<1>0. committing /\ \A p \in Proc : buf[p] = NoBlock
  BY DEF Counting, Holding
<1>1. TypeOK' /\ Headers'
  BY DEF Headers
<1>2. Counting' /\ Holding' /\ Sleeping'
  BY <1>0 DEF Counting, InOp, Holding, Sleeping
<1>3. Pinning' /\ Caching'
  <2>1. pinned = Entries(lh)
    BY DEF Pinning
  <2>2. Pinning'
    <3>1. phase' = "install" /\ pinned' = Entries(lh) /\ lh' = lh /\ tail' = 0
      BY <2>1
    <3>2. Entries(lh) = {lh[i] : i \in 0 + 1 .. Len(lh)}
      BY DEF Entries
    <3> QED
      BY <3>1, <3>2 DEF Pinning
  <2> QED
    BY <2>2 DEF Caching
<1>4. Logging'
  <2>1. \A i \in 1 .. Len(lh) : logblk[i] = cache[lh[i]] /\ lh[i] \in pinned
    BY DEF Logging, Headers, Pinning, Entries
  <2>2. \A i \in 1 .. Len(lh) : logblk[i] \in Value
    BY <2>1 DEF Caching
  <2> QED
    BY <2>1, <2>2 DEF Logging, Headers, Entries
<1> QED
  BY <1>1, <1>2, <1>3, <1>4

LEMMA StepInstall == ASSUME LogInv, install_trans PROVE LogInv'
<1> USE LogConstants
    DEF LogInv, TypeOK, install_trans, InstallBlock, Phases, RecoveryPhases,
        CommitPhases, PCs, Slot
<1> DEFINE b0 == lh[tail + 1]
<1>0. /\ committing /\ \A p \in Proc : buf[p] = NoBlock
      /\ b0 \in Block /\ tail + 1 \in 1 .. Len(lh) /\ hdr = lh
  BY DEF Counting, Holding, Headers
<1>1. TypeOK'
  BY <1>0
<1>2. Counting' /\ Headers'
  BY DEF Counting, InOp, Headers, NoDup
<1>3. Holding' /\ Sleeping'
  BY <1>0 DEF Holding, Sleeping
<1>4. Pinning'
  <2>1. pinned = {lh[i] : i \in tail + 1 .. Len(lh)}
    BY DEF Pinning
  <2>2. \A i \in tail + 2 .. Len(lh) : lh[i] # b0
    BY <1>0 DEF Headers, NoDup
  <2>3. pinned' = {lh[i] : i \in tail + 2 .. Len(lh)}
    BY <1>0, <2>1, <2>2
  <2> QED
    BY <2>3 DEF Pinning
<1>5. Caching'
  <2>1. b0 \notin pinned' /\ cache'[b0] = disk'[b0]
    BY <1>0
  <2>2. ASSUME NEW b \in Block, b # b0
        PROVE  /\ b \in pinned' <=> b \in pinned
               /\ cache'[b] = cache[b] /\ disk'[b] = disk[b]
    BY <2>2
  <2>3. \A p \in Proc : buf'[p] = NoBlock
    BY <1>0
  <2> QED
    BY <1>0, <2>1, <2>2, <2>3 DEF Caching
<1>6. Logging'
  <2>1. \A i \in 1 .. tail + 1 : disk'[lh[i]] = logblk[i]
    BY <1>0 DEF Logging, Headers, NoDup
  <2>2. \A b \in Block : b \notin Entries(hdr) => disk'[b] \in Value
    BY <1>0 DEF Logging, Entries
  <2>3. \A i \in tail + 2 .. Len(lh) : logblk[i] = cache'[lh[i]]
    BY <1>0 DEF Logging, Headers, NoDup
  <2> QED
    BY <1>0, <2>1, <2>2, <2>3 DEF Logging
<1> QED
  BY <1>1, <1>2, <1>3, <1>4, <1>5, <1>6

LEMMA StepInstalled == ASSUME LogInv, Installed PROVE LogInv'
<1> USE LogConstants
    DEF LogInv, TypeOK, Installed, Phases, RecoveryPhases, CommitPhases, PCs, Slot
<1>1. TypeOK' /\ Counting' /\ Headers'
  BY DEF Counting, InOp, Headers, NoDup
<1>2. Holding' /\ Sleeping'
  BY DEF Holding, Sleeping, LogFull
<1>3. Pinning' /\ Caching'
  BY DEF Pinning, Caching
<1>4. Logging'
  BY DEF Logging
<1> QED
  BY <1>1, <1>2, <1>3, <1>4

LEMMA StepEraseHead == ASSUME LogInv, EraseHead PROVE LogInv'
<1> USE LogConstants
    DEF LogInv, TypeOK, EraseHead, Phases, RecoveryPhases, CommitPhases, PCs, Slot
<1>0. committing /\ \A p \in Proc : buf[p] = NoBlock /\ pc[p] # "logged"
  BY DEF Counting, Holding
<1>1. TypeOK' /\ Counting' /\ Headers'
  BY DEF Counting, InOp, Headers, NoDup
<1>2. Holding' /\ Sleeping'
  BY <1>0 DEF Holding, Sleeping
<1>3. Pinning' /\ Caching'
  BY DEF Pinning, Caching
<1>4. Logging'
  <2>1. \A b \in Block : disk[b] \in Value
    BY DEF Logging, Headers, Entries
  <2> QED
    BY <2>1 DEF Logging
<1> QED
  BY <1>1, <1>2, <1>3, <1>4

LEMMA StepCommitDone == ASSUME LogInv, NEW p \in Proc, CommitDone(p) PROVE LogInv'
<1> USE LogConstants
    DEF LogInv, TypeOK, CommitDone, Phases, RecoveryPhases, CommitPhases, PCs, Slot
<1>1. \A q \in Proc : pc'[q] = IF q = p THEN "idle"
                               ELSE IF pc[q] = "asleep" THEN "begin" ELSE pc[q]
  BY DEF Woken
<1>2. TypeOK'
  BY DEF Woken
<1>3. InOp' = InOp
  BY <1>1 DEF InOp
<1>4. Counting'
  BY <1>3 DEF Counting, Headers
<1>5. Headers'
  BY DEF Headers
<1>6. Holding'
  BY <1>1 DEF Holding
<1>7. Pinning'
  BY DEF Pinning, Headers, Entries
<1>8. Caching' /\ Logging'
  BY DEF Caching, Logging
<1>9. \A q \in Proc : pc'[q] # "asleep"
  BY <1>1
<1> HIDE DEF LogInv, TypeOK, CommitDone, Phases, RecoveryPhases, CommitPhases, PCs, Slot
<1>10. Sleeping'
  BY <1>9 DEF Sleeping
<1> QED
  BY <1>2, <1>4, <1>5, <1>6, <1>7, <1>8, <1>10 DEF LogInv

LEMMA StepFill == ASSUME LogInv, NEW b \in Block, Fill(b) PROVE LogInv'
<1> USE LogConstants
    DEF LogInv, TypeOK, Fill, Running, Phases, RecoveryPhases, CommitPhases, PCs
<1>0. b \notin pinned
  BY DEF Caching
<1>1. TypeOK' /\ Counting' /\ Headers'
  BY DEF Counting, InOp, Headers
<1>2. Holding'
  BY DEF Holding
<1>3. Sleeping'
  BY DEF Sleeping, LogFull
<1>4. Pinning'
  BY DEF Pinning
<1>5. Caching'
  BY DEF Caching
<1>6. Logging'
  BY <1>0 DEF Logging, Pinning, Entries
<1> QED
  BY <1>1, <1>2, <1>3, <1>4, <1>5, <1>6

LEMMA StepRecycle == ASSUME LogInv, NEW b \in Block, Recycle(b) PROVE LogInv'
<1> USE LogConstants
    DEF LogInv, TypeOK, Recycle, Running, Phases, RecoveryPhases, CommitPhases, PCs
<1>1. TypeOK' /\ Counting' /\ Headers'
  BY DEF Counting, InOp, Headers
<1>2. Holding'
  BY DEF Holding
<1>3. Sleeping'
  BY DEF Sleeping, LogFull
<1>4. Pinning'
  BY DEF Pinning
<1>5. Caching'
  BY DEF Caching
<1>6. Logging'
  BY DEF Logging, Pinning, Entries
<1> QED
  BY <1>1, <1>2, <1>3, <1>4, <1>5, <1>6

LEMMA StepCrash == ASSUME LogInv, Crash PROVE LogInv'
<1> USE LogConstants
    DEF LogInv, TypeOK, Crash, Reboot, Phases, RecoveryPhases, CommitPhases, PCs, Slot
<1>1. /\ disk' \in [Block -> Value \cup {Torn}]
      /\ logblk' \in [Slot -> Value \cup {Torn}]
      /\ \A i \in 1 .. Len(hdr) : logblk'[i] \in Value
      /\ \A b \in Block : b \notin Entries(hdr) => disk'[b] \in Value
  <2>1. CASE UNCHANGED <<disk, logblk>>
    BY <2>1 DEF Logging
  <2>2. CASE TornHome /\ disk' = [disk EXCEPT ![lh[tail + 1]] = Torn] /\ UNCHANGED logblk
    <3>1. hdr = lh /\ tail + 1 \in 1 .. Len(lh) /\ lh[tail + 1] \in Block
      BY <2>2 DEF TornHome, Headers
    <3> QED
      BY <2>2, <3>1 DEF Logging, Entries
  <2>3. CASE TornLog /\ logblk' = [logblk EXCEPT ![tail + 1] = Torn] /\ UNCHANGED disk
    <3>1. hdr = <<>>
      BY <2>3 DEF TornLog, Headers
    <3>2. logblk' \in [Slot -> Value \cup {Torn}]
      BY ZenonT(30), <2>3
    <3>3. \A i \in 1 .. Len(hdr) : FALSE
      BY <3>1
    <3>4. Entries(hdr) = {}
      BY <3>3 DEF Entries
    <3>5. \A b \in Block : disk'[b] \in Value
      BY <2>3, <3>4 DEF Logging
    <3> QED
      BY <2>3, <3>2, <3>3, <3>5
  <2> QED
    BY <2>1, <2>2, <2>3
<1>2. TypeOK'
  <2>1. /\ cache' \in [Block -> Value \cup {NoBuf, Torn}]
        /\ pc' \in [Proc -> PCs]
        /\ buf' \in [Proc -> Block \cup {NoBlock}]
        /\ wrote' \in [Proc -> SUBSET Block]
    OBVIOUS
  <2>2. lh' \in Seq(Block) /\ Len(lh') = 0
    OBVIOUS
  <2>3. committing' \in BOOLEAN
    BY Zenon
  <2> QED
    BY <1>1, <2>1, <2>2, <2>3
<1>3. Counting'
  <2>1. InOp' = {}
    BY DEF InOp
  <2> QED
    BY <2>1, FS_EmptySet DEF Counting
<1>4. Headers' /\ Holding' /\ Pinning' /\ Sleeping'
  BY DEF Headers, NoDup, Holding, Pinning, Sleeping
<1>5. Caching'
  BY SMTT(30) DEF Caching
<1>6. Logging'
  BY ZenonT(30), <1>1 DEF Logging
<1> QED
  BY SMTT(30), <1>2, <1>3, <1>4, <1>5, <1>6

LEMMA StepStutter == ASSUME LogInv, UNCHANGED vars PROVE LogInv'
<1> USE DEF LogInv, vars
<1>1. TypeOK' /\ Counting' /\ Headers'
  BY DEF TypeOK, Counting, InOp, Headers
<1>2. Holding' /\ Pinning' /\ Caching'
  BY DEF Holding, Pinning, Caching
<1>3. Logging' /\ Sleeping'
  BY DEF Logging, Sleeping, LogFull
<1> QED
  BY <1>1, <1>2, <1>3

=============================================================================
