--------------------------- MODULE LogCallProofs ----------------------------
(***************************************************************************)
(* The initial state satisfies LogInv, and so does every state after a step*)
(* of recovery or of a system call: begin_op(), log_write(), brelse(),     *)
(* end_op().  LogCommitProofs does the same for the other steps.           *)
(***************************************************************************)
EXTENDS Log, FiniteSetTheorems, TLAPS

(* The number of calls in progress, as begin_op() and end_op() change it.  *)
LEMMA InOpFinite ==
  /\ IsFiniteSet(InOp)
  /\ Cardinality(InOp) \in Nat
  /\ Cardinality(InOp) = 0 <=> InOp = {}
<1>1. InOp \in SUBSET Proc
  BY DEF InOp
<1>2. IsFiniteSet(InOp)
  BY <1>1, FS_Subset, LogConstants
<1> QED
  BY <1>2, FS_CardinalityType, FS_EmptySet

LEMMA InOpJoins ==
  ASSUME NEW p \in Proc, p \notin InOp, InOp' = InOp \cup {p}
  PROVE  Cardinality(InOp') = Cardinality(InOp) + 1
BY InOpFinite, FS_AddElement

LEMMA InOpLeaves ==
  ASSUME NEW p \in Proc, p \in InOp, InOp' = InOp \ {p}
  PROVE  Cardinality(InOp') = Cardinality(InOp) - 1
BY InOpFinite, FS_RemoveElement

(* A process in a call excludes commit() and recovery.                     *)
LEMMA CallerPhase ==
  ASSUME LogInv, Running, NEW p \in Proc, p \in InOp
  PROVE  phase = "none" /\ ~committing /\ outstanding >= 1
<1>1. outstanding # 0
  BY InOpFinite DEF LogInv, Counting
<1> QED
  BY <1>1 DEF LogInv, Counting, TypeOK, Running, Phases

-----------------------------------------------------------------------------
(* One lemma per action: it preserves LogInv.                              *)

USE DEF diskVars, cacheVars, logVars, commitVars, procVars

LEMMA InitInv == Init => LogInv
<1> SUFFICES ASSUME Init PROVE LogInv
  OBVIOUS
<1> USE LogConstants DEF Init, LogInv
<1>1. TypeOK
  <2>1. lh \in Seq(Block) /\ Len(lh) = 0 /\ hdr \in Seq(Block) /\ Len(hdr) = 0
    OBVIOUS
  <2>2. /\ disk \in [Block -> Value \cup {Torn}]
        /\ logblk \in [Slot -> Value \cup {Torn}]
        /\ cache \in [Block -> Value \cup {NoBuf, Torn}]
    OBVIOUS
  <2>3. /\ pc \in [Proc -> PCs]
        /\ buf \in [Proc -> Block \cup {NoBlock}]
        /\ wrote \in [Proc -> SUBSET Block]
    BY DEF PCs
  <2>4. Len(hdr) < nlog /\ Len(lh) < nlog /\ tail \in 0 .. Len(lh) /\ outstanding \in Nat
    BY <2>1
  <2>5. pinned \in SUBSET Block /\ committing \in BOOLEAN
    OBVIOUS
  <2>6. phase \in Phases
    BY DEF Phases, RecoveryPhases
  <2> QED
    BY <2>1, <2>2, <2>3, <2>4, <2>5, <2>6 DEF TypeOK
<1>2. Counting
  <2>1. InOp = {}
    BY DEF InOp
  <2> QED
    BY <2>1, FS_EmptySet DEF Counting, RecoveryPhases, CommitPhases
<1>3. Headers /\ Holding /\ Pinning /\ Sleeping
  BY DEF Headers, NoDup, Holding, Pinning, Sleeping, RecoveryPhases
<1>4. Caching /\ Logging
  BY DEF Caching, Logging, Entries
<1> QED
  BY <1>1, <1>2, <1>3, <1>4

LEMMA StepReadHead == ASSUME LogInv, read_head PROVE LogInv'
<1> USE LogConstants
    DEF LogInv, TypeOK, read_head, Phases, RecoveryPhases, CommitPhases, PCs, Slot
<1>1. TypeOK'
  OBVIOUS
<1>2. Counting'
  BY DEF Counting, InOp
<1>3. Headers'
  BY DEF Headers, NoDup
<1>4. Holding' /\ Sleeping'
  BY DEF Holding, Sleeping, Counting
<1>5. Pinning' /\ Caching'
  BY DEF Pinning, Caching
<1>6. Logging'
  BY DEF Logging, Entries
<1> QED
  BY <1>1, <1>2, <1>3, <1>4, <1>5, <1>6

LEMMA StepRecoverInstall == ASSUME LogInv, RecoverInstall PROVE LogInv'
<1> USE LogConstants
    DEF LogInv, TypeOK, RecoverInstall, InstallBlock, Phases, RecoveryPhases,
        CommitPhases, PCs, Slot
<1> DEFINE b0 == lh[tail + 1]
<1>0. b0 \in Block /\ tail + 1 \in 1 .. Len(lh) /\ hdr = lh
  BY DEF Headers
<1>1. TypeOK'
  OBVIOUS
<1>2. Counting' /\ Headers'
  BY DEF Counting, InOp, Headers, NoDup
<1>3. Holding' /\ Sleeping' /\ Pinning'
  BY DEF Holding, Sleeping, Counting, Pinning, Entries
<1>4. \A p \in Proc : buf[p] = NoBlock
  BY DEF Holding, Counting
<1>5. Caching'
  BY <1>0, <1>4 DEF Caching, Pinning
<1>6. Logging'
  <2>1. \A i \in 1 .. tail' : disk'[lh'[i]] = logblk'[i]
    BY <1>0 DEF Logging, Headers, NoDup
  <2>2. \A b \in Block : b \notin Entries(hdr') => disk'[b] \in Value
    BY <1>0 DEF Logging, Entries
  <2> QED
    BY <1>0, <2>1, <2>2 DEF Logging
<1> QED
  BY <1>1, <1>2, <1>3, <1>5, <1>6

LEMMA StepRecoverInstalled == ASSUME LogInv, RecoverInstalled PROVE LogInv'
<1> USE LogConstants
    DEF LogInv, TypeOK, RecoverInstalled, Phases, RecoveryPhases, CommitPhases,
        PCs, Slot
<1>1. TypeOK' /\ Counting' /\ Headers'
  BY DEF Counting, InOp, Headers, NoDup
<1>2. Holding' /\ Sleeping' /\ Pinning' /\ Caching'
  BY DEF Holding, Sleeping, LogFull, Pinning, Caching
<1>3. Logging'
  BY ZenonT(30) DEF Logging
<1> QED
  BY <1>1, <1>2, <1>3

LEMMA StepRecoverClear == ASSUME LogInv, RecoverClear PROVE LogInv'
<1> USE LogConstants
    DEF LogInv, TypeOK, RecoverClear, Phases, RecoveryPhases, CommitPhases, PCs, Slot
<1>1. TypeOK'
  OBVIOUS
<1>2. Counting'
  BY DEF Counting, InOp
<1>3. Headers'
  BY DEF Headers, NoDup
<1>4. Holding' /\ Sleeping'
  BY DEF Holding, Sleeping, Counting
<1>5. Pinning' /\ Caching'
  BY DEF Pinning, Caching, Entries
<1>6. Logging'
  <2>1. \A b \in Block : disk[b] \in Value
    BY DEF Logging, Headers, Entries
  <2> QED
    BY <2>1 DEF Logging
<1> QED
  BY <1>1, <1>2, <1>3, <1>4, <1>5, <1>6

LEMMA StepCall == ASSUME LogInv, NEW p \in Proc, Call(p) PROVE LogInv'
<1> USE LogConstants
    DEF LogInv, TypeOK, Call, Running, Phases, RecoveryPhases, CommitPhases, PCs
<1>1. TypeOK' /\ Headers' /\ Pinning' /\ Caching' /\ Logging'
  BY DEF Headers, Pinning, Caching, Logging
<1>2. InOp' = InOp
  BY DEF InOp
<1>3. Counting'
  BY <1>2 DEF Counting
<1>4. Holding'
  BY DEF Holding
<1>5. Sleeping'
  BY DEF Sleeping, LogFull
<1> QED
  BY <1>1, <1>3, <1>4, <1>5

LEMMA StepBeginOp == ASSUME LogInv, NEW p \in Proc, begin_op(p) PROVE LogInv'
<1> USE LogConstants
    DEF LogInv, TypeOK, begin_op, Running, Phases, RecoveryPhases, CommitPhases, PCs
<1>1. TypeOK'
  <2>1. pc' \in [Proc -> PCs] /\ outstanding' \in Nat
    OBVIOUS
  <2> QED
    BY <2>1
<1>2. Headers' /\ Pinning'
  BY DEF Headers, Pinning
<1>3. Caching' /\ Logging'
  BY DEF Caching, Logging
<1>4. Counting'
  <2>1. CASE committing \/ LogFull
    <3>1. InOp' = InOp
      BY <2>1 DEF InOp
    <3> QED
      BY <2>1, <3>1 DEF Counting
  <2>2. CASE ~(committing \/ LogFull)
    <3>1. p \notin InOp /\ InOp' = InOp \cup {p}
      BY <2>2 DEF InOp
    <3>2. Cardinality(InOp') = Cardinality(InOp) + 1
      BY ZenonT(30), <3>1, InOpJoins
    <3> QED
      BY <2>2, <3>1, <3>2 DEF Counting
  <2> QED
    BY <2>1, <2>2
<1>5. Holding'
  BY ZenonT(30) DEF Holding
<1>6. Sleeping'
  BY DEF Sleeping, LogFull
<1> QED
  BY <1>1, <1>2, <1>3, <1>4, <1>5, <1>6

LEMMA StepModify ==
  ASSUME LogInv, NEW p \in Proc, NEW b \in Block, NEW v \in Value, Modify(p, b, v)
  PROVE  LogInv'
<1> USE LogConstants
    DEF LogInv, TypeOK, Modify, Running, Phases, RecoveryPhases, CommitPhases, PCs
<1>0. phase = "none" /\ ~committing
  BY CallerPhase DEF InOp
<1>1. TypeOK' /\ Headers' /\ Pinning'
  BY DEF Headers, Pinning
<1>2. InOp' = InOp
  BY DEF InOp
<1>3. Counting'
  BY <1>2 DEF Counting
<1>4. Holding'
  <2>1. \A q \in Proc : q # p => buf'[q] = buf[q] /\ pc'[q] = pc[q]
    OBVIOUS
  <2>2. buf'[p] = b /\ pc'[p] = "modified" /\ ~committing'
    BY <1>0
  <2> QED
    BY <2>1, <2>2 DEF Holding
<1>5. Caching'
  <2>1. \A c \in Block : c # b => cache'[c] = cache[c]
    OBVIOUS
  <2>2. cache'[b] = v /\ buf'[p] = b
    OBVIOUS
  <2>3. \A q \in Proc : q # p => buf'[q] = buf[q]
    OBVIOUS
  <2>4. buf[p] = NoBlock
    BY DEF Holding
  <2> QED
    BY <2>1, <2>2, <2>3, <2>4 DEF Caching
<1>6. Logging'
  BY <1>0 DEF Logging
<1>7. Sleeping'
  BY SMTT(30) DEF Sleeping, LogFull
<1> QED
  BY <1>1, <1>3, <1>4, <1>5, <1>6, <1>7

LEMMA StepLogWrite == ASSUME LogInv, NEW p \in Proc, log_write(p) PROVE LogInv'
<1> USE LogConstants
    DEF LogInv, TypeOK, log_write, TooBig, Running, Phases, RecoveryPhases,
        CommitPhases, PCs
<1>0. /\ phase = "none" /\ ~committing /\ outstanding >= 1
      /\ buf[p] \in Block
  BY CallerPhase DEF InOp, Holding
<1>1. CASE TooBig \/ outstanding < 1
  <2>1. UNCHANGED <<disk, logblk, hdr, cache, pinned, lh, outstanding, committing,
                    tail, pc, buf, wrote>> /\ phase' = "panic"
    BY <1>1
  <2>2. TypeOK' /\ Headers' /\ Holding' /\ Pinning'
    BY <1>0, <2>1 DEF Headers, Holding, Pinning
  <2>3. Counting'
    BY SMTT(30), <1>0, <2>1 DEF Counting, InOp
  <2>4. Caching' /\ Logging' /\ Sleeping'
    BY <1>0, <2>1 DEF Caching, Logging, Sleeping
  <2> QED
    BY <2>2, <2>3, <2>4
<1>2. CASE ~(TooBig \/ outstanding < 1) /\ buf[p] \in Entries(lh)
  <2>1. /\ UNCHANGED <<disk, logblk, hdr, cache, pinned, lh, outstanding, committing,
                       phase, tail, buf>>
        /\ pc' = [pc EXCEPT ![p] = "logged"]
        /\ wrote' = [wrote EXCEPT ![p] = @ \cup {buf[p]}]
    BY <1>2
  <2>2. TypeOK'
    BY <1>0, <2>1
  <2>3. InOp' = InOp
    BY <2>1 DEF InOp
  <2>4. Counting'
    BY SMTT(30), <2>1, <2>3, <1>0 DEF Counting
  <2>5. Holding'
    BY SMTT(30), <1>2, <2>1 DEF Holding, Entries
  <2>6. Headers' /\ Pinning' /\ Caching' /\ Logging'
    BY <2>1 DEF Headers, Pinning, Caching, Logging
  <2>7. Sleeping'
    BY <2>1 DEF Sleeping, LogFull
  <2> QED
    BY <2>2, <2>4, <2>5, <2>6, <2>7
<1>3. CASE ~(TooBig \/ outstanding < 1) /\ buf[p] \notin Entries(lh)
  <2>1. /\ UNCHANGED <<disk, logblk, hdr, cache, outstanding, committing, phase,
                       tail, buf>>
        /\ lh' = Append(lh, buf[p])
        /\ pinned' = pinned \cup {buf[p]}
        /\ pc' = [pc EXCEPT ![p] = "logged"]
        /\ wrote' = [wrote EXCEPT ![p] = @ \cup {buf[p]}]
    BY <1>3
  <2>2. /\ lh' \in Seq(Block) /\ Len(lh') = Len(lh) + 1
        /\ \A i \in 1 .. Len(lh) : lh'[i] = lh[i]
        /\ lh'[Len(lh) + 1] = buf[p]
    BY <1>0, <2>1
  <2>3. Entries(lh') = Entries(lh) \cup {buf[p]}
    <3>1. 1 .. Len(lh') = (1 .. Len(lh)) \cup {Len(lh) + 1}
      BY <2>2
    <3>2. ASSUME NEW x \in Entries(lh') PROVE x \in Entries(lh) \cup {buf[p]}
      <4>1. PICK i \in 1 .. Len(lh') : x = lh'[i]
        BY ZenonT(30) DEF Entries
      <4> QED
        BY ZenonT(30), <2>2, <3>1, <4>1 DEF Entries
    <3>3. ASSUME NEW x \in Entries(lh) \cup {buf[p]} PROVE x \in Entries(lh')
      <4>1. CASE x = buf[p]
        BY <2>2, <3>1, <4>1 DEF Entries
      <4>2. CASE x # buf[p]
        <5>1. PICK i \in 1 .. Len(lh) : x = lh[i]
          BY <4>2 DEF Entries
        <5> QED
          BY <2>2, <3>1, <5>1 DEF Entries
      <4> QED
        BY <4>1, <4>2
    <3> QED
      BY <3>2, <3>3
  <2>4. TypeOK'
    BY <1>0, <1>3, <2>1, <2>2
  <2>5. InOp' = InOp /\ InOp # {}
    BY <2>1 DEF InOp
  <2>6. Counting'
    BY <2>1, <2>5, <1>0 DEF Counting
  <2>7. Headers'
    BY <1>0, <1>3, <2>1, <2>2 DEF Headers, NoDup, Entries
  <2>8. Holding'
    BY SMTT(30), <1>0, <2>1, <2>3 DEF Holding
  <2>9. Pinning'
    BY <1>0, <2>1, <2>3 DEF Pinning
  <2>10. Caching'
    BY SMTT(30), <1>0, <2>1 DEF Caching
  <2>11. Logging'
    BY <1>0, <2>1 DEF Logging
  <2>12. Sleeping'
    <3>1. LogFull => LogFull'
      BY <2>1, <2>2 DEF LogFull
    <3> QED
      BY <3>1, <2>1 DEF Sleeping
  <2> QED
    BY <2>4, <2>6, <2>7, <2>8, <2>9, <2>10, <2>11, <2>12
<1> QED
  BY <1>1, <1>2, <1>3

LEMMA StepBrelse == ASSUME LogInv, NEW p \in Proc, brelse(p) PROVE LogInv'
<1> USE LogConstants
    DEF LogInv, TypeOK, brelse, Running, Phases, RecoveryPhases, CommitPhases, PCs
<1>0. phase = "none" /\ buf[p] \in pinned
  BY SMTT(30), CallerPhase DEF InOp, Holding, Pinning
<1>1. TypeOK' /\ Headers' /\ Pinning' /\ Logging'
  BY DEF Headers, Pinning, Logging
<1>2. InOp' = InOp
  BY DEF InOp
<1>3. Counting'
  BY <1>2 DEF Counting
<1>4. Holding'
  BY DEF Holding
<1>5. Caching'
  <2>1. buf[p] \in Block
    BY <1>0
  <2>2. \A q \in Proc : buf'[q] = IF q = p THEN NoBlock ELSE buf[q]
    OBVIOUS
  <2> QED
    BY <1>0, <2>1, <2>2 DEF Caching
<1>6. Sleeping'
  BY DEF Sleeping, LogFull
<1> QED
  BY SMTT(30), <1>1, <1>3, <1>4, <1>5, <1>6

LEMMA StepEndOp == ASSUME LogInv, NEW p \in Proc, end_op(p) PROVE LogInv'
<1> USE LogConstants
    DEF LogInv, TypeOK, end_op, Running, Phases, RecoveryPhases, CommitPhases, PCs
<1>0. phase = "none" /\ ~committing /\ outstanding >= 1 /\ p \in InOp
  BY CallerPhase DEF InOp
<1>1. buf[p] = NoBlock
  BY DEF Holding
<1>2. CASE outstanding = 1
  <2>1. /\ UNCHANGED <<disk, logblk, hdr, cache, pinned, lh, buf>>
        /\ outstanding' = 0 /\ tail' = 0
        /\ wrote' = [wrote EXCEPT ![p] = {}]
        /\ committing' = TRUE
        /\ pc' = [pc EXCEPT ![p] = "commit"]
        /\ phase' = IF Len(lh) > 0 THEN "write_log" ELSE "done"
    BY <1>0, <1>2
  <2>2. TypeOK'
    BY <2>1
  <2>3. InOp' = InOp \ {p}
    BY <2>1 DEF InOp
  <2>4. Cardinality(InOp') = 0
    <3>1. Cardinality(InOp) = 1
      BY <1>2 DEF Counting
    <3>2. Cardinality(InOp') = Cardinality(InOp) - 1
      BY ZenonT(30), <1>0, <2>3, InOpLeaves
    <3> QED
      BY <3>1, <3>2
  <2>5. InOp' = {}
    BY ZenonT(30), <2>3, <2>4, InOpFinite, FS_RemoveElement, FS_EmptySet
  <2>6. Counting'
    BY <2>1, <2>4, <2>5 DEF Counting
  <2>7. Headers'
    BY <1>0, <2>1 DEF Headers, NoDup
  <2>8. Holding'
    <3>1. \A q \in Proc : pc'[q] \notin {"op", "modified", "logged"}
      BY <2>5 DEF InOp
    <3>2. \A q \in Proc : q # p => pc'[q] = pc[q]
      BY SMTT(30), <2>1
    <3> QED
      BY <1>1, <2>1, <3>1, <3>2 DEF Holding
  <2>9. Pinning'
    <3>1. Len(lh) = 0 => Entries(lh) = {}
      BY DEF Entries
    <3> QED
      BY <1>0, <2>1, <3>1 DEF Pinning
  <2>10. Caching'
    BY SMTT(30), <2>1 DEF Caching
  <2>11. Logging'
    BY <1>0, <2>1 DEF Logging
  <2>12. Sleeping'
    BY <2>1 DEF Sleeping
  <2> QED
    BY <2>2, <2>6, <2>7, <2>8, <2>9, <2>10, <2>11, <2>12
<1>3. CASE outstanding > 1
  <2>1. /\ UNCHANGED <<disk, logblk, hdr, cache, pinned, lh, buf, committing, phase>>
        /\ outstanding' = outstanding - 1 /\ tail' = 0
        /\ wrote' = [wrote EXCEPT ![p] = {}]
        /\ pc' = [Woken EXCEPT ![p] = "idle"]
    BY <1>0, <1>3
  <2>2. \A q \in Proc : pc'[q] = IF q = p THEN "idle"
                                 ELSE IF pc[q] = "asleep" THEN "begin" ELSE pc[q]
    BY <2>1 DEF Woken
  <2>3. TypeOK'
    BY <1>3, <2>1 DEF Woken
  <2>4. InOp' = InOp \ {p}
    BY <2>2 DEF InOp
  <2>5. Cardinality(InOp') = outstanding'
    BY ZenonT(30), <1>0, <2>1, <2>4, InOpLeaves DEF Counting
  <2>6. InOp' # {}
    BY ZenonT(30), <1>3, <2>1, <2>5, FS_EmptySet
  <2>7. Counting'
    BY <1>0, <2>1, <2>5, <2>6 DEF Counting
  <2>8. Headers' /\ Pinning'
    BY SMTT(30), <1>0, <2>1 DEF Headers, Pinning
  <2>9. Holding'
    BY <1>0, <1>1, <2>1, <2>2 DEF Holding
  <2>10. Caching'
    BY SMTT(30), <2>1 DEF Caching
  <2>11. Logging'
    BY <1>0, <2>1 DEF Logging
  <2>12. Sleeping'
    BY <2>2 DEF Sleeping
  <2> QED
    BY <2>3, <2>7, <2>8, <2>9, <2>10, <2>11, <2>12
<1> QED
  BY <1>0, <1>2, <1>3

=============================================================================
