------------------------------- MODULE Inode --------------------------------
(***************************************************************************)
(* kernel/fs.c below path names: the disk's inodes, free map and blocks,   *)
(* the table of inodes in memory, and iget(), ilock(), iput(), ialloc(),   *)
(* balloc(), bmap(), itrunc(), readi() and writei() as operators from old  *)
(* to new contents.  Module FS makes the system calls of them.             *)
(*                                                                         *)
(* A block holds what the code puts in it: directory entries or the block  *)
(* numbers of an indirect block; the bytes of files are left out.  Offsets *)
(* and sizes count blocks, and a directory has one.  An inode is in the    *)
(* table at most once (iget() looks for it under itable.lock), so that the *)
(* table is indexed by inode number; the contents of a free entry are not  *)
(* kept.  begin_op() and end_op() are those of module AtomicLog: what the  *)
(* disk holds after a crash is what it held at the last commit.            *)
(***************************************************************************)
EXTENDS Naturals, Sequences, FiniteSets, TLC

CONSTANTS
  Proc, NoProc,
  Name,             (* names other than "." and ".."                       *)
  NINODES,          (* inodes of the disk                                  *)
  NINODE,           (* entries of the inode table                          *)
  NBLOCK,           (* data blocks of the disk                             *)
  NDIRECT, NINDIRECT

ASSUME InodeConstants ==
  /\ NoProc \notin Proc
  /\ {NINODES, NINODE, NBLOCK, NDIRECT, NINDIRECT} \subseteq Nat \ {0}

ROOTINO == 1
Inum == 1 .. NINODES
Block == 1 .. NBLOCK
DName == Name \cup {".", ".."}
MAXFILE == NDIRECT + NINDIRECT

VARIABLES
  disk,             (* what the log has accepted: [dinode, used, data]     *)
  saved,            (* the disk at the last commit                         *)
  outstanding,      (* log.outstanding                                     *)
  itable,           (* [ref, valid, lock, d] of each inode, d a dinode     *)
  panic             (* the panics reached: {} while the system runs        *)

(* types: 0, "dir", "file", "dev" and "nodev", a device file whose major   *)
(* number is out of range.                                                 *)
NoDinode == [type |-> "none", nlink |-> 0, size |-> 0, addrs |-> [n \in 0 .. NDIRECT |-> 0]]
NoEntry == [ref |-> 0, valid |-> FALSE, lock |-> NoProc, d |-> NoDinode]
Zero == [ents |-> [n \in DName |-> 0], ind |-> [n \in 0 .. NINDIRECT - 1 |-> 0]]

(* mkfs: the root directory, in the first block.                           *)
RootDinode == [NoDinode EXCEPT !.type = "dir", !.nlink = 1, !.size = 1, !.addrs[0] = 1]
FreshDisk ==
  [dinode |-> [i \in Inum |-> IF i = ROOTINO THEN RootDinode ELSE NoDinode],
   used |-> {1},
   data |-> [b \in Block |-> IF b = 1
                             THEN [Zero EXCEPT !.ents["."] = ROOTINO, !.ents[".."] = ROOTINO]
                             ELSE Zero]]

-----------------------------------------------------------------------------
(* Blocks.                                                                 *)

(* balloc(): the first free block, zeroed, or 0.                           *)
Balloc(dk) ==
  LET free == Block \ dk.used
      b == CHOOSE x \in free : \A y \in free : x <= y
  IN IF free = {} THEN [addr |-> 0, disk |-> dk]
     ELSE [addr |-> b, disk |-> [dk EXCEPT !.used = @ \cup {b}, !.data[b] = Zero]]

Bfree(dk, blocks) == [dk EXCEPT !.used = @ \ blocks]

(* bmap(): the n-th block of d, allocated if there is none, or 0.          *)
Bmap(dk, d, n) ==
  LET slot == IF n < NDIRECT THEN n ELSE NDIRECT
      new == IF d.addrs[slot] = 0 THEN Balloc(dk) ELSE [addr |-> d.addrs[slot], disk |-> dk]
      d1 == [d EXCEPT !.addrs[slot] = new.addr]
      k == n - NDIRECT
      old == new.disk.data[new.addr].ind[k]
      leaf == Balloc(new.disk)
  IN CASE n < NDIRECT \/ new.addr = 0 ->
            [addr |-> new.addr, disk |-> new.disk, d |-> d1]
       [] n >= NDIRECT /\ new.addr # 0 /\ old # 0 ->
            [addr |-> old, disk |-> new.disk, d |-> d1]
       [] OTHER ->
            [addr |-> leaf.addr, d |-> d1,
             disk |-> IF leaf.addr = 0 THEN leaf.disk
                      ELSE [leaf.disk EXCEPT !.data[new.addr].ind[k] = leaf.addr]]

(* The blocks that itrunc() frees.                                         *)
BlocksOf(dk, d) ==
  LET ind == d.addrs[NDIRECT]
  IN ({d.addrs[n] : n \in 0 .. NDIRECT}
      \cup (IF ind = 0 THEN {} ELSE {dk.data[ind].ind[n] : n \in 0 .. NINDIRECT - 1})) \ {0}

Truncated(d) == [d EXCEPT !.size = 0, !.addrs = NoDinode.addrs]

(* iupdate().                                                              *)
Iupdate(dk, i, d) == [dk EXCEPT !.dinode[i] = d]

(* Fault: itrunc() frees only the blocks that the inode lists.             *)
Itrunc_direct(dk, i, d) ==
  Iupdate(Bfree(dk, {d.addrs[n] : n \in 0 .. NDIRECT}), i, Truncated(d))

(* itrunc(), with its iupdate().                                           *)
Itrunc(dk, i, d) == Iupdate(Bfree(dk, BlocksOf(dk, d)), i, Truncated(d))

(* writei() of one block at off.  either_copyin() faults after bmap() has  *)
(* added the block: the inode keeps it.                                    *)
Writei(dk, i, d, off, faults) ==
  LET r == Bmap(dk, d, off)
      n == IF r.addr = 0 \/ faults THEN 0 ELSE 1
      d1 == IF off + n > d.size THEN [r.d EXCEPT !.size = off + n] ELSE r.d
  IN IF off > d.size \/ off + 1 > MAXFILE
     THEN [n |-> 0, disk |-> dk, d |-> d]
     ELSE [n |-> n, disk |-> Iupdate(r.disk, i, d1), d |-> d1]

(* Is the block at off there?  readi() would have bmap() allocate it, in   *)
(* no transaction.                                                         *)
Mapped(dk, d, off) ==
  IF off < NDIRECT THEN d.addrs[off] # 0
  ELSE d.addrs[NDIRECT] # 0 /\ dk.data[d.addrs[NDIRECT]].ind[off - NDIRECT] # 0

(* The first free inode that ialloc() finds, or 0.                         *)
Ialloc(dk) ==
  LET free == {i \in Inum : dk.dinode[i].type = "none"}
  IN IF free = {} THEN 0 ELSE CHOOSE i \in free : \A j \in free : i <= j

-----------------------------------------------------------------------------
(* Inodes in memory.  m is an itable.                                      *)

InUse(m) == {i \in Inum : m[i].ref > 0}

(* iget() and idup().                                                      *)
Iget(m, i) ==
  IF m[i].ref > 0 THEN [m EXCEPT ![i].ref = @ + 1]
  ELSE [m EXCEPT ![i] = [NoEntry EXCEPT !.ref = 1]]

IgetPanics(m, i) ==
  IF i \notin InUse(m) /\ Cardinality(InUse(m)) >= NINODE THEN {"iget: no inodes"} ELSE {}

Unlocked(i) == itable[i].lock = NoProc

(* The inode as ilock() finds it.                                          *)
D(i) == IF itable[i].valid THEN itable[i].d ELSE disk.dinode[i]

IlockPanics(i) ==
  (IF itable[i].ref < 1 THEN {"ilock"} ELSE {})
    \cup (IF ~itable[i].valid /\ disk.dinode[i].type = "none" THEN {"ilock: no type"} ELSE {})

(* ilock() by p (or by NoProc, when it is unlocked in the same step).      *)
Ilock(m, i, p) == [m EXCEPT ![i].lock = p, ![i].valid = TRUE, ![i].d = D(i)]

Iunlock(m, i) == [m EXCEPT ![i].lock = NoProc]

(* The in-memory inode is changed.                                         *)
SetD(m, i, d) == [m EXCEPT ![i].d = d]

(* ip->ref-- in iput().                                                    *)
Idrop(m, i) == IF m[i].ref = 1 THEN [m EXCEPT ![i] = NoEntry] ELSE [m EXCEPT ![i].ref = @ - 1]

Entries(i) == IF D(i).addrs[0] = 0 THEN Zero.ents ELSE disk.data[D(i).addrs[0]].ents

(* dirlink(): the entry n, which is not there, is written to directory i.  *)
(* The one block stands for all that the directory has: when they are full *)
(* writei() needs another, and fails if there is none.                     *)
Dirlink(dk, i, d, n, k, full) ==
  LET r == Bmap(dk, d, 0)
      d1 == [r.d EXCEPT !.size = 1]
  IN IF r.addr = 0 \/ (full /\ Balloc(r.disk).addr = 0)
     THEN [ok |-> FALSE, disk |-> dk, d |-> d]
     ELSE [ok |-> TRUE, d |-> d1,
           disk |-> Iupdate([r.disk EXCEPT !.data[r.addr].ents[n] = k], i, d1)]

(* writei() of a zero entry by sys_unlink().                               *)
EraseEntry(dk, i, n) == [dk EXCEPT !.data[D(i).addrs[0]].ents[n] = 0]

=============================================================================
