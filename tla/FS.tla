--------------------------------- MODULE FS ---------------------------------
(***************************************************************************)
(* The file system calls: namex() and the directory functions of fs.c,     *)
(* file.c and sysfile.c, by processes that run at the same time, with      *)
(* crashes.                                                                *)
(*                                                                         *)
(* A step is a piece of a call that holds what it touches: it begins with  *)
(* the acquisition of one inode's sleep lock or one critical section of    *)
(* itable.lock, ftable.lock or log.lock, and ends before the next.  What a *)
(* call does to blocks and inodes under a sleep lock it holds belongs to   *)
(* the step.  A panic is noted, and nothing happens after it.              *)
(***************************************************************************)
EXTENDS Inode

CONSTANTS
  FileName, DirName,(* names of a file and a directory to begin with       *)
  Calls,            (* the calls with a path name that programs make       *)
  NFILE, NOFILE,    (* struct files; descriptors of a process              *)
  MaxWrite,         (* most blocks in a write()                            *)
  MaxCalls,         (* bound on the calls made                             *)
  MaxCrash          (* bound on the crashes                                *)

File == 1 .. NFILE
Fd == 0 .. NOFILE - 1

VARIABLES
  file,             (* ftable: [ref, type, ip, off, writable]              *)
  ofile,            (* p->ofile[]: a file or 0                             *)
  cwd,              (* p->cwd                                              *)
  st,               (* where each process is, and its local variables      *)
  calls, crashes

files == <<file, ofile>>
fsvars == <<disk, saved, outstanding, itable, panic>>
vars == <<fsvars, files, cwd, st, calls, crashes>>

NoFile == [ref |-> 0, type |-> "none", ip |-> 0, off |-> 0, writable |-> FALSE]

(* cur: ip in namex(); put: the inodes still to be given to iput(), after  *)
(* which the call goes on at then; left: the blocks still to write; up:    *)
(* cur was found as ".." of a removed directory (for the properties).      *)
User == [pc |-> "user", call |-> [op |-> "none"], cur |-> 0, path |-> <<>>, name |-> ".",
         parent |-> FALSE, ip |-> 0, dp |-> 0, put |-> <<>>, then |-> "user", f |-> 0, left |-> 0,
         up |-> FALSE]

(* A disk that mkdir() and open() have made of that of mkfs: a file and a  *)
(* directory in the root, and an empty directory in that directory, which  *)
(* is where the processes are.  They have inherited the file, open.        *)
SUBINO == 4
DirDinode(b) == [RootDinode EXCEPT !.addrs[0] = b]
InitialDisk ==
  [FreshDisk EXCEPT
     !.dinode[ROOTINO].nlink = 2,
     !.dinode[2] = [NoDinode EXCEPT !.type = "file", !.nlink = 1],
     !.dinode[3] = [DirDinode(2) EXCEPT !.nlink = 2],
     !.dinode[SUBINO] = DirDinode(3),
     !.used = {1, 2, 3},
     !.data[1].ents = (FileName :> 2 @@ DirName :> 3) @@ @,
     !.data[2].ents = ("." :> 3 @@ ".." :> ROOTINO @@ DirName :> SUBINO) @@ @,
     !.data[3].ents = ("." :> SUBINO @@ ".." :> 3) @@ @]

AllIn(dir) == [i \in Inum |-> IF i = dir
                              THEN [NoEntry EXCEPT !.ref = Cardinality(Proc)] ELSE NoEntry]

Init ==
  /\ disk = InitialDisk
  /\ saved = InitialDisk
  /\ outstanding = 0
  /\ itable = [AllIn(SUBINO) EXCEPT ![2].ref = 1]
  /\ panic = {}
  /\ file = [f \in File |-> IF f = 1 THEN [ref |-> Cardinality(Proc), type |-> "inode",
                                          ip |-> 2, off |-> 0, writable |-> TRUE] ELSE NoFile]
  /\ ofile = [p \in Proc |-> [fd \in Fd |-> IF fd = 0 THEN 1 ELSE 0]]
  /\ cwd = [p \in Proc |-> SUBINO]
  /\ st = [p \in Proc |-> User]
  /\ calls = 0
  /\ crashes = 0

(* The local variables in r change.                                        *)
Go(p, r) == st' = [st EXCEPT ![p] = r @@ @]

(* The system runs, and p is at pc.                                        *)
At(p, pc) == panic = {} /\ st[p].pc = pc
Op(p, op) == st[p].call.op = op

(* iput() of the inodes in s, and on to the label then.                    *)
Put(s, then) == [pc |-> "iput", put |-> s, then |-> then, cur |-> 0]

Panics(why) == panic' = why
If(bad, why) == IF bad THEN {why} ELSE {}

-----------------------------------------------------------------------------
(* begin_op() of a call with a path, and the start of its namex().         *)
Start(p, c) ==
  /\ At(p, "user")
  /\ calls < MaxCalls
  /\ calls' = calls + 1
  /\ outstanding' = outstanding + 1
  /\ LET i == IF c.path.abs THEN ROOTINO ELSE cwd[p]
     IN
     /\ itable' = Iget(itable, i)
     /\ Panics(IgetPanics(itable, i))
     /\ Go(p, [pc |-> "namex", call |-> c, cur |-> i, path |-> c.path.elems,
               parent |-> c.op \in {"unlink", "create", "mkdir", "mknod"}])
  /\ UNCHANGED <<disk, saved, files, cwd, crashes>>

(* end_op(): the last one commits.                                         *)
EndOp(p) ==
  /\ At(p, "end_op")
  /\ outstanding' = outstanding - 1
  /\ saved' = IF outstanding = 1 THEN disk ELSE saved
  /\ Go(p, User)
  /\ UNCHANGED <<disk, itable, panic, files, cwd, calls, crashes>>

(* Where a call goes on when namex() or dirlink() fails.                   *)
Fail(p) == IF Op(p, "link") /\ st[p].ip # 0 THEN "link_bad" ELSE "end_op"

(* One round of the loop of namex(): ilock(), dirlookup() with its iget()  *)
(* and iunlock(); the iput() is to come.                                   *)
Namex(p) ==
  /\ At(p, "namex")
  /\ st[p].path # <<>>
  /\ LET i == st[p].cur
         n == Head(st[p].path)
         next == Entries(i)[n]
         m == Ilock(itable, i, NoProc)
         last == st[p].parent /\ Tail(st[p].path) = <<>>
         looked == D(i).type = "dir" /\ ~last /\ next # 0
     IN
     /\ Unlocked(i)
     /\ Panics(IlockPanics(i) \cup (IF looked THEN IgetPanics(m, next) ELSE {}))
     /\ IF D(i).type # "dir"
        THEN itable' = m /\ Go(p, Put(<<i>>, Fail(p)))
        ELSE IF last
        THEN itable' = m /\ Go(p, [pc |-> "found", name |-> n])
        ELSE IF next = 0
        THEN itable' = m /\ Go(p, Put(<<i>>, Fail(p)))
        ELSE /\ itable' = Iget(m, next)
             /\ Go(p, [Put(<<i>>, "namex") EXCEPT !.cur = next] @@
                      [path |-> Tail(st[p].path), up |-> n = ".." /\ D(i).nlink = 0])
  /\ UNCHANGED <<disk, saved, outstanding, files, cwd, calls, crashes>>

(* The path is used up: nameiparent("/") fails.                            *)
NamexEnd(p) ==
  /\ At(p, "namex")
  /\ st[p].path = <<>>
  /\ IF st[p].parent THEN Go(p, Put(<<st[p].cur>>, Fail(p))) ELSE Go(p, [pc |-> "found"])
  /\ UNCHANGED <<fsvars, files, cwd, calls, crashes>>

-----------------------------------------------------------------------------
(* iput() of the first inode of put.                                       *)
Rest(p) == [put |-> Tail(st[p].put),
            pc |-> IF Tail(st[p].put) = <<>> THEN st[p].then ELSE "iput"]

(* Fault: iput() frees an inode that still has links.                      *)
LastRef_linked(i) == itable[i].ref = 1 /\ itable[i].valid

LastRef(i) == itable[i].ref = 1 /\ itable[i].valid /\ itable[i].d.nlink = 0

(* There are other references or links: ip->ref--.                         *)
IputDrop(p) ==
  /\ At(p, "iput")
  /\ ~LastRef(Head(st[p].put))
  /\ itable' = Idrop(itable, Head(st[p].put))
  /\ Go(p, Rest(p))
  /\ UNCHANGED <<disk, saved, outstanding, panic, files, cwd, calls, crashes>>

(* acquiresleep() with itable.lock held: sleep() would panic.              *)
IputLock(p) ==
  /\ At(p, "iput")
  /\ LET i == Head(st[p].put)
     IN
     /\ LastRef(i)
     /\ Panics(If(~Unlocked(i), "sched locks"))
     /\ itable' = Ilock(itable, i, p)
  /\ Go(p, [pc |-> "itrunc"])
  /\ UNCHANGED <<disk, saved, outstanding, files, cwd, calls, crashes>>

(* itrunc(), ip->type = 0, iupdate().                                      *)
IputTrunc(p) ==
  /\ At(p, "itrunc")
  /\ LET i == Head(st[p].put)
         d == [Truncated(itable[i].d) EXCEPT !.type = "none"]
     IN
     /\ Panics(If(~(BlocksOf(disk, itable[i].d) \subseteq disk.used), "freeing free block"))
     /\ disk' = Iupdate(Itrunc(disk, i, itable[i].d), i, d)
     /\ itable' = SetD(itable, i, d)
  /\ Go(p, [pc |-> "iput_valid"])
  /\ UNCHANGED <<saved, outstanding, files, cwd, calls, crashes>>

(* ip->valid = 0 and releasesleep().                                       *)
IputUnlock(p) ==
  /\ At(p, "iput_valid")
  /\ itable' = [itable EXCEPT ![Head(st[p].put)].valid = FALSE,
                              ![Head(st[p].put)].d = NoDinode,
                              ![Head(st[p].put)].lock = NoProc]
  /\ Go(p, [pc |-> "iput_ref"])
  /\ UNCHANGED <<disk, saved, outstanding, panic, files, cwd, calls, crashes>>

(* ip->ref-- under itable.lock again.                                      *)
IputRef(p) ==
  /\ At(p, "iput_ref")
  /\ itable' = Idrop(itable, Head(st[p].put))
  /\ Go(p, Rest(p))
  /\ UNCHANGED <<disk, saved, outstanding, panic, files, cwd, calls, crashes>>

Iput(p) == IputDrop(p) \/ IputLock(p) \/ IputTrunc(p) \/ IputUnlock(p) \/ IputRef(p)

-----------------------------------------------------------------------------
(* Fault: sys_unlink() takes "." and "..".                                 *)
Removable_any(n) == TRUE

(* "Cannot unlink "." or ".."."                                            *)
Removable(n) == n \notin {".", ".."}

(* sys_unlink(): lock the parent and look the name up.                     *)
UnlinkParent(p) ==
  /\ At(p, "found")
  /\ Op(p, "unlink")
  /\ LET dp == st[p].cur
         i == Entries(dp)[st[p].name]
         fails == ~Removable(st[p].name) \/ i = 0
     IN
     /\ Unlocked(dp)
     /\ Panics(IlockPanics(dp) \cup (IF fails THEN {} ELSE IgetPanics(itable, i)))
     /\ IF fails
        THEN /\ itable' = Ilock(itable, dp, NoProc)
             /\ Go(p, Put(<<dp>>, "end_op"))
        ELSE /\ itable' = Iget(Ilock(itable, dp, p), i)
             /\ Go(p, [pc |-> "unlink_ip", cur |-> 0, dp |-> dp, ip |-> i])
  /\ UNCHANGED <<disk, saved, outstanding, files, cwd, calls, crashes>>

IsDirEmpty(i) == \A n \in Name : Entries(i)[n] = 0

(* ... then lock the inode and erase the entry; unlock the parent.         *)
UnlinkEntry(p) ==
  /\ At(p, "unlink_ip")
  /\ LET dp == st[p].dp
         i == st[p].ip
         m == Ilock(itable, i, p)
         dd == [itable[dp].d EXCEPT !.nlink = IF D(i).type = "dir" THEN @ - 1 ELSE @]
     IN
     /\ Unlocked(i)
     /\ Panics(IlockPanics(i) \cup If(D(i).nlink < 1, "unlink: nlink < 1"))
     /\ IF D(i).type = "dir" /\ ~IsDirEmpty(i)
        THEN /\ itable' = Iunlock(Iunlock(m, i), dp)
             /\ Go(p, Put(<<i, dp>>, "end_op") @@ [ip |-> 0, dp |-> 0])
             /\ UNCHANGED disk
        ELSE /\ disk' = Iupdate(EraseEntry(disk, dp, st[p].name), dp, dd)
             /\ itable' = Iunlock(SetD(m, dp, dd), dp)
             /\ Go(p, Put(<<dp>>, "unlink_link") @@ [dp |-> 0])
  /\ UNCHANGED <<saved, outstanding, files, cwd, calls, crashes>>

(* ... and ip->nlink--.                                                    *)
UnlinkLink(p) ==
  /\ At(p, "unlink_link")
  /\ LET i == st[p].ip
         d == [itable[i].d EXCEPT !.nlink = @ - 1]
     IN
     /\ disk' = Iupdate(disk, i, d)
     /\ itable' = Iunlock(SetD(itable, i, d), i)
     /\ Go(p, Put(<<i>>, "end_op") @@ [ip |-> 0])
  /\ UNCHANGED <<saved, outstanding, panic, files, cwd, calls, crashes>>

Unlink(p) == UnlinkParent(p) \/ UnlinkEntry(p) \/ UnlinkLink(p)

-----------------------------------------------------------------------------
NewType(p) == CASE Op(p, "mkdir") -> "dir"
                [] Op(p, "mknod") -> IF st[p].call.major THEN "dev" ELSE "nodev"
                [] OTHER -> "file"

(* create(): lock the parent and look the name up; when it is not there,   *)
(* keep the parent locked.                                                 *)
CreateParent(p) ==
  /\ At(p, "found")
  /\ st[p].call.op \in {"create", "mkdir", "mknod"}
  /\ LET dp == st[p].cur
         i == Entries(dp)[st[p].name]
     IN
     /\ Unlocked(dp)
     /\ Panics(IlockPanics(dp) \cup (IF i = 0 THEN {} ELSE IgetPanics(itable, i)))
     /\ IF i # 0
        THEN /\ itable' = Iget(Ilock(itable, dp, NoProc), i)
             /\ Go(p, Put(<<dp>>, "create_old") @@ [ip |-> i])
        ELSE /\ itable' = Ilock(itable, dp, p)
             /\ Go(p, [pc |-> "ialloc", cur |-> 0, dp |-> dp])
  /\ UNCHANGED <<disk, saved, outstanding, files, cwd, calls, crashes>>

(* The name is there: good enough for open(O_CREATE) of a file.            *)
CreateOld(p) ==
  /\ At(p, "create_old")
  /\ LET i == st[p].ip
     IN
     /\ Unlocked(i)
     /\ Panics(IlockPanics(i))
     /\ IF NewType(p) = "file" /\ D(i).type \in {"file", "dev", "nodev"}
        THEN itable' = Ilock(itable, i, p) /\ Go(p, [pc |-> "opened"])
        ELSE itable' = Ilock(itable, i, NoProc) /\ Go(p, Put(<<i>>, "end_op") @@ [ip |-> 0])
  /\ UNCHANGED <<disk, saved, outstanding, files, cwd, calls, crashes>>

(* ialloc() with its iget().                                               *)
CreateInode(p) ==
  /\ At(p, "ialloc")
  /\ LET i == Ialloc(disk)
         dp == st[p].dp
     IN IF i = 0
        THEN /\ itable' = Iunlock(itable, dp)
             /\ Go(p, Put(<<dp>>, "end_op") @@ [dp |-> 0])
             /\ UNCHANGED <<disk, panic>>
        ELSE /\ disk' = Iupdate(disk, i, [NoDinode EXCEPT !.type = NewType(p)])
             /\ itable' = Iget(itable, i)
             /\ Panics(IgetPanics(itable, i))
             /\ Go(p, [pc |-> "create_ip", ip |-> i])
  /\ UNCHANGED <<saved, outstanding, files, cwd, calls, crashes>>

(* dp->nlink++ for "..".                                                   *)
ParentOf(d, type) == IF type = "dir" THEN [d EXCEPT !.nlink = @ + 1] ELSE d

(* Lock the new inode, give it a link and, for a directory, "." and "..";  *)
(* enter it in the parent.  When one of the dirlink()s has no block for    *)
(* its entry, the inode loses its link again.                              *)
CreateLink(p, full) ==
  /\ At(p, "create_ip")
  /\ LET i == st[p].ip
         dp == st[p].dp
         d == [D(i) EXCEPT !.nlink = 1]
         dot == Dirlink(disk, i, d, ".", i, FALSE)
         new == IF NewType(p) # "dir" THEN [ok |-> TRUE, disk |-> Iupdate(disk, i, d), d |-> d]
                ELSE IF dot.ok THEN Dirlink(dot.disk, i, dot.d, "..", dp, FALSE) ELSE dot
         entry == Dirlink(new.disk, dp, itable[dp].d, st[p].name, i, full)
         dd == ParentOf(entry.d, NewType(p))
         failed == [new.d EXCEPT !.nlink = 0]
         m == Ilock(itable, i, p)
     IN
     /\ Unlocked(i)
     /\ Panics(IlockPanics(i))
     /\ IF new.ok /\ entry.ok
        THEN /\ disk' = Iupdate(entry.disk, dp, dd)
             /\ itable' = Iunlock(SetD(SetD(m, i, new.d), dp, dd), dp)
             /\ Go(p, Put(<<dp>>, IF Op(p, "create") THEN "opened" ELSE "created") @@ [dp |-> 0])
        ELSE /\ disk' = Iupdate(new.disk, i, failed)
             /\ itable' = Iunlock(SetD(m, i, failed), i)
             /\ Go(p, Put(<<i>>, "create_fail") @@ [ip |-> 0])
  /\ UNCHANGED <<saved, outstanding, files, cwd, calls, crashes>>

(* The end of the failed create(): iunlockput(dp).                         *)
CreateFail(p) ==
  /\ At(p, "create_fail")
  /\ itable' = Iunlock(itable, st[p].dp)
  /\ Go(p, Put(<<st[p].dp>>, "end_op") @@ [dp |-> 0])
  /\ UNCHANGED <<disk, saved, outstanding, panic, files, cwd, calls, crashes>>

(* sys_mkdir() and sys_mknod() after create().                             *)
MkdirEnd(p) ==
  /\ At(p, "created")
  /\ itable' = Iunlock(itable, st[p].ip)
  /\ Go(p, Put(<<st[p].ip>>, "end_op") @@ [ip |-> 0])
  /\ UNCHANGED <<disk, saved, outstanding, panic, files, cwd, calls, crashes>>

Create(p) ==
  \/ CreateParent(p) \/ CreateOld(p) \/ CreateInode(p)
  \/ (\E full \in BOOLEAN : CreateLink(p, full)) \/ CreateFail(p) \/ MkdirEnd(p)

-----------------------------------------------------------------------------
(* sys_link(): one more link to the old inode, then namex() of the new     *)
(* name's parent.                                                          *)
LinkOld(p) ==
  /\ At(p, "found")
  /\ Op(p, "link")
  /\ st[p].ip = 0
  /\ LET i == st[p].cur
         d == [D(i) EXCEPT !.nlink = @ + 1]
         new == st[p].call.new
         from == IF new.abs THEN ROOTINO ELSE cwd[p]
         m == Ilock(itable, i, NoProc)
     IN
     /\ Unlocked(i)
     /\ Panics(IlockPanics(i) \cup IF D(i).type = "dir" THEN {} ELSE IgetPanics(m, from))
     /\ IF D(i).type = "dir"
        THEN /\ itable' = m
             /\ Go(p, Put(<<i>>, "end_op"))
             /\ UNCHANGED disk
        ELSE /\ disk' = Iupdate(disk, i, d)
             /\ itable' = Iget(SetD(m, i, d), from)
             /\ Go(p, [pc |-> "namex", ip |-> i, cur |-> from, path |-> new.elems, parent |-> TRUE])
  /\ UNCHANGED <<saved, outstanding, files, cwd, calls, crashes>>

(* ... dirlink() in it, which fails when the name is there or has no room. *)
LinkNew(p, full) ==
  /\ At(p, "found")
  /\ Op(p, "link")
  /\ st[p].ip # 0
  /\ LET dp == st[p].cur
         i == st[p].ip
         old == Entries(dp)[st[p].name]
         entry == Dirlink(disk, dp, D(dp), st[p].name, i, full)
     IN
     /\ Unlocked(dp)
     /\ Panics(IlockPanics(dp) \cup IF old = 0 THEN {} ELSE IgetPanics(itable, old))
     /\ IF old # 0
        THEN /\ itable' = Iget(Ilock(itable, dp, p), old)
             /\ Go(p, Put(<<old>>, "link_unlock") @@ [dp |-> dp])
             /\ UNCHANGED disk
        ELSE IF ~entry.ok
        THEN /\ itable' = Ilock(itable, dp, p)
             /\ Go(p, [pc |-> "link_unlock", dp |-> dp, cur |-> 0])
             /\ UNCHANGED disk
        ELSE /\ disk' = entry.disk
             /\ itable' = SetD(Ilock(itable, dp, NoProc), dp, entry.d)
             /\ Go(p, Put(<<dp, i>>, "end_op") @@ [ip |-> 0])
  /\ UNCHANGED <<saved, outstanding, files, cwd, calls, crashes>>

(* Fault: when dirlink() fails, the parent is only unlocked.               *)
LinkUnlock_only(p) ==
  /\ At(p, "link_unlock")
  /\ itable' = Iunlock(itable, st[p].dp)
  /\ Go(p, [pc |-> "link_bad", dp |-> 0])
  /\ UNCHANGED <<disk, saved, outstanding, panic, files, cwd, calls, crashes>>

(* iunlockput(dp) after dirlink() has failed.                              *)
LinkUnlock(p) ==
  /\ At(p, "link_unlock")
  /\ itable' = Iunlock(itable, st[p].dp)
  /\ Go(p, Put(<<st[p].dp>>, "link_bad") @@ [dp |-> 0])
  /\ UNCHANGED <<disk, saved, outstanding, panic, files, cwd, calls, crashes>>

(* The label bad of sys_link(): take the link back.                        *)
LinkBad(p) ==
  /\ At(p, "link_bad")
  /\ LET i == st[p].ip
         d == [D(i) EXCEPT !.nlink = @ - 1]
     IN
     /\ Unlocked(i)
     /\ Panics(IlockPanics(i))
     /\ disk' = Iupdate(disk, i, d)
     /\ itable' = SetD(Ilock(itable, i, NoProc), i, d)
     /\ Go(p, Put(<<i>>, "end_op") @@ [ip |-> 0])
  /\ UNCHANGED <<saved, outstanding, files, cwd, calls, crashes>>

Link(p) == LinkOld(p) \/ (\E full \in BOOLEAN : LinkNew(p, full)) \/ LinkUnlock(p) \/ LinkBad(p)

(* sys_chdir().  p->cwd, which is p's own, changes with the iput() of the  *)
(* old one.                                                                *)
Chdir(p) ==
  /\ At(p, "found")
  /\ Op(p, "chdir")
  /\ LET i == st[p].cur
     IN
     /\ Unlocked(i)
     /\ Panics(IlockPanics(i))
     /\ itable' = Ilock(itable, i, NoProc)
     /\ IF D(i).type # "dir"
        THEN Go(p, Put(<<i>>, "end_op")) /\ UNCHANGED cwd
        ELSE Go(p, Put(<<cwd[p]>>, "end_op")) /\ cwd' = [cwd EXCEPT ![p] = i]
  /\ UNCHANGED <<disk, saved, outstanding, files, calls, crashes>>

(* sys_open() without O_CREATE: lock the inode; a directory is not opened  *)
(* for writing.                                                            *)
OpenFound(p) ==
  /\ At(p, "found")
  /\ Op(p, "open")
  /\ LET i == st[p].cur
     IN
     /\ Unlocked(i)
     /\ Panics(IlockPanics(i))
     /\ IF D(i).type = "dir" /\ st[p].call.write
        THEN itable' = Ilock(itable, i, NoProc) /\ Go(p, Put(<<i>>, "end_op"))
        ELSE itable' = Ilock(itable, i, p) /\ Go(p, [pc |-> "opened", cur |-> 0, ip |-> i])
  /\ UNCHANGED <<disk, saved, outstanding, files, cwd, calls, crashes>>

First(S) == CHOOSE x \in S : \A y \in S : x <= y

(* The rest of sys_open(): the major number, filealloc(), fdalloc(),       *)
(* O_TRUNC.                                                                *)
OpenFile(p) ==
  /\ At(p, "opened")
  /\ LET i == st[p].ip
         d == itable[i].d
         fs == {f \in File : file[f].ref = 0}
         fds == {fd \in Fd : ofile[p][fd] = 0}
     IN IF d.type = "nodev" \/ fs = {} \/ fds = {}
        THEN /\ itable' = Iunlock(itable, i)
             /\ Go(p, Put(<<i>>, "end_op") @@ [ip |-> 0])
             /\ UNCHANGED <<disk, files>>
        ELSE /\ file' = [file EXCEPT ![First(fs)] =
                           [ref |-> 1, type |-> IF d.type = "dev" THEN "device" ELSE "inode",
                            ip |-> i, off |-> 0, writable |-> st[p].call.write]]
             /\ ofile' = [ofile EXCEPT ![p][First(fds)] = First(fs)]
             /\ IF st[p].call.trunc /\ d.type = "file"
                THEN /\ disk' = Itrunc(disk, i, d)
                     /\ itable' = Iunlock(SetD(itable, i, Truncated(d)), i)
                ELSE /\ itable' = Iunlock(itable, i)
                     /\ UNCHANGED disk
             /\ Go(p, [pc |-> "end_op", ip |-> 0])
  /\ UNCHANGED <<saved, outstanding, panic, cwd, calls, crashes>>

-----------------------------------------------------------------------------
(* Calls on a descriptor fd of p that is open.                             *)
FdCall(p, fd) ==
  /\ At(p, "user")
  /\ calls < MaxCalls
  /\ ofile[p][fd] # 0
  /\ calls' = calls + 1

(* sys_dup(): fdalloc() and filedup().                                     *)
Dup(p, fd) ==
  /\ FdCall(p, fd)
  /\ LET fds == {x \in Fd : ofile[p][x] = 0}
         f == ofile[p][fd]
     IN IF fds = {} THEN UNCHANGED files
        ELSE /\ ofile' = [ofile EXCEPT ![p][First(fds)] = f]
             /\ file' = [file EXCEPT ![f].ref = @ + 1]
  /\ UNCHANGED <<fsvars, cwd, st, crashes>>

(* sys_close() and fileclose() up to its begin_op().                       *)
Close(p, fd) ==
  /\ FdCall(p, fd)
  /\ LET f == ofile[p][fd]
     IN
     /\ Panics(If(file[f].ref < 1, "fileclose"))
     /\ ofile' = [ofile EXCEPT ![p][fd] = 0]
     /\ IF file[f].ref > 1
        THEN file' = [file EXCEPT ![f].ref = @ - 1] /\ UNCHANGED st
        ELSE file' = [file EXCEPT ![f] = NoFile] /\ Go(p, [pc |-> "close", ip |-> file[f].ip])
  /\ UNCHANGED <<disk, saved, outstanding, itable, cwd, crashes>>

CloseLast(p) ==
  /\ At(p, "close")
  /\ outstanding' = outstanding + 1
  /\ Go(p, Put(<<st[p].ip>>, "end_op") @@ [ip |-> 0])
  /\ UNCHANGED <<disk, saved, itable, panic, files, cwd, calls, crashes>>

(* sys_read() of a block, or sys_fstat() when n is 0.                      *)
Read(p, fd, n) ==
  /\ FdCall(p, fd)
  /\ LET f == ofile[p][fd]
         i == file[f].ip
         r == IF file[f].off + n <= D(i).size THEN n ELSE 0
     IN
     /\ file[f].type = "inode"
     /\ Unlocked(i)
     /\ Panics(IlockPanics(i) \cup
               If(r = 1 /\ ~Mapped(disk, D(i), file[f].off), "log_write outside of trans"))
     /\ itable' = Ilock(itable, i, NoProc)
     /\ file' = [file EXCEPT ![f].off = @ + r]
  /\ UNCHANGED <<disk, saved, outstanding, ofile, cwd, st, crashes>>

(* sys_write() of n blocks to a file.                                      *)
Write(p, fd, n) ==
  /\ FdCall(p, fd)
  /\ file[ofile[p][fd]].type = "inode"
  /\ file[ofile[p][fd]].writable
  /\ Go(p, [pc |-> "write", f |-> ofile[p][fd], left |-> n])
  /\ UNCHANGED <<fsvars, files, cwd, crashes>>

(* The loop of filewrite(), one block to a transaction.                    *)
WriteBegin(p) ==
  /\ At(p, "write")
  /\ outstanding' = outstanding + 1
  /\ Go(p, [pc |-> "write_lock"])
  /\ UNCHANGED <<disk, saved, itable, panic, files, cwd, calls, crashes>>

WriteBlock(p, faults) ==
  /\ At(p, "write_lock")
  /\ LET f == st[p].f
         i == file[f].ip
         r == Writei(disk, i, D(i), file[f].off, faults)
     IN
     /\ Unlocked(i)
     /\ Panics(IlockPanics(i))
     /\ disk' = r.disk
     /\ itable' = SetD(Ilock(itable, i, NoProc), i, r.d)
     /\ file' = [file EXCEPT ![f].off = @ + r.n]
     /\ Go(p, [pc |-> "write_end", left |-> IF r.n = 1 THEN st[p].left - 1 ELSE 0])
  /\ UNCHANGED <<saved, outstanding, ofile, cwd, calls, crashes>>

WriteEnd(p) ==
  /\ At(p, "write_end")
  /\ outstanding' = outstanding - 1
  /\ saved' = IF outstanding = 1 THEN disk ELSE saved
  /\ IF st[p].left = 0 THEN Go(p, User) ELSE Go(p, [pc |-> "write"])
  /\ UNCHANGED <<disk, itable, panic, files, cwd, calls, crashes>>

-----------------------------------------------------------------------------
(* A crash: memory is lost, and recovery restores the last commit.         *)
Crash ==
  /\ panic = {}
  /\ crashes < MaxCrash
  /\ crashes' = crashes + 1
  /\ disk' = saved
  /\ outstanding' = 0
  /\ itable' = AllIn(ROOTINO)
  /\ file' = [f \in File |-> NoFile]
  /\ ofile' = [p \in Proc |-> [fd \in Fd |-> 0]]
  /\ cwd' = [p \in Proc |-> ROOTINO]
  /\ st' = [p \in Proc |-> User]
  /\ UNCHANGED <<saved, panic, calls>>

(* One step of the call that p is in.                                      *)
Step(p) ==
  \/ Namex(p) \/ NamexEnd(p) \/ Iput(p) \/ EndOp(p)
  \/ Unlink(p) \/ Create(p) \/ Link(p) \/ Chdir(p)
  \/ OpenFound(p) \/ OpenFile(p) \/ CloseLast(p)
  \/ WriteBegin(p) \/ WriteEnd(p)
  \/ \E faults \in BOOLEAN : WriteBlock(p, faults)

Begin(p) ==
  \/ \E c \in Calls : Start(p, c)
  \/ \E fd \in Fd :
       \/ Dup(p, fd) \/ Close(p, fd)
       \/ \E n \in {0, 1} : Read(p, fd, n)
       \/ \E n \in 1 .. MaxWrite : Write(p, fd, n)

Next ==
  \/ \E p \in Proc : Step(p) \/ Begin(p)
  \/ Crash

Spec == Init /\ [][Next]_vars

-----------------------------------------------------------------------------
Dinode == [type : {"none", "file", "dir", "dev", "nodev"}, nlink : Nat, size : 0 .. MAXFILE,
           addrs : [0 .. NDIRECT -> 0 .. NBLOCK]]

TypeOK ==
  /\ \A dk \in {disk, saved} :
        /\ dk.dinode \in [Inum -> Dinode]
        /\ dk.used \subseteq Block
  /\ outstanding \in 0 .. Cardinality(Proc)
  /\ \A i \in Inum : /\ itable[i].ref \in Nat
                     /\ itable[i].lock \in Proc \cup {NoProc}
                     /\ itable[i].d \in Dinode
  /\ \A f \in File : file[f].ref \in Nat /\ file[f].off \in 0 .. MAXFILE
  /\ ofile \in [Proc -> [Fd -> 0 .. NFILE]]
  /\ cwd \in [Proc -> Inum]

(* ilock() never meets a freed inode: what panic("ilock: no type")         *)
(* (kernel/fs.c:314) asserts.  It does: ".." of a directory that is        *)
(* removed while it is somebody's current directory goes on naming its     *)
(* parent, which counts no reference for it and may be removed and freed.  *)
IlockFindsType == "ilock: no type" \notin panic

(* The panics that calls reach are two: ilock() meets a freed inode, by    *)
(* way of ".." of a removed directory and no other; and the inode table is *)
(* full, as the code has no other answer to that.  iput() never sleeps     *)
(* under itable.lock, no free block is freed, no link is missing, no read  *)
(* allocates outside a transaction.                                        *)
NoPanic ==
  /\ panic \subseteq {"iget: no inodes", "ilock: no type"}
  /\ IlockFindsType \/ \E p \in Proc : st[p].up

(* The pointers to an inode: open files, current directories and the local *)
(* variables of the calls under way.                                       *)
References(i) ==
  Cardinality({x \in Proc \X {"cur", "ip", "dp"} : st[x[1]][x[2]] = i})
  + Cardinality(UNION {{<<p, k>> : k \in {n \in DOMAIN st[p].put : st[p].put[n] = i}} : p \in Proc})
  + Cardinality({p \in Proc : cwd[p] = i})
  + Cardinality({f \in File : file[f].ref > 0 /\ file[f].ip = i})

(* ip->ref of the inode table counts exactly the pointers to the inode,    *)
(* through all error paths of the calls, and f->ref of the file table the  *)
(* descriptors that stand for the file.                                    *)
RefExact ==
  /\ \A i \in Inum : itable[i].ref = References(i)
  /\ \A f \in File : file[f].ref =
        Cardinality({x \in Proc \X Fd : ofile[x[1]][x[2]] = f})

(* Every block marked used belongs to exactly one inode, and no other      *)
(* block belongs to any: no block is without an owner or has two, also in  *)
(* what a crash leaves.  (The owner may be an inode without links, that of *)
(* a file which was open when it was removed: after a crash nobody frees   *)
(* it.)  Every block below the size of a file is there.                    *)
BlocksExact ==
  \A dk \in {disk, saved} :
    /\ dk.used = UNION {BlocksOf(dk, dk.dinode[i]) : i \in Inum}
    /\ \A i, j \in Inum : i < j =>
          BlocksOf(dk, dk.dinode[i]) \cap BlocksOf(dk, dk.dinode[j]) = {}
    /\ \A i \in Inum : \A n \in 0 .. dk.dinode[i].size - 1 : Mapped(dk, dk.dinode[i], n)

(* The names of i in the directories that have links themselves.           *)
Links(dk, i) ==
  {x \in {j \in Inum : dk.dinode[j].type = "dir" /\ dk.dinode[j].nlink > 0} \X Name :
     dk.data[dk.dinode[x[1]].addrs[0]].ents[x[2]] = i}

(* What is committed is a file system in which every name leads to an      *)
(* inode that is allocated and counts it: no crash leaves a name for a     *)
(* freed inode.  (nlink may be too large: create() does not look at the    *)
(* nlink of the directory it enters a name in, which another process may   *)
(* have removed.)                                                          *)
NoDangling ==
  \A i \in Inum : LET n == Cardinality(Links(saved, i))
                  IN n > 0 => /\ saved.dinode[i].type # "none"
                              /\ saved.dinode[i].nlink >= n

(* The lookups that came to i by ".." of a removed directory.              *)
Climbers(i) == {p \in Proc : st[p].cur = i /\ st[p].up}

(* An inode is freed only when it has no links and the process that frees  *)
(* it has the only pointer: no open file, current directory or other call  *)
(* loses its inode.  The exception is a lookup of ".." in a removed        *)
(* directory, which may find the inode after iput() has looked at ip->ref  *)
(* and released itable.lock.  (A crash takes the disk back to the last     *)
(* commit.)                                                                *)
FreedUnused ==
  [][\A i \in Inum :
       (disk.dinode[i].type # "none" /\ disk'.dinode[i].type = "none" /\ crashes' = crashes)
         => disk.dinode[i].nlink = 0 /\ References(i) = 1 + Cardinality(Climbers(i))]_vars

(* The inode whose lock the next step of p acquires, or 0.                 *)
Wants(p) ==
  CASE At(p, "namex") /\ st[p].path # <<>> -> st[p].cur
    [] At(p, "found") -> st[p].cur
    [] st[p].pc \in {"unlink_ip", "create_old", "create_ip", "link_bad"} -> st[p].ip
    [] At(p, "write_lock") -> file[st[p].f].ip
    [] OTHER -> 0

Waits(p) == Wants(p) # 0 /\ ~Unlocked(Wants(p))

(* Calls never wait for each other in a circle: when some are under way,   *)
(* one of them does not wait for the lock of an inode.                     *)
NoCircularWait ==
  LET busy == {p \in Proc : st[p].pc # "user"}
  IN busy = {} \/ \E p \in busy : ~Waits(p)

(* File system calls panic only as NoPanic says and never block each other *)
(* for good.                                                               *)
CallInv == TypeOK /\ NoPanic /\ NoCircularWait

(* The disk, as it is and as a crash would leave it, is a file system.     *)
DiskInv == BlocksExact /\ NoDangling
=============================================================================
