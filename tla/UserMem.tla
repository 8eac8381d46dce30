------------------------------ MODULE UserMem -------------------------------
(***************************************************************************)
(* Physical memory and the processes that hold it: kalloc() and kfree()    *)
(* (kernel/kalloc.c), user page tables (kernel/vm.c), what allocproc(),    *)
(* freeproc(), fork() and growproc() (kernel/proc.c) and exec()            *)
(* (kernel/exec.c) take and give back.                                     *)
(*                                                                         *)
(* Pages are interchangeable, so they are counted: kmem.freelist is its    *)
(* length, a page table is the number of page-table pages it has and the   *)
(* set of virtual pages it maps.  A system call is one step.  The          *)
(* operators below carry what the C functions change in a record m:        *)
(*   free     length of kmem.freelist                                      *)
(*   lost     trapframe pages that nothing points to any more (history)    *)
(*   refreed  calls of kfree() with a stale pointer (history)              *)
(*   panic    panic() was called                                           *)
(*   pt       the page table being worked on                               *)
(*   ok       FALSE once an allocation has failed                          *)
(*   sz       size of the address space being built, or returned           *)
(***************************************************************************)
EXTENDS Integers, FiniteSets, SequencesExt

CONSTANTS
  NPROC,         (* process slots                                          *)
  NPAGES,        (* pages of physical memory                               *)
  PGSIZE,        (* bytes of a page                                        *)
  MaxSz,         (* bound of this model on the size of a program           *)
  Images         (* programs: for each segment, the address where it ends  *)

ASSUME UserMemConstants ==
  /\ NPROC \in Nat \ {0}
  /\ NPAGES \in Nat
  /\ PGSIZE \in Nat \ {0}
  /\ MaxSz \in Nat
  /\ \A img \in Images : img \in Seq(0 .. MaxSz)

VARIABLES
  slot,          (* the process table                                      *)
  mem,           (* the fields free, lost, refreed and panic of m          *)
  ret            (* result of the last system call                         *)

vars == <<slot, mem, ret>>

Slot == 1 .. NPROC
initproc == 1
Levels == 2                     (* page-table levels below the root        *)
Region == {"low", "high"}       (* user memory; trampoline and trapframe   *)

EmptyTable == [root |-> TRUE, tables |-> [g \in Region |-> 0],
               maps |-> [g \in Region |-> {}]]
NoTable == [EmptyTable EXCEPT !.root = FALSE]

PGROUNDUP(sz) == ((sz + PGSIZE - 1) \div PGSIZE) * PGSIZE
NPages(sz) == PGROUNDUP(sz) \div PGSIZE

-----------------------------------------------------------------------------
(* kernel/kalloc.c                                                         *)

kalloc(m) ==
  IF m.free = 0 THEN [m EXCEPT !.ok = FALSE] ELSE [m EXCEPT !.free = @ - 1]

kfree(m) == [m EXCEPT !.free = @ + 1]

-----------------------------------------------------------------------------
(* kernel/vm.c                                                             *)

(* walk() with alloc set: the levels it could allocate stay allocated.     *)
walk(m, g) ==
  LET need == Levels - m.pt.tables[g]
      got == IF need <= m.free THEN need ELSE m.free
  IN  [m EXCEPT !.free = @ - got, !.pt.tables[g] = @ + got, !.ok = got = need]

mappages(m, g, v) ==
  LET w == walk(m, g)
  IN  IF ~w.ok THEN w
      ELSE [w EXCEPT !.panic = @ \/ v \in w.pt.maps[g],     \* remap
                     !.pt.maps[g] = @ \cup {v}]

uvmunmap(m, g, vs, do_free) ==
  [m EXCEPT !.panic = @ \/ ~(vs \subseteq m.pt.maps[g]),    \* not mapped
            !.pt.maps[g] = @ \ vs,
            !.free = @ + IF do_free THEN Cardinality(vs) ELSE 0]

freewalk(m) ==
  [m EXCEPT !.panic = @ \/ \E g \in Region : m.pt.maps[g] # {},   \* leaf
            !.free = @ + m.pt.tables["low"] + m.pt.tables["high"] + 1,
            !.pt = NoTable]

uvmfree(m, sz) ==
  freewalk(uvmunmap(m, "low", 0 .. NPages(sz) - 1, TRUE))

(* Fault: the new size is rounded down, not up.                            *)
uvmdealloc_rounds_down(m, oldsz, newsz) ==
  IF newsz >= oldsz
  THEN [m EXCEPT !.sz = oldsz]
  ELSE [uvmunmap(m, "low", (newsz \div PGSIZE) .. NPages(oldsz) - 1, TRUE)
          EXCEPT !.sz = newsz]

uvmdealloc(m, oldsz, newsz) ==
  IF newsz >= oldsz
  THEN [m EXCEPT !.sz = oldsz]
  ELSE [uvmunmap(m, "low", NPages(newsz) .. NPages(oldsz) - 1, TRUE)
          EXCEPT !.sz = newsz]

(* Fault: a page that could not be mapped is not given back.               *)
AddPage_keeps_page(m, v) ==
  LET k == kalloc(m)
  IN  IF ~m.ok THEN m ELSE IF ~k.ok THEN k ELSE mappages(k, "low", v)

(* One turn of the loops of uvmalloc() and uvmcopy().                      *)
AddPage(m, v) ==
  LET k == kalloc(m)
      w == mappages(k, "low", v)
  IN  IF ~m.ok THEN m
      ELSE IF ~k.ok THEN k
      ELSE IF w.ok THEN w ELSE kfree(w)

AddPages(m, from, to) ==
  FoldLeft(AddPage, m, [k \in 1 .. (to - from) |-> from + k - 1])

(* How far the loop came: the pages it mapped.                             *)
Added(m, w) == w.pt.maps["low"] \ m.pt.maps["low"]

uvmalloc(m, oldsz, newsz) ==
  IF newsz < oldsz
  THEN [m EXCEPT !.sz = oldsz]
  ELSE LET first == NPages(oldsz)
           w == AddPages(m, first, NPages(newsz))
           a == first + Cardinality(Added(m, w))
       IN  IF w.ok
           THEN [w EXCEPT !.sz = newsz, !.ok = newsz # 0]
           ELSE [uvmdealloc(w, a * PGSIZE, first * PGSIZE)
                   EXCEPT !.sz = m.sz, !.ok = FALSE]

uvmcopy(m, old, sz) ==
  LET w == AddPages(m, 0, NPages(sz))
      copied == 0 .. Cardinality(Added(m, w)) - 1
      n == [w EXCEPT !.panic = @ \/ ~(0 .. NPages(sz) - 1 \subseteq old.maps["low"])]
  IN  IF w.ok THEN n ELSE uvmunmap(n, "low", copied, TRUE)

-----------------------------------------------------------------------------
(* kernel/proc.c                                                           *)

(* Fault: when the trampoline cannot be mapped the table is not freed.     *)
proc_pagetable_keeps_table(m) ==
  LET r == kalloc(m)
      a == mappages([r EXCEPT !.pt = EmptyTable], "high", "TRAMPOLINE")
  IN  IF ~r.ok THEN r ELSE IF ~a.ok THEN a ELSE mappages(a, "high", "TRAPFRAME")

proc_pagetable(m) ==
  LET r == kalloc(m)                                        \* uvmcreate()
      a == mappages([r EXCEPT !.pt = EmptyTable], "high", "TRAMPOLINE")
      b == mappages(a, "high", "TRAPFRAME")
  IN  IF ~r.ok THEN r
      ELSE IF ~a.ok THEN uvmfree(a, 0)
      ELSE IF ~b.ok THEN uvmfree(uvmunmap(b, "high", {"TRAMPOLINE"}, FALSE), 0)
      ELSE b

proc_freepagetable(m, sz) ==
  uvmfree(uvmunmap(uvmunmap(m, "high", {"TRAMPOLINE"}, FALSE),
                   "high", {"TRAPFRAME"}, FALSE), sz)

Work(pt) == [free |-> mem.free, lost |-> mem.lost, refreed |-> mem.refreed,
             panic |-> mem.panic, pt |-> pt, ok |-> TRUE, sz |-> 0]
Done(m) == [free |-> m.free, lost |-> m.lost, refreed |-> m.refreed,
            panic |-> m.panic]

Unused(copy) == [state |-> "UNUSED", trapframe |-> FALSE, copy |-> copy,
                 pt |-> NoTable, sz |-> 0]

(* freeproc(): the page of trapframe_copy is freed and the pointer stays;  *)
(* the pointer to trapframe is cleared and its page stays.                 *)
freeproc(m, s) ==
  LET n == [m EXCEPT !.free = @ + IF s.copy # "null" THEN 1 ELSE 0,
                     !.refreed = @ + IF s.copy = "stale" THEN 1 ELSE 0,
                     !.lost = @ + IF s.trapframe THEN 1 ELSE 0,
                     !.pt = s.pt]
  IN  IF s.pt.root THEN proc_freepagetable(n, s.sz) ELSE n

Freed(s) == Unused(IF s.copy = "null" THEN "null" ELSE "stale")

(* allocproc() with the slot q found: the record m, the slot as it leaves  *)
(* it, and whether it returns the slot.                                    *)
allocproc(m, q) ==
  LET s0 == [slot[q] EXCEPT !.state = "USED"]
      s1 == [s0 EXCEPT !.trapframe = TRUE]
      t == kalloc(m)
      a == proc_pagetable(t)
      s2 == [s1 EXCEPT !.pt = a.pt]
      c == kalloc(a)
  IN  IF ~t.ok THEN [m |-> freeproc(t, s0), s |-> Freed(s0), found |-> FALSE]
      ELSE IF ~a.ok THEN [m |-> freeproc(a, s1), s |-> Freed(s1), found |-> FALSE]
      ELSE IF ~c.ok THEN [m |-> c, s |-> [s2 EXCEPT !.copy = "null"], found |-> FALSE]
      ELSE [m |-> c, s |-> [s2 EXCEPT !.copy = "mine"], found |-> TRUE]

kinit == [free |-> NPAGES, lost |-> 0, refreed |-> 0, panic |-> FALSE,
          pt |-> NoTable, ok |-> TRUE, sz |-> 0]

(* userinit(): the first process, with one page.                           *)
Init ==
  LET a == proc_pagetable(kalloc(kinit))
      u == AddPages(kalloc(a), 0, 1)                        \* uvmfirst()
  IN  /\ slot = [q \in Slot |->
                   IF q = initproc
                   THEN [state |-> "LIVE", trapframe |-> TRUE, copy |-> "mine",
                         pt |-> u.pt, sz |-> PGSIZE]
                   ELSE Unused("null")]
      /\ mem = Done(u)
      /\ ret = 0

Live(p) == slot[p].state = "LIVE"

(* Once a stale pointer was freed the free list holds a page in use, and   *)
(* what the program does from then on is undefined.                        *)
Defined == mem.refreed = 0

fork(p) ==
  LET unused == {q \in Slot : slot[q].state = "UNUSED"}
      q == CHOOSE x \in unused : \A y \in unused : x <= y
      np == allocproc(Work(NoTable), q)
      c == uvmcopy(np.m, slot[p].pt, slot[p].sz)
      s == [np.s EXCEPT !.pt = c.pt]
  IN  /\ Defined
      /\ Live(p)
      /\ IF unused = {}
         THEN ret' = -1 /\ UNCHANGED <<slot, mem>>
         ELSE IF ~np.found
         THEN /\ ret' = -1
              /\ slot' = [slot EXCEPT ![q] = np.s]
              /\ mem' = Done(np.m)
         ELSE IF ~c.ok
         THEN /\ ret' = -1
              /\ slot' = [slot EXCEPT ![q] = Freed(s)]
              /\ mem' = Done(freeproc(c, s))
         ELSE /\ ret' = 0
              /\ slot' = [slot EXCEPT ![q] = [s EXCEPT !.state = "LIVE",
                                                       !.sz = slot[p].sz]]
              /\ mem' = Done(c)

exit(p) ==
  /\ Defined
  /\ Live(p) /\ p # initproc
  /\ slot' = [slot EXCEPT ![p].state = "ZOMBIE"]
  /\ ret' = 0
  /\ UNCHANGED mem

(* wait() frees a zombie.                                                  *)
wait(q) ==
  /\ Defined
  /\ slot[q].state = "ZOMBIE"
  /\ slot' = [slot EXCEPT ![q] = Freed(slot[q])]
  /\ mem' = Done(freeproc(Work(NoTable), slot[q]))
  /\ ret' = 0

(* growproc(), for sbrk().  Sizes are unsigned: to shrink by more than     *)
(* there is makes a huge size, which uvmdealloc() does not take.           *)
growproc(p, n) ==
  LET sz == slot[p].sz
      m == IF n > 0 THEN uvmalloc(Work(slot[p].pt), sz, sz + n)
           ELSE IF n < 0 /\ sz + n >= 0 THEN uvmdealloc(Work(slot[p].pt), sz, sz + n)
           ELSE [Work(slot[p].pt) EXCEPT !.sz = sz]
  IN  /\ Defined
      /\ Live(p)
      /\ sz + n <= MaxSz
      /\ slot' = [slot EXCEPT ![p].pt = m.pt, ![p].sz = IF m.ok THEN m.sz ELSE @]
      /\ mem' = Done(m)
      /\ ret' = IF m.ok THEN 0 ELSE -1

-----------------------------------------------------------------------------
(* kernel/exec.c                                                           *)

LoadSegment(m, end) == IF m.ok THEN uvmalloc(m, m.sz, end) ELSE m

(* exec() of a program of which only the first `read' segments can be      *)
(* read; args tells whether the arguments fit the stack.                   *)
exec(p, img, read, args) ==
  LET t == proc_pagetable(Work(NoTable))
      l == FoldLeft(LoadSegment, t, SubSeq(img, 1, read))
      up == [l EXCEPT !.sz = PGROUNDUP(l.sz)]
      k == uvmalloc(up, up.sz, up.sz + 2 * PGSIZE)
      new == IF ~l.ok \/ read < Len(img) THEN [l EXCEPT !.ok = FALSE]
             ELSE [k EXCEPT !.ok = k.ok /\ args]
      old == proc_freepagetable([new EXCEPT !.pt = slot[p].pt], slot[p].sz)
  IN  /\ Defined
      /\ Live(p)
      /\ IF ~t.ok
         THEN ret' = -1 /\ mem' = Done(t) /\ UNCHANGED slot
         ELSE IF ~new.ok
         THEN ret' = -1 /\ mem' = Done(proc_freepagetable(new, new.sz)) /\ UNCHANGED slot
         ELSE /\ ret' = 0
              /\ mem' = Done(old)
              /\ slot' = [slot EXCEPT ![p].pt = new.pt, ![p].sz = new.sz]

-----------------------------------------------------------------------------
Next ==
  \/ \E p \in Slot : fork(p)
  \/ \E p \in Slot : exit(p)
  \/ \E q \in Slot : wait(q)
  \/ \E p \in Slot, n \in -MaxSz .. MaxSz : growproc(p, n)
  \/ \E p \in Slot, img \in Images, args \in BOOLEAN :
       \E read \in 0 .. Len(img) : exec(p, img, read, args)

Spec == Init /\ [][Next]_vars

-----------------------------------------------------------------------------
TypeOK ==
  /\ mem.free \in 0 .. NPAGES
  /\ mem.lost \in Nat /\ mem.refreed \in Nat /\ mem.panic \in BOOLEAN
  /\ ret \in {0, -1}
  /\ \A q \in Slot :
       /\ slot[q].state \in {"UNUSED", "USED", "LIVE", "ZOMBIE"}
       /\ slot[q].trapframe \in BOOLEAN
       /\ slot[q].copy \in {"null", "mine", "stale"}
       /\ slot[q].pt.root \in BOOLEAN
       /\ \A g \in Region : slot[q].pt.tables[g] \in 0 .. Levels
       /\ slot[q].pt.maps["low"] \subseteq 0 .. MaxSz
       /\ slot[q].pt.maps["high"] \subseteq {"TRAMPOLINE", "TRAPFRAME"}
       /\ slot[q].sz \in 0 .. MaxSz

(* Pages that the fields of a slot point to, not counting stale pointers.  *)
One(b) == IF b THEN 1 ELSE 0
TablePages(pt) == One(pt.root) + pt.tables["low"] + pt.tables["high"]
Held(s) == One(s.trapframe) + One(s.copy = "mine") + TablePages(s.pt)
             + Cardinality(s.pt.maps["low"])
InUse == SumFunction([q \in Slot |-> Held(slot[q])])

(* Every page is either free or in use, on every path through fork(),      *)
(* exec(), sbrk(), exit() and wait() and whichever of their allocations    *)
(* fails: apart from the trapframes that freeproc() forgets and the stale  *)
(* pointers that it frees again, nothing is lost and nothing freed twice.  *)
(* What is lost is one page for each reaped process, which the test        *)
(* "FAILED -- lost some free pages" (user/usertests.c:3068) would meet.    *)
Accounting == TypeOK /\ mem.free + InUse + mem.lost = NPAGES + mem.refreed

(* A process has exactly the pages below its size, the trampoline and its  *)
(* trapframe, whatever failed while its memory was built: what copyin(),   *)
(* uvmcopy() and uvmfree() take for granted.  None of the panics of vm.c   *)
(* ("remap", "not mapped", "freewalk: leaf", "page not present") is        *)
(* reached: every error path unmaps what was mapped before it frees the    *)
(* page table.                                                             *)
SizeIsMapped ==
  /\ ~mem.panic
  /\ \A q \in Slot : slot[q].state \in {"LIVE", "ZOMBIE"} =>
       /\ slot[q].trapframe
       /\ slot[q].pt.maps["low"] = 0 .. NPages(slot[q].sz) - 1
       /\ slot[q].pt.maps["high"] = {"TRAMPOLINE", "TRAPFRAME"}

(* The pages that are free or belong to a process, which gives them back   *)
(* when it ends.                                                           *)
Reach ==
  mem.free - mem.refreed +
    SumFunction([q \in Slot |->
      IF slot[q].state \in {"LIVE", "ZOMBIE"} THEN Held(slot[q]) ELSE 0])

(* What a system call costs that fails, wherever its memory ran out.       *)
(* Every process keeps its size, its mapped pages and its trapframe, and   *)
(* no page goes out of reach: exec() and sbrk() may fail for ever.  A      *)
(* failed fork() may cost one trapframe (freeproc() forgets it, on the     *)
(* error paths of allocproc() and of uvmcopy()), or the slot: without a    *)
(* page for trapframe_copy allocproc() returns with the slot USED, and it  *)
(* stays so with its trapframe and page table.  It costs nothing else, and *)
(* never both.                                                             *)
FailureCost ==
  [][ret' = -1 =>
       /\ \A q \in Slot : Live(q) =>
            /\ slot'[q].sz = slot[q].sz
            /\ slot'[q].pt.maps = slot[q].pt.maps
            /\ slot'[q].trapframe = slot[q].trapframe
       /\ \/ Reach' = Reach
          \/ Reach' = Reach - 1 /\ mem'.lost = mem.lost + 1
          \/ \E q \in Slot :
               /\ slot[q].state = "UNUSED" /\ slot'[q].state = "USED"
               /\ Reach' = Reach - (TablePages(slot'[q].pt) + 1)
               /\ mem'.lost = mem.lost]_vars
=============================================================================
