-------------------------------- MODULE Proc --------------------------------
(***************************************************************************)
(* The life of processes in kernel/proc.c: fork, exit, wait, kill, yield,  *)
(* sleep and wakeup, and the round-robin scheduler of the default build,   *)
(* on several CPUs.  The steps are those between which another CPU can     *)
(* act: every acquire that is not released in the same step, and every     *)
(* swtch, is a step of its own, so that the hand-over of p->lock from a    *)
(* process to the scheduler of its CPU and back is visible.                *)
(*                                                                         *)
(* A lock is held by a CPU (struct spinlock's cpu field).  The only chan a *)
(* process of this module sleeps on is itself, in wait().                  *)
(***************************************************************************)
EXTENDS Integers, FiniteSets

CONSTANTS
  NPROC,         (* slots of proc[]; slot 1 is initproc                    *)
  CPU,           (* the CPUs                                               *)
  Machines       (* the sets of CPUs that a machine may have               *)

ASSUME ProcConstants ==
  /\ NPROC \in Nat \ {0}
  /\ CPU \cap (-1 .. NPROC) = {}
  /\ Machines \subseteq SUBSET CPU

None == 0        (* no process, no CPU, no chan                            *)
Off == -1        (* the "process" of a CPU that the machine does not have  *)
Slot == 1 .. NPROC
initproc == 1

VARIABLES
  state,         (* p->state                                               *)
  chan,          (* p->chan: None or a slot                                *)
  killed,        (* p->killed                                              *)
  parent,        (* p->parent                                              *)
  plock,         (* CPU that holds p->lock, or None                        *)
  wait_lock,     (* CPU that holds wait_lock, or None                      *)
  cproc,         (* c->proc                                                *)
  pc,            (* where the kernel thread of the process is              *)
  susp,          (* how it left its CPU: where swtch() will resume it      *)
  np,            (* fork(): the slot allocproc() returned                  *)
  i              (* loop index of wait(), reparent() or wakeup()           *)

vars == <<state, chan, killed, parent, plock, wait_lock, cproc, pc, susp, np, i>>

States == {"UNUSED", "USED", "SLEEPING", "RUNNABLE", "RUNNING", "ZOMBIE"}
PCs == {"none", "user", "fork_fill", "fork_parent", "fork_run", "exit",
        "reparent", "wake_init", "wake_parent", "exit_lock", "zombie",
        "wait", "scan", "sleep_lock", "sleep_release", "sleep_switch",
        "relock"}
Susps == {"on_cpu", "forkret", "yield", "sleep", "zombie"}

Init ==
  /\ state = [p \in Slot |-> IF p = initproc THEN "RUNNABLE" ELSE "UNUSED"]
  /\ chan = [p \in Slot |-> None]
  /\ killed = [p \in Slot |-> FALSE]
  /\ parent = [p \in Slot |-> None]
  /\ plock = [p \in Slot |-> None]
  /\ wait_lock = None
  /\ \E M \in Machines : cproc = [c \in CPU |-> IF c \in M THEN None ELSE Off]
  /\ pc = [p \in Slot |-> IF p = initproc THEN "user" ELSE "none"]
  /\ susp = [p \in Slot |-> "forkret"]
  /\ np = [p \in Slot |-> None]
  /\ i = [p \in Slot |-> 1]

(* c executes the kernel thread of p, at label l.                          *)
On(c, p, l) == cproc[c] = p /\ susp[p] = "on_cpu" /\ pc[p] = l
Goto(p, l) == pc' = [pc EXCEPT ![p] = l]
Free(p) == plock[p] = None
LoopEnds(p) == i' = [i EXCEPT ![p] = 1]

-----------------------------------------------------------------------------
(* scheduler(): acquire p->lock, find p RUNNABLE, swtch to it.             *)
Dispatch(c, p) ==
  /\ cproc[c] = None
  /\ Free(p)
  /\ state[p] = "RUNNABLE"
  /\ plock' = [plock EXCEPT ![p] = c]
  /\ state' = [state EXCEPT ![p] = "RUNNING"]
  /\ cproc' = [cproc EXCEPT ![c] = p]
  /\ UNCHANGED <<chan, killed, parent, wait_lock, pc, susp, np, i>>

(* The process side of that swtch: forkret(), or the rest of yield() or of *)
(* sleep(), releases p->lock.                                              *)
Resume(c, p) ==
  /\ cproc[c] = p
  /\ susp[p] \in {"forkret", "yield", "sleep"}
  /\ state[p] = "RUNNING"
  /\ plock' = [plock EXCEPT ![p] = None]
  /\ susp' = [susp EXCEPT ![p] = "on_cpu"]
  /\ chan' = [chan EXCEPT ![p] = IF susp[p] = "sleep" THEN None ELSE @]
  /\ UNCHANGED <<state, killed, parent, wait_lock, cproc, pc, np, i>>

(* The scheduler side of the swtch in sched(): the process is done running.*)
SwitchedOut(c, p) ==
  /\ cproc[c] = p
  /\ susp[p] # "on_cpu"
  /\ state[p] # "RUNNING"
  /\ cproc' = [cproc EXCEPT ![c] = None]
  /\ plock' = [plock EXCEPT ![p] = None]
  /\ UNCHANGED <<state, chan, killed, parent, wait_lock, pc, susp, np, i>>

(* A timer interrupt makes the process yield(), in user space or anywhere  *)
(* in the kernel where it holds no spinlock.                               *)
Preemptible == {"user", "fork_parent", "fork_run", "exit", "wait", "relock"}

(* Fault: yield() does not take p->lock before it sets RUNNABLE.           *)
yield_unlocked(c, p) ==
  /\ \E l \in Preemptible : On(c, p, l)
  /\ Free(p)
  /\ state' = [state EXCEPT ![p] = "RUNNABLE"]
  /\ susp' = [susp EXCEPT ![p] = "yield"]
  /\ UNCHANGED <<chan, killed, parent, plock, wait_lock, cproc, pc, np, i>>

yield(c, p) ==
  /\ \E l \in Preemptible : On(c, p, l)
  /\ Free(p)
  /\ plock' = [plock EXCEPT ![p] = c]
  /\ state' = [state EXCEPT ![p] = "RUNNABLE"]
  /\ susp' = [susp EXCEPT ![p] = "yield"]
  /\ UNCHANGED <<chan, killed, parent, wait_lock, cproc, pc, np, i>>

-----------------------------------------------------------------------------
(* fork(): allocproc() returns a slot with its lock held.                  *)
allocproc(c, p, q) ==
  /\ On(c, p, "user")
  /\ ~killed[p]
  /\ Free(q)
  /\ state[q] = "UNUSED"
  /\ plock' = [plock EXCEPT ![q] = c]
  /\ state' = [state EXCEPT ![q] = "USED"]
  /\ susp' = [susp EXCEPT ![q] = "forkret"]
  /\ pc' = [pc EXCEPT ![p] = "fork_fill", ![q] = "user"]
  /\ np' = [np EXCEPT ![p] = q]
  /\ UNCHANGED <<chan, killed, parent, wait_lock, cproc, i>>

(* freeproc(): the fields this module has.                                 *)
freeproc(q) ==
  /\ parent' = [parent EXCEPT ![q] = None]
  /\ chan' = [chan EXCEPT ![q] = None]
  /\ killed' = [killed EXCEPT ![q] = FALSE]
  /\ state' = [state EXCEPT ![q] = "UNUSED"]
  /\ plock' = [plock EXCEPT ![q] = None]

(* uvmcopy() fails: the slot is given back.                                *)
ForkFails(c, p) ==
  /\ On(c, p, "fork_fill")
  /\ freeproc(np[p])
  /\ pc' = [pc EXCEPT ![p] = "user", ![np[p]] = "none"]
  /\ np' = [np EXCEPT ![p] = None]
  /\ UNCHANGED <<wait_lock, cproc, susp, i>>

ForkFilled(c, p) ==
  /\ On(c, p, "fork_fill")
  /\ plock' = [plock EXCEPT ![np[p]] = None]
  /\ Goto(p, "fork_parent")
  /\ UNCHANGED <<state, chan, killed, parent, wait_lock, cproc, susp, np, i>>

ForkParent(c, p) ==
  /\ On(c, p, "fork_parent")
  /\ wait_lock = None
  /\ parent' = [parent EXCEPT ![np[p]] = p]
  /\ Goto(p, "fork_run")
  /\ UNCHANGED <<state, chan, killed, plock, wait_lock, cproc, susp, np, i>>

ForkRun(c, p) ==
  /\ On(c, p, "fork_run")
  /\ Free(np[p])
  /\ state' = [state EXCEPT ![np[p]] = "RUNNABLE"]
  /\ np' = [np EXCEPT ![p] = None]
  /\ Goto(p, "user")
  /\ UNCHANGED <<chan, killed, parent, plock, wait_lock, cproc, susp, i>>

-----------------------------------------------------------------------------
(* Fault: kill() makes its victim RUNNABLE whatever it was doing.          *)
kill_always_runnable(c, p, q) ==
  /\ On(c, p, "user")
  /\ ~killed[p]
  /\ q # initproc
  /\ state[q] # "UNUSED"
  /\ Free(q)
  /\ killed' = [killed EXCEPT ![q] = TRUE]
  /\ state' = [state EXCEPT ![q] = "RUNNABLE"]
  /\ UNCHANGED <<chan, parent, plock, wait_lock, cproc, pc, susp, np, i>>

(* kill(): of any process but init; the caller's own state does not matter.*)
kill(c, p, q) ==
  /\ On(c, p, "user")
  /\ ~killed[p]
  /\ q # initproc
  /\ state[q] # "UNUSED"
  /\ Free(q)
  /\ killed' = [killed EXCEPT ![q] = TRUE]
  /\ state' = [state EXCEPT ![q] = IF @ = "SLEEPING" THEN "RUNNABLE" ELSE @]
  /\ UNCHANGED <<chan, parent, plock, wait_lock, cproc, pc, susp, np, i>>

(* Fault: wakeup() looks at a process without its lock.                    *)
wakeup_unlocked(p, ch) ==
  /\ i[p] \in Slot
  /\ state' = [q \in Slot |->
       IF q = i[p] /\ q # p /\ state[q] = "SLEEPING" /\ chan[q] = ch
       THEN "RUNNABLE" ELSE state[q]]
  /\ i' = [i EXCEPT ![p] = @ + 1]
  /\ UNCHANGED <<chan, killed, parent, plock, wait_lock, cproc, pc, susp, np>>

(* One process of wakeup()'s loop, run by p for channel ch.                *)
wakeup(p, ch) ==
  /\ i[p] \in Slot
  /\ i[p] # p => Free(i[p])
  /\ state' = [q \in Slot |->
       IF q = i[p] /\ q # p /\ state[q] = "SLEEPING" /\ chan[q] = ch
       THEN "RUNNABLE" ELSE state[q]]
  /\ i' = [i EXCEPT ![p] = @ + 1]
  /\ UNCHANGED <<chan, killed, parent, plock, wait_lock, cproc, pc, susp, np>>

-----------------------------------------------------------------------------
(* exit(), by the program or by usertrap() for a killed process.  Closing  *)
(* the files and dropping the current directory come first.                *)
ExitStart(c, p) ==
  /\ On(c, p, "user")
  /\ p # initproc
  /\ Goto(p, "exit")
  /\ UNCHANGED <<state, chan, killed, parent, plock, wait_lock, cproc, susp, np, i>>

ExitLock(c, p) ==
  /\ On(c, p, "exit")
  /\ wait_lock = None
  /\ wait_lock' = c
  /\ Goto(p, "reparent")
  /\ UNCHANGED <<state, chan, killed, parent, plock, cproc, susp, np, i>>

Children(p) == {q \in Slot : parent[q] = p}

(* Fault: only the children that have exited are given to init.            *)
reparent_zombies_only(c, p) ==
  LET Orphans == {q \in Children(p) : state[q] = "ZOMBIE"} IN
  /\ On(c, p, "reparent")
  /\ IF Orphans = {}
     THEN Goto(p, "wake_parent") /\ UNCHANGED parent
     ELSE /\ \E q \in Orphans : parent' = [parent EXCEPT ![q] = initproc]
          /\ Goto(p, "wake_init")
  /\ UNCHANGED <<state, chan, killed, plock, wait_lock, cproc, susp, np, i>>

(* reparent(): the next child goes to init, which is woken, until no child *)
(* is left.  The table is scanned from the start each time: wait_lock is   *)
(* held, so no child appears in the part already scanned.                  *)
reparent(c, p) ==
  /\ On(c, p, "reparent")
  /\ IF Children(p) = {}
     THEN /\ Goto(p, "wake_parent")
          /\ UNCHANGED parent
     ELSE /\ \E q \in Children(p) :
               /\ \A r \in Children(p) : q <= r
               /\ parent' = [parent EXCEPT ![q] = initproc]
          /\ Goto(p, "wake_init")
  /\ UNCHANGED <<state, chan, killed, plock, wait_lock, cproc, susp, np, i>>

WakeInit(c, p) ==
  /\ On(c, p, "wake_init")
  /\ wakeup(p, initproc)

WokeInit(c, p) ==
  /\ On(c, p, "wake_init")
  /\ i[p] > NPROC
  /\ LoopEnds(p)
  /\ Goto(p, "reparent")
  /\ UNCHANGED <<state, chan, killed, parent, plock, wait_lock, cproc, susp, np>>

WakeParent(c, p) ==
  /\ On(c, p, "wake_parent")
  /\ wakeup(p, parent[p])

WokeParent(c, p) ==
  /\ On(c, p, "wake_parent")
  /\ i[p] > NPROC
  /\ LoopEnds(p)
  /\ Goto(p, "exit_lock")
  /\ UNCHANGED <<state, chan, killed, parent, plock, wait_lock, cproc, susp, np>>

BecomeZombie(c, p) ==
  /\ On(c, p, "exit_lock")
  /\ Free(p)
  /\ plock' = [plock EXCEPT ![p] = c]
  /\ state' = [state EXCEPT ![p] = "ZOMBIE"]
  /\ wait_lock' = None
  /\ Goto(p, "zombie")
  /\ UNCHANGED <<chan, killed, parent, cproc, susp, np, i>>

ExitSwitch(c, p) ==
  /\ On(c, p, "zombie")
  /\ susp' = [susp EXCEPT ![p] = "zombie"]
  /\ UNCHANGED <<state, chan, killed, parent, plock, wait_lock, cproc, pc, np, i>>

-----------------------------------------------------------------------------
(* wait(): the system call, and again after a sleep.                       *)
WaitCall(c, p) ==
  /\ On(c, p, "user")
  /\ ~killed[p]
  /\ Goto(p, "wait")
  /\ UNCHANGED <<state, chan, killed, parent, plock, wait_lock, cproc, susp, np, i>>

(* acquire(&wait_lock), before the loop or at the end of sleep().          *)
WaitLock(c, p) ==
  /\ On(c, p, "wait") \/ On(c, p, "relock")
  /\ wait_lock = None
  /\ wait_lock' = c
  /\ Goto(p, "scan")
  /\ UNCHANGED <<state, chan, killed, parent, plock, cproc, susp, np, i>>

(* The scan passes a slot that is not a child, or a child not a zombie.    *)
ScanNext(c, p) ==
  /\ On(c, p, "scan")
  /\ i[p] \in Slot
  /\ parent[i[p]] = p => Free(i[p]) /\ state[i[p]] # "ZOMBIE"
  /\ i' = [i EXCEPT ![p] = @ + 1]
  /\ UNCHANGED <<state, chan, killed, parent, plock, wait_lock, cproc, pc, susp, np>>

(* A zombie child is freed.                                                *)
Reap(c, p) ==
  /\ On(c, p, "scan")
  /\ i[p] \in Slot
  /\ parent[i[p]] = p
  /\ Free(i[p])
  /\ state[i[p]] = "ZOMBIE"
  /\ freeproc(i[p])
  /\ wait_lock' = None
  /\ pc' = [pc EXCEPT ![p] = "user", ![i[p]] = "none"]
  /\ LoopEnds(p)
  /\ UNCHANGED <<cproc, susp, np>>

(* copyout() of the status fails: the zombie stays.  Not in init, whose    *)
(* program (user/init.c) passes a null pointer.                            *)
ReapFails(c, p) ==
  /\ On(c, p, "scan")
  /\ p # initproc
  /\ i[p] \in Slot
  /\ parent[i[p]] = p
  /\ Free(i[p])
  /\ state[i[p]] = "ZOMBIE"
  /\ wait_lock' = None
  /\ LoopEnds(p)
  /\ Goto(p, "user")
  /\ UNCHANGED <<state, chan, killed, parent, plock, cproc, susp, np>>

(* Fault: the scan of wait() stops before the last slot.                   *)
ScanDone_skips_last(c, p) ==
  /\ On(c, p, "scan")
  /\ i[p] >= NPROC
  /\ Free(p)
  /\ IF Children(p) \ {NPROC} = {} \/ killed[p]
     THEN Goto(p, "user") /\ wait_lock' = None
     ELSE Goto(p, "sleep_lock") /\ UNCHANGED wait_lock
  /\ LoopEnds(p)
  /\ UNCHANGED <<state, chan, killed, parent, plock, cproc, susp, np>>

(* No zombie: give up if there is no child or p is killed, else sleep().   *)
ScanDone(c, p) ==
  /\ On(c, p, "scan")
  /\ i[p] > NPROC
  /\ Children(p) # {} => Free(p)
  /\ IF Children(p) = {} \/ killed[p]
     THEN Goto(p, "user") /\ wait_lock' = None
     ELSE Goto(p, "sleep_lock") /\ UNCHANGED wait_lock
  /\ LoopEnds(p)
  /\ UNCHANGED <<state, chan, killed, parent, plock, cproc, susp, np>>

SleepLock(c, p) ==
  /\ On(c, p, "sleep_lock")
  /\ Free(p)
  /\ plock' = [plock EXCEPT ![p] = c]
  /\ Goto(p, "sleep_release")
  /\ UNCHANGED <<state, chan, killed, parent, wait_lock, cproc, susp, np, i>>

SleepRelease(c, p) ==
  /\ On(c, p, "sleep_release")
  /\ wait_lock' = None
  /\ Goto(p, "sleep_switch")
  /\ UNCHANGED <<state, chan, killed, parent, plock, cproc, susp, np, i>>

SleepSwitch(c, p) ==
  /\ On(c, p, "sleep_switch")
  /\ chan' = [chan EXCEPT ![p] = p]
  /\ state' = [state EXCEPT ![p] = "SLEEPING"]
  /\ susp' = [susp EXCEPT ![p] = "sleep"]
  /\ Goto(p, "relock")
  /\ UNCHANGED <<killed, parent, plock, wait_lock, cproc, np, i>>

-----------------------------------------------------------------------------
Scheduling(c, p) == Dispatch(c, p) \/ Resume(c, p) \/ SwitchedOut(c, p)

Fork(c, p) ==
  \/ \E q \in Slot : allocproc(c, p, q)
  \/ ForkFails(c, p) \/ ForkFilled(c, p) \/ ForkParent(c, p) \/ ForkRun(c, p)

Exit(c, p) ==
  \/ ExitStart(c, p) \/ ExitLock(c, p) \/ reparent(c, p) \/ WakeInit(c, p)
  \/ WokeInit(c, p) \/ WakeParent(c, p) \/ WokeParent(c, p) \/ BecomeZombie(c, p)
  \/ ExitSwitch(c, p)

Wait(c, p) ==
  \/ WaitCall(c, p) \/ WaitLock(c, p) \/ ScanNext(c, p) \/ Reap(c, p)
  \/ ReapFails(c, p) \/ ScanDone(c, p) \/ SleepLock(c, p) \/ SleepRelease(c, p)
  \/ SleepSwitch(c, p)

Next ==
  \E c \in CPU, p \in Slot :
    \/ Scheduling(c, p)
    \/ yield(c, p)
    \/ Fork(c, p)
    \/ \E q \in Slot : kill(c, p, q)
    \/ Exit(c, p)
    \/ Wait(c, p)

(***************************************************************************)
(* Fairness, on a machine with one CPU.  A process that has a step of its  *)
(* own to take, other than the choices its program makes, takes it         *)
(* whenever it keeps getting the chance: the timer preempts it only        *)
(* between instructions.  The scheduler's loop visits every slot, so a     *)
(* process that is RUNNABLE again and again is run.  The timer interrupt,  *)
(* pending while interrupts are off, does not let a process keep its CPU   *)
(* for ever.  A killed process leaves user space at the next trap, and     *)
(* init's program calls wait() forever.                                    *)
(*                                                                         *)
(* Nothing of the kind is assumed of two CPUs: a spinning acquire() has no *)
(* turn, and one CPU may find wait_lock taken by the other each time.      *)
(***************************************************************************)
OneCpuOnly == Cardinality({c \in CPU : cproc[c] # Off}) = 1

Thread(c, p) ==
  \/ ForkFails(c, p) \/ ForkFilled(c, p) \/ ForkParent(c, p) \/ ForkRun(c, p)
  \/ ExitLock(c, p) \/ reparent(c, p) \/ WakeInit(c, p) \/ WokeInit(c, p)
  \/ WakeParent(c, p) \/ WokeParent(c, p) \/ BecomeZombie(c, p) \/ ExitSwitch(c, p)
  \/ WaitLock(c, p) \/ ScanNext(c, p) \/ Reap(c, p) \/ ReapFails(c, p)
  \/ ScanDone(c, p) \/ SleepLock(c, p) \/ SleepRelease(c, p) \/ SleepSwitch(c, p)
  \/ killed[p] /\ ExitStart(c, p)

Fairness ==
  /\ SF_vars(OneCpuOnly /\ \E c \in CPU : WaitCall(c, initproc))
  /\ \A p \in Slot :
       /\ SF_vars(OneCpuOnly /\ \E c \in CPU : Dispatch(c, p))
       /\ SF_vars(OneCpuOnly /\ \E c \in CPU : Thread(c, p))
  /\ WF_vars(OneCpuOnly /\ \E c \in CPU, p \in Slot : Resume(c, p) \/ SwitchedOut(c, p))
  /\ SF_vars(OneCpuOnly /\ \E c \in CPU, p \in Slot : yield(c, p))

Spec == Init /\ [][Next]_vars /\ Fairness

-----------------------------------------------------------------------------
TypeOK ==
  /\ state \in [Slot -> States]
  /\ chan \in [Slot -> Slot \cup {None}]
  /\ killed \in [Slot -> BOOLEAN]
  /\ parent \in [Slot -> Slot \cup {None}]
  /\ plock \in [Slot -> CPU \cup {None}]
  /\ wait_lock \in CPU \cup {None}
  /\ cproc \in [CPU -> Slot \cup {None, Off}]
  /\ pc \in [Slot -> PCs]
  /\ susp \in [Slot -> Susps]
  /\ np \in [Slot -> Slot \cup {None}]
  /\ i \in [Slot -> 1 .. NPROC + 1]

(* No process runs on two CPUs, nor is dispatched while the CPU it leaves  *)
(* is still on its kernel stack: what p->lock, kept across swtch(), is for *)
(* (scheduler() and sched()).                                              *)
OneCPU ==
  \A c, d \in CPU : cproc[c] = cproc[d] /\ cproc[c] \in Slot => c = d

(* Whoever holds p->lock, or finds it free, sees a state that is true: a   *)
(* process whose lock is free is RUNNING exactly when a CPU runs it.       *)
UnlockedStateIsTrue ==
  \A p \in Slot :
    Free(p) => (state[p] = "RUNNING" <=> \E c \in CPU : cproc[c] = p)

(* wait() never frees a child that is still in exit() or swtch() on        *)
(* another CPU, and fork() never gives such a slot out.                    *)
FreedIsOffCPU ==
  \A p \in Slot, c \in CPU : state[p] \in {"UNUSED", "USED"} => cproc[c] # p

(* sched() does not panic: a CPU that switches away from a process holds   *)
(* the lock of that process and no other spinlock (mycpu()->noff is 1).    *)
SwitchHoldsOneLock ==
  \A c \in CPU, p \in Slot :
    cproc[c] = p /\ susp[p] # "on_cpu" =>
      {q \in Slot : plock[q] = c} = {p} /\ wait_lock # c

(* What p->lock, kept across swtch(), gives: the four properties above.    *)
LockInv ==
  TypeOK /\ OneCPU /\ UnlockedStateIsTrue /\ FreedIsOffCPU /\ SwitchHoldsOneLock

(* No wakeup is lost between exit() and wait(): once an exiting process    *)
(* has let go of wait_lock, its parent is not asleep in wait(), whatever   *)
(* the parent was doing when wakeup() passed by its slot.                  *)
NoZombieUnderSleeper ==
  wait_lock = None =>
    \A p, q \in Slot :
      parent[q] = p /\ state[q] = "ZOMBIE" => state[p] # "SLEEPING"

(* Outside exit()'s critical section every process but init has a parent   *)
(* that can still wait for it: reparent() leaves no child of a zombie, and *)
(* fork() cannot add one behind its back.                                  *)
NoOrphan ==
  wait_lock = None =>
    \A q \in Slot \ {initproc} :
      state[q] \notin {"UNUSED", "USED"} =>
        /\ parent[q] \in Slot
        /\ state[parent[q]] \notin {"UNUSED", "USED", "ZOMBIE"}

(* A slot changes hands only through its life cycle, whoever acts on it:   *)
(* in particular kill() and wakeup() never revive a process that has       *)
(* exited, and a process is reaped exactly once.                           *)
LifeCycle ==
  [][\A p \in Slot :
       <<state[p], state'[p]>> \in
         {<<s, s>> : s \in States} \cup
         {<<"UNUSED", "USED">>, <<"USED", "UNUSED">>, <<"USED", "RUNNABLE">>,
          <<"RUNNABLE", "RUNNING">>, <<"RUNNING", "RUNNABLE">>,
          <<"RUNNING", "SLEEPING">>, <<"SLEEPING", "RUNNABLE">>,
          <<"RUNNING", "ZOMBIE">>, <<"ZOMBIE", "UNUSED">>}]_vars

(* On one CPU no zombie that is init's child, by birth or by reparent(),   *)
(* stays for ever once processes stop being created.  Without that premise *)
(* it may: wait() scans from the first slot, so children in lower slots    *)
(* can be born, exit and be reaped for ever while a zombie above them      *)
(* stays.                                                                  *)
ZombiesOfInitReaped ==
  OneCpuOnly /\ <>[](\A p \in Slot : pc[p] # "fork_fill") =>
    \A q \in Slot \ {initproc} : []<>~(state[q] = "ZOMBIE" /\ parent[q] = initproc)

InWait(p) == pc[p] \in {"wait", "scan", "sleep_lock", "sleep_release",
                        "sleep_switch", "relock"}

(* On one CPU nobody stays in wait() for ever with a zombie child, even if *)
(* it was asleep or about to sleep when the child exited.                  *)
WaitReturns ==
  OneCpuOnly =>
    \A p \in Slot : []<>~(InWait(p) /\ \E q \in Children(p) : state[q] = "ZOMBIE")

=============================================================================
