-------------------------------- MODULE Sched -------------------------------
(***************************************************************************)
(* The FCFS, PBS and LBS builds of scheduler() in kernel/proc.c on several *)
(* CPUs, and the time accounting they rest on: clockintr(), updateTime(),  *)
(* setPriority(), settickets() and the fields that allocproc() sets.       *)
(*                                                                         *)
(* A scheduler takes the lock of one slot after the other and keeps that   *)
(* of the best process so far: the others change under its hands.  A step  *)
(* is one critical section of a p->lock.  Slot 1 is initproc, the parent   *)
(* of all; a process sleeps for an event outside this module.  Module Proc *)
(* has the RR build and the hand-over of p->lock in swtch().               *)
(***************************************************************************)
EXTENDS Integers, FiniteSets

CONSTANTS
  NPROC, CPU,
  clockCpu,         (* the CPU with cpuid() 0                              *)
  Builds,           (* a subset of {"FCFS", "PBS", "LBS"}                  *)
  Priorities,       (* arguments of setPriority()                          *)
  Tickets,          (* arguments of settickets(): any int                  *)
  MaxCalls          (* bound, for each build, on the clock ticks and on    *)
                    (* what processes do, together                         *)

ASSUME SchedConstants ==
  /\ NPROC \in Nat \ {0}
  /\ clockCpu \in CPU
  /\ CPU \cap (0 .. NPROC) = {}
  /\ Builds \subseteq {"FCFS", "PBS", "LBS"}
  /\ Tickets \subseteq Int

None == 0
Slot == 1 .. NPROC
initproc == 1

VARIABLES
  build,
  ticks,
  seed,             (* of getrand()                                        *)
  proc,             (* the fields of each slot                             *)
  plock,            (* the CPU that holds p->lock, or None                 *)
  cpu,              (* where each CPU is; i: slot of the scan; best: the   *)
                    (* process kept or running; sum: num_passed_tickets;   *)
                    (* ans: the draw; tick: slot of updateTime() or None;  *)
                    (* neg: the scan has added a negative count (for the   *)
                    (* properties)                                         *)
  calls,
  steady            (* for each CPU, the slots RUNNABLE and unchanged      *)
                    (* since its scan began (for the properties)           *)

vars == <<build, ticks, seed, proc, plock, cpu, calls, steady>>

(* allocproc(): the fields that scheduling uses.                           *)
Fresh(now) ==
  [state |-> "RUNNABLE", creationTime |-> now, stat_pr |-> 60, run_time |-> 0,
   sleep_time |-> 0, numOfScheduled |-> 0, tickets |-> 1]

Scan == [pc |-> "begin", i |-> 1, best |-> None, sum |-> 0, ans |-> 0, tick |-> None,
         neg |-> FALSE]

(* Nothing reads the other fields of a free slot before allocproc() sets   *)
(* them.                                                                   *)
Unused == [Fresh(0) EXCEPT !.state = "UNUSED"]

(* initproc and others that were created at tick 0 or 1, in any order of   *)
(* slots, are about to be scheduled (at tick 0, where the order of         *)
(* creation makes no difference to the build).                             *)
Init ==
  /\ build \in Builds
  /\ ticks = 1
  /\ seed = 37
  /\ proc \in [Slot -> {Fresh(0), Unused} \cup (IF build = "FCFS" THEN {Fresh(1)} ELSE {})]
  /\ proc[initproc] = Fresh(0)
  /\ plock = [p \in Slot |-> None]
  /\ cpu = [c \in CPU |-> Scan]
  /\ calls = 0
  /\ steady = [c \in CPU |-> {}]

Free(p) == plock[p] = None
At(c, pc) == cpu[c].pc = pc /\ cpu[c].tick = None

(* The fields of the slots change to those of new; a slot that changes is  *)
(* steady no more.                                                         *)
Becomes(new) ==
  /\ proc' = new
  /\ steady' = [c \in CPU |-> {p \in steady[c] : new[p] = proc[p]}]

-----------------------------------------------------------------------------
(* The rules of the three builds.                                          *)

(* In integers: 10 for a process that has only slept, otherwise 0.         *)
niceness(p) ==
  LET s == proc[p].sleep_time
      r == proc[p].run_time
  IN IF proc[p].numOfScheduled > 0 /\ s + r # 0 THEN (s \div (s + r)) * 10 ELSE 5

(* processDp, between 0 and 100.                                           *)
DynamicPriority(p) ==
  LET val == proc[p].stat_pr - niceness(p) + 5
      tmp == IF val < 100 THEN val ELSE 100
  IN IF 0 > tmp THEN 0 ELSE tmp

(* p comes before q, the process kept so far.                              *)
EarlierFCFS(p, q) == proc[p].creationTime < proc[q].creationTime

(* Fault: fewer runs count before the priority does.                       *)
EarlierPBS_runs(p, q) ==
  \/ DynamicPriority(q) > DynamicPriority(p)
  \/ proc[p].numOfScheduled < proc[q].numOfScheduled

EarlierPBS(p, q) ==
  \/ DynamicPriority(q) > DynamicPriority(p)
  \/ /\ DynamicPriority(q) = DynamicPriority(p)
     /\ proc[p].numOfScheduled < proc[q].numOfScheduled

Earlier(p, q) == IF build = "FCFS" THEN EarlierFCFS(p, q) ELSE EarlierPBS(p, q)

(* (int)(nxt_seed * 1.0 / 99) * tot_tickets.                               *)
getrand(s, tot) == (((s * s) % 100) \div 99) * tot

-----------------------------------------------------------------------------
(* The scheduler begins a pass; LBS adds up the tickets (without locks)    *)
(* and draws.                                                              *)
Total == LET tot[p \in 0 .. NPROC] ==
               IF p = 0 THEN 0
               ELSE tot[p - 1] + (IF proc[p].state = "RUNNABLE" THEN proc[p].tickets ELSE 0)
         IN tot[NPROC]

Begin(c) ==
  /\ At(c, "begin")
  /\ IF build = "LBS"
     THEN /\ cpu' = [cpu EXCEPT ![c].pc = "scan", ![c].ans = getrand(seed, Total)]
          /\ seed' = (seed * seed) % 100
     ELSE /\ cpu' = [cpu EXCEPT ![c].pc = "scan"]
          /\ UNCHANGED seed
  /\ steady' = [steady EXCEPT ![c] = {p \in Slot : proc[p].state = "RUNNABLE"}]
  /\ UNCHANGED <<build, ticks, proc, plock, calls>>

(* Fault: the scan releases the lock of the best one too.                  *)
Keep_none(c, p) == UNCHANGED plock

(* Fault: the lock of the process that is no longer the best is kept.      *)
Keep_both(c, p) == plock' = [plock EXCEPT ![p] = c]

(* p is the best so far: its lock is kept and that of the last released.   *)
Keep(c, p) == plock' = [q \in Slot |-> IF q = p THEN c
                                       ELSE IF q = cpu[c].best THEN None ELSE plock[q]]

(* One slot of the scan of FCFS and PBS.                                   *)
ScanSlot(c) ==
  /\ At(c, "scan")
  /\ build # "LBS"
  /\ cpu[c].i <= NPROC
  /\ LET p == cpu[c].i
         best == cpu[c].best
     IN
     /\ Free(p)
     /\ IF proc[p].state = "RUNNABLE" /\ (best = None \/ Earlier(p, best))
        THEN /\ Keep(c, p)
             /\ cpu' = [cpu EXCEPT ![c].i = p + 1, ![c].best = p]
        ELSE /\ cpu' = [cpu EXCEPT ![c].i = p + 1]
             /\ UNCHANGED plock
  /\ UNCHANGED <<build, ticks, seed, proc, calls, steady>>

(* One slot of the scan of LBS, which calls at the winner.                 *)
ScanTickets(c) ==
  /\ At(c, "scan")
  /\ build = "LBS"
  /\ cpu[c].i <= NPROC
  /\ LET p == cpu[c].i
         sum == cpu[c].sum + proc[p].tickets
         neg == cpu[c].neg \/ proc[p].tickets < 0
     IN
     /\ Free(p)
     /\ IF proc[p].state # "RUNNABLE"
        THEN cpu' = [cpu EXCEPT ![c].i = p + 1] /\ UNCHANGED plock
        ELSE IF sum > cpu[c].ans
        THEN /\ cpu' = [cpu EXCEPT ![c].i = NPROC + 1, ![c].best = p, ![c].sum = sum,
                                    ![c].neg = neg]
             /\ plock' = [plock EXCEPT ![p] = c]
        ELSE /\ cpu' = [cpu EXCEPT ![c].i = p + 1, ![c].sum = sum, ![c].neg = neg]
             /\ UNCHANGED plock
  /\ UNCHANGED <<build, ticks, seed, proc, calls, steady>>

(* The fields of the process that is switched to.  FCFS adds one to the    *)
(* numOfScheduled of proc[NPROC], past the end of the table (line 878: the *)
(* loop variable, not the process chosen): no variable of this module      *)
(* stands for what lies there, and FCFS never reads the field.             *)
Chosen(r) ==
  IF build = "PBS"
  THEN [r EXCEPT !.state = "RUNNING", !.run_time = 0, !.sleep_time = 0, !.numOfScheduled = @ + 1]
  ELSE [r EXCEPT !.state = "RUNNING"]

(* swtch() to the best one, which releases its own lock.                   *)
Switch(c) ==
  /\ At(c, "scan")
  /\ cpu[c].i > NPROC
  /\ cpu[c].best # None
  /\ LET p == cpu[c].best
     IN
     /\ proc' = [proc EXCEPT ![p] = Chosen(@)]
     /\ steady' = [d \in CPU |-> IF d = c THEN {} ELSE steady[d] \ {p}]
     /\ plock' = [plock EXCEPT ![p] = None]
     /\ cpu' = [cpu EXCEPT ![c] = [Scan EXCEPT !.pc = "run", !.best = p]]
  /\ UNCHANGED <<build, ticks, seed, calls>>

(* Nobody is RUNNABLE: around the loop again.                              *)
Idle(c) ==
  /\ At(c, "scan")
  /\ cpu[c].i > NPROC
  /\ cpu[c].best = None
  /\ cpu' = [cpu EXCEPT ![c] = Scan]
  /\ steady' = [steady EXCEPT ![c] = {}]
  /\ UNCHANGED <<build, ticks, seed, proc, plock, calls>>

-----------------------------------------------------------------------------
Call == calls < MaxCalls[build] /\ calls' = calls + 1

(* The process p that runs on c gives up the CPU, in state s.              *)
Stop(c, p, s) ==
  /\ Call
  /\ Free(p)
  /\ Becomes([proc EXCEPT ![p].state = s])
  /\ cpu' = [cpu EXCEPT ![c] = Scan]
  /\ UNCHANGED <<build, ticks, seed, plock>>

Runs(c, p) == At(c, "run") /\ cpu[c].best = p

sleep(c, p) == Runs(c, p) /\ Stop(c, p, "SLEEPING")
exit(c, p) == Runs(c, p) /\ p # initproc /\ Stop(c, p, "ZOMBIE")

(* usertrap() and kerneltrap(): the timer preempts in the LBS build only.  *)
Preempt(c, p) == Runs(c, p) /\ build = "LBS" /\ Stop(c, p, "RUNNABLE")

(* The yield() at the end of setPriority().                                *)
Yield(c, p) == At(c, "yield") /\ cpu[c].best = p /\ Stop(c, p, "RUNNABLE")

(* wakeup() by a device, another process or clockintr().                   *)
wakeup(p) ==
  /\ Free(p)
  /\ proc[p].state = "SLEEPING"
  /\ Becomes([proc EXCEPT ![p].state = "RUNNABLE"])
  /\ UNCHANGED <<build, ticks, seed, plock, cpu, calls>>

(* fork() by p: the first slot that is UNUSED.  In state USED it is as     *)
(* UNUSED to the schedulers.                                               *)
allocproc(c, p, q) ==
  /\ Runs(c, p)
  /\ Call
  /\ Free(q)
  /\ proc[q].state = "UNUSED"
  /\ \A r \in 1 .. q - 1 : proc[r].state # "UNUSED"
  /\ Becomes([proc EXCEPT ![q] = Fresh(ticks)])
  /\ UNCHANGED <<build, ticks, seed, plock, cpu>>

(* wait() or waitx() by initproc.                                          *)
waitx(c, q) ==
  /\ Runs(c, initproc)
  /\ Free(q)
  /\ proc[q].state = "ZOMBIE"
  /\ Becomes([proc EXCEPT ![q].state = "UNUSED"])
  /\ UNCHANGED <<build, ticks, seed, plock, cpu, calls>>

setPriority(c, p, q, priority) ==
  /\ Runs(c, p)
  /\ Call
  /\ build = "PBS"
  /\ Free(q)
  /\ proc[q].state # "UNUSED"
  /\ proc[q].stat_pr # priority
  /\ Becomes([proc EXCEPT ![q].stat_pr = priority, ![q].run_time = 0, ![q].sleep_time = 0])
  /\ cpu' = [cpu EXCEPT ![c].pc = IF proc[q].stat_pr > priority THEN "yield" ELSE "run"]
  /\ UNCHANGED <<build, ticks, seed, plock>>

sys_settickets(c, p, n) ==
  /\ Runs(c, p)
  /\ Call
  /\ build = "LBS"
  /\ proc[p].tickets # n
  /\ Becomes([proc EXCEPT ![p].tickets = n])
  /\ UNCHANGED <<build, ticks, seed, plock, cpu>>

-----------------------------------------------------------------------------
(* Fault: other CPUs call updateTime() too, between two ticks.             *)
clockintr_all ==
  /\ cpu[clockCpu].tick = None
  /\ cpu[clockCpu].pc \in {"run", "yield"} \/ cpu[clockCpu].best = None
  /\ Call
  /\ ticks' \in {ticks, ticks + 1}
  /\ cpu' = [cpu EXCEPT ![clockCpu].tick = 1]
  /\ UNCHANGED <<build, seed, proc, plock, steady>>

(* clockintr() on the first CPU, with interrupts enabled: between the      *)
(* slots of a scan that keeps no lock, or in a process.                    *)
clockintr ==
  /\ cpu[clockCpu].tick = None
  /\ cpu[clockCpu].pc \in {"run", "yield"} \/ cpu[clockCpu].best = None
  /\ Call
  /\ ticks' = ticks + 1
  /\ cpu' = [cpu EXCEPT ![clockCpu].tick = 1]
  /\ UNCHANGED <<build, seed, proc, plock, steady>>

(* One slot of updateTime().                                               *)
updateTime ==
  /\ cpu[clockCpu].tick # None
  /\ LET p == cpu[clockCpu].tick
         run == proc[p].state = "RUNNING"
         asleep == proc[p].state = "SLEEPING"
     IN
     /\ Free(p)
     /\ Becomes([proc EXCEPT ![p].run_time = IF run THEN @ + 1 ELSE @,
                             ![p].sleep_time = IF asleep THEN @ + 1 ELSE @])
     /\ cpu' = [cpu EXCEPT ![clockCpu].tick = IF p = NPROC THEN None ELSE p + 1]
  /\ UNCHANGED <<build, ticks, seed, plock, calls>>

Scheduler(c) == Begin(c) \/ ScanSlot(c) \/ ScanTickets(c) \/ Switch(c) \/ Idle(c)

Process(c, p) ==
  \/ sleep(c, p) \/ exit(c, p) \/ Preempt(c, p) \/ Yield(c, p)
  \/ \E q \in Slot : \/ allocproc(c, p, q)
                     \/ p = initproc /\ waitx(c, q)
                     \/ \E n \in Priorities : setPriority(c, p, q, n)
  \/ \E n \in Tickets : sys_settickets(c, p, n)

Next ==
  \/ \E c \in CPU : Scheduler(c) \/ \E p \in Slot : Process(c, p)
  \/ \E p \in Slot : wakeup(p)
  \/ clockintr
  \/ updateTime

(* A CPU goes on with its scheduler and with an interrupt; what processes  *)
(* and devices do is up to them.                                           *)
Fairness == (\A c \in CPU : SF_vars(Scheduler(c))) /\ SF_vars(updateTime)

Spec == Init /\ [][Next]_vars /\ Fairness

-----------------------------------------------------------------------------
Scanning(c) == cpu[c].pc \in {"begin", "scan"}
ScanEnds(c) == cpu[c].pc = "scan" /\ cpu[c].i > NPROC

(* Types; the dynamic priority of PBS is cut off at 0 and 100.             *)
TypeOK ==
  /\ build \in Builds
  /\ ticks \in Nat
  /\ seed \in 0 .. 99
  /\ \A p \in Slot :
        /\ proc[p].state \in {"UNUSED", "SLEEPING", "RUNNABLE", "RUNNING", "ZOMBIE"}
        /\ {proc[p].run_time, proc[p].sleep_time} \subseteq Nat
        /\ DynamicPriority(p) \in 0 .. 100
  /\ plock \in [Slot -> CPU \cup {None}]

(* A RUNNING process is on one CPU, and a lock that a scheduler keeps is   *)
(* that of the RUNNABLE process it is going to run: two CPUs never choose  *)
(* the same process.                                                       *)
RunsOnce ==
  \A p \in Slot :
    /\ Cardinality({c \in CPU : ~Scanning(c) /\ cpu[c].best = p}) =
         (IF proc[p].state = "RUNNING" THEN 1 ELSE 0)
    /\ \A c \in CPU : (Scanning(c) /\ cpu[c].best = p) =>
         plock[p] = c /\ proc[p].state = "RUNNABLE"

(* FCFS runs the oldest process and PBS the one with the best dynamic      *)
(* priority, of equals the one that ran least often: no process that was   *)
(* RUNNABLE and did not change during the scan comes before the chosen one.*)
BestChosen ==
  \A c \in CPU : (ScanEnds(c) /\ cpu[c].best # None) => \A q \in steady[c] :
    LET p == cpu[c].best
    IN /\ build = "FCFS" => proc[p].creationTime <= proc[q].creationTime
       /\ build = "PBS" =>
            \/ DynamicPriority(p) < DynamicPriority(q)
            \/ /\ DynamicPriority(p) = DynamicPriority(q)
               /\ proc[p].numOfScheduled <= proc[q].numOfScheduled

HasTickets(p) == build = "LBS" => proc[p].tickets > 0

(* A pass that chooses nobody has overlooked nobody: no process (in LBS,   *)
(* with tickets) was RUNNABLE all along.  The exception is a pass of LBS   *)
(* that met a negative count, which settickets() accepts: it takes as many *)
(* tickets away from the processes behind it.                              *)
NoneOverlooked ==
  \A c \in CPU : (ScanEnds(c) /\ cpu[c].best = None /\ ~cpu[c].neg) =>
    \A q \in steady[c] : ~HasTickets(q)

(* updateTime() counts every tick at most once for a process, and only     *)
(* ticks since its creation (the one under way included).                  *)
TimeBound ==
  \A p \in Slot : proc[p].state # "UNUSED" =>
     proc[p].run_time + proc[p].sleep_time <= ticks - proc[p].creationTime + 1

(* In LBS a process with tickets waits for as long as one with a negative  *)
(* count is RUNNABLE in a slot before it.                                  *)
Eligible(p) ==
  /\ proc[p].state = "RUNNABLE"
  /\ HasTickets(p)
  /\ build = "LBS" =>
       \A q \in 1 .. p - 1 : proc[q].state = "RUNNABLE" => proc[q].tickets >= 0

(* CPUs do not stay in their schedulers while a process could run: again   *)
(* and again either every CPU has a process or no process is left over     *)
(* (but those behind a negative count in LBS, beside which a CPU may idle  *)
(* for ever).  The locks that schedulers keep during a scan, against each  *)
(* other and against updateTime(), never block them for good.              *)
WorkConserving ==
  []<>((\A c \in CPU : ~Scanning(c)) \/ (\A p \in Slot : ~Eligible(p)))

(* The values stay in range and the times that updateTime() keeps are      *)
(* bounded by the ticks that have passed.                                  *)
TimeInv == TypeOK /\ TimeBound

(* scheduler() runs the right process of its build, if there is one.       *)
ChoiceInv == BestChosen /\ NoneOverlooked
=============================================================================
