-------------------------------- MODULE Mlfq --------------------------------
(***************************************************************************)
(* The MLFQ build of scheduler() in kernel/proc.c: ageing, the loops over  *)
(* the five queues, remove_from_queue(), and the entry of a new process in *)
(* queue0 by allocproc().                                                  *)
(*                                                                         *)
(* A queue is an array and the index of its last entry, shared by the CPUs *)
(* without a lock.  A step is one round of a loop, or the stretch from the *)
(* return of swtch() to the release() after it.  A pointer is a slot or    *)
(* None; to follow None, or to release a lock that the CPU does not hold,  *)
(* is a panic.                                                             *)
(***************************************************************************)
EXTENDS Integers

CONSTANTS
  NPROC, CPU,
  TicksAllowed,     (* ticks_allowed[]                                     *)
  WaitTime,         (* p->wait_time                                        *)
  MaxTicks          (* bound on ticks                                      *)

None == 0
Slot == 1 .. NPROC
initproc == 1
Queue == 0 .. 4

VARIABLES
  ticks,
  proc,             (* [state, killed, curr_queue, st_time, num_of_ticks]  *)
  plock,            (* the CPU that holds p->lock, or None                 *)
  queue, last,      (* queue0 .. queue4 and queue0_ptr .. queue4_ptr       *)
  cpu,              (* [pc, k, i, p]: loop over queue k at index i         *)
  panic

vars == <<ticks, proc, plock, queue, last, cpu, panic>>

NewProc == [state |-> "RUNNABLE", killed |-> FALSE, curr_queue |-> 0, st_time |-> 0,
            num_of_ticks |-> [k \in Queue |-> 0]]
Pass == [pc |-> "age", k |-> 1, i |-> 0, p |-> None]

(* userinit(): allocproc() has entered initproc in queue0.                 *)
Init ==
  /\ ticks = 0
  /\ proc = [p \in Slot |-> IF p = initproc THEN NewProc ELSE [NewProc EXCEPT !.state = "UNUSED"]]
  /\ plock = [p \in Slot |-> None]
  /\ queue = [k \in Queue |-> [j \in 0 .. NPROC |-> IF k = 0 /\ j = 0 THEN initproc ELSE None]]
  /\ last = [k \in Queue |-> IF k = 0 THEN 0 ELSE -1]
  /\ cpu = [c \in CPU |-> Pass]
  /\ panic = FALSE

At(c, pc) == ~panic /\ cpu[c].pc = pc

(* The entries i + 1 .. n of the array a move down by one.                 *)
Shift(a, i, n) == [j \in DOMAIN a |-> IF j \in i .. n - 1 THEN a[j + 1] ELSE a[j]]

(* remove_from_queue(): the queue and the index of its last entry without  *)
(* the first entry for p, if there is one.                                 *)
remove_from_queue(a, n, p) ==
  LET found == {j \in 0 .. n : a[j] = p}
      i == CHOOSE j \in found : \A h \in found : j <= h
  IN IF found = {} THEN [a |-> a, n |-> n] ELSE [a |-> Shift(a, i, n), n |-> n - 1]

(* One round of the ageing of queue k: a process that waited too long goes *)
(* to the end of the queue above.  queue_ptr is decremented before         *)
(* remove_from_queue(), which decrements it again if it finds the process. *)
Age(c) ==
  /\ At(c, "age")
  /\ LET k == cpu[c].k
         i == cpu[c].i
         p == queue[k][i]
         up == last[k - 1] + 1
         rest == remove_from_queue(queue[k], last[k] - 1, p)
     IN
     /\ i <= last[k]
     /\ cpu' = [cpu EXCEPT ![c].i = i + 1]
     /\ IF proc[p].state = "RUNNABLE" /\ ticks - proc[p].st_time > WaitTime
        THEN /\ proc' = [proc EXCEPT ![p].curr_queue = @ - 1, ![p].st_time = ticks,
                                     ![p].num_of_ticks[k - 1] = 0]
             /\ queue' = [queue EXCEPT ![k - 1][up] = p, ![k] = rest.a]
             /\ last' = [last EXCEPT ![k - 1] = up, ![k] = rest.n]
        ELSE UNCHANGED <<proc, queue, last>>
  /\ UNCHANGED <<ticks, plock, panic>>

AgeEnd(c) ==
  /\ At(c, "age")
  /\ cpu[c].i > last[cpu[c].k]
  /\ cpu' = [cpu EXCEPT ![c] = IF cpu[c].k < 4 THEN [@ EXCEPT !.k = @ + 1, !.i = 0]
                               ELSE [@ EXCEPT !.pc = "loop", !.k = 0, !.i = 0]]
  /\ UNCHANGED <<ticks, proc, plock, queue, last, panic>>

-----------------------------------------------------------------------------
(* One round of the loop over queue k up to swtch(); the process that is   *)
(* switched to releases its own lock.                                      *)
Pick(c) ==
  /\ At(c, "loop")
  /\ LET k == cpu[c].k
         i == cpu[c].i
         p == queue[k][i]
     IN
     /\ i <= last[k]
     /\ IF p = None
        THEN panic' = TRUE /\ UNCHANGED <<proc, cpu>>
        ELSE /\ plock[p] = None
             /\ IF proc[p].state = "RUNNABLE"
                THEN /\ proc' = [proc EXCEPT ![p].state = "RUNNING", ![p].st_time = ticks]
                     /\ cpu' = [cpu EXCEPT ![c].pc = "run", ![c].p = p]
                ELSE /\ cpu' = [cpu EXCEPT ![c].i = i + 1]
                     /\ UNCHANGED proc
             /\ UNCHANGED panic
  /\ UNCHANGED <<ticks, plock, queue, last>>

LoopEnd(c) ==
  /\ At(c, "loop")
  /\ cpu[c].i > last[cpu[c].k]
  /\ cpu' = [cpu EXCEPT ![c] = IF cpu[c].k < 4 THEN [@ EXCEPT !.k = @ + 1, !.i = 0] ELSE Pass]
  /\ UNCHANGED <<ticks, proc, plock, queue, last, panic>>

(* What the loop over queue k does with its process p after swtch(): in    *)
(* queues 0 to 3 p leaves the queue, and goes to the next one if it has    *)
(* used up its ticks; in queue 4 it goes to the end.                       *)
Expired(p, k) ==
  k < 4 /\ proc[p].num_of_ticks[k] >= TicksAllowed[k] /\ (k = 3 \/ ~proc[p].killed)

Dequeued(k, i, p) ==
  LET down == IF Expired(p, k) THEN [queue EXCEPT ![k + 1][last[k + 1] + 1] = p] ELSE queue
  IN IF k < 4 THEN [down EXCEPT ![k] = Shift(@, i, last[k] + 1)]
     ELSE IF proc[p].killed THEN [queue EXCEPT ![4] = Shift(@, i, last[4])]
     ELSE [queue EXCEPT ![4] = [Shift(@, i, last[4]) EXCEPT ![last[4]] = p]]

Lasts(k, p) ==
  IF k = 4 THEN last
  ELSE IF Expired(p, k) THEN [last EXCEPT ![k + 1] = @ + 1, ![k] = @ - 1]
  ELSE [last EXCEPT ![k] = @ - 1]

(* The process of c gives up the CPU in state s, with its lock; the loop   *)
(* takes it out and releases the lock of the process now at index i.       *)
Back(c, s) ==
  /\ At(c, "run")
  /\ LET k == cpu[c].k
         i == cpu[c].i
         p == cpu[c].p
     IN
     /\ plock[p] = None
     /\ proc' = [proc EXCEPT ![p].state = s,
                             ![p].curr_queue = IF Expired(p, k) THEN @ + 1 ELSE @,
                             ![p].num_of_ticks[k] = IF k < 4 THEN 0 ELSE @]
     /\ queue' = Dequeued(k, i, p)
     /\ last' = Lasts(k, p)
     /\ panic' = (queue'[k][i] # p)
     /\ plock' = IF panic' THEN [plock EXCEPT ![p] = c] ELSE plock
     /\ cpu' = [cpu EXCEPT ![c].pc = "loop", ![c].i = i + 1, ![c].p = None]
  /\ UNCHANGED ticks

-----------------------------------------------------------------------------
(* fork(): allocproc() puts the new process q at the end of queue0.        *)
allocproc(c, q) ==
  /\ At(c, "run")
  /\ plock[q] = None
  /\ proc[q].state = "UNUSED"
  /\ last[0] < NPROC - 1
  /\ proc' = [proc EXCEPT ![q] = NewProc]
  /\ queue' = [queue EXCEPT ![0][last[0] + 1] = q]
  /\ last' = [last EXCEPT ![0] = @ + 1]
  /\ UNCHANGED <<ticks, plock, cpu, panic>>

kill(c, q) ==
  /\ At(c, "run")
  /\ plock[q] = None
  /\ proc[q].state # "UNUSED"
  /\ proc' = [proc EXCEPT ![q].killed = TRUE,
                          ![q].state = IF @ = "SLEEPING" THEN "RUNNABLE" ELSE @]
  /\ UNCHANGED <<ticks, plock, queue, last, cpu, panic>>

wakeup(q) ==
  /\ ~panic
  /\ plock[q] = None
  /\ proc[q].state = "SLEEPING"
  /\ proc' = [proc EXCEPT ![q].state = "RUNNABLE"]
  /\ UNCHANGED <<ticks, plock, queue, last, cpu, panic>>

clockintr ==
  /\ ~panic
  /\ ticks < MaxTicks
  /\ ticks' = ticks + 1
  /\ UNCHANGED <<proc, plock, queue, last, cpu, panic>>

Next ==
  \/ \E c \in CPU :
       \/ Age(c) \/ AgeEnd(c) \/ Pick(c) \/ LoopEnd(c)
       \/ \E s \in {"RUNNABLE", "SLEEPING", "ZOMBIE"} : Back(c, s)
       \/ \E q \in Slot : allocproc(c, q) \/ kill(c, q)
  \/ \E q \in Slot : wakeup(q)
  \/ clockintr

Spec == Init /\ [][Next]_vars

-----------------------------------------------------------------------------
(* The scheduler releases only locks that it holds, as release() of        *)
(* spinlock.c asserts (panic("release")), and follows no null pointer.     *)
NoPanic == ~panic

=============================================================================
