------------------------------- MODULE Alarm --------------------------------
(***************************************************************************)
(* sigalarm() and sigreturn(): what usertrap() (kernel/trap.c) does to a   *)
(* process at a timer interrupt and at these two system calls, and what    *)
(* the program sees of it.  The registers of the program are a0, which     *)
(* system calls return their value in, and regs, which stands for all the  *)
(* others; epc tells where in the program it is.                           *)
(***************************************************************************)
EXTENDS Integers, Sequences

CONSTANTS
  Builds,        (* the schedulers a kernel may be built with              *)
  MaxTicks,      (* largest interval given to sigalarm()                   *)
  MaxNow,        (* bound of this model on p->now_ticks: it stays there,   *)
                 (* being beyond every interval                            *)
  MaxDepth       (* bound of this model on entries to the handler that     *)
                 (* have not returned                                      *)

(* Timer interrupts count for alarms, and preempt, in these builds only.   *)
AlarmBuilds == {"RR", "LBS", "MLFQ"}

ASSUME AlarmConstants ==
  /\ Builds \subseteq AlarmBuilds \cup {"FCFS", "PBS"}
  /\ MaxTicks \in Nat
  /\ MaxNow \in Nat /\ MaxNow > MaxTicks
  /\ MaxDepth \in Nat \ {0}

Regs == 0 .. 1
Main == {"main1", "main2"}        (* two places of the main program        *)
Places == Main \cup {"handler"}
Trapframe == [a0 : Regs, regs : Regs, epc : Places]

VARIABLES
  build,         (* the scheduler of this kernel                           *)
  trapframe,     (* *p->trapframe: the program's registers                 *)
  trapframe_copy,(* *p->trapframe_copy                                     *)
  tickss, now_ticks, is_sigalarm,
  interrupted,   (* history: registers at each handler entry not returned  *)
                 (* from yet, innermost last                               *)
  since,         (* history: ticks since the alarm was armed or went off   *)
  rearmed        (* history: the handler armed the alarm before returning  *)

alarm == <<tickss, now_ticks, is_sigalarm>>
vars == <<build, trapframe, trapframe_copy, alarm, interrupted, since, rearmed>>

Init ==
  /\ build \in Builds
  /\ trapframe = [a0 |-> 0, regs |-> 0, epc |-> "main1"]
  /\ trapframe_copy \in Trapframe           \* kalloc()'s junk
  /\ tickss = 0
  /\ now_ticks = 0
  /\ is_sigalarm = FALSE
  /\ interrupted = <<>>
  /\ since = 0
  /\ rearmed = FALSE

InHandler == trapframe.epc = "handler"

(* The program computes, in its main part or in the handler.               *)
Run(a, r) ==
  /\ \E l \in Main : trapframe' = [a0 |-> a, regs |-> r,
                                   epc |-> IF InHandler THEN "handler" ELSE l]
  /\ UNCHANGED <<build, trapframe_copy, alarm, interrupted, since, rearmed>>

(* Fault: arming the alarm does not restart its interval.                  *)
sys_sigalarm_no_restart(n) ==
  /\ is_sigalarm' = FALSE
  /\ rearmed' = (rearmed \/ (InHandler /\ n > 0))
  /\ tickss' = n
  /\ since' = 0
  /\ trapframe' = [trapframe EXCEPT !.a0 = 0]
  /\ UNCHANGED <<build, now_ticks, trapframe_copy, interrupted>>

(* sys_sigalarm(), which returns 0, through syscall().                     *)
sys_sigalarm(n) ==
  /\ is_sigalarm' = FALSE
  /\ rearmed' = (rearmed \/ (InHandler /\ n > 0))
  /\ tickss' = n
  /\ now_ticks' = 0
  /\ since' = 0
  /\ trapframe' = [trapframe EXCEPT !.a0 = 0]
  /\ UNCHANGED <<build, trapframe_copy, interrupted>>

Later(t) == IF t < MaxNow THEN t + 1 ELSE t

(* Fault: an alarm goes off although its handler is running.               *)
Due_in_handler == tickss > 0 /\ now_ticks + 1 >= tickss

Due == tickss > 0 /\ now_ticks + 1 >= tickss /\ ~is_sigalarm

(* Fault: the registers are saved after the program was redirected.        *)
Tick_saves_late ==
  /\ build \in AlarmBuilds
  /\ Due => Len(interrupted) < MaxDepth
  /\ IF Due
     THEN /\ now_ticks' = 0
          /\ is_sigalarm' = TRUE
          /\ trapframe' = [trapframe EXCEPT !.epc = "handler"]
          /\ trapframe_copy' = trapframe'
          /\ interrupted' = Append(interrupted, trapframe)
          /\ since' = 0
     ELSE /\ now_ticks' = Later(now_ticks)
          /\ since' = Later(since)
          /\ UNCHANGED <<is_sigalarm, trapframe_copy, trapframe, interrupted>>
  /\ UNCHANGED <<build, tickss, rearmed>>

(* usertrap() at a timer interrupt of user mode.  FCFS and PBS kernels     *)
(* compile this part out: there the interrupt changes nothing here.        *)
Tick ==
  /\ build \in AlarmBuilds
  /\ Due => Len(interrupted) < MaxDepth
  /\ IF Due
     THEN /\ now_ticks' = 0
          /\ is_sigalarm' = TRUE
          /\ trapframe_copy' = trapframe
          /\ trapframe' = [trapframe EXCEPT !.epc = "handler"]
          /\ interrupted' = Append(interrupted, trapframe)
          /\ since' = 0
     ELSE /\ now_ticks' = Later(now_ticks)
          /\ since' = Later(since)
          /\ UNCHANGED <<is_sigalarm, trapframe_copy, trapframe, interrupted>>
  /\ UNCHANGED <<build, tickss, rearmed>>

(* restore(): the kernel's own four words of the trapframe, which it keeps, *)
(* do not reach the program.                                               *)
restore == trapframe_copy

(* Fault: sigreturn() leaves the alarm marked as being handled.            *)
sys_sigreturn_still_handling ==
  /\ InHandler
  /\ trapframe' = [restore EXCEPT !.a0 = 0]
  /\ interrupted' = SubSeq(interrupted, 1, Len(interrupted) - 1)
  /\ rearmed' = (rearmed /\ restore.epc = "handler")
  /\ UNCHANGED <<build, trapframe_copy, alarm, since>>

(* sys_sigreturn(), whose result 0 syscall() stores in a0.  The kernel     *)
(* takes the call anywhere; the program makes it at the end of its handler *)
(* only, as user/alarmtest.c does.                                         *)
sys_sigreturn ==
  /\ InHandler
  /\ is_sigalarm' = FALSE
  /\ trapframe' = [restore EXCEPT !.a0 = 0]
  /\ interrupted' = SubSeq(interrupted, 1, Len(interrupted) - 1)
  /\ rearmed' = (rearmed /\ restore.epc = "handler")
  /\ UNCHANGED <<build, trapframe_copy, tickss, now_ticks, since>>

Next ==
  \/ \E a, r \in Regs : Run(a, r)
  \/ \E n \in 0 .. MaxTicks : sys_sigalarm(n)
  \/ Tick
  \/ sys_sigreturn

Spec == Init /\ [][Next]_vars

(* Timer interrupts go on, and the handler comes to its sigreturn().                  *)
Fairness == WF_vars(Tick) /\ SF_vars(sys_sigreturn)
LiveSpec == Spec /\ Fairness

-----------------------------------------------------------------------------
TypeOK ==
  /\ trapframe \in Trapframe
  /\ trapframe_copy \in Trapframe
  /\ tickss \in 0 .. MaxTicks
  /\ now_ticks \in 0 .. MaxNow
  /\ is_sigalarm \in BOOLEAN
  /\ interrupted \in Seq(Trapframe)
  /\ since \in 0 .. MaxNow
  /\ rearmed \in BOOLEAN

(* "tests that kernel does not allow reentrant alarm calls"                *)
(* (user/alarmtest.c:105): the handler is not entered while it runs, but   *)
(* when it has armed the alarm itself, since sigalarm() clears is_sigalarm *)
(* (proc.c:1312).  Disarming it, as slow_handler() does, is safe.          *)
NotReentrant == TypeOK /\ (Len(interrupted) <= 1 \/ rearmed)

(* sigreturn() goes back to the point where the timer interrupt came, with *)
(* all registers but a0 as they were, whatever the handler computed and    *)
(* however many ticks went by (user/alarmtest.c:68-71), if the handler did *)
(* not arm the alarm: all entries share one trapframe_copy.  a0 is lost:   *)
(* the result 0 of sigreturn() is stored in it after restore(), which the  *)
(* test of user/alarmtest.c:165 is about.                                  *)
Resumes ==
  [][sys_sigreturn /\ ~rearmed =>
       LET was == interrupted[Len(interrupted)]
       IN  trapframe'.regs = was.regs /\ trapframe'.epc = was.epc]_vars

(* The handler is entered only at a tick, and no sooner than tickss ticks  *)
(* after the alarm was armed or last went off.                             *)
NotEarly ==
  [][Len(interrupted') > Len(interrupted) => tickss > 0 /\ since + 1 >= tickss]_vars

(* An armed alarm goes off, again and again, once the program leaves it    *)
(* alone, in RR, LBS and MLFQ kernels.  In FCFS and PBS kernels it never   *)
(* does: trap.c:80 leaves the counting of ticks out of them.               *)
GoesOff ==
  IF build \in AlarmBuilds
  THEN <>[][\A n \in 0 .. MaxTicks : ~sys_sigalarm(n)]_vars =>
         (tickss > 0 ~> (InHandler \/ tickss = 0))
  ELSE []~InHandler
=============================================================================
