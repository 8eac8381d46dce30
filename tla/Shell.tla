------------------------------- MODULE Shell --------------------------------
(***************************************************************************)
(* user/sh.c: the shell and the processes that run its command lines.      *)
(* A process is named by the place in the command at which fork1() made    *)
(* it: the number of the line, then "left" and "right" for the sides of a  *)
(* PIPE, "first" and "then" for those of a LIST, "back" for what a BACK    *)
(* runs and "redir" for what a REDIR runs.  The kernel's fork(), wait(),   *)
(* exit(), pipe(), dup(), open() and close() are external: their effect on *)
(* descriptors and children is below.                                      *)
(***************************************************************************)
EXTENDS ShellParse

CONSTANTS
  Scripts,       (* what is typed: sequences of lines, then ^D             *)
  NOFILE,        (* descriptors of a process                               *)
  MaxFails       (* bound on failures of fork() and pipe()                 *)

ASSUME ShellConstants == NOFILE \in Nat /\ MaxFails \in Nat

VARIABLES
  script,        (* lines not read yet                                     *)
  proc,          (* the processes of this shell, itself included           *)
  fails,         (* failures of fork() and pipe() so far                   *)
  plan           (* history: the programs that the lines read ask for      *)

vars == <<script, proc, fails, plan>>

Closed == [kind |-> "closed", of |-> <<>>]
Console == [kind |-> "console", of |-> <<>>]
File(name) == [kind |-> "file", of |-> name]
ReadEnd(at) == [kind |-> "read", of |-> at]
WriteEnd(at) == [kind |-> "write", of |-> at]

Sh == <<>>                      (* the shell                               *)
InitProc == <<"init">>
NoCmd == [type |-> "none"]

(* What a program does before it exits: nothing; read its input up to the  *)
(* end; write more than a pipe holds.                                      *)
Programs == {"quits", "reads", "writes"}

-----------------------------------------------------------------------------
(* The kernel.                                                             *)
Lowest(fds) == Min({n \in 0 .. NOFILE - 1 : fds[n] = Closed})
Open(fds, f) == [fds EXCEPT ![Lowest(fds)] = f]
Close(fds, n) == [fds EXCEPT ![n] = Closed]

Children(p) == {q \in DOMAIN proc : proc[q].parent = p}
Zombies(p) == {q \in Children(p) : proc[q].pc = "zombie"}
Without(f, S) == [q \in DOMAIN f \ S |-> f[q]]
IsOpen(f) == \E q \in DOMAIN proc, n \in 0 .. NOFILE - 1 : proc[q].fds[n] = f

(* exit(): the children go to init, which waits for all of them.           *)
Exit(p) ==
  LET orphans == [q \in DOMAIN proc |->
                    IF q = p THEN [proc[q] EXCEPT !.pc = "zombie", !.cmd = NoCmd, !.line = <<>>,
                                                  !.fds = [n \in DOMAIN @ |-> Closed]]
                    ELSE IF proc[q].parent = p THEN [proc[q] EXCEPT !.parent = InitProc]
                    ELSE proc[q]]
  IN proc' = Without(orphans, {q \in DOMAIN orphans :
                                 orphans[q].pc = "zombie" /\ orphans[q].parent = InitProc})

(* wait(): a zombie, or none if there is no child.                         *)
Waited(p, q) == IF Children(p) = {} THEN q = p ELSE q \in Zombies(p)
Reap(p, q, next) == Without([proc EXCEPT ![p] = next], {q} \ {p})

(* A child of p, whose memory is me, that will do cmd as the part at of    *)
(* the command.                                                            *)
Child(p, me, at, pc, cmd) ==
  at :> [me EXCEPT !.pc = pc, !.at = at, !.cmd = cmd, !.parent = p]

(* fork1(): p goes on as next with a child, or panics.                     *)
fork1(p, next, child) ==
  \/ /\ proc' = [proc EXCEPT ![p] = next] @@ child
     /\ UNCHANGED fails
  \/ /\ fails < MaxFails
     /\ fails' = fails + 1
     /\ Exit(p)

-----------------------------------------------------------------------------
Init ==
  /\ script \in Scripts
  /\ proc = Sh :> [pc |-> "prompt", at |-> <<>>, cmd |-> NoCmd, line |-> <<>>,
                   p |-> <<0, 0>>, parent |-> InitProc,
                   fds |-> [n \in 0 .. NOFILE - 1 |-> IF n < 3 THEN Console ELSE Closed]]
  /\ fails = 0
  /\ plan = {}

IsCd(b) == Len(b) >= 3 /\ SubSeq(b, 1, 3) = <<"c", "d", " ">>

(* getcmd() and the head of main()'s loop.                                 *)
Getcmd ==
  /\ Sh \in DOMAIN proc
  /\ proc[Sh].pc = "prompt"
  /\ IF script = <<>>
     THEN Exit(Sh) /\ UNCHANGED <<script, fails>>
     ELSE /\ script' = Tail(script)
          /\ IF IsCd(Head(script))
             THEN UNCHANGED <<proc, fails>>
             ELSE LET at == <<ToString(Len(script))>>
                      child == Child(Sh, proc[Sh], at, "parse", NoCmd)
                  IN fork1(Sh, [proc[Sh] EXCEPT !.pc = "wait"],
                           [child EXCEPT ![at].line = Head(script)])
  /\ UNCHANGED plan

Mainwait ==
  /\ Sh \in DOMAIN proc
  /\ proc[Sh].pc = "wait"
  /\ \E q \in DOMAIN proc :
       /\ Waited(Sh, q)
       /\ proc' = Reap(Sh, q, [proc[Sh] EXCEPT !.pc = "prompt"])
  /\ UNCHANGED <<script, fails, plan>>

(* The programs of a command and where their input and output go.          *)
RECURSIVE Wiring(_, _, _, _)
Wiring(c, at, in, out) ==
  CASE c.type = "EXEC" ->
         IF c.argv = <<>> THEN {}
         ELSE {[at |-> at, argv |-> c.argv, in |-> in, out |-> out]}
    [] c.type = "REDIR" -> Wiring(c.cmd, Append(at, "redir"),
                                  IF c.fd = 0 THEN File(c.file) ELSE in,
                                  IF c.fd = 1 THEN File(c.file) ELSE out)
    [] c.type = "PIPE" -> Wiring(c.left, Append(at, "left"), in, WriteEnd(at))
                            \cup Wiring(c.right, Append(at, "right"), ReadEnd(at), out)
    [] c.type = "LIST" -> Wiring(c.left, Append(at, "first"), in, out)
                            \cup Wiring(c.right, Append(at, "then"), in, out)
    [] c.type = "BACK" -> Wiring(c.cmd, Append(at, "back"), in, out)
    [] OTHER -> {}

(* The lines, what parsecmd() makes of them and what they mean.            *)
Lines == UNION {Range(s) : s \in Scripts}
Tree == [b \in Lines |-> parsecmd(b)]
MeaningOf == [b \in Lines |-> Meaning(b)]

(* parsecmd() in the child.                                                *)
Parse(p) ==
  LET r == Tree[proc[p].line]
  IN /\ proc[p].pc = "parse"
     /\ plan' = plan \cup Wiring(MeaningOf[proc[p].line], p, Console, Console)
     /\ IF r.ok
        THEN proc' = [proc EXCEPT ![p].pc = "run", ![p].cmd = r.cmd, ![p].line = <<>>]
        ELSE Exit(p)
     /\ UNCHANGED <<script, fails>>

-----------------------------------------------------------------------------
(* runcmd()                                                                *)
Runs(p, type) == proc[p].pc = "run" /\ proc[p].cmd.type = type
Part(p, side) == Append(proc[p].at, side)

RunExec(p) ==
  /\ Runs(p, "EXEC")
  /\ \/ Exit(p)                        \* no argument, or exec() fails
     \/ /\ proc[p].cmd.argv # <<>>
        /\ \E k \in Programs : proc' = [proc EXCEPT ![p].pc = k]
  /\ UNCHANGED <<script, fails, plan>>

RunRedir(p) ==
  LET c == proc[p].cmd
  IN /\ Runs(p, "REDIR")
     /\ \/ Exit(p)                     \* open() fails
        \/ proc' = [proc EXCEPT ![p].fds = Open(Close(@, c.fd), File(c.file)),
                                ![p].cmd = c.cmd, ![p].at = Part(p, "redir")]
     /\ UNCHANGED <<script, fails, plan>>

RunList(p) ==
  /\ Runs(p, "LIST")
  /\ fork1(p, [proc[p] EXCEPT !.pc = "list_wait"],
           Child(p, proc[p], Part(p, "first"), "run", proc[p].cmd.left))
  /\ UNCHANGED <<script, plan>>

ListWait(p) ==
  /\ proc[p].pc = "list_wait"
  /\ \E q \in DOMAIN proc :
       /\ Waited(p, q)
       /\ proc' = Reap(p, q, [proc[p] EXCEPT !.pc = "run", !.cmd = @.right,
                                              !.at = Part(p, "then")])
  /\ UNCHANGED <<script, fails, plan>>

(* pipe() and the first fork1(); a failure of either is a panic().         *)
RunPipe(p) ==
  LET p0 == Lowest(proc[p].fds)
      one == Open(proc[p].fds, ReadEnd(proc[p].at))
      me == [proc[p] EXCEPT !.p = <<p0, Lowest(one)>>,
                            !.fds = Open(one, WriteEnd(proc[p].at))]
  IN /\ Runs(p, "PIPE")
     /\ fork1(p, [me EXCEPT !.pc = "pipe_right"],
              Child(p, me, Part(p, "left"), "left", me.cmd.left))
     /\ UNCHANGED <<script, plan>>

PipeRight(p) ==
  /\ proc[p].pc = "pipe_right"
  /\ fork1(p, [proc[p] EXCEPT !.pc = "pipe_close"],
           Child(p, proc[p], Part(p, "right"), "right", proc[p].cmd.right))
  /\ UNCHANGED <<script, plan>>

CloseBoth(fds, pair) == Close(Close(fds, pair[1]), pair[2])

(* Fault: a side of the pipe keeps the end that it does not use.           *)
SideFds_keep(fds, pair, side) ==
  IF side = "left" THEN Close(Open(Close(fds, 1), fds[pair[2]]), pair[2])
  ELSE Close(Open(Close(fds, 0), fds[pair[1]]), pair[1])

(* Input or output of a side of the pipe.                                  *)
SideFds(fds, pair, side) ==
  IF side = "left" THEN CloseBoth(Open(Close(fds, 1), fds[pair[2]]), pair)
  ELSE CloseBoth(Open(Close(fds, 0), fds[pair[1]]), pair)

PipeSide(p) ==
  /\ proc[p].pc \in {"left", "right"}
  /\ proc' = [proc EXCEPT ![p].fds = SideFds(@, proc[p].p, proc[p].pc),
                          ![p].pc = "run"]
  /\ UNCHANGED <<script, fails, plan>>

(* Fault: the parent does not close the write end of the pipe.             *)
PipeClose_one(p) ==
  /\ proc[p].pc = "pipe_close"
  /\ proc' = [proc EXCEPT ![p].fds = Close(@, proc[p].p[1]), ![p].pc = "pipe_wait"]
  /\ UNCHANGED <<script, fails, plan>>

PipeClose(p) ==
  /\ proc[p].pc = "pipe_close"
  /\ proc' = [proc EXCEPT ![p].fds = CloseBoth(@, proc[p].p), ![p].pc = "pipe_wait"]
  /\ UNCHANGED <<script, fails, plan>>

(* Fault: the parent waits for one side of the pipe only.                  *)
PipeWait_once(p) ==
  /\ proc[p].pc = "pipe_wait"
  /\ \E q \in DOMAIN proc :
       Waited(p, q) /\ proc' = Reap(p, q, [proc[p] EXCEPT !.pc = "exit"])
  /\ UNCHANGED <<script, fails, plan>>

PipeWait(p) ==
  /\ proc[p].pc \in {"pipe_wait", "pipe_wait2"}
  /\ \E q \in DOMAIN proc :
       /\ Waited(p, q)
       /\ proc' = Reap(p, q, [proc[p] EXCEPT
                                !.pc = IF @ = "pipe_wait" THEN "pipe_wait2" ELSE "exit"])
  /\ UNCHANGED <<script, fails, plan>>

RunBack(p) ==
  /\ Runs(p, "BACK")
  /\ fork1(p, [proc[p] EXCEPT !.pc = "exit"],
           Child(p, proc[p], Part(p, "back"), "run", proc[p].cmd.cmd))
  /\ UNCHANGED <<script, plan>>

RunEnd(p) ==
  /\ proc[p].pc = "exit"
  /\ Exit(p)
  /\ UNCHANGED <<script, fails, plan>>

(* A program comes to its end: read() returns 0 once no write end is open; *)
(* write() goes on while somebody reads, and fails once nobody can.        *)
ProgramEnds(p) ==
  LET in == proc[p].fds[0]
      out == proc[p].fds[1]
  IN /\ proc[p].pc \in Programs
     /\ (proc[p].pc = "reads" /\ in.kind = "read") => ~IsOpen(WriteEnd(in.of))
     /\ (proc[p].pc = "writes" /\ out.kind = "write") =>
          \/ ~IsOpen(ReadEnd(out.of))
          \/ \E q \in DOMAIN proc : /\ proc[q].pc = "reads"
                                    /\ proc[q].fds[0] = ReadEnd(out.of)
     /\ Exit(p)
     /\ UNCHANGED <<script, fails, plan>>

Step(p) ==
  \/ Parse(p) \/ RunExec(p) \/ RunRedir(p) \/ RunList(p) \/ ListWait(p)
  \/ RunPipe(p) \/ PipeRight(p) \/ PipeSide(p) \/ PipeClose(p) \/ PipeWait(p)
  \/ RunBack(p) \/ RunEnd(p) \/ ProgramEnds(p)

Next == Getcmd \/ Mainwait \/ \E p \in DOMAIN proc \ {Sh} : Step(p)

(* Somebody goes on while anybody can.  No step can be taken for ever.     *)
Spec == Init /\ [][Next]_vars /\ WF_vars(Next)

-----------------------------------------------------------------------------
(* The parser's tree, with the strings that its words have become after    *)
(* nulterminate(), is what the line means, and it finds every syntax error *)
(* and no other: pointers, lookahead and the shared execcmd included.      *)
ParseAgrees ==
  \A p \in DOMAIN proc : proc[p].pc = "parse" =>
    LET r == Tree[proc[p].line]
        m == MeaningOf[proc[p].line]
    IN IF r.ok THEN r.cmd = m ELSE m = NoCmd

(* A program starts with descriptors 0, 1 and 2 open and no other, and the *)
(* first two are the files and pipes that its place in the line says.      *)
Wired ==
  \A p \in DOMAIN proc : proc[p].pc \in Programs =>
    /\ [at |-> proc[p].at, argv |-> proc[p].cmd.argv,
        in |-> proc[p].fds[0], out |-> proc[p].fds[1]] \in plan
    /\ proc[p].fds[2] = Console
    /\ \A n \in 3 .. NOFILE - 1 : proc[p].fds[n] = Closed

Background(at) == \E i \in DOMAIN at : at[i] = "back"

(* The prompt comes back, and the second part of a list starts, only when  *)
(* all processes of the command before it are gone except those started    *)
(* with "&" - unless a fork() or pipe() failed, after which the sides of a *)
(* pipe are left alone.                                                    *)
ForegroundDone ==
  fails = 0 => \A p, q \in DOMAIN proc :
    /\ (p = Sh /\ proc[p].pc = "prompt" /\ q # Sh) => Background(q)
    /\ \A i \in DOMAIN proc[p].at :
         (/\ proc[p].at[i] = "then"
          /\ IsPrefix(Append(SubSeq(proc[p].at, 1, i - 1), "first"), q))
            => Background(SubSeq(q, i + 1, Len(q)))

(* The prompt always comes back: nobody in a pipeline waits for an end of  *)
(* file that cannot come because a descriptor was left open.               *)
PromptReturns == []<>(Sh \in DOMAIN proc => proc[Sh].pc = "prompt")
=============================================================================
