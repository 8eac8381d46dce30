------------------------------- MODULE Console ------------------------------
(***************************************************************************)
(* kernel/console.c and kernel/uart.c: the input line of consoleintr() and *)
(* consoleread(), and the output ring of uartputc() and uartstart(), with  *)
(* processes that read and write, the interrupt handler and the UART.      *)
(*                                                                         *)
(* Characters: "x" for any that is not special, "nl" (also '\r'), "eof"    *)
(* for ^D, "kill" for ^U, "erase" for ^H and delete, "list" for ^P.        *)
(* Indexes wrap around as in the code, here modulo MOD instead of 2^32.    *)
(* The UART sends from a FIFO, is idle (LSR_TX_IDLE) when it is empty and  *)
(* interrupts when it becomes empty or input arrives; the interrupt        *)
(* controller lets one handler run at a time.                              *)
(***************************************************************************)
EXTENDS Integers, Sequences, FiniteSets

CONSTANTS
  Readers, Writers, (* processes                                           *)
  NoProc, Intr,     (* nobody; the interrupt handler                       *)
  INPUT_BUF_SIZE, UART_TX_BUF_SIZE, MOD,
  Keys,             (* what may be typed                                   *)
  Lengths,          (* arguments n of read()                               *)
  Bounds            (* triples: keys pressed, characters written and calls *)
                    (* of read() at most                                   *)

ASSUME ConsoleConstants ==
  /\ {NoProc, Intr} \cap (Readers \cup Writers) = {}
  /\ MOD % INPUT_BUF_SIZE = 0 /\ MOD % UART_TX_BUF_SIZE = 0
  /\ INPUT_BUF_SIZE < MOD /\ UART_TX_BUF_SIZE < MOD

VARIABLES
  buf, r, w, e,     (* cons                                                *)
  conslock,         (* who holds cons.lock                                 *)
  rd,               (* readers: [pc, n, target]                            *)
  killed,
  tx, tx_w, tx_r,   (* uart_tx_buf, uart_tx_w, uart_tx_r                   *)
  wr,               (* writers: [pc, n]: n characters written              *)
  rhr, fifo,        (* the UART: input waiting, output being sent          *)
  sent,             (* characters that have left                           *)
  irq,              (* the UART's interrupt is pending                     *)
  h,                (* the handler: [pc, echo]                             *)
  left              (* keys, characters and read()s still to come          *)

cons == <<buf, r, w, e>>
ring == <<tx, tx_w, tx_r>>
vars == <<cons, conslock, rd, killed, ring, wr, rhr, fifo, sent, irq, h, left>>

Sub(a, b) == (a - b) % MOD

Init ==
  /\ buf = [k \in 0 .. INPUT_BUF_SIZE - 1 |-> "none"]
  /\ r = 0 /\ w = 0 /\ e = 0
  /\ conslock = NoProc
  /\ rd = [p \in Readers |-> [pc |-> "user", n |-> 0, target |-> 0]]
  /\ killed = [p \in Readers |-> FALSE]
  /\ tx = [k \in 0 .. UART_TX_BUF_SIZE - 1 |-> <<NoProc, 0>>]
  /\ tx_w = 0 /\ tx_r = 0
  /\ wr = [p \in Writers |-> [pc |-> "user", n |-> 0]]
  /\ rhr = <<>> /\ fifo = <<>> /\ sent = <<>>
  /\ irq = FALSE
  /\ h = [pc |-> "idle", echo |-> 0]
  /\ left \in Bounds

-----------------------------------------------------------------------------
(* read(): acquire(&cons.lock).                                            *)
ReadBegin(p, n) ==
  /\ rd[p].pc = "user"
  /\ ~killed[p]
  /\ left[3] > 0
  /\ left' = [left EXCEPT ![3] = @ - 1]
  /\ conslock = NoProc
  /\ conslock' = p
  /\ rd' = [rd EXCEPT ![p] = [pc |-> "loop", n |-> n, target |-> n]]
  /\ UNCHANGED <<cons, killed, ring, wr, rhr, fifo, sent, irq, h>>

ReadEnd(p) ==
  /\ conslock' = NoProc
  /\ rd' = [rd EXCEPT ![p] = [pc |-> "user", n |-> 0, target |-> 0]]

SavesEof(p) == rd[p].n < rd[p].target

(* There is input: take one character.  faults: either_copyout() fails.    *)
ReadChar(p, faults) ==
  /\ rd[p].pc = "loop"
  /\ r # w
  /\ LET c == buf[r % INPUT_BUF_SIZE]
     IN CASE c = "eof" -> (r' = IF SavesEof(p) THEN r ELSE (r + 1) % MOD) /\ ReadEnd(p)
          [] c # "eof" /\ (faults \/ c = "nl" \/ rd[p].n = 1) -> r' = (r + 1) % MOD /\ ReadEnd(p)
          [] OTHER -> /\ r' = (r + 1) % MOD
                      /\ rd' = [rd EXCEPT ![p].n = @ - 1]
                      /\ UNCHANGED conslock
  /\ UNCHANGED <<buf, w, e, killed, ring, wr, rhr, fifo, sent, irq, h, left>>

(* There is none: give up when killed, otherwise go to sleep.              *)
ReadEmpty(p) ==
  /\ rd[p].pc = "loop"
  /\ r = w
  /\ IF killed[p] THEN ReadEnd(p)
     ELSE rd' = [rd EXCEPT ![p].pc = "to_sleep"] /\ UNCHANGED conslock
  /\ UNCHANGED <<cons, killed, ring, wr, rhr, fifo, sent, irq, h, left>>

ReadSleep(p) ==
  /\ rd[p].pc = "to_sleep"
  /\ rd' = [rd EXCEPT ![p].pc = "asleep"]
  /\ conslock' = NoProc
  /\ UNCHANGED <<cons, killed, ring, wr, rhr, fifo, sent, irq, h, left>>

(* The end of sleep(): acquire(&cons.lock) again.                          *)
ReadWake(p) ==
  /\ rd[p].pc = "woken"
  /\ conslock = NoProc
  /\ conslock' = p
  /\ rd' = [rd EXCEPT ![p].pc = "loop"]
  /\ UNCHANGED <<cons, killed, ring, wr, rhr, fifo, sent, irq, h, left>>

(* kill() of a reader: a sleeper becomes RUNNABLE.                         *)
Kill(p) ==
  /\ rd[p].pc # "user"
  /\ ~killed[p]
  /\ killed' = [killed EXCEPT ![p] = TRUE]
  /\ rd' = [rd EXCEPT ![p].pc = IF @ = "asleep" THEN "woken" ELSE @]
  /\ UNCHANGED <<cons, conslock, ring, wr, rhr, fifo, sent, irq, h, left>>

-----------------------------------------------------------------------------
(* consoleintr(c); the echo of its characters follows.  The code echoes    *)
(* first: with cons.lock held during both, nobody can tell.                *)

(* How many characters c erases: from e down to w, and not past a newline  *)
(* (k of them are looked at).                                              *)
Erasable(k) ==
  LET ok == {j \in 0 .. k : \A m \in 1 .. j :
               Sub(e, m - 1) # w /\ buf[Sub(e, m) % INPUT_BUF_SIZE] # "nl"}
  IN CHOOSE j \in ok : \A m \in ok : m <= j

Room == Sub(e, r) < INPUT_BUF_SIZE

(* Fault: a buffer that is full does not end the line.                     *)
Complete_not(c) == c \in {"nl", "eof"}

Complete(c) == c \in {"nl", "eof"} \/ Sub(e + 1, r) = INPUT_BUF_SIZE

(* Fault: readers are not woken up.                                        *)
WakeReaders_not == rd

WakeReaders == [p \in Readers |-> IF rd[p].pc = "asleep" THEN [rd[p] EXCEPT !.pc = "woken"] ELSE rd[p]]

consoleintr(c) ==
  LET n == IF c = "kill" THEN Erasable(INPUT_BUF_SIZE)
           ELSE IF e # w THEN 1 ELSE 0
  IN CASE c = "list" -> UNCHANGED <<cons, rd>> /\ h' = [pc |-> "echo", echo |-> 0]
       [] c \in {"kill", "erase"} ->
            /\ e' = Sub(e, n)
            /\ h' = [pc |-> "echo", echo |-> 3 * n]
            /\ UNCHANGED <<buf, r, w, rd>>
       [] OTHER ->
            IF Room
            THEN /\ buf' = [buf EXCEPT ![e % INPUT_BUF_SIZE] = c]
                 /\ e' = (e + 1) % MOD
                 /\ h' = [pc |-> "echo", echo |-> 1]
                 /\ IF Complete(c) THEN w' = e' /\ rd' = WakeReaders ELSE UNCHANGED <<w, rd>>
                 /\ UNCHANGED r
            ELSE UNCHANGED <<cons, rd>> /\ h' = [pc |-> "echo", echo |-> 0]

-----------------------------------------------------------------------------
Idle == fifo = <<>>

(* uartintr(), called by devintr().                                        *)
IntrBegin ==
  /\ irq
  /\ h.pc = "idle"
  /\ irq' = FALSE
  /\ h' = [pc |-> "rx", echo |-> 0]
  /\ UNCHANGED <<cons, conslock, rd, killed, ring, wr, rhr, fifo, sent, left>>

IntrInput ==
  /\ h.pc = "rx"
  /\ rhr # <<>>
  /\ conslock = NoProc
  /\ rhr' = Tail(rhr)
  /\ conslock' = Intr
  /\ consoleintr(Head(rhr))
  /\ UNCHANGED <<killed, ring, wr, fifo, sent, irq, left>>

(* consputc() and uartputc_sync() wait for the UART with cons.lock held.   *)
(* They do not take uart_tx_lock: uartstart() on another CPU may find the  *)
(* UART idle too, before the character is written.                         *)
IntrEcho ==
  /\ h.pc = "echo"
  /\ IF h.echo = 0
     THEN conslock' = NoProc /\ h' = [h EXCEPT !.pc = "rx"]
     ELSE Idle /\ h' = [h EXCEPT !.pc = "thr"] /\ UNCHANGED conslock
  /\ UNCHANGED <<cons, rd, killed, ring, wr, rhr, fifo, sent, irq, left>>

IntrWrite ==
  /\ h.pc = "thr"
  /\ fifo' = Append(fifo, <<Intr, 0>>)
  /\ h' = [pc |-> "echo", echo |-> h.echo - 1]
  /\ UNCHANGED <<cons, conslock, rd, killed, ring, wr, rhr, sent, irq, left>>

(* Fault: uartstart() does not wake those who wait for space.              *)
WakeWriters_not == wr

WakeWriters == [p \in Writers |-> IF wr[p].pc = "asleep" THEN [wr[p] EXCEPT !.pc = "woken"] ELSE wr[p]]

(* uartstart() with the ring at b and wq, the writers at ws: one character *)
(* goes to an idle UART, which then is not idle.                           *)
uartstart(b, wq, ws) ==
  IF wq = tx_r \/ ~Idle
  THEN UNCHANGED <<tx_r, fifo>> /\ wr' = ws
  ELSE /\ fifo' = <<b[tx_r % UART_TX_BUF_SIZE]>>
       /\ tx_r' = (tx_r + 1) % MOD
       /\ wr' = [p \in Writers |-> IF WakeWriters[p] # wr[p] THEN WakeWriters[p] ELSE ws[p]]

IntrOutput ==
  /\ h.pc = "rx"
  /\ rhr = <<>>
  /\ uartstart(tx, tx_w, wr)
  /\ h' = [h EXCEPT !.pc = "idle"]
  /\ UNCHANGED <<cons, conslock, rd, killed, tx, tx_w, rhr, sent, irq, left>>

(* uartputc() of the next character of write(), or sleep() when the ring   *)
(* is full.                                                                *)
Full == Sub(tx_w, tx_r) = UART_TX_BUF_SIZE

WriteStep(p) ==
  \/ wr[p].pc = "woken" /\ UNCHANGED left
  \/ wr[p].pc = "user" /\ left[2] > 0 /\ left' = [left EXCEPT ![2] = @ - 1]

(* Fault: the ring is never full.                                          *)
WriteChar_overrun(p) ==
  /\ WriteStep(p)
  /\ tx' = [tx EXCEPT ![tx_w % UART_TX_BUF_SIZE] = <<p, wr[p].n + 1>>]
  /\ tx_w' = (tx_w + 1) % MOD
  /\ uartstart(tx', tx_w', [wr EXCEPT ![p] = [pc |-> "user", n |-> @.n + 1]])
  /\ UNCHANGED <<cons, conslock, rd, killed, rhr, sent, irq, h>>

WriteChar(p) ==
  /\ WriteStep(p)
  /\ IF Full
     THEN /\ wr' = [wr EXCEPT ![p].pc = "asleep"]
          /\ UNCHANGED <<ring, fifo>>
     ELSE /\ tx' = [tx EXCEPT ![tx_w % UART_TX_BUF_SIZE] = <<p, wr[p].n + 1>>]
          /\ tx_w' = (tx_w + 1) % MOD
          /\ uartstart(tx', tx_w', [wr EXCEPT ![p] = [pc |-> "user", n |-> @.n + 1]])
  /\ UNCHANGED <<cons, conslock, rd, killed, rhr, sent, irq, h>>

-----------------------------------------------------------------------------
(* The UART: a key is pressed; a character is sent.                        *)
Key(c) ==
  /\ left[1] > 0
  /\ left' = [left EXCEPT ![1] = @ - 1]
  /\ rhr = <<>>
  /\ rhr' = <<c>>
  /\ irq' = TRUE
  /\ UNCHANGED <<cons, conslock, rd, killed, ring, wr, fifo, sent, h>>

Send ==
  /\ fifo # <<>>
  /\ sent' = IF Head(fifo)[1] = Intr THEN sent ELSE Append(sent, Head(fifo))
  /\ fifo' = Tail(fifo)
  /\ irq' = (irq \/ fifo' = <<>>)
  /\ UNCHANGED <<cons, conslock, rd, killed, ring, wr, rhr, h, left>>

Handler == IntrBegin \/ IntrInput \/ IntrEcho \/ IntrWrite \/ IntrOutput

Reader(p) ==
  \/ \E faults \in BOOLEAN : ReadChar(p, faults)
  \/ ReadEmpty(p) \/ ReadSleep(p) \/ ReadWake(p)

Next ==
  \/ \E p \in Readers : Reader(p) \/ Kill(p) \/ \E n \in Lengths : ReadBegin(p, n)
  \/ \E p \in Writers : WriteChar(p)
  \/ \E c \in Keys : Key(c)
  \/ Handler
  \/ Send

(* The UART sends what it has, the interrupt is handled (SF: it gets       *)
(* cons.lock sooner or later), and a process with something to do goes on: *)
(* a reader that holds or waits for cons.lock, a writer that was woken up. *)
Fairness ==
  /\ WF_vars(Send)
  /\ SF_vars(Handler)
  /\ WF_vars(\E p \in Readers : Reader(p))
  /\ WF_vars(\E p \in Writers : wr[p].pc = "woken" /\ WriteChar(p))

Spec == Init /\ [][Next]_vars /\ Fairness

-----------------------------------------------------------------------------
(* Types; and the indexes keep their order whatever is typed, erased and   *)
(* read, also when they wrap around: r up to w is ready, w up to e is the  *)
(* line being typed, and both fit in the buffer.                           *)
TypeOK ==
  /\ Sub(w, r) <= Sub(e, r) /\ Sub(e, r) <= INPUT_BUF_SIZE
  /\ {r, w, e, tx_w, tx_r} \subseteq 0 .. MOD - 1
  /\ conslock \in Readers \cup {NoProc, Intr}
  /\ \A p \in Readers : rd[p].pc \in {"user", "loop", "to_sleep", "asleep", "woken"}
  /\ \A p \in Writers : wr[p].pc \in {"user", "asleep", "woken"}
  /\ h.pc \in {"idle", "rx", "echo", "thr"}

Chars(from, n) == [k \in 1 .. n |-> buf[(from + k - 1) % INPUT_BUF_SIZE]]

Lines == INSTANCE LineBuffer WITH
  Size <- INPUT_BUF_SIZE,
  ready <- Chars(r, Sub(w, r)),
  line <- Chars(w, Sub(e, w))

(* The ring of characters and its three indexes implement a line buffer:   *)
(* readers get the edited lines, each character once and in order.  A ^D   *)
(* is taken by a read() that has nothing else, and so returns 0.           *)
LineSpec ==
  /\ Lines!Spec
  /\ [][(r' # r /\ buf[r % INPUT_BUF_SIZE] = "eof")
          => \E p \in Readers : conslock = p /\ rd[p].n = rd[p].target]_vars

(* The output of each process leaves in the order in which it was written, *)
(* nothing lost and nothing twice: what has been sent, is being sent and   *)
(* is in the ring are its characters 1, 2, ...                             *)
OutputInOrder ==
  LET inring == [k \in 1 .. Sub(tx_w, tx_r) |-> tx[(tx_r + k - 1) % UART_TX_BUF_SIZE]]
      out == sent \o fifo \o inring
  IN \A p \in Writers :
       SelectSeq(out, LAMBDA c : c[1] = p) = [k \in 1 .. wr[p].n |-> <<p, k>>]

(* No wake-up is lost: a reader sleeps only while no line is ready, and a  *)
(* writer only while the ring is full.  The indexes keep their order.      *)
NoLostWakeup ==
  /\ TypeOK
  /\ \A p \in Readers : rd[p].pc \in {"to_sleep", "asleep"} => r = w
  /\ \A p \in Writers : wr[p].pc = "asleep" => Full

(* Output does not get stuck: whenever the ring holds characters, it is    *)
(* emptied, and every writer that waits for space goes on.                 *)
OutputDrains == []<>(tx_w = tx_r /\ \A p \in Writers : wr[p].pc = "user")

=============================================================================
