----------------------------- MODULE LineBuffer -----------------------------
(***************************************************************************)
(* What a terminal promises its readers: characters that are typed make up *)
(* a line that can be edited, and a line that is ended goes to the readers *)
(* as it is, in order, each character once.  At most Size characters are   *)
(* held; when they are, the line counts as ended.                          *)
(***************************************************************************)
EXTENDS Naturals, Sequences

CONSTANT Size

VARIABLES
  ready,            (* ended lines not yet read                            *)
  line              (* the line being typed                                *)

vars == <<ready, line>>

Init == ready = <<>> /\ line = <<>>

Ends(c) == c \in {"nl", "eof"} \/ Len(ready) + Len(line) + 1 = Size

Type(c) ==
  /\ Len(ready) + Len(line) < Size
  /\ IF Ends(c) THEN ready' = ready \o Append(line, c) /\ line' = <<>>
     ELSE line' = Append(line, c) /\ UNCHANGED ready

Erase ==
  /\ line # <<>>
  /\ line' = SubSeq(line, 1, Len(line) - 1)
  /\ UNCHANGED ready

KillLine == line' = <<>> /\ UNCHANGED ready

Read ==
  /\ ready # <<>>
  /\ ready' = Tail(ready)
  /\ UNCHANGED line

Next == (\E c \in {"x", "nl", "eof"} : Type(c)) \/ Erase \/ KillLine \/ Read

Spec == Init /\ [][Next]_vars

=============================================================================
