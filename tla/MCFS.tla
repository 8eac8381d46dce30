-------------------------------- MODULE MCFS --------------------------------
EXTENDS FS

Abs(s) == [abs |-> TRUE, elems |-> s]
Rel(s) == [abs |-> FALSE, elems |-> s]

(* The processes are in /d/d.                                              *)
MCCalls ==
  {[op |-> "open", path |-> Abs(<<"a">>), write |-> TRUE, trunc |-> TRUE],
   [op |-> "open", path |-> Rel(<<"..">>), write |-> TRUE, trunc |-> FALSE],
   [op |-> "create", path |-> Abs(<<"d", "a">>), write |-> TRUE, trunc |-> FALSE],
   [op |-> "mkdir", path |-> Rel(<<"d">>)],
   [op |-> "mknod", path |-> Rel(<<"..", "a">>), major |-> FALSE],
   [op |-> "link", path |-> Abs(<<"a">>), new |-> Rel(<<"..", "a">>)],
   [op |-> "link", path |-> Rel(<<".">>), new |-> Rel(<<"a">>)],
   [op |-> "chdir", path |-> Rel(<<"..">>)],
   [op |-> "chdir", path |-> Abs(<<"a">>)],
   [op |-> "unlink", path |-> Abs(<<"a">>)],
   [op |-> "unlink", path |-> Abs(<<"d">>)],
   [op |-> "unlink", path |-> Abs(<<"d", "d">>)],
   [op |-> "unlink", path |-> Rel(<<".">>)]}

Sym == Permutations(Proc)

=============================================================================
