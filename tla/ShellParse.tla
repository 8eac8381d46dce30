----------------------------- MODULE ShellParse -----------------------------
(***************************************************************************)
(* The parser of user/sh.c.  A line is a sequence of characters; a         *)
(* pointer into it is an index, and behind its last character there is a   *)
(* NUL.  A word is what its characters are, " " stands for all white       *)
(* space.  The C functions move the pointer *ps: here each of them returns *)
(* a record with the tree built so far, the pointer and ok = FALSE when    *)
(* panic() was called.                                                     *)
(***************************************************************************)
EXTENDS Integers, SequencesExt

CONSTANT MAXARGS      (* size of argv[]                                    *)

ASSUME ShellParseConstants == MAXARGS \in Nat \ {0}

NUL == "NUL"
whitespace == {" "}
symbols == {"<", "|", ">", "&", ";", "(", ")"}

At(b, s) == IF s <= Len(b) THEN b[s] ELSE NUL

(* The first place from s on that has none of the characters in set, and   *)
(* the first that has one.                                                 *)
Past(b, s, set) == Min({i \in s .. Len(b) + 1 : At(b, i) \notin set})
Until(b, s, set) == Min({i \in s .. Len(b) + 1 : At(b, i) \in set})

IsAppend(b, q) == At(b, q) = ">" /\ At(b, q + 1) = ">"

TokenEnd(b, q) ==
  CASE At(b, q) = NUL -> q
    [] IsAppend(b, q) -> q + 2
    [] At(b, q) \in symbols /\ ~IsAppend(b, q) -> q + 1
    [] OTHER -> Until(b, q, whitespace \cup symbols \cup {NUL})

Token(b, q, eq) ==
  [tok |-> IF IsAppend(b, q) THEN "+"
           ELSE IF At(b, q) \in symbols \cup {NUL} THEN At(b, q) ELSE "a",
   q |-> q, eq |-> eq, s |-> Past(b, eq, whitespace)]

TokenFrom(b, q) == Token(b, q, TokenEnd(b, q))

(* gettoken(): tok, the token from q to eq, and the new pointer s.         *)
gettoken(b, s) == TokenFrom(b, Past(b, s, whitespace))

peek(b, s, toks) == At(b, Past(b, s, whitespace)) \in toks

-----------------------------------------------------------------------------
Word(t) == [q |-> t.q, eq |-> t.eq]

execcmd == [type |-> "EXEC", argv |-> <<>>]
redircmd(c, f, tok) ==
  [type |-> "REDIR", cmd |-> c, file |-> f,
   mode |-> CASE tok = "<" -> "read" [] tok = ">" -> "trunc" [] tok = "+" -> "write",
   fd |-> IF tok = "<" THEN 0 ELSE 1]
pipecmd(l, r) == [type |-> "PIPE", left |-> l, right |-> r]
listcmd(l, r) == [type |-> "LIST", left |-> l, right |-> r]
backcmd(c) == [type |-> "BACK", cmd |-> c]

Parsed(c, s) == [ok |-> TRUE, cmd |-> c, s |-> s]
Panic == [ok |-> FALSE]

(* The file of a redirection with the token tok.                           *)
Redirect(c, f, tok) ==
  IF f.tok # "a" THEN Panic               \* missing file for redirection
  ELSE Parsed(redircmd(c, Word(f), tok), f.s)

Redirection(b, c, t) == Redirect(c, gettoken(b, t.s), t.tok)

RECURSIVE parseredirs(_, _)
parseredirs(b, r) ==
  IF ~r.ok \/ ~peek(b, r.s, {"<", ">"}) THEN r
  ELSE parseredirs(b, Redirection(b, r.cmd, gettoken(b, r.s)))

(* parseexec() goes on filling its execcmd after parseredirs() has wrapped *)
(* it.                                                                     *)
RECURSIVE Argv(_)
Argv(c) == IF c.type = "EXEC" THEN c.argv ELSE Argv(c.cmd)

RECURSIVE AddArg(_, _)
AddArg(c, w) ==
  IF c.type = "EXEC" THEN [c EXCEPT !.argv = Append(@, w)]
  ELSE [c EXCEPT !.cmd = AddArg(@, w)]

Argument(b, c, t) ==
  IF t.tok # "a" THEN Panic                                   \* syntax
  ELSE IF Len(Argv(c)) + 1 >= MAXARGS THEN Panic              \* too many args
  ELSE parseredirs(b, Parsed(AddArg(c, Word(t)), t.s))

RECURSIVE Arguments(_, _)
Arguments(b, r) ==
  IF ~r.ok \/ peek(b, r.s, {"|", ")", "&", ";", NUL}) THEN r
  ELSE Arguments(b, Argument(b, r.cmd, gettoken(b, r.s)))

(* The loop of parseline() over "&".                                       *)
RECURSIVE Backgrounds(_, _)
Backgrounds(b, r) ==
  IF ~r.ok \/ ~peek(b, r.s, {"&"}) THEN r
  ELSE Backgrounds(b, Parsed(backcmd(r.cmd), gettoken(b, r.s).s))

RECURSIVE parseline(_, _)
RECURSIVE parsepipe(_, _)

(* Fault: redirections of a block are not parsed.                          *)
BlockEnd_bare(b, l) ==
  IF ~l.ok \/ ~peek(b, l.s, {")"}) THEN Panic
  ELSE Parsed(l.cmd, gettoken(b, l.s).s)

BlockEnd(b, l) ==
  IF ~l.ok \/ ~peek(b, l.s, {")"}) THEN Panic                 \* missing )
  ELSE parseredirs(b, Parsed(l.cmd, gettoken(b, l.s).s))

parseblock(b, s) == BlockEnd(b, parseline(b, gettoken(b, s).s))

parseexec(b, s) ==
  IF peek(b, s, {"("}) THEN parseblock(b, s)
  ELSE Arguments(b, parseredirs(b, Parsed(execcmd, s)))

(* The operator op between what was parsed, if anything follows it.        *)
Both(l, r, op(_, _)) == IF r.ok THEN Parsed(op(l.cmd, r.cmd), r.s) ELSE Panic

PipeEnd(b, l) ==
  IF ~l.ok \/ ~peek(b, l.s, {"|"}) THEN l
  ELSE Both(l, parsepipe(b, gettoken(b, l.s).s), pipecmd)

parsepipe(b, s) == PipeEnd(b, parseexec(b, s))

LineEnd(b, l) ==
  IF ~l.ok \/ ~peek(b, l.s, {";"}) THEN l
  ELSE Both(l, parseline(b, gettoken(b, l.s).s), listcmd)

parseline(b, s) == LineEnd(b, Backgrounds(b, parsepipe(b, s)))

-----------------------------------------------------------------------------
(* The places where nulterminate() writes a NUL.                           *)
RECURSIVE Ends(_)
Ends(c) ==
  CASE c.type = "EXEC" -> {c.argv[i].eq : i \in DOMAIN c.argv}
    [] c.type = "REDIR" -> Ends(c.cmd) \cup {c.file.eq}
    [] c.type = "BACK" -> Ends(c.cmd)
    [] OTHER -> Ends(c.left) \cup Ends(c.right)

nulterminate(b, c) ==
  [i \in 1 .. Len(b) + 1 |-> IF i \in Ends(c) THEN NUL ELSE At(b, i)]

(* The string at a pointer, as exec() and open() read it.                  *)
String(b, q) == SubSeq(b, q, Until(b, q, {NUL}) - 1)

(* The tree with its strings in place of the pointers to them.             *)
RECURSIVE Read(_, _)
Read(b, c) ==
  CASE c.type = "EXEC" -> [c EXCEPT !.argv = [i \in DOMAIN @ |-> String(b, @[i].q)]]
    [] c.type = "REDIR" -> [c EXCEPT !.cmd = Read(b, @), !.file = String(b, @.q)]
    [] c.type = "BACK" -> [c EXCEPT !.cmd = Read(b, @)]
    [] OTHER -> [c EXCEPT !.left = Read(b, @), !.right = Read(b, @)]

CmdEnd(b, l) ==
  IF ~l.ok THEN Panic
  ELSE IF Past(b, l.s, whitespace) # Len(b) + 1 THEN Panic    \* leftovers
  ELSE [ok |-> TRUE, cmd |-> Read(nulterminate(b, l.cmd), l.cmd)]

parsecmd(b) == CmdEnd(b, parseline(b, 1))

-----------------------------------------------------------------------------
(***************************************************************************)
(* What a line means, without pointers and lookahead: its tokens, and a    *)
(* tree found by splitting them at the operators outside parentheses, the  *)
(* weakest operator first.                                                 *)
(***************************************************************************)
IsWord(b, i) == At(b, i) \notin whitespace \cup symbols \cup {NUL}

(* ">" number i is the second of a ">>".                                   *)
Second(b, i) ==
  LET run == {j \in 1 .. i : \A k \in j .. i : b[k] = ">"}
  IN run # {} /\ Cardinality(run) % 2 = 0

Starts(b) ==
  {i \in 1 .. Len(b) : /\ b[i] \notin whitespace
                       /\ ~Second(b, i)
                       /\ IsWord(b, i) => (i = 1 \/ ~IsWord(b, i - 1))}

TokenAt(b, i) ==
  IF IsWord(b, i)
  THEN [tok |-> "a",
        text |-> SubSeq(b, i, Max({j \in i .. Len(b) : \A k \in i .. j : IsWord(b, k)}))]
  ELSE [tok |-> IF i < Len(b) /\ Second(b, i + 1) THEN "+" ELSE b[i], text |-> <<>>]

Sorted(S) ==
  [n \in 1 .. Cardinality(S) |-> CHOOSE i \in S : Cardinality({j \in S : j < i}) = n - 1]

TokensAt(b, at) == [n \in DOMAIN at |-> TokenAt(b, at[n])]
Tokens(b) == TokensAt(b, Sorted(Starts(b)))

Count(t, n, tok) == Cardinality({i \in 1 .. n : t[i].tok = tok})
Depth(t, n) == Count(t, n, "(") - Count(t, n, ")")
Outside(t, tok) == {i \in DOMAIN t : t[i].tok = tok /\ Depth(t, i) = 0}
Before(t, i) == SubSeq(t, 1, i - 1)
After(t, i) == SubSeq(t, i + 1, Len(t))

IsRedir(t, i) == t[i].tok \in {"<", ">", "+"}
IsFile(t, i) == i > 1 /\ IsRedir(t, i - 1)
Redirs(t) == Sorted({i \in DOMAIN t : IsRedir(t, i)})

(* Words, and redirections each with its file: the first redirection ends  *)
(* up innermost, so that it is the one that lasts.                         *)
Redirected(c, t) ==
  FoldLeft(LAMBDA acc, i : redircmd(acc, t[i + 1].text, t[i].tok), c, Redirs(t))

Wellformed(t) ==
  \A i \in DOMAIN t :
    /\ t[i].tok \in {"a", "<", ">", "+"}
    /\ IsRedir(t, i) => i < Len(t) /\ t[i + 1].tok = "a"

Plain(t) == SelectSeq([i \in DOMAIN t |-> [t[i] EXCEPT !.tok = IF IsFile(t, i) THEN "file" ELSE @]],
                      LAMBDA x : x.tok = "a")

NoTree == [type |-> "none"]

Simple(t, words) ==
  IF ~Wellformed(t) \/ Len(words) >= MAXARGS THEN NoTree
  ELSE Redirected([execcmd EXCEPT !.argv = [i \in DOMAIN words |-> words[i].text]], t)

Block(inner, rest) ==
  IF inner = NoTree \/ ~Wellformed(rest) \/ Plain(rest) # <<>> THEN NoTree
  ELSE Redirected(inner, rest)

Split(l, r, op(_, _)) == IF NoTree \in {l, r} THEN NoTree ELSE op(l, r)

RECURSIVE MeaningLine(_)
MeaningBlock(t, close) == Block(MeaningLine(SubSeq(t, 2, close - 1)), After(t, close))

MeaningSimple(t) ==
  IF t # <<>> /\ t[1].tok = "("
  THEN MeaningBlock(t, Min({i \in DOMAIN t : Depth(t, i) = 0}))
  ELSE Simple(t, Plain(t))

RECURSIVE MeaningPipe(_)
PipeAt(t, bars) ==
  IF bars = {} THEN MeaningSimple(t)
  ELSE Split(MeaningSimple(Before(t, Min(bars))), MeaningPipe(After(t, Min(bars))), pipecmd)
MeaningPipe(t) == PipeAt(t, Outside(t, "|"))

Back(c) == IF c = NoTree THEN NoTree ELSE backcmd(c)

RECURSIVE MeaningPart(_)
MeaningPart(t) ==
  IF t # <<>> /\ Last(t).tok = "&" THEN Back(MeaningPart(Front(t)))
  ELSE IF Outside(t, "&") # {} THEN NoTree ELSE MeaningPipe(t)

ListAt(t, semis) ==
  IF semis = {} THEN MeaningPart(t)
  ELSE Split(MeaningPart(Before(t, Min(semis))), MeaningLine(After(t, Min(semis))), listcmd)
MeaningLine(t) == ListAt(t, Outside(t, ";"))

MeaningTokens(t) ==
  IF Depth(t, Len(t)) = 0 /\ \A n \in DOMAIN t : Depth(t, n) >= 0
  THEN MeaningLine(t) ELSE NoTree

Meaning(b) == MeaningTokens(Tokens(b))
=============================================================================
