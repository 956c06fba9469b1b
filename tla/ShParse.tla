------------------------------ MODULE ShParse ------------------------------
(***************************************************************************)
(* The command parser of sh.c: gettoken, peek, the recursive-descent       *)
(* functions from parsecmd down, and nulterminate.  A line is a sequence   *)
(* of characters, where "a" is any character of a word.  A word in the     *)
(* tree is the pair of its first position and the position after it.       *)
(***************************************************************************)
EXTENDS Integers, Sequences, FiniteSetsExt

CONSTANTS
  Letters,   \* bound: the characters of lines
  MaxLine,   \* bound: their length
  MAXARGS

Symbols == {"<", "|", ">", "&", ";", "(", ")"}

VARIABLES line

Init == line = << >>

(* the user types; every line of Letters up to MaxLine is parsed *)
Type(c) == Len(line) < MaxLine /\ line' = Append(line, c)

Next == \E c \in Letters : Type(c)

Spec == Init /\ [][Next]_line

-----------------------------------------------------------------------------
es == Len(line) + 1
CharAt(s) == IF s < es THEN line[s] ELSE "nul"

(* the first position from s on whose character is not in cs *)
Skip(s, cs) == IF s >= es THEN s ELSE Min({i \in s .. es : CharAt(i) \notin cs})

Space(s) == Skip(s, {" "})

Symbol(s) == IF CharAt(s) = ">" /\ CharAt(s + 1) = ">" THEN [tok |-> "+", eq |-> s + 2]
             ELSE [tok |-> CharAt(s), eq |-> s + 1]

gettoken(ps) ==
  LET q == Space(ps)
      t == CASE CharAt(q) = "nul" -> [tok |-> "nul", eq |-> q]
             [] CharAt(q) \in Symbols -> Symbol(q)
             [] OTHER -> [tok |-> "a", eq |-> Skip(q, {"a"})]
  IN [tok |-> t.tok, word |-> <<q, t.eq>>, at |-> Space(t.eq)]

peek(ps, toks) == CharAt(Space(ps)) \in toks

(* what a parsing function returns: a command and where it stopped, or a panic,
   after which nothing more is parsed *)
Parsed(cmd, at) == [ok |-> TRUE, cmd |-> cmd, at |-> Space(at)]
Panic == [ok |-> FALSE]
Then(p, F(_)) == IF p.ok THEN F(p) ELSE Panic

RedirTo(cmd, t, f) ==
  [type |-> "REDIR", cmd |-> cmd, file |-> f.word, fd |-> IF t.tok = "<" THEN 0 ELSE 1]

RECURSIVE parseredirs(_, _)
parseredirs(cmd, ps) ==
  IF ~peek(ps, {"<", ">"}) THEN Parsed(cmd, ps)
  ELSE LET t == gettoken(ps)
           f == gettoken(t.at)
       IN IF f.tok # "a" THEN Panic ELSE parseredirs(RedirTo(cmd, t, f), f.at)

(* parseexec's loop: the arguments, and the redirections around them.  The    *)
(* EXEC node is filled in while REDIR nodes already point to it.              *)
RECURSIVE WithArg(_, _)
WithArg(cmd, w) ==
  IF cmd.type = "EXEC" THEN [cmd EXCEPT !.argv = Append(@, w)]
  ELSE [cmd EXCEPT !.cmd = WithArg(@, w)]

Stops == {"|", ")", "&", ";"}

RECURSIVE Args(_, _, _)
Args(cmd, argc, ps) ==
  LET t == gettoken(ps) IN
  IF peek(ps, Stops) \/ t.tok = "nul" THEN Parsed(cmd, ps)
  ELSE IF t.tok # "a" \/ argc + 1 >= MAXARGS THEN Panic
  ELSE Then(parseredirs(WithArg(cmd, t.word), t.at), LAMBDA r : Args(r.cmd, argc + 1, r.at))

RECURSIVE parseline(_), parsepipe(_), parseexec(_), parseblock(_)
parseexec(ps) ==
  IF peek(ps, {"("}) THEN parseblock(ps)
  ELSE Then(parseredirs([type |-> "EXEC", argv |-> << >>], ps), LAMBDA r : Args(r.cmd, 0, r.at))

parseblock(ps) ==
  Then(parseline(gettoken(ps).at),
       LAMBDA l : IF peek(l.at, {")"}) THEN parseredirs(l.cmd, gettoken(l.at).at) ELSE Panic)

Joined(type, left, right) ==
  Parsed([type |-> type, left |-> left.cmd, right |-> right.cmd], right.at)

parsepipe(ps) ==
  Then(parseexec(ps),
       LAMBDA left :
         IF peek(left.at, {"|"})
         THEN Then(parsepipe(gettoken(left.at).at), LAMBDA right : Joined("PIPE", left, right))
         ELSE left)

RECURSIVE Backs(_, _)
Backs(cmd, ps) ==
  IF peek(ps, {"&"}) THEN Backs([type |-> "BACK", cmd |-> cmd], gettoken(ps).at) ELSE Parsed(cmd, ps)

Listed(left) ==
  IF peek(left.at, {";"})
  THEN Then(parseline(gettoken(left.at).at), LAMBDA right : Joined("LIST", left, right))
  ELSE left

parseline(ps) == Then(parsepipe(ps), LAMBDA p : Listed(Backs(p.cmd, p.at)))

(* leftovers are a syntax error *)
Whole(l) == IF l.ok /\ l.at # es THEN Panic ELSE l

parsecmd == Whole(parseline(1))

(* nulterminate: the positions it writes 0 to *)
NoFile(cmd, below) == below

FileEnd(cmd, below) == below \cup {cmd.file[2]}

RECURSIVE nulterminate(_)
nulterminate(cmd) ==
  CASE cmd.type = "EXEC" -> {cmd.argv[i][2] : i \in 1 .. Len(cmd.argv)}
    [] cmd.type = "REDIR" -> FileEnd(cmd, nulterminate(cmd.cmd))
    [] cmd.type = "BACK" -> nulterminate(cmd.cmd)
    [] OTHER -> nulterminate(cmd.left) \cup nulterminate(cmd.right)

-----------------------------------------------------------------------------
(* The grammar, on the tokens of the line. *)
RECURSIVE TokensFrom(_)
TokensFrom(ps) ==
  LET t == gettoken(ps) IN IF t.tok = "nul" THEN << >> ELSE <<t.tok>> \o TokensFrom(t.at)

Ops == {"<", ">", "+"}
From(s, k) == SubSeq(s, k, Len(s))
Words(s) == {i \in 1 .. Len(s) : s[i] = "a" /\ (i = 1 \/ s[i - 1] \notin Ops)}
IsSimple(s) ==
  /\ \A i \in 1 .. Len(s) : s[i] = "a" \/ (s[i] \in Ops /\ i < Len(s) /\ s[i + 1] = "a")
  /\ Cardinality(Words(s)) < MAXARGS
RECURSIVE IsLine(_), IsPipe(_)
IsBlock(s) ==
  /\ s # << >> /\ s[1] = "("
  /\ \E k \in 2 .. Len(s) : /\ s[k] = ")" /\ IsLine(SubSeq(s, 2, k - 1))
                            /\ IsSimple(From(s, k + 1)) /\ Words(From(s, k + 1)) = {}
IsPipe(s) ==
  \/ IsSimple(s) \/ IsBlock(s)
  \/ \E k \in 1 .. Len(s) : /\ s[k] = "|" /\ IsPipe(From(s, k + 1))
                            /\ (IsSimple(SubSeq(s, 1, k - 1)) \/ IsBlock(SubSeq(s, 1, k - 1)))
IsLine(s) ==
  \E k \in 0 .. Len(s) : /\ IsPipe(SubSeq(s, 1, k))
    /\ \E m \in k .. Len(s) :
         /\ \A i \in k + 1 .. m : s[i] = "&"
         /\ m = Len(s) \/ (s[m + 1] = ";" /\ IsLine(From(s, m + 2)))

(* The parser accepts exactly the lines of the grammar: lists, pipelines and   *)
(* background marks nest as written, and a misplaced token is an error.        *)
AcceptsGrammar == parsecmd.ok <=> IsLine(TokensFrom(1))

(* Each word of an accepted line is one argument or one file of the tree, and  *)
(* the bytes nulterminate clears are the ones just after the words: none is    *)
(* part of another word, and none is left out.                                 *)
EachWordEnds ==
  parsecmd.ok =>
    nulterminate(parsecmd.cmd) = {i \in 2 .. es : line[i - 1] = "a" /\ CharAt(i) # "a"}
=============================================================================
