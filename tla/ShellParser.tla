----------------------------- MODULE ShellParser -----------------------------
(***************************************************************************)
(* The parser of sh.c: a line is a sequence of characters; the pointers ps *)
(* and es are positions.  A parse function returns the command and the     *)
(* position it stopped at; a panic of the shell is the command Err.        *)
(***************************************************************************)
EXTENDS Integers, Sequences, FiniteSets, FiniteSetsExt

CONSTANT MAXARGS

Nul == "0"
Whitespace == {" "}
Symbols == {"<", "|", ">", "&", ";", "(", ")"}

Exec(argv) == [type |-> "EXEC", argv |-> argv]
Redir(cmd, file, fd) == [type |-> "REDIR", cmd |-> cmd, file |-> file, fd |-> fd]
PipeCmd(l, r) == [type |-> "PIPE", left |-> l, right |-> r]
List(l, r) == [type |-> "LIST", left |-> l, right |-> r]
Back(c) == [type |-> "BACK", cmd |-> c]
Err == [type |-> "ERR"]
Fail(s) == [c |-> Err, s |-> s]
Failed(r) == r.c.type = "ERR"

At(line, s) == IF s <= Len(line) THEN line[s] ELSE Nul

\* The first position from s on whose character is not in C.
SkipAll(line, s, C) == Min({t \in s..Len(line) + 1 : At(line, t) \notin C})
Skip(line, s) == SkipAll(line, s, Whitespace)

\* peek leaves ps at the next character that is not white space.
Peek(line, s, toks) == At(line, Skip(line, s)) \in toks

TokenEnd(line, q) ==
    CASE At(line, q) = Nul -> q
      [] At(line, q) = ">" -> IF At(line, q + 1) = ">" THEN q + 2 ELSE q + 1
      [] At(line, q) \in Symbols \ {">"} -> q + 1
      [] OTHER -> Min({t \in q..Len(line) + 1 : At(line, t) \in Whitespace \cup Symbols \cup {Nul}})
Token(c, q, eq, s) == [tok |-> IF c = ">" /\ eq = q + 2 THEN "+"
                               ELSE IF c \in Symbols \cup {Nul} THEN c ELSE "a",
                       q |-> q, eq |-> eq, s |-> s]
TokenFrom(line, q, eq) == Token(At(line, q), q, eq, Skip(line, eq))
TokenAtPs(line, q) == TokenFrom(line, q, TokenEnd(line, q))
Gettoken(line, s) == TokenAtPs(line, Skip(line, s))
Word(t) == [q |-> t.q, eq |-> t.eq]

RECURSIVE Parseredirs(_, _, _), Parseargs(_, _, _), Parseline(_, _), Parsepipe(_, _)

\* One turn of parseredirs' loop, once the operator op and the next token are read.
Redirect(cmd, op, file) == IF file.tok # "a" THEN Fail(file.s)
                           ELSE [c |-> Redir(cmd, Word(file), IF op.tok = "<" THEN 0 ELSE 1), s |-> file.s]
RedirOp(line, cmd, op) == Redirect(cmd, op, Gettoken(line, op.s))
RedirsFrom(line, r) == IF Failed(r) THEN r ELSE Parseredirs(line, r.c, r.s)
Parseredirs(line, cmd, s) ==
    IF ~Peek(line, s, {"<", ">"}) THEN [c |-> cmd, s |-> Skip(line, s)]
    ELSE RedirsFrom(line, RedirOp(line, cmd, Gettoken(line, s)))

\* argv lives in the innermost command, which the redirections wrap.
RECURSIVE AddArg(_, _)
AddArg(cmd, w) == IF cmd.type = "EXEC" THEN [cmd EXCEPT !.argv = Append(@, w)]
                  ELSE [cmd EXCEPT !.cmd = AddArg(@, w)]

\* The loop of parseexec, after parseredirs returned r; t is the next token.
NextArg(line, cmd, argc, t) ==
    IF t.tok = Nul THEN [c |-> cmd, s |-> t.s]
    ELSE IF t.tok # "a" \/ argc + 1 >= MAXARGS THEN Fail(t.s)
    ELSE Parseargs(line, Parseredirs(line, AddArg(cmd, Word(t)), t.s), argc + 1)
Parseargs(line, r, argc) ==
    IF Failed(r) THEN r
    ELSE IF Peek(line, r.s, {"|", ")", "&", ";"}) THEN [c |-> r.c, s |-> Skip(line, r.s)]
    ELSE NextArg(line, r.c, argc, Gettoken(line, r.s))

BlockEnd(line, r) == IF Failed(r) \/ ~Peek(line, r.s, {")"}) THEN Fail(r.s)
                     ELSE Parseredirs(line, r.c, Gettoken(line, r.s).s)
Parseblock(line, s) == BlockEnd(line, Parseline(line, Gettoken(line, s).s))

Parseexec(line, s) == IF Peek(line, s, {"("}) THEN Parseblock(line, s)
                      ELSE Parseargs(line, Parseredirs(line, Exec(<<>>), s), 0)

Joined(type, l, r) == IF Failed(r) THEN r
                      ELSE [c |-> [type |-> type, left |-> l.c, right |-> r.c], s |-> r.s]
PipeRestOnce(line, l) == IF Failed(l) \/ ~Peek(line, l.s, {"|"}) THEN l
                         ELSE Joined("PIPE", l, Parseexec(line, Gettoken(line, l.s).s))
PipeRest(line, l) == IF Failed(l) \/ ~Peek(line, l.s, {"|"}) THEN l
                     ELSE Joined("PIPE", l, Parsepipe(line, Gettoken(line, l.s).s))
Parsepipe(line, s) == PipeRest(line, Parseexec(line, s))

RECURSIVE Parsebacks(_, _)
Parsebacks(line, l) == IF ~Failed(l) /\ Peek(line, l.s, {"&"})
                       THEN Parsebacks(line, [c |-> Back(l.c), s |-> Gettoken(line, l.s).s])
                       ELSE l
ListRest(line, l) == IF Failed(l) \/ ~Peek(line, l.s, {";"}) THEN l
                     ELSE Joined("LIST", l, Parseline(line, Gettoken(line, l.s).s))
Parseline(line, s) == ListRest(line, Parsebacks(line, Parsepipe(line, s)))

\* nulterminate: the positions that are overwritten by NUL.
RECURSIVE Nulterminate(_)
Nulterminate(cmd) ==
    CASE cmd.type = "EXEC" -> {cmd.argv[i].eq : i \in DOMAIN cmd.argv}
      [] cmd.type = "REDIR" -> Nulterminate(cmd.cmd) \cup {cmd.file.eq}
      [] cmd.type \in {"PIPE", "LIST"} -> Nulterminate(cmd.left) \cup Nulterminate(cmd.right)
      [] cmd.type = "BACK" -> Nulterminate(cmd.cmd)
      [] OTHER -> {}

\* The C string at position q once the line is terminated.
StringAt(line, nuls, q) ==
    SubSeq(line, q, Min({t \in q..Len(line) + 1 : t \in nuls \/ t = Len(line) + 1}) - 1)

\* The command as runcmd sees it, its words read from the buffer.
RECURSIVE Strings(_, _, _)
Strings(line, nuls, cmd) ==
    CASE cmd.type = "EXEC" ->
            Exec([i \in DOMAIN cmd.argv |-> StringAt(line, nuls, cmd.argv[i].q)])
      [] cmd.type = "REDIR" ->
            Redir(Strings(line, nuls, cmd.cmd), StringAt(line, nuls, cmd.file.q), cmd.fd)
      [] cmd.type \in {"PIPE", "LIST"} ->
            [cmd EXCEPT !.left = Strings(line, nuls, @), !.right = Strings(line, nuls, @)]
      [] cmd.type = "BACK" -> Back(Strings(line, nuls, cmd.cmd))
      [] OTHER -> cmd

\* parsecmd.
Command(line, r) == IF Failed(r) \/ Skip(line, r.s) # Len(line) + 1 THEN Err
                    ELSE Strings(line, Nulterminate(r.c), r.c)
Parsecmd(line) == Command(line, Parseline(line, 1))
-----------------------------------------------------------------------------
(* The language, defined by splitting a line into tokens and the tokens at  *)
(* their outermost separators, instead of by reading from left to right.    *)

\* A word starts after white space or a symbol; of a run of ">" every second
\* one starts a token.
GreatersBefore(line, i) == Cardinality({j \in 1..i-1 : \A k \in j..i-1 : line[k] = ">"})
Starts(line) == {i \in 1..Len(line) :
    /\ line[i] \notin Whitespace
    /\ line[i] \notin Symbols => i = 1 \/ At(line, i - 1) \in Symbols \cup Whitespace
    /\ line[i] = ">" => GreatersBefore(line, i) % 2 = 0}
TokenAt(line, i) ==
    IF line[i] = ">" THEN IF At(line, i + 1) = ">" THEN <<">", ">">> ELSE <<">">>
    ELSE IF line[i] \in Symbols THEN <<line[i]>>
    ELSE SubSeq(line, i, Max({j \in i..Len(line) :
                                \A k \in i..j : line[k] \notin Symbols \cup Whitespace}))
Tokens(line) ==
    [n \in 1..Cardinality(Starts(line)) |->
        TokenAt(line, CHOOSE i \in Starts(line) :
                         Cardinality({j \in Starts(line) : j <= i}) = n)]

IsWord(t) == t[1] \notin Symbols
IsRedir(t) == t[1] \in {"<", ">"}
Tok(c) == <<c>>
Depth(ts, i) == Cardinality({j \in 1..i : ts[j] = Tok("(")}) - Cardinality({j \in 1..i : ts[j] = Tok(")")})
Balanced(ts) == (\A i \in DOMAIN ts : Cardinality({j \in 1..i : ts[j] = Tok("(")}) >=
                                      Cardinality({j \in 1..i : ts[j] = Tok(")")}))
                /\ (ts # <<>> => Depth(ts, Len(ts)) = 0)
Outer(ts, c) == {i \in DOMAIN ts : ts[i] = Tok(c) /\ Depth(ts, i) = 0}
Before(ts, i) == SubSeq(ts, 1, i - 1)
After(ts, i) == SubSeq(ts, i + 1, Len(ts))
Both(f, l, r) == IF l.type = "ERR" \/ r.type = "ERR" THEN Err ELSE f

\* The redirections of tokens ts around command c, in the order written.
RECURSIVE RefRedirs(_, _)
RefRedirs(c, ts) ==
    IF ts = <<>> THEN c
    ELSE IF IsRedir(ts[1])
    THEN IF Len(ts) < 2 \/ ~IsWord(ts[2]) THEN Err
         ELSE RefRedirs(Redir(c, ts[2], IF ts[1] = Tok("<") THEN 0 ELSE 1), SubSeq(ts, 3, Len(ts)))
    ELSE RefRedirs(c, Tail(ts))

RECURSIVE RefLine(_)
\* A simple command: its words, except the files of its redirections.
RefSimple(ts) ==
    LET args == {i \in DOMAIN ts : IsWord(ts[i]) /\ (i > 1 => ~IsRedir(ts[i - 1]))}
        argv == [n \in 1..Cardinality(args) |->
                    ts[CHOOSE i \in args : Cardinality({j \in args : j <= i}) = n]] IN
    IF (\E i \in DOMAIN ts : ~IsWord(ts[i]) /\ ~IsRedir(ts[i])) \/ Len(argv) >= MAXARGS THEN Err
    ELSE RefRedirs(Exec(argv), ts)
RefExec(ts) ==
    IF ts # <<>> /\ ts[1] = Tok("(")
    THEN LET m == Min({i \in DOMAIN ts : Depth(ts, i) = 0})
             rest == After(ts, m)
             body == RefLine(SubSeq(ts, 2, m - 1)) IN
         IF body.type = "ERR" \/ RefSimple(rest).type = "ERR" \/
            (\E i \in DOMAIN rest : IsWord(rest[i]) /\ (i = 1 \/ ~IsRedir(rest[i - 1]))) THEN Err
         ELSE RefRedirs(body, rest)
    ELSE RefSimple(ts)
RECURSIVE RefPipe(_), RefBack(_)
RefPipe(ts) == IF Outer(ts, "|") = {} THEN RefExec(ts)
               ELSE LET i == Min(Outer(ts, "|"))
                        l == RefExec(Before(ts, i))
                        r == RefPipe(After(ts, i)) IN Both(PipeCmd(l, r), l, r)
RefBack(ts) == IF ts # <<>> /\ ts[Len(ts)] = Tok("&")
               THEN LET c == RefBack(Before(ts, Len(ts))) IN Both(Back(c), c, c)
               ELSE RefPipe(ts)
RefLine(ts) == IF Outer(ts, ";") = {} THEN RefBack(ts)
               ELSE LET i == Min(Outer(ts, ";"))
                        l == RefBack(Before(ts, i))
                        r == RefLine(After(ts, i)) IN Both(List(l, r), l, r)
RefParse(line) == IF Balanced(Tokens(line)) THEN RefLine(Tokens(line)) ELSE Err
=============================================================================
