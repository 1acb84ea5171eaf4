-------------------------------- MODULE MCUser --------------------------------
(* The shell running command lines, malloc and free, and pure functions on    *)
(* all inputs up to a bound; `in' says which of them a behaviour is about.    *)
EXTENDS Shell, UserLib, Umalloc, TLC

CONSTANTS MaxLine, MaxExpr, MaxText, MaxFile, Cap

VARIABLE in

Strs(S, n) == UNION {[1..k -> S] : k \in 0..n}

MCLines == {<<"w", "|", "r">>, <<"w", "|", "c", "|", "r">>, <<"w", "|", "x">>,
            <<"(", "w", ";", "w", ")", "|", "r">>, <<"w", "|", "r", "&">>, <<"r", "<", "n">>,
            <<"w", ">", "f", ";", "r", "<", "f">>, <<"w", "|", "w", "|", "c", ">", "g">>,
            <<"w", "|", "(">>, <<"r">>}

Inputs ==
    [k : {"line"}, line : Strs({"a", " ", "|", "<", ">", "&", ";", "(", ")"}, MaxLine)
                           \cup Strs({"a", "|", ";", ">", "(", ")"}, MaxLine + 1)]
    \cup [k : {"match"}, re : Strs({"a", ".", "*", "^", "$"}, MaxExpr), text : Strs({"a", "b"}, MaxText)]
    \cup [k : {"grep"}, re : {<<"a">>, <<"^", "b">>, <<"$">>}, text : Strs({"a", "b", "n"}, MaxFile)]
    \cup {i \in [k : {"move"}, d : 1..4, s : 1..4, n : 0..4] : i.d + i.n <= 5 /\ i.s + i.n <= 5}
    \cup [k : {"copy"}, t : Strs({7, 8}, 4), n : 0..4]
    \cup [k : {"int"}, x : -130..130]
    \cup [k : {"wc"}, text : Strs({"a", " ", "n"}, 5)]

ShIdle == /\ ftable = [f \in Files |-> None]
          /\ ofile = [p \in Procs |-> [fd \in Fds |-> 0]]
          /\ pipe = [g \in Pages |-> Freed]
          /\ th = [p \in Procs |-> IF p = Sh THEN User ELSE Gone]
          /\ killed = [p \in Procs |-> FALSE]
          /\ code = [p \in Procs |-> <<>>]
          /\ pfd = [p \in Procs |-> <<0, 0>>]
          /\ parent = [p \in Procs |-> 0]

UInit == \/ in = [k |-> "run"] /\ ShInit /\ MInit
         \/ in = [k |-> "malloc"] /\ ShIdle /\ MInit
         \/ in \in Inputs /\ ShIdle /\ MInit

ShellRuns(p) == in.k = "run" /\ ShStep(p) /\ UNCHANGED <<mvars, in>>
AllocatorRuns == in.k = "malloc" /\ MNext /\ UNCHANGED <<shvars, in>>
UNext == (\E p \in Procs : ShellRuns(p)) \/ AllocatorRuns

uvars == <<shvars, mvars, in>>
USpec == UInit /\ [][UNext]_uvars /\ \A p \in Procs : WF_uvars(ShellRuns(p))
-----------------------------------------------------------------------------
\* sh.c parsecmd: a line is accepted, and turned into the command, that the
\* grammar says, and nulterminate leaves every word what it was in the line.
ParserFollowsGrammar == in.k = "line" => Parsecmd(in.line) = RefParse(in.line)

Short(s) == \A i \in 1..Len(s) : \E j \in i..i + Cap - 1 : j > Len(s) \/ s[j] = "n"

\* grep.c: match decides what the expression denotes, and on a file whose lines
\* fit into the buffer the loop over reads prints exactly the matching lines.
GrepFollowsExpression ==
    /\ in.k = "match" => (Match(in.re, in.text) = Denotes(in.re, in.text))
    /\ in.k = "grep" /\ Short(in.text) =>
         Grep(in.re, Cap, <<>>, in.text) =
            SelectSeq(LinesOf(in.text), LAMBDA l : Denotes(in.re, l))

Old == <<11, 12, 13, 14>>

\* string.c, ulib.c, printf.c, wc.c: memmove moves also what overlaps (ulib's
\* only towards lower addresses); safestrcpy ends its string inside the buffer
\* and strncpy pads with NULs, neither touching a byte beyond n; atoi reads back
\* what printint wrote of a number that is not negative; wc counts words.
StringsAgree ==
    /\ in.k = "move" =>
         /\ Memmove(Old, in.d, in.s, in.n) = Moved(Old, in.d, in.s, in.n)
         /\ in.d <= in.s \/ in.s + in.n <= in.d =>
              UserMemmove(Old, in.d, in.s, in.n) = Moved(Old, in.d, in.s, in.n)
    /\ in.k = "copy" =>
         LET a == Strncpy(Old, in.t, in.n)
             b == Safestrcpy(Old, in.t, in.n)
             len == Min({Len(in.t), in.n - 1}) IN
         /\ \A i \in 1..in.n : a[i] = IF i <= Len(in.t) THEN in.t[i] ELSE 0
         /\ in.n > 0 => SubSeq(b, 1, len + 1) = Append(SubSeq(in.t, 1, len), 0)
         /\ \A i \in in.n + 1..4 : a[i] = Old[i] /\ b[i] = Old[i]
    /\ in.k = "int" => Atoi(Printint(in.x)) = (IF in.x < 0 THEN 0 ELSE in.x)
    /\ in.k = "wc" => WcWords(in.text, 0, FALSE) = Cardinality(WordStarts(in.text))
=============================================================================
