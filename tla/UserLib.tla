------------------------------- MODULE UserLib -------------------------------
(***************************************************************************)
(* Pure functions of the programs and of the kernel's string.c: grep's     *)
(* matcher and line loop, memmove, strncpy, safestrcpy, printint, atoi,    *)
(* wc.  A string is a sequence of characters; its NUL is its end.  Each is *)
(* followed by what it should compute.                                     *)
(***************************************************************************)
EXTENDS Integers, Sequences, FiniteSets, FiniteSetsExt, SequencesExt

Rest(s, i) == SubSeq(s, i, Len(s))

\* grep.c: matchhere and matchstar.
RECURSIVE Matchhere(_, _), Matchstar(_, _, _), MatchstarOnce(_, _, _)
Matchhere(re, text) ==
    IF re = <<>> THEN TRUE
    ELSE IF Len(re) > 1 /\ re[2] = "*" THEN Matchstar(re[1], Rest(re, 3), text)
    ELSE IF re = <<"$">> THEN text = <<>>
    ELSE IF text # <<>> /\ re[1] \in {".", text[1]} THEN Matchhere(Rest(re, 2), Rest(text, 2))
    ELSE FALSE
MatchstarOnce(c, re, text) ==
    /\ text # <<>> /\ c \in {".", text[1]}
    /\ Matchhere(re, Rest(text, 2)) \/ MatchstarOnce(c, re, Rest(text, 2))
Matchstar(c, re, text) ==
    \/ Matchhere(re, text)
    \/ text # <<>> /\ c \in {".", text[1]} /\ Matchstar(c, re, Rest(text, 2))

\* match: an unanchored expression is tried at every position, the end included.
Match(re, text) ==
    IF re # <<>> /\ re[1] = "^" THEN Matchhere(Rest(re, 2), text)
    ELSE \E i \in 1..Len(text) + 1 : Matchhere(re, Rest(text, i))

\* What the expression means: its items, each a character or "." and perhaps
\* starred, split a part of the text among them; "^" and "$" fix its ends.
RECURSIVE Items(_)
Items(re) == IF re = <<>> THEN <<>>
             ELSE IF Len(re) > 1 /\ re[2] = "*"
             THEN <<[c |-> re[1], star |-> TRUE]>> \o Items(Rest(re, 3))
             ELSE <<[c |-> re[1], star |-> FALSE]>> \o Items(Rest(re, 2))
Body(re) == IF re # <<>> /\ re[1] = "^" THEN Rest(re, 2) ELSE re
EndsWithDollar(re) == LET it == Items(Body(re)) IN
                      it # <<>> /\ it[Len(it)] = [c |-> "$", star |-> FALSE]
Denotes(re, text) ==
    LET it == IF EndsWithDollar(re) THEN Front(Items(Body(re))) ELSE Items(Body(re))
        n == Len(it) IN
    \E cut \in [0..n -> 0..Len(text)] :
        /\ Body(re) # re => cut[0] = 0
        /\ EndsWithDollar(re) => cut[n] = Len(text)
        /\ \A k \in 1..n :
             /\ cut[k - 1] <= cut[k]
             /\ ~it[k].star => cut[k] = cut[k - 1] + 1
             /\ \A j \in cut[k - 1] + 1..cut[k] : it[k].c \in {".", text[j]}

\* grep's loop: the buffer has room for cap characters (its last byte is the
\* NUL), buf holds what is left of the previous read.
Newlines(s) == {i \in DOMAIN s : s[i] = "n"}
RECURSIVE LinesOf(_)
LinesOf(s) == IF Newlines(s) = {} THEN <<>>
              ELSE LET i == Min(Newlines(s)) IN <<SubSeq(s, 1, i - 1)>> \o LinesOf(Rest(s, i + 1))
LeftOver(s) == IF Newlines(s) = {} THEN <<>> ELSE Rest(s, Max(Newlines(s)) + 1)
RECURSIVE Grep(_, _, _, _)
Grep(re, cap, buf, file) ==
    LET n == Min({cap - Len(buf), Len(file)})
        got == buf \o SubSeq(file, 1, n) IN
    IF n = 0 THEN <<>>
    ELSE SelectSeq(LinesOf(got), LAMBDA l : Match(re, l))
         \o Grep(re, cap, LeftOver(got), Rest(file, n + 1))

\* string.c memmove (copies backwards when the target lies behind the source
\* and overlaps it) and ulib.c memmove (always forwards), on memory m.
RECURSIVE CopyForward(_, _, _, _), CopyBackward(_, _, _, _)
CopyForward(m, d, s, n) ==
    IF n = 0 THEN m ELSE CopyForward([m EXCEPT ![d] = m[s]], d + 1, s + 1, n - 1)
CopyBackward(m, d, s, n) ==
    IF n = 0 THEN m
    ELSE CopyBackward([m EXCEPT ![d + n - 1] = m[s + n - 1]], d, s, n - 1)
Memmove(m, d, s, n) == IF s < d /\ s + n > d THEN CopyBackward(m, d, s, n)
                       ELSE CopyForward(m, d, s, n)
UserMemmove(m, d, s, n) == CopyForward(m, d, s, n)
Moved(m, d, s, n) == [i \in DOMAIN m |-> IF i \in d..d + n - 1 THEN m[s + i - d] ELSE m[i]]

\* strncpy and safestrcpy of string.c into a buffer m of old bytes; 0 is NUL.
RECURSIVE Copied(_, _, _, _)
Copied(m, t, i, n) == \* the loop: stops after n bytes or the NUL of t
    IF i > n THEN [m |-> m, i |-> i]
    ELSE IF i > Len(t) THEN [m |-> [m EXCEPT ![i] = 0], i |-> i + 1]
    ELSE Copied([m EXCEPT ![i] = t[i]], t, i + 1, n)
Strncpy(m, t, n) == LET c == Copied(m, t, 1, n) IN
                    [k \in DOMAIN m |-> IF k \in c.i..n THEN 0 ELSE c.m[k]]
SafestrcpyLong(m, t, n) ==
    IF n <= 0 THEN m ELSE LET c == Copied(m, t, 1, n) IN [c.m EXCEPT ![c.i] = 0]
Safestrcpy(m, t, n) ==
    IF n <= 0 THEN m ELSE LET c == Copied(m, t, 1, n - 1) IN [c.m EXCEPT ![c.i] = 0]

\* printint of printf.c (base 10, signed) and atoi of ulib.c, on digits; -1 is
\* the minus sign.
RECURSIVE Digits(_)
Digits(x) == IF x < 10 THEN <<x>> ELSE Append(Digits(x \div 10), x % 10)
Printint(xx) == IF xx < 0 THEN <<-1>> \o Digits(-xx) ELSE Digits(xx)
RECURSIVE AtoiFrom(_, _)
AtoiFrom(n, s) == IF s = <<>> \/ s[1] \notin 0..9 THEN n ELSE AtoiFrom(n * 10 + s[1], Tail(s))
Atoi(s) == AtoiFrom(0, s)

\* wc: lines and words, over reads of any length.
Space == {" ", "n"}
RECURSIVE WcWords(_, _, _)
WcWords(s, w, inword) ==
    IF s = <<>> THEN w
    ELSE IF s[1] \in Space THEN WcWords(Tail(s), w, FALSE)
    ELSE WcWords(Tail(s), IF inword THEN w ELSE w + 1, TRUE)
WordStarts(s) == {i \in DOMAIN s : s[i] \notin Space /\ (i > 1 => s[i - 1] \in Space)}
=============================================================================
