------------------------------ MODULE CStrings ------------------------------
(***************************************************************************)
(* Strings of the C code (src/kernel/string.c): a string is the sequence   *)
(* of its character codes without the null that ends it; its indices start *)
(* at 0.                                                                   *)
(***************************************************************************)
EXTENDS Integers, FiniteSetsExt, SequencesExt

Nul == 0
Space == 32
Dot == 46
Slash == 47
Backslash == 92

CharAt(s, i) == IF i < Len(s) THEN s[i + 1] ELSE Nul

\* The first index from a certain one on with one of these characters; Nul is
\* one of them.
FirstIndex(s, from, stops) ==
    CHOOSE i \in from .. (from + Len(s)) :
        /\ CharAt(s, i) \in stops
        /\ \A j \in from .. (i - 1) : CharAt(s, j) \notin stops

\* The characters from one index up to another, that one excluded.
Span(s, from, to) == SubSeq(s, from + 1, to)

Padded(s, size) == s \o [i \in 1 .. (size - Len(s)) |-> Space]
Unpadded(s) == Span(s, 0, FirstIndex(s, 0, {Nul, Space}))

\* The parts of a string from an index on: each ends at the separator, or when it has
\* a certain size.  One of these characters is skipped after a part.
Cut(s, from, separator, size, skipped) ==
    LET parts[i \in 0 .. Len(s)] ==
          LET end == Min({i + size, FirstIndex(s, i, {Nul, separator})})
              next == IF CharAt(s, end) \in skipped THEN end + 1 ELSE end
          IN  IF CharAt(s, i) = Nul THEN <<>> ELSE <<Span(s, i, end)>> \o parts[next]
    IN  parts[from]

strcmp(str1, str2) ==
    LET differ == {i \in 0 .. (Len(str1) + Len(str2)) : CharAt(str1, i) # CharAt(str2, i)}
    IN  IF differ = {} THEN 0
        ELSE IF CharAt(str1, Min(differ)) < CharAt(str2, Min(differ)) THEN -1 ELSE 1

\* For n > 0.
strncmp(str1, str2, n) ==
    strcmp(SubSeq(str1, 1, Min({n, Len(str1)})), SubSeq(str2, 1, Min({n, Len(str2)})))

\* A faulty conversion, which reads the digits from the end.
strToIntBackwards(string) == FoldRight(LAMBDA c, result : 10 * result + c - 48, string, 0)

\* For numbers that fit an int; any character counts as a digit.
strToInt(string) == FoldLeft(LAMBDA result, c : 10 * result + c - 48, 0, string)

=============================================================================
