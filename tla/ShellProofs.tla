---------------------------- MODULE ShellProofs ----------------------------
(***************************************************************************)
(* Proofs about Shell, for every disk, set of lines and size of the        *)
(* prompt: the prompt, the names of entries, and the string of pwd.        *)
(***************************************************************************)
EXTENDS Shell, FiniteSetTheorems, SequenceTheorems, WellFoundedInduction, TLAPS

-----------------------------------------------------------------------------
(* Numbers.                                                                *)

LEMMA MinIsMember ==
    ASSUME NEW S \in SUBSET Nat, S # {}
    PROVE  Min(S) \in S /\ \A n \in S : Min(S) <= n
<1> DEFINE less == {p \in Nat \X Nat : p[1] < p[2]}
<1>1. IsWellFoundedOn(less, Nat)
  BY NatLessThanWellFounded DEF OpToRel
<1>2. \E x \in S : \A y \in S : <<y, x>> \notin less
  <2> HIDE DEF less
  <2> QED
    BY <1>1, WFMin
<1>3. \E x \in S : \A y \in S : x =< y
  <2>1. \A x, y \in Nat : y < x => <<y, x>> \in less
    OBVIOUS
  <2> HIDE DEF less
  <2>2. \A x, y \in S : <<y, x>> \notin less => x =< y
    BY <2>1
  <2> QED
    BY <1>2, <2>2
<1> QED
  BY <1>3 DEF Min

\* Induction over the numbers: a set that has 0 and with each number the next.
LEMMA Induction ==
    ASSUME NEW S \in SUBSET Nat, 0 \in S, \A n \in S : n + 1 \in S
    PROVE  S = Nat
<1> SUFFICES ASSUME Nat \ S # {} PROVE FALSE
  OBVIOUS
<1>1. PICK x \in Nat \ S : \A y \in Nat \ S : x <= y
  BY MinIsMember
<1>2. x - 1 \in Nat /\ x - 1 \notin Nat \ S
  BY <1>1
<1> QED
  BY <1>1, <1>2

-----------------------------------------------------------------------------
(* Strings.                                                                *)

Strings == Seq(1 .. 255)

\* What keys give.
Typed == Seq(1 .. 127)

LEMMA TypedAreStrings == Typed \subseteq Strings
BY DEF Typed, Strings

LEMMA StringCharacters ==
    ASSUME NEW s \in Strings, NEW i \in Nat
    PROVE  /\ Len(s) \in Nat
           /\ CharAt(s, i) \in 0 .. 255
           /\ i < Len(s) => CharAt(s, i) = s[i + 1] /\ CharAt(s, i) \in 1 .. 255
           /\ i >= Len(s) => CharAt(s, i) = Nul
           /\ CharAt(s, i) = Nul <=> i >= Len(s)
<1>1. Len(s) \in Nat
  BY DEF Strings
<1>2. ASSUME i < Len(s) PROVE s[i + 1] \in 1 .. 255
  <2>1. i + 1 \in 1 .. Len(s)
    BY <1>1, <1>2
  <2> QED
    BY <2>1, ElementOfSeq DEF Strings
<1>3. CASE i < Len(s)
  <2>1. CharAt(s, i) = s[i + 1]
    BY <1>3 DEF CharAt
  <2> QED
    <3>1. CharAt(s, i) \in 1 .. 255 /\ ~(i >= Len(s))
      BY <1>1, <1>2, <1>3, <2>1
    <3>2. \A c \in 1 .. 255 : c # Nul /\ c \in 0 .. 255
      BY DEF Nul
    <3> QED
      BY <1>1, <1>3, <2>1, <3>1, <3>2
<1>4. CASE ~(i < Len(s))
  BY <1>1, <1>4 DEF CharAt, Nul
<1> QED
  BY <1>3, <1>4

\* The search for one of a set of characters ends, at the end of the string at the latest.
LEMMA FirstIndexFound ==
    ASSUME NEW s, Len(s) \in Nat, NEW from \in 0 .. Len(s), NEW stops, Nul \in stops
    PROVE  /\ FirstIndex(s, from, stops) \in from .. Len(s)
           /\ CharAt(s, FirstIndex(s, from, stops)) \in stops
           /\ \A j \in from .. (FirstIndex(s, from, stops) - 1) : CharAt(s, j) \notin stops
<1> DEFINE S == {i \in from .. Len(s) : CharAt(s, i) \in stops}
           First(i) == /\ CharAt(s, i) \in stops
                       /\ \A j \in from .. (i - 1) : CharAt(s, j) \notin stops
<1>1. CharAt(s, Len(s)) \in stops
  BY DEF CharAt
<1>2. S \in SUBSET Nat /\ Len(s) \in S
  BY <1>1
<1>3. Min(S) \in S /\ \A n \in S : Min(S) <= n
  BY <1>2, MinIsMember
<1>4. \E m : m \in S /\ \A n \in S : m <= n
  BY <1>3
<1>5. PICK m \in S : \A n \in S : m <= n
  BY <1>4
<1>8. m \in from .. (from + Len(s)) /\ First(m)
  <2>1. m \in from .. Len(s) /\ CharAt(s, m) \in stops
    BY <1>5
  <2>2. ASSUME NEW j \in from .. (m - 1), CharAt(s, j) \in stops PROVE FALSE
    <3>1. j \in S
      BY <2>1, <2>2
    <3> QED
      BY <1>5, <2>1, <3>1
  <2> QED
    BY <2>1, <2>2
<1>9. FirstIndex(s, from, stops) = CHOOSE i \in from .. (from + Len(s)) : First(i)
  BY DEF FirstIndex
<1> DEFINE k == FirstIndex(s, from, stops)
<1> HIDE DEF S, k
<1>6. k \in from .. (from + Len(s)) /\ First(k)
  BY <1>8, <1>9 DEF k
<1>7. k <= Len(s)
  BY <1>1, <1>6
<1> QED
  BY <1>6, <1>7 DEF k

LEMMA FirstIndexIs ==
    ASSUME NEW s, Len(s) \in Nat, NEW from \in 0 .. Len(s), NEW stops, Nul \in stops,
           NEW k \in from .. Len(s), CharAt(s, k) \in stops,
           \A j \in from .. (k - 1) : CharAt(s, j) \notin stops
    PROVE  FirstIndex(s, from, stops) = k
<1> DEFINE f == FirstIndex(s, from, stops)
<1>1. /\ f \in from .. Len(s) /\ CharAt(s, f) \in stops
      /\ \A j \in from .. (f - 1) : CharAt(s, j) \notin stops
  BY FirstIndexFound
<1> HIDE DEF f
<1>2. ~(f < k) /\ ~(k < f)
  BY <1>1
<1> QED
  BY <1>1, <1>2 DEF f

\* A part of a string.
LEMMA SpanOfString ==
    ASSUME NEW S, NEW s \in Seq(S), NEW from \in Nat, NEW to \in from .. Len(s)
    PROVE  /\ Span(s, from, to) \in Seq(S) /\ Len(Span(s, from, to)) = to - from
           /\ \A i \in 1 .. (to - from) : Span(s, from, to)[i] = s[from + i]
<1>1. from + 1 \in 1 .. (Len(s) + 1) /\ to \in from .. Len(s) /\ to \in (from + 1) - 1 .. Len(s)
  OBVIOUS
<1> QED
  BY <1>1, SubSeqProperties DEF Span

LEMMA SpanFromStart ==
    ASSUME NEW S, NEW s \in Seq(S), NEW to \in 0 .. Len(s)
    PROVE  /\ Span(s, 0, to) \in Seq(S) /\ Len(Span(s, 0, to)) = to
           /\ \A i \in 1 .. to : Span(s, 0, to)[i] = s[i]
<1>1. 0 \in Nat /\ to - 0 = to /\ \A i \in 1 .. to : 0 + i = i
  OBVIOUS
<1>2. /\ Span(s, 0, to) \in Seq(S) /\ Len(Span(s, 0, to)) = to - 0
      /\ \A i \in 1 .. (to - 0) : Span(s, 0, to)[i] = s[0 + i]
  <2> DEFINE from == 0
  <2>1. from \in Nat /\ to \in from .. Len(s)
    OBVIOUS
  <2> HIDE DEF from
  <2>2. /\ Span(s, from, to) \in Seq(S) /\ Len(Span(s, from, to)) = to - from
        /\ \A i \in 1 .. (to - from) : Span(s, from, to)[i] = s[from + i]
    BY <2>1, SpanOfString
  <2> QED
    BY <2>2 DEF from
<1> QED
  BY <1>1, <1>2

-----------------------------------------------------------------------------
(* The prompt.                                                             *)

\* PS1 begins with the prompt, and a null follows unless the prompt fills it.
Prompted ==
    /\ PS1 \in [1 .. PromptSize -> 0 .. 255]
    /\ prompted \in Strings /\ Len(prompted) <= PromptSize
    /\ \A j \in 1 .. Len(prompted) : PS1[j] = prompted[j]
    /\ Len(prompted) < PromptSize => PS1[Len(prompted) + 1] = Nul

LEMMA ArgumentsAreString ==
    ASSUME NEW line \in Lines
    PROVE  /\ ArgumentsOf(line) \in Typed /\ ArgumentsOf(line) \in Strings
           /\ Len(ArgumentsOf(line)) <= PromptSize
<1>1. line \in Typed /\ Len(line) \in Nat /\ Len(line) <= PromptSize
  BY ShellAssumption DEF Typed
<1> DEFINE k == FirstIndex(line, 0, {Nul, Space})
<1>2. k \in 0 .. Len(line)
  BY <1>1, FirstIndexFound
<1>3. Len(CommandOf(line)) = k
  BY <1>1, <1>2, SpanOfString DEF CommandOf, Typed
<1> DEFINE start == FirstIndex(line, k, (0 .. 255) \ {Space})
<1>4. start \in k .. Len(line)
  <2>1. Nul \in (0 .. 255) \ {Space}
    BY DEF Nul, Space
  <2> DEFINE others == (0 .. 255) \ {Space}
  <2> HIDE DEF k, others
  <2>2. Nul \in others
    BY <2>1 DEF others
  <2>3. FirstIndex(line, k, others) \in k .. Len(line)
    BY <1>1, <1>2, <2>2, FirstIndexFound
  <2> QED
    BY <2>3 DEF others
<1>5. ArgumentsOf(line) = Span(line, start, Len(line))
  BY <1>3 DEF ArgumentsOf
<1> HIDE DEF start, k
<1>6. start \in Nat /\ Len(line) \in start .. Len(line) /\ Len(line) - start <= PromptSize
  BY <1>1, <1>2, <1>4, ShellAssumption
<1>7. /\ Span(line, start, Len(line)) \in Typed
      /\ Len(Span(line, start, Len(line))) = Len(line) - start
  <2> DEFINE S == 1 .. 127
  <2>1. line \in Seq(S)
    BY <1>1 DEF Typed
  <2> HIDE DEF S
  <2>2. /\ Span(line, start, Len(line)) \in Seq(S)
        /\ Len(Span(line, start, Len(line))) = Len(line) - start
    BY <1>6, <2>1, SpanOfString
  <2> QED
    BY <2>2 DEF S, Typed
<1> QED
  BY <1>5, <1>6, <1>7, TypedAreStrings

\* The copy goes on past the end of the argument only to clear what was there.
LEMMA PromptStored ==
    ASSUME PS1 \in [1 .. PromptSize -> 0 .. 255], NEW argument \in Strings,
           Len(argument) <= PromptSize
    PROVE  /\ PromptAfter(argument) \in [1 .. PromptSize -> 0 .. 255]
           /\ \A j \in 1 .. Len(argument) : PromptAfter(argument)[j] = argument[j]
           /\ Len(argument) < PromptSize => PromptAfter(argument)[Len(argument) + 1] = Nul
<1> DEFINE ends == {j \in 1 .. PromptSize : PS1[j] = Nul /\ CharAt(argument, j - 1) = Nul}
           end == Min(ends \cup {PromptSize + 1})
           new == [j \in 1 .. PromptSize |-> IF j < end THEN CharAt(argument, j - 1) ELSE PS1[j]]
<1>1. PromptSize \in Nat /\ Len(argument) \in Nat
  BY ShellAssumption DEF Strings
<1>2. PromptAfter(argument) = new
  BY DEF PromptAfter
<1>3. end \in ends \cup {PromptSize + 1} /\ end \in Nat
  <2>1. ends \cup {PromptSize + 1} \in SUBSET Nat
    BY <1>1
  <2> HIDE DEF ends
  <2> QED
    BY <2>1, MinIsMember
<1>4. Len(argument) < end
  <2>1. CASE end \in ends
    <3>1. end - 1 \in Nat /\ CharAt(argument, end - 1) = Nul
      BY <2>1
    <3> HIDE DEF end
    <3>2. end - 1 >= Len(argument)
      BY <3>1, StringCharacters
    <3> QED
      BY <1>1, <1>3, <3>2
  <2>2. CASE end = PromptSize + 1
    BY <1>1, <2>2
  <2> QED
    BY <1>3, <2>1, <2>2
<1>5. end \in ends => PS1[end] = Nul
  OBVIOUS
<1> HIDE DEF ends, end
<1>6. new \in [1 .. PromptSize -> 0 .. 255]
  <2> SUFFICES ASSUME NEW j \in 1 .. PromptSize PROVE new[j] \in 0 .. 255
    OBVIOUS
  <2>1. j - 1 \in Nat
    OBVIOUS
  <2>2. CharAt(argument, j - 1) \in 0 .. 255
    BY <2>1, StringCharacters
  <2>3. PS1[j] \in 0 .. 255
    OBVIOUS
  <2> QED
    BY <2>2, <2>3
<1>7. ASSUME NEW j \in 1 .. Len(argument) PROVE new[j] = argument[j]
  <2>1. j - 1 \in Nat /\ j - 1 < Len(argument) /\ j \in 1 .. PromptSize /\ j < end
    BY <1>1, <1>3, <1>4
  <2>2. CharAt(argument, j - 1) = argument[j - 1 + 1]
    BY <2>1, StringCharacters
  <2> QED
    BY <2>1, <2>2
<1>8. ASSUME Len(argument) < PromptSize PROVE new[Len(argument) + 1] = Nul
  <2> DEFINE j == Len(argument) + 1
  <2>1. j \in 1 .. PromptSize
    BY <1>1, <1>8
  <2>2. CharAt(argument, j - 1) = Nul
    BY <1>1, StringCharacters
  <2>3. CASE j < end
    BY <2>1, <2>2, <2>3
  <2>4. CASE ~(j < end)
    <3>1. j = end
      BY <1>1, <1>3, <1>4, <2>4
    <3>2. end \in ends
      BY <1>1, <1>3, <1>8, <3>1
    <3> QED
      BY <1>5, <2>1, <2>4, <3>1, <3>2
  <2> QED
    BY <2>3, <2>4
<1> HIDE DEF new
<1> QED
  BY <1>2, <1>6, <1>7, <1>8

LEMMA PromptKept == Prompted /\ [Next]_vars => Prompted'
<1> SUFFICES ASSUME Prompted, [Next]_vars PROVE Prompted'
  OBVIOUS
<1>1. CASE UNCHANGED <<PS1, prompted>>
  BY <1>1 DEF Prompted
<1>2. ASSUME NEW line \in Lines, ReactToCommand(line) PROVE Prompted'
  <2>1. CASE UNCHANGED <<PS1, prompted>>
    BY <1>1, <2>1
  <2>2. CASE /\ PS1' = PromptAfter(arguments') /\ prompted' = arguments'
    <3>1. arguments' = ArgumentsOf(line)
      BY <1>2 DEF ReactToCommand
    <3>2. arguments' \in Strings /\ Len(arguments') <= PromptSize
      BY <3>1, ArgumentsAreString
    <3>3. /\ PromptAfter(arguments') \in [1 .. PromptSize -> 0 .. 255]
          /\ \A j \in 1 .. Len(arguments') : PromptAfter(arguments')[j] = arguments'[j]
          /\ Len(arguments') < PromptSize => PromptAfter(arguments')[Len(arguments') + 1] = Nul
      BY <3>2, PromptStored DEF Prompted
    <3> QED
      BY <2>2, <3>2, <3>3 DEF Prompted
  <2> QED
    BY <1>2, <2>1, <2>2
       DEF ReactToCommand, exit, prompt, readdisk, ls, cd, OpenCommand, ShowCommand
<1>3. CASE ShowPrompt
  BY <1>1, <1>3 DEF ShowPrompt
<1>4. CASE UNCHANGED vars
  BY <1>1, <1>4 DEF vars
<1> QED
  BY <1>2, <1>3, <1>4 DEF Next

\* The prompt shown is the last one given, whatever prompts came before it and however
\* long they were, as long as the array takes a line (prompt, Run).
THEOREM PromptShown == Spec => []PromptIsLastGiven
<1>1. Init => Prompted
  <2> SUFFICES ASSUME Init PROVE Prompted
    OBVIOUS
  <2> DEFINE first == Text("Command>")
  <2>1. first \in Strings /\ Len(first) \in Nat /\ Len(first) <= PromptSize /\ PromptSize \in Nat
    BY ShellAssumption DEF Strings
  <2>2. PS1 = [j \in 1 .. PromptSize |-> CharAt(first, j - 1)] /\ prompted = first
    BY DEF Init
  <2> HIDE DEF first
  <2>3. ASSUME NEW j \in 1 .. PromptSize PROVE PS1[j] \in 0 .. 255
    <3>1. j - 1 \in Nat
      OBVIOUS
    <3> QED
      BY <2>1, <2>2, <3>1, StringCharacters
  <2>4. ASSUME NEW j \in 1 .. Len(first) PROVE PS1[j] = first[j]
    <3>1. j - 1 \in Nat /\ j - 1 < Len(first) /\ j \in 1 .. PromptSize
      BY <2>1
    <3>2. CharAt(first, j - 1) = first[j - 1 + 1]
      BY <2>1, <3>1, StringCharacters
    <3> QED
      BY <2>2, <3>1, <3>2
  <2>5. ASSUME Len(first) < PromptSize PROVE PS1[Len(first) + 1] = Nul
    <3>1. Len(first) + 1 \in 1 .. PromptSize /\ Len(first) + 1 - 1 = Len(first)
      BY <2>1, <2>5
    <3>2. CharAt(first, Len(first)) = Nul
      BY <2>1, StringCharacters
    <3> QED
      BY <2>2, <3>1, <3>2
  <2> QED
    BY <2>1, <2>2, <2>3, <2>4, <2>5 DEF Prompted
<1>2. Prompted => PromptIsLastGiven
  <2> SUFFICES ASSUME Prompted PROVE Span(PS1, 0, FirstIndex(PS1, 0, {Nul})) = prompted
    BY DEF PromptIsLastGiven
  <2> DEFINE n == Len(prompted)
  <2>1. /\ PromptSize \in Nat /\ PS1 \in Seq(0 .. 255) /\ Len(PS1) = PromptSize
        /\ n \in Nat /\ n <= PromptSize /\ prompted \in Strings
    BY ShellAssumption DEF Prompted, Strings
  <2>2. CharAt(PS1, n) \in {Nul}
    BY <2>1 DEF CharAt, Prompted
  <2>3. ASSUME NEW j \in 0 .. (n - 1) PROVE CharAt(PS1, j) \notin {Nul}
    <3>1. j < Len(PS1) /\ j + 1 \in 1 .. n /\ j \in Nat /\ j < n
      BY <2>1
    <3>2. CharAt(PS1, j) = prompted[j + 1]
      BY <3>1 DEF CharAt, Prompted
    <3>3. CharAt(prompted, j) = prompted[j + 1] /\ CharAt(prompted, j) # Nul
      BY <2>1, <3>1, StringCharacters
    <3> QED
      BY <3>2, <3>3
  <2>4. FirstIndex(PS1, 0, {Nul}) = n
    <3> HIDE DEF n
    <3>1. n \in 0 .. Len(PS1) /\ 0 \in 0 .. Len(PS1) /\ Len(PS1) \in Nat
      BY <2>1
    <3> QED
      BY <2>2, <2>3, <3>1, FirstIndexIs
  <2>5. /\ Span(PS1, 0, n) \in Seq(0 .. 255) /\ Len(Span(PS1, 0, n)) = n
        /\ \A i \in 1 .. n : Span(PS1, 0, n)[i] = PS1[i]
    <3>1. n \in 0 .. Len(PS1)
      BY <2>1
    <3> HIDE DEF n
    <3> QED
      BY <2>1, <3>1, SpanFromStart
  <2>6. prompted \in Seq(0 .. 255)
    BY <2>1 DEF Strings
  <2>7. \A i \in 1 .. n : Span(PS1, 0, n)[i] = prompted[i]
    BY <2>5 DEF Prompted
  <2>8. Span(PS1, 0, n) = prompted
    <3>1. Len(Span(PS1, 0, n)) = Len(prompted)
      BY <2>5
    <3> QED
      BY <2>5, <2>6, <2>7, <3>1, SeqEqual
  <2> QED
    BY <2>4, <2>8
<1> QED
  BY <1>1, <1>2, PromptKept, PTL DEF Spec

-----------------------------------------------------------------------------
(* Cutting a string into parts.                                            *)

PartEnd(s, i, separator, size) == Min({i + size, FirstIndex(s, i, {Nul, separator})})

AfterPart(s, i, separator, size, skipped) ==
    IF CharAt(s, PartEnd(s, i, separator, size)) \in skipped
    THEN PartEnd(s, i, separator, size) + 1 ELSE PartEnd(s, i, separator, size)

\* Each part ends, and the next one begins later.
LEMMA PartTaken ==
    ASSUME NEW s \in Strings, NEW i \in Nat, i < Len(s), NEW separator, NEW size \in Nat \ {0},
           NEW skipped, separator \in skipped, Nul \notin skipped
    PROVE  /\ PartEnd(s, i, separator, size) \in i .. Len(s)
           /\ PartEnd(s, i, separator, size) <= i + size
           /\ AfterPart(s, i, separator, size, skipped) \in (i + 1) .. Len(s)
<1> DEFINE first == FirstIndex(s, i, {Nul, separator})
           end == Min({i + size, first})
<1>1. Len(s) \in Nat /\ i \in 0 .. Len(s)
  BY DEF Strings
<1>2. first \in i .. Len(s) /\ CharAt(s, first) \in {Nul, separator}
  <2> DEFINE stops == {Nul, separator}
  <2>1. Nul \in stops
    OBVIOUS
  <2> HIDE DEF stops
  <2>2. /\ FirstIndex(s, i, stops) \in i .. Len(s)
        /\ CharAt(s, FirstIndex(s, i, stops)) \in stops
    BY <1>1, <2>1, FirstIndexFound
  <2> QED
    BY <2>2 DEF stops
<1>3. PartEnd(s, i, separator, size) = end
  BY DEF PartEnd
<1> HIDE DEF first
<1>4. end \in {i + size, first} /\ end <= i + size /\ end <= first
  <2>1. {i + size, first} \in SUBSET Nat
    BY <1>1, <1>2
  <2> QED
    BY <2>1, MinIsMember
<1> HIDE DEF end
<1>5. end \in i .. Len(s)
  BY <1>1, <1>2, <1>4
<1>6. CASE CharAt(s, end) \in skipped
  <2>1. end < Len(s)
    BY <1>1, <1>5, <1>6, StringCharacters
  <2> QED
    BY <1>1, <1>3, <1>4, <1>5, <1>6, <2>1 DEF AfterPart
<1>7. CASE CharAt(s, end) \notin skipped
  <2>1. end # i
    <3> SUFFICES ASSUME end = i PROVE FALSE
      OBVIOUS
    <3>1. end = first
      BY <1>2, <1>4
    <3>2. CharAt(s, i) # Nul
      BY <1>1, StringCharacters
    <3> QED
      BY <1>2, <1>7, <3>1, <3>2
  <2> QED
    BY <1>1, <1>3, <1>4, <1>5, <1>7, <2>1 DEF AfterPart
<1> QED
  BY <1>6, <1>7

Solvable(N, ends, head, next) ==
    \E f : f = [i \in 0 .. N |-> IF i \in ends THEN <<>> ELSE <<head[i]>> \o f[next[i]]]

\* A recursion over the places of a string that goes forward has a solution.
LEMMA ForwardRecursion ==
    ASSUME NEW N \in Nat, NEW ends, NEW head, NEW next,
           \A i \in 0 .. N : i \notin ends => next[i] \in (i + 1) .. N
    PROVE  Solvable(N, ends, head, next)
<1> DEFINE Value(f, i) == IF i \in ends THEN <<>> ELSE <<head[i]>> \o f[next[i]]
           Solved(m) == \E f : f = [i \in (N - m) .. N |-> Value(f, i)]
           S == {m \in Nat : m <= N => Solved(m)}
<1>1. 0 \in S
  <2> DEFINE f == [i \in N .. N |-> <<>>]
  <2>1. N \in ends
    OBVIOUS
  <2>2. \A i \in N .. N : i \in ends
    BY <2>1
  <2>3. f = [i \in N .. N |-> Value(f, i)]
    BY <2>2
  <2>4. N - 0 = N
    OBVIOUS
  <2> QED
    BY <2>3, <2>4
<1>2. ASSUME NEW m \in S PROVE m + 1 \in S
  <2> HIDE DEF Solved
  <2> SUFFICES ASSUME m + 1 <= N PROVE Solved(m + 1)
    OBVIOUS
  <2>1. Solved(m)
    OBVIOUS
  <2> USE DEF Solved
  <2>2. PICK f : f = [i \in (N - m) .. N |-> Value(f, i)]
    BY <2>1
  <2> DEFINE k == N - (m + 1)
             g == [i \in k .. N |-> IF i = k THEN Value(f, k) ELSE f[i]]
  <2>3. k \in Nat /\ N - m = k + 1 /\ k \in 0 .. N
    OBVIOUS
  <2> HIDE DEF k
  <2>4. ASSUME NEW i \in k .. N, i \notin ends PROVE g[next[i]] = f[next[i]]
    <3>1. next[i] \in (k + 1) .. N
      BY <2>3, <2>4
    <3> QED
      BY <2>3, <3>1
  <2>5. ASSUME NEW i \in k .. N PROVE g[i] = Value(g, i)
    <3>1. Value(g, i) = Value(f, i)
      BY SMTT(30), <2>4
    <3>2. CASE i = k
      BY <3>1, <3>2
    <3>3. CASE i # k
      <4>1. i \in (N - m) .. N
        BY <2>3, <3>3
      <4>2. f[i] = Value(f, i)
        BY <2>2, <4>1
      <4> QED
        BY <3>1, <3>3, <4>2
    <3> QED
      BY <3>2, <3>3
  <2>6. g = [i \in k .. N |-> Value(g, i)]
    <3> HIDE DEF Value
    <3>1. g = [i \in k .. N |-> g[i]]
      OBVIOUS
    <3> HIDE DEF g
    <3> QED
      BY <2>5, <3>1
  <2> HIDE DEF g, Value
  <2> QED
    BY <2>6 DEF k
<1>3. S = Nat
  <2> HIDE DEF S
  <2>1. S \in SUBSET Nat
    BY DEF S
  <2> QED
    BY <1>1, <1>2, <2>1, Induction
<1>4. Solved(N)
  <2> HIDE DEF Solved
  <2> QED
    BY <1>3
<1>5. N - N = 0
  OBVIOUS
<1> QED
  BY <1>4, <1>5 DEF Solvable

\* The parts of a string from one place on: the first part, and those from the next place.
Unfolds(s, i, separator, size, skipped) ==
    Cut(s, i, separator, size, skipped) =
        IF CharAt(s, i) = Nul THEN <<>>
        ELSE <<Span(s, i, PartEnd(s, i, separator, size))>>
             \o Cut(s, AfterPart(s, i, separator, size, skipped), separator, size, skipped)

LEMMA CutUnfolds ==
    ASSUME NEW s \in Strings, NEW separator, NEW size \in Nat \ {0}, NEW skipped,
           separator \in skipped, Nul \notin skipped
    PROVE  \A i \in 0 .. Len(s) : Unfolds(s, i, separator, size, skipped)
<1> DEFINE N == Len(s)
           Head1(i) == Span(s, i, PartEnd(s, i, separator, size))
           Next1(i) == AfterPart(s, i, separator, size, skipped)
           Value(f, i) == IF CharAt(s, i) = Nul THEN <<>> ELSE <<Head1(i)>> \o f[Next1(i)]
           parts == CHOOSE f : f = [i \in 0 .. N |-> Value(f, i)]
<1>1. N \in Nat
  BY DEF Strings
<1>2. \A i : Cut(s, i, separator, size, skipped) = parts[i]
  BY DEF Cut, PartEnd, AfterPart
<1>3. \E f : f = [i \in 0 .. N |-> Value(f, i)]
  <2> DEFINE ends == {i \in 0 .. N : CharAt(s, i) = Nul}
             head == [i \in 0 .. N |-> Head1(i)]
             next == [i \in 0 .. N |-> Next1(i)]
  <2>1. ASSUME NEW i \in 0 .. N, i \notin ends PROVE next[i] \in (i + 1) .. N
    <3>1. i \in Nat /\ CharAt(s, i) # Nul
      BY <1>1, <2>1
    <3>2. i < Len(s)
      BY <1>1, <3>1, StringCharacters
    <3> QED
      BY <3>1, <3>2, PartTaken
  <2>4. \A i \in 0 .. N : i \notin ends => next[i] \in (i + 1) .. N
    BY <2>1
  <2> HIDE DEF N, Head1, Next1
  <2>2. \A f : [i \in 0 .. N |-> Value(f, i)]
              = [i \in 0 .. N |-> IF i \in ends THEN <<>> ELSE <<head[i]>> \o f[next[i]]]
    OBVIOUS
  <2> HIDE DEF ends, head, next
  <2>3. \E f : f = [i \in 0 .. N |-> IF i \in ends THEN <<>> ELSE <<head[i]>> \o f[next[i]]]
    <3>1. Solvable(N, ends, head, next)
      BY <1>1, <2>4, ForwardRecursion
    <3> QED
      BY <3>1 DEF Solvable
  <2> HIDE DEF Value
  <2> DEFINE Body(f) == [i \in 0 .. N |-> Value(f, i)]
             Same1(f) == [i \in 0 .. N |-> IF i \in ends THEN <<>> ELSE <<head[i]>> \o f[next[i]]]
  <2>5. (\A f : Body(f) = Same1(f)) /\ \E f : f = Same1(f)
    BY <2>2, <2>3
  <2> HIDE DEF Same1
  <2>6. \E f : f = Body(f)
    <3> HIDE DEF Body
    <3> QED
      BY <2>5, Zenon
  <2> QED
    BY <2>6
<1> HIDE DEF Value, N
<1>4. parts = [i \in 0 .. N |-> Value(parts, i)]
  BY <1>3
<1> HIDE DEF parts
<1>5. ASSUME NEW i \in 0 .. N PROVE parts[i] = Value(parts, i)
  BY <1>4
<1> QED
  BY <1>2, <1>5 DEF Value, N, Unfolds

\* A property of every part that may be cut out of a string.
LEMMA CutPartsIn ==
    ASSUME NEW s \in Strings, NEW separator, NEW size \in Nat \ {0}, NEW skipped,
           separator \in skipped, Nul \notin skipped, NEW P,
           \A i \in 0 .. Len(s) :
               i < Len(s) => Span(s, i, PartEnd(s, i, separator, size)) \in P
    PROVE  \A i \in 0 .. Len(s) : Cut(s, i, separator, size, skipped) \in Seq(P)
<1> DEFINE N == Len(s)
           Parts(i) == Cut(s, i, separator, size, skipped)
           S == {m \in Nat : \A i \in 0 .. N : i >= N - m => Parts(i) \in Seq(P)}
<1>1. N \in Nat
  BY DEF Strings
<1>2. ASSUME NEW i \in 0 .. N, Parts(i) # <<>>
      PROVE  \E h \in P : \E j \in (i + 1) .. N : Parts(i) = <<h>> \o Parts(j)
  <2>1. Parts(i) = IF CharAt(s, i) = Nul THEN <<>>
                   ELSE <<Span(s, i, PartEnd(s, i, separator, size))>>
                        \o Parts(AfterPart(s, i, separator, size, skipped))
    <3>1. Unfolds(s, i, separator, size, skipped)
      BY CutUnfolds
    <3> QED
      BY <3>1 DEF Unfolds
  <2>2. CharAt(s, i) # Nul /\ i \in Nat /\ i < Len(s)
    BY <1>1, <1>2, <2>1, StringCharacters
  <2>3. AfterPart(s, i, separator, size, skipped) \in (i + 1) .. N
    BY <2>2, PartTaken
  <2> HIDE DEF Parts, N
  <2> QED
    BY <2>1, <2>2, <2>3 DEF N
<1> HIDE DEF Parts, N
<1>3. 0 \in S
  <2> SUFFICES ASSUME NEW i \in 0 .. N, i >= N - 0 PROVE Parts(i) \in Seq(P)
    OBVIOUS
  <2>1. i = N /\ \A j : j \notin (i + 1) .. N
    BY <1>1
  <2>2. Parts(i) = <<>>
    BY <1>2, <2>1
  <2> QED
    BY <2>2
<1>4. ASSUME NEW m \in S PROVE m + 1 \in S
  <2> SUFFICES ASSUME NEW i \in 0 .. N, i >= N - (m + 1) PROVE Parts(i) \in Seq(P)
    OBVIOUS
  <2>1. CASE Parts(i) = <<>>
    BY <2>1
  <2>2. CASE Parts(i) # <<>>
    <3>1. PICK h \in P, j \in (i + 1) .. N : Parts(i) = <<h>> \o Parts(j)
      BY <1>2, <2>2
    <3>2. Parts(j) \in Seq(P)
      BY <1>1
    <3>3. <<h>> \in Seq(P)
      OBVIOUS
    <3> QED
      BY <3>1, <3>2, <3>3, ConcatProperties
  <2> QED
    BY <2>1, <2>2
<1>5. S = Nat
  <2>1. S \in SUBSET Nat
    OBVIOUS
  <2> HIDE DEF S
  <2> QED
    BY <1>3, <1>4, <2>1, Induction
<1>6. \A i \in 0 .. N : Parts(i) \in Seq(P)
  <2>1. N \in S
    BY <1>1, <1>5
  <2>2. \A i \in 0 .. N : i >= N - N => Parts(i) \in Seq(P)
    BY <2>1
  <2> QED
    BY <1>1, <2>2
<1> QED
  BY <1>6 DEF N, Parts

LEMMA CutParts ==
    ASSUME NEW s \in Strings, NEW separator, NEW size \in Nat \ {0}, NEW skipped,
           separator \in skipped, Nul \notin skipped, NEW from \in 0 .. Len(s)
    PROVE  Cut(s, from, separator, size, skipped) \in Seq(Strings)
<1>1. ASSUME NEW i \in 0 .. Len(s), i < Len(s)
      PROVE  Span(s, i, PartEnd(s, i, separator, size)) \in Strings
  <2>1. i \in Nat /\ i < Len(s)
    BY <1>1
  <2>2. PartEnd(s, i, separator, size) \in i .. Len(s)
    BY <2>1, PartTaken
  <2> QED
    BY <2>1, <2>2, SpanOfString DEF Strings
<1> QED
  BY <1>1, CutPartsIn

-----------------------------------------------------------------------------
(* Folding a sequence.                                                     *)

LEMMA MaxIsMember ==
    ASSUME NEW m \in Nat, NEW S \in SUBSET (1 .. m), S # {}
    PROVE  Max(S) \in S /\ \A n \in S : n <= Max(S)
<1> DEFINE T == {m - x : x \in S}
<1>1. T \in SUBSET Nat /\ T # {}
  <2>1. \A x \in S : m - x \in Nat
    OBVIOUS
  <2>2. T \in SUBSET Nat
    BY <2>1
  <2>3. T # {}
    OBVIOUS
  <2> QED
    BY <2>2, <2>3
<1>2. Min(T) \in T /\ \A n \in T : Min(T) <= n
  BY <1>1, MinIsMember
<1>3. \E t \in T : \A n \in T : t <= n
  BY <1>2
<1>4. PICK x \in S : \A n \in T : m - x <= n
  BY <1>3
<1>5. \A y \in S : x >= y
  <2> TAKE y \in S
  <2>1. m - y \in T
    OBVIOUS
  <2> QED
    BY <1>4, <2>1
<1> QED
  BY <1>5 DEF Max

\* The recursion over sets by which the library folds a sequence has a solution.
FoldSolvable(n, V, base, g) ==
    \E f \in [SUBSET (1 .. n) -> V] : \A s \in SUBSET (1 .. n) :
        f[s] = IF s = {} THEN base ELSE g[<<Max(s), f[s \ {Max(s)}]>>]

LEMMA FoldExists ==
    ASSUME NEW n \in Nat, NEW V, NEW base \in V, NEW g,
           \A i \in 1 .. n : \A v \in V : g[<<i, v>>] \in V
    PROVE  FoldSolvable(n, V, base, g)
<1> DEFINE Value(f, s) == IF s = {} THEN base ELSE g[<<Max(s), f[s \ {Max(s)}]>>]
           Solved(m) == \E f \in [SUBSET (1 .. m) -> V] :
                            \A s \in SUBSET (1 .. m) : f[s] = Value(f, s)
           S == {m \in Nat : m <= n => Solved(m)}
<1>1. 0 \in S
  <2> DEFINE f == [s \in SUBSET (1 .. 0) |-> base]
  <2>1. \A s \in SUBSET (1 .. 0) : s = {}
    OBVIOUS
  <2>2. f \in [SUBSET (1 .. 0) -> V] /\ \A s \in SUBSET (1 .. 0) : f[s] = Value(f, s)
    BY <2>1
  <2> HIDE DEF f, Value
  <2>3. Solved(0)
    BY <2>2
  <2> HIDE DEF Solved
  <2> QED
    BY <2>3
<1>2. ASSUME NEW m \in S PROVE m + 1 \in S
  <2> HIDE DEF Solved
  <2> SUFFICES ASSUME m + 1 <= n PROVE Solved(m + 1)
    OBVIOUS
  <2>1. Solved(m)
    OBVIOUS
  <2>2. PICK f \in [SUBSET (1 .. m) -> V] : \A s \in SUBSET (1 .. m) : f[s] = Value(f, s)
    BY <2>1 DEF Solved
  <2> DEFINE h == [s \in SUBSET (1 .. (m + 1)) |->
                     IF m + 1 \in s THEN g[<<m + 1, f[s \ {m + 1}]>>] ELSE f[s]]
  <2>3. \A s \in SUBSET (1 .. (m + 1)) : s \ {m + 1} \in SUBSET (1 .. m)
    OBVIOUS
  <2>4. ASSUME NEW s \in SUBSET (1 .. (m + 1)) PROVE h[s] \in V /\ h[s] = Value(h, s)
    <3>1. CASE m + 1 \in s
      <4>1. Max(s) = m + 1
        <5>1. m + 1 \in Nat /\ s # {}
          BY <3>1
        <5>2. Max(s) \in s /\ \A y \in s : y <= Max(s)
          BY <5>1, MaxIsMember
        <5> DEFINE top == Max(s)
        <5> HIDE DEF top
        <5>3. top \in s /\ m + 1 <= top
          BY <3>1, <5>2 DEF top
        <5>4. top = m + 1
          BY <5>3
        <5> QED
          BY <5>4 DEF top
      <4>2. s \ {m + 1} \in SUBSET (1 .. m) /\ s \ {m + 1} \in SUBSET (1 .. (m + 1))
            /\ m + 1 \notin s \ {m + 1}
        OBVIOUS
      <4>3. h[s \ {m + 1}] = f[s \ {m + 1}] /\ f[s \ {m + 1}] \in V
        BY <4>2
      <4>4. h[s] = g[<<m + 1, f[s \ {m + 1}]>>] /\ m + 1 \in 1 .. n
        BY <3>1
      <4> HIDE DEF h
      <4> QED
        BY <3>1, <4>1, <4>3, <4>4
    <3>2. CASE m + 1 \notin s
      <4>1. s \in SUBSET (1 .. m)
        BY <3>2
      <4>2. h[s] = f[s] /\ f[s] \in V /\ f[s] = Value(f, s)
        BY <2>2, <3>2, <4>1
      <4>3. CASE s = {}
        BY <4>2, <4>3
      <4>4. CASE s # {}
        <5> DEFINE top == Max(s)
                   r == s \ {top}
        <5> HIDE DEF top
        <5>1. r \in SUBSET (1 .. m) /\ r \in SUBSET (1 .. (m + 1)) /\ m + 1 \notin r
          BY <4>1
        <5>2. h[r] = f[r]
          BY <5>1
        <5> HIDE DEF h
        <5> QED
          BY <4>2, <4>4, <5>2 DEF top
      <4> QED
        BY <4>3, <4>4
    <3> QED
      BY <3>1, <3>2
  <2>5. h \in [SUBSET (1 .. (m + 1)) -> V]
    BY <2>4
  <2> HIDE DEF h, Value
  <2> QED
    BY <2>4, <2>5 DEF Solved
<1>3. S = Nat
  <2> HIDE DEF Solved
  <2>1. S \in SUBSET Nat
    OBVIOUS
  <2> HIDE DEF S
  <2> QED
    BY <1>1, <1>2, <2>1, Induction
<1>4. Solved(n)
  <2> HIDE DEF Solved
  <2> QED
    BY <1>3
<1> QED
  BY <1>4 DEF FoldSolvable

\* The sets of the first numbers.
LEMMA FirstNumbers ==
    ASSUME NEW i \in Nat \ {0}
    PROVE  Max(1 .. i) = i /\ (1 .. i) \ {i} = 1 .. (i - 1) /\ 1 .. i # {}
<1>1. 1 .. i \in SUBSET (1 .. i) /\ i \in 1 .. i
  OBVIOUS
<1>2. Max(1 .. i) \in 1 .. i /\ \A y \in 1 .. i : y <= Max(1 .. i)
  BY <1>1, MaxIsMember
<1> QED
  BY <1>1, <1>2

-----------------------------------------------------------------------------
(* Looking for a name in a directory.                                      *)

LEMMA PaddedString ==
    ASSUME NEW S, Space \in S, NEW s \in Seq(S), NEW size \in Nat, Len(s) <= size
    PROVE  /\ Padded(s, size) \in Seq(S) /\ Len(Padded(s, size)) = size
           /\ \A i \in 1 .. size : Padded(s, size)[i] = IF i <= Len(s) THEN s[i] ELSE Space
<1> DEFINE rest == [i \in 1 .. (size - Len(s)) |-> Space]
<1>1. Len(s) \in Nat /\ size - Len(s) \in Nat
  OBVIOUS
<1>2. rest \in Seq(S) /\ Len(rest) = size - Len(s) /\ \A i \in 1 .. Len(rest) : rest[i] = Space
  BY <1>1
<1>3. Padded(s, size) = s \o rest
  BY DEF Padded
<1> HIDE DEF rest
<1>4. /\ s \o rest \in Seq(S) /\ Len(s \o rest) = size
      /\ \A i \in 1 .. size : (s \o rest)[i] = IF i <= Len(s) THEN s[i] ELSE rest[i - Len(s)]
  BY <1>1, <1>2, ConcatProperties
<1>5. \A i \in 1 .. size : i > Len(s) => i - Len(s) \in 1 .. Len(rest)
  BY <1>1, <1>2
<1> QED
  BY <1>1, <1>2, <1>3, <1>4, <1>5

LEMMA Compared ==
    ASSUME NEW n \in Nat \ {0}, NEW s \in Seq(0 .. 255), NEW t \in Seq(0 .. 255),
           Len(s) = n, Len(t) = n
    PROVE  strncmp(s, t, n) = 0 <=> s = t
<1>1. Min({n, n}) = n
  <2>1. {n, n} \in SUBSET Nat /\ {n, n} # {} /\ {n, n} = {n}
    OBVIOUS
  <2>2. Min({n, n}) \in {n, n}
    BY <2>1, MinIsMember
  <2> QED
    BY <2>2
<1>2. SubSeq(s, 1, n) = s /\ SubSeq(t, 1, n) = t
  BY SubSeqProperties
<1>3. strncmp(s, t, n) = strcmp(s, t)
  BY <1>1, <1>2 DEF strncmp
<1> DEFINE differ == {i \in 0 .. (Len(s) + Len(t)) : CharAt(s, i) # CharAt(t, i)}
<1>4. strcmp(s, t) = 0 <=> differ = {}
  BY DEF strcmp
<1>5. ASSUME differ = {} PROVE s = t
  <2> SUFFICES ASSUME NEW i \in 1 .. n PROVE s[i] = t[i]
    BY SeqEqual
  <2>1. i - 1 \in 0 .. (Len(s) + Len(t)) /\ i - 1 < Len(s) /\ i - 1 < Len(t)
    OBVIOUS
  <2>2. CharAt(s, i - 1) = CharAt(t, i - 1)
    BY <1>5, <2>1
  <2>3. CharAt(s, i - 1) = s[i] /\ CharAt(t, i - 1) = t[i]
    BY <2>1 DEF CharAt
  <2> QED
    BY <2>2, <2>3
<1>6. s = t => differ = {}
  OBVIOUS
<1> QED
  BY <1>3, <1>4, <1>5, <1>6

Places ==
    {rootDirectory, invalidDirectory}
        \cup UNION {{disk.entries[c][i] : i \in 1 .. Len(disk.entries[c])} : c \in DOMAIN disk.entries}

\* What the disk is known to be.
LEMMA DiskFacts ==
    ASSUME disk \in Disks
    PROVE  /\ 0 \in DOMAIN disk.entries /\ FirstDataCluster \in DOMAIN disk.entries
           /\ disk.NumDirEntries \in Nat
           /\ \A c \in DOMAIN disk.entries :
                /\ disk.entries[c] \in Seq(EntriesOf(disk)) /\ Len(disk.entries[c]) \in Nat
                /\ \A i \in 1 .. Len(disk.entries[c]) :
                     /\ disk.entries[c][i] \in EntriesOf(disk) /\ WellNamed(disk.entries[c][i])
                     /\ disk.entries[c][i] \in Places
<1>1. /\ 0 \in DOMAIN disk.entries /\ FirstDataCluster \in DOMAIN disk.entries
      /\ disk.NumDirEntries \in Nat
  BY DirectoryAssumption
<1>2. ASSUME NEW c \in DOMAIN disk.entries
      PROVE  /\ disk.entries[c] \in Seq(EntriesOf(disk)) /\ Len(disk.entries[c]) \in Nat
             /\ \A i \in 1 .. Len(disk.entries[c]) :
                     /\ disk.entries[c][i] \in EntriesOf(disk) /\ WellNamed(disk.entries[c][i])
                     /\ disk.entries[c][i] \in Places
  <2>1. /\ disk.entries[c] \in Seq(EntriesOf(disk))
        /\ \A i \in 1 .. Len(disk.entries[c]) : WellNamed(disk.entries[c][i])
    BY DirectoryAssumption
  <2>2. Len(disk.entries[c]) \in Nat
    BY <2>1
  <2>3. \A i \in 1 .. Len(disk.entries[c]) : disk.entries[c][i] \in EntriesOf(disk)
    BY <2>1, ElementOfSeq
  <2>4. \A i \in 1 .. Len(disk.entries[c]) : disk.entries[c][i] \in Places
    BY DEF Places
  <2> QED
    BY <2>1, <2>2, <2>3, <2>4
<1> QED
  BY <1>1, <1>2

\* An entry by its index: one of the directory, one of those found past the end of a
\* root directory that is full, or the invalid one, which comes in the end.
LEMMA EntryByIndex ==
    ASSUME disk \in Disks, NEW c \in DOMAIN disk.entries, NEW i \in Nat
    PROVE  /\ GetDirectoryEntryByIndex(i, c) \in Places
           /\ i < Len(Entries(c)) => GetDirectoryEntryByIndex(i, c) = Entries(c)[i + 1]
           /\ i >= Len(Entries(c)) + Len(Entries(FirstDataCluster))
                 => GetDirectoryEntryByIndex(i, c) = invalidDirectory
<1>1. invalidDirectory \in Places
  BY DEF Places
<1>2. /\ 0 \in DOMAIN disk.entries /\ FirstDataCluster \in DOMAIN disk.entries
      /\ disk.NumDirEntries \in Nat
      /\ Len(Entries(c)) \in Nat /\ Len(Entries(FirstDataCluster)) \in Nat /\ Len(Entries(0)) \in Nat
      /\ \A k \in 1 .. Len(Entries(c)) : Entries(c)[k] \in Places
      /\ \A k \in 1 .. Len(Entries(FirstDataCluster)) : Entries(FirstDataCluster)[k] \in Places
  BY DiskFacts DEF Entries
<1> DEFINE beyond == i - disk.NumDirEntries
           spills == /\ c = 0 /\ beyond >= 0 /\ Len(Entries(0)) = disk.NumDirEntries
                     /\ beyond < Len(Entries(FirstDataCluster))
<1>3. GetDirectoryEntryByIndex(i, c) =
        IF i < Len(Entries(c)) THEN Entries(c)[i + 1]
        ELSE IF spills THEN Entries(FirstDataCluster)[beyond + 1] ELSE invalidDirectory
  BY DEF GetDirectoryEntryByIndex
<1>4. i < Len(Entries(c)) => i + 1 \in 1 .. Len(Entries(c))
  BY <1>2
<1>5. spills => beyond + 1 \in 1 .. Len(Entries(FirstDataCluster))
  BY <1>2
<1>6. i >= Len(Entries(c)) + Len(Entries(FirstDataCluster)) => ~spills /\ ~(i < Len(Entries(c)))
  BY <1>2
<1> HIDE DEF beyond, spills
<1> QED
  BY <1>1, <1>2, <1>3, <1>4, <1>5, <1>6

Same(text, entry) ==
    /\ strncmp(ExtractFileName(text), entry.name, 8) = 0
    /\ strncmp(ExtractFileExtension(text), entry.ext, 3) = 0

\* The search ends at the first entry that is invalid or has the name.
LEMMA EntryFound ==
    ASSUME disk \in Disks, NEW c \in DOMAIN disk.entries, NEW text,
           ExtractFileName(text) # NULL, ExtractFileExtension(text) # NULL
    PROVE  \E i \in Nat :
               /\ GetDirectoryEntryWithName(text, c) = GetDirectoryEntryByIndex(i, c)
               /\ \/ GetDirectoryEntryByIndex(i, c) = invalidDirectory
                  \/ Same(text, GetDirectoryEntryByIndex(i, c))
               /\ \A j \in 0 .. (i - 1) : ~Same(text, GetDirectoryEntryByIndex(j, c))
<1> DEFINE N == Len(Entries(c)) + Len(Entries(FirstDataCluster))
           Stops(j) == \/ GetDirectoryEntryByIndex(j, c) = invalidDirectory
                       \/ Same(text, GetDirectoryEntryByIndex(j, c))
           First(i) == Stops(i) /\ \A j \in 0 .. (i - 1) : ~Stops(j)
           Q == {i \in 0 .. N : Stops(i)}
<1>1. N \in Nat
  <2>1. Len(Entries(c)) \in Nat /\ Len(Entries(FirstDataCluster)) \in Nat
    BY DiskFacts DEF Entries
  <2> QED
    BY <2>1
<1>2. Q \in SUBSET Nat /\ N \in Q
  BY <1>1, EntryByIndex
<1>3. PICK m \in Q : \A n \in Q : m <= n
  BY <1>2, MinIsMember
<1>4. m \in 0 .. N /\ First(m)
  <2>1. m \in 0 .. N /\ Stops(m)
    BY <1>3
  <2>2. ASSUME NEW j \in 0 .. (m - 1), Stops(j) PROVE FALSE
    <3>1. j \in 0 .. N
      BY <1>1, <2>1
    <3>2. j \in Q
      BY <2>2, <3>1
    <3> HIDE DEF Q
    <3> QED
      BY <1>1, <1>3, <2>1, <3>1, <3>2
  <2> QED
    BY <2>1, <2>2
<1> DEFINE k == CHOOSE i \in 0 .. N : First(i)
<1>5. GetDirectoryEntryWithName(text, c) = GetDirectoryEntryByIndex(k, c)
  BY DEF GetDirectoryEntryWithName, ScanStop, Same
<1> HIDE DEF Stops
<1>6. k \in 0 .. N /\ First(k)
  <2> HIDE DEF N, First
  <2> QED
    BY <1>4
<1> HIDE DEF k
<1>7. k \in Nat
  BY <1>1, <1>6
<1> QED
  BY <1>5, <1>6, <1>7 DEF Stops

LEMMA NameFoundInPlaces ==
    ASSUME disk \in Disks, NEW c \in DOMAIN disk.entries, NEW text
    PROVE  GetDirectoryEntryWithName(text, c) \in Places
<1>1. CASE ExtractFileName(text) # NULL /\ ExtractFileExtension(text) # NULL
  <2>1. PICK i \in Nat : GetDirectoryEntryWithName(text, c) = GetDirectoryEntryByIndex(i, c)
    BY <1>1, EntryFound
  <2> QED
    BY <2>1, EntryByIndex
<1>2. CASE ExtractFileName(text) = NULL \/ ExtractFileExtension(text) = NULL
  BY <1>2 DEF GetDirectoryEntryWithName, Places
<1> QED
  BY <1>1, <1>2

\* Every place has a cluster with entries, and only the invalid entry has no name.
LEMMA PlaceFacts ==
    ASSUME disk \in Disks, NEW e \in Places
    PROVE  /\ e.cluster \in DOMAIN disk.entries
           /\ e # invalidDirectory => Len(e.name) = 8
<1>1. /\ rootDirectory.cluster = 0 /\ invalidDirectory.cluster = 0
      /\ rootDirectory.name = Padded(<<Slash>>, 8)
  BY DEF rootDirectory, invalidDirectory
<1>2. \A s \in Seq(0 .. 255) : Len(s) <= 8 => Len(Padded(s, 8)) = 8
  <2> DEFINE S == 0 .. 255
  <2>1. 8 \in Nat /\ Space \in S
    BY DEF Space
  <2> HIDE DEF S
  <2>2. \A s \in Seq(S) : Len(s) <= 8 => Len(Padded(s, 8)) = 8
    BY <2>1, PaddedString
  <2> QED
    BY <2>2 DEF S
<1>3. /\ <<Slash>> \in Seq(0 .. 255) /\ <<Dot>> \in Seq(0 .. 255) /\ <<Dot, Dot>> \in Seq(0 .. 255)
      /\ Len(<<Slash>>) = 1 /\ Len(<<Dot>>) = 1 /\ Len(<<Dot, Dot>>) = 2
  BY DEF Slash, Dot
<1>4. /\ Len(Padded(<<Slash>>, 8)) = 8 /\ Len(Padded(<<Dot>>, 8)) = 8
      /\ Len(Padded(<<Dot, Dot>>, 8)) = 8
  <2>1. 1 <= 8 /\ 2 <= 8
    OBVIOUS
  <2>2. Len(Padded(<<Slash>>, 8)) = 8
    BY <1>2, <1>3, <2>1
  <2>3. Len(Padded(<<Dot>>, 8)) = 8
    BY <1>2, <1>3, <2>1
  <2>4. Len(Padded(<<Dot, Dot>>, 8)) = 8
    BY <1>2, <1>3, <2>1
  <2> QED
    BY <2>2, <2>3, <2>4
<1>5. CASE e \in {rootDirectory, invalidDirectory}
  BY <1>1, <1>4, <1>5, DiskFacts
<1>6. ASSUME NEW c \in DOMAIN disk.entries, NEW i \in 1 .. Len(disk.entries[c]),
             e = disk.entries[c][i]
      PROVE  e.cluster \in DOMAIN disk.entries /\ Len(e.name) = 8
  <2>1. e \in EntriesOf(disk) /\ WellNamed(e)
    BY <1>6, DiskFacts
  <2>2. e.cluster \in DOMAIN disk.entries
    BY <2>1 DEF EntriesOf
  <2>3. Len(e.name) = 8
    BY <1>4, <2>1 DEF WellNamed, Stored
  <2> QED
    BY <2>2, <2>3
<1> QED
  BY <1>5, <1>6 DEF Places

LEMMA DescendStays ==
    ASSUME disk \in Disks, NEW e \in Places, NEW text
    PROVE  Descend(e, text) \in Places
<1>1. e.cluster \in DOMAIN disk.entries /\ invalidDirectory \in Places
  BY PlaceFacts DEF Places
<1> QED
  BY <1>1, NameFoundInPlaces DEF Descend

\* Following a path visits one place after another.
LEMMA PathFollowed ==
    ASSUME disk \in Disks, NEW base \in Places, NEW parts, Len(parts) \in Nat,
           DOMAIN parts = 1 .. Len(parts)
    PROVE  \E F \in [0 .. Len(parts) -> Places] :
               /\ F[0] = base
               /\ \A i \in 1 .. Len(parts) : F[i] = Descend(F[i - 1], parts[i])
               /\ FoldLeft(Descend, base, parts) = F[Len(parts)]
<1> DEFINE n == Len(parts)
           Value(f, s) == IF s = {} THEN base ELSE Descend(f[s \ {Max(s)}], parts[Max(s)])
           it == CHOOSE f : f = [s \in SUBSET DOMAIN parts |-> Value(f, s)]
<1>1. FoldLeft(Descend, base, parts) = it[DOMAIN parts]
  BY DEF FoldLeft, MapThenFoldSet
<1>2. \E f : f = [s \in SUBSET (1 .. n) |-> Value(f, s)]
  <2> DEFINE g == [x \in (1 .. n) \X Places |-> Descend(x[2], parts[x[1]])]
  <2>1. \A i \in 1 .. n : \A v \in Places : g[<<i, v>>] = Descend(v, parts[i])
    OBVIOUS
  <2>2. \A i \in 1 .. n : \A v \in Places : g[<<i, v>>] \in Places
    BY <2>1, DescendStays
  <2> HIDE DEF g
  <2>3. PICK f \in [SUBSET (1 .. n) -> Places] : \A s \in SUBSET (1 .. n) :
            f[s] = IF s = {} THEN base ELSE g[<<Max(s), f[s \ {Max(s)}]>>]
    <3>1. n \in Nat
      OBVIOUS
    <3> HIDE DEF n
    <3>2. FoldSolvable(n, Places, base, g)
      BY <2>2, <3>1, FoldExists
    <3> QED
      BY <3>2 DEF FoldSolvable
  <2>4. ASSUME NEW s \in SUBSET (1 .. n) PROVE f[s] = Value(f, s)
    <3>1. CASE s = {}
      BY <2>3, <3>1
    <3>2. CASE s # {}
      <4>1. Max(s) \in 1 .. n
        BY <3>2, MaxIsMember
      <4> DEFINE top == Max(s)
      <4> HIDE DEF top
      <4>2. top \in 1 .. n /\ f[s \ {top}] \in Places
        BY <4>1 DEF top
      <4>3. f[s] = g[<<top, f[s \ {top}]>>]
        BY <2>3, <3>2 DEF top
      <4> QED
        BY <2>1, <3>2, <4>2, <4>3 DEF top
    <3> QED
      BY <3>1, <3>2
  <2>5. f = [s \in SUBSET (1 .. n) |-> f[s]]
    OBVIOUS
  <2> HIDE DEF Value
  <2>6. f = [s \in SUBSET (1 .. n) |-> Value(f, s)]
    BY <2>4, <2>5
  <2> QED
    BY <2>6
<1> HIDE DEF Value
<1>3. it = [s \in SUBSET (1 .. n) |-> Value(it, s)]
  BY <1>2
<1> HIDE DEF it
<1> DEFINE F == [i \in 0 .. n |-> it[1 .. i]]
<1>4. F[0] = base
  <2>1. 1 .. 0 = {} /\ {} \in SUBSET (1 .. n)
    OBVIOUS
  <2> QED
    BY <1>3, <2>1 DEF Value
<1>5. ASSUME NEW i \in 1 .. n PROVE F[i] = Descend(F[i - 1], parts[i])
  <2>1. Max(1 .. i) = i /\ (1 .. i) \ {i} = 1 .. (i - 1) /\ 1 .. i # {}
    BY FirstNumbers
  <2>2. 1 .. i \in SUBSET (1 .. n)
    OBVIOUS
  <2>3. it[1 .. i] = Descend(it[1 .. (i - 1)], parts[i])
    BY <1>3, <2>1, <2>2 DEF Value
  <2>4. i \in 0 .. n /\ i - 1 \in 0 .. n
    OBVIOUS
  <2> QED
    BY <2>3, <2>4
<1>6. F \in [0 .. n -> Places]
  <2> DEFINE S == {i \in Nat : i <= n => F[i] \in Places}
  <2> HIDE DEF F
  <2>1. 0 \in S
    BY <1>4
  <2>2. ASSUME NEW i \in S PROVE i + 1 \in S
    <3> SUFFICES ASSUME i + 1 <= n PROVE F[i + 1] \in Places
      OBVIOUS
    <3>1. i + 1 \in 1 .. n /\ i + 1 - 1 = i /\ F[i] \in Places
      OBVIOUS
    <3>2. F[i + 1] = Descend(F[i], parts[i + 1])
      BY <1>5, <3>1
    <3> QED
      BY <3>1, <3>2, DescendStays
  <2>3. S = Nat
    <3>1. S \in SUBSET Nat
      OBVIOUS
    <3> HIDE DEF S
    <3> QED
      BY <2>1, <2>2, <3>1, Induction
  <2>4. \A i \in 0 .. n : F[i] \in Places
    BY <2>3
  <2> QED
    BY <2>4 DEF F
<1>7. FoldLeft(Descend, base, parts) = F[n]
  BY <1>1
<1> HIDE DEF F
<1> QED
  BY <1>4, <1>5, <1>6, <1>7

-----------------------------------------------------------------------------
(* The text of names.                                                      *)

\* A name on the disk: characters, and then spaces.
LEMMA Unpads ==
    ASSUME NEW s \in Seq(0 .. 255), NEW n \in 0 .. Len(s),
           \A i \in 1 .. Len(s) : IF i <= n THEN s[i] \in (1 .. 255) \ {Space} ELSE s[i] = Space
    PROVE  /\ Unpadded(s) \in Strings /\ Len(Unpadded(s)) = n
           /\ \A i \in 1 .. n : Unpadded(s)[i] = s[i]
           /\ Padded(Unpadded(s), Len(s)) = s
<1> DEFINE size == Len(s)
           a == Span(s, 0, n)
<1>1. size \in Nat /\ n \in Nat /\ n <= size
  OBVIOUS
<1>2. a \in Seq(0 .. 255) /\ Len(a) = n /\ \A i \in 1 .. n : a[i] = s[i]
  <2> DEFINE S == 0 .. 255
  <2>1. s \in Seq(S) /\ n \in 0 .. Len(s)
    OBVIOUS
  <2> HIDE DEF S
  <2> QED
    BY <2>1, SpanFromStart DEF S
<1>3. FirstIndex(s, 0, {Nul, Space}) = n
  <2> DEFINE stops == {Nul, Space}
  <2>1. CharAt(s, n) \in stops
    <3>1. CASE n < size
      <4>1. n + 1 \in 1 .. size /\ ~(n + 1 <= n)
        BY <1>1, <3>1
      <4> QED
        BY <3>1, <4>1 DEF CharAt
    <3>2. CASE ~(n < size)
      BY <3>2 DEF CharAt
    <3> QED
      BY <3>1, <3>2
  <2>2. ASSUME NEW j \in 0 .. (n - 1) PROVE CharAt(s, j) \notin stops
    <3>1. j + 1 \in 1 .. size /\ j + 1 <= n /\ j < Len(s)
      BY <1>1
    <3>2. s[j + 1] \in (1 .. 255) \ {Space}
      BY <3>1
    <3>3. CharAt(s, j) = s[j + 1]
      BY <3>1 DEF CharAt
    <3>4. \A c \in (1 .. 255) \ {Space} : c \notin stops
      BY DEF Nul
    <3> QED
      BY <3>2, <3>3, <3>4
  <2>3. 0 \in 0 .. Len(s) /\ n \in 0 .. Len(s) /\ Nul \in stops /\ Len(s) \in Nat
    BY <1>1
  <2> HIDE DEF stops
  <2>4. FirstIndex(s, 0, stops) = n
    BY <2>1, <2>2, <2>3, FirstIndexIs
  <2> QED
    BY <2>4 DEF stops
<1>4. Unpadded(s) = a
  BY <1>3 DEF Unpadded
<1> HIDE DEF a
<1>5. a \in Strings
  <2>1. ASSUME NEW i \in 1 .. n PROVE a[i] \in 1 .. 255
    <3>1. i \in 1 .. Len(s) /\ i <= n
      BY <1>1
    <3> QED
      BY <1>2, <3>1
  <2>2. a = [i \in 1 .. n |-> a[i]]
    BY <1>2
  <2>3. [i \in 1 .. n |-> a[i]] \in [1 .. n -> 1 .. 255]
    BY <2>1
  <2>4. [1 .. n -> 1 .. 255] \subseteq Seq(1 .. 255)
    BY <1>1
  <2> QED
    BY <2>2, <2>3, <2>4 DEF Strings
<1>6. Padded(a, size) = s
  <2> DEFINE S == 0 .. 255
  <2>1. Space \in S /\ a \in Seq(S) /\ Len(a) <= size /\ s \in Seq(S)
    BY <1>1, <1>2 DEF Space
  <2> HIDE DEF S, size
  <2>2. /\ Padded(a, size) \in Seq(S) /\ Len(Padded(a, size)) = size
        /\ \A i \in 1 .. size : Padded(a, size)[i] = IF i <= Len(a) THEN a[i] ELSE Space
    BY <1>1, <2>1, PaddedString
  <2>3. ASSUME NEW i \in 1 .. size PROVE Padded(a, size)[i] = s[i]
    <3>1. i <= n => i \in 1 .. n
      OBVIOUS
    <3> QED
      BY <1>1, <1>2, <2>2, <3>1 DEF size
  <2> QED
    BY <2>1, <2>2, <2>3, SeqEqual DEF size
<1> QED
  BY <1>2, <1>4, <1>5, <1>6

\* The text of a name and an extension, character by character.
TextOf(a, b) == a \o (IF b = <<>> THEN <<>> ELSE <<Dot>> \o b)

LEMMA TextCharacters ==
    ASSUME NEW a \in Strings, NEW b \in Strings
    PROVE  /\ TextOf(a, b) \in Strings
           /\ Len(TextOf(a, b)) = IF b = <<>> THEN Len(a) ELSE Len(a) + 1 + Len(b)
           /\ \A i \in 1 .. Len(a) : TextOf(a, b)[i] = a[i]
           /\ b # <<>> => /\ TextOf(a, b)[Len(a) + 1] = Dot
                          /\ \A i \in 1 .. Len(b) : TextOf(a, b)[Len(a) + 1 + i] = b[i]
<1> DEFINE S == 1 .. 255
<1>1. a \in Seq(S) /\ b \in Seq(S) /\ Len(a) \in Nat /\ Len(b) \in Nat
  BY DEF Strings
<1>2. CASE b = <<>>
  <2>1. TextOf(a, b) = a
    BY <1>1, <1>2 DEF TextOf
  <2> QED
    BY <1>1, <1>2, <2>1 DEF Strings
<1>3. CASE b # <<>>
  <2>1. <<Dot>> \in Seq(S) /\ Len(<<Dot>>) = 1
    BY DEF Dot
  <2> HIDE DEF S
  <2> DEFINE c == <<Dot>> \o b
  <2>2. /\ c \in Seq(S) /\ Len(c) = 1 + Len(b)
        /\ \A i \in 1 .. Len(c) : c[i] = IF i <= 1 THEN <<Dot>>[i] ELSE b[i - 1]
    <3>1. /\ c \in Seq(S) /\ Len(c) = Len(<<Dot>>) + Len(b)
          /\ \A i \in 1 .. Len(<<Dot>>) + Len(b) :
                c[i] = IF i <= Len(<<Dot>>) THEN <<Dot>>[i] ELSE b[i - Len(<<Dot>>)]
      BY <1>1, <2>1, ConcatProperties
    <3> QED
      BY <2>1, <3>1
  <2>3. c[1] = Dot /\ \A i \in 1 .. Len(b) : c[1 + i] = b[i]
    <3>1. 1 \in 1 .. Len(c) /\ <<Dot>>[1] = Dot
      BY <1>1, <2>2
    <3>2. \A i \in 1 .. Len(b) : 1 + i \in 1 .. Len(c) /\ ~(1 + i <= 1) /\ 1 + i - 1 = i
      BY <1>1, <2>2
    <3> HIDE DEF c
    <3> QED
      BY <2>2, <3>1, <3>2
  <2> HIDE DEF c
  <2>4. /\ a \o c \in Seq(S) /\ Len(a \o c) = Len(a) + Len(c)
        /\ \A i \in 1 .. Len(a) + Len(c) : (a \o c)[i] = IF i <= Len(a) THEN a[i] ELSE c[i - Len(a)]
    BY <1>1, <2>2, ConcatProperties
  <2>5. TextOf(a, b) = a \o c
    BY <1>3 DEF TextOf, c
  <2>6. \A i \in 1 .. Len(a) : (a \o c)[i] = a[i]
    BY <1>1, <2>2, <2>4
  <2>7. ASSUME NEW i \in 1 .. Len(c) PROVE (a \o c)[Len(a) + i] = c[i]
    <3>1. Len(c) \in Nat
      BY <1>1, <2>2
    <3>2. Len(a) + i \in 1 .. Len(a) + Len(c) /\ ~(Len(a) + i <= Len(a)) /\ Len(a) + i - Len(a) = i
      BY <1>1, <3>1
    <3> QED
      BY <2>4, <3>2
  <2>8. (a \o c)[Len(a) + 1] = Dot
    <3>1. 1 \in 1 .. Len(c)
      BY <1>1, <2>2
    <3> QED
      BY <2>3, <2>7, <3>1
  <2>9. ASSUME NEW i \in 1 .. Len(b) PROVE (a \o c)[Len(a) + 1 + i] = b[i]
    <3>1. 1 + i \in 1 .. Len(c) /\ Len(a) + (1 + i) = Len(a) + 1 + i
      BY <1>1, <2>2
    <3>2. (a \o c)[Len(a) + (1 + i)] = c[1 + i]
      BY <2>7, <3>1
    <3> QED
      BY <2>3, <3>1, <3>2
  <2>10. Len(a \o c) = Len(a) + 1 + Len(b)
    BY <1>1, <2>2, <2>4
  <2> QED
    BY <1>3, <2>4, <2>5, <2>6, <2>8, <2>9, <2>10 DEF S, Strings
<1> QED
  BY <1>2, <1>3

\* The characters of an extension, with the spaces after it.
ExtCharacters == NameCharacters \cup {Space}

\* A name, and an extension unless there is none.
Names8And3(a, b) ==
    /\ a \in Strings /\ Len(a) \in 1 .. 8 /\ \A i \in 1 .. Len(a) : a[i] \in NameCharacters
    /\ b \in Strings /\ Len(b) \in 0 .. 3 /\ \A i \in 1 .. Len(b) : b[i] \in ExtCharacters

LEMMA TextOfName ==
    ASSUME NEW a, NEW b, Names8And3(a, b)
    PROVE  /\ TextOf(a, b) \in Strings /\ Len(TextOf(a, b)) \in 1 .. 12
           /\ \A i \in 0 .. (Len(a) - 1) : CharAt(TextOf(a, b), i) = a[i + 1]
                                           /\ CharAt(TextOf(a, b), i) \in NameCharacters
           /\ CharAt(TextOf(a, b), Len(a)) = IF b = <<>> THEN Nul ELSE Dot
           /\ b = <<>> => Len(TextOf(a, b)) = Len(a)
           /\ b # <<>> => /\ Len(TextOf(a, b)) = Len(a) + 1 + Len(b) /\ Len(b) # 0
                          /\ \A i \in (Len(a) + 1) .. (Len(a) + Len(b)) :
                                CharAt(TextOf(a, b), i) = b[i - Len(a)]
                                /\ CharAt(TextOf(a, b), i) \in ExtCharacters
           /\ CharAt(TextOf(a, b), Len(TextOf(a, b))) = Nul
<1> DEFINE text == TextOf(a, b)
           n == Len(a)
           m == Len(b)
<1>1. /\ a \in Strings /\ n \in 1 .. 8 /\ \A i \in 1 .. n : a[i] \in NameCharacters
      /\ b \in Strings /\ m \in 0 .. 3 /\ \A i \in 1 .. m : b[i] \in ExtCharacters
  BY DEF Names8And3
<1>2. /\ text \in Strings
      /\ Len(text) = IF b = <<>> THEN n ELSE n + 1 + m
      /\ \A i \in 1 .. n : text[i] = a[i]
      /\ b # <<>> => text[n + 1] = Dot /\ \A i \in 1 .. m : text[n + 1 + i] = b[i]
  BY <1>1, TextCharacters
<1>3. b # <<>> => m # 0
  BY <1>1 DEF Strings
<1> HIDE DEF text, n, m
<1>4. Len(text) \in 1 .. 12 /\ n <= Len(text)
  BY <1>1, <1>2
<1>5. \A i \in 0 .. (n - 1) : CharAt(text, i) = a[i + 1] /\ CharAt(text, i) \in NameCharacters
  <2> TAKE i \in 0 .. (n - 1)
  <2>1. i + 1 \in 1 .. n /\ i < Len(text)
    BY <1>1, <1>4
  <2>2. CharAt(text, i) = text[i + 1]
    BY <2>1 DEF CharAt
  <2> QED
    BY <1>1, <1>2, <2>1, <2>2
<1>6. CharAt(text, Len(text)) = Nul
  BY <1>4 DEF CharAt
<1>7. CharAt(text, n) = IF b = <<>> THEN Nul ELSE Dot
  <2>1. CASE b = <<>>
    BY <1>2, <1>6, <2>1
  <2>2. CASE b # <<>>
    <3>1. n < Len(text)
      BY <1>1, <1>2, <2>2
    <3> QED
      BY <1>2, <2>2, <3>1 DEF CharAt
  <2> QED
    BY <2>1, <2>2
<1>8. ASSUME b # <<>>, NEW i \in (n + 1) .. (n + m)
      PROVE  CharAt(text, i) = b[i - n] /\ CharAt(text, i) \in ExtCharacters
  <2>1. i - n \in 1 .. m /\ n + 1 + (i - n) = i + 1 /\ i < Len(text)
    BY <1>1, <1>2, <1>8
  <2>2. CharAt(text, i) = text[i + 1]
    BY <2>1 DEF CharAt
  <2>3. text[n + 1 + (i - n)] = b[i - n]
    BY <1>2, <1>8, <2>1
  <2> QED
    BY <1>1, <2>1, <2>2, <2>3
<1> QED
  BY <1>2, <1>3, <1>4, <1>5, <1>6, <1>7, <1>8 DEF text, n, m

LEMMA NameCharactersAre ==
    ASSUME NEW c \in NameCharacters
    PROVE  c \in 1 .. 255 /\ c \notin {Nul, Space, Dot, Slash, Backslash} /\ c \notin 97 .. 122
BY DEF NameCharacters, Nul, Space, Dot, Slash, Backslash

\* The text of a name is its own, as a line that is typed and as a path.
LEMMA NameTyped ==
    ASSUME NEW a, NEW b, Names8And3(a, b)
    PROVE  /\ FormatInputString(TextOf(a, b)) = TextOf(a, b)
           /\ \A i \in Nat : CharAt(TextOf(a, b), i) # Slash
<1> DEFINE text == TextOf(a, b)
<1>1. text \in Strings /\ Len(text) \in Nat /\ Len(a) \in Nat /\ Len(b) \in Nat
      /\ Len(text) = IF b = <<>> THEN Len(a) ELSE Len(a) + 1 + Len(b)
  BY TextOfName DEF Names8And3
<1>2. ASSUME NEW i \in Nat, i < Len(text)
      PROVE  CharAt(text, i) \in ExtCharacters \cup {Dot} /\ CharAt(text, i) = text[i + 1]
  <2>1. CharAt(text, i) = text[i + 1]
    BY <1>2 DEF CharAt
  <2>2. CASE i \in 0 .. (Len(a) - 1)
    BY <2>1, <2>2, TextOfName DEF ExtCharacters
  <2>3. CASE i = Len(a)
    <3>1. b # <<>>
      BY <1>1, <1>2, <2>3
    <3> QED
      BY <2>1, <2>3, <3>1, TextOfName
  <2>4. CASE i > Len(a)
    <3>1. b # <<>> /\ i \in (Len(a) + 1) .. (Len(a) + Len(b))
      BY <1>1, <1>2, <2>4
    <3> QED
      BY <2>1, <3>1, TextOfName
  <2> QED
    BY <1>1, <2>2, <2>3, <2>4
<1> HIDE DEF text
<1>3. \A c \in ExtCharacters \cup {Dot} : c \notin {Slash, Backslash} /\ c \notin 97 .. 122
  BY NameCharactersAre DEF ExtCharacters, Dot, Space, Slash, Backslash
<1>4. ASSUME NEW i \in DOMAIN text PROVE text[i] \notin {Slash, Backslash} /\ text[i] \notin 97 .. 122
  <2>1. i - 1 \in Nat /\ i - 1 < Len(text) /\ i - 1 + 1 = i
    BY <1>1 DEF Strings
  <2>2. text[i] \in ExtCharacters \cup {Dot}
    BY <1>2, <2>1
  <2> QED
    BY <1>3, <2>2
<1>5. FormatInputString(text) = [i \in DOMAIN text |-> text[i]]
  BY <1>4 DEF FormatInputString
<1>6. text = [i \in DOMAIN text |-> text[i]]
  BY <1>1 DEF Strings
<1>7. \A i \in Nat : CharAt(text, i) # Slash
  <2> TAKE i \in Nat
  <2>1. CASE i < Len(text)
    BY <1>2, <1>3, <2>1
  <2>2. CASE ~(i < Len(text))
    BY <2>2 DEF CharAt, Nul, Slash
  <2> QED
    BY <2>1, <2>2
<1> QED
  BY <1>5, <1>6, <1>7 DEF text

\* The name cut out of its text is the one the text was made of, padded.
LEMMA NameExtracted ==
    ASSUME NEW a, NEW b, Names8And3(a, b)
    PROVE  ExtractFileName(TextOf(a, b)) = Padded(a, 8)
<1> DEFINE text == TextOf(a, b)
           n == Len(a)
           stops == {Nul, Slash, Dot, Space}
<1>1. /\ text \in Strings /\ Len(text) \in Nat /\ n \in 1 .. 8 /\ n <= Len(text)
      /\ Len(b) \in Nat
  BY TextOfName DEF Names8And3
<1>2. \A i \in 0 .. (n - 1) : CharAt(text, i) = a[i + 1] /\ CharAt(text, i) \in NameCharacters
  BY TextOfName
<1>3. CharAt(text, n) \in stops
  BY TextOfName
<1>4. \A c \in NameCharacters : c \notin stops
  BY NameCharactersAre
<1>5. FirstIndex(text, 0, stops) = n
  <2>1. 0 \in 0 .. Len(text) /\ n \in 0 .. Len(text) /\ Nul \in stops
    BY <1>1
  <2>2. \A j \in 0 .. (n - 1) : CharAt(text, j) \notin stops
    BY <1>2, <1>4
  <2> HIDE DEF text, n, stops
  <2> QED
    BY <1>1, <1>3, <2>1, <2>2, FirstIndexIs
<1>6. CharAt(text, 0) # Dot
  <2>1. 0 \in 0 .. (n - 1)
    <3> HIDE DEF text, n
    <3> QED
      BY <1>1
  <2> QED
    BY <1>2, <2>1, NameCharactersAre
<1>7. Span(text, 0, n) = a
  <2>1. n \in 0 .. Len(text)
    BY <1>1
  <2>2. /\ Span(text, 0, n) \in Strings /\ Len(Span(text, 0, n)) = n
        /\ \A i \in 1 .. n : Span(text, 0, n)[i] = text[i]
    <3> HIDE DEF text, n
    <3> QED
      BY <1>1, <2>1, SpanFromStart DEF Strings
  <2>3. a \in Strings
    BY DEF Names8And3
  <2>4. \A i \in 1 .. n : text[i] = a[i]
    BY <2>3, TextCharacters DEF Names8And3
  <2> HIDE DEF text
  <2> QED
    BY <2>2, <2>3, <2>4, SeqEqual DEF Strings
<1>8. ExtractFileName(text) = Padded(Span(text, 0, n), 8)
  <2> HIDE DEF text, n
  <2>1. ~(n >= 9)
    BY <1>1
  <2> QED
    BY <1>5, <1>6, <2>1 DEF ExtractFileName
<1> QED
  BY <1>7, <1>8

\* The extension that follows the dot, with spaces up to three characters; a space must
\* not be the first.
LEMMA ExtensionExtracted ==
    ASSUME NEW a, NEW b, Names8And3(a, b)
    PROVE  ExtractFileExtension(TextOf(a, b)) =
             IF b # <<>> /\ b[1] = Space THEN NULL ELSE Padded(b, 3)
<1> DEFINE text == TextOf(a, b)
           n == Len(a)
           m == Len(b)
           stops == {Nul, Slash, Dot}
           Leads(i) == CharAt(text, i) # Dot /\ \A j \in 0 .. (i - 1) : CharAt(text, j) = Dot
           dots == CHOOSE i \in 0 .. Len(text) : Leads(i)
<1>1. /\ text \in Strings /\ Len(text) \in Nat /\ n \in 1 .. 8 /\ m \in 0 .. 3
      /\ b \in Strings /\ n <= Len(text)
  BY TextOfName DEF Names8And3
<1>2. \A i \in 0 .. (n - 1) : CharAt(text, i) \in NameCharacters
  BY TextOfName
<1>3. CharAt(text, n) = IF b = <<>> THEN Nul ELSE Dot
  BY TextOfName
<1>4. /\ \A c \in NameCharacters : c \notin stops /\ c # Space /\ c # Dot
      /\ \A c \in ExtCharacters : c \notin {Nul, Slash}
  BY NameCharactersAre DEF ExtCharacters, Space, Nul, Slash
<1>5. dots = 0
  <2>1. 0 \in 0 .. (n - 1) /\ 0 \in 0 .. Len(text)
    <3> HIDE DEF text, n
    <3> QED
      BY <1>1
  <2>2. CharAt(text, 0) # Dot
    BY <1>2, <1>4, <2>1
  <2>3. Leads(0)
    BY <2>2
  <2>4. \A i \in 0 .. Len(text) : Leads(i) => i = 0
    <3> SUFFICES ASSUME NEW i \in 0 .. Len(text), Leads(i), i # 0 PROVE FALSE
      OBVIOUS
    <3>1. 0 \in 0 .. (i - 1)
      BY <1>1
    <3> HIDE DEF text
    <3> QED
      BY <2>2, <3>1
  <2> HIDE DEF Leads
  <2> QED
    BY <2>1, <2>3, <2>4
<1>6. FirstIndex(text, 0, stops) = n
  <2>1. 0 \in 0 .. Len(text) /\ n \in 0 .. Len(text) /\ Nul \in stops
    BY <1>1
  <2>2. \A j \in 0 .. (n - 1) : CharAt(text, j) \notin stops
    BY <1>2, <1>4
  <2>3. CharAt(text, n) \in stops
    BY <1>3
  <2> HIDE DEF text, n, stops
  <2> QED
    BY <1>1, <2>1, <2>2, <2>3, FirstIndexIs
<1> DEFINE start == n + 1
           last == FirstIndex(text, start, {Nul, Slash})
<1>7. ExtractFileExtension(text) =
        IF n >= 9 THEN NULL
        ELSE IF CharAt(text, n) # Dot THEN Padded(<<>>, 3)
        ELSE IF CharAt(text, start) \in {Nul, Slash, Space} \/ last - start >= 4 THEN NULL
        ELSE Padded(Span(text, start, start + (last - start)), 3)
  <2>1. FirstIndex(text, dots, {Nul, Slash, Dot}) = n
    BY <1>5, <1>6
  <2> HIDE DEF text, n
  <2> QED
    BY <2>1 DEF ExtractFileExtension
<1> HIDE DEF dots
<1>8. CASE b = <<>>
  <2>1. CharAt(text, n) # Dot /\ ~(n >= 9)
    <3> HIDE DEF text, n, m
    <3> QED
      BY <1>1, <1>3, <1>8 DEF Nul, Dot
  <2> QED
    BY <1>7, <1>8, <2>1
<1>9. CASE b # <<>>
  <2>1. /\ Len(text) = n + 1 + m /\ m # 0
        /\ \A i \in (n + 1) .. (n + m) : CharAt(text, i) = b[i - n] /\ CharAt(text, i) \in ExtCharacters
        /\ CharAt(text, Len(text)) = Nul
    BY <1>9, TextOfName
  <2>2. \A i \in 1 .. m : text[n + 1 + i] = b[i]
    BY <1>1, <1>9, TextCharacters DEF Names8And3
  <2> HIDE DEF text, n, m
  <2>3. start \in 0 .. Len(text) /\ Len(text) \in start .. Len(text) /\ Len(text) - start = m
    BY <1>1, <2>1
  <2>4. last = Len(text)
    <3> DEFINE ends == {Nul, Slash}
    <3>1. \A j \in start .. (Len(text) - 1) : CharAt(text, j) \notin ends
      <4> TAKE j \in start .. (Len(text) - 1)
      <4>1. j \in (n + 1) .. (n + m)
        BY <1>1, <2>1
      <4> QED
        BY <1>4, <2>1, <4>1
    <3>2. Nul \in ends /\ CharAt(text, Len(text)) \in ends
      BY <2>1
    <3> HIDE DEF ends, start
    <3>3. FirstIndex(text, start, ends) = Len(text)
      BY <1>1, <2>3, <3>1, <3>2, FirstIndexIs
    <3> QED
      BY <3>3 DEF ends
  <2>5. CharAt(text, start) = b[1] /\ b[1] \notin {Nul, Slash}
    <3>1. start \in (n + 1) .. (n + m) /\ start - n = 1
      BY <1>1, <2>1
    <3>2. CharAt(text, start) = b[1] /\ b[1] \in ExtCharacters
      BY <2>1, <3>1
    <3> HIDE DEF start
    <3> QED
      BY <1>4, <3>2
  <2> HIDE DEF last
  <2>6. last - start = m /\ start + (last - start) = Len(text) /\ ~(n >= 9) /\ ~(m >= 4)
    BY <1>1, <2>1, <2>4
  <2>7. Span(text, start, Len(text)) = b
    <3>1. /\ Span(text, start, Len(text)) \in Strings
          /\ Len(Span(text, start, Len(text))) = Len(text) - start
          /\ \A i \in 1 .. (Len(text) - start) : Span(text, start, Len(text))[i] = text[start + i]
      <4> DEFINE S == 1 .. 255
      <4>1. start \in Nat /\ text \in Seq(S)
        BY <1>1 DEF Strings
      <4> HIDE DEF start, S
      <4>2. /\ Span(text, start, Len(text)) \in Seq(S)
            /\ Len(Span(text, start, Len(text))) = Len(text) - start
            /\ \A i \in 1 .. (Len(text) - start) :
                 Span(text, start, Len(text))[i] = text[start + i]
        BY <2>3, <4>1, SpanOfString
      <4> QED
        BY <4>2 DEF S, Strings
    <3>2. \A i \in 1 .. m : Span(text, start, Len(text))[i] = b[i]
      BY <2>2, <2>3, <3>1
    <3> QED
      BY <1>1, <2>3, <3>1, <3>2, SeqEqual DEF Strings, m
  <2>8. CharAt(text, n) = Dot
    BY <1>3, <1>9
  <2> HIDE DEF start
  <2>9. CharAt(text, start) \in {Nul, Slash, Space} \/ last - start >= 4 <=> b[1] = Space
    BY <2>5, <2>6
  <2> QED
    BY <1>7, <1>9, <2>6, <2>7, <2>8, <2>9 DEF text
<1> QED
  BY <1>8, <1>9

\* The names of a directory itself and of the one above it.
Dots == {<<Dot>>, <<Dot, Dot>>}

LEMMA DotsTyped ==
    ASSUME NEW t \in Dots
    PROVE  /\ t \in Strings /\ Len(t) \in 1 .. 2 /\ \A i \in 1 .. Len(t) : t[i] = Dot
           /\ \A i \in 0 .. (Len(t) - 1) : CharAt(t, i) = Dot
           /\ CharAt(t, Len(t)) = Nul
           /\ FormatInputString(t) = t
           /\ \A i \in Nat : CharAt(t, i) # Slash
<1>1. t \in Strings /\ Len(t) \in 1 .. 2 /\ \A i \in 1 .. Len(t) : t[i] = Dot
  <2>1. CASE t = <<Dot>>
    BY <2>1 DEF Strings, Dot
  <2>2. CASE t = <<Dot, Dot>>
    BY <2>2 DEF Strings, Dot
  <2> QED
    BY <2>1, <2>2 DEF Dots
<1>2. ASSUME NEW i \in 0 .. (Len(t) - 1) PROVE CharAt(t, i) = Dot
  <2>1. i < Len(t) /\ i + 1 \in 1 .. Len(t)
    BY <1>1
  <2> QED
    BY <1>1, <2>1 DEF CharAt
<1>3. CharAt(t, Len(t)) = Nul
  BY <1>1 DEF CharAt
<1>4. FormatInputString(t) = t
  <2>1. DOMAIN t = 1 .. Len(t) /\ t = [i \in DOMAIN t |-> t[i]]
    BY <1>1 DEF Strings
  <2>2. \A i \in DOMAIN t : t[i] \notin 97 .. 122 /\ t[i] # Backslash
    <3> TAKE i \in DOMAIN t
    <3>1. t[i] = 46
      BY <1>1, <2>1 DEF Dot
    <3> QED
      BY <3>1 DEF Backslash
  <2>3. FormatInputString(t) = [i \in DOMAIN t |-> t[i]]
    BY <2>2 DEF FormatInputString
  <2> QED
    BY <2>1, <2>3
<1>5. ASSUME NEW i \in Nat PROVE CharAt(t, i) # Slash
  <2>1. CASE i < Len(t)
    <3>1. i \in 0 .. (Len(t) - 1)
      BY <1>1, <2>1
    <3> QED
      BY <1>2, <3>1 DEF Dot, Slash
  <2>2. CASE ~(i < Len(t))
    BY <2>2 DEF CharAt, Nul, Slash
  <2> QED
    BY <2>1, <2>2
<1> QED
  BY <1>1, <1>2, <1>3, <1>4, <1>5

LEMMA DotsExtracted ==
    ASSUME NEW t \in Dots
    PROVE  ExtractFileName(t) = Padded(t, 8) /\ ExtractFileExtension(t) = Padded(<<>>, 3)
<1> DEFINE k == Len(t)
           Leads(i) == CharAt(t, i) # Dot /\ \A j \in 0 .. (i - 1) : CharAt(t, j) = Dot
           dots == CHOOSE i \in 0 .. k : Leads(i)
           stops == {Nul, Slash, Dot}
<1>1. /\ t \in Strings /\ k \in 1 .. 2 /\ \A i \in 0 .. (k - 1) : CharAt(t, i) = Dot
      /\ CharAt(t, k) = Nul
  BY DotsTyped
<1> HIDE DEF k
<1>2. CharAt(t, 0) = Dot
  <2>1. 0 \in 0 .. (k - 1)
    BY <1>1
  <2> QED
    BY <1>1, <2>1
<1>3. (IF CharAt(t, 1) = Dot THEN 2 ELSE 1) = k
  <2>1. CASE k = 1
    BY <1>1, <2>1 DEF Nul, Dot
  <2>2. CASE k = 2
    <3>1. 1 \in 0 .. (k - 1)
      BY <2>2
    <3> QED
      BY <1>1, <2>2, <3>1
  <2> QED
    BY <1>1, <2>1, <2>2
<1>4. Span(t, 0, k) = t
  <2>1. k \in 0 .. Len(t) /\ k = Len(t)
    BY <1>1 DEF k
  <2>2. /\ Span(t, 0, k) \in Strings /\ Len(Span(t, 0, k)) = k
        /\ \A i \in 1 .. k : Span(t, 0, k)[i] = t[i]
    BY <1>1, <2>1, SpanFromStart DEF Strings
  <2> QED
    BY <1>1, <2>1, <2>2, SeqEqual DEF Strings
<1>5. ExtractFileName(t) = Padded(t, 8)
  <2>1. ~(k >= 9) /\ CharAt(t, k) \in {Nul, Slash}
    BY <1>1
  <2> QED
    BY <1>2, <1>3, <1>4, <2>1 DEF ExtractFileName
<1>6. dots = k
  <2>1. k \in 0 .. k /\ Leads(k)
    BY <1>1 DEF Nul, Dot
  <2>2. ASSUME NEW i \in 0 .. k, Leads(i) PROVE i = k
    <3>1. i \notin 0 .. (k - 1)
      BY <1>1, <2>2
    <3> QED
      BY <1>1, <3>1
  <2> HIDE DEF Leads
  <2> QED
    BY <2>1, <2>2
<1>7. FirstIndex(t, k, stops) = k
  <2>1. k \in 0 .. Len(t) /\ k \in k .. Len(t) /\ Len(t) \in Nat
    BY <1>1 DEF k
  <2>2. Nul \in stops /\ CharAt(t, k) \in stops
    BY <1>1
  <2>3. \A j \in k .. (k - 1) : CharAt(t, j) \notin stops
    BY <1>1
  <2> HIDE DEF stops
  <2> QED
    BY <2>1, <2>2, <2>3, FirstIndexIs
<1>8. ExtractFileExtension(t) = Padded(<<>>, 3)
  <2>1. FirstIndex(t, dots, {Nul, Slash, Dot}) = k
    BY <1>6, <1>7
  <2>2. ~(k >= 9) /\ CharAt(t, k) # Dot
    BY <1>1 DEF Nul, Dot
  <2> QED
    BY <2>1, <2>2 DEF ExtractFileExtension, k
<1> QED
  BY <1>5, <1>8

-----------------------------------------------------------------------------
(* Opening what ls shows.                                                  *)

\* A path of one name, and formatted.
OneName(text) ==
    /\ text \in Strings /\ Len(text) \in 1 .. 12
    /\ FormatInputString(text) = text
    /\ \A i \in Nat : CharAt(text, i) # Slash

\* What the user types for an entry names that entry, or none.
Names11(text, entry) ==
    /\ OneName(text)
    /\ ExtractFileName(text) = entry.name /\ ExtractFileExtension(text) = entry.ext

Refused(text) == OneName(text) /\ ExtractFileExtension(text) = NULL

LEMMA RegularNamed ==
    ASSUME NEW entry, entry.name \in Seq(0 .. 255), entry.ext \in Seq(0 .. 255),
           Stored(entry.name, 8), entry.name[1] # Space, Stored(entry.ext, 3)
    PROVE  /\ Names11(NameText(entry), entry)
           /\ ~entry.subdir /\ Unpadded(entry.ext) # <<>> => Names11(ShownText(entry), entry)
           /\ ~entry.subdir /\ Unpadded(entry.ext) = <<>> => Refused(ShownText(entry))
<1> DEFINE a == Unpadded(entry.name)
           b == Unpadded(entry.ext)
           e == entry.ext
<1>1. PICK n \in 0 .. 8 : \A i \in 1 .. 8 :
          IF i <= n THEN entry.name[i] \in NameCharacters ELSE entry.name[i] = Space
  BY DEF Stored
<1>2. PICK m \in 0 .. 3 : \A i \in 1 .. 3 :
          IF i <= m THEN entry.ext[i] \in NameCharacters ELSE entry.ext[i] = Space
  BY DEF Stored
<1>3. Len(entry.name) = 8 /\ Len(entry.ext) = 3
  BY DEF Stored
<1>4. \A c \in NameCharacters : c \in (1 .. 255) \ {Space}
  BY NameCharactersAre
<1>5. a \in Strings /\ Len(a) = n /\ (\A i \in 1 .. n : a[i] = entry.name[i]) /\ Padded(a, 8) = entry.name
  <2> DEFINE s == entry.name
  <2>1. /\ s \in Seq(0 .. 255) /\ n \in 0 .. Len(s)
        /\ \A i \in 1 .. Len(s) : IF i <= n THEN s[i] \in (1 .. 255) \ {Space} ELSE s[i] = Space
    BY <1>1, <1>3, <1>4
  <2> HIDE DEF s
  <2>2. /\ Unpadded(s) \in Strings /\ Len(Unpadded(s)) = n
        /\ \A i \in 1 .. n : Unpadded(s)[i] = s[i]
        /\ Padded(Unpadded(s), Len(s)) = s
    BY <2>1, Unpads
  <2> QED
    BY <1>3, <2>2 DEF s
<1>6. b \in Strings /\ Len(b) = m /\ (\A i \in 1 .. m : b[i] = entry.ext[i]) /\ Padded(b, 3) = entry.ext
  <2> DEFINE s == entry.ext
  <2>1. /\ s \in Seq(0 .. 255) /\ m \in 0 .. Len(s)
        /\ \A i \in 1 .. Len(s) : IF i <= m THEN s[i] \in (1 .. 255) \ {Space} ELSE s[i] = Space
    BY <1>2, <1>3, <1>4
  <2> HIDE DEF s
  <2>2. /\ Unpadded(s) \in Strings /\ Len(Unpadded(s)) = m
        /\ \A i \in 1 .. m : Unpadded(s)[i] = s[i]
        /\ Padded(Unpadded(s), Len(s)) = s
    BY <2>1, Unpads
  <2> QED
    BY <1>3, <2>2 DEF s
<1>7. NameText(entry) = TextOf(a, b)
  BY DEF NameText, TextOf
<1> HIDE DEF a, b
<1>8. n # 0
  <2>1. 1 \in 1 .. 8
    OBVIOUS
  <2> QED
    BY <1>1, <2>1
<1>9. Names8And3(a, b)
  <2>1. n \in 1 .. 8
    BY <1>8
  <2>2. ASSUME NEW i \in 1 .. n PROVE a[i] \in NameCharacters
    <3>1. i \in 1 .. 8 /\ i <= n
      BY <2>1
    <3> QED
      BY <1>1, <1>5, <3>1
  <2>3. ASSUME NEW i \in 1 .. m PROVE b[i] \in NameCharacters
    <3>1. i \in 1 .. 3 /\ i <= m
      OBVIOUS
    <3> QED
      BY <1>2, <1>6, <3>1
  <2>4. \A i \in 1 .. m : b[i] \in ExtCharacters
    BY <2>3 DEF ExtCharacters
  <2> QED
    BY <1>5, <1>6, <2>1, <2>2, <2>4 DEF Names8And3
<1>10. e \in Strings /\ Len(e) = 3 /\ (\A i \in 1 .. 3 : e[i] \in ExtCharacters) /\ e # <<>>
  <2>1. \A i \in 1 .. 3 : e[i] \in ExtCharacters
    BY <1>2 DEF ExtCharacters
  <2>2. ExtCharacters \in SUBSET (1 .. 255)
    BY NameCharactersAre DEF ExtCharacters, Space
  <2> DEFINE none == <<>>
  <2>3. (\A i \in 1 .. Len(e) : e[i] \in 1 .. 255) /\ Len(e) # Len(none)
    BY <1>3, <2>1, <2>2
  <2>4. e \in Seq(0 .. 255) /\ Len(e) = 3
    BY <1>3
  <2> HIDE DEF e, none
  <2>5. e \in Strings
    <3> DEFINE S == 1 .. 255
    <3>1. e \in [1 .. Len(e) -> S] /\ Len(e) \in Nat
      BY <2>3, <2>4
    <3> HIDE DEF S
    <3>2. e \in Seq(S)
      BY <3>1, SeqDef
    <3> QED
      BY <3>2 DEF S, Strings
  <2>6. e # <<>>
    BY <2>3 DEF none
  <2>7. \A i \in 1 .. 3 : e[i] \in ExtCharacters
    BY <2>1 DEF e
  <2> QED
    BY <2>4, <2>5, <2>6, <2>7
<1>11. Names8And3(a, e)
  <2>1. 3 \in 0 .. 3
    OBVIOUS
  <2> HIDE DEF e
  <2> QED
    BY <1>9, <1>10, <2>1 DEF Names8And3
<1>12. Padded(e, 3) = e
  <2> DEFINE S == 1 .. 255
             size == 3
  <2>1. Space \in S /\ size \in Nat /\ e \in Seq(S) /\ Len(e) <= size /\ Len(e) = size
    BY <1>10 DEF Space, Strings
  <2> HIDE DEF e, S, size
  <2>2. /\ Padded(e, size) \in Seq(S) /\ Len(Padded(e, size)) = size
        /\ \A i \in 1 .. size : Padded(e, size)[i] = e[i]
    BY <2>1, PaddedString
  <2>3. Padded(e, size) = e
    BY <2>1, <2>2, SeqEqual
  <2> QED
    BY <2>3 DEF size
<1>13. (e[1] = Space) <=> (b = <<>>)
  <2>1. m = 0 <=> b = <<>>
    BY <1>6 DEF Strings
  <2>2. 1 \in 1 .. 3 /\ (1 <= m <=> m # 0)
    OBVIOUS
  <2> QED
    BY <1>2, <1>4, <2>1, <2>2
<1>14. b # <<>> => b[1] # Space
  <2> SUFFICES ASSUME b # <<>> PROVE b[1] # Space
    OBVIOUS
  <2>1. 1 \in 1 .. m
    BY <1>6 DEF Strings
  <2> QED
    BY <1>6, <1>13, <2>1
<1>15. \A t \in {b, e} : OneName(TextOf(a, t)) /\ ExtractFileName(TextOf(a, t)) = entry.name
  <2> TAKE t \in {b, e}
  <2>1. Names8And3(a, t)
    BY <1>9, <1>11
  <2>2. OneName(TextOf(a, t))
    BY <2>1, TextOfName, NameTyped DEF OneName
  <2> QED
    BY <1>5, <2>1, <2>2, NameExtracted
<1>16. ~entry.subdir => ShownText(entry) = TextOf(a, e)
  BY <1>10 DEF ShownText, TextOf, a
<1>17. ExtractFileExtension(TextOf(a, b)) = entry.ext
  BY <1>6, <1>9, <1>14, ExtensionExtracted
<1> HIDE DEF e
<1>18. ExtractFileExtension(TextOf(a, e)) = IF b = <<>> THEN NULL ELSE e
  BY <1>10, <1>11, <1>12, <1>13, ExtensionExtracted
<1> QED
  BY <1>7, <1>15, <1>16, <1>17, <1>18 DEF Names11, Refused, b, e

LEMMA DotsUnpadded ==
    ASSUME NEW t \in Dots
    PROVE  Unpadded(Padded(t, 8)) = t
<1> DEFINE S == 0 .. 255
           s == Padded(t, 8)
<1>1. t \in Strings /\ t \in Seq(S) /\ Len(t) \in 1 .. 2 /\ \A i \in 1 .. Len(t) : t[i] = Dot
  BY DotsTyped DEF Strings
<1>2. Space \in S /\ 8 \in Nat /\ Len(t) <= 8
  BY <1>1 DEF Space
<1>3. s \in Seq(S) /\ Len(s) = 8 /\ \A i \in 1 .. 8 : s[i] = IF i <= Len(t) THEN t[i] ELSE Space
  <2> HIDE DEF S
  <2> QED
    BY <1>1, <1>2, PaddedString
<1> HIDE DEF s
<1>4. \A i \in 1 .. Len(s) : IF i <= Len(t) THEN s[i] \in (1 .. 255) \ {Space} ELSE s[i] = Space
  <2> TAKE i \in 1 .. Len(s)
  <2>1. i \in 1 .. 8 /\ (i <= Len(t) => i \in 1 .. Len(t))
    BY <1>1, <1>3
  <2>2. s[i] = IF i <= Len(t) THEN Dot ELSE Space
    BY <1>1, <1>3, <2>1
  <2>3. Dot \in (1 .. 255) \ {Space}
    BY DEF Dot, Space
  <2> QED
    BY <2>2, <2>3
<1>5. /\ Unpadded(s) \in Strings /\ Len(Unpadded(s)) = Len(t)
      /\ \A i \in 1 .. Len(t) : Unpadded(s)[i] = s[i]
  <2>1. Len(t) \in 0 .. Len(s)
    BY <1>1, <1>3
  <2> QED
    BY <1>3, <1>4, <2>1, Unpads
<1>6. \A i \in 1 .. Len(t) : Unpadded(s)[i] = t[i]
  <2> TAKE i \in 1 .. Len(t)
  <2>1. i \in 1 .. 8 /\ i <= Len(t)
    BY <1>1
  <2> QED
    BY <1>3, <1>5, <2>1
<1> QED
  BY <1>1, <1>5, <1>6, SeqEqual DEF Strings, s

\* The blank extension.
LEMMA BlankExtension ==
    /\ Padded(<<>>, 3) \in Seq(0 .. 255) /\ Len(Padded(<<>>, 3)) = 3
    /\ Padded(<<>>, 3)[1] = Space /\ Unpadded(Padded(<<>>, 3)) = <<>>
<1> DEFINE blank == <<>>
           s == Padded(blank, 3)
           S == 0 .. 255
           size == 3
<1>1. Space \in S /\ size \in Nat /\ blank \in Seq(S) /\ Len(blank) = 0 /\ Len(blank) <= size
  BY DEF Space
<1>2. s \in Seq(S) /\ Len(s) = 3 /\ \A i \in 1 .. 3 : s[i] = Space
  <2> HIDE DEF S, blank, size
  <2>1. Len(blank) = 0 /\ \A i \in 1 .. size : ~(i <= Len(blank))
    BY <1>1
  <2>2. Padded(blank, size) \in Seq(S) /\ Len(Padded(blank, size)) = size
    BY <1>1, PaddedString
  <2>3. ASSUME NEW i \in 1 .. size PROVE Padded(blank, size)[i] = Space
    <3>1. Padded(blank, size)[i] = IF i <= Len(blank) THEN blank[i] ELSE Space
      BY <1>1, PaddedString
    <3> QED
      BY <2>1, <3>1
  <2> QED
    BY <2>2, <2>3 DEF size
<1> HIDE DEF S, blank
<1> HIDE DEF s
<1>3. Unpadded(s) \in Strings /\ Len(Unpadded(s)) = 0
  <2>1. /\ s \in Seq(0 .. 255) /\ 0 \in 0 .. Len(s)
        /\ \A i \in 1 .. Len(s) : IF i <= 0 THEN s[i] \in (1 .. 255) \ {Space} ELSE s[i] = Space
    BY <1>2 DEF S
  <2> QED
    BY <2>1, Unpads
<1>4. Unpadded(s) = <<>> /\ s[1] = Space
  BY <1>2, <1>3 DEF Strings
<1> QED
  BY <1>2, <1>4 DEF s, blank, S

LEMMA DotsNamed ==
    ASSUME NEW entry, NEW t \in Dots, entry.name = Padded(t, 8), entry.ext = Padded(<<>>, 3)
    PROVE  Names11(NameText(entry), entry)
<1>1. Unpadded(entry.ext) = <<>>
  BY BlankExtension
<1>2. Unpadded(entry.name) = t
  BY DotsUnpadded
<1>3. NameText(entry) = t
  <2>1. t \o <<>> = t
    BY DotsTyped DEF Strings
  <2> QED
    BY <1>1, <1>2, <2>1 DEF NameText
<1>4. Len(t) \in 1 .. 12
  BY DotsTyped
<1> QED
  BY <1>3, <1>4, DotsTyped, DotsExtracted DEF Names11, OneName

LEMMA EntryNamed ==
    ASSUME disk \in Disks, NEW c \in DOMAIN disk.entries, NEW k \in 1 .. Len(disk.entries[c])
    PROVE  /\ Names11(NameText(disk.entries[c][k]), disk.entries[c][k])
           /\ disk.entries[c][k].name \in Seq(0 .. 255) /\ Len(disk.entries[c][k].name) = 8
           /\ disk.entries[c][k].ext \in Seq(0 .. 255) /\ Len(disk.entries[c][k].ext) = 3
<1> DEFINE entry == disk.entries[c][k]
<1>1. entry \in EntriesOf(disk) /\ WellNamed(entry)
  BY DiskFacts
<1>2. entry.name \in Seq(0 .. 255) /\ entry.ext \in Seq(0 .. 255)
  BY <1>1 DEF EntriesOf
<1> HIDE DEF entry
<1>3. CASE Stored(entry.name, 8) /\ entry.name[1] # Space /\ Stored(entry.ext, 3)
  <2>1. Names11(NameText(entry), entry)
    BY <1>2, <1>3, RegularNamed
  <2>2. Len(entry.name) = 8 /\ Len(entry.ext) = 3
    BY <1>3 DEF Stored
  <2> QED
    BY <1>2, <2>1, <2>2 DEF entry
<1>4. ASSUME NEW t \in Dots, entry.name = Padded(t, 8), entry.ext = Padded(<<>>, 3)
      PROVE  Names11(NameText(entry), entry) /\ Len(entry.name) = 8 /\ Len(entry.ext) = 3
  <2>1. Names11(NameText(entry), entry)
    BY <1>4, DotsNamed
  <2> DEFINE S == 0 .. 255
             blank == <<>>
  <2>2. /\ Space \in S /\ t \in Seq(S) /\ Len(t) <= 8 /\ blank \in Seq(S) /\ Len(blank) <= 3
        /\ 8 \in Nat /\ 3 \in Nat
    BY DotsTyped DEF Space, Strings
  <2> HIDE DEF S, blank
  <2>3. Len(Padded(t, 8)) = 8
    BY <2>2, PaddedString
  <2>4. Len(Padded(blank, 3)) = 3
    BY <2>2, PaddedString
  <2> QED
    BY <1>4, <2>1, <2>3, <2>4 DEF blank
<1>5. CASE entry.name \in {Padded(<<Dot>>, 8), Padded(<<Dot, Dot>>, 8)} /\ entry.ext = Padded(<<>>, 3)
  <2>1. <<Dot>> \in Dots /\ <<Dot, Dot>> \in Dots
    BY DEF Dots
  <2>2. Names11(NameText(entry), entry) /\ Len(entry.name) = 8 /\ Len(entry.ext) = 3
    BY <1>4, <1>5, <2>1
  <2> QED
    BY <1>2, <2>2 DEF entry
<1> QED
  BY <1>1, <1>3, <1>5 DEF WellNamed

\* The text that ls shows for an entry names it too, or no entry.
LEMMA EntryShown ==
    ASSUME disk \in Disks, NEW c \in DOMAIN disk.entries, NEW k \in 1 .. Len(disk.entries[c]),
           NEW entry, entry = disk.entries[c][k]
    PROVE  IF HasNoExtension(entry) THEN Refused(ShownText(entry))
           ELSE Names11(ShownText(entry), entry)
<1>1. WellNamed(entry) /\ entry.name \in Seq(0 .. 255) /\ entry.ext \in Seq(0 .. 255)
  <2>1. entry \in EntriesOf(disk) /\ WellNamed(entry)
    BY DiskFacts
  <2>2. entry.name \in Seq(0 .. 255) /\ entry.ext \in Seq(0 .. 255)
    BY <2>1 DEF EntriesOf
  <2> QED
    BY <2>1, <2>2
<1>2. Names11(NameText(entry), entry)
  BY EntryNamed
<1>3. (IsDots(entry) => entry.subdir) /\ (entry.subdir => entry.ext = Padded(<<>>, 3))
  <2>1. /\ IsDots(disk.entries[c][k]) => disk.entries[c][k].subdir
        /\ disk.entries[c][k].subdir => disk.entries[c][k].ext = Padded(<<>>, 3)
    BY TreeAssumption
  <2> QED
    BY <2>1
<1>4. CASE entry.subdir
  <2>1. Unpadded(entry.ext) = <<>>
    BY <1>3, <1>4, BlankExtension
  <2>2. ShownText(entry) = NameText(entry)
    BY <1>4, <2>1 DEF ShownText, NameText
  <2> QED
    BY <1>2, <1>4, <2>2 DEF HasNoExtension
<1>5. CASE ~entry.subdir
  <2>1. Head(entry.name) # Dot
    BY <1>3, <1>5 DEF IsDots
  <2>2. entry.name \notin {Padded(<<Dot>>, 8), Padded(<<Dot, Dot>>, 8)}
    <3>1. ASSUME NEW t \in Dots PROVE Head(Padded(t, 8)) = Dot
      <4> DEFINE S == 0 .. 255
                 size == 8
      <4>1. /\ Space \in S /\ t \in Seq(S) /\ Len(t) <= size /\ size \in Nat /\ 1 \in 1 .. size
            /\ 1 \in 1 .. Len(t) /\ t[1] = Dot
        <5>1. t \in Strings /\ Len(t) \in 1 .. 2 /\ \A i \in 1 .. Len(t) : t[i] = Dot
          BY DotsTyped
        <5>2. t \in Seq(S) /\ Space \in S
          BY <5>1 DEF Strings, Space
        <5>3. Len(t) <= 8 /\ 1 \in 1 .. Len(t)
          <6> DEFINE n == Len(t)
          <6>1. n \in 1 .. 2
            BY <5>1
          <6> HIDE DEF n, size, S
          <6>2. n <= 8 /\ 1 \in 1 .. n
            BY <6>1
          <6> QED
            BY <6>2 DEF n
        <5> QED
          BY <5>1, <5>2, <5>3
      <4> HIDE DEF S, size
      <4>2. Padded(t, size)[1] = Dot /\ Padded(t, size) \in Seq(S) /\ Len(Padded(t, size)) = size
        BY <4>1, PaddedString
      <4> QED
        BY <4>1, <4>2 DEF size
    <3> QED
      BY <2>1, <3>1 DEF Dots
  <2>3. Stored(entry.name, 8) /\ entry.name[1] # Space /\ Stored(entry.ext, 3)
    BY <1>1, <2>2 DEF WellNamed
  <2> QED
    BY <1>1, <1>5, <2>3, RegularNamed DEF HasNoExtension
<1> QED
  BY <1>4, <1>5

\* A path that is one name goes one step.
LEMMA OneStep ==
    ASSUME disk \in Disks, currentDirectory \in Places, NEW text \in Strings,
           Len(text) \in 1 .. 12, \A i \in Nat : CharAt(text, i) # Slash
    PROVE  GetNestedDirectoryEntry(text) = Descend(currentDirectory, text)
<1> DEFINE n == Len(text)
           skipped == 1 .. 255
           Parts(i) == Cut(text, i, Slash, 19, skipped)
<1>1. Start(text) = 0
  <2>1. 0 \in Nat
    OBVIOUS
  <2> QED
    BY <2>1 DEF Start
<1>2. CharAt(text, 0) # Nul /\ CharAt(text, n) = Nul /\ \A i \in 0 .. (n - 1) : CharAt(text, i) # Nul
  <2>1. n \in 1 .. 12 /\ n = Len(text)
    OBVIOUS
  <2> HIDE DEF n
  <2>2. \A i \in Nat : CharAt(text, i) = Nul <=> i >= n
    BY <2>1, StringCharacters
  <2>3. 0 \in Nat /\ ~(0 >= n) /\ n \in Nat /\ n >= n
    BY <2>1
  <2>4. \A i \in 0 .. (n - 1) : i \in Nat /\ ~(i >= n)
    BY <2>1
  <2> QED
    BY <2>2, <2>3, <2>4
<1>3. FirstIndex(text, 0, {Nul, Slash}) = n
  <2> DEFINE stops == {Nul, Slash}
  <2>1. n \in Nat /\ 0 \in 0 .. n /\ n \in 0 .. n
    OBVIOUS
  <2>2. Nul \in stops /\ CharAt(text, n) \in stops
    BY <1>2
  <2>3. ASSUME NEW j \in 0 .. (n - 1) PROVE CharAt(text, j) \notin stops
    <3>1. j \in Nat
      OBVIOUS
    <3> QED
      BY <1>2, <3>1
  <2> HIDE DEF stops
  <2>4. FirstIndex(text, 0, stops) = n
    BY <2>1, <2>2, <2>3, FirstIndexIs
  <2> QED
    BY <2>4 DEF stops
<1>4. PartEnd(text, 0, Slash, 19) = n
  <2>1. {0 + 19, n} \in SUBSET Nat /\ {0 + 19, n} # {}
    OBVIOUS
  <2>2. Min({0 + 19, n}) \in {0 + 19, n} /\ \A x \in {0 + 19, n} : Min({0 + 19, n}) <= x
    BY <2>1, MinIsMember
  <2>3. PartEnd(text, 0, Slash, 19) = Min({0 + 19, n})
    BY <1>3 DEF PartEnd
  <2>4. n \in 1 .. 12
    OBVIOUS
  <2> HIDE DEF n
  <2>5. Min({0 + 19, n}) = n
    <3> DEFINE least == Min({0 + 19, n})
    <3>1. least \in {19, n} /\ least <= n /\ least <= 19
      BY <2>2
    <3> HIDE DEF least
    <3>2. least = n
      BY <2>4, <3>1
    <3> QED
      BY <3>2 DEF least
  <2> QED
    BY <2>3, <2>5
<1>5. AfterPart(text, 0, Slash, 19, skipped) = n
  <2>1. CharAt(text, n) \notin skipped
    BY <1>2 DEF Nul
  <2> HIDE DEF n, skipped
  <2> QED
    BY <1>4, <2>1 DEF AfterPart
<1>6. Slash \in skipped /\ Nul \notin skipped
  BY DEF Slash, Nul
<1>7. /\ Parts(0) = <<Span(text, 0, n)>> \o Parts(n)
      /\ Parts(n) = <<>>
  <2>1. \A i \in 0 .. n :
          Parts(i) = IF CharAt(text, i) = Nul THEN <<>>
                     ELSE <<Span(text, i, PartEnd(text, i, Slash, 19))>>
                          \o Parts(AfterPart(text, i, Slash, 19, skipped))
    <3> DEFINE size == 19
    <3>1. size \in Nat \ {0}
      OBVIOUS
    <3> HIDE DEF skipped, size
    <3>2. \A i \in 0 .. Len(text) : Unfolds(text, i, Slash, size, skipped)
      BY <1>6, <3>1, CutUnfolds
    <3> QED
      BY <3>2 DEF size, Unfolds
  <2>2. 0 \in 0 .. n /\ n \in 0 .. n
    OBVIOUS
  <2> HIDE DEF Parts, n, skipped
  <2>3. Parts(0) = <<Span(text, 0, PartEnd(text, 0, Slash, 19))>>
                   \o Parts(AfterPart(text, 0, Slash, 19, skipped))
    BY <1>2, <2>1, <2>2
  <2>4. Parts(n) = <<>>
    BY <1>2, <2>1, <2>2
  <2> QED
    BY <1>4, <1>5, <2>3, <2>4
<1>8. Span(text, 0, n) = text
  <2>1. n \in 0 .. Len(text)
    OBVIOUS
  <2> DEFINE S == 1 .. 255
  <2>2. text \in Seq(S)
    BY DEF Strings
  <2> HIDE DEF n, S
  <2>3. /\ Span(text, 0, n) \in Seq(S) /\ Len(Span(text, 0, n)) = n
        /\ \A i \in 1 .. n : Span(text, 0, n)[i] = text[i]
    BY <2>1, <2>2, SpanFromStart
  <2> QED
    BY <2>2, <2>3, SeqEqual DEF n
<1>9. PathParts(text) = <<text>>
  BY <1>1, <1>7, <1>8 DEF PathParts
<1>10. PICK F \in [0 .. Len(<<text>>) -> Places] :
          /\ F[0] = currentDirectory
          /\ \A i \in 1 .. Len(<<text>>) : F[i] = Descend(F[i - 1], <<text>>[i])
          /\ FoldLeft(Descend, currentDirectory, <<text>>) = F[Len(<<text>>)]
  <2> DEFINE parts == <<text>>
  <2>1. Len(parts) \in Nat /\ DOMAIN parts = 1 .. Len(parts)
    OBVIOUS
  <2> HIDE DEF parts
  <2>2. \E F \in [0 .. Len(parts) -> Places] :
          /\ F[0] = currentDirectory
          /\ \A i \in 1 .. Len(parts) : F[i] = Descend(F[i - 1], parts[i])
          /\ FoldLeft(Descend, currentDirectory, parts) = F[Len(parts)]
    BY <2>1, PathFollowed
  <2> QED
    BY <2>2 DEF parts
<1>11. FoldLeft(Descend, currentDirectory, <<text>>) = Descend(currentDirectory, text)
  <2>1. Len(<<text>>) = 1 /\ 1 \in 1 .. 1 /\ <<text>>[1] = text /\ 1 - 1 = 0
    OBVIOUS
  <2> QED
    BY <1>10, <2>1
<1> QED
  BY <1>1, <1>9, <1>11 DEF GetNestedDirectoryEntry, StartDirectory

\* The current directory is one of the disk's.
Located ==
    /\ disk \in Disks
    /\ currentDirectory \in Places /\ currentDirectory # invalidDirectory

LEMMA RootIsPlace == rootDirectory \in Places /\ rootDirectory # invalidDirectory
<1>1. rootDirectory.name # invalidDirectory.name
  <2> DEFINE S == 0 .. 255
             slash == <<Slash>>
  <2>1. Space \in S /\ slash \in Seq(S) /\ Len(slash) <= 8 /\ 8 \in Nat
    BY DEF Space, Slash
  <2> HIDE DEF S, slash
  <2>2. Len(Padded(slash, 8)) = 8
    BY <2>1, PaddedString
  <2>3. rootDirectory.name = Padded(slash, 8) /\ invalidDirectory.name = <<>>
    BY DEF rootDirectory, invalidDirectory, slash
  <2>4. Len(<<>>) = 0
    OBVIOUS
  <2> QED
    BY <2>2, <2>3, <2>4
<1> QED
  BY <1>1 DEF Places

LEMMA FormattedStays ==
    ASSUME NEW m \in 127 .. 255, NEW s \in Seq(1 .. m)
    PROVE  FormatInputString(s) \in Seq(1 .. m)
<1> DEFINE t == FormatInputString(s)
<1>1. Len(s) \in Nat /\ DOMAIN s = 1 .. Len(s)
  OBVIOUS
<1>2. t = [i \in 1 .. Len(s) |-> t[i]]
  BY <1>1 DEF FormatInputString
<1>3. ASSUME NEW i \in 1 .. Len(s) PROVE t[i] \in 1 .. m
  <2>1. s[i] \in 1 .. m
    BY ElementOfSeq
  <2>2. t[i] = CASE s[i] \in 97 .. 122 -> s[i] - 32
                 [] s[i] = Backslash -> Slash
                 [] OTHER -> s[i]
    BY <1>1 DEF FormatInputString
  <2> HIDE DEF t
  <2>3. CASE s[i] \in 97 .. 122
    <3>1. s[i] # Backslash
      <4>1. \A c \in 97 .. 122 : c # Backslash
        BY DEF Backslash
      <4> QED
        BY <2>3, <4>1
    <3>2. t[i] = s[i] - 32
      BY <2>2, <2>3, <3>1
    <3>3. \A c \in 97 .. 122 : c - 32 \in 1 .. m
      OBVIOUS
    <3> QED
      BY <2>3, <3>2, <3>3
  <2>4. CASE s[i] = Backslash
    <3>1. t[i] = Slash
      BY <2>2, <2>4 DEF Backslash
    <3> QED
      BY <3>1 DEF Slash
  <2>5. CASE s[i] \notin 97 .. 122 /\ s[i] # Backslash
    <3>1. t[i] = s[i]
      BY <2>2, <2>5
    <3> QED
      BY <2>1, <3>1
  <2> QED
    BY <2>3, <2>4, <2>5
<1> HIDE DEF t
<1>4. [i \in 1 .. Len(s) |-> t[i]] \in [1 .. Len(s) -> 1 .. m]
  BY <1>3
<1>5. [1 .. Len(s) -> 1 .. m] \subseteq Seq(1 .. m)
  <2> DEFINE n == Len(s)
  <2>1. n \in Nat
    BY <1>1
  <2> HIDE DEF n
  <2>2. [1 .. n -> 1 .. m] \subseteq Seq(1 .. m)
    BY <2>1
  <2> QED
    BY <2>2 DEF n
<1> QED
  BY <1>2, <1>4, <1>5 DEF t

LEMMA FormattedIsString ==
    ASSUME NEW s
    PROVE  /\ s \in Strings => FormatInputString(s) \in Strings
           /\ s \in Typed => FormatInputString(s) \in Typed
<1> DEFINE m == 127
           n == 255
<1>1. m \in 127 .. 255 /\ n \in 127 .. 255
  OBVIOUS
<1> HIDE DEF m, n
<1>2. /\ s \in Seq(1 .. n) => FormatInputString(s) \in Seq(1 .. n)
      /\ s \in Seq(1 .. m) => FormatInputString(s) \in Seq(1 .. m)
  BY <1>1, FormattedStays
<1> QED
  BY <1>2 DEF Strings, Typed, m, n

\* A path, from the root or from the current directory, ends at a place.
LEMMA PathEndsAtPlace ==
    ASSUME Located, NEW path \in Strings
    PROVE  GetNestedDirectoryEntry(path) \in Places
<1> DEFINE parts == PathParts(path)
           base == StartDirectory(path)
<1>1. base \in Places
  BY RootIsPlace DEF StartDirectory, Located
<1>2. Len(path) \in Nat
  BY DEF Strings
<1>3. Start(path) \in 0 .. Len(path)
  BY <1>2 DEF Start, CharAt, Slash, Nul
<1>4. parts \in Seq(Strings)
  <2> DEFINE skipped == 1 .. 255
  <2>1. Slash \in skipped /\ Nul \notin skipped
    BY DEF Slash, Nul
  <2> HIDE DEF skipped
  <2>2. Cut(path, Start(path), Slash, 19, skipped) \in Seq(Strings)
    BY <1>3, <2>1, CutParts
  <2> QED
    BY <2>2 DEF PathParts, skipped
<1>5. GetNestedDirectoryEntry(path) = FoldLeft(Descend, base, parts)
  BY DEF GetNestedDirectoryEntry
<1> HIDE DEF parts, base
<1>6. Len(parts) \in Nat /\ DOMAIN parts = 1 .. Len(parts)
  BY <1>4
<1>7. \E F \in [0 .. Len(parts) -> Places] :
          /\ F[0] = base
          /\ \A i \in 1 .. Len(parts) : F[i] = Descend(F[i - 1], parts[i])
          /\ FoldLeft(Descend, base, parts) = F[Len(parts)]
  BY <1>1, <1>6, PathFollowed DEF Located
<1> QED
  BY <1>5, <1>6, <1>7

LEMMA PlacesKept == ASSUME disk' = disk PROVE Places' = Places
BY DEF Places

LEMMA LocatedKept == Located /\ [Next]_vars => Located'
<1> SUFFICES ASSUME Located, [Next]_vars PROVE Located'
  OBVIOUS
<1>1. ASSUME UNCHANGED <<disk, currentDirectory>> PROVE Located'
  BY <1>1, PlacesKept DEF Located
<1>2. CASE UNCHANGED vars
  BY <1>1, <1>2 DEF vars, directoryVars
<1>3. ASSUME NEW line \in Lines, ReactToCommand(line), cd(arguments') PROVE Located'
  <2>1. arguments' \in Strings
    BY <1>3, ArgumentsAreString DEF ReactToCommand
  <2> DEFINE path == FormatInputString(arguments')
             found == GetNestedDirectoryEntry(path)
  <2>2. found \in Places
    BY <2>1, FormattedIsString, PathEndsAtPlace
  <2>3. FsFat12_ChangeDirectory(path)
    BY <1>3 DEF cd
  <2> HIDE DEF path
  <2>4. disk' = disk /\ (currentDirectory' = currentDirectory
                         \/ (currentDirectory' = found /\ found # invalidDirectory))
    BY <2>3 DEF FsFat12_ChangeDirectory
  <2> HIDE DEF found
  <2> QED
    BY <2>2, <2>4, PlacesKept DEF Located
<1>4. ASSUME NEW line \in Lines, ReactToCommand(line), ~cd(arguments') PROVE Located'
  BY <1>1, <1>4 DEF ReactToCommand, exit, prompt, readdisk, ls, OpenCommand, ShowCommand, directoryVars
<1>5. CASE ShowPrompt
  BY <1>1, <1>5 DEF ShowPrompt, directoryVars
<1> QED
  BY <1>2, <1>3, <1>4, <1>5 DEF Next

\* Two entries with one name are the same, unless they are deleted; the search ends at
\* the first that has the name of the text.
LEMMA NameFound ==
    ASSUME disk \in Disks, NEW c \in DOMAIN disk.entries, NEW k \in 1 .. Len(disk.entries[c]),
           ~DELETED_FILENAME(disk.entries[c][k]),
           NEW text, Names11(text, disk.entries[c][k])
    PROVE  GetDirectoryEntryWithName(text, c) = disk.entries[c][k]
<1> DEFINE entries == disk.entries[c]
<1>1. \A i \in 1 .. Len(entries) :
          /\ Names11(NameText(entries[i]), entries[i])
          /\ entries[i].name \in Seq(0 .. 255) /\ Len(entries[i].name) = 8
          /\ entries[i].ext \in Seq(0 .. 255) /\ Len(entries[i].ext) = 3
  BY EntryNamed
<1>2. ExtractFileName(text) = entries[k].name /\ ExtractFileExtension(text) = entries[k].ext
  BY DEF Names11
<1>3. Len(entries) \in Nat
  BY DiskFacts
<1>0. ASSUME NEW i \in 1 .. Len(entries),
             entries[k].name = entries[i].name, entries[k].ext = entries[i].ext
      PROVE  i = k
  BY <1>0, DirectoryAssumption
<1>9. \A j \in Nat : j < Len(entries) => GetDirectoryEntryByIndex(j, c) = entries[j + 1]
  BY EntryByIndex DEF Entries
<1> DEFINE n == Len(entries)
<1>14. /\ k \in 1 .. n /\ n \in Nat
       /\ \A i \in 1 .. n : /\ entries[i].name \in Seq(0 .. 255) /\ Len(entries[i].name) = 8
                            /\ entries[i].ext \in Seq(0 .. 255) /\ Len(entries[i].ext) = 3
       /\ \A i \in 1 .. n : entries[k].name = entries[i].name /\ entries[k].ext = entries[i].ext => i = k
       /\ \A j \in Nat : j < n => GetDirectoryEntryByIndex(j, c) = entries[j + 1]
  BY <1>0, <1>1, <1>3, <1>9
<1> HIDE DEF entries, n
<1>4. ASSUME NEW i \in 1 .. n
      PROVE  Same(text, entries[i]) <=> entries[k].name = entries[i].name /\ entries[k].ext = entries[i].ext
  <2>1. strncmp(entries[k].name, entries[i].name, 8) = 0 <=> entries[k].name = entries[i].name
    <3> DEFINE v == entries[k].name
               w == entries[i].name
               size == 8
    <3>1. /\ size \in Nat \ {0} /\ v \in Seq(0 .. 255) /\ Len(v) = size
          /\ w \in Seq(0 .. 255) /\ Len(w) = size
      BY <1>14
    <3> HIDE DEF v, w, size
    <3>2. strncmp(v, w, size) = 0 <=> v = w
      BY <3>1, Compared
    <3> QED
      BY <3>2 DEF v, w, size
  <2>2. strncmp(entries[k].ext, entries[i].ext, 3) = 0 <=> entries[k].ext = entries[i].ext
    <3> DEFINE v == entries[k].ext
               w == entries[i].ext
               size == 3
    <3>1. /\ size \in Nat \ {0} /\ v \in Seq(0 .. 255) /\ Len(v) = size
          /\ w \in Seq(0 .. 255) /\ Len(w) = size
      BY <1>14
    <3> HIDE DEF v, w, size
    <3>2. strncmp(v, w, size) = 0 <=> v = w
      BY <3>1, Compared
    <3> QED
      BY <3>2 DEF v, w, size
  <2> QED
    BY <1>2, <2>1, <2>2 DEF Same
<1>5. ASSUME NEW i \in 1 .. n, Same(text, entries[i]) PROVE i = k
  <2>1. entries[k].name = entries[i].name /\ entries[k].ext = entries[i].ext
    BY <1>4, <1>5
  <2> QED
    BY <1>14, <2>1
<1>6. \A i \in 1 .. n : entries[i] # invalidDirectory
  <2>1. Len(invalidDirectory.name) = 0
    BY DEF invalidDirectory
  <2>2. ASSUME NEW i \in 1 .. n, entries[i] = invalidDirectory PROVE FALSE
    <3>1. Len(entries[i].name) = 8
      BY <1>14
    <3>2. Len(entries[i].name) = 0
      BY <2>1, <2>2
    <3>3. 8 # 0
      OBVIOUS
    <3> QED
      BY <3>1, <3>2, <3>3
  <2> QED
    BY <2>2
<1>7. ExtractFileName(text) # NULL /\ ExtractFileExtension(text) # NULL
  <2>1. Len(NULL) = 0
    BY DEF NULL
  <2>2. Len(ExtractFileName(text)) = 8 /\ Len(ExtractFileExtension(text)) = 3
    BY <1>2, <1>14
  <2>3. 8 # 0 /\ 3 # 0
    OBVIOUS
  <2> QED
    BY <2>1, <2>2, <2>3
<1>8. PICK i \in Nat :
          /\ GetDirectoryEntryWithName(text, c) = GetDirectoryEntryByIndex(i, c)
          /\ \/ GetDirectoryEntryByIndex(i, c) = invalidDirectory
             \/ Same(text, GetDirectoryEntryByIndex(i, c))
          /\ \A j \in 0 .. (i - 1) : ~Same(text, GetDirectoryEntryByIndex(j, c))
  BY <1>7, EntryFound
<1>10. i <= k - 1
  <2> SUFFICES ASSUME ~(i <= k - 1) PROVE FALSE
    OBVIOUS
  <2>1. k - 1 \in 0 .. (i - 1) /\ k - 1 < n /\ k - 1 + 1 = k /\ k - 1 \in Nat
    BY <1>14
  <2>2. GetDirectoryEntryByIndex(k - 1, c) = entries[k]
    BY <1>14, <2>1
  <2>3. Same(text, entries[k])
    BY <1>4, <1>14
  <2> QED
    BY <1>8, <2>1, <2>2, <2>3
<1>11. i + 1 \in 1 .. n /\ GetDirectoryEntryByIndex(i, c) = entries[i + 1]
  <2>1. i < n /\ i + 1 \in 1 .. n
    BY <1>10, <1>14
  <2> QED
    BY <1>14, <2>1
<1>12. Same(text, entries[i + 1])
  BY <1>6, <1>8, <1>11
<1>13. i + 1 = k
  BY <1>5, <1>11, <1>12
<1> QED
  BY <1>8, <1>11, <1>13 DEF entries

\* What ls shows of the current directory, typed as its name is written or as it is
\* shown, with the spaces of its extension, is found: the name and the extension cut out
\* of the text are those on the disk, at every length (command.c, fat12_functions.c:
\* ExtractFileName, ExtractFileExtension), and the search that compares them finds no
\* other entry first.  Only the text shown for a file without an extension is refused.
THEOREM ShownIsFound == Spec => []ListedEntriesOpen
<1>1. Init => Located
  BY RootIsPlace DEF Init, DirectoryInit, Located
<1>2. Located => ListedEntriesOpen
  <2> DEFINE c == currentDirectory.cluster
  <2> SUFFICES ASSUME Located, NEW entry \in ToSet(Entries(c)), ~DELETED_FILENAME(entry)
               PROVE  /\ Opened(NameText(entry)) = entry
                      /\ Opened(ShownText(entry)) = IF HasNoExtension(entry) THEN invalidDirectory
                                                    ELSE entry
    BY DEF ListedEntriesOpen
  <2>1. c \in DOMAIN disk.entries
    BY PlaceFacts DEF Located
  <2>2. Entries(c) = disk.entries[c]
    BY DEF Entries
  <2> HIDE DEF c
  <2>3. disk.entries[c] \in Seq(EntriesOf(disk))
    BY <2>1, DiskFacts DEF Located
  <2>4. PICK k \in 1 .. Len(disk.entries[c]) : entry = disk.entries[c][k]
    BY <2>2, <2>3 DEF ToSet
  <2>5. ASSUME NEW text, OneName(text)
        PROVE  Opened(text) = GetDirectoryEntryWithName(text, c)
    <3>1. GetNestedDirectoryEntry(text) = Descend(currentDirectory, text)
      BY <2>5, OneStep DEF OneName, Located
    <3>2. currentDirectory # invalidDirectory
      BY DEF Located
    <3>3. FormatInputString(text) = text
      BY <2>5 DEF OneName
    <3> QED
      BY <3>1, <3>2, <3>3 DEF Opened, Descend, c
  <2>6. ASSUME NEW text, Names11(text, entry) PROVE Opened(text) = entry
    <3>1. GetDirectoryEntryWithName(text, c) = entry
      BY <2>1, <2>4, <2>6, NameFound DEF Located
    <3> QED
      BY <2>5, <2>6, <3>1 DEF Names11
  <2>7. ASSUME NEW text, Refused(text) PROVE Opened(text) = invalidDirectory
    <3>1. GetDirectoryEntryWithName(text, c) = invalidDirectory
      BY <2>7 DEF Refused, GetDirectoryEntryWithName
    <3> QED
      BY <2>5, <2>7, <3>1 DEF Refused
  <2>8. Names11(NameText(entry), entry)
    BY <2>1, <2>4, EntryNamed DEF Located
  <2>9. IF HasNoExtension(entry) THEN Refused(ShownText(entry))
        ELSE Names11(ShownText(entry), entry)
    BY <2>1, <2>4, EntryShown DEF Located
  <2> QED
    BY <2>6, <2>7, <2>8, <2>9
<1> QED
  BY <1>1, <1>2, LocatedKept, PTL DEF Spec

-----------------------------------------------------------------------------
(* The parts of a path, cut in two ways.                                   *)

\* Text without a slash.
Plain == {p \in Typed : \A i \in Nat : CharAt(p, i) # Slash}

\* The part from an index on has no slash.
LEMMA PartIsPlain ==
    ASSUME NEW s \in Typed, NEW i \in 0 .. Len(s), i < Len(s), NEW size \in Nat \ {0}
    PROVE  Span(s, i, PartEnd(s, i, Slash, size)) \in Plain
<1> DEFINE stops == {Nul, Slash}
           first == FirstIndex(s, i, stops)
           end == PartEnd(s, i, Slash, size)
           p == Span(s, i, end)
<1>1. Len(s) \in Nat /\ s \in Strings /\ Nul \in stops
  BY TypedAreStrings DEF Typed
<1>2. /\ first \in i .. Len(s) /\ \A j \in i .. (first - 1) : CharAt(s, j) \notin stops
  <2> HIDE DEF stops
  <2> QED
    BY <1>1, FirstIndexFound
<1>3. end = Min({i + size, first})
  BY DEF PartEnd
<1> HIDE DEF first, end
<1>4. end \in {i + size, first} /\ end <= first
  <2>1. {i + size, first} \in SUBSET Nat
    BY <1>1, <1>2
  <2> QED
    BY <1>3, <2>1, MinIsMember
<1>5. end \in i .. Len(s)
  BY <1>1, <1>2, <1>4
<1>6. p \in Typed /\ Len(p) = end - i /\ \A k \in 1 .. (end - i) : p[k] = s[i + k]
  <2> DEFINE S == 1 .. 127
  <2>1. s \in Seq(S) /\ i \in Nat
    BY DEF Typed
  <2> HIDE DEF S
  <2>2. p \in Seq(S) /\ Len(p) = end - i /\ \A k \in 1 .. (end - i) : p[k] = s[i + k]
    BY <1>5, <2>1, SpanOfString
  <2> QED
    BY <2>2 DEF S, Typed
<1> HIDE DEF p
<1>7. ASSUME NEW j \in Nat PROVE CharAt(p, j) # Slash
  <2>1. CASE j < Len(p)
    <3>1. j + 1 \in 1 .. (end - i) /\ i + j \in i .. (first - 1) /\ i + j < Len(s)
          /\ i + (j + 1) = i + j + 1
      BY <1>1, <1>2, <1>4, <1>5, <1>6, <2>1
    <3>2. CharAt(p, j) = s[i + j + 1]
      BY <1>6, <2>1, <3>1 DEF CharAt
    <3>3. CharAt(s, i + j) = s[i + j + 1]
      BY <3>1 DEF CharAt
    <3> QED
      BY <1>2, <3>1, <3>2, <3>3
  <2>2. CASE ~(j < Len(p))
    BY <2>2 DEF CharAt, Nul, Slash
  <2> QED
    BY <2>1, <2>2
<1> QED
  BY <1>6, <1>7 DEF Plain, p, end

\* Two cuts agree if the parts of the one fit the size of the other: the slash that ends a
\* part is skipped by both.
Fits(part, size) == Len(part) <= size /\ Len(part) <= 12

AgreeFrom(s, i, size) ==
    LET parts == Cut(s, i, Slash, 19, 1 .. 255)
    IN  (\A k \in DOMAIN parts : Fits(parts[k], size)) => Cut(s, i, Slash, size, {Slash}) = parts

LEMMA CutsAgree ==
    ASSUME NEW s \in Strings, NEW size \in Nat \ {0}
    PROVE  \A i \in 0 .. Len(s) : AgreeFrom(s, i, size)
<1> DEFINE N == Len(s)
           any == 1 .. 255
           long == 19
           slash == {Slash}
           A(i) == Cut(s, i, Slash, long, any)
           B(i) == Cut(s, i, Slash, size, slash)
           Agree(i) == (\A k \in DOMAIN A(i) : Fits(A(i)[k], size)) => B(i) = A(i)
           S == {m \in Nat : \A i \in 0 .. N : i >= N - m => Agree(i)}
<1>1. /\ N \in Nat /\ Slash \in any /\ Nul \notin any /\ Slash \in slash /\ Nul \notin slash
      /\ long \in Nat \ {0} /\ long = 19
  BY DEF Strings, Slash, Nul
<1>0. \A i \in 0 .. N : i \in Nat /\ (CharAt(s, i) = Nul <=> i = N)
  <2>1. \A i \in Nat : CharAt(s, i) = Nul <=> i >= N
    BY StringCharacters
  <2> HIDE DEF N
  <2>2. \A i \in 0 .. N : i \in Nat /\ (i >= N <=> i = N)
    BY <1>1
  <2> QED
    BY <2>1, <2>2
<1>2. \A i \in 0 .. N : A(i) \in Seq(Strings)
  <2> HIDE DEF any, long
  <2>1. \A i \in 0 .. Len(s) : Cut(s, i, Slash, long, any) \in Seq(Strings)
    BY <1>1, CutParts
  <2> QED
    BY <2>1
<1>3. ASSUME NEW i \in 0 .. N, i = N PROVE A(i) = <<>> /\ B(i) = <<>>
  <2>1. CharAt(s, i) = Nul
    BY <1>0, <1>3
  <2> HIDE DEF any, long, slash, N
  <2>2. Unfolds(s, i, Slash, long, any) /\ Unfolds(s, i, Slash, size, slash)
    <3>1. i \in 0 .. Len(s)
      BY DEF N
    <3> QED
      BY <1>1, <3>1, CutUnfolds
  <2> QED
    BY <2>1, <2>2 DEF Unfolds
<1>4. ASSUME NEW i \in 0 .. N, i < N, Fits(Span(s, i, PartEnd(s, i, Slash, long)), size)
      PROVE  \E h \in Strings : \E j \in (i + 1) .. N :
                Fits(h, size) /\ A(i) = <<h>> \o A(j) /\ B(i) = <<h>> \o B(j)
  <2> DEFINE first == FirstIndex(s, i, {Nul, Slash})
             end == PartEnd(s, i, Slash, long)
  <2>1. i \in Nat /\ i < Len(s) /\ CharAt(s, i) # Nul
    BY <1>0, <1>4
  <2>2. end \in i .. Len(s) /\ AfterPart(s, i, Slash, long, any) \in (i + 1) .. Len(s)
    <3> HIDE DEF any, long
    <3> QED
      BY <1>1, <2>1, PartTaken
  <2>3. first \in i .. Len(s) /\ CharAt(s, first) \in {Nul, Slash}
    <3> DEFINE stops == {Nul, Slash}
    <3>1. Nul \in stops
      OBVIOUS
    <3> HIDE DEF stops
    <3>2. /\ FirstIndex(s, i, stops) \in i .. Len(s)
          /\ CharAt(s, FirstIndex(s, i, stops)) \in stops
      BY <1>1, <3>1, FirstIndexFound
    <3> QED
      BY <3>2 DEF stops
  <2>4. end = Min({i + long, first}) /\ PartEnd(s, i, Slash, size) = Min({i + size, first})
    BY DEF PartEnd
  <2> HIDE DEF first
  <2>5. /\ end \in {i + long, first}
        /\ PartEnd(s, i, Slash, size) \in {i + size, first}
        /\ PartEnd(s, i, Slash, size) <= i + size /\ PartEnd(s, i, Slash, size) <= first
    <3>1. {i + long, first} \in SUBSET Nat /\ {i + size, first} \in SUBSET Nat
      BY <1>1, <2>1, <2>3
    <3> HIDE DEF long
    <3> QED
      BY <2>4, <3>1, MinIsMember
  <2>6. Span(s, i, end) \in Strings /\ Len(Span(s, i, end)) = end - i
    <3> HIDE DEF end
    <3> QED
      BY <2>1, <2>2, SpanOfString DEF Strings
  <2>13. Fits(Span(s, i, end), size)
    BY <1>4
  <2>7. end - i <= size /\ end - i <= 12
    BY <2>6, <2>13 DEF Fits
  <2> HIDE DEF end
  <2>8. end = first
    BY <1>1, <2>1, <2>3, <2>5, <2>7
  <2>9. PartEnd(s, i, Slash, size) = end
    <3> DEFINE other == PartEnd(s, i, Slash, size)
    <3>1. other \in {i + size, first} /\ other <= first /\ first \in Nat /\ i \in Nat /\ first - i <= size
      BY <1>1, <2>1, <2>3, <2>5, <2>7, <2>8
    <3> HIDE DEF other
    <3>2. other = first
      BY <3>1
    <3> QED
      BY <2>8, <3>2 DEF other
  <2>10. AfterPart(s, i, Slash, size, slash) = AfterPart(s, i, Slash, long, any)
    <3>1. CharAt(s, end) \in any <=> CharAt(s, end) \in slash
      <4> HIDE DEF any
      <4> QED
        BY <1>1, <2>3, <2>8
    <3> HIDE DEF any, slash
    <3> QED
      BY <2>9, <3>1 DEF AfterPart, end
  <2>11. Unfolds(s, i, Slash, long, any) /\ Unfolds(s, i, Slash, size, slash)
    <3> HIDE DEF any, slash, long
    <3> QED
      BY <1>1, CutUnfolds
  <2>12. /\ A(i) = <<Span(s, i, end)>> \o A(AfterPart(s, i, Slash, long, any))
         /\ B(i) = <<Span(s, i, end)>> \o B(AfterPart(s, i, Slash, long, any))
    <3> HIDE DEF any, slash, long
    <3> QED
      BY <2>1, <2>9, <2>10, <2>11 DEF Unfolds, end
  <2> HIDE DEF A, B, any, slash, long
  <2> QED
    BY <2>2, <2>6, <2>12, <2>13
<1>5. ASSUME NEW i \in 0 .. N, i < N
      PROVE  Len(A(i)) > 0 /\ A(i)[1] = Span(s, i, PartEnd(s, i, Slash, long))
  <2>1. i \in Nat /\ i < Len(s) /\ CharAt(s, i) # Nul
    BY <1>0, <1>5
  <2> DEFINE h == Span(s, i, PartEnd(s, i, Slash, long))
             j == AfterPart(s, i, Slash, long, any)
  <2>2. A(i) = <<h>> \o A(j) /\ j \in (i + 1) .. Len(s) /\ h \in Strings
    <3> HIDE DEF any, long
    <3>1. Unfolds(s, i, Slash, long, any)
      BY <1>1, CutUnfolds
    <3>2. j \in (i + 1) .. Len(s) /\ PartEnd(s, i, Slash, long) \in i .. Len(s)
      BY <1>1, <2>1, PartTaken
    <3>3. h \in Strings
      BY <2>1, <3>2, SpanOfString DEF Strings
    <3> QED
      BY <2>1, <3>1, <3>2, <3>3 DEF Unfolds
  <2> HIDE DEF h, j
  <2>3. A(j) \in Seq(Strings)
    BY <1>1, <1>2, <2>2
  <2> HIDE DEF A
  <2>4. <<h>> \in Seq(Strings) /\ Len(<<h>>) = 1 /\ <<h>>[1] = h
    BY <2>2
  <2>5. Len(A(i)) = 1 + Len(A(j)) /\ A(i)[1] = h /\ Len(A(j)) \in Nat
    BY <2>2, <2>3, <2>4, ConcatProperties
  <2> QED
    BY <2>5 DEF h
<1> HIDE DEF A, B
<1>6. 0 \in S
  <2> SUFFICES ASSUME NEW i \in 0 .. N, i >= N - 0 PROVE Agree(i)
    OBVIOUS
  <2>1. i = N
    BY <1>1
  <2> QED
    BY <1>3, <2>1
<1>7. ASSUME NEW m \in S PROVE m + 1 \in S
  <2> SUFFICES ASSUME NEW i \in 0 .. N, i >= N - (m + 1) PROVE Agree(i)
    OBVIOUS
  <2>1. CASE i = N
    BY <1>3, <2>1
  <2>2. CASE i < N
    <3> SUFFICES ASSUME \A k \in DOMAIN A(i) : Fits(A(i)[k], size) PROVE B(i) = A(i)
      OBVIOUS
    <3>1. A(i) \in Seq(Strings) /\ Len(A(i)) > 0 /\ 1 \in DOMAIN A(i)
      BY <1>2, <1>5, <2>2
    <3>2. PICK h \in Strings, j \in (i + 1) .. N :
              Fits(h, size) /\ A(i) = <<h>> \o A(j) /\ B(i) = <<h>> \o B(j)
      BY <1>4, <1>5, <2>2, <3>1
    <3>3. Agree(j) /\ A(j) \in Seq(Strings) /\ <<h>> \in Seq(Strings) /\ Len(<<h>>) = 1
      <4>1. j \in 0 .. N /\ j >= N - m
        <5> HIDE DEF N
        <5> QED
          BY <1>1
      <4> QED
        BY <1>2, <4>1
    <3>4. ASSUME NEW k \in DOMAIN A(j) PROVE Fits(A(j)[k], size)
      <4>1. /\ Len(A(j)) \in Nat /\ k \in 1 .. Len(A(j))
        BY <3>3
      <4>2. /\ Len(A(i)) = 1 + Len(A(j))
            /\ \A x \in 1 .. 1 + Len(A(j)) : A(i)[x] = IF x <= 1 THEN <<h>>[x] ELSE A(j)[x - 1]
        BY <3>2, <3>3, ConcatProperties
      <4>3. k + 1 \in 1 .. Len(A(i)) /\ k + 1 \in 1 .. 1 + Len(A(j)) /\ ~(k + 1 <= 1) /\ k + 1 - 1 = k
        BY <4>1, <4>2
      <4>4. A(i)[k + 1] = A(j)[k] /\ k + 1 \in DOMAIN A(i)
        BY <3>1, <4>2, <4>3
      <4> QED
        BY <4>4
    <3> QED
      BY <3>2, <3>3, <3>4
  <2> QED
    BY <1>1, <2>1, <2>2
<1>8. S = Nat
  <2> HIDE DEF Agree
  <2>1. S \in SUBSET Nat
    OBVIOUS
  <2> HIDE DEF S
  <2> QED
    BY <1>6, <1>7, <2>1, Induction
<1>9. ASSUME NEW i \in 0 .. N PROVE Agree(i)
  <2> HIDE DEF Agree
  <2>1. N \in S
    BY <1>1, <1>8
  <2>2. \A x \in 0 .. N : x >= N - N => Agree(x)
    BY <2>1
  <2> QED
    BY <1>1, <2>2
<1> QED
  BY <1>9 DEF AgreeFrom, A, B

-----------------------------------------------------------------------------
(* What a part of a path that is found looks like.                         *)

NameEnds == {Nul, Slash, Dot, Space}

\* The characters of the name: "." or "..", or up to the first that ends a name.
NameCut(p, k) ==
    /\ k \in 0 .. 8 /\ k <= Len(p) /\ ExtractFileName(p) = Padded(Span(p, 0, k), 8)
    /\ CharAt(p, 0) = Dot => CharAt(p, k) \in {Nul, Slash} /\ k = IF CharAt(p, 1) = Dot THEN 2 ELSE 1
    /\ CharAt(p, 0) # Dot => /\ CharAt(p, k) \in NameEnds
                             /\ \A j \in 0 .. (k - 1) : CharAt(p, j) \notin NameEnds

LEMMA NameIsCut ==
    ASSUME NEW p \in Strings, ExtractFileName(p) # NULL
    PROVE  \E k : NameCut(p, k)
<1> DEFINE length == IF CharAt(p, 0) # Dot THEN FirstIndex(p, 0, NameEnds)
                     ELSE IF CharAt(p, 1) = Dot THEN 2 ELSE 1
<1>1. Len(p) \in Nat /\ Nul \in NameEnds /\ 0 \in 0 .. Len(p)
  BY DEF Strings, NameEnds
<1>2. /\ ~(length >= 9 \/ (CharAt(p, 0) = Dot /\ CharAt(p, length) \notin {Nul, Slash}))
      /\ ExtractFileName(p) = Padded(Span(p, 0, length), 8)
  BY DEF ExtractFileName, NameEnds
<1>3. CASE CharAt(p, 0) # Dot
  <2>1. length = FirstIndex(p, 0, NameEnds)
    BY <1>3
  <2>2. /\ length \in 0 .. Len(p) /\ CharAt(p, length) \in NameEnds
        /\ \A j \in 0 .. (length - 1) : CharAt(p, j) \notin NameEnds
    BY <1>1, <2>1, FirstIndexFound
  <2> HIDE DEF length
  <2>3. length \in 0 .. 8 /\ length <= Len(p)
    BY <1>1, <1>2, <2>2
  <2> QED
    BY <1>2, <1>3, <2>2, <2>3 DEF NameCut
<1>4. CASE CharAt(p, 0) = Dot
  <2>1. length = IF CharAt(p, 1) = Dot THEN 2 ELSE 1
    BY <1>4
  <2>2. CharAt(p, length) \in {Nul, Slash}
    BY <1>2, <1>4
  <2>3. 0 < Len(p) /\ (CharAt(p, 1) = Dot => 1 < Len(p))
    BY <1>4 DEF CharAt, Nul, Dot
  <2> HIDE DEF length
  <2>4. length \in 0 .. 8 /\ length <= Len(p)
    BY <1>1, <2>1, <2>3
  <2> QED
    BY <1>2, <1>4, <2>1, <2>2, <2>4 DEF NameCut
<1> QED
  BY <1>3, <1>4

\* The dots in front, then no other dot up to the one before the extension, or the end.
ExtensionCut(p, d, end) ==
    /\ d \in 0 .. Len(p) /\ \A j \in 0 .. (d - 1) : CharAt(p, j) = Dot
    /\ CharAt(p, d) # Dot
    /\ end \in d .. Len(p) /\ end <= 8 /\ CharAt(p, end) \in {Nul, Slash, Dot}
    /\ \A j \in d .. (end - 1) : CharAt(p, j) # Dot
    /\ \/ CharAt(p, end) # Dot /\ ExtractFileExtension(p) = Padded(<<>>, 3)
       \/ \E m \in 1 .. 3 :
             /\ CharAt(p, end) = Dot /\ end + 1 + m <= Len(p) /\ CharAt(p, end + 1) # Space
             /\ CharAt(p, end + 1 + m) \in {Nul, Slash}
             /\ ExtractFileExtension(p) = Padded(Span(p, end + 1, end + 1 + m), 3)

LEMMA ExtensionIsCut ==
    ASSUME NEW p \in Strings, ExtractFileExtension(p) # NULL
    PROVE  \E d, end : ExtensionCut(p, d, end)
<1> DEFINE Leads(i) == CharAt(p, i) # Dot /\ \A j \in 0 .. (i - 1) : CharAt(p, j) = Dot
           d == CHOOSE i \in 0 .. Len(p) : Leads(i)
           stops == {Nul, Slash, Dot}
           end == FirstIndex(p, d, stops)
           start == end + 1
           ends == {Nul, Slash}
           m == FirstIndex(p, start, ends) - start
<1>1. Len(p) \in Nat /\ Nul \in stops /\ Nul \in ends
  BY DEF Strings
<1>2. /\ ~(end >= 9)
      /\ CharAt(p, end) # Dot => ExtractFileExtension(p) = Padded(<<>>, 3)
      /\ CharAt(p, end) = Dot =>
            /\ ~(CharAt(p, start) \in {Nul, Slash, Space} \/ m >= 4)
            /\ ExtractFileExtension(p) = Padded(Span(p, start, start + m), 3)
  BY DEF ExtractFileExtension
<1>3. \E i \in 0 .. Len(p) : Leads(i)
  <2> DEFINE Q == {i \in 0 .. Len(p) : CharAt(p, i) # Dot}
  <2>1. Len(p) \in Q /\ Q \in SUBSET Nat
    BY <1>1 DEF CharAt, Nul, Dot
  <2>2. PICK i \in Q : \A n \in Q : i <= n
    BY <2>1, MinIsMember
  <2>3. ASSUME NEW j \in 0 .. (i - 1), CharAt(p, j) # Dot PROVE FALSE
    <3>1. i \in 0 .. Len(p) /\ j \in 0 .. Len(p) /\ ~(i <= j)
      BY <1>1, <2>2
    <3>2. j \in Q
      BY <2>3, <3>1
    <3> HIDE DEF Q
    <3> QED
      BY <2>2, <3>1, <3>2
  <2> QED
    BY <2>2, <2>3
<1>4. d \in 0 .. Len(p) /\ Leads(d)
  <2> HIDE DEF Leads
  <2> QED
    BY <1>3
<1> HIDE DEF d
<1>5. /\ end \in d .. Len(p) /\ CharAt(p, end) \in stops
      /\ \A j \in d .. (end - 1) : CharAt(p, j) \notin stops
  <2> HIDE DEF stops
  <2> QED
    BY <1>1, <1>4, FirstIndexFound
<1> HIDE DEF end
<1>6. end <= 8
  BY <1>1, <1>2, <1>4, <1>5
<1>7. CASE CharAt(p, end) # Dot
  BY <1>2, <1>4, <1>5, <1>6, <1>7 DEF ExtensionCut
<1>8. CASE CharAt(p, end) = Dot
  <2>1. end < Len(p)
    BY <1>1, <1>5, <1>8 DEF CharAt, Nul, Dot
  <2>2. start \in 0 .. Len(p)
    BY <1>1, <1>4, <1>5, <2>1
  <2> DEFINE last == FirstIndex(p, start, ends)
  <2>3. last \in start .. Len(p) /\ CharAt(p, last) \in ends
    <3> HIDE DEF start, ends
    <3> QED
      BY <1>1, <2>2, FirstIndexFound
  <2>4. CharAt(p, start) \notin ends /\ CharAt(p, start) # Space /\ ~(m >= 4)
    BY <1>2, <1>8
  <2> HIDE DEF last
  <2>5. last # start
    BY <2>3, <2>4
  <2>6. m = last - start
    BY DEF last
  <2> HIDE DEF m
  <2>7. m \in 1 .. 3 /\ start + m <= Len(p) /\ CharAt(p, start + m) \in ends
    BY <1>1, <2>2, <2>3, <2>4, <2>5, <2>6
  <2>8. ExtractFileExtension(p) = Padded(Span(p, start, start + m), 3)
    BY <1>2, <1>8 DEF m
  <2> QED
    BY <1>4, <1>5, <1>6, <1>8, <2>4, <2>7, <2>8 DEF ExtensionCut
<1> QED
  BY <1>7, <1>8

\* What is read back out of a string that has been padded: up to the first space.
LEMMA PaddedUnpadded ==
    ASSUME NEW p \in Strings, NEW size \in Nat, Len(p) <= size, NEW k \in 0 .. Len(p),
           \A i \in 1 .. k : p[i] # Space, k = Len(p) \/ p[k + 1] = Space
    PROVE  /\ Unpadded(Padded(p, size)) = Span(p, 0, k)
           /\ Len(Padded(p, size)) = size
           /\ \A i \in 1 .. size : Padded(p, size)[i] = IF i <= Len(p) THEN p[i] ELSE Space
<1> DEFINE S == 1 .. 255
           s == Padded(p, size)
           stops == {Nul, Space}
<1>1. /\ Space \in S /\ size \in Nat /\ p \in Seq(S) /\ Len(p) <= size /\ Len(p) \in Nat
  BY DEF Space, Strings
<1>2. /\ s \in Strings /\ Len(s) = size
      /\ \A i \in 1 .. size : s[i] = IF i <= Len(p) THEN p[i] ELSE Space
  <2> HIDE DEF S
  <2>1. /\ s \in Seq(S) /\ Len(s) = size
        /\ \A i \in 1 .. size : s[i] = IF i <= Len(p) THEN p[i] ELSE Space
    BY <1>1, PaddedString
  <2> QED
    BY <2>1 DEF S, Strings
<1> HIDE DEF s
<1>3. CharAt(s, k) \in stops
  <2>1. CASE k < size
    <3>1. k + 1 \in 1 .. size /\ (k + 1 <= Len(p) => k # Len(p))
      BY <1>1, <2>1
    <3>2. s[k + 1] = Space
      BY <1>2, <3>1
    <3> QED
      BY <1>2, <2>1, <3>2 DEF CharAt
  <2>2. CASE ~(k < size)
    BY <1>2, <2>2 DEF CharAt
  <2> QED
    BY <2>1, <2>2
<1>4. ASSUME NEW j \in 0 .. (k - 1) PROVE CharAt(s, j) \notin stops
  <2>1. j \in Nat /\ j < Len(s) /\ j + 1 \in 1 .. k /\ j + 1 \in 1 .. size /\ j + 1 <= Len(p)
    BY <1>1, <1>2
  <2>2. CharAt(s, j) = s[j + 1] /\ CharAt(s, j) # Nul
    <3>1. s \in Strings /\ j \in Nat /\ j < Len(s)
      BY <1>2, <2>1
    <3>2. CharAt(s, j) = s[j + 1] /\ ~(j >= Len(s)) /\ (CharAt(s, j) = Nul <=> j >= Len(s))
      BY <3>1, StringCharacters
    <3> QED
      BY <3>2
  <2>3. s[j + 1] = p[j + 1] /\ p[j + 1] # Space
    BY <1>2, <2>1
  <2> QED
    BY <2>2, <2>3
<1>5. FirstIndex(s, 0, stops) = k
  <2>1. 0 \in 0 .. Len(s) /\ k \in 0 .. Len(s) /\ Nul \in stops /\ Len(s) \in Nat
    BY <1>1, <1>2
  <2> HIDE DEF stops
  <2> QED
    BY <1>3, <1>4, <2>1, FirstIndexIs
<1>6. Span(s, 0, k) \in Strings /\ Len(Span(s, 0, k)) = k /\ \A i \in 1 .. k : Span(s, 0, k)[i] = s[i]
  <2>1. k \in 0 .. Len(s) /\ s \in Seq(S)
    BY <1>1, <1>2 DEF Strings
  <2> HIDE DEF S
  <2>2. Span(s, 0, k) \in Seq(S) /\ Len(Span(s, 0, k)) = k /\ \A i \in 1 .. k : Span(s, 0, k)[i] = s[i]
    BY <2>1, SpanFromStart
  <2> QED
    BY <2>2 DEF S, Strings
<1>7. Span(p, 0, k) \in Strings /\ Len(Span(p, 0, k)) = k /\ \A i \in 1 .. k : Span(p, 0, k)[i] = p[i]
  <2> HIDE DEF S
  <2>1. Span(p, 0, k) \in Seq(S) /\ Len(Span(p, 0, k)) = k /\ \A i \in 1 .. k : Span(p, 0, k)[i] = p[i]
    BY <1>1, SpanFromStart
  <2> QED
    BY <2>1 DEF S, Strings
<1>8. Span(s, 0, k) = Span(p, 0, k)
  <2>1. \A i \in 1 .. k : i \in 1 .. size /\ i <= Len(p)
    BY <1>1
  <2>2. \A i \in 1 .. k : Span(s, 0, k)[i] = Span(p, 0, k)[i]
    BY <1>2, <1>6, <1>7, <2>1
  <2> QED
    BY <1>6, <1>7, <2>2, SeqEqual DEF Strings
<1>9. Unpadded(s) = Span(p, 0, k)
  BY <1>5, <1>8 DEF Unpadded
<1> QED
  BY <1>2, <1>9 DEF s

\* The part as a piece of 8 characters, and the name back out of the piece.
LEMMA PieceUnpadded ==
    ASSUME NEW p \in Strings, Len(p) <= 8, NEW k \in 0 .. Len(p),
           \A i \in 1 .. k : p[i] # Space, k = Len(p) \/ p[k + 1] = Space
    PROVE  /\ Unpadded(Padded(p, 8)) = Span(p, 0, k)
           /\ Len(Padded(p, 8)) = 8
           /\ \A i \in 1 .. 8 : Padded(p, 8)[i] = IF i <= Len(p) THEN p[i] ELSE Space
<1> DEFINE size == 8
<1>1. size \in Nat /\ Len(p) <= size
  OBVIOUS
<1> HIDE DEF size
<1>2. /\ Unpadded(Padded(p, size)) = Span(p, 0, k)
      /\ Len(Padded(p, size)) = size
      /\ \A i \in 1 .. size : Padded(p, size)[i] = IF i <= Len(p) THEN p[i] ELSE Space
  BY <1>1, PaddedUnpadded
<1> QED
  BY <1>2 DEF size

\* A part without an extension ends before its ninth character, and dots are in front.
LEMMA PlainEnds ==
    ASSUME NEW p \in Plain, NEW d, NEW end, ExtensionCut(p, d, end),
           ExtractFileExtension(p) = Padded(<<>>, 3)
    PROVE  end = Len(p) /\ Len(p) <= 8
<1>1. /\ p \in Strings /\ p \in Typed /\ Len(p) \in Nat /\ \A i \in Nat : CharAt(p, i) # Slash
  BY TypedAreStrings DEF Plain, Typed
<1>2. /\ d \in 0 .. Len(p) /\ end \in d .. Len(p) /\ end \in Nat /\ end <= 8
      /\ CharAt(p, end) \in {Nul, Slash, Dot}
  BY <1>1 DEF ExtensionCut
<1>3. ASSUME NEW m \in 1 .. 3, end + 1 + m <= Len(p), CharAt(p, end + 1) # Space,
             Padded(Span(p, end + 1, end + 1 + m), 3) = Padded(<<>>, 3)
      PROVE  FALSE
  <2> DEFINE S == 1 .. 255
             from == end + 1
             to == end + 1 + m
             size == 3
             q == Span(p, from, to)
  <2>1. /\ p \in Seq(S) /\ from \in Nat /\ to \in from .. Len(p) /\ Space \in S /\ size \in Nat
        /\ to - from = m /\ m <= size
    BY <1>1, <1>2, <1>3 DEF Strings, Space
  <2> HIDE DEF S, from, to, size
  <2>2. q \in Seq(S) /\ Len(q) = m /\ \A i \in 1 .. m : q[i] = p[from + i]
    BY <2>1, SpanOfString
  <2> HIDE DEF q
  <2>3. \A i \in 1 .. size : Padded(q, size)[i] = IF i <= Len(q) THEN q[i] ELSE Space
    BY <2>1, <2>2, PaddedString
  <2>4. Padded(q, size)[1] = p[from + 1]
    <3>1. 1 \in 1 .. m /\ 1 \in 1 .. size /\ 1 <= Len(q)
      BY <2>1, <2>2 DEF size
    <3> QED
      BY <2>2, <2>3, <3>1
  <2>5. CharAt(p, from) = p[from + 1]
    BY <1>1, <2>1 DEF CharAt
  <2>6. Padded(q, size)[1] = Space
    BY <1>3, BlankExtension DEF q, size, from, to
  <2> QED
    BY <1>3, <2>4, <2>5, <2>6 DEF from
<1>4. CharAt(p, end) # Dot
  BY <1>3 DEF ExtensionCut
<1>5. CharAt(p, end) = Nul
  BY <1>1, <1>2, <1>4
<1>6. end >= Len(p)
  BY <1>1, <1>2, <1>5, StringCharacters
<1> QED
  BY <1>1, <1>2, <1>6

LEMMA SpanWhole ==
    ASSUME NEW p \in Strings
    PROVE  Span(p, 0, Len(p)) = p
<1> DEFINE S == 1 .. 255
           k == Len(p)
<1>1. p \in Seq(S) /\ k \in 0 .. Len(p)
  BY DEF Strings
<1> HIDE DEF S, k
<1>2. Span(p, 0, k) \in Seq(S) /\ Len(Span(p, 0, k)) = k /\ \A i \in 1 .. k : Span(p, 0, k)[i] = p[i]
  BY <1>1, SpanFromStart
<1>3. Span(p, 0, k) = p
  BY <1>1, <1>2, SeqEqual DEF k
<1> QED
  BY <1>3 DEF k

\* The names of directories that a path may have.
DirNames ==
    {n \in Typed : Len(n) \in 1 .. 8 /\ \A i \in 1 .. Len(n) : n[i] \notin {Slash, Dot, Space}}

DotPieces == {Padded(t, 8) : t \in Dots}

\* A part of a path and the directory found for it: "." or "..", or a name, which is that of
\* the directory whether it is read from the part or from a piece of 8 characters.
PartNames(p, entry) ==
    \/ p \in Dots /\ entry.name = Padded(p, 8)
    \/ /\ NameText(entry) \in DirNames
       /\ Padded(p, 8) \notin DotPieces /\ Unpadded(Padded(p, 8)) = NameText(entry)

LEMMA PartWithDots ==
    ASSUME NEW p \in Plain, NEW k, NameCut(p, k), CharAt(p, 0) = Dot
    PROVE  p \in Dots /\ ExtractFileName(p) = Padded(p, 8)
<1>1. /\ p \in Strings /\ Len(p) \in Nat /\ \A i \in Nat : CharAt(p, i) # Slash
  BY TypedAreStrings DEF Plain, Typed
<1>2. /\ k \in 0 .. 8 /\ k <= Len(p) /\ ExtractFileName(p) = Padded(Span(p, 0, k), 8)
      /\ CharAt(p, k) \in {Nul, Slash} /\ k = IF CharAt(p, 1) = Dot THEN 2 ELSE 1
  BY DEF NameCut
<1>3. k = Len(p)
  <2>1. k \in Nat
    BY <1>2
  <2>2. CharAt(p, k) = Nul
    BY <1>1, <1>2, <2>1
  <2>3. k >= Len(p)
    BY <1>1, <2>1, <2>2, StringCharacters
  <2>4. k <= Len(p)
    BY <1>2
  <2> QED
    BY <1>1, <2>1, <2>3, <2>4
<1>4. p \in Dots
  <2>1. p[1] = Dot
    BY <1>2, <1>3 DEF CharAt, Nul, Dot
  <2>2. CASE k = 1
    <3>1. <<Dot>> \in Strings /\ Len(<<Dot>>) = 1 /\ <<Dot>>[1] = Dot
      BY DEF Strings, Dot
    <3>2. \A i \in 1 .. Len(p) : p[i] = <<Dot>>[i]
      BY <1>3, <2>1, <2>2, <3>1
    <3> DEFINE q == <<Dot>>
    <3> HIDE DEF q
    <3>3. p = q
      <4>1. p \in Strings /\ q \in Strings /\ Len(p) = Len(q) /\ \A i \in 1 .. Len(p) : p[i] = q[i]
        BY <1>1, <1>3, <2>2, <3>1, <3>2 DEF q
      <4> QED
        BY <4>1, SeqEqual DEF Strings
    <3> QED
      BY <3>3 DEF Dots, q
  <2>3. CASE k = 2
    <3>1. CharAt(p, 1) = Dot /\ 1 < Len(p)
      BY <1>2, <1>3, <2>3
    <3>2. p[2] = Dot
      BY <3>1 DEF CharAt
    <3>3. <<Dot, Dot>> \in Strings /\ Len(<<Dot, Dot>>) = 2 /\ \A i \in 1 .. 2 : <<Dot, Dot>>[i] = Dot
      BY DEF Strings, Dot
    <3>4. \A i \in 1 .. Len(p) : p[i] = <<Dot, Dot>>[i]
      <4> TAKE i \in 1 .. Len(p)
      <4>1. i = 1 \/ i = 2
        BY <1>3, <2>3
      <4> QED
        BY <2>1, <3>2, <3>3, <4>1
    <3> DEFINE q == <<Dot, Dot>>
    <3> HIDE DEF q
    <3>5. p = q
      <4>1. p \in Strings /\ q \in Strings /\ Len(p) = Len(q) /\ \A i \in 1 .. Len(p) : p[i] = q[i]
        BY <1>1, <1>3, <2>3, <3>3, <3>4 DEF q
      <4> QED
        BY <4>1, SeqEqual DEF Strings
    <3> QED
      BY <3>5 DEF Dots, q
  <2> QED
    BY <1>2, <2>2, <2>3
<1> QED
  BY <1>1, <1>2, <1>3, <1>4, SpanWhole

\* The first character of a piece is that of the part.
LEMMA PieceStarts ==
    ASSUME NEW p \in Strings, Len(p) \in 1 .. 8
    PROVE  Padded(p, 8)[1] = p[1]
<1> DEFINE S == 1 .. 255
           size == 8
<1>1. /\ Space \in S /\ size \in Nat /\ p \in Seq(S) /\ Len(p) <= size /\ 1 \in 1 .. size
      /\ 1 <= Len(p)
  <2>1. Space \in S /\ p \in Seq(S)
    BY DEF Space, Strings
  <2> DEFINE m == Len(p)
  <2>2. m \in 1 .. 8
    OBVIOUS
  <2> HIDE DEF m, S
  <2>3. m <= 8 /\ 1 <= m
    BY <2>2
  <2>4. 8 \in Nat /\ 1 \in 1 .. 8
    OBVIOUS
  <2> QED
    BY <2>1, <2>3, <2>4 DEF m
<1> HIDE DEF S, size
<1>2. \A i \in 1 .. size : Padded(p, size)[i] = IF i <= Len(p) THEN p[i] ELSE Space
  BY <1>1, PaddedString
<1> QED
  BY <1>1, <1>2 DEF size

LEMMA PartFound ==
    ASSUME NEW p \in Plain, NEW entry, ExtractFileName(p) = entry.name,
           ExtractFileExtension(p) = entry.ext, Len(entry.name) = 8, entry.name[1] # Space,
           entry.ext = Padded(<<>>, 3)
    PROVE  Len(p) <= 8 /\ PartNames(p, entry)
<1>1. /\ p \in Typed /\ p \in Strings /\ Len(p) \in Nat /\ \A i \in Nat : CharAt(p, i) # Slash
  BY TypedAreStrings DEF Plain, Typed
<1>2. ExtractFileName(p) # NULL /\ ExtractFileExtension(p) # NULL
  <2>1. Len(NULL) = 0 /\ 8 # 0 /\ 3 # 0
    BY DEF NULL
  <2> QED
    BY <2>1, BlankExtension
<1>3. PICK k : NameCut(p, k)
  BY <1>1, <1>2, NameIsCut
<1>4. PICK d, end : ExtensionCut(p, d, end)
  BY <1>1, <1>2, ExtensionIsCut
<1>5. end = Len(p) /\ Len(p) <= 8
  BY <1>4, PlainEnds
<1>6. CASE CharAt(p, 0) = Dot
  BY <1>3, <1>5, <1>6, PartWithDots DEF PartNames
<1>7. CASE CharAt(p, 0) # Dot
  <2> DEFINE n == Span(p, 0, k)
  <2>1. /\ k \in 0 .. 8 /\ k <= Len(p) /\ entry.name = Padded(n, 8)
        /\ CharAt(p, k) \in NameEnds /\ \A j \in 0 .. (k - 1) : CharAt(p, j) \notin NameEnds
    BY <1>3, <1>7 DEF NameCut
  <2>2. d = 0 /\ \A j \in 0 .. (Len(p) - 1) : CharAt(p, j) # Dot
    <3>1. d \in 0 .. Len(p) /\ (0 \in 0 .. (d - 1) => CharAt(p, 0) = Dot)
      BY <1>4 DEF ExtensionCut
    <3>2. d = 0
      BY <1>1, <1>7, <3>1
    <3> QED
      BY <1>4, <1>5, <3>2 DEF ExtensionCut
  <2>3. n \in Typed /\ Len(n) = k /\ \A i \in 1 .. k : n[i] = p[i]
    <3> DEFINE S == 1 .. 127
    <3>1. p \in Seq(S) /\ k \in 0 .. Len(p)
      BY <1>1, <2>1 DEF Typed
    <3> HIDE DEF S
    <3>2. n \in Seq(S) /\ Len(n) = k /\ \A i \in 1 .. k : n[i] = p[i]
      BY <3>1, SpanFromStart
    <3> QED
      BY <3>2 DEF S, Typed
  <2> HIDE DEF n
  <2>4. n \in Strings /\ Len(n) <= 8 /\ Len(n) \in Nat
    BY <2>1, <2>3, TypedAreStrings
  <2>5. ASSUME NEW i \in 1 .. k PROVE p[i] \notin {Slash, Dot, Space}
    <3>1. i - 1 \in 0 .. (k - 1) /\ i - 1 < Len(p) /\ i - 1 + 1 = i
      BY <1>1, <2>1
    <3>2. CharAt(p, i - 1) = p[i]
      BY <3>1 DEF CharAt
    <3> QED
      BY <2>1, <3>1, <3>2 DEF NameEnds
  <2>6. /\ Len(Padded(n, 8)) = 8 /\ Unpadded(Padded(n, 8)) = n
        /\ \A i \in 1 .. 8 : Padded(n, 8)[i] = IF i <= Len(n) THEN n[i] ELSE Space
    <3>1. Len(n) \in 0 .. Len(n) /\ \A i \in 1 .. Len(n) : n[i] # Space
      BY <2>3, <2>4, <2>5
    <3>2. Span(n, 0, Len(n)) = n
      BY <2>4, SpanWhole
    <3> QED
      BY <2>4, <3>1, <3>2, PieceUnpadded
  <2>7. k # 0
    <3> SUFFICES ASSUME k = 0 PROVE FALSE
      OBVIOUS
    <3>1. 1 \in 1 .. 8 /\ ~(1 <= Len(n))
      BY <2>3
    <3>2. Padded(n, 8)[1] = Space
      BY <2>6, <3>1
    <3> QED
      BY <2>1, <3>2
  <2>8. n \in DirNames
    <3>1. Len(n) \in 1 .. 8
      BY <2>1, <2>3, <2>7
    <3>2. \A i \in 1 .. Len(n) : n[i] \notin {Slash, Dot, Space}
      BY <2>3, <2>5
    <3> QED
      BY <2>3, <3>1, <3>2 DEF DirNames
  <2>9. NameText(entry) = n
    <3>1. Unpadded(entry.ext) = <<>> /\ Unpadded(entry.name) = n
      BY <2>1, <2>6, BlankExtension
    <3>2. n \o <<>> = n
      BY <2>4 DEF Strings
    <3> QED
      BY <3>1, <3>2 DEF NameText
  <2>10. k = Len(p) \/ p[k + 1] = Space
    <3> SUFFICES ASSUME k # Len(p) PROVE p[k + 1] = Space
      OBVIOUS
    <3>1. k < Len(p) /\ k \in 0 .. (Len(p) - 1) /\ k \in Nat
      BY <1>1, <2>1
    <3>2. CharAt(p, k) = p[k + 1] /\ CharAt(p, k) # Nul /\ CharAt(p, k) # Dot /\ CharAt(p, k) # Slash
      BY <1>1, <2>2, <3>1, StringCharacters DEF CharAt
    <3> QED
      BY <2>1, <3>2 DEF NameEnds
  <2>11. Unpadded(Padded(p, 8)) = n
    <3>1. k \in 0 .. Len(p) /\ \A i \in 1 .. k : p[i] # Space
      BY <1>1, <2>1, <2>5
    <3> QED
      BY <1>1, <1>5, <2>10, <3>1, PieceUnpadded DEF n
  <2>12. Padded(p, 8) \notin DotPieces
    <3>1. Len(p) \in 1 .. 8
      <4> DEFINE m == Len(p)
      <4>1. m # 0 /\ m \in Nat /\ m <= 8
        BY <1>1, <1>5, <2>1, <2>7
      <4> HIDE DEF m
      <4>2. m \in 1 .. 8
        BY <4>1
      <4> QED
        BY <4>2 DEF m
    <3>2. Padded(p, 8)[1] = p[1]
      BY <1>1, <3>1, PieceStarts
    <3>3. p[1] # Dot
      <4>1. 1 \in 1 .. k
        BY <2>1, <2>7
      <4> QED
        BY <2>5, <4>1
    <3>4. ASSUME NEW t \in Dots PROVE Padded(t, 8)[1] = Dot
      <4>1. t \in Strings /\ Len(t) \in 1 .. 8 /\ t[1] = Dot
        BY DotsTyped
      <4> QED
        BY <4>1, PieceStarts
    <3> QED
      BY <3>2, <3>3, <3>4 DEF DotPieces
  <2> QED
    BY <1>5, <2>8, <2>9, <2>11, <2>12 DEF PartNames
<1> QED
  BY <1>6, <1>7

LEMMA ExtractedTyped ==
    ASSUME NEW p \in Strings, ExtractFileName(p) # NULL, ExtractFileExtension(p) # NULL
    PROVE  /\ ExtractFileName(p) \in Seq(0 .. 255) /\ Len(ExtractFileName(p)) = 8
           /\ ExtractFileExtension(p) \in Seq(0 .. 255) /\ Len(ExtractFileExtension(p)) = 3
<1> DEFINE S == 0 .. 255
<1>1. p \in Seq(S) /\ Len(p) \in Nat /\ Space \in S
  BY DEF Strings, Space
<1>2. ExtractFileName(p) \in Seq(S) /\ Len(ExtractFileName(p)) = 8
  <2>1. PICK k : NameCut(p, k)
    BY NameIsCut
  <2> DEFINE size == 8
             q == Span(p, 0, k)
  <2>2. k \in 0 .. Len(p) /\ k <= size /\ size \in Nat /\ ExtractFileName(p) = Padded(q, size)
    BY <1>1, <2>1 DEF NameCut
  <2> HIDE DEF S, size
  <2>3. q \in Seq(S) /\ Len(q) = k
    BY <1>1, <2>2, SpanFromStart
  <2> HIDE DEF q
  <2>4. Padded(q, size) \in Seq(S) /\ Len(Padded(q, size)) = size
    BY <1>1, <2>2, <2>3, PaddedString
  <2> QED
    BY <2>2, <2>4 DEF size
<1>3. ExtractFileExtension(p) \in Seq(S) /\ Len(ExtractFileExtension(p)) = 3
  <2>1. PICK d, end : ExtensionCut(p, d, end)
    BY ExtensionIsCut
  <2>2. CASE ExtractFileExtension(p) = Padded(<<>>, 3)
    BY <2>2, BlankExtension
  <2>3. ASSUME NEW m \in 1 .. 3, end + 1 + m <= Len(p),
               ExtractFileExtension(p) = Padded(Span(p, end + 1, end + 1 + m), 3)
        PROVE  ExtractFileExtension(p) \in Seq(S) /\ Len(ExtractFileExtension(p)) = 3
    <3> DEFINE from == end + 1
               to == end + 1 + m
               size == 3
               q == Span(p, from, to)
    <3>1. /\ from \in Nat /\ to \in from .. Len(p) /\ size \in Nat
          /\ to - from = m /\ m <= size
      BY <1>1, <2>1, <2>3 DEF ExtensionCut
    <3>2. ExtractFileExtension(p) = Padded(q, size)
      BY <2>3
    <3> HIDE DEF S, from, to, size
    <3>3. q \in Seq(S) /\ Len(q) = m
      BY <1>1, <3>1, SpanOfString
    <3> HIDE DEF q
    <3>4. Padded(q, size) \in Seq(S) /\ Len(Padded(q, size)) = size
      BY <1>1, <3>1, <3>3, PaddedString
    <3> QED
      BY <3>2, <3>4 DEF size
  <2> QED
    BY <2>1, <2>2, <2>3 DEF ExtensionCut
<1> QED
  BY <1>2, <1>3

\* The entries of a directory that are directories.
LEMMA DirectoryEntry ==
    ASSUME disk \in Disks, NEW c \in DOMAIN disk.entries, NEW k \in 1 .. Len(disk.entries[c])
    PROVE  /\ disk.entries[c][k].name[1] # Space
           /\ Head(NameText(disk.entries[c][k])) = Head(disk.entries[c][k].name)
<1> DEFINE entry == disk.entries[c][k]
<1>1. /\ entry.name \in Seq(0 .. 255) /\ Len(entry.name) = 8 /\ WellNamed(entry)
      /\ Head(entry.name) = entry.name[1]
  <2>1. /\ entry.name \in Seq(0 .. 255) /\ Len(entry.name) = 8 /\ WellNamed(entry)
    BY DiskFacts, EntryNamed
  <2> QED
    BY <2>1
<1> HIDE DEF entry
<1>0. \A x \in NameCharacters : x \in (1 .. 255) \ {Space}
  BY NameCharactersAre
<1>2. ASSUME NEW n \in Strings, Len(n) # 0, Unpadded(entry.name) = n
      PROVE  Head(NameText(entry)) = n[1]
  <2> DEFINE rest == IF Unpadded(entry.ext) = <<>> THEN <<>> ELSE <<Dot>> \o Unpadded(entry.ext)
  <2>1. NameText(entry) = n \o rest
    BY <1>2 DEF NameText
  <2>2. Unpadded(entry.ext) \in Strings
    <3>1. entry.ext = Padded(<<>>, 3) => Unpadded(entry.ext) = <<>> /\ <<>> \in Strings
      BY BlankExtension DEF Strings
    <3>2. ASSUME Stored(entry.ext, 3) PROVE Unpadded(entry.ext) \in Strings
      <4> DEFINE s == entry.ext
      <4>1. PICK m \in 0 .. 3 : \A i \in 1 .. 3 :
                IF i <= m THEN s[i] \in NameCharacters ELSE s[i] = Space
        BY <3>2 DEF Stored
      <4>2. s \in Seq(0 .. 255) /\ Len(s) = 3
        BY EntryNamed DEF entry
      <4>3. /\ m \in 0 .. Len(s)
            /\ \A i \in 1 .. Len(s) : IF i <= m THEN s[i] \in (1 .. 255) \ {Space} ELSE s[i] = Space
        BY <1>0, <4>1, <4>2
      <4> HIDE DEF s
      <4>4. Unpadded(s) \in Strings
        BY <4>2, <4>3, Unpads
      <4> QED
        BY <4>4 DEF s
    <3> QED
      BY <1>1, <3>1, <3>2 DEF WellNamed
  <2>3. rest \in Seq(1 .. 255) /\ n \in Seq(1 .. 255)
    <3>1. <<Dot>> \in Seq(1 .. 255) /\ <<>> \in Seq(1 .. 255)
      BY DEF Dot
    <3> QED
      BY <2>2, <3>1, ConcatProperties DEF Strings
  <2> HIDE DEF rest
  <2>4. /\ n \o rest \in Seq(1 .. 255) /\ Len(n \o rest) = Len(n) + Len(rest)
        /\ \A i \in 1 .. Len(n) + Len(rest) :
               (n \o rest)[i] = IF i <= Len(n) THEN n[i] ELSE rest[i - Len(n)]
    BY <2>3, ConcatProperties
  <2>5. 1 \in 1 .. Len(n) + Len(rest) /\ 1 <= Len(n) /\ n \o rest # <<>>
    <3>1. Len(n) \in Nat /\ Len(rest) \in Nat
      BY <2>3
    <3> QED
      BY <1>2, <2>4, <3>1
  <2>6. (n \o rest)[1] = n[1]
    BY <2>4, <2>5
  <2> QED
    BY <2>1, <2>4, <2>5, <2>6
<1>3. CASE Stored(entry.name, 8) /\ entry.name[1] # Space
  <2> DEFINE s == entry.name
  <2>1. PICK m \in 0 .. 8 : \A i \in 1 .. 8 :
            IF i <= m THEN s[i] \in NameCharacters ELSE s[i] = Space
    BY <1>3 DEF Stored
  <2>2. /\ m \in 0 .. Len(s) /\ s \in Seq(0 .. 255)
        /\ \A i \in 1 .. Len(s) : IF i <= m THEN s[i] \in (1 .. 255) \ {Space} ELSE s[i] = Space
    BY <1>0, <1>1, <2>1
  <2>3. 1 \in 1 .. m
    <3>1. 1 \in 1 .. 8
      OBVIOUS
    <3>2. 1 <= m
      BY <1>3, <2>1, <3>1
    <3> QED
      BY <3>2
  <2>4. Unpadded(s) \in Strings /\ Len(Unpadded(s)) = m /\ Unpadded(s)[1] = s[1]
    <3> HIDE DEF s
    <3> QED
      BY <2>2, <2>3, Unpads
  <2>5. Len(Unpadded(s)) # 0
    BY <2>3, <2>4
  <2>6. Head(NameText(entry)) = s[1]
    BY <1>2, <2>4, <2>5
  <2> QED
    BY <1>1, <1>3, <2>6 DEF entry
<1>4. ASSUME NEW t \in Dots, entry.name = Padded(t, 8)
      PROVE  entry.name[1] # Space /\ Head(NameText(entry)) = entry.name[1]
  <2>1. t \in Strings /\ Len(t) \in 1 .. 8 /\ Len(t) # 0 /\ t[1] = Dot
    BY DotsTyped
  <2>2. Unpadded(entry.name) = t
    BY <1>4, DotsUnpadded
  <2>3. entry.name[1] = t[1]
    BY <1>4, <2>1, PieceStarts
  <2>4. Head(NameText(entry)) = t[1]
    BY <1>2, <2>1, <2>2
  <2> QED
    BY <2>1, <2>3, <2>4 DEF Dot, Space
<1>5. <<Dot>> \in Dots /\ <<Dot, Dot>> \in Dots
  BY DEF Dots
<1>6. \/ Stored(entry.name, 8) /\ entry.name[1] # Space
      \/ entry.name = Padded(<<Dot>>, 8)
      \/ entry.name = Padded(<<Dot, Dot>>, 8)
  BY <1>1 DEF WellNamed
<1> QED
  BY <1>1, <1>3, <1>4, <1>5, <1>6 DEF entry

\* What is known of a directory on the disk, and of "." and ".." in it.
LEMMA TreeFacts ==
    ASSUME disk \in Disks, NEW c \in DOMAIN disk.entries, NEW k \in 1 .. Len(disk.entries[c]),
           NEW entry, entry = disk.entries[c][k]
    PROVE  /\ IsDots(entry) => c # 0
           /\ entry.subdir => entry.ext = Padded(<<>>, 3)
           /\ entry.subdir /\ ~IsDots(entry) /\ ~DELETED_FILENAME(entry) => DotsPoint(disk, entry, c)
<1>1. /\ IsDots(disk.entries[c][k]) => c # 0
      /\ disk.entries[c][k].subdir => disk.entries[c][k].ext = Padded(<<>>, 3)
  BY TreeAssumption
<1>2. disk.entries[c][k].subdir /\ ~IsDots(disk.entries[c][k]) /\ ~DELETED_FILENAME(disk.entries[c][k])
          => DotsPoint(disk, disk.entries[c][k], c)
  BY TreeAssumption
<1> QED
  BY <1>1, <1>2 DEF DotsPoint

\* The entry found for a part has the name and the extension cut out of the part.
LEMMA EntryExtracted ==
    ASSUME disk \in Disks, NEW c \in DOMAIN disk.entries, NEW p \in Plain,
           NEW entry \in ToSet(Entries(c)), entry = GetDirectoryEntryWithName(p, c),
           entry # invalidDirectory
    PROVE  /\ \E k \in 1 .. Len(disk.entries[c]) : entry = disk.entries[c][k]
           /\ ExtractFileName(p) = entry.name /\ Len(entry.name) = 8
           /\ ExtractFileExtension(p) = entry.ext /\ Len(entry.ext) = 3
<1>1. p \in Strings
  BY TypedAreStrings DEF Plain
<1>2. PICK k \in 1 .. Len(disk.entries[c]) : entry = disk.entries[c][k]
  <2>1. disk.entries[c] \in Seq(EntriesOf(disk))
    BY DiskFacts
  <2> QED
    BY <2>1 DEF ToSet, Entries
<1>3. ExtractFileName(p) # NULL /\ ExtractFileExtension(p) # NULL
  BY DEF GetDirectoryEntryWithName
<1>4. Same(p, entry)
  BY <1>3, EntryFound
<1>5. /\ entry.name \in Seq(0 .. 255) /\ Len(entry.name) = 8
      /\ entry.ext \in Seq(0 .. 255) /\ Len(entry.ext) = 3
  BY <1>2, EntryNamed
<1>6. /\ ExtractFileName(p) \in Seq(0 .. 255) /\ Len(ExtractFileName(p)) = 8
      /\ ExtractFileExtension(p) \in Seq(0 .. 255) /\ Len(ExtractFileExtension(p)) = 3
  BY <1>1, <1>3, ExtractedTyped
<1>7. ExtractFileName(p) = entry.name
  <2> DEFINE v == ExtractFileName(p)
             w == entry.name
             size == 8
  <2>1. /\ size \in Nat \ {0} /\ v \in Seq(0 .. 255) /\ Len(v) = size
        /\ w \in Seq(0 .. 255) /\ Len(w) = size /\ strncmp(v, w, size) = 0
    BY <1>4, <1>5, <1>6 DEF Same
  <2> HIDE DEF v, w, size
  <2>2. v = w
    BY <2>1, Compared
  <2> QED
    BY <2>2 DEF v, w
<1>8. ExtractFileExtension(p) = entry.ext
  <2> DEFINE v == ExtractFileExtension(p)
             w == entry.ext
             size == 3
  <2>1. /\ size \in Nat \ {0} /\ v \in Seq(0 .. 255) /\ Len(v) = size
        /\ w \in Seq(0 .. 255) /\ Len(w) = size /\ strncmp(v, w, size) = 0
    BY <1>4, <1>5, <1>6 DEF Same
  <2> HIDE DEF v, w, size
  <2>2. v = w
    BY <2>1, Compared
  <2> QED
    BY <2>2 DEF v, w
<1> QED
  BY <1>2, <1>5, <1>7, <1>8

LEMMA DirectoryFound ==
    ASSUME disk \in Disks, NEW c \in DOMAIN disk.entries, NEW p \in Plain,
           NEW entry \in ToSet(Entries(c)), entry = GetDirectoryEntryWithName(p, c),
           entry # invalidDirectory, entry.subdir
    PROVE  /\ \E k \in 1 .. Len(disk.entries[c]) : entry = disk.entries[c][k]
           /\ Len(p) <= 8 /\ PartNames(p, entry)
<1>1. PICK k \in 1 .. Len(disk.entries[c]) : entry = disk.entries[c][k]
  BY EntryExtracted
<1>2. ExtractFileName(p) = entry.name /\ Len(entry.name) = 8 /\ ExtractFileExtension(p) = entry.ext
  BY EntryExtracted
<1>3. entry.name[1] # Space /\ entry.ext = Padded(<<>>, 3)
  <2>1. disk.entries[c][k].ext = Padded(<<>>, 3)
    BY <1>1, TreeFacts
  <2> QED
    BY <1>1, <2>1, DirectoryEntry
<1>4. Len(p) <= 8 /\ PartNames(p, entry)
  BY <1>2, <1>3, PartFound
<1> QED
  BY <1>1, <1>4

-----------------------------------------------------------------------------
(* The tree, read from the root.                                           *)

\* Two entries that read the same are one entry, unless they are deleted.
LEMMA StepFound ==
    ASSUME disk \in Disks, NEW x, x.cluster \in DOMAIN disk.entries, x.subdir,
           NEW k \in 1 .. Len(disk.entries[x.cluster]),
           ~DELETED_FILENAME(disk.entries[x.cluster][k])
    PROVE  Step(x, NameText(disk.entries[x.cluster][k])) = disk.entries[x.cluster][k]
<1> DEFINE entries == disk.entries[x.cluster]
           n == Len(entries)
           text == NameText(entries[k])
           matches == {i \in 1 .. n : NameText(entries[i]) = text}
<1>1. n \in Nat /\ \A i \in 1 .. n : Names11(NameText(entries[i]), entries[i])
  BY DiskFacts, EntryNamed
<1>2. ASSUME NEW i \in matches PROVE i = k
  <2>1. entries[k].name = entries[i].name /\ entries[k].ext = entries[i].ext
    BY <1>1 DEF Names11
  <2> QED
    BY <2>1, DirectoryAssumption
<1>3. Step(x, text) = IF x.subdir /\ matches # {} THEN entries[Min(matches)] ELSE Missing
  BY DEF Step, Entries
<1>4. k \in matches /\ matches \in SUBSET Nat
  BY <1>1
<1> HIDE DEF matches, entries, n, text
<1>5. Min(matches) = k
  BY <1>2, <1>4, MinIsMember
<1> QED
  BY <1>3, <1>4, <1>5 DEF text, entries

\* A step that arrives in a directory goes through one of the entries.
LEMMA StepEntry ==
    ASSUME disk \in Disks, NEW x, x.cluster \in DOMAIN disk.entries, NEW text
    PROVE  \/ Step(x, text) = Missing
           \/ x.subdir /\ \E k \in 1 .. Len(disk.entries[x.cluster]) :
                 Step(x, text) = disk.entries[x.cluster][k] /\ NameText(disk.entries[x.cluster][k]) = text
<1> DEFINE entries == disk.entries[x.cluster]
           matches == {i \in 1 .. Len(entries) : NameText(entries[i]) = text}
<1>1. Step(x, text) = IF x.subdir /\ matches # {} THEN entries[Min(matches)] ELSE Missing
  BY DEF Step, Entries
<1>2. matches \in SUBSET Nat
  <2>1. Len(entries) \in Nat
    BY DiskFacts
  <2> QED
    BY <2>1
<1>3. matches # {} => Min(matches) \in matches
  <2> HIDE DEF matches
  <2> QED
    BY <1>2, MinIsMember
<1>4. CASE x.subdir /\ matches # {}
  BY <1>1, <1>3, <1>4
<1>5. CASE ~(x.subdir /\ matches # {})
  BY <1>1, <1>5
<1> QED
  BY <1>4, <1>5

LEMMA DirNameStarts ==
    ASSUME NEW n \in DirNames
    PROVE  Head(n) = n[1] /\ n[1] \notin {Dot, 229}
<1>1. n \in Seq(1 .. 127) /\ Len(n) \in 1 .. 8 /\ \A i \in 1 .. Len(n) : n[i] \notin {Slash, Dot, Space}
  BY DEF DirNames, Typed
<1>2. 1 \in 1 .. Len(n)
  <2> DEFINE m == Len(n)
  <2>1. m \in 1 .. 8
    BY <1>1
  <2> HIDE DEF m
  <2>2. 1 \in 1 .. m
    BY <2>1
  <2> QED
    BY <2>2 DEF m
<1>3. n[1] \in 1 .. 127
  BY <1>1, <1>2, ElementOfSeq
<1>4. Head(n) = n[1]
  BY <1>1, <1>2
<1>5. n[1] \notin {Slash, Dot, Space}
  BY <1>1, <1>2
<1>6. \A x \in 1 .. 127 : x # 229
  OBVIOUS
<1> QED
  BY <1>3, <1>4, <1>5, <1>6

\* What a step that has arrived tells of the directory: it is in the other one, and
\* neither "." nor ".." nor deleted.
LEMMA StepArrives ==
    ASSUME disk \in Disks, NEW x, x.cluster \in DOMAIN disk.entries, NEW n \in DirNames,
           Step(x, n).subdir
    PROVE  \E k \in 1 .. Len(disk.entries[x.cluster]) :
               /\ Step(x, n) = disk.entries[x.cluster][k]
               /\ ~IsDots(Step(x, n)) /\ ~DELETED_FILENAME(Step(x, n))
<1>1. ~Missing.subdir
  BY DEF Missing, invalidDirectory
<1>2. PICK k \in 1 .. Len(disk.entries[x.cluster]) :
          Step(x, n) = disk.entries[x.cluster][k] /\ NameText(disk.entries[x.cluster][k]) = n
  BY <1>1, StepEntry
<1>3. Head(n) = n[1] /\ n[1] \notin {Dot, 229}
  BY DirNameStarts
<1>4. Head(disk.entries[x.cluster][k].name) = n[1]
  BY <1>2, <1>3, DirectoryEntry
<1> QED
  BY <1>2, <1>3, <1>4 DEF IsDots, DELETED_FILENAME

\* Where a walk may be.
Steps == Places \cup {Missing}

LEMMA StepStays ==
    ASSUME disk \in Disks, NEW x \in Steps, NEW text
    PROVE  Step(x, text) \in Steps
<1>1. CASE x \in Places
  <2>1. x.cluster \in DOMAIN disk.entries
    BY <1>1, PlaceFacts
  <2>2. \A k \in 1 .. Len(disk.entries[x.cluster]) : disk.entries[x.cluster][k] \in Places
    BY <2>1, DiskFacts
  <2> QED
    BY <2>1, <2>2, StepEntry DEF Steps
<1>2. CASE x = Missing
  <2>1. ~x.subdir
    BY <1>2 DEF Missing, invalidDirectory
  <2>2. Step(x, text) = Missing
    BY <2>1 DEF Step
  <2> QED
    BY <2>2 DEF Steps
<1> QED
  BY <1>1, <1>2 DEF Steps

\* Reading the tree visits one place after another.
LEMMA WalkFollowed ==
    ASSUME disk \in Disks, NEW base \in Steps, NEW parts, Len(parts) \in Nat,
           DOMAIN parts = 1 .. Len(parts)
    PROVE  \E F \in [0 .. Len(parts) -> Steps] :
               /\ F[0] = base
               /\ \A i \in 1 .. Len(parts) : F[i] = Step(F[i - 1], parts[i])
               /\ FoldLeft(Step, base, parts) = F[Len(parts)]
<1> DEFINE n == Len(parts)
           Value(f, s) == IF s = {} THEN base ELSE Step(f[s \ {Max(s)}], parts[Max(s)])
           it == CHOOSE f : f = [s \in SUBSET DOMAIN parts |-> Value(f, s)]
<1>1. FoldLeft(Step, base, parts) = it[DOMAIN parts]
  BY DEF FoldLeft, MapThenFoldSet
<1>2. \E f : f = [s \in SUBSET (1 .. n) |-> Value(f, s)]
  <2> DEFINE g == [x \in (1 .. n) \X Steps |-> Step(x[2], parts[x[1]])]
  <2>1. \A i \in 1 .. n : \A v \in Steps : g[<<i, v>>] = Step(v, parts[i])
    OBVIOUS
  <2>2. \A i \in 1 .. n : \A v \in Steps : g[<<i, v>>] \in Steps
    BY <2>1, StepStays
  <2> HIDE DEF g
  <2>3. PICK f \in [SUBSET (1 .. n) -> Steps] : \A s \in SUBSET (1 .. n) :
            f[s] = IF s = {} THEN base ELSE g[<<Max(s), f[s \ {Max(s)}]>>]
    <3>1. n \in Nat
      OBVIOUS
    <3> HIDE DEF n
    <3>2. FoldSolvable(n, Steps, base, g)
      BY <2>2, <3>1, FoldExists
    <3> QED
      BY <3>2 DEF FoldSolvable
  <2>4. ASSUME NEW s \in SUBSET (1 .. n) PROVE f[s] = Value(f, s)
    <3>1. CASE s = {}
      BY <2>3, <3>1
    <3>2. CASE s # {}
      <4>1. Max(s) \in 1 .. n
        BY <3>2, MaxIsMember
      <4> DEFINE top == Max(s)
      <4> HIDE DEF top
      <4>2. top \in 1 .. n /\ f[s \ {top}] \in Steps
        BY <4>1 DEF top
      <4>3. f[s] = g[<<top, f[s \ {top}]>>]
        BY <2>3, <3>2 DEF top
      <4> QED
        BY <2>1, <3>2, <4>2, <4>3 DEF top
    <3> QED
      BY <3>1, <3>2
  <2>5. f = [s \in SUBSET (1 .. n) |-> f[s]]
    OBVIOUS
  <2> HIDE DEF Value
  <2>6. f = [s \in SUBSET (1 .. n) |-> Value(f, s)]
    BY <2>4, <2>5
  <2> QED
    BY <2>6
<1> HIDE DEF Value
<1>3. it = [s \in SUBSET (1 .. n) |-> Value(it, s)]
  BY <1>2
<1> HIDE DEF it
<1> DEFINE F == [i \in 0 .. n |-> it[1 .. i]]
<1>4. F[0] = base
  <2>1. 1 .. 0 = {} /\ {} \in SUBSET (1 .. n)
    OBVIOUS
  <2> QED
    BY <1>3, <2>1 DEF Value
<1>5. ASSUME NEW i \in 1 .. n PROVE F[i] = Step(F[i - 1], parts[i])
  <2>1. Max(1 .. i) = i /\ (1 .. i) \ {i} = 1 .. (i - 1) /\ 1 .. i # {}
    BY FirstNumbers
  <2>2. 1 .. i \in SUBSET (1 .. n)
    OBVIOUS
  <2>3. it[1 .. i] = Step(it[1 .. (i - 1)], parts[i])
    BY <1>3, <2>1, <2>2 DEF Value
  <2>4. i \in 0 .. n /\ i - 1 \in 0 .. n
    OBVIOUS
  <2> QED
    BY <2>3, <2>4
<1>6. F \in [0 .. n -> Steps]
  <2> DEFINE S == {i \in Nat : i <= n => F[i] \in Steps}
  <2> HIDE DEF F
  <2>1. 0 \in S
    BY <1>4
  <2>2. ASSUME NEW i \in S PROVE i + 1 \in S
    <3> SUFFICES ASSUME i + 1 <= n PROVE F[i + 1] \in Steps
      OBVIOUS
    <3>1. i + 1 \in 1 .. n /\ i + 1 - 1 = i /\ F[i] \in Steps
      OBVIOUS
    <3>2. F[i + 1] = Step(F[i], parts[i + 1])
      BY <1>5, <3>1
    <3> QED
      BY <3>1, <3>2, StepStays
  <2>3. S = Nat
    <3>1. S \in SUBSET Nat
      OBVIOUS
    <3> HIDE DEF S
    <3> QED
      BY <2>1, <2>2, <3>1, Induction
  <2>4. \A i \in 0 .. n : F[i] \in Steps
    BY <2>3
  <2> QED
    BY <2>4 DEF F
<1>7. FoldLeft(Step, base, parts) = F[n]
  BY <1>1
<1> HIDE DEF F
<1> QED
  BY <1>4, <1>5, <1>6, <1>7

LEMMA WalkAppended ==
    ASSUME disk \in Disks, NEW S, NEW names \in Seq(S), NEW n \in S
    PROVE  Walk(Append(names, n)) = Step(Walk(names), n)
<1> DEFINE m == Len(names)
           more == Append(names, n)
<1>1. /\ m \in Nat /\ DOMAIN names = 1 .. m
      /\ Len(more) = m + 1 /\ DOMAIN more = 1 .. (m + 1) /\ more[m + 1] = n
      /\ \A i \in 1 .. m : more[i] = names[i]
  OBVIOUS
<1>2. rootDirectory \in Steps
  BY RootIsPlace DEF Steps
<1>3. PICK F \in [0 .. Len(names) -> Steps] :
          /\ F[0] = rootDirectory
          /\ \A i \in 1 .. Len(names) : F[i] = Step(F[i - 1], names[i])
          /\ FoldLeft(Step, rootDirectory, names) = F[Len(names)]
  BY <1>1, <1>2, WalkFollowed
<1> HIDE DEF more
<1>4. PICK G \in [0 .. Len(more) -> Steps] :
          /\ G[0] = rootDirectory
          /\ \A i \in 1 .. Len(more) : G[i] = Step(G[i - 1], more[i])
          /\ FoldLeft(Step, rootDirectory, more) = G[Len(more)]
  <2>1. Len(more) \in Nat /\ DOMAIN more = 1 .. Len(more)
    BY <1>1
  <2> QED
    BY <1>2, <2>1, WalkFollowed
<1> DEFINE Q == {i \in Nat : i <= m => F[i] = G[i]}
<1> HIDE DEF m
<1>5. 0 \in Q
  BY <1>3, <1>4
<1>6. ASSUME NEW i \in Q PROVE i + 1 \in Q
  <2> SUFFICES ASSUME i + 1 <= m PROVE F[i + 1] = G[i + 1]
    OBVIOUS
  <2>1. i + 1 \in 1 .. m /\ i + 1 \in 1 .. (m + 1) /\ i + 1 - 1 = i /\ F[i] = G[i]
    BY <1>1
  <2>2. F[i + 1] = Step(F[i], names[i + 1])
    BY <1>3, <2>1 DEF m
  <2>3. G[i + 1] = Step(G[i], more[i + 1])
    BY <1>1, <1>4, <2>1
  <2> QED
    BY <1>1, <2>1, <2>2, <2>3
<1>7. Q = Nat
  <2>1. Q \in SUBSET Nat
    OBVIOUS
  <2> HIDE DEF Q
  <2> QED
    BY <1>5, <1>6, <2>1, Induction
<1>8. F[m] = G[m]
  <2>1. m \in Q
    BY <1>1, <1>7
  <2> QED
    BY <1>1, <2>1
<1>9. G[m + 1] = Step(G[m], n)
  <2>1. m + 1 \in 1 .. (m + 1) /\ m + 1 - 1 = m
    BY <1>1
  <2> QED
    BY <1>1, <1>4, <2>1
<1> QED
  BY <1>1, <1>3, <1>4, <1>8, <1>9 DEF Walk, m, more

-----------------------------------------------------------------------------
(* The string of pwd.                                                      *)

\* From the root, without a slash at the end, and slashes close to one another.
IsPath(s) ==
    /\ s \in Strings /\ Len(s) >= 1 /\ s[1] = Slash
    /\ Len(s) > 1 => s[Len(s)] # Slash
    /\ \A i \in 0 .. Len(s) : \E k \in i .. (i + 8) : k <= Len(s) /\ CharAt(s, k) \in {Nul, Slash}

Extend(s, n) == s \o (IF Last(s) = Slash THEN <<>> ELSE <<Slash>>) \o n

\* The name goes after the slash at index b.
Extended(s, n, t, b) ==
    /\ t \in Strings /\ b \in Nat /\ Len(t) = b + 1 + Len(n)
    /\ \A i \in 0 .. (b - 1) : CharAt(t, i) = CharAt(s, i) /\ CharAt(s, i) # Nul
    /\ CharAt(t, b) = Slash
    /\ \A i \in (b + 1) .. (b + Len(n)) : CharAt(t, i) \notin {Nul, Slash} /\ CharAt(t, i) = n[i - b]
    /\ CharAt(t, Len(t)) = Nul
    /\ \/ b = 0 /\ Len(s) = 1
       \/ b = Len(s) /\ b > 1 /\ CharAt(s, b - 1) # Slash /\ CharAt(s, b) = Nul

LEMMA ExtendedByName ==
    ASSUME NEW s, IsPath(s), NEW n \in DirNames
    PROVE  \E b : Extended(s, n, Extend(s, n), b)
<1> DEFINE S == 1 .. 255
           slash == IF Last(s) = Slash THEN <<>> ELSE <<Slash>>
           u == s \o slash
           t == u \o n
           b == Len(u) - 1
           m == Len(n)
<1>1. /\ s \in Seq(S) /\ Len(s) \in Nat /\ Len(s) >= 1 /\ s[1] = Slash
      /\ (Len(s) > 1 => s[Len(s)] # Slash) /\ s \in Strings
  BY DEF IsPath, Strings
<1>2. n \in Seq(S) /\ m \in 1 .. 8 /\ \A i \in 1 .. m : n[i] # Slash /\ n[i] # Nul
  <2>1. n \in Strings /\ m \in 1 .. 8 /\ \A i \in 1 .. m : n[i] # Slash
    BY TypedAreStrings DEF DirNames
  <2>2. \A i \in 1 .. m : n[i] \in 1 .. 255
    BY <2>1, ElementOfSeq DEF Strings
  <2>3. n \in Seq(S)
    BY <2>1 DEF Strings
  <2>4. \A x \in 1 .. 255 : x # Nul
    BY DEF Nul
  <2> HIDE DEF m, S
  <2> QED
    BY <2>1, <2>2, <2>3, <2>4
<1>3. slash \in Seq(S) /\ (Len(slash) = 0 \/ (Len(slash) = 1 /\ slash[1] = Slash))
      /\ (Len(slash) = 0 <=> s[Len(s)] = Slash)
  <2>1. <<>> \in Seq(S) /\ Len(<<>>) = 0 /\ <<Slash>> \in Seq(S) /\ Len(<<Slash>>) = 1
        /\ <<Slash>>[1] = Slash /\ Last(s) = s[Len(s)] /\ 0 # 1
    BY DEF Slash, Last
  <2> HIDE DEF S
  <2>2. CASE Last(s) = Slash
    <3>1. slash = <<>>
      BY <2>2
    <3> HIDE DEF slash
    <3> QED
      BY <2>1, <2>2, <3>1
  <2>3. CASE Last(s) # Slash
    <3>1. slash = <<Slash>>
      BY <2>3
    <3> HIDE DEF slash
    <3> QED
      BY <2>1, <2>3, <3>1
  <2> QED
    BY <2>2, <2>3
<1> HIDE DEF slash, S, m
<1>4. /\ u \in Seq(S) /\ Len(u) = Len(s) + Len(slash) /\ Len(slash) \in Nat
      /\ \A i \in 1 .. Len(s) + Len(slash) :
             u[i] = IF i <= Len(s) THEN s[i] ELSE slash[i - Len(s)]
  BY <1>1, <1>3, ConcatProperties
<1> HIDE DEF u
<1>5. /\ t \in Seq(S) /\ Len(t) = Len(u) + m
      /\ \A i \in 1 .. Len(u) + m : t[i] = IF i <= Len(u) THEN u[i] ELSE n[i - Len(u)]
  <2>1. n \in Seq(S) /\ u \in Seq(S) /\ m = Len(n)
    BY <1>2, <1>4 DEF m
  <2> QED
    BY <2>1, ConcatProperties
<1> HIDE DEF t
<1>6. /\ b \in Nat /\ Len(u) = b + 1 /\ Len(t) = b + 1 + m
      /\ u[b + 1] = Slash
      /\ \/ b = 0 /\ Len(s) = 1
         \/ b = Len(s) /\ b > 1 /\ s[b] # Slash
  <2>1. CASE Len(slash) = 0
    <3>1. Len(s) = 1 /\ Len(u) = 1
      BY <1>1, <1>3, <1>4, <2>1
    <3>2. u[1] = s[1]
      BY <1>4, <2>1, <3>1
    <3> QED
      BY <1>1, <1>2, <1>5, <3>1, <3>2
  <2>2. CASE Len(slash) = 1
    <3>1. Len(u) = Len(s) + 1 /\ b = Len(s) /\ s[Len(s)] # Slash /\ slash[1] = Slash
      BY <1>1, <1>3, <1>4, <2>2
    <3>2. Len(s) # 1
      BY <1>1, <3>1
    <3>3. b + 1 \in 1 .. Len(s) + Len(slash) /\ ~(b + 1 <= Len(s)) /\ b + 1 - Len(s) = 1
      BY <1>1, <2>2, <3>1
    <3>4. u[b + 1] = Slash
      BY <1>4, <3>1, <3>3
    <3> QED
      BY <1>1, <1>2, <1>5, <3>1, <3>2, <3>4
  <2> QED
    BY <1>3, <2>1, <2>2
<1> HIDE DEF b
<1>7. ASSUME NEW i \in 0 .. (b - 1)
      PROVE  CharAt(t, i) = CharAt(s, i) /\ CharAt(s, i) # Nul
  <2>1. /\ i \in Nat /\ i < Len(t) /\ i < Len(s) /\ i + 1 \in 1 .. Len(u) + m /\ i + 1 <= Len(u)
        /\ i + 1 \in 1 .. Len(s) + Len(slash) /\ i + 1 <= Len(s)
    <3>1. i \in Nat /\ i + 1 <= b /\ b \in Nat /\ Len(u) = b + 1 /\ Len(t) = b + 1 + m /\ m \in Nat
      BY <1>2, <1>6
    <3>2. b <= Len(s)
      BY <1>1, <1>6
    <3> QED
      BY <1>1, <1>4, <3>1, <3>2
  <2>2. CharAt(t, i) = t[i + 1] /\ CharAt(s, i) = s[i + 1] /\ CharAt(s, i) # Nul
    BY <1>1, <2>1, StringCharacters DEF CharAt
  <2> QED
    BY <1>4, <1>5, <2>1, <2>2
<1>8. CharAt(t, b) = Slash
  <2>1. b < Len(t) /\ b + 1 \in 1 .. Len(u) + m /\ b + 1 <= Len(u)
    BY <1>2, <1>6
  <2> QED
    BY <1>5, <1>6, <2>1 DEF CharAt
<1>9. ASSUME NEW i \in (b + 1) .. (b + m)
      PROVE  CharAt(t, i) \notin {Nul, Slash} /\ CharAt(t, i) = n[i - b]
  <2>1. /\ i < Len(t) /\ i + 1 \in 1 .. Len(u) + m /\ ~(i + 1 <= Len(u)) /\ i + 1 - Len(u) = i - b
        /\ i - b \in 1 .. m
    BY <1>2, <1>6
  <2>2. CharAt(t, i) = t[i + 1] /\ t[i + 1] = n[i - b]
    BY <1>5, <2>1 DEF CharAt
  <2> QED
    BY <1>2, <2>1, <2>2
<1>10. CharAt(t, Len(t)) = Nul
  <2>1. ~(Len(t) < Len(t))
    BY <1>2, <1>6
  <2> QED
    BY <2>1 DEF CharAt
<1>11. \/ b = 0 /\ Len(s) = 1
       \/ b = Len(s) /\ b > 1 /\ CharAt(s, b - 1) # Slash /\ CharAt(s, b) = Nul
  <2> SUFFICES ASSUME b = Len(s), b > 1, s[b] # Slash
               PROVE  CharAt(s, b - 1) # Slash /\ CharAt(s, b) = Nul
    BY <1>6
  <2>1. b - 1 < Len(s) /\ ~(b < Len(s)) /\ b - 1 + 1 = b
    BY <1>6
  <2> QED
    BY <2>1 DEF CharAt
<1>12. t = Extend(s, n)
  BY DEF t, u, slash, Extend
<1>13. t \in Strings
  BY <1>5 DEF Strings, S
<1>14. Extended(s, n, t, b)
  BY <1>6, <1>7, <1>8, <1>9, <1>10, <1>11, <1>13 DEF Extended, m
<1> QED
  BY <1>12, <1>14

LEMMA ExtendedIsPath ==
    ASSUME NEW s, IsPath(s), NEW n \in DirNames, NEW t, NEW b, Extended(s, n, t, b)
    PROVE  IsPath(t)
<1> DEFINE m == Len(n)
<1>1. /\ s \in Strings /\ Len(s) \in Nat /\ Len(s) >= 1 /\ s[1] = Slash
      /\ \A i \in 0 .. Len(s) : \E k \in i .. (i + 8) : k <= Len(s) /\ CharAt(s, k) \in {Nul, Slash}
  BY DEF IsPath, Strings
<1>2. m \in 1 .. 8
  BY DEF DirNames
<1> HIDE DEF m
<1>3. /\ t \in Strings /\ b \in Nat /\ Len(t) = b + 1 + m
      /\ \A i \in 0 .. (b - 1) : CharAt(t, i) = CharAt(s, i)
      /\ CharAt(t, b) = Slash
      /\ \A i \in (b + 1) .. (b + m) : CharAt(t, i) \notin {Nul, Slash}
      /\ CharAt(t, Len(t)) = Nul
      /\ (b = 0 /\ Len(s) = 1) \/ (b = Len(s) /\ b > 1)
  BY DEF Extended, m
<1>4. t[1] = Slash
  <2>1. CharAt(t, 0) = Slash
    <3>1. CASE b = 0
      BY <1>3, <3>1
    <3>2. CASE b > 0
      <4>1. 0 \in 0 .. (b - 1) /\ 0 < Len(s)
        BY <1>1, <1>3, <3>2
      <4> QED
        BY <1>1, <1>3, <4>1 DEF CharAt
    <3> QED
      BY <1>3, <3>1, <3>2
  <2>2. 0 < Len(t)
    BY <1>2, <1>3
  <2> QED
    BY <2>1, <2>2 DEF CharAt
<1>5. t[Len(t)] # Slash
  <2>1. b + m \in (b + 1) .. (b + m) /\ b + m < Len(t) /\ b + m + 1 = Len(t)
    BY <1>2, <1>3
  <2> QED
    BY <1>3, <2>1 DEF CharAt
<1>6. ASSUME NEW i \in 0 .. Len(t)
      PROVE  \E k \in i .. (i + 8) : k <= Len(t) /\ CharAt(t, k) \in {Nul, Slash}
  <2>1. CASE i > b
    <3>1. Len(t) \in i .. (i + 8)
      BY <1>2, <1>3, <2>1
    <3> QED
      BY <1>3, <3>1
  <2>2. CASE i <= b
    <3>1. i \in 0 .. Len(s)
      BY <1>1, <1>3, <2>2
    <3>2. PICK k \in i .. (i + 8) : k <= Len(s) /\ CharAt(s, k) \in {Nul, Slash}
      BY <1>1, <3>1
    <3>3. CASE k < b
      <4>1. k \in 0 .. (b - 1) /\ k <= Len(t)
        BY <1>2, <1>3, <3>3
      <4> QED
        BY <1>3, <3>2, <4>1
    <3>4. CASE ~(k < b)
      <4>1. b \in i .. (i + 8) /\ b <= Len(t)
        BY <1>2, <1>3, <2>2, <3>4
      <4> QED
        BY <1>3, <4>1
    <3> QED
      BY <3>3, <3>4
  <2> QED
    BY <1>3, <2>1, <2>2
<1>7. Len(t) >= 1
  BY <1>2, <1>3
<1> QED
  BY <1>3, <1>4, <1>5, <1>6, <1>7 DEF IsPath

\* Without its last name the string is the one before: the case ".." of UpdateCurrentDirName.
Trimmed(t) ==
    LET separators == {i \in 1 .. (Len(t) - 1) : CharAt(t, i) = Slash}
    IN  SubSeq(t, 1, Max(separators \cup {1}))

LEMMA ExtendedTrims ==
    ASSUME NEW s, IsPath(s), NEW n \in DirNames, NEW b,
           Extended(s, n, Extend(s, n), b)
    PROVE  Trimmed(Extend(s, n)) = s
<1> DEFINE t == Extend(s, n)
           m == Len(n)
           separators == {i \in 1 .. (Len(t) - 1) : CharAt(t, i) = Slash}
           Q == separators \cup {1}
<1>1. s \in Strings /\ Len(s) \in Nat /\ Len(s) >= 1 /\ s[1] = Slash
  BY DEF IsPath, Strings
<1>2. m \in 1 .. 8
  BY DEF DirNames
<1> HIDE DEF m
<1>3. /\ t \in Strings /\ b \in Nat /\ Len(t) = b + 1 + m
      /\ \A i \in 0 .. (b - 1) : CharAt(t, i) = CharAt(s, i)
      /\ CharAt(t, b) = Slash
      /\ \A i \in (b + 1) .. (b + m) : CharAt(t, i) \notin {Nul, Slash}
      /\ (b = 0 /\ Len(s) = 1) \/ (b = Len(s) /\ b > 1)
  BY DEF Extended, m
<1> HIDE DEF t
<1>4. Q \in SUBSET (1 .. Len(t)) /\ Q # {}
  BY <1>2, <1>3
<1>5. Max(Q) \in Q /\ \A x \in Q : x <= Max(Q)
  <2>1. Len(t) \in Nat
    BY <1>2, <1>3
  <2> HIDE DEF Q
  <2> QED
    BY <1>4, <2>1, MaxIsMember
<1>6. Len(s) \in Q /\ \A x \in Q : x <= Len(s)
  <2>1. ASSUME NEW x \in separators PROVE x <= b
    <3>1. x \notin (b + 1) .. (b + m)
      BY <1>3
    <3> QED
      BY <1>2, <1>3, <3>1
  <2>2. CASE b = 0
    BY <1>1, <1>3, <2>1, <2>2
  <2>3. CASE b > 1
    <3>1. b \in separators
      BY <1>2, <1>3, <2>3
    <3> QED
      BY <1>3, <2>1, <2>3, <3>1
  <2> QED
    BY <1>3, <2>2, <2>3
<1> DEFINE top == Max(Q)
<1>7. top = Len(s)
  <2>1. top \in Q /\ Len(s) <= top /\ top <= Len(s) /\ top \in 1 .. Len(t)
    BY <1>4, <1>5, <1>6
  <2> HIDE DEF top
  <2> QED
    BY <1>1, <1>2, <1>3, <2>1
<1>8. SubSeq(t, 1, Len(s)) = s
  <2> DEFINE S == 1 .. 255
             k == Len(s)
  <2>1. t \in Seq(S) /\ s \in Seq(S) /\ k \in 0 .. Len(t) /\ k = Len(s)
    BY <1>1, <1>2, <1>3 DEF Strings
  <2> HIDE DEF S, k
  <2>2. Span(t, 0, k) \in Seq(S) /\ Len(Span(t, 0, k)) = k /\ \A i \in 1 .. k : Span(t, 0, k)[i] = t[i]
    BY <2>1, SpanFromStart
  <2>3. Span(t, 0, k) = SubSeq(t, 1, k)
    BY DEF Span
  <2>4. ASSUME NEW i \in 1 .. k PROVE t[i] = s[i]
    <3>1. i - 1 < Len(t) /\ i - 1 < Len(s) /\ i - 1 + 1 = i
      BY <2>1
    <3>2. CharAt(t, i - 1) = CharAt(s, i - 1)
      <4>1. CASE b = 0
        <5>1. i - 1 = b /\ i = 1
          BY <1>3, <2>1, <4>1
        <5> QED
          BY <1>1, <1>3, <3>1, <5>1 DEF CharAt
      <4>2. CASE b > 1
        <5>1. i - 1 \in 0 .. (b - 1)
          BY <1>3, <2>1, <4>2
        <5> QED
          BY <1>3, <5>1
      <4> QED
        BY <1>3, <4>1, <4>2
    <3> QED
      BY <3>1, <3>2 DEF CharAt
  <2>5. \A i \in 1 .. k : Span(t, 0, k)[i] = s[i]
    BY <2>2, <2>4
  <2>6. Span(t, 0, k) = s
    BY <2>1, <2>2, <2>5, SeqEqual
  <2> QED
    BY <2>3, <2>6 DEF k
<1> HIDE DEF Q
<1> QED
  BY <1>7, <1>8 DEF Trimmed, Q, t

\* The last name is a part by itself.
LEMMA LastPart ==
    ASSUME NEW s, IsPath(s), NEW n \in DirNames, NEW t, NEW b, Extended(s, n, t, b)
    PROVE  Cut(t, b + 1, Slash, 255, {Slash}) = <<n>>
<1> DEFINE m == Len(n)
           size == 255
           slash == {Slash}
           stops == {Nul, Slash}
           i == b + 1
           k == Len(t)
           Parts(j) == Cut(t, j, Slash, size, slash)
<1>1. m \in 1 .. 8 /\ n \in Strings
  BY TypedAreStrings DEF DirNames
<1> HIDE DEF m
<1>2. /\ t \in Strings /\ b \in Nat /\ k = i + m
      /\ \A j \in i .. (b + m) : CharAt(t, j) \notin stops /\ CharAt(t, j) = n[j - b]
      /\ CharAt(t, k) = Nul
  BY DEF Extended, m
<1>3. /\ size \in Nat \ {0} /\ Slash \in slash /\ Nul \notin slash /\ Nul \in stops /\ size = 255
      /\ i \in 0 .. k /\ i \in Nat /\ k \in 0 .. k /\ k \in Nat /\ k \in i .. k
  BY <1>1, <1>2 DEF Slash, Nul
<1>4. FirstIndex(t, i, stops) = k
  <2>1. \A j \in i .. (k - 1) : CharAt(t, j) \notin stops
    <3> TAKE j \in i .. (k - 1)
    <3>1. j \in i .. (b + m)
      BY <1>1, <1>2
    <3> QED
      BY <1>2, <3>1
  <2>2. CharAt(t, k) \in stops
    BY <1>2
  <2> HIDE DEF stops, i
  <2> QED
    BY <1>3, <2>1, <2>2, FirstIndexIs
<1>5. PartEnd(t, i, Slash, size) = k
  <2> DEFINE end == Min({i + size, k})
  <2>1. PartEnd(t, i, Slash, size) = end
    BY <1>4 DEF PartEnd
  <2>2. end \in {i + size, k} /\ end <= k
    <3> DEFINE Q == {i + size, k}
    <3>1. Q \in SUBSET Nat /\ Q # {} /\ k \in Q
      BY <1>3
    <3> HIDE DEF Q
    <3>2. Min(Q) \in Q /\ Min(Q) <= k
      BY <3>1, MinIsMember
    <3> QED
      BY <3>2 DEF Q
  <2> HIDE DEF end
  <2>3. end = k
    BY <1>1, <1>2, <1>3, <2>2
  <2> QED
    BY <2>1, <2>3
<1>6. AfterPart(t, i, Slash, size, slash) = k
  <2>1. CharAt(t, k) \notin slash
    BY <1>2, <1>3
  <2> HIDE DEF k, slash, size, i
  <2> QED
    BY <1>5, <2>1 DEF AfterPart
<1>7. /\ Unfolds(t, i, Slash, size, slash) /\ Unfolds(t, k, Slash, size, slash)
  <2> HIDE DEF size, slash, i
  <2> QED
    BY <1>2, <1>3, CutUnfolds
<1>8. CharAt(t, i) # Nul
  <2>1. i \in i .. (b + m)
    BY <1>1, <1>2
  <2> QED
    BY <1>2, <2>1
<1>9. Span(t, i, k) = n
  <2> DEFINE S == 1 .. 255
  <2>1. t \in Seq(S) /\ n \in Seq(S)
    BY <1>1, <1>2 DEF Strings
  <2> HIDE DEF S
  <2>2. /\ Span(t, i, k) \in Seq(S) /\ Len(Span(t, i, k)) = k - i
        /\ \A x \in 1 .. (k - i) : Span(t, i, k)[x] = t[i + x]
    <3>1. i \in Nat /\ k \in i .. Len(t)
      BY <1>3
    <3> HIDE DEF i, k
    <3> QED
      BY <2>1, <3>1, SpanOfString
  <2>3. ASSUME NEW x \in 1 .. (k - i) PROVE Span(t, i, k)[x] = n[x]
    <3>1. b + x \in i .. (b + m) /\ b + x < k /\ b + x - b = x /\ b + x + 1 = i + x
      BY <1>1, <1>2
    <3>2. CharAt(t, b + x) = n[x] /\ CharAt(t, b + x) = t[i + x]
      BY <1>2, <3>1 DEF CharAt
    <3> QED
      BY <2>2, <3>2
  <2>4. k - i = Len(n)
    BY <1>1, <1>2 DEF m
  <2> HIDE DEF k, i
  <2> QED
    BY <2>1, <2>2, <2>3, <2>4, SeqEqual
<1>10. Parts(k) = <<>>
  <2> HIDE DEF size, slash, k
  <2> QED
    BY <1>2, <1>7 DEF Unfolds
<1>11. Parts(i) = <<n>> \o Parts(k)
  <2> HIDE DEF size, slash, k, i
  <2> QED
    BY <1>5, <1>6, <1>7, <1>8, <1>9 DEF Unfolds
<1> HIDE DEF Parts
<1>12. Parts(i) = <<n>>
  BY <1>10, <1>11
<1> QED
  BY <1>12 DEF Parts

\* The parts of the string with a name more are those before, and the name.
LEMMA ExtendedParts ==
    ASSUME NEW s, IsPath(s), NEW n \in DirNames, NEW t, NEW b, Extended(s, n, t, b)
    PROVE  Names(s) \in Seq(Strings) /\ Names(t) = Append(Names(s), n)
<1> DEFINE N == Len(s)
           m == Len(n)
           size == 255
           slash == {Slash}
           stops == {Nul, Slash}
           A(i) == Cut(s, i, Slash, size, slash)
           B(i) == Cut(t, i, Slash, size, slash)
           Good(i) == 1 <= i /\ i < b => B(i) = Append(A(i), n)
           S == {x \in Nat : \A i \in 0 .. N : i >= N - x => Good(i)}
<1>1. /\ s \in Strings /\ N \in Nat /\ N >= 1 /\ s[1] = Slash /\ n \in Strings
      /\ \A i \in 0 .. N : \E k \in i .. (i + 8) : k <= N /\ CharAt(s, k) \in stops
      /\ m \in 1 .. 8
  BY TypedAreStrings DEF IsPath, Strings, DirNames
<1>2. /\ t \in Strings /\ b \in Nat /\ Len(t) = b + 1 + m
      /\ \A i \in 0 .. (b - 1) : CharAt(t, i) = CharAt(s, i) /\ CharAt(s, i) # Nul
      /\ CharAt(t, b) = Slash
      /\ \/ b = 0 /\ N = 1
         \/ b = N /\ b > 1 /\ CharAt(s, b - 1) # Slash /\ CharAt(s, b) = Nul
  BY DEF Extended
<1>3. B(b + 1) = <<n>>
  BY LastPart
<1>4. /\ size \in Nat \ {0} /\ Slash \in slash /\ Nul \notin slash /\ size = 255 /\ Nul \in stops
      /\ Nul # Slash
  BY DEF Slash, Nul
<1>5. \A i \in 0 .. N : A(i) \in Seq(Strings)
  <2> HIDE DEF size, slash, N
  <2>1. \A i \in 0 .. Len(s) : Cut(s, i, Slash, size, slash) \in Seq(Strings)
    BY <1>1, <1>4, CutParts
  <2> QED
    BY <2>1 DEF N
<1>6. A(N) = <<>>
  <2>1. CharAt(s, N) = Nul /\ N \in 0 .. Len(s)
    BY <1>1, StringCharacters
  <2> HIDE DEF size, slash, N
  <2>2. Unfolds(s, N, Slash, size, slash)
    BY <1>1, <1>4, <2>1, CutUnfolds
  <2> QED
    BY <2>1, <2>2 DEF Unfolds
<1> HIDE DEF m
<1>7. ASSUME NEW i \in 1 .. (b - 1)
      PROVE  \E h \in Strings :
                \/ A(i) = <<h>> \o A(N) /\ B(i) = <<h>> \o B(b + 1)
                \/ \E j \in (i + 1) .. (b - 1) : A(i) = <<h>> \o A(j) /\ B(i) = <<h>> \o B(j)
  <2> DEFINE end == FirstIndex(s, i, stops)
  <2>1. /\ i \in 0 .. N /\ b = N /\ i \in 0 .. Len(t) /\ i \in 0 .. (b - 1)
        /\ Len(s) \in Nat /\ Len(t) \in Nat /\ i \in 0 .. Len(s) /\ i \in Nat
    <3> HIDE DEF N
    <3>1. b = N /\ i \in 0 .. N /\ i \in 0 .. (b - 1) /\ i \in Nat
      BY <1>1, <1>2
    <3>2. Len(t) \in Nat /\ i \in 0 .. Len(t)
      BY <1>1, <1>2
    <3> QED
      BY <1>1, <3>1, <3>2 DEF N
  <2>2. /\ end \in i .. N /\ CharAt(s, end) \in stops
        /\ \A j \in i .. (end - 1) : CharAt(s, j) \notin stops
    <3> HIDE DEF stops
    <3> QED
      BY <1>4, <2>1, FirstIndexFound
  <2> HIDE DEF end
  <2>3. end <= i + 8
    <3>1. PICK k \in i .. (i + 8) : k <= N /\ CharAt(s, k) \in stops
      BY <1>1, <2>1
    <3>2. k \notin i .. (end - 1)
      BY <2>2, <3>1
    <3> QED
      BY <2>1, <2>2, <3>1, <3>2
  <2>4. FirstIndex(t, i, stops) = end
    <3>1. end \in i .. Len(t) /\ end <= b
      BY <1>1, <1>2, <2>1, <2>2
    <3>2. CharAt(t, end) \in stops
      <4>1. end \in 0 .. (b - 1) => CharAt(t, end) = CharAt(s, end)
        BY <1>2
      <4>2. end \in 0 .. (b - 1) \/ end = b
        BY <1>2, <2>1, <2>2, <3>1
      <4> QED
        BY <1>2, <2>2, <4>1, <4>2
    <3>3. \A j \in i .. (end - 1) : CharAt(t, j) \notin stops
      <4> TAKE j \in i .. (end - 1)
      <4>1. j \in 0 .. (b - 1)
        BY <2>1, <2>2, <3>1
      <4> QED
        BY <1>2, <2>2, <4>1
    <3> HIDE DEF stops
    <3> QED
      BY <1>4, <2>1, <3>1, <3>2, <3>3, FirstIndexIs
  <2>5. PartEnd(s, i, Slash, size) = end /\ PartEnd(t, i, Slash, size) = end
    <3> DEFINE least == Min({i + size, end})
    <3>1. PartEnd(s, i, Slash, size) = least /\ PartEnd(t, i, Slash, size) = least
      BY <2>4 DEF PartEnd, end
    <3>2. {i + size, end} \in SUBSET Nat
      BY <1>4, <2>1, <2>2
    <3>3. least \in {i + size, end} /\ least <= end
      BY <3>2, MinIsMember
    <3> HIDE DEF least
    <3>4. least = end
      BY <1>4, <2>1, <2>2, <2>3, <3>3
    <3> QED
      BY <3>1, <3>4
  <2>6. Span(t, i, end) = Span(s, i, end) /\ Span(s, i, end) \in Strings
    <3> DEFINE C == 1 .. 255
    <3>1. s \in Seq(C) /\ t \in Seq(C) /\ end \in i .. Len(s) /\ end \in i .. Len(t) /\ end <= b
      BY <1>1, <1>2, <2>1, <2>2 DEF Strings
    <3> HIDE DEF C
    <3>2. /\ Span(s, i, end) \in Seq(C) /\ Len(Span(s, i, end)) = end - i
          /\ \A x \in 1 .. (end - i) : Span(s, i, end)[x] = s[i + x]
      BY <2>1, <3>1, SpanOfString
    <3>3. /\ Span(t, i, end) \in Seq(C) /\ Len(Span(t, i, end)) = end - i
          /\ \A x \in 1 .. (end - i) : Span(t, i, end)[x] = t[i + x]
      BY <2>1, <3>1, SpanOfString
    <3>4. ASSUME NEW x \in 1 .. (end - i) PROVE t[i + x] = s[i + x]
      <4>1. /\ i + x - 1 \in 0 .. (b - 1) /\ i + x - 1 < Len(s) /\ i + x - 1 < Len(t)
            /\ i + x - 1 + 1 = i + x
        BY <2>1, <3>1
      <4>2. CharAt(t, i + x - 1) = CharAt(s, i + x - 1)
        BY <1>2, <4>1
      <4> QED
        BY <4>1, <4>2 DEF CharAt
    <3>5. \A x \in 1 .. (end - i) : Span(t, i, end)[x] = Span(s, i, end)[x]
      BY <3>2, <3>3, <3>4
    <3>6. Span(t, i, end) = Span(s, i, end)
      BY <3>2, <3>3, <3>5, SeqEqual
    <3> QED
      BY <3>2, <3>6 DEF C, Strings
  <2>7. CharAt(s, i) # Nul /\ CharAt(t, i) # Nul
    BY <1>2, <2>1
  <2>8. /\ A(i) = <<Span(s, i, end)>> \o A(AfterPart(s, i, Slash, size, slash))
        /\ B(i) = <<Span(s, i, end)>> \o B(AfterPart(t, i, Slash, size, slash))
    <3> HIDE DEF size, slash
    <3>1. Unfolds(s, i, Slash, size, slash) /\ Unfolds(t, i, Slash, size, slash)
      BY <1>1, <1>2, <1>4, <2>1, CutUnfolds
    <3> QED
      BY <2>5, <2>6, <2>7, <3>1 DEF Unfolds
  <2>9. /\ AfterPart(s, i, Slash, size, slash) = IF CharAt(s, end) \in slash THEN end + 1 ELSE end
        /\ AfterPart(t, i, Slash, size, slash) = IF CharAt(t, end) \in slash THEN end + 1 ELSE end
    <3> HIDE DEF size, slash
    <3> QED
      BY <2>5 DEF AfterPart
  <2>10. CASE end = b
    <3>1. CharAt(s, end) = Nul /\ CharAt(t, end) = Slash
      BY <1>1, <1>2, <2>1, <2>10
    <3>2. AfterPart(s, i, Slash, size, slash) = N /\ AfterPart(t, i, Slash, size, slash) = b + 1
      <4>1. Nul \notin slash /\ Slash \in slash
        BY DEF Nul, Slash
      <4> HIDE DEF size, slash
      <4> QED
        BY <2>1, <2>10, <2>9, <3>1, <4>1
    <3> HIDE DEF A, B
    <3>3. /\ Span(s, i, end) \in Strings
          /\ A(i) = <<Span(s, i, end)>> \o A(N)
          /\ B(i) = <<Span(s, i, end)>> \o B(b + 1)
      BY <2>6, <2>8, <3>2
    <3> QED
      BY <3>3
  <2>11. CASE end # b
    <3>1. end \in 0 .. (b - 1)
      BY <1>1, <1>2, <2>1, <2>2, <2>11
    <3>2. CharAt(s, end) = Slash /\ CharAt(t, end) = Slash
      BY <1>2, <2>2, <3>1
    <3>3. end # b - 1
      BY <1>1, <1>2, <2>1, <3>2
    <3>4. /\ AfterPart(s, i, Slash, size, slash) = end + 1
          /\ AfterPart(t, i, Slash, size, slash) = end + 1
      <4>1. Slash \in slash
        OBVIOUS
      <4> HIDE DEF size, slash
      <4> QED
        BY <2>9, <3>2, <4>1
    <3>5. end + 1 \in (i + 1) .. (b - 1)
      BY <2>1, <2>2, <3>1, <3>3
    <3> HIDE DEF A, B
    <3>6. /\ Span(s, i, end) \in Strings
          /\ A(i) = <<Span(s, i, end)>> \o A(end + 1)
          /\ B(i) = <<Span(s, i, end)>> \o B(end + 1)
      BY <2>6, <2>8, <3>4
    <3> QED
      BY <3>5, <3>6
  <2> QED
    BY <2>10, <2>11
<1> HIDE DEF A, B, N
<1>8. ASSUME NEW h \in Strings, NEW q \in Seq(Strings)
      PROVE  <<h>> \o Append(q, n) = Append(<<h>> \o q, n)
  <2>1. Append(q, n) = q \o <<n>> /\ <<h>> \in Seq(Strings) /\ <<n>> \in Seq(Strings)
    BY <1>1
  <2>2. <<h>> \o q \in Seq(Strings)
    BY <2>1
  <2>3. Append(<<h>> \o q, n) = (<<h>> \o q) \o <<n>>
    BY <1>1, <2>2
  <2>4. <<h>> \o (q \o <<n>>) = (<<h>> \o q) \o <<n>>
    BY <2>1, ConcatAssociative
  <2> QED
    BY <2>1, <2>3, <2>4
<1>9. 0 \in S
  <2> SUFFICES ASSUME NEW i \in 0 .. N, i >= N - 0 PROVE Good(i)
    OBVIOUS
  <2> QED
    BY <1>1, <1>2
<1>10. ASSUME NEW x \in S PROVE x + 1 \in S
  <2> SUFFICES ASSUME NEW i \in 0 .. N, i >= N - (x + 1) PROVE Good(i)
    OBVIOUS
  <2> SUFFICES ASSUME 1 <= i, i < b PROVE B(i) = Append(A(i), n)
    OBVIOUS
  <2>1. i \in 1 .. (b - 1) /\ b = N
    BY <1>1, <1>2
  <2>2. PICK h \in Strings :
            \/ A(i) = <<h>> \o A(N) /\ B(i) = <<h>> \o B(b + 1)
            \/ \E j \in (i + 1) .. (b - 1) : A(i) = <<h>> \o A(j) /\ B(i) = <<h>> \o B(j)
    BY <1>7, <2>1
  <2>3. CASE A(i) = <<h>> \o A(N) /\ B(i) = <<h>> \o B(b + 1)
    <3>1. <<>> \in Seq(Strings) /\ Append(<<>>, n) = <<n>>
      BY <1>1
    <3> QED
      BY <1>3, <1>6, <1>8, <2>3, <3>1
  <2>4. ASSUME NEW j \in (i + 1) .. (b - 1), A(i) = <<h>> \o A(j), B(i) = <<h>> \o B(j)
        PROVE  B(i) = Append(A(i), n)
    <3>1. j \in 0 .. N /\ j >= N - x /\ 1 <= j /\ j < b
      BY <1>1, <2>1
    <3>2. B(j) = Append(A(j), n) /\ A(j) \in Seq(Strings)
      BY <1>5, <3>1
    <3> QED
      BY <1>8, <2>4, <3>2
  <2> QED
    BY <2>2, <2>3, <2>4
<1>11. S = Nat
  <2> HIDE DEF Good
  <2>1. S \in SUBSET Nat
    OBVIOUS
  <2> HIDE DEF S
  <2> QED
    BY <1>9, <1>10, <2>1, Induction
<1>12. \A i \in 0 .. N : Good(i)
  <2> HIDE DEF Good
  <2>1. N \in S
    BY <1>1, <1>11
  <2>2. \A i \in 0 .. N : i >= N - N => Good(i)
    BY <2>1
  <2> QED
    BY <1>1, <2>2
<1>13. B(1) = Append(A(1), n) /\ A(1) \in Seq(Strings)
  <2>1. A(1) \in Seq(Strings)
    <3>1. 1 \in 0 .. N
      BY <1>1
    <3> QED
      BY <1>5, <3>1
  <2>2. CASE b = 0
    <3>1. N = 1 /\ b + 1 = 1 /\ Append(<<>>, n) = <<n>>
      BY <1>1, <1>2, <2>2
    <3> QED
      BY <1>3, <1>6, <2>1, <3>1
  <2>3. CASE b > 1
    <3>1. 1 \in 0 .. N
      BY <1>1
    <3> QED
      BY <1>12, <2>1, <2>3, <3>1
  <2> QED
    BY <1>2, <2>1, <2>2, <2>3
<1>14. Start(s) = 1 /\ Start(t) = 1
  <2>1. CharAt(s, 0) = Slash
    BY <1>1 DEF CharAt, N
  <2>2. CharAt(t, 0) = Slash
    <3>1. CASE b = 0
      BY <1>2, <3>1
    <3>2. CASE b > 1
      <4>1. 0 \in 0 .. (b - 1)
        BY <1>2, <3>2
      <4> QED
        BY <1>2, <2>1, <4>1
    <3> QED
      BY <1>2, <3>1, <3>2
  <2> QED
    BY <2>1, <2>2 DEF Start
<1> QED
  BY <1>13, <1>14 DEF Names, A, B

\* Paths and where they lead, as a smallest set: the root, and with each directory those
\* in it.
Paths == {s \in Strings : IsPath(s)}

Start1 == <<<<Slash>>, rootDirectory>>

Grown(q, n) == <<Extend(q[1], n), Step(q[2], n)>>

Closed(T) ==
    /\ Start1 \in T
    /\ \A q \in T : \A n \in DirNames : Step(q[2], n).subdir => Grown(q, n) \in T

Tracks ==
    {p \in Paths \X Places : \A T \in SUBSET (Paths \X Places) : Closed(T) => p \in T}

LEMMA StartIsPath == Start1 \in Paths \X Places /\ Names(<<Slash>>) = <<>>
<1> DEFINE s == <<Slash>>
<1>1. s \in Strings /\ Len(s) = 1 /\ s[1] = Slash /\ CharAt(s, 1) = Nul /\ CharAt(s, 0) = Slash
  BY DEF Strings, Slash, CharAt
<1> HIDE DEF s
<1>2. \A i \in 0 .. Len(s) : \E k \in i .. (i + 8) : k <= Len(s) /\ CharAt(s, k) \in {Nul, Slash}
  <2> TAKE i \in 0 .. Len(s)
  <2>1. 1 \in i .. (i + 8) /\ 1 <= Len(s)
    BY <1>1
  <2> QED
    BY <1>1, <2>1
<1>3. s \in Paths
  <2>1. Len(s) >= 1 /\ ~(Len(s) > 1)
    BY <1>1
  <2> QED
    BY <1>1, <1>2, <2>1 DEF IsPath, Paths
<1>4. Names(s) = <<>>
  <2> DEFINE size == 255
             slash == {Slash}
  <2>1. size \in Nat \ {0} /\ Slash \in slash /\ Nul \notin slash /\ 1 \in 0 .. Len(s)
    BY <1>1 DEF Slash, Nul
  <2>2. Start(s) = 1
    BY <1>1 DEF Start
  <2> HIDE DEF size, slash
  <2>3. Unfolds(s, 1, Slash, size, slash)
    BY <1>1, <2>1, CutUnfolds
  <2>4. Cut(s, 1, Slash, size, slash) = <<>>
    BY <1>1, <2>3 DEF Unfolds
  <2> QED
    BY <2>2, <2>4 DEF Names, size, slash
<1> QED
  BY <1>3, <1>4, RootIsPlace DEF Start1, s

LEMMA GrownStays ==
    ASSUME disk \in Disks, NEW q \in Paths \X Places, NEW n \in DirNames, Step(q[2], n).subdir
    PROVE  Grown(q, n) \in Paths \X Places
<1>1. IsPath(q[1]) /\ q[2] \in Places
  BY DEF Paths
<1>2. PICK b : Extended(q[1], n, Extend(q[1], n), b)
  BY <1>1, ExtendedByName
<1>3. Extend(q[1], n) \in Paths
  <2>1. IsPath(Extend(q[1], n))
    BY <1>1, <1>2, ExtendedIsPath
  <2> QED
    BY <2>1 DEF Paths, IsPath
<1>4. Step(q[2], n) \in Places
  <2>1. Step(q[2], n) \in Steps
    BY <1>1, StepStays DEF Steps
  <2>2. ~Missing.subdir
    BY DEF Missing, invalidDirectory
  <2> QED
    BY <2>1, <2>2 DEF Steps
<1> QED
  BY <1>3, <1>4 DEF Grown

LEMMA TracksClosed ==
    ASSUME disk \in Disks
    PROVE  Closed(Tracks)
<1>1. Start1 \in Tracks
  BY StartIsPath DEF Tracks, Closed
<1>2. ASSUME NEW q \in Tracks, NEW n \in DirNames, Step(q[2], n).subdir
      PROVE  Grown(q, n) \in Tracks
  <2>1. q \in Paths \X Places /\ \A T \in SUBSET (Paths \X Places) : Closed(T) => q \in T
    BY DEF Tracks
  <2>2. Grown(q, n) \in Paths \X Places
    BY <1>2, <2>1, GrownStays
  <2>3. ASSUME NEW T \in SUBSET (Paths \X Places), Closed(T) PROVE Grown(q, n) \in T
    BY <1>2, <2>1, <2>3 DEF Closed
  <2> QED
    BY <2>2, <2>3 DEF Tracks
<1> QED
  BY <1>1, <1>2 DEF Closed

\* A path is that of the root, or one name longer than another.
LEMMA TracksEnd ==
    ASSUME disk \in Disks, NEW p \in Tracks
    PROVE  \/ p = Start1
           \/ \E q \in Tracks : \E n \in DirNames : Step(q[2], n).subdir /\ p = Grown(q, n)
<1> DEFINE T == {x \in Tracks : \/ x = Start1
                                \/ \E q \in Tracks : \E n \in DirNames :
                                      Step(q[2], n).subdir /\ x = Grown(q, n)}
<1>1. Start1 \in Tracks /\ \A q \in Tracks : \A n \in DirNames :
                              Step(q[2], n).subdir => Grown(q, n) \in Tracks
  BY TracksClosed DEF Closed
<1>2. Closed(T)
  BY <1>1 DEF Closed
<1>3. T \in SUBSET (Paths \X Places)
  BY DEF Tracks
<1>4. \A S \in SUBSET (Paths \X Places) : Closed(S) => p \in S
  BY DEF Tracks
<1> HIDE DEF T
<1>5. p \in T
  BY <1>2, <1>3, <1>4
<1> QED
  BY <1>5 DEF T

\* Each of them leads where a walk from the root along its parts leads.
LEMMA TracksWalk ==
    ASSUME disk \in Disks, NEW p \in Tracks
    PROVE  /\ p[1] \in Paths /\ p[2] \in Places /\ p[2].subdir
           /\ Walk(Names(p[1])) = p[2]
<1> DEFINE T == {x \in Paths \X Places : /\ x[2].subdir /\ Names(x[1]) \in Seq(Strings)
                                         /\ Walk(Names(x[1])) = x[2]}
<1>1. Start1 \in T
  <2>1. Walk(<<>>) = rootDirectory
    <3> DEFINE none == <<>>
    <3>1. Len(none) = 0 /\ Len(none) \in Nat /\ DOMAIN none = 1 .. Len(none)
          /\ rootDirectory \in Steps
      BY RootIsPlace DEF Steps
    <3> HIDE DEF none
    <3>2. PICK F \in [0 .. Len(none) -> Steps] :
             /\ F[0] = rootDirectory
             /\ \A i \in 1 .. Len(none) : F[i] = Step(F[i - 1], none[i])
             /\ FoldLeft(Step, rootDirectory, none) = F[Len(none)]
      BY <3>1, WalkFollowed
    <3> QED
      BY <3>1, <3>2 DEF Walk, none
  <2>2. rootDirectory.subdir /\ <<>> \in Seq(Strings)
    BY DEF rootDirectory
  <2> QED
    BY <2>1, <2>2, StartIsPath DEF Start1
<1>2. ASSUME NEW q \in T, NEW n \in DirNames, Step(q[2], n).subdir PROVE Grown(q, n) \in T
  <2>1. /\ q \in Paths \X Places /\ q[2].subdir /\ Names(q[1]) \in Seq(Strings)
        /\ Walk(Names(q[1])) = q[2] /\ IsPath(q[1])
    BY DEF Paths
  <2>2. Grown(q, n) \in Paths \X Places
    BY <1>2, <2>1, GrownStays
  <2> DEFINE t == Extend(q[1], n)
             names == Names(q[1])
  <2>3. PICK b : Extended(q[1], n, t, b)
    BY <2>1, ExtendedByName
  <2> HIDE DEF t
  <2>4. Names(t) = Append(names, n)
    BY <2>1, <2>3, ExtendedParts
  <2>5. n \in Strings /\ names \in Seq(Strings)
    BY <2>1, TypedAreStrings DEF DirNames
  <2> HIDE DEF names
  <2>6. Walk(Append(names, n)) = Step(Walk(names), n) /\ Append(names, n) \in Seq(Strings)
    BY <2>5, WalkAppended
  <2>7. Walk(Names(t)) = Step(q[2], n) /\ Names(t) \in Seq(Strings)
    BY <2>1, <2>4, <2>6 DEF names
  <2>8. Grown(q, n)[1] = t /\ Grown(q, n)[2] = Step(q[2], n)
    BY DEF Grown, t
  <2> QED
    BY <1>2, <2>2, <2>7, <2>8
<1>3. Closed(T)
  <2> HIDE DEF T
  <2> QED
    BY <1>1, <1>2 DEF Closed
<1>4. p \in T
  <2>1. T \in SUBSET (Paths \X Places)
    OBVIOUS
  <2> HIDE DEF T
  <2> QED
    BY <1>3, <2>1 DEF Tracks
<1> QED
  BY <1>4

-----------------------------------------------------------------------------
(* The string and the directory, step by step.                             *)

LEMMA DirNameUpdated ==
    ASSUME NEW s
    PROVE  /\ UpdateCurrentDirName(s, Padded(<<Dot>>, 8)) = s
           /\ UpdateCurrentDirName(s, Padded(<<Dot, Dot>>, 8)) = Trimmed(s)
           /\ \A piece : piece \notin DotPieces =>
                 UpdateCurrentDirName(s, piece) = Extend(s, Unpadded(piece))
<1> DEFINE one == Padded(<<Dot>>, 8)
           two == Padded(<<Dot, Dot>>, 8)
<1>1. one # two /\ DotPieces = {one, two}
  <2>1. <<Dot>> \in Dots /\ <<Dot, Dot>> \in Dots /\ Len(<<Dot>>) = 1 /\ Len(<<Dot, Dot>>) = 2
        /\ 1 # 2 /\ Dots = {<<Dot>>, <<Dot, Dot>>}
    BY DEF Dots
  <2>2. Unpadded(one) = <<Dot>> /\ Unpadded(two) = <<Dot, Dot>>
    BY <2>1, DotsUnpadded
  <2>3. <<Dot>> # <<Dot, Dot>>
    BY <2>1
  <2>4. DotPieces = {one, two}
    BY <2>1 DEF DotPieces
  <2> HIDE DEF one, two
  <2> QED
    BY <2>2, <2>3, <2>4
<1> DEFINE U(piece) ==
             CASE piece = one -> s
               [] piece = two -> Trimmed(s)
               [] OTHER -> Extend(s, Unpadded(piece))
<1>2. \A piece : UpdateCurrentDirName(s, piece) = U(piece)
  <2> TAKE piece
  <2>1. s \o (IF Last(s) = Slash THEN <<>> ELSE <<Slash>>) \o Unpadded(piece) = Extend(s, Unpadded(piece))
    BY DEF Extend
  <2> QED
    BY <2>1 DEF UpdateCurrentDirName, Trimmed
<1> HIDE DEF one, two
<1>3. U(one) = s
  BY <1>1
<1>4. U(two) = Trimmed(s)
  BY <1>1
<1>5. \A piece : piece \notin DotPieces => U(piece) = Extend(s, Unpadded(piece))
  BY <1>1
<1> HIDE DEF U
<1> QED
  BY <1>2, <1>3, <1>4, <1>5 DEF one, two

\* A string is a path to a directory.
Shows(text, cluster) == \E r \in Tracks : r[1] = text /\ r[2].cluster = cluster

\* "." and ".." in a directory lead to itself and to the one that its path ends in.
LEMMA DotsLed ==
    ASSUME disk \in Disks, NEW q \in Tracks, NEW k \in 1 .. Len(disk.entries[q[2].cluster]),
           NEW entry, entry = disk.entries[q[2].cluster][k],
           NEW p \in Dots, entry.name = Padded(p, 8)
    PROVE  /\ p = <<Dot>> => entry.cluster = q[2].cluster
           /\ \E u \in Tracks, n \in DirNames :
                 /\ q[1] = Extend(u[1], n) /\ u[1] \in Paths
                 /\ p = <<Dot, Dot>> => entry.cluster = u[2].cluster
<1>1. q[2].cluster \in DOMAIN disk.entries /\ q[2].subdir
  <2>1. q[2] \in Places /\ q[2].subdir
    BY TracksWalk
  <2> QED
    BY <2>1, PlaceFacts
<1>2. IsDots(entry)
  <2>1. p \in Strings /\ Len(p) \in 1 .. 8 /\ p[1] = Dot
    BY DotsTyped
  <2>2. entry.name[1] = Dot
    BY <2>1, PieceStarts
  <2>3. entry.name \in Seq(0 .. 255) /\ Len(entry.name) = 8
    BY <1>1, EntryNamed
  <2>4. Head(entry.name) = entry.name[1]
    BY <2>3
  <2> QED
    BY <2>2, <2>4 DEF IsDots
<1>3. q[2].cluster # 0
  BY <1>2, <1>1, TreeFacts
<1>4. q # Start1
  BY <1>3 DEF Start1, rootDirectory
<1>5. PICK u \in Tracks, n \in DirNames : Step(u[2], n).subdir /\ q = Grown(u, n)
  BY <1>4, TracksEnd
<1>6. /\ q[1] = Extend(u[1], n) /\ q[2] = Step(u[2], n)
  BY <1>5 DEF Grown
<1>7. u[1] \in Paths /\ u[2].cluster \in DOMAIN disk.entries
  <2>1. u[1] \in Paths /\ u[2] \in Places
    BY TracksWalk
  <2> QED
    BY <2>1, PlaceFacts
<1>8. PICK j \in 1 .. Len(disk.entries[u[2].cluster]) :
          q[2] = disk.entries[u[2].cluster][j] /\ ~IsDots(q[2]) /\ ~DELETED_FILENAME(q[2])
  <2> DEFINE x == u[2]
  <2>1. x.cluster \in DOMAIN disk.entries /\ Step(x, n).subdir
    BY <1>5, <1>7
  <2> HIDE DEF x
  <2>2. PICK j \in 1 .. Len(disk.entries[x.cluster]) :
            /\ Step(x, n) = disk.entries[x.cluster][j]
            /\ ~IsDots(Step(x, n)) /\ ~DELETED_FILENAME(Step(x, n))
    BY <2>1, StepArrives
  <2> QED
    BY <1>6, <2>2 DEF x
<1>9. /\ entry.name = Padded(<<Dot>>, 8) => entry.cluster = q[2].cluster
      /\ entry.name = Padded(<<Dot, Dot>>, 8) => entry.cluster = u[2].cluster
  <2> DEFINE c == u[2].cluster
             x == q[2]
  <2>1. /\ c \in DOMAIN disk.entries /\ j \in 1 .. Len(disk.entries[c])
        /\ x = disk.entries[c][j] /\ x.subdir /\ ~IsDots(x) /\ ~DELETED_FILENAME(x)
    BY <1>1, <1>7, <1>8
  <2> HIDE DEF c, x
  <2>2. DotsPoint(disk, x, c)
    BY <2>1, TreeFacts
  <2> QED
    BY <2>2 DEF c, x, DotsPoint
<1> QED
  BY <1>6, <1>7, <1>9

\* What a part of a path does to the string keeps it a path to the directory that the
\* part was found to be.
LEMMA TrackFollowed ==
    ASSUME disk \in Disks, NEW q \in Tracks, NEW p,
           NEW k \in 1 .. Len(disk.entries[q[2].cluster]), NEW entry,
           entry = disk.entries[q[2].cluster][k], entry.subdir, PartNames(p, entry)
    PROVE  Shows(UpdateCurrentDirName(q[1], Padded(p, 8)), entry.cluster)
<1>1. /\ q[1] \in Paths /\ q[2] \in Places /\ q[2].subdir
      /\ q[2].cluster \in DOMAIN disk.entries
  <2>1. /\ q[1] \in Paths /\ q[2] \in Places /\ q[2].subdir
    BY TracksWalk
  <2> QED
    BY <2>1, PlaceFacts
<1>2. CASE /\ NameText(entry) \in DirNames /\ Padded(p, 8) \notin DotPieces
           /\ Unpadded(Padded(p, 8)) = NameText(entry)
  <2> DEFINE n == NameText(entry)
  <2>1. Head(n) # 229
    BY <1>2, DirNameStarts
  <2>2. ~DELETED_FILENAME(entry)
    BY <1>1, <2>1, DirectoryEntry DEF DELETED_FILENAME
  <2>3. Step(q[2], n) = entry
    BY <1>1, <2>2, StepFound
  <2>4. Grown(q, n) \in Tracks
    BY <1>2, <2>3, TracksClosed DEF Closed
  <2>5. UpdateCurrentDirName(q[1], Padded(p, 8)) = Extend(q[1], n)
    <3> DEFINE piece == Padded(p, 8)
    <3>1. \A x : x \notin DotPieces =>
                 UpdateCurrentDirName(q[1], x) = Extend(q[1], Unpadded(x))
      BY DirNameUpdated
    <3>2. piece \notin DotPieces /\ Unpadded(piece) = n
      BY <1>2
    <3> HIDE DEF piece, n
    <3>3. UpdateCurrentDirName(q[1], piece) = Extend(q[1], n)
      BY <3>1, <3>2
    <3> QED
      BY <3>3 DEF piece
  <2>6. Grown(q, n)[1] = Extend(q[1], n) /\ Grown(q, n)[2] = entry
    BY <2>3 DEF Grown
  <2> QED
    BY <2>4, <2>5, <2>6 DEF Shows
<1>3. CASE p \in Dots /\ entry.name = Padded(p, 8)
  <2>1. PICK u \in Tracks, n \in DirNames :
            /\ q[1] = Extend(u[1], n) /\ u[1] \in Paths
            /\ p = <<Dot, Dot>> => entry.cluster = u[2].cluster
    BY <1>3, DotsLed
  <2>2. CASE p = <<Dot>>
    <3>1. UpdateCurrentDirName(q[1], Padded(p, 8)) = q[1] /\ entry.cluster = q[2].cluster
      BY <1>3, <2>2, DirNameUpdated, DotsLed
    <3> QED
      BY <3>1 DEF Shows
  <2>3. CASE p = <<Dot, Dot>>
    <3>1. IsPath(u[1])
      BY <2>1 DEF Paths
    <3>2. PICK b : Extended(u[1], n, Extend(u[1], n), b)
      BY <3>1, ExtendedByName
    <3>3. Trimmed(q[1]) = u[1]
      BY <2>1, <3>1, <3>2, ExtendedTrims
    <3>4. UpdateCurrentDirName(q[1], Padded(p, 8)) = u[1] /\ entry.cluster = u[2].cluster
      BY <2>1, <2>3, <3>3, DirNameUpdated
    <3> QED
      BY <3>4 DEF Shows
  <2> QED
    BY <1>3, <2>2, <2>3 DEF Dots
<1> QED
  BY <1>2, <1>3 DEF PartNames

\* The strings that a path may have made.
Texts == {s \in Strings : Len(s) # 0}

LEMMA DirNameStays ==
    ASSUME NEW s \in Texts, NEW piece \in Strings
    PROVE  UpdateCurrentDirName(s, piece) \in Texts
<1>1. s \in Strings /\ Len(s) \in Nat /\ Len(s) # 0
  BY DEF Texts, Strings
<1>2. Trimmed(s) \in Texts
  <2> DEFINE separators == {i \in 1 .. (Len(s) - 1) : CharAt(s, i) = Slash}
             Q == separators \cup {1}
             top == Max(Q)
  <2>1. Q \in SUBSET (1 .. Len(s)) /\ Q # {}
    BY <1>1
  <2> HIDE DEF Q
  <2>2. top \in 1 .. Len(s)
    BY <1>1, <2>1, MaxIsMember
  <2> HIDE DEF top
  <2> DEFINE S == 1 .. 255
             z == 0
  <2>3. s \in Seq(S) /\ top \in z .. Len(s) /\ z = 0
    BY <1>1, <2>2 DEF Strings
  <2> HIDE DEF S, z
  <2>4. Span(s, 0, top) \in Seq(S) /\ Len(Span(s, 0, top)) = top
    BY <2>3, SpanFromStart
  <2> DEFINE u == Span(s, 0, top)
  <2>5. SubSeq(s, 1, top) = u
    BY DEF Span
  <2> HIDE DEF u
  <2>6. u \in Texts
    BY <2>2, <2>4 DEF Texts, Strings, S, u
  <2> QED
    BY <2>5, <2>6 DEF Trimmed, top, Q
<1>3. Extend(s, Unpadded(piece)) \in Texts
  <2> DEFINE stops == {Nul, Space}
             end == FirstIndex(piece, 0, stops)
             u == Unpadded(piece)
             S == 1 .. 255
             between == IF Last(s) = Slash THEN <<>> ELSE <<Slash>>
  <2>1. Len(piece) \in Nat /\ Nul \in stops
    BY DEF Strings
  <2> HIDE DEF stops
  <2>2. end \in 0 .. Len(piece)
    <3> DEFINE z == 0
    <3>1. z \in 0 .. Len(piece)
      BY <2>1
    <3> HIDE DEF z
    <3>2. FirstIndex(piece, z, stops) \in z .. Len(piece)
      BY <2>1, <3>1, FirstIndexFound
    <3> QED
      BY <3>2 DEF z
  <2> HIDE DEF end
  <2>3. piece \in Seq(S) /\ s \in Seq(S) /\ Slash \in S
    BY <1>1 DEF Strings, Slash
  <2> HIDE DEF S
  <2>4. Span(piece, 0, end) \in Seq(S)
    BY <2>2, <2>3, SpanFromStart
  <2>5. u \in Seq(S)
    BY <2>4 DEF Unpadded, end, stops
  <2> HIDE DEF u
  <2>6. between \in Seq(S) /\ Len(between) \in Nat
    BY <2>3
  <2> HIDE DEF between
  <2>7. s \o between \in Seq(S) /\ Len(s \o between) = Len(s) + Len(between)
    BY <2>3, <2>6
  <2>8. (s \o between) \o u \in Seq(S) /\ Len((s \o between) \o u) = Len(s) + Len(between) + Len(u)
    BY <2>5, <2>7
  <2>9. Len(u) \in Nat
    BY <2>5
  <2>10. Len((s \o between) \o u) # 0
    BY <1>1, <2>6, <2>8, <2>9
  <2>11. Extend(s, Unpadded(piece)) = (s \o between) \o u
    BY DEF Extend, between, u
  <2> QED
    BY <2>8, <2>10, <2>11 DEF Texts, Strings, S
<1> DEFINE after == UpdateCurrentDirName(s, piece)
<1>4. after \in {s, Trimmed(s), Extend(s, Unpadded(piece))}
  BY DirNameUpdated DEF DotPieces, Dots
<1> QED
  BY <1>2, <1>3, <1>4

\* Editing the string visits one string after another.
LEMMA StringFollowed ==
    ASSUME NEW base \in Texts, NEW pieces, Len(pieces) \in Nat,
           DOMAIN pieces = 1 .. Len(pieces), \A i \in 1 .. Len(pieces) : pieces[i] \in Strings
    PROVE  \E F \in [0 .. Len(pieces) -> Texts] :
               /\ F[0] = base
               /\ \A i \in 1 .. Len(pieces) : F[i] = UpdateCurrentDirName(F[i - 1], pieces[i])
               /\ FoldLeft(UpdateCurrentDirName, base, pieces) = F[Len(pieces)]
<1> DEFINE n == Len(pieces)
           Value(f, s) == IF s = {} THEN base ELSE UpdateCurrentDirName(f[s \ {Max(s)}], pieces[Max(s)])
           it == CHOOSE f : f = [s \in SUBSET DOMAIN pieces |-> Value(f, s)]
<1>1. FoldLeft(UpdateCurrentDirName, base, pieces) = it[DOMAIN pieces]
  BY DEF FoldLeft, MapThenFoldSet
<1>2. \E f : f = [s \in SUBSET (1 .. n) |-> Value(f, s)]
  <2> DEFINE g == [x \in (1 .. n) \X Texts |-> UpdateCurrentDirName(x[2], pieces[x[1]])]
  <2>1. \A i \in 1 .. n : \A v \in Texts : g[<<i, v>>] = UpdateCurrentDirName(v, pieces[i])
    OBVIOUS
  <2>2. \A i \in 1 .. n : \A v \in Texts : g[<<i, v>>] \in Texts
    BY <2>1, DirNameStays
  <2> HIDE DEF g
  <2>3. PICK f \in [SUBSET (1 .. n) -> Texts] : \A s \in SUBSET (1 .. n) :
            f[s] = IF s = {} THEN base ELSE g[<<Max(s), f[s \ {Max(s)}]>>]
    <3>1. n \in Nat
      OBVIOUS
    <3> HIDE DEF n
    <3>2. FoldSolvable(n, Texts, base, g)
      BY <2>2, <3>1, FoldExists
    <3> QED
      BY <3>2 DEF FoldSolvable
  <2>4. ASSUME NEW s \in SUBSET (1 .. n) PROVE f[s] = Value(f, s)
    <3>1. CASE s = {}
      BY <2>3, <3>1
    <3>2. CASE s # {}
      <4>1. Max(s) \in 1 .. n
        BY <3>2, MaxIsMember
      <4> DEFINE top == Max(s)
      <4> HIDE DEF top
      <4>2. top \in 1 .. n /\ f[s \ {top}] \in Texts
        BY <4>1 DEF top
      <4>3. f[s] = g[<<top, f[s \ {top}]>>]
        BY <2>3, <3>2 DEF top
      <4> QED
        BY <2>1, <3>2, <4>2, <4>3 DEF top
    <3> QED
      BY <3>1, <3>2
  <2>5. f = [s \in SUBSET (1 .. n) |-> f[s]]
    OBVIOUS
  <2> HIDE DEF Value
  <2>6. f = [s \in SUBSET (1 .. n) |-> Value(f, s)]
    BY <2>4, <2>5
  <2> QED
    BY <2>6
<1> HIDE DEF Value
<1>3. it = [s \in SUBSET (1 .. n) |-> Value(it, s)]
  BY <1>2
<1> HIDE DEF it
<1> DEFINE F == [i \in 0 .. n |-> it[1 .. i]]
<1>4. F[0] = base
  <2>1. 1 .. 0 = {} /\ {} \in SUBSET (1 .. n)
    OBVIOUS
  <2> QED
    BY <1>3, <2>1 DEF Value
<1>5. ASSUME NEW i \in 1 .. n PROVE F[i] = UpdateCurrentDirName(F[i - 1], pieces[i])
  <2>1. Max(1 .. i) = i /\ (1 .. i) \ {i} = 1 .. (i - 1) /\ 1 .. i # {}
    BY FirstNumbers
  <2>2. 1 .. i \in SUBSET (1 .. n)
    OBVIOUS
  <2>3. it[1 .. i] = UpdateCurrentDirName(it[1 .. (i - 1)], pieces[i])
    BY <1>3, <2>1, <2>2 DEF Value
  <2>4. i \in 0 .. n /\ i - 1 \in 0 .. n
    OBVIOUS
  <2> QED
    BY <2>3, <2>4
<1>6. F \in [0 .. n -> Texts]
  <2> DEFINE S == {i \in Nat : i <= n => F[i] \in Texts}
  <2> HIDE DEF F
  <2>1. 0 \in S
    BY <1>4
  <2>2. ASSUME NEW i \in S PROVE i + 1 \in S
    <3> SUFFICES ASSUME i + 1 <= n PROVE F[i + 1] \in Texts
      OBVIOUS
    <3>1. i + 1 \in 1 .. n /\ i + 1 - 1 = i /\ F[i] \in Texts
      OBVIOUS
    <3>2. F[i + 1] = UpdateCurrentDirName(F[i], pieces[i + 1])
      BY <1>5, <3>1
    <3> QED
      BY <3>1, <3>2, DirNameStays
  <2>3. S = Nat
    <3>1. S \in SUBSET Nat
      OBVIOUS
    <3> HIDE DEF S
    <3> QED
      BY <2>1, <2>2, <3>1, Induction
  <2>4. \A i \in 0 .. n : F[i] \in Texts
    BY <2>3
  <2> QED
    BY <2>4 DEF F
<1>7. FoldLeft(UpdateCurrentDirName, base, pieces) = F[n]
  BY <1>1
<1> HIDE DEF F
<1> QED
  BY <1>4, <1>5, <1>6, <1>7

-----------------------------------------------------------------------------
(* Following a path, and the string beside it.                             *)

LEMMA PathPartsPlain ==
    ASSUME NEW path \in Typed
    PROVE  /\ PathParts(path) \in Seq(Plain)
           /\ (\A k \in DOMAIN PathParts(path) : Len(PathParts(path)[k]) <= 8) =>
                 Pieces(path) = [i \in DOMAIN PathParts(path) |-> Padded(PathParts(path)[i], 8)]
           /\ (\A k \in DOMAIN PathParts(path) : Len(PathParts(path)[k]) <= 12) =>
                 Names(path) = PathParts(path)
<1> DEFINE start == Start(path)
           skipped == 1 .. 255
           size == 19
<1>1. path \in Strings /\ Len(path) \in Nat
  BY TypedAreStrings DEF Typed
<1>2. start \in 0 .. Len(path)
  BY <1>1 DEF Start, CharAt, Slash, Nul
<1>3. Slash \in skipped /\ Nul \notin skipped /\ size \in Nat \ {0}
  BY DEF Slash, Nul
<1> HIDE DEF start, skipped, size
<1>4. Cut(path, start, Slash, size, skipped) \in Seq(Plain)
  <2>1. \A i \in 0 .. Len(path) :
            i < Len(path) => Span(path, i, PartEnd(path, i, Slash, size)) \in Plain
    BY <1>3, PartIsPlain
  <2>2. \A i \in 0 .. Len(path) : Cut(path, i, Slash, size, skipped) \in Seq(Plain)
    BY <1>1, <1>3, <2>1, CutPartsIn
  <2> QED
    BY <1>2, <2>2
<1>5. PathParts(path) = Cut(path, start, Slash, size, skipped)
  BY DEF PathParts, start, size, skipped
<1> DEFINE parts == Cut(path, start, Slash, size, skipped)
<1>6. ASSUME NEW bound \in Nat \ {0}, bound = 8 \/ bound = 255, NEW most, most <= bound, most <= 12,
             most \in Nat, \A k \in DOMAIN parts : Len(parts[k]) <= most
      PROVE  Cut(path, start, Slash, bound, {Slash}) = parts
  <2>1. AgreeFrom(path, start, bound)
    BY <1>1, <1>2, CutsAgree
  <2>2. ASSUME NEW k \in DOMAIN parts PROVE Fits(parts[k], bound)
    <3>1. parts[k] \in Plain
      BY <1>4
    <3>2. Len(parts[k]) \in Nat
      BY <3>1 DEF Plain, Typed
    <3> QED
      BY <1>6, <3>2 DEF Fits
  <2> QED
    BY <2>1, <2>2 DEF AgreeFrom, size, skipped
<1> HIDE DEF parts
<1>7. (\A k \in DOMAIN parts : Len(parts[k]) <= 8) => Cut(path, start, Slash, 8, {Slash}) = parts
  <2> DEFINE eight == 8
             most == 8
  <2>1. /\ eight \in Nat \ {0} /\ eight = 8 /\ eight <= 12
        /\ most \in Nat /\ most = 8 /\ most <= eight /\ most <= 12
    OBVIOUS
  <2> HIDE DEF eight, most
  <2>2. (\A k \in DOMAIN parts : Len(parts[k]) <= most) => Cut(path, start, Slash, eight, {Slash}) = parts
    BY <1>6, <2>1
  <2> QED
    BY <2>1, <2>2
<1>8. (\A k \in DOMAIN parts : Len(parts[k]) <= 12) => Cut(path, start, Slash, 255, {Slash}) = parts
  <2> DEFINE twelve == 12
             long == 255
  <2>1. long \in Nat \ {0} /\ long = 255 /\ twelve \in Nat /\ twelve = 12 /\ twelve <= long /\ twelve <= 12
    OBVIOUS
  <2> HIDE DEF twelve, long
  <2>2. (\A k \in DOMAIN parts : Len(parts[k]) <= twelve) => Cut(path, start, Slash, long, {Slash}) = parts
    BY <1>6, <2>1
  <2> QED
    BY <2>1, <2>2
<1>9. Pieces(path) = [i \in DOMAIN Cut(path, start, Slash, 8, {Slash}) |->
                         Padded(Cut(path, start, Slash, 8, {Slash})[i], 8)]
  BY DEF Pieces, start
<1>10. Names(path) = Cut(path, start, Slash, 255, {Slash})
  BY DEF Names, start
<1>11. PathParts(path) \in Seq(Plain) /\ PathParts(path) = parts
  BY <1>4, <1>5 DEF parts
<1> DEFINE short == \A k \in DOMAIN parts : Len(parts[k]) <= 8
           fits == \A k \in DOMAIN parts : Len(parts[k]) <= 12
<1>12. short => Pieces(path) = [i \in DOMAIN parts |-> Padded(parts[i], 8)]
  <2> HIDE DEF short
  <2> QED
    BY <1>7, <1>9 DEF short
<1>13. fits => Names(path) = parts
  BY <1>8, <1>10
<1> QED
  BY <1>11, <1>12, <1>13

\* The places that Strays goes through are those that the path is followed through.
LEMMA StraysAlong ==
    ASSUME NEW path, ~Strays(path), NEW n \in Nat, Len(PathParts(path)) = n,
           DOMAIN PathParts(path) = 1 .. n, NEW F \in [0 .. n -> Places],
           F[0] = StartDirectory(path),
           \A i \in 1 .. n : F[i] = Descend(F[i - 1], PathParts(path)[i])
    PROVE  \A i \in 1 .. n : F[i] # invalidDirectory =>
               F[i - 1].subdir /\ F[i] \in ToSet(Entries(F[i - 1].cluster))
<1> DEFINE parts == PathParts(path)
           Value(f, i) == IF i = 0 THEN StartDirectory(path) ELSE Descend(f[i - 1], parts[i])
           entry == CHOOSE f : f = [i \in 0 .. Len(parts) |-> Value(f, i)]
<1>1. ~(\E i \in DOMAIN parts :
            /\ entry[i] # invalidDirectory
            /\ ~entry[i - 1].subdir \/ entry[i] \notin ToSet(Entries(entry[i - 1].cluster)))
  BY DEF Strays
<1>2. entry = [i \in 0 .. n |-> Value(entry, i)]
  <2>1. \A i \in 0 .. n : F[i] = Value(F, i)
    OBVIOUS
  <2>2. F = [i \in 0 .. n |-> F[i]]
    OBVIOUS
  <2> HIDE DEF Value
  <2>3. F = [i \in 0 .. n |-> Value(F, i)]
    BY <2>1, <2>2
  <2> QED
    BY <2>3
<1> HIDE DEF entry
<1> DEFINE S == {i \in Nat : i <= n => entry[i] = F[i]}
<1>3. 0 \in S
  BY <1>2
<1>4. ASSUME NEW i \in S PROVE i + 1 \in S
  <2> SUFFICES ASSUME i + 1 <= n PROVE entry[i + 1] = F[i + 1]
    OBVIOUS
  <2>1. i + 1 \in 1 .. n /\ i + 1 \in 0 .. n /\ i + 1 - 1 = i /\ i + 1 # 0 /\ entry[i] = F[i]
    OBVIOUS
  <2>2. entry[i + 1] = Descend(entry[i], parts[i + 1])
    BY <1>2, <2>1
  <2>3. F[i + 1] = Descend(F[i], parts[i + 1])
    BY <2>1
  <2> QED
    BY <2>1, <2>2, <2>3
<1>5. S = Nat
  <2>1. S \in SUBSET Nat
    OBVIOUS
  <2> HIDE DEF S
  <2> QED
    BY <1>3, <1>4, <2>1, Induction
<1>6. \A i \in 0 .. n : entry[i] = F[i]
  BY <1>5
<1> HIDE DEF S, Value
<1>7. ASSUME NEW i \in 1 .. n, F[i] # invalidDirectory
      PROVE  F[i - 1].subdir /\ F[i] \in ToSet(Entries(F[i - 1].cluster))
  <2>1. i \in 0 .. n /\ i - 1 \in 0 .. n
    OBVIOUS
  <2>2. entry[i] = F[i] /\ entry[i - 1] = F[i - 1]
    BY <1>6, <2>1
  <2> QED
    BY <1>1, <1>7, <2>2
<1> QED
  BY <1>7

\* The places that a path passes through, when it has not left the tree.
Passes(path, F) ==
    /\ F[0] = StartDirectory(path)
    /\ \A i \in DOMAIN PathParts(path) :
           /\ F[i - 1].subdir /\ F[i - 1].cluster \in DOMAIN disk.entries
           /\ F[i] # invalidDirectory /\ F[i] \in ToSet(Entries(F[i - 1].cluster))
           /\ F[i] = GetDirectoryEntryWithName(PathParts(path)[i], F[i - 1].cluster)

LEMMA PathPasses ==
    ASSUME Located, NEW path \in Typed, ~Strays(path),
           NEW found, found = GetNestedDirectoryEntry(path), found # invalidDirectory
    PROVE  /\ Len(PathParts(path)) \in Nat /\ DOMAIN PathParts(path) = 1 .. Len(PathParts(path))
           /\ \E F \in [0 .. Len(PathParts(path)) -> Places] :
                 Passes(path, F) /\ F[Len(PathParts(path))] = found
<1> DEFINE parts == PathParts(path)
           base == StartDirectory(path)
           n == Len(parts)
<1>1. disk \in Disks /\ base \in Places
  BY RootIsPlace DEF Located, StartDirectory
<1>2. parts \in Seq(Plain)
  BY PathPartsPlain
<1>3. found = FoldLeft(Descend, base, parts)
  BY DEF GetNestedDirectoryEntry
<1> HIDE DEF parts
<1>4. n \in Nat /\ DOMAIN parts = 1 .. n /\ \A i \in 1 .. n : parts[i] \in Plain
  <2>1. n \in Nat /\ DOMAIN parts = 1 .. n
    BY <1>2
  <2> QED
    BY <1>2, <2>1, ElementOfSeq
<1>5. PICK F \in [0 .. Len(parts) -> Places] :
          /\ F[0] = base
          /\ \A i \in 1 .. Len(parts) : F[i] = Descend(F[i - 1], parts[i])
          /\ FoldLeft(Descend, base, parts) = F[Len(parts)]
  <2> HIDE DEF base
  <2> QED
    BY <1>1, <1>4, PathFollowed
<1> HIDE DEF n
<1>6. /\ F \in [0 .. n -> Places] /\ F[0] = base /\ F[n] = found
      /\ \A i \in 1 .. n : F[i] = Descend(F[i - 1], parts[i])
  BY <1>3, <1>5 DEF n
<1>7. \A i \in 0 .. n : F[i] # invalidDirectory
  <2> DEFINE S == {d \in Nat : d <= n => F[n - d] # invalidDirectory}
  <2>1. 0 \in S
    BY <1>4, <1>6
  <2>2. ASSUME NEW d \in S PROVE d + 1 \in S
    <3> SUFFICES ASSUME d + 1 <= n PROVE F[n - (d + 1)] # invalidDirectory
      OBVIOUS
    <3>1. n - d \in 1 .. n /\ n - d - 1 = n - (d + 1) /\ F[n - d] # invalidDirectory
      BY <1>4
    <3>2. F[n - d] = Descend(F[n - (d + 1)], parts[n - d])
      BY <1>6, <3>1
    <3> QED
      BY <3>1, <3>2 DEF Descend
  <2>3. S = Nat
    <3>1. S \in SUBSET Nat
      OBVIOUS
    <3> HIDE DEF S
    <3> QED
      BY <2>1, <2>2, <3>1, Induction
  <2>4. ASSUME NEW i \in 0 .. n PROVE F[i] # invalidDirectory
    <3> DEFINE d == n - i
    <3>1. d \in Nat /\ d <= n /\ n - d = i
      BY <1>4
    <3> HIDE DEF d
    <3>2. d \in S
      BY <2>3, <3>1
    <3> QED
      BY <3>1, <3>2
  <2> QED
    BY <2>4
<1>8. \A i \in 1 .. n : F[i - 1].subdir /\ F[i] \in ToSet(Entries(F[i - 1].cluster))
  <2>1. Len(PathParts(path)) = n /\ DOMAIN PathParts(path) = 1 .. n /\ F[0] = StartDirectory(path)
    BY <1>4, <1>6 DEF n, parts
  <2>2. \A i \in 1 .. n : F[i] = Descend(F[i - 1], PathParts(path)[i])
    BY <1>6 DEF parts
  <2>3. \A i \in 1 .. n : F[i] # invalidDirectory =>
               F[i - 1].subdir /\ F[i] \in ToSet(Entries(F[i - 1].cluster))
    BY <1>4, <1>6, <2>1, <2>2, StraysAlong
  <2>4. \A i \in 1 .. n : i \in 0 .. n
    BY <1>4
  <2> QED
    BY <1>7, <2>3, <2>4
<1>9. ASSUME NEW i \in 1 .. n
      PROVE  /\ F[i - 1].cluster \in DOMAIN disk.entries /\ F[i] # invalidDirectory
             /\ F[i] = GetDirectoryEntryWithName(parts[i], F[i - 1].cluster)
  <2>1. i - 1 \in 0 .. n /\ i \in 0 .. n
    BY <1>4
  <2>2. F[i - 1] \in Places /\ F[i - 1] # invalidDirectory /\ F[i] # invalidDirectory
    BY <1>6, <1>7, <2>1
  <2>3. F[i - 1].cluster \in DOMAIN disk.entries
    BY <1>1, <2>2, PlaceFacts
  <2>4. F[i] = GetDirectoryEntryWithName(parts[i], F[i - 1].cluster)
    BY <1>6, <2>2 DEF Descend
  <2> QED
    BY <2>2, <2>3, <2>4
<1>10. Passes(path, F)
  <2> HIDE DEF base
  <2> QED
    BY <1>4, <1>6, <1>8, <1>9 DEF Passes, parts, base
<1> QED
  BY <1>4, <1>6, <1>10 DEF n, parts

\* cd: when the path has not left the tree, the string that its text makes is still a path
\* to the directory that is found.
LEMMA PathTracked ==
    ASSUME Located, currentDirectory.subdir,
           Shows(currentDirectoryName, currentDirectory.cluster),
           NEW path \in Typed, ~Strays(path),
           NEW found, found = GetNestedDirectoryEntry(path), found # invalidDirectory, found.subdir
    PROVE  Shows(SetCurrentDirPath(path), found.cluster)
<1> DEFINE parts == PathParts(path)
           base == StartDirectory(path)
           n == Len(parts)
<1>1. disk \in Disks
  BY DEF Located
<1>2. n \in Nat /\ DOMAIN parts = 1 .. n
  BY PathPasses
<1>3. PICK F \in [0 .. n -> Places] : Passes(path, F) /\ F[n] = found
  BY PathPasses
<1>4. /\ F \in [0 .. n -> Places] /\ F[0] = base /\ F[n] = found
      /\ \A i \in 1 .. n :
             /\ F[i - 1].subdir /\ F[i - 1].cluster \in DOMAIN disk.entries
             /\ F[i] # invalidDirectory /\ F[i] \in ToSet(Entries(F[i - 1].cluster))
             /\ F[i] = GetDirectoryEntryWithName(parts[i], F[i - 1].cluster)
  BY <1>2, <1>3 DEF Passes
<1>5. \A i \in 1 .. n : parts[i] \in Plain
  <2>1. parts \in Seq(Plain)
    BY PathPartsPlain
  <2> HIDE DEF parts
  <2> QED
    BY <2>1, ElementOfSeq
<1> HIDE DEF parts, n
<1>6. \A i \in 1 .. n : F[i].subdir
  <2> TAKE i \in 1 .. n
  <2>1. CASE i = n
    BY <1>4, <2>1
  <2>2. CASE i # n
    <3>1. i + 1 \in 1 .. n /\ i + 1 - 1 = i
      BY <1>2, <2>2
    <3> QED
      BY <1>4, <3>1
  <2> QED
    BY <2>1, <2>2
<1>7. ASSUME NEW i \in 1 .. n
       PROVE  /\ \E k \in 1 .. Len(disk.entries[F[i - 1].cluster]) :
                    F[i] = disk.entries[F[i - 1].cluster][k]
              /\ Len(parts[i]) <= 8 /\ PartNames(parts[i], F[i])
  <2> DEFINE c == F[i - 1].cluster
             entry == F[i]
             p == parts[i]
  <2>1. /\ c \in DOMAIN disk.entries /\ entry # invalidDirectory /\ entry.subdir
        /\ entry \in ToSet(Entries(c)) /\ entry = GetDirectoryEntryWithName(p, c) /\ p \in Plain
    BY <1>4, <1>5, <1>6
  <2> HIDE DEF c, entry, p
  <2>2. /\ \E k \in 1 .. Len(disk.entries[c]) : entry = disk.entries[c][k]
        /\ Len(p) <= 8 /\ PartNames(p, entry)
    BY <1>1, <2>1, DirectoryFound
  <2> QED
    BY <2>2 DEF c, entry, p
<1> DEFINE pieces == Pieces(path)
           start == IF Start(path) = 1 THEN <<Slash>> ELSE currentDirectoryName
<1>8. pieces = [i \in 1 .. n |-> Padded(parts[i], 8)]
  <2>1. \A k \in DOMAIN parts : Len(parts[k]) <= 8
    BY <1>2, <1>7
  <2>2. pieces = [i \in DOMAIN parts |-> Padded(parts[i], 8)]
    BY <2>1, PathPartsPlain DEF parts
  <2> QED
    BY <1>2, <2>2
<1>9. SetCurrentDirPath(path) = FoldLeft(UpdateCurrentDirName, start, pieces)
  BY DEF SetCurrentDirPath
<1> HIDE DEF pieces
<1>10. /\ Len(pieces) = n /\ DOMAIN pieces = 1 .. n
       /\ \A i \in 1 .. n : pieces[i] = Padded(parts[i], 8) /\ pieces[i] \in Strings
  <2>1. Len(pieces) = n /\ DOMAIN pieces = 1 .. n
    BY <1>2, <1>8
  <2>2. ASSUME NEW i \in 1 .. n PROVE Padded(parts[i], 8) \in Strings
    <3> DEFINE S == 1 .. 255
               p == parts[i]
               size == 8
    <3>1. p \in Seq(S) /\ Len(p) <= size /\ size \in Nat /\ Space \in S
      BY <1>5, <1>7, TypedAreStrings DEF Plain, Strings, Space
    <3> HIDE DEF S, p, size
    <3>2. Padded(p, size) \in Seq(S)
      BY <3>1, PaddedString
    <3> QED
      BY <3>2 DEF S, p, size, Strings
  <2> QED
    BY <1>8, <2>1, <2>2
<1>11. Shows(start, base.cluster)
  <2>1. CASE Start(path) = 1
    <3>1. Start1 \in Tracks /\ Start1[1] = <<Slash>> /\ Start1[2] = rootDirectory
      BY <1>1, TracksClosed DEF Closed, Start1
    <3>2. start = <<Slash>> /\ base = rootDirectory
      BY <2>1 DEF StartDirectory
    <3> QED
      BY <3>1, <3>2 DEF Shows
  <2>2. CASE Start(path) # 1
    BY <2>2 DEF StartDirectory
  <2> QED
    BY <2>1, <2>2
<1> HIDE DEF start, base
<1>12. start \in Texts
  <2>1. PICK r \in Tracks : r[1] = start
    BY <1>11 DEF Shows
  <2>2. r[1] \in Paths
    BY <1>1, TracksWalk
  <2> QED
    BY <2>1, <2>2 DEF Paths, IsPath, Texts
<1>13. PICK G \in [0 .. Len(pieces) -> Texts] :
          /\ G[0] = start
          /\ \A i \in 1 .. Len(pieces) : G[i] = UpdateCurrentDirName(G[i - 1], pieces[i])
          /\ FoldLeft(UpdateCurrentDirName, start, pieces) = G[Len(pieces)]
  <2>1. Len(pieces) \in Nat /\ DOMAIN pieces = 1 .. Len(pieces)
        /\ \A i \in 1 .. Len(pieces) : pieces[i] \in Strings
    BY <1>2, <1>10
  <2> QED
    BY <1>12, <2>1, StringFollowed
<1> DEFINE T == {i \in Nat : i <= n => Shows(G[i], F[i].cluster)}
<1>14. 0 \in T
  BY <1>4, <1>11, <1>13
<1>15. ASSUME NEW i \in Nat, Shows(G[i], F[i].cluster), i + 1 <= n
       PROVE  Shows(G[i + 1], F[i + 1].cluster)
  <2> DEFINE j == i + 1
  <2>1. j \in 1 .. n /\ j - 1 = i
    BY <1>2, <1>15
  <2> HIDE DEF j
  <2>2. PICK r \in Tracks : r[1] = G[j - 1] /\ r[2].cluster = F[j - 1].cluster
    BY <1>15, <2>1 DEF Shows
  <2> DEFINE p == parts[j]
             entry == F[j]
  <2>3. PartNames(p, entry) /\ entry.subdir
    BY <1>6, <1>7, <2>1
  <2>4. PICK k \in 1 .. Len(disk.entries[r[2].cluster]) : entry = disk.entries[r[2].cluster][k]
    BY <1>7, <2>1, <2>2
  <2>5. G[j] = UpdateCurrentDirName(r[1], Padded(p, 8))
    BY <1>10, <1>13, <2>1, <2>2
  <2> HIDE DEF p, entry
  <2>6. Shows(UpdateCurrentDirName(r[1], Padded(p, 8)), entry.cluster)
    BY <1>1, <2>3, <2>4, TrackFollowed
  <2> QED
    BY <2>5, <2>6 DEF entry, j
<1>16. T = Nat
  <2>1. T \in SUBSET Nat
    OBVIOUS
  <2>2. \A i \in T : i + 1 \in T
    BY <1>2, <1>15
  <2> HIDE DEF T
  <2> QED
    BY <1>14, <2>1, <2>2, Induction
<1>17. Shows(G[n], F[n].cluster)
  BY <1>2, <1>16
<1> QED
  BY <1>4, <1>9, <1>10, <1>13, <1>17

-----------------------------------------------------------------------------
(* The string of pwd, always.                                              *)

Tracked ==
    /\ Located
    /\ ran = "none" => ~strayed
    /\ ~strayed => currentDirectory.subdir /\ Shows(currentDirectoryName, currentDirectory.cluster)

LEMMA ShowsKept ==
    ASSUME disk' = disk, NEW text, NEW cluster
    PROVE  Shows(text, cluster) => Shows(text, cluster)'
<1>1. \A x, n : Step(x, n)' = Step(x, n)
  BY DEF Step, Entries
<1>2. \A q, n : Grown(q, n)' = Grown(q, n)
  BY <1>1 DEF Grown
<1>3. \A T : Closed(T)' <=> Closed(T)
  BY <1>1, <1>2 DEF Closed
<1>4. Tracks' = Tracks
  BY <1>3, PlacesKept DEF Tracks
<1> QED
  BY <1>4 DEF Shows

LEMMA TrackedKept == Tracked /\ [Next]_vars => Tracked'
<1> SUFFICES ASSUME Tracked, [Next]_vars PROVE Tracked'
  OBVIOUS
<1>1. Located'
  BY LocatedKept DEF Tracked
<1>2. CASE UNCHANGED vars
  <2>1. UNCHANGED <<directoryVars, ran>>
    BY <1>2 DEF vars, lineVars
  <2> QED
    BY <1>1, <2>1, ShowsKept DEF Tracked, directoryVars
<1>3. ASSUME NEW line \in Lines, ReactToCommand(line), ran' # "none", disk' = disk,
             UNCHANGED <<currentDirectory, currentDirectoryName>>
      PROVE  Tracked'
  <2>1. ~strayed
    BY <1>3 DEF Tracked, ReactToCommand
  <2> QED
    BY <1>1, <1>3, <2>1, ShowsKept DEF Tracked
<1>4. ASSUME NEW line \in Lines, ReactToCommand(line), cd(arguments') PROVE Tracked'
  <2>1. arguments' \in Typed
    BY <1>4, ArgumentsAreString DEF ReactToCommand
  <2> DEFINE path == FormatInputString(arguments')
             found == GetNestedDirectoryEntry(path)
  <2>2. path \in Typed
    BY <2>1, FormattedIsString
  <2>3. FsFat12_ChangeDirectory(path) /\ ran' = "cd" /\ ran = "none"
    BY <1>4 DEF cd, ReactToCommand
  <2>4. Located /\ currentDirectory.subdir /\ Shows(currentDirectoryName, currentDirectory.cluster)
    BY <2>3 DEF Tracked
  <2>5. disk' = disk
    BY <2>3 DEF FsFat12_ChangeDirectory
  <2> HIDE DEF path
  <2>6. CASE found = invalidDirectory \/ ~found.subdir
    <3>1. UNCHANGED <<currentDirectory, currentDirectoryName>> /\ ran' # "none"
      BY <2>3, <2>6 DEF FsFat12_ChangeDirectory
    <3> QED
      BY <1>3, <1>4, <2>5, <3>1
  <2>7. CASE ~(found = invalidDirectory \/ ~found.subdir)
    <3>1. /\ currentDirectory' = found /\ currentDirectoryName' = SetCurrentDirPath(path)
          /\ strayed' = Strays(path)
      BY <2>3, <2>7 DEF FsFat12_ChangeDirectory
    <3> HIDE DEF found
    <3>2. ASSUME ~Strays(path) PROVE Shows(SetCurrentDirPath(path), found.cluster)
      BY <2>2, <2>4, <2>7, <3>2, PathTracked DEF found
    <3> DEFINE text == SetCurrentDirPath(path)
    <3> HIDE DEF text
    <3>3. ~strayed' => Shows(currentDirectoryName, currentDirectory.cluster)'
      <4>1. ~strayed' => Shows(text, found.cluster)
        BY <3>1, <3>2 DEF text
      <4> QED
        BY <2>5, <3>1, <4>1, ShowsKept DEF text
    <3>4. currentDirectory'.subdir /\ ran' # "none"
      BY <2>3, <2>7, <3>1
    <3> QED
      BY <1>1, <3>3, <3>4 DEF Tracked
  <2> QED
    BY <2>6, <2>7
<1>5. ASSUME NEW line \in Lines, ReactToCommand(line), ~cd(arguments') PROVE Tracked'
  <2>1. ran' # "none" /\ disk' = disk /\ UNCHANGED <<currentDirectory, currentDirectoryName>>
    BY <1>5 DEF ReactToCommand, exit, prompt, readdisk, ls, OpenCommand, ShowCommand, directoryVars
  <2> QED
    BY <1>3, <1>5, <2>1
<1>6. CASE ~strayed /\ ShowPrompt
  <2>1. UNCHANGED directoryVars
    BY <1>6 DEF ShowPrompt
  <2> QED
    BY <1>1, <1>6, <2>1, ShowsKept DEF Tracked, directoryVars
<1> QED
  BY <1>2, <1>4, <1>5, <1>6 DEF Next

LEMMA TrackedInit == Init => Tracked
<1> SUFFICES ASSUME Init PROVE Tracked
  OBVIOUS
<1>1. disk \in Disks /\ currentDirectory = rootDirectory /\ currentDirectoryName = <<Slash>>
      /\ strayed = FALSE
  BY DEF Init, DirectoryInit
<1>2. Start1 \in Tracks /\ Start1[1] = <<Slash>> /\ Start1[2] = rootDirectory
  BY <1>1, TracksClosed DEF Closed, Start1
<1> QED
  BY <1>1, <1>2, RootIsPlace DEF Tracked, Located, Shows, rootDirectory

\* What pwd shows is a path from the root to the current directory, after any commands:
\* the string, edited from the text of each path, and the cluster, found through the
\* entries on the disk, never part (command.c: cd; fat12_functions.c:
\* FsFat12_ChangeDirectory, UpdateCurrentDirName), on every disk whose directories bear
\* ".", ".." and no extensions, until a path leaves the tree.
THEOREM PwdIsCurrent == Spec => []PwdNamesCurrentDirectory
<1>1. Tracked => PwdNamesCurrentDirectory
  <2> SUFFICES ASSUME Tracked, ~strayed
               PROVE  Walk(Names(currentDirectoryName)).cluster = currentDirectory.cluster
    BY DEF PwdNamesCurrentDirectory
  <2>1. PICK r \in Tracks : r[1] = currentDirectoryName /\ r[2].cluster = currentDirectory.cluster
    BY DEF Tracked, Shows
  <2>2. Walk(Names(r[1])) = r[2]
    BY TracksWalk DEF Tracked, Located
  <2> QED
    BY <2>1, <2>2
<1> QED
  BY <1>1, TrackedInit, TrackedKept, PTL DEF Spec

-----------------------------------------------------------------------------
(* What a part of a path names, for files as well.                         *)

LEMMA PartShort ==
    ASSUME NEW p \in Plain, ExtractFileExtension(p) # NULL
    PROVE  Len(p) <= 12
<1>1. /\ p \in Strings /\ Len(p) \in Nat /\ \A i \in Nat : CharAt(p, i) # Slash
  BY TypedAreStrings DEF Plain, Typed
<1>2. \A i \in Nat : CharAt(p, i) \in {Nul, Slash} => i >= Len(p)
  BY <1>1, StringCharacters
<1>3. PICK d, end : ExtensionCut(p, d, end)
  BY <1>1, ExtensionIsCut
<1>4. end \in Nat /\ end <= 8
  BY <1>1, <1>3 DEF ExtensionCut
<1>5. CASE CharAt(p, end) # Dot
  <2>1. CharAt(p, end) \in {Nul, Slash}
    BY <1>3, <1>5 DEF ExtensionCut
  <2> QED
    BY <1>1, <1>2, <1>4, <2>1
<1>6. ASSUME NEW m \in 1 .. 3, CharAt(p, end + 1 + m) \in {Nul, Slash} PROVE Len(p) <= 12
  <2>1. end + 1 + m \in Nat /\ end + 1 + m <= 12
    BY <1>4
  <2>2. end + 1 + m >= Len(p)
    BY <1>2, <1>6, <2>1
  <2> QED
    BY <1>1, <2>1, <2>2
<1> QED
  BY <1>3, <1>5, <1>6 DEF ExtensionCut

\* What is read of a string: up to its first space.
LEMMA UnpaddedCut ==
    ASSUME NEW p \in Strings, NEW k \in 0 .. Len(p),
           \A i \in 1 .. k : p[i] # Space, k = Len(p) \/ p[k + 1] = Space
    PROVE  Unpadded(p) = Span(p, 0, k)
<1> DEFINE stops == {Nul, Space}
<1>1. Len(p) \in Nat /\ Nul \in stops /\ 0 \in 0 .. Len(p)
  BY DEF Strings
<1>2. CharAt(p, k) \in stops
  BY <1>1 DEF CharAt
<1>3. ASSUME NEW j \in 0 .. (k - 1) PROVE CharAt(p, j) \notin stops
  <2>1. j \in Nat /\ j < Len(p) /\ j + 1 \in 1 .. k
    BY <1>1
  <2>2. CharAt(p, j) = p[j + 1] /\ ~(j >= Len(p)) /\ (CharAt(p, j) = Nul <=> j >= Len(p))
    BY <2>1, StringCharacters
  <2> QED
    BY <2>1, <2>2
<1> HIDE DEF stops
<1>4. FirstIndex(p, 0, stops) = k
  <2> DEFINE z == 0
  <2>1. z \in 0 .. Len(p) /\ k \in z .. Len(p) /\ \A j \in z .. (k - 1) : CharAt(p, j) \notin stops
    BY <1>1, <1>3
  <2> HIDE DEF z
  <2>2. FirstIndex(p, z, stops) = k
    BY <1>1, <1>2, <2>1, FirstIndexIs
  <2> QED
    BY <2>2 DEF z
<1> QED
  BY <1>4 DEF Unpadded, stops

\* A part with a regular name, and no space before the dot, reads as the name found for it.
LEMMA PartNamed ==
    ASSUME NEW p \in Plain, NEW entry, ExtractFileName(p) = entry.name,
           ExtractFileExtension(p) = entry.ext, Len(entry.name) = 8, Len(entry.ext) = 3,
           ~SpaceBeforeDot(p), CharAt(p, 0) # Dot
    PROVE  Unpadded(p) = NameText(entry)
<1>1. /\ p \in Strings /\ Len(p) \in Nat /\ \A i \in Nat : CharAt(p, i) # Slash
  BY TypedAreStrings DEF Plain, Typed
<1>2. ExtractFileName(p) # NULL /\ ExtractFileExtension(p) # NULL
  <2>1. Len(NULL) = 0 /\ 8 # 0 /\ 3 # 0
    BY DEF NULL
  <2> QED
    BY <2>1
<1>3. PICK k : NameCut(p, k)
  BY <1>1, <1>2, NameIsCut
<1>4. PICK d, end : ExtensionCut(p, d, end)
  BY <1>1, <1>2, ExtensionIsCut
<1> DEFINE n == Span(p, 0, k)
<1>5. /\ k \in 0 .. 8 /\ k <= Len(p) /\ entry.name = Padded(n, 8) /\ k \in 0 .. Len(p) /\ k \in Nat
      /\ CharAt(p, k) \in NameEnds /\ \A j \in 0 .. (k - 1) : CharAt(p, j) \notin NameEnds
  <2>1. /\ k \in 0 .. 8 /\ k <= Len(p) /\ entry.name = Padded(n, 8)
        /\ CharAt(p, k) \in NameEnds /\ \A j \in 0 .. (k - 1) : CharAt(p, j) \notin NameEnds
    BY <1>3 DEF NameCut
  <2> QED
    BY <1>1, <2>1
<1>6. n \in Strings /\ Len(n) = k /\ \A i \in 1 .. k : n[i] = p[i]
  <2> DEFINE S == 1 .. 255
  <2>1. p \in Seq(S) /\ k \in 0 .. Len(p)
    BY <1>1, <1>5 DEF Strings
  <2> HIDE DEF S
  <2>2. n \in Seq(S) /\ Len(n) = k /\ \A i \in 1 .. k : n[i] = p[i]
    BY <2>1, SpanFromStart
  <2> QED
    BY <2>2 DEF S, Strings
<1> HIDE DEF n
<1>7. ASSUME NEW i \in 1 .. k PROVE p[i] \notin NameEnds
  <2>1. i - 1 \in 0 .. (k - 1) /\ i - 1 < Len(p) /\ i - 1 + 1 = i
    BY <1>1, <1>5
  <2>2. CharAt(p, i - 1) = p[i]
    BY <2>1 DEF CharAt
  <2> QED
    BY <1>5, <2>1, <2>2
<1>8. \A i \in 1 .. k : p[i] # Space /\ n[i] # Space
  BY <1>6, <1>7 DEF NameEnds
<1>9. Unpadded(entry.name) = n
  <2> DEFINE size == 8
  <2>1. size \in Nat /\ Len(n) <= size /\ k \in 0 .. Len(n)
    BY <1>5, <1>6
  <2>2. Span(n, 0, k) = n
    BY <1>6, SpanWhole
  <2> HIDE DEF size
  <2>3. Unpadded(Padded(n, size)) = Span(n, 0, k)
    BY <1>6, <1>8, <2>1, PaddedUnpadded
  <2> QED
    BY <1>5, <2>2, <2>3 DEF size
<1>10. /\ end \in Nat /\ end \in 0 .. Len(p)
       /\ \A j \in 0 .. (end - 1) : CharAt(p, j) # Dot
       /\ CharAt(p, end) \in {Nul, Slash, Dot}
  <2>1. /\ d \in 0 .. Len(p) /\ (0 \in 0 .. (d - 1) => CharAt(p, 0) = Dot) /\ end \in d .. Len(p)
        /\ CharAt(p, end) \in {Nul, Slash, Dot} /\ \A j \in d .. (end - 1) : CharAt(p, j) # Dot
    BY <1>4 DEF ExtensionCut
  <2>2. d = 0
    BY <1>1, <2>1
  <2> QED
    BY <1>1, <2>1, <2>2
<1>11. CASE CharAt(p, k) # Dot
  <2>1. k = Len(p) \/ p[k + 1] = Space
    <3> SUFFICES ASSUME k # Len(p) PROVE p[k + 1] = Space
      OBVIOUS
    <3>1. k < Len(p)
      BY <1>1, <1>5
    <3>2. CharAt(p, k) = p[k + 1] /\ CharAt(p, k) # Nul /\ CharAt(p, k) # Slash
      BY <1>1, <1>5, <3>1, StringCharacters
    <3> QED
      BY <1>5, <1>11, <3>2 DEF NameEnds
  <2>2. Unpadded(p) = n
    BY <1>1, <1>5, <1>8, <2>1, UnpaddedCut DEF n
  <2>3. CharAt(p, end) # Dot
    <3> SUFFICES ASSUME CharAt(p, end) = Dot PROVE FALSE
      OBVIOUS
    <3>1. end < Len(p)
      BY <1>1, <1>10 DEF CharAt, Nul, Dot
    <3>2. p[end + 1] = Dot
      BY <3>1 DEF CharAt
    <3>3. ~(end < k)
      <4>1. end < k => end \in 0 .. (k - 1)
        BY <1>5, <1>10
      <4> QED
        BY <1>5, <4>1 DEF NameEnds
    <3>4. end # k
      BY <1>11
    <3>5. /\ k + 1 \in 1 .. Len(p) /\ end + 1 \in 1 .. Len(p) /\ k + 1 < end + 1 /\ k # Len(p)
      BY <1>1, <1>5, <1>10, <3>1, <3>3, <3>4
    <3> QED
      BY <2>1, <3>2, <3>5 DEF SpaceBeforeDot
  <2>4. ExtractFileExtension(p) = Padded(<<>>, 3)
    BY <1>4, <2>3 DEF ExtensionCut
  <2>5. Unpadded(entry.ext) = <<>>
    BY <2>4, BlankExtension
  <2>6. n \o <<>> = n
    BY <1>6 DEF Strings
  <2> QED
    BY <1>9, <2>2, <2>5, <2>6 DEF NameText
<1>12. ASSUME CharAt(p, k) = Dot PROVE Unpadded(p) = NameText(entry)
  <2>1. k < Len(p) /\ p[k + 1] = Dot
    BY <1>1, <1>5, <1>12 DEF CharAt, Nul, Dot
  <2>2. end = k
    <3>1. end < k => end \in 0 .. (k - 1)
      BY <1>5, <1>10
    <3>2. k < end => k \in 0 .. (end - 1)
      BY <1>5, <1>10
    <3>3. ~(end < k)
      BY <1>5, <1>10, <3>1 DEF NameEnds
    <3>4. ~(k < end)
      BY <1>10, <1>12, <3>2
    <3> QED
      BY <1>5, <1>10, <3>3, <3>4
  <2>3. PICK m \in 1 .. 3 :
           /\ k + 1 + m <= Len(p) /\ CharAt(p, k + 1) # Space
           /\ CharAt(p, k + 1 + m) \in {Nul, Slash}
           /\ ExtractFileExtension(p) = Padded(Span(p, k + 1, k + 1 + m), 3)
    BY <1>4, <1>12, <2>2 DEF ExtensionCut
  <2>4. k + 1 + m = Len(p) /\ k + 1 \in Nat /\ k + 1 + m \in (k + 1) .. Len(p)
    <3>1. k + 1 + m \in Nat
      BY <1>5
    <3>2. k + 1 + m >= Len(p)
      BY <1>1, <2>3, <3>1, StringCharacters
    <3> QED
      BY <1>1, <1>5, <2>3, <3>1, <3>2
  <2> DEFINE x == Span(p, k + 1, k + 1 + m)
             stops == {Nul, Space}
             e == FirstIndex(x, 0, stops)
  <2>5. x \in Strings /\ Len(x) = m /\ \A i \in 1 .. m : x[i] = p[k + 1 + i]
    <3> DEFINE S == 1 .. 255
               from == k + 1
               to == k + 1 + m
    <3>1. p \in Seq(S) /\ from \in Nat /\ to \in from .. Len(p) /\ to - from = m
      BY <1>1, <1>5, <2>4 DEF Strings
    <3> HIDE DEF S, from, to
    <3>2. /\ Span(p, from, to) \in Seq(S) /\ Len(Span(p, from, to)) = m
          /\ \A i \in 1 .. m : Span(p, from, to)[i] = p[from + i]
      BY <3>1, SpanOfString
    <3> QED
      BY <3>2 DEF S, from, to, Strings
  <2> HIDE DEF x
  <2>6. /\ e \in 0 .. m /\ CharAt(x, e) \in stops /\ \A j \in 0 .. (e - 1) : CharAt(x, j) \notin stops
    <3> DEFINE z == 0
    <3>1. Len(x) \in Nat /\ z \in 0 .. Len(x) /\ Nul \in stops
      BY <2>5
    <3> HIDE DEF z, stops
    <3>2. /\ FirstIndex(x, z, stops) \in z .. Len(x) /\ CharAt(x, FirstIndex(x, z, stops)) \in stops
          /\ \A j \in z .. (FirstIndex(x, z, stops) - 1) : CharAt(x, j) \notin stops
      BY <3>1, FirstIndexFound
    <3> QED
      BY <2>5, <3>2 DEF z
  <2> HIDE DEF e
  <2>7. ASSUME NEW i \in 1 .. e PROVE x[i] # Space
    <3>1. i - 1 \in 0 .. (e - 1) /\ i - 1 < Len(x) /\ i - 1 + 1 = i
      BY <2>5, <2>6
    <3>2. CharAt(x, i - 1) = x[i]
      BY <3>1 DEF CharAt
    <3> QED
      BY <2>6, <3>1, <3>2
  <2>8. e = m \/ x[e + 1] = Space
    <3> SUFFICES ASSUME e # m PROVE x[e + 1] = Space
      OBVIOUS
    <3>1. e \in Nat /\ e < Len(x)
      BY <2>5, <2>6
    <3>2. CharAt(x, e) = x[e + 1] /\ CharAt(x, e) # Nul
      BY <2>5, <3>1, StringCharacters
    <3> QED
      BY <2>6, <3>2
  <2>9. e # 0
    <3>1. x[1] = p[k + 1 + 1]
      BY <2>5
    <3>2. CharAt(p, k + 1) = p[k + 1 + 1]
      BY <2>4 DEF CharAt
    <3>3. e = 0 => x[1] = Space
      BY <2>8
    <3> QED
      BY <2>3, <3>1, <3>2, <3>3
  <2> DEFINE y == Span(x, 0, e)
  <2>10. y \in Strings /\ Len(y) = e /\ \A i \in 1 .. e : y[i] = p[k + 1 + i]
    <3> DEFINE S == 1 .. 255
    <3>1. x \in Seq(S) /\ e \in 0 .. Len(x)
      BY <2>5, <2>6 DEF Strings
    <3> HIDE DEF S
    <3>2. y \in Seq(S) /\ Len(y) = e /\ \A i \in 1 .. e : y[i] = x[i]
      BY <3>1, SpanFromStart
    <3>3. \A i \in 1 .. e : i \in 1 .. m
      BY <2>6
    <3> QED
      BY <2>5, <3>2, <3>3 DEF S, Strings
  <2>11. Unpadded(entry.ext) = y
    <3> DEFINE size == 3
    <3>1. size \in Nat /\ Len(x) <= size /\ e \in 0 .. Len(x)
      BY <2>5, <2>6
    <3>2. entry.ext = Padded(x, size)
      BY <2>3 DEF x
    <3> HIDE DEF size
    <3>3. Unpadded(Padded(x, size)) = Span(x, 0, e)
      BY <2>5, <2>7, <2>8, <3>1, PaddedUnpadded
    <3> QED
      BY <3>2, <3>3
  <2> HIDE DEF y
  <2> DEFINE f == k + 1 + e
             q == Span(p, 0, f)
  <2>12. f \in 0 .. Len(p) /\ f \in Nat
    BY <1>5, <2>4, <2>6
  <2>13. q \in Strings /\ Len(q) = f /\ \A i \in 1 .. f : q[i] = p[i]
    <3> DEFINE S == 1 .. 255
    <3>1. p \in Seq(S) /\ f \in 0 .. Len(p)
      BY <1>1, <2>12 DEF Strings
    <3> HIDE DEF S, f
    <3>2. q \in Seq(S) /\ Len(q) = f /\ \A i \in 1 .. f : q[i] = p[i]
      BY <3>1, SpanFromStart
    <3> QED
      BY <3>2 DEF S, Strings
  <2>14. Unpadded(p) = q
    <3>1. ASSUME NEW i \in 1 .. f PROVE p[i] # Space
      <4>1. CASE i <= k
        <5>1. i \in 1 .. k
          BY <4>1, <2>12
        <5> QED
          BY <1>8, <5>1
      <4>2. CASE i = k + 1
        BY <2>1, <4>2 DEF Dot, Space
      <4>3. CASE i > k + 1
        <5> DEFINE j == i - (k + 1)
        <5>1. j \in 1 .. e /\ j \in 1 .. m /\ i = k + 1 + j
          BY <1>5, <2>6, <2>12, <4>3
        <5> HIDE DEF j
        <5> QED
          BY <2>5, <2>7, <5>1
      <4> QED
        BY <1>5, <2>12, <4>1, <4>2, <4>3
    <3>2. f = Len(p) \/ p[f + 1] = Space
      <4>1. e # m => e + 1 \in 1 .. m /\ k + 1 + (e + 1) = f + 1
        BY <1>5, <2>6
      <4> QED
        BY <2>4, <2>5, <2>8, <4>1
    <3> HIDE DEF f
    <3> QED
      BY <1>1, <2>12, <3>1, <3>2, UnpaddedCut
  <2>15. <<Dot>> \in Strings /\ Len(<<Dot>>) = 1 /\ <<Dot>>[1] = Dot
    BY DEF Strings, Dot
  <2> DEFINE dot == <<Dot>>
  <2>16. /\ dot \o y \in Strings /\ Len(dot \o y) = 1 + e
         /\ \A i \in 1 .. 1 + e : (dot \o y)[i] = IF i <= 1 THEN dot[i] ELSE y[i - 1]
    <3> DEFINE S == 1 .. 255
    <3>1. dot \in Seq(S) /\ y \in Seq(S) /\ Len(dot) = 1 /\ Len(y) = e
      BY <2>10, <2>15 DEF Strings
    <3> HIDE DEF S, dot
    <3>2. /\ dot \o y \in Seq(S) /\ Len(dot \o y) = Len(dot) + Len(y)
          /\ \A i \in 1 .. Len(dot) + Len(y) :
                (dot \o y)[i] = IF i <= Len(dot) THEN dot[i] ELSE y[i - Len(dot)]
      BY <3>1, ConcatProperties
    <3> QED
      BY <3>1, <3>2 DEF S, Strings
  <2> HIDE DEF dot
  <2> DEFINE r == dot \o y
  <2>17. ASSUME NEW i \in 1 .. 1 + e PROVE r[i] = p[k + i]
    <3>1. CASE i = 1
      BY <2>1, <2>15, <2>16, <3>1 DEF dot
    <3>2. CASE i # 1
      <4>1. i - 1 \in 1 .. e /\ ~(i <= 1) /\ k + 1 + (i - 1) = k + i
        BY <1>5, <2>6, <3>2
      <4> QED
        BY <2>10, <2>16, <4>1
    <3> QED
      BY <3>1, <3>2
  <2>23. r \in Strings /\ Len(r) = 1 + e
    BY <2>16
  <2> HIDE DEF r
  <2>18. /\ n \o r \in Strings /\ Len(n \o r) = k + (1 + e)
         /\ \A i \in 1 .. k + (1 + e) : (n \o r)[i] = IF i <= k THEN n[i] ELSE r[i - k]
    <3> DEFINE S == 1 .. 255
    <3>1. n \in Seq(S) /\ r \in Seq(S) /\ Len(n) = k /\ Len(r) = 1 + e
      BY <1>6, <2>23 DEF Strings
    <3> HIDE DEF S
    <3>2. /\ n \o r \in Seq(S) /\ Len(n \o r) = Len(n) + Len(r)
          /\ \A i \in 1 .. Len(n) + Len(r) :
                (n \o r)[i] = IF i <= Len(n) THEN n[i] ELSE r[i - Len(n)]
      BY <3>1, ConcatProperties
    <3> QED
      BY <3>1, <3>2 DEF S, Strings
  <2>19. k + (1 + e) = f
    BY <1>5, <2>6
  <2>20. ASSUME NEW i \in 1 .. f PROVE (n \o r)[i] = q[i]
    <3>1. CASE i <= k
      <4>1. i \in 1 .. k
        BY <2>12, <3>1
      <4> QED
        BY <1>6, <2>13, <2>18, <2>19, <3>1, <4>1
    <3>2. CASE ~(i <= k)
      <4>1. i - k \in 1 .. 1 + e /\ k + (i - k) = i
        BY <1>5, <2>6, <2>12, <3>2
      <4> QED
        BY <2>13, <2>17, <2>18, <2>19, <3>2, <4>1
    <3> QED
      BY <3>1, <3>2
  <2> HIDE DEF f, q
  <2>21. n \o r = q
    BY <2>13, <2>18, <2>19, <2>20, SeqEqual DEF Strings
  <2>22. y # <<>>
    BY <2>9, <2>10
  <2> QED
    BY <1>9, <2>11, <2>14, <2>21, <2>22 DEF NameText, r, dot
<1> QED
  BY <1>11, <1>12

LEMMA UnpaddedIn ==
    ASSUME NEW S, NEW s \in Seq(S)
    PROVE  Unpadded(s) \in Seq(S)
<1> DEFINE stops == {Nul, Space}
           end == FirstIndex(s, 0, stops)
<1>1. Len(s) \in Nat /\ Nul \in stops
  OBVIOUS
<1> HIDE DEF stops
<1>2. end \in 0 .. Len(s)
  <2> DEFINE z == 0
  <2>1. z \in 0 .. Len(s)
    BY <1>1
  <2> HIDE DEF z
  <2>2. FirstIndex(s, z, stops) \in z .. Len(s)
    BY <1>1, <2>1, FirstIndexFound
  <2> QED
    BY <2>2 DEF z
<1> HIDE DEF end
<1>3. Span(s, 0, end) \in Seq(S)
  BY <1>2, SpanFromStart
<1> QED
  BY <1>3 DEF Unpadded, end, stops

\* A part of a path and the entry found for it: "." or "..", or what is read of both.
PartReads(p, entry) ==
    IF p \in Dots THEN entry.name = Padded(p, 8)
    ELSE Unpadded(p) = NameText(entry) /\ ~DELETED_FILENAME(entry)

LEMMA PartRead ==
    ASSUME disk \in Disks, NEW c \in DOMAIN disk.entries, NEW p \in Plain, ~SpaceBeforeDot(p),
           NEW k \in 1 .. Len(disk.entries[c]), NEW entry, entry = disk.entries[c][k],
           ExtractFileName(p) = entry.name, ExtractFileExtension(p) = entry.ext
    PROVE  PartReads(p, entry)
<1>1. p \in Strings /\ p \in Seq(1 .. 127)
  BY TypedAreStrings DEF Plain, Typed
<1>2. /\ Len(entry.name) = 8 /\ Len(entry.ext) = 3
      /\ Head(NameText(entry)) = Head(entry.name) /\ Names11(NameText(entry), entry)
  BY EntryNamed, DirectoryEntry
<1>3. CASE CharAt(p, 0) = Dot
  <2>1. ExtractFileName(p) # NULL
    <3>1. Len(NULL) = 0 /\ 8 # 0
      BY DEF NULL
    <3> QED
      BY <1>2, <3>1
  <2>2. PICK m : NameCut(p, m)
    BY <1>1, <2>1, NameIsCut
  <2>3. p \in Dots /\ ExtractFileName(p) = Padded(p, 8)
    BY <1>3, <2>2, PartWithDots
  <2> QED
    BY <2>3 DEF PartReads
<1>4. CASE CharAt(p, 0) # Dot
  <2>1. Unpadded(p) = NameText(entry)
    BY <1>2, <1>4, PartNamed
  <2>2. p \notin Dots
    <3>1. \A t \in Dots : Len(t) \in 1 .. 8 /\ t[1] = Dot
      BY DotsTyped
    <3>2. \A t \in Dots : CharAt(t, 0) = Dot
      BY <3>1 DEF CharAt
    <3> QED
      BY <1>4, <3>2
  <2>3. ~DELETED_FILENAME(entry)
    <3> DEFINE S == 1 .. 127
               u == Unpadded(p)
    <3>1. p \in Seq(S)
      BY <1>1
    <3> HIDE DEF S
    <3>2. u \in Seq(S)
      BY <3>1, UnpaddedIn
    <3>3. Len(u) # 0
      BY <1>2, <2>1 DEF Names11, OneName
    <3>4. Head(u) = Head(entry.name)
      BY <1>2, <2>1
    <3> HIDE DEF u
    <3>5. Head(u) \in S
      BY <3>2, <3>3
    <3>6. 229 \notin S
      BY DEF S
    <3> QED
      BY <3>4, <3>5, <3>6 DEF DELETED_FILENAME
  <2> QED
    BY <2>1, <2>2, <2>3 DEF PartReads
<1> QED
  BY <1>3, <1>4

LEMMA NamesAre ==
    ASSUME NEW s \in Strings
    PROVE  Names(s) \in Seq(Strings)
<1> DEFINE slash == {Slash}
           size == 255
           start == Start(s)
<1>1. Slash \in slash /\ Nul \notin slash /\ size \in Nat \ {0}
  BY DEF Slash, Nul
<1>2. start \in 0 .. Len(s)
  BY DEF Start, CharAt, Slash, Nul, Strings
<1> HIDE DEF slash, size, start
<1>3. Cut(s, start, Slash, size, slash) \in Seq(Strings)
  BY <1>1, <1>2, CutParts
<1> QED
  BY <1>3 DEF Names, slash, size, start

\* Without its last element.
LEMMA FrontIn ==
    ASSUME NEW S, NEW s \in Seq(S)
    PROVE  /\ Front(s) \in Seq(S)
           /\ \A x \in S : Front(Append(s, x)) = s
<1>1. Front(s) \in Seq(S)
  <2>1. CASE Len(s) = 0
    <3>1. Front(s) = <<>>
      BY <2>1 DEF Front
    <3> QED
      BY <3>1
  <2>2. CASE Len(s) # 0
    <3>1. Front(s) = Span(s, 0, Len(s) - 1)
      BY DEF Front, Span
    <3> DEFINE m == Len(s) - 1
    <3>2. m \in 0 .. Len(s)
      BY <2>2
    <3> HIDE DEF m
    <3>3. Span(s, 0, m) \in Seq(S)
      BY <3>2, SpanFromStart
    <3> QED
      BY <3>1, <3>3 DEF m
  <2> QED
    BY <2>1, <2>2
<1>2. ASSUME NEW x \in S PROVE Front(Append(s, x)) = s
  <2> DEFINE r == Append(s, x)
             m == Len(s)
  <2>1. r \in Seq(S) /\ Len(r) = m + 1 /\ m \in Nat /\ \A i \in 1 .. m : r[i] = s[i]
    OBVIOUS
  <2>2. Front(r) = Span(r, 0, m)
    <3> HIDE DEF r
    <3>1. Len(r) - 1 = m /\ 0 + 1 = 1
      BY <2>1
    <3> QED
      BY <3>1 DEF Front, Span
  <2> HIDE DEF r, m
  <2>3. Span(r, 0, m) \in Seq(S) /\ Len(Span(r, 0, m)) = m /\ \A i \in 1 .. m : Span(r, 0, m)[i] = r[i]
    <3>1. m \in 0 .. Len(r)
      BY <2>1
    <3> QED
      BY <2>1, <3>1, SpanFromStart
  <2>4. Span(r, 0, m) = s
    BY <2>1, <2>3, SeqEqual DEF m
  <2> QED
    BY <2>2, <2>4 DEF r
<1> QED
  BY <1>1, <1>2

NameLists == Seq(Strings)

LEMMA NamesStepStays ==
    ASSUME NEW names \in NameLists, NEW n \in Strings
    PROVE  NamesStep(names, n) \in NameLists
<1>1. Front(names) \in NameLists
  BY FrontIn DEF NameLists
<1>2. Append(names, Unpadded(n)) \in NameLists
  <2>1. Unpadded(n) \in Strings
    BY UnpaddedIn DEF Strings
  <2> QED
    BY <2>1 DEF NameLists
<1> DEFINE after == Append(names, Unpadded(n))
           front == Front(names)
<1>3. NamesStep(names, n) \in {names, front, after}
  <2>1. NamesStep(names, n) = CASE n = <<Dot>> -> names
                                [] n = <<Dot, Dot>> -> front
                                [] OTHER -> after
    BY DEF NamesStep
  <2> HIDE DEF front, after
  <2> QED
    BY <2>1
<1> QED
  BY <1>1, <1>2, <1>3

\* Continuing the names visits one sequence of names after another.
LEMMA NamesFollowed ==
    ASSUME NEW base \in NameLists, NEW parts, Len(parts) \in Nat,
           DOMAIN parts = 1 .. Len(parts), \A i \in 1 .. Len(parts) : parts[i] \in Strings
    PROVE  \E F \in [0 .. Len(parts) -> NameLists] :
               /\ F[0] = base
               /\ \A i \in 1 .. Len(parts) : F[i] = NamesStep(F[i - 1], parts[i])
               /\ FoldLeft(NamesStep, base, parts) = F[Len(parts)]
<1> DEFINE n == Len(parts)
           Value(f, s) == IF s = {} THEN base ELSE NamesStep(f[s \ {Max(s)}], parts[Max(s)])
           it == CHOOSE f : f = [s \in SUBSET DOMAIN parts |-> Value(f, s)]
<1>1. FoldLeft(NamesStep, base, parts) = it[DOMAIN parts]
  BY DEF FoldLeft, MapThenFoldSet
<1>2. \E f : f = [s \in SUBSET (1 .. n) |-> Value(f, s)]
  <2> DEFINE g == [x \in (1 .. n) \X NameLists |-> NamesStep(x[2], parts[x[1]])]
  <2>1. \A i \in 1 .. n : \A v \in NameLists : g[<<i, v>>] = NamesStep(v, parts[i])
    OBVIOUS
  <2>2. \A i \in 1 .. n : \A v \in NameLists : g[<<i, v>>] \in NameLists
    BY <2>1, NamesStepStays
  <2> HIDE DEF g
  <2>3. PICK f \in [SUBSET (1 .. n) -> NameLists] : \A s \in SUBSET (1 .. n) :
            f[s] = IF s = {} THEN base ELSE g[<<Max(s), f[s \ {Max(s)}]>>]
    <3>1. n \in Nat
      OBVIOUS
    <3> HIDE DEF n
    <3>2. FoldSolvable(n, NameLists, base, g)
      BY <2>2, <3>1, FoldExists
    <3> QED
      BY <3>2 DEF FoldSolvable
  <2>4. ASSUME NEW s \in SUBSET (1 .. n) PROVE f[s] = Value(f, s)
    <3>1. CASE s = {}
      BY <2>3, <3>1
    <3>2. CASE s # {}
      <4>1. Max(s) \in 1 .. n
        BY <3>2, MaxIsMember
      <4> DEFINE top == Max(s)
      <4> HIDE DEF top
      <4>2. top \in 1 .. n /\ f[s \ {top}] \in NameLists
        BY <4>1 DEF top
      <4>3. f[s] = g[<<top, f[s \ {top}]>>]
        BY <2>3, <3>2 DEF top
      <4> QED
        BY <2>1, <3>2, <4>2, <4>3 DEF top
    <3> QED
      BY <3>1, <3>2
  <2>5. f = [s \in SUBSET (1 .. n) |-> f[s]]
    OBVIOUS
  <2> HIDE DEF Value
  <2>6. f = [s \in SUBSET (1 .. n) |-> Value(f, s)]
    BY <2>4, <2>5
  <2> QED
    BY <2>6
<1> HIDE DEF Value
<1>3. it = [s \in SUBSET (1 .. n) |-> Value(it, s)]
  BY <1>2
<1> HIDE DEF it
<1> DEFINE F == [i \in 0 .. n |-> it[1 .. i]]
<1>4. F[0] = base
  <2>1. 1 .. 0 = {} /\ {} \in SUBSET (1 .. n)
    OBVIOUS
  <2> QED
    BY <1>3, <2>1 DEF Value
<1>5. ASSUME NEW i \in 1 .. n PROVE F[i] = NamesStep(F[i - 1], parts[i])
  <2>1. Max(1 .. i) = i /\ (1 .. i) \ {i} = 1 .. (i - 1) /\ 1 .. i # {}
    BY FirstNumbers
  <2>2. 1 .. i \in SUBSET (1 .. n)
    OBVIOUS
  <2>3. it[1 .. i] = NamesStep(it[1 .. (i - 1)], parts[i])
    BY <1>3, <2>1, <2>2 DEF Value
  <2>4. i \in 0 .. n /\ i - 1 \in 0 .. n
    OBVIOUS
  <2> QED
    BY <2>3, <2>4
<1>6. F \in [0 .. n -> NameLists]
  <2> DEFINE S == {i \in Nat : i <= n => F[i] \in NameLists}
  <2> HIDE DEF F
  <2>1. 0 \in S
    BY <1>4
  <2>2. ASSUME NEW i \in S PROVE i + 1 \in S
    <3> SUFFICES ASSUME i + 1 <= n PROVE F[i + 1] \in NameLists
      OBVIOUS
    <3>1. i + 1 \in 1 .. n /\ i + 1 - 1 = i /\ F[i] \in NameLists
      OBVIOUS
    <3>2. F[i + 1] = NamesStep(F[i], parts[i + 1])
      BY <1>5, <3>1
    <3> QED
      BY <3>1, <3>2, NamesStepStays
  <2>3. S = Nat
    <3>1. S \in SUBSET Nat
      OBVIOUS
    <3> HIDE DEF S
    <3> QED
      BY <2>1, <2>2, <3>1, Induction
  <2>4. \A i \in 0 .. n : F[i] \in NameLists
    BY <2>3
  <2> QED
    BY <2>4 DEF F
<1>7. FoldLeft(NamesStep, base, parts) = F[n]
  BY <1>1
<1> HIDE DEF F
<1> QED
  BY <1>4, <1>5, <1>6, <1>7

\* A list of names is that of a path to a directory.
Led(names, cluster) == \E r \in Tracks : Names(r[1]) = names /\ r[2].cluster = cluster

LEMMA LedWalks ==
    ASSUME disk \in Disks, NEW names, NEW cluster, Led(names, cluster)
    PROVE  Walk(names).cluster = cluster
<1>1. PICK r \in Tracks : Names(r[1]) = names /\ r[2].cluster = cluster
  BY DEF Led
<1> QED
  BY <1>1, TracksWalk

\* What a part of a path does to the names keeps them those of what the part was found to be.
LEMMA PartLed ==
    ASSUME disk \in Disks, NEW q \in Tracks, NEW p \in Plain,
           NEW k \in 1 .. Len(disk.entries[q[2].cluster]), NEW entry,
           entry = disk.entries[q[2].cluster][k], PartReads(p, entry)
    PROVE  /\ Walk(NamesStep(Names(q[1]), p)).cluster = entry.cluster
           /\ entry.subdir /\ PartNames(p, entry) =>
                 Led(NamesStep(Names(q[1]), p), entry.cluster)
<1>1. /\ q[1] \in Paths /\ q[2] \in Places /\ q[2].subdir /\ Walk(Names(q[1])) = q[2]
      /\ q[2].cluster \in DOMAIN disk.entries
  <2>1. /\ q[1] \in Paths /\ q[2] \in Places /\ q[2].subdir /\ Walk(Names(q[1])) = q[2]
    BY TracksWalk
  <2> QED
    BY <2>1, PlaceFacts
<1> DEFINE names == Names(q[1])
<1>2. names \in Seq(Strings) /\ IsPath(q[1])
  BY <1>1, NamesAre DEF Paths
<1>3. ASSUME p \in Dots PROVE Led(NamesStep(names, p), entry.cluster)
  <2>1. entry.name = Padded(p, 8)
    BY <1>3 DEF PartReads
  <2>2. PICK u \in Tracks, n \in DirNames :
            /\ q[1] = Extend(u[1], n) /\ u[1] \in Paths
            /\ p = <<Dot, Dot>> => entry.cluster = u[2].cluster
    BY <1>3, <2>1, DotsLed
  <2>3. CASE p = <<Dot>>
    <3>1. NamesStep(names, p) = names
      BY <2>3 DEF NamesStep
    <3>2. entry.cluster = q[2].cluster
      BY <1>3, <2>1, <2>3, DotsLed
    <3> QED
      BY <3>1, <3>2 DEF Led
  <2>4. CASE p = <<Dot, Dot>>
    <3>1. NamesStep(names, p) = Front(names)
      <4>1. <<Dot, Dot>> # <<Dot>>
        <5>1. Len(<<Dot, Dot>>) = 2 /\ Len(<<Dot>>) = 1 /\ 1 # 2
          OBVIOUS
        <5> QED
          BY <5>1
      <4> QED
        BY <2>4, <4>1 DEF NamesStep
    <3>2. IsPath(u[1])
      BY <2>2 DEF Paths
    <3>3. PICK b : Extended(u[1], n, Extend(u[1], n), b)
      BY <3>2, ExtendedByName
    <3> DEFINE t == Extend(u[1], n)
    <3> HIDE DEF t
    <3>4. Names(u[1]) \in Seq(Strings) /\ Names(t) = Append(Names(u[1]), n)
      BY <3>2, <3>3, ExtendedParts DEF t
    <3>5. n \in Strings
      BY TypedAreStrings DEF DirNames
    <3>6. Front(Append(Names(u[1]), n)) = Names(u[1])
      BY <3>4, <3>5, FrontIn
    <3>7. Front(names) = Names(u[1])
      BY <2>2, <3>4, <3>6 DEF t
    <3> QED
      BY <2>2, <2>4, <3>1, <3>7 DEF Led
  <2> QED
    BY <1>3, <2>3, <2>4 DEF Dots
<1>4. ASSUME p \notin Dots
      PROVE  /\ Walk(NamesStep(names, p)).cluster = entry.cluster
             /\ entry.subdir /\ PartNames(p, entry) => Led(NamesStep(names, p), entry.cluster)
  <2> DEFINE n == NameText(entry)
  <2>1. Unpadded(p) = n /\ ~DELETED_FILENAME(entry)
    BY <1>4 DEF PartReads
  <2>2. NamesStep(names, p) = Append(names, n)
    <3>1. p # <<Dot>> /\ p # <<Dot, Dot>>
      BY <1>4 DEF Dots
    <3>2. NamesStep(names, p) = Append(names, Unpadded(p))
      BY <3>1 DEF NamesStep
    <3> QED
      BY <2>1, <3>2
  <2>3. n \in Strings
    <3>1. p \in Strings
      BY TypedAreStrings DEF Plain
    <3> QED
      BY <2>1, <3>1, UnpaddedIn DEF Strings
  <2>4. Step(q[2], n) = entry
    BY <1>1, <2>1, StepFound
  <2> HIDE DEF n, names
  <2>5. Walk(Append(names, n)) = entry
    <3>1. Walk(Append(names, n)) = Step(Walk(names), n)
      BY <1>2, <2>3, WalkAppended
    <3> QED
      BY <1>1, <2>4, <3>1 DEF names
  <2>6. ASSUME entry.subdir, PartNames(p, entry) PROVE Led(Append(names, n), entry.cluster)
    <3>1. n \in DirNames
      BY <1>4, <2>6 DEF PartNames, n
    <3>2. Grown(q, n) \in Tracks
      BY <2>4, <2>6, <3>1, TracksClosed DEF Closed
    <3>3. PICK b : Extended(q[1], n, Extend(q[1], n), b)
      BY <1>2, <3>1, ExtendedByName
    <3> DEFINE t == Extend(q[1], n)
    <3>4. Grown(q, n)[1] = t /\ Grown(q, n)[2] = entry
      BY <2>4 DEF Grown
    <3> HIDE DEF t
    <3>5. Names(t) = Append(names, n)
      BY <1>2, <3>1, <3>3, ExtendedParts DEF t, names
    <3> QED
      BY <3>2, <3>4, <3>5 DEF Led
  <2> QED
    BY <2>2, <2>5, <2>6
<1> QED
  BY <1>3, <1>4, LedWalks

\* A path that has not left the tree opens what the names make of it, read from the root.
LEMMA PathOpened ==
    ASSUME Located, Shows(currentDirectoryName, currentDirectory.cluster),
           NEW path \in Typed, ~Strays(path),
           NEW found, found = GetNestedDirectoryEntry(path), found # invalidDirectory,
           \A i \in DOMAIN Names(path) : ~SpaceBeforeDot(Names(path)[i])
    PROVE  Walk(FullPath(path)).cluster = found.cluster
<1> DEFINE parts == PathParts(path)
           n == Len(parts)
<1>1. disk \in Disks
  BY DEF Located
<1>2. n \in Nat /\ DOMAIN parts = 1 .. n
  BY PathPasses
<1>3. PICK F \in [0 .. n -> Places] : Passes(path, F) /\ F[n] = found
  BY PathPasses
<1>4. /\ F[0] = StartDirectory(path) /\ F[n] = found
      /\ \A i \in 1 .. n :
             /\ F[i - 1].subdir /\ F[i - 1].cluster \in DOMAIN disk.entries
             /\ F[i] # invalidDirectory /\ F[i] \in ToSet(Entries(F[i - 1].cluster))
             /\ F[i] = GetDirectoryEntryWithName(parts[i], F[i - 1].cluster)
  BY <1>2, <1>3 DEF Passes
<1>5. \A i \in 1 .. n : parts[i] \in Plain
  <2>1. parts \in Seq(Plain)
    BY PathPartsPlain
  <2> HIDE DEF parts
  <2> QED
    BY <2>1, ElementOfSeq
<1> HIDE DEF parts, n
<1>6. ASSUME NEW i \in 1 .. n
      PROVE  /\ \E k \in 1 .. Len(disk.entries[F[i - 1].cluster]) :
                   F[i] = disk.entries[F[i - 1].cluster][k]
             /\ ExtractFileName(parts[i]) = F[i].name
             /\ ExtractFileExtension(parts[i]) = F[i].ext
             /\ Len(parts[i]) <= 12
             /\ F[i].subdir => PartNames(parts[i], F[i])
  <2> DEFINE c == F[i - 1].cluster
             entry == F[i]
             p == parts[i]
  <2>1. /\ c \in DOMAIN disk.entries /\ entry # invalidDirectory
        /\ entry \in ToSet(Entries(c)) /\ entry = GetDirectoryEntryWithName(p, c) /\ p \in Plain
    BY <1>4, <1>5
  <2> HIDE DEF c, entry, p
  <2>2. /\ \E k \in 1 .. Len(disk.entries[c]) : entry = disk.entries[c][k]
        /\ ExtractFileName(p) = entry.name /\ ExtractFileExtension(p) = entry.ext
        /\ Len(entry.ext) = 3
    BY <1>1, <2>1, EntryExtracted
  <2>3. Len(p) <= 12
    <3>1. Len(NULL) = 0 /\ 3 # 0
      BY DEF NULL
    <3>2. ExtractFileExtension(p) # NULL
      BY <2>2, <3>1
    <3> QED
      BY <2>1, <3>2, PartShort
  <2>4. entry.subdir => PartNames(p, entry)
    BY <1>1, <2>1, DirectoryFound
  <2> QED
    BY <2>2, <2>3, <2>4 DEF c, entry, p
<1>7. Names(path) = parts
  <2>1. \A k \in DOMAIN parts : Len(parts[k]) <= 12
    BY <1>2, <1>6
  <2> QED
    BY <2>1, PathPartsPlain DEF parts
<1>8. ASSUME NEW i \in 1 .. n PROVE PartReads(parts[i], F[i])
  <2> DEFINE c == F[i - 1].cluster
             entry == F[i]
             p == parts[i]
  <2>1. ~SpaceBeforeDot(p) /\ p \in Plain /\ c \in DOMAIN disk.entries
    BY <1>2, <1>4, <1>5, <1>7
  <2>2. PICK k \in 1 .. Len(disk.entries[c]) : entry = disk.entries[c][k]
    BY <1>6
  <2>3. ExtractFileName(p) = entry.name /\ ExtractFileExtension(p) = entry.ext
    BY <1>6
  <2> HIDE DEF c, entry, p
  <2>4. PartReads(p, entry)
    BY <1>1, <2>1, <2>2, <2>3, PartRead
  <2> QED
    BY <2>4 DEF entry, p
<1>9. ASSUME NEW i \in 1 .. n, i # n PROVE F[i].subdir
  <2> DEFINE j == i + 1
  <2>1. j \in 1 .. n /\ j - 1 = i
    BY <1>2, <1>9
  <2> HIDE DEF j
  <2>2. F[j - 1].subdir
    BY <1>4, <2>1
  <2> QED
    BY <2>1, <2>2
<1> DEFINE names == IF Start(path) = 1 THEN <<>> ELSE Names(currentDirectoryName)
<1>10. Led(names, F[0].cluster)
  <2>1. CASE Start(path) = 1
    <3>1. Start1 \in Tracks /\ Start1[1] = <<Slash>> /\ Start1[2] = rootDirectory
      BY <1>1, TracksClosed DEF Closed, Start1
    <3>2. Names(<<Slash>>) = <<>>
      BY StartIsPath
    <3>3. names = <<>> /\ F[0] = rootDirectory
      BY <1>4, <2>1 DEF StartDirectory
    <3> QED
      BY <3>1, <3>2, <3>3 DEF Led
  <2>2. CASE Start(path) # 1
    <3>1. PICK r \in Tracks : r[1] = currentDirectoryName /\ r[2].cluster = currentDirectory.cluster
      BY DEF Shows
    <3>2. names = Names(currentDirectoryName) /\ F[0] = currentDirectory
      BY <1>4, <2>2 DEF StartDirectory
    <3> QED
      BY <3>1, <3>2 DEF Led
  <2> QED
    BY <2>1, <2>2
<1>11. FullPath(path) = FoldLeft(NamesStep, names, parts)
  BY <1>7 DEF FullPath
<1> HIDE DEF names
<1>12. names \in NameLists
  <2>1. PICK r \in Tracks : Names(r[1]) = names
    BY <1>10 DEF Led
  <2>2. r[1] \in Strings
    BY <1>1, TracksWalk DEF Paths
  <2> QED
    BY <2>1, <2>2, NamesAre DEF NameLists
<1>13. PICK G \in [0 .. Len(parts) -> NameLists] :
          /\ G[0] = names
          /\ \A i \in 1 .. Len(parts) : G[i] = NamesStep(G[i - 1], parts[i])
          /\ FoldLeft(NamesStep, names, parts) = G[Len(parts)]
  <2>1. \A i \in 1 .. Len(parts) : parts[i] \in Strings
    BY <1>5, TypedAreStrings DEF n, Plain
  <2>2. Len(parts) \in Nat /\ DOMAIN parts = 1 .. Len(parts)
    BY <1>2 DEF n
  <2> QED
    BY <1>12, <2>1, <2>2, NamesFollowed
<1>14. ASSUME NEW j \in 1 .. n, Led(G[j - 1], F[j - 1].cluster)
       PROVE  /\ Walk(G[j]).cluster = F[j].cluster
              /\ F[j].subdir => Led(G[j], F[j].cluster)
  <2>1. PICK r \in Tracks : Names(r[1]) = G[j - 1] /\ r[2].cluster = F[j - 1].cluster
    BY <1>14 DEF Led
  <2> DEFINE p == parts[j]
             entry == F[j]
  <2>2. PartReads(p, entry) /\ p \in Plain /\ (entry.subdir => PartNames(p, entry))
    BY <1>5, <1>6, <1>8
  <2>3. PICK k \in 1 .. Len(disk.entries[r[2].cluster]) : entry = disk.entries[r[2].cluster][k]
    BY <1>6, <2>1
  <2>4. G[j] = NamesStep(Names(r[1]), p)
    BY <1>13, <2>1 DEF n
  <2> HIDE DEF p, entry
  <2>5. /\ Walk(NamesStep(Names(r[1]), p)).cluster = entry.cluster
        /\ entry.subdir /\ PartNames(p, entry) => Led(NamesStep(Names(r[1]), p), entry.cluster)
    BY <1>1, <2>2, <2>3, PartLed
  <2> QED
    BY <2>2, <2>4, <2>5 DEF entry
<1> DEFINE T == {i \in Nat : i < n => Led(G[i], F[i].cluster)}
<1>15. 0 \in T
  BY <1>10, <1>13
<1>16. ASSUME NEW i \in T PROVE i + 1 \in T
  <2> SUFFICES ASSUME i + 1 < n PROVE Led(G[i + 1], F[i + 1].cluster)
    OBVIOUS
  <2> DEFINE j == i + 1
  <2>1. j \in 1 .. n /\ j - 1 = i /\ j # n /\ i < n
    BY <1>2
  <2> HIDE DEF j
  <2>2. Led(G[j], F[j].cluster)
    BY <1>9, <1>14, <2>1
  <2> QED
    BY <2>2 DEF j
<1>17. T = Nat
  <2>1. T \in SUBSET Nat
    OBVIOUS
  <2> HIDE DEF T
  <2> QED
    BY <1>15, <1>16, <2>1, Induction
<1>18. Walk(G[n]).cluster = F[n].cluster
  <2>1. CASE n = 0
    BY <1>1, <1>10, <1>13, <2>1, LedWalks
  <2>2. CASE n # 0
    <3>1. n \in 1 .. n /\ n - 1 \in Nat /\ n - 1 < n
      BY <1>2, <2>2
    <3>2. n - 1 \in T
      BY <1>17, <3>1
    <3>3. Led(G[n - 1], F[n - 1].cluster)
      BY <3>1, <3>2
    <3> QED
      BY <1>14, <3>1, <3>3
  <2> QED
    BY <2>1, <2>2
<1> QED
  BY <1>4, <1>11, <1>13, <1>18 DEF n

\* What the shell has opened last, and whether the path left the tree.
Answered ==
    ran \in {"read", "showFileInfo"} =>
        /\ arguments \in Typed /\ result = Opened(arguments)
        /\ strayed = Strays(FormatInputString(arguments))

LEMMA DescendKept ==
    ASSUME disk' = disk
    PROVE  \A e, n : Descend(e, n)' = Descend(e, n)
<1>1. \A e, n : GetDirectoryEntryWithName(n, e)' = GetDirectoryEntryWithName(n, e)
  <2> TAKE e, n
  <2> QED
    BY DEF GetDirectoryEntryWithName, GetDirectoryEntryByIndex, ScanStop, Entries
<1> QED
  BY <1>1 DEF Descend

LEMMA OpenedKept ==
    ASSUME disk' = disk, currentDirectory' = currentDirectory, NEW path
    PROVE  /\ GetNestedDirectoryEntry(path)' = GetNestedDirectoryEntry(path)
           /\ Strays(path)' = Strays(path)
<1>1. \A e, n : Descend(e, n)' = Descend(e, n)
  BY DescendKept
<1>2. GetNestedDirectoryEntry(path)' = GetNestedDirectoryEntry(path)
  <2>1. StartDirectory(path)' = StartDirectory(path)
    BY DEF StartDirectory
  <2> QED
    BY Zenon, <1>1, <2>1 DEF GetNestedDirectoryEntry, FoldLeft, MapThenFoldSet
<1>3. Strays(path)' = Strays(path)
  <2>1. StartDirectory(path)' = StartDirectory(path)
    BY DEF StartDirectory
  <2>2. \A c : Entries(c)' = Entries(c)
    BY DEF Entries
  <2> DEFINE parts == PathParts(path)
             Value(f, i) == IF i = 0 THEN StartDirectory(path) ELSE Descend(f[i - 1], parts[i])
             Follows(f) == f = [i \in 0 .. Len(parts) |-> Value(f, i)]
             entry == CHOOSE f : Follows(f)
             Leaves(e) == \E i \in DOMAIN parts :
                 /\ e[i] # invalidDirectory
                 /\ ~e[i - 1].subdir \/ e[i] \notin ToSet(Entries(e[i - 1].cluster))
  <2>3. \A f, i : Value(f, i)' = Value(f, i)
    BY <1>1, <2>1
  <2>4. \A f : Follows(f)' = Follows(f)
    <3> HIDE DEF Value
    <3> QED
      BY <2>3
  <2>5. entry' = entry
    <3> HIDE DEF Follows
    <3> QED
      BY Zenon, <2>4
  <2>6. \A e : Leaves(e)' = Leaves(e)
    BY <2>2
  <2>7. Strays(path) = Leaves(entry)
    BY Zenon DEF Strays
  <2>8. Strays(path)' = Leaves(entry)'
    BY Zenon DEF Strays
  <2>9. Leaves(entry)' = Leaves(entry)
    BY <2>2, <2>5
  <2> QED
    BY <2>7, <2>8, <2>9
<1> QED
  BY <1>2, <1>3

LEMMA AnsweredKept == Answered /\ [Next]_vars => Answered'
<1> SUFFICES ASSUME Answered, [Next]_vars PROVE Answered'
  OBVIOUS
<1>1. ASSUME UNCHANGED <<disk, currentDirectory>>
      PROVE  /\ \A path : GetNestedDirectoryEntry(path)' = GetNestedDirectoryEntry(path)
             /\ \A path : Strays(path)' = Strays(path)
  BY <1>1, OpenedKept
<1>2. CASE UNCHANGED vars
  <2>1. UNCHANGED <<disk, currentDirectory, strayed, ran, arguments, result>>
    BY <1>2 DEF vars, lineVars, directoryVars
  <2> QED
    BY <1>1, <2>1 DEF Answered, Opened
<1>3. ASSUME NEW line \in Lines, ReactToCommand(line), OpenCommand(arguments') PROVE Answered'
  <2>1. arguments' \in Typed
    BY <1>3, ArgumentsAreString DEF ReactToCommand
  <2>2. /\ result' = GetNestedDirectoryEntry(FormatInputString(arguments'))
        /\ strayed' = Strays(FormatInputString(arguments'))
        /\ UNCHANGED <<disk, currentDirectory>>
    BY <1>3 DEF OpenCommand, Opened
  <2> QED
    BY <1>1, <2>1, <2>2 DEF Answered, Opened
<1>4. ASSUME NEW line \in Lines, ReactToCommand(line), ~OpenCommand(arguments') PROVE Answered'
  <2>1. ran' \notin {"read", "showFileInfo"}
    BY <1>4 DEF ReactToCommand, exit, prompt, readdisk, ls, cd, ShowCommand
  <2> QED
    BY <2>1 DEF Answered
<1>5. CASE ~strayed /\ ShowPrompt
  BY <1>5 DEF ShowPrompt, Answered
<1> QED
  BY <1>2, <1>3, <1>4, <1>5 DEF Next

\* What the read and file commands open under a path is what the string that pwd shows,
\* continued with the path, names from the root (command.c: read, showFileInfo;
\* fat12_functions.c: FsFat12_GetNestedDirectoryEntry), for every line and every disk of
\* the assumptions, as long as the path stays in the tree.
THEOREM OpenIsFromPwd == Spec => []OpenFollowsPwd
<1>1. Init => Answered
  BY DEF Init, Answered
<1>2. Tracked /\ Answered => OpenFollowsPwd
  <2> DEFINE path == FormatInputString(arguments)
  <2> SUFFICES ASSUME Tracked, Answered, ran \in {"read", "showFileInfo"}, ~strayed,
                      result # invalidDirectory,
                      \A i \in DOMAIN Names(path) : ~SpaceBeforeDot(Names(path)[i])
               PROVE  Walk(FullPath(path)).cluster = result.cluster
    BY DEF OpenFollowsPwd
  <2>1. /\ arguments \in Typed /\ result = GetNestedDirectoryEntry(path) /\ ~Strays(path)
    BY DEF Answered, Opened
  <2>2. path \in Typed
    BY <2>1, FormattedIsString
  <2>3. Located /\ Shows(currentDirectoryName, currentDirectory.cluster)
    BY DEF Tracked
  <2> HIDE DEF path
  <2> QED
    BY <2>1, <2>2, <2>3, PathOpened
<1> QED
  BY <1>1, <1>2, TrackedInit, TrackedKept, AnsweredKept, PTL DEF Spec

-----------------------------------------------------------------------------
(* The number of the sector to read.                                       *)

\* What strToInt has after each character of a number.
LEMMA Converted ==
    ASSUME NEW num \in Seq(Digits)
    PROVE  \E F \in [0 .. Len(num) -> Nat] :
               /\ F[0] = 0
               /\ \A i \in 1 .. Len(num) : F[i] = 10 * F[i - 1] + num[i] - 48
               /\ strToInt(num) = F[Len(num)]
<1> DEFINE n == Len(num)
           Value(f, s) == IF s = {} THEN 0 ELSE 10 * f[s \ {Max(s)}] + num[Max(s)] - 48
           it == CHOOSE f : f = [s \in SUBSET DOMAIN num |-> Value(f, s)]
<1>0. /\ n \in Nat /\ DOMAIN num = 1 .. n
      /\ \A i \in 1 .. n : num[i] \in Digits /\ num[i] - 48 \in Nat /\ num[i] \in Nat
  <2>1. n \in Nat /\ DOMAIN num = 1 .. n
    OBVIOUS
  <2>2. \A i \in 1 .. n : num[i] \in Digits
    BY ElementOfSeq
  <2> QED
    BY <2>1, <2>2 DEF Digits
<1>1. strToInt(num) = it[DOMAIN num]
  BY DEF strToInt, FoldLeft, MapThenFoldSet
<1>2. \E f : f = [s \in SUBSET (1 .. n) |-> Value(f, s)]
  <2> DEFINE g == [x \in (1 .. n) \X Nat |-> 10 * x[2] + num[x[1]] - 48]
  <2>1. \A i \in 1 .. n : \A v \in Nat : g[<<i, v>>] = 10 * v + num[i] - 48
    OBVIOUS
  <2>2. \A i \in 1 .. n : \A v \in Nat : g[<<i, v>>] \in Nat
    <3> SUFFICES ASSUME NEW i \in 1 .. n, NEW v \in Nat PROVE 10 * v + num[i] - 48 \in Nat
      BY <2>1
    <3>1. num[i] \in Nat /\ num[i] - 48 \in Nat
      BY <1>0
    <3> QED
      BY <3>1
  <2> HIDE DEF g
  <2>3. PICK f \in [SUBSET (1 .. n) -> Nat] : \A s \in SUBSET (1 .. n) :
            f[s] = IF s = {} THEN 0 ELSE g[<<Max(s), f[s \ {Max(s)}]>>]
    <3> HIDE DEF n
    <3>2. FoldSolvable(n, Nat, 0, g)
      BY <1>0, <2>2, FoldExists
    <3> QED
      BY <3>2 DEF FoldSolvable
  <2>4. ASSUME NEW s \in SUBSET (1 .. n) PROVE f[s] = Value(f, s)
    <3>1. CASE s = {}
      BY <2>3, <3>1
    <3>2. CASE s # {}
      <4>1. Max(s) \in 1 .. n
        BY <1>0, <3>2, MaxIsMember
      <4> DEFINE top == Max(s)
      <4> HIDE DEF top
      <4>2. top \in 1 .. n /\ f[s \ {top}] \in Nat
        BY <4>1 DEF top
      <4>3. f[s] = g[<<top, f[s \ {top}]>>]
        BY <2>3, <3>2 DEF top
      <4> QED
        BY <2>1, <3>2, <4>2, <4>3 DEF top
    <3> QED
      BY <3>1, <3>2
  <2>5. f = [s \in SUBSET (1 .. n) |-> f[s]]
    OBVIOUS
  <2> HIDE DEF Value
  <2>6. f = [s \in SUBSET (1 .. n) |-> Value(f, s)]
    BY <2>4, <2>5
  <2> QED
    BY <2>6
<1> HIDE DEF Value
<1>3. it = [s \in SUBSET (1 .. n) |-> Value(it, s)]
  BY <1>0, <1>2
<1> HIDE DEF it
<1> DEFINE F == [i \in 0 .. n |-> it[1 .. i]]
<1>4. F[0] = 0
  <2>1. 1 .. 0 = {} /\ {} \in SUBSET (1 .. n) /\ 0 \in 0 .. n
    BY <1>0
  <2>2. it[{}] = 0
    BY <1>3, <2>1 DEF Value
  <2> QED
    BY <2>1, <2>2
<1>5. ASSUME NEW i \in 1 .. n PROVE F[i] = 10 * F[i - 1] + num[i] - 48
  <2>1. Max(1 .. i) = i /\ (1 .. i) \ {i} = 1 .. (i - 1) /\ 1 .. i # {}
    <3>1. i \in Nat \ {0}
      BY <1>0
    <3> QED
      BY <3>1, FirstNumbers
  <2>2. 1 .. i \in SUBSET (1 .. n)
    BY <1>0
  <2>3. it[1 .. i] = 10 * it[1 .. (i - 1)] + num[i] - 48
    BY <1>3, <2>1, <2>2 DEF Value
  <2>4. i \in 0 .. n /\ i - 1 \in 0 .. n
    BY <1>0
  <2> QED
    BY <2>3, <2>4
<1>6. F \in [0 .. n -> Nat]
  <2> DEFINE S == {i \in Nat : i <= n => F[i] \in Nat}
  <2> HIDE DEF F
  <2>1. 0 \in S
    BY <1>4
  <2>2. ASSUME NEW i \in S PROVE i + 1 \in S
    <3> SUFFICES ASSUME i + 1 <= n PROVE F[i + 1] \in Nat
      OBVIOUS
    <3>1. i + 1 \in 1 .. n /\ i + 1 - 1 = i /\ F[i] \in Nat
      BY <1>0
    <3>2. F[i + 1] = 10 * F[i] + num[i + 1] - 48
      BY <1>5, <3>1
    <3>3. num[i + 1] \in Nat /\ num[i + 1] - 48 \in Nat
      BY <1>0, <3>1
    <3> HIDE DEF n
    <3> QED
      BY <3>1, <3>2, <3>3
  <2>3. S = Nat
    <3>1. S \in SUBSET Nat
      OBVIOUS
    <3> HIDE DEF S
    <3> QED
      BY <2>1, <2>2, <3>1, Induction
  <2>4. \A i \in 0 .. n : F[i] \in Nat
    BY <1>0, <2>3
  <2> QED
    BY <2>4 DEF F
<1>7. strToInt(num) = F[n]
  BY <1>0, <1>1
<1> HIDE DEF F
<1> QED
  BY <1>4, <1>5, <1>6, <1>7

LEMMA Tens ==
    ASSUME NEW a \in Nat, NEW c \in 0 .. 9
    PROVE  (10 * a + c) \div 10 = a /\ (10 * a + c) % 10 = c
  BY SMT

\* Dividing by ten takes the digits away again, the last one first.
LEMMA DigitsLeft ==
    ASSUME NEW m \in Nat, NEW F \in [0 .. m -> Nat], NEW d \in [1 .. m -> 0 .. 9],
           \A i \in 1 .. m : F[i] = 10 * F[i - 1] + d[i]
    PROVE  /\ \A k \in 0 .. m : Left(F[m], m)[k] = F[m - k]
           /\ \A i \in 1 .. m : d[i] = F[i] % 10
<1> DEFINE Value(f, k) == IF k = 0 THEN F[m] ELSE f[k - 1] \div 10
           Divides(f) == f = [k \in 0 .. m |-> Value(f, k)]
           left == CHOOSE f : Divides(f)
           G == [k \in 0 .. m |-> F[m - k]]
<1>1. Left(F[m], m) = left
  BY DEF Left
<1>2. \A i \in 1 .. m : F[i - 1] \in Nat /\ d[i] \in 0 .. 9 /\ F[i] \div 10 = F[i - 1] /\ F[i] % 10 = d[i]
  <2> TAKE i \in 1 .. m
  <2>1. F[i - 1] \in Nat /\ d[i] \in 0 .. 9 /\ F[i] = 10 * F[i - 1] + d[i]
    OBVIOUS
  <2>2. (10 * F[i - 1] + d[i]) \div 10 = F[i - 1] /\ (10 * F[i - 1] + d[i]) % 10 = d[i]
    BY <2>1, Tens
  <2> QED
    BY <2>1, <2>2
<1>3. ASSUME NEW k \in 0 .. m PROVE G[k] = Value(G, k)
  <2>1. CASE k = 0
    BY <2>1
  <2>2. CASE k # 0
    <3>1. /\ k - 1 \in 0 .. m /\ m - (k - 1) \in 1 .. m /\ m - (k - 1) - 1 = m - k
      BY <2>2
    <3>2. G[k - 1] = F[m - (k - 1)] /\ G[k] = F[m - k]
      BY <3>1
    <3>3. F[m - (k - 1)] \div 10 = F[m - (k - 1) - 1]
      BY <1>2, <3>1
    <3> HIDE DEF G
    <3> QED
      BY <2>2, <3>1, <3>2, <3>3
  <2> QED
    BY <2>1, <2>2
<1> HIDE DEF Value
<1>4. Divides(left)
  <2>1. G = [k \in 0 .. m |-> Value(G, k)]
    BY <1>3
  <2> HIDE DEF G
  <2>2. \E f : Divides(f)
    BY <2>1
  <2> HIDE DEF Divides
  <2> QED
    BY <2>2
<1> HIDE DEF left
<1>5. \A k \in 0 .. m : left[k] = Value(left, k)
  BY <1>4
<1> DEFINE Q == {k \in Nat : k <= m => left[k] = G[k]}
<1> HIDE DEF G
<1>6. 0 \in Q
  BY <1>3, <1>5 DEF Value
<1>7. ASSUME NEW k \in Q PROVE k + 1 \in Q
  <2> SUFFICES ASSUME k + 1 <= m PROVE left[k + 1] = G[k + 1]
    OBVIOUS
  <2>1. k \in Nat /\ left[k] = G[k]
    OBVIOUS
  <2> HIDE DEF Q
  <2> DEFINE j == k + 1
  <2>2. j \in 0 .. m /\ j # 0 /\ j - 1 = k
    BY <2>1
  <2> HIDE DEF j
  <2>3. left[j] = left[j - 1] \div 10 /\ G[j] = G[j - 1] \div 10
    BY <1>3, <1>5, <2>2 DEF Value
  <2> QED
    BY <2>1, <2>2, <2>3 DEF j
<1>8. Q = Nat
  <2>1. Q \in SUBSET Nat
    OBVIOUS
  <2> HIDE DEF Q
  <2> QED
    BY <1>6, <1>7, <2>1, Induction
<1>9. \A k \in 0 .. m : left[k] = G[k]
  <2> TAKE k \in 0 .. m
  <2>1. k \in Nat /\ k <= m
    OBVIOUS
  <2>2. k \in Q
    BY <1>8, <2>1
  <2> QED
    BY <2>1, <2>2
<1> QED
  BY <1>1, <1>2, <1>9 DEF G

\* What readdisk has for the sector after each word.
LEMMA SectorFollowed ==
    ASSUME NEW argument, Len(Words(argument)) \in Nat,
           DOMAIN Words(argument) = 1 .. Len(Words(argument)),
           \A i \in 1 .. Len(Words(argument)) :
               Words(argument)[i] \in Options \/ strToInt(Words(argument)[i]) \in Nat
    PROVE  \E F \in [0 .. Len(Words(argument)) -> Nat] :
               /\ F[0] = 0
               /\ \A i \in 1 .. Len(Words(argument)) :
                      F[i] = IF Words(argument)[i] \in Options THEN F[i - 1]
                             ELSE strToInt(Words(argument)[i])
               /\ SectorToRead(argument) = F[Len(Words(argument))]
<1> DEFINE words == Words(argument)
           n == Len(words)
           After(v, i) == IF words[i] \in Options THEN v ELSE strToInt(words[i])
           Value(f, s) == IF s = {} THEN 0 ELSE After(f[s \ {Max(s)}], Max(s))
           it == CHOOSE f : f = [s \in SUBSET DOMAIN words |-> Value(f, s)]
<1>0. /\ n \in Nat /\ DOMAIN words = 1 .. n
      /\ \A i \in 1 .. n : \A v \in Nat : After(v, i) \in Nat
  OBVIOUS
<1>1. SectorToRead(argument) = it[DOMAIN words]
  BY DEF SectorToRead, FoldLeft, MapThenFoldSet
<1> HIDE DEF words, After
<1>2. \E f : f = [s \in SUBSET (1 .. n) |-> Value(f, s)]
  <2> DEFINE g == [x \in (1 .. n) \X Nat |-> After(x[2], x[1])]
  <2>1. \A i \in 1 .. n : \A v \in Nat : g[<<i, v>>] = After(v, i)
    OBVIOUS
  <2>2. \A i \in 1 .. n : \A v \in Nat : g[<<i, v>>] \in Nat
    BY <1>0, <2>1
  <2> HIDE DEF g
  <2>3. PICK f \in [SUBSET (1 .. n) -> Nat] : \A s \in SUBSET (1 .. n) :
            f[s] = IF s = {} THEN 0 ELSE g[<<Max(s), f[s \ {Max(s)}]>>]
    <3> HIDE DEF n
    <3>2. FoldSolvable(n, Nat, 0, g)
      BY <1>0, <2>2, FoldExists
    <3> QED
      BY <3>2 DEF FoldSolvable
  <2>4. ASSUME NEW s \in SUBSET (1 .. n) PROVE f[s] = Value(f, s)
    <3>1. CASE s = {}
      BY <2>3, <3>1
    <3>2. CASE s # {}
      <4>1. Max(s) \in 1 .. n
        BY <1>0, <3>2, MaxIsMember
      <4> DEFINE top == Max(s)
      <4> HIDE DEF top
      <4>2. top \in 1 .. n /\ f[s \ {top}] \in Nat
        BY <4>1 DEF top
      <4>3. f[s] = g[<<top, f[s \ {top}]>>]
        BY <2>3, <3>2 DEF top
      <4> QED
        BY <2>1, <3>2, <4>2, <4>3 DEF top
    <3> QED
      BY <3>1, <3>2
  <2>5. f = [s \in SUBSET (1 .. n) |-> f[s]]
    OBVIOUS
  <2> HIDE DEF Value
  <2>6. f = [s \in SUBSET (1 .. n) |-> Value(f, s)]
    BY <2>4, <2>5
  <2> QED
    BY <2>6
<1> HIDE DEF Value
<1>3. it = [s \in SUBSET (1 .. n) |-> Value(it, s)]
  BY <1>0, <1>2
<1> HIDE DEF it
<1> DEFINE F == [i \in 0 .. n |-> it[1 .. i]]
<1>4. F[0] = 0
  <2>1. 1 .. 0 = {} /\ {} \in SUBSET (1 .. n) /\ 0 \in 0 .. n
    BY <1>0
  <2>2. it[{}] = 0
    BY <1>3, <2>1 DEF Value
  <2> QED
    BY <2>1, <2>2
<1>5. ASSUME NEW i \in 1 .. n PROVE F[i] = After(F[i - 1], i)
  <2>1. Max(1 .. i) = i /\ (1 .. i) \ {i} = 1 .. (i - 1) /\ 1 .. i # {}
    <3>1. i \in Nat \ {0}
      BY <1>0
    <3> QED
      BY <3>1, FirstNumbers
  <2>2. 1 .. i \in SUBSET (1 .. n)
    BY <1>0
  <2>3. it[1 .. i] = After(it[1 .. (i - 1)], i)
    BY <1>3, <2>1, <2>2 DEF Value
  <2>4. i \in 0 .. n /\ i - 1 \in 0 .. n
    BY <1>0
  <2> QED
    BY <2>3, <2>4
<1>6. F \in [0 .. n -> Nat]
  <2> DEFINE S == {i \in Nat : i <= n => F[i] \in Nat}
  <2> HIDE DEF F
  <2>1. 0 \in S
    BY <1>4
  <2>2. ASSUME NEW i \in S PROVE i + 1 \in S
    <3> SUFFICES ASSUME i + 1 <= n PROVE F[i + 1] \in Nat
      OBVIOUS
    <3>1. i + 1 \in 1 .. n /\ i + 1 - 1 = i /\ F[i] \in Nat
      BY <1>0
    <3>2. F[i + 1] = After(F[i], i + 1)
      BY <1>5, <3>1
    <3> HIDE DEF n
    <3> QED
      BY <1>0, <3>1, <3>2
  <2>3. S = Nat
    <3>1. S \in SUBSET Nat
      OBVIOUS
    <3> HIDE DEF S
    <3> QED
      BY <2>1, <2>2, <3>1, Induction
  <2>4. \A i \in 0 .. n : F[i] \in Nat
    <3> TAKE i \in 0 .. n
    <3>1. i \in Nat /\ i <= n
      BY <1>0
    <3>2. i \in S
      BY <2>3, <3>1
    <3> QED
      BY <3>1, <3>2
  <2> QED
    BY <2>4 DEF F
<1>7. SectorToRead(argument) = F[n]
  BY <1>0, <1>1
<1> HIDE DEF F
<1> QED
  BY <1>4, <1>5, <1>6, <1>7 DEF words, After

LEMMA OptionsHaveNoDigits ==
    ASSUME NEW w \in Options
    PROVE  w \in Strings /\ \A k \in 1 .. Len(w) : w[k] \notin Digits
<1>1. w \in {<<45, 99>>, <<45, 100>>}
  BY ShellAssumption DEF Options
<1>2. Len(w) = 2 /\ w[1] = 45 /\ w[2] \in {99, 100}
  BY <1>1
<1>3. w \in Strings
  <2>1. <<45, 99>> \in Seq(1 .. 255) /\ <<45, 100>> \in Seq(1 .. 255)
    OBVIOUS
  <2> QED
    BY <1>1, <2>1 DEF Strings
<1>4. \A k \in 1 .. Len(w) : k = 1 \/ k = 2
  BY <1>2
<1> QED
  BY <1>2, <1>3, <1>4 DEF Digits

\* A place of the line where a word begins, or where it ends.
WordBegins(s, i) ==
    /\ i \in 0 .. Len(s)
    /\ i = 0 \/ s[i] = Space
    /\ i < Len(s) => s[i + 1] # Space

WordEnd(s, i) == PartEnd(s, i, Space, Len(s) + 1)
NextWord(s, i) == AfterPart(s, i, Space, Len(s) + 1, {Space})

\* What the parts of the line from one place on are.
LEMMA WordTaken ==
    ASSUME NEW s \in Strings, OneNumber(s), NEW i \in Nat, i < Len(s), s[i + 1] # Space,
           i = 0 \/ s[i] = Space
    PROVE  /\ WordEnd(s, i) \in (i + 1) .. Len(s)
           /\ IsWord(s, i + 1, WordEnd(s, i))
           /\ NextWord(s, i) \in {WordEnd(s, i), WordEnd(s, i) + 1}
           /\ NextWord(s, i) = WordEnd(s, i) + 1 => s[WordEnd(s, i) + 1] = Space
           /\ NextWord(s, i) > i
           /\ NextWord(s, i) = Len(s) \/ WordBegins(s, NextWord(s, i))
<1> DEFINE n == Len(s)
           e == WordEnd(s, i)
           first == FirstIndex(s, i, {Nul, Space})
<1>1. n \in Nat /\ i \in 0 .. n
  BY DEF Strings
<1>2. /\ first \in i .. n /\ CharAt(s, first) \in {Nul, Space}
      /\ \A j \in i .. (first - 1) : CharAt(s, j) \notin {Nul, Space}
  <2> DEFINE stops == {Nul, Space}
  <2>1. Nul \in stops
    OBVIOUS
  <2> HIDE DEF stops
  <2>2. /\ FirstIndex(s, i, stops) \in i .. Len(s)
        /\ CharAt(s, FirstIndex(s, i, stops)) \in stops
        /\ \A j \in i .. (FirstIndex(s, i, stops) - 1) : CharAt(s, j) \notin stops
    BY <1>1, <2>1, FirstIndexFound
  <2> QED
    BY <2>2 DEF stops
<1>3. e = Min({i + (n + 1), first})
  BY DEF WordEnd, PartEnd
<1> HIDE DEF first, e
<1>4. e = first
  <2>1. {i + (n + 1), first} \in SUBSET Nat
    BY <1>1, <1>2
  <2>2. e \in {i + (n + 1), first} /\ e <= first
    BY <1>3, <2>1, MinIsMember
  <2> QED
    BY <1>1, <1>2, <2>2
<1> HIDE DEF n
<1>5. CharAt(s, i) = s[i + 1]
  BY StringCharacters
<1>6. CharAt(s, i) # Nul
  BY StringCharacters
<1>7. e # i
  BY <1>2, <1>4, <1>5, <1>6
<1>8. e \in (i + 1) .. n
  BY <1>1, <1>2, <1>4, <1>7
<1>9. \A k \in (i + 1) .. e : s[k] # Space
  <2> TAKE k \in (i + 1) .. e
  <2>1. k - 1 \in Nat /\ k - 1 < n /\ k - 1 + 1 = k /\ k - 1 \in i .. (first - 1)
    BY <1>1, <1>4, <1>8
  <2>2. CharAt(s, k - 1) = s[k]
    BY <2>1, StringCharacters DEF n
  <2> QED
    BY <1>2, <2>1, <2>2
<1>10. e < n => CharAt(s, e) = Space /\ s[e + 1] = Space
  <2> SUFFICES ASSUME e < n PROVE CharAt(s, e) = Space /\ s[e + 1] = Space
    OBVIOUS
  <2>1. e \in Nat /\ e < Len(s)
    BY <1>1, <1>8 DEF n
  <2>2. CharAt(s, e) # Nul /\ CharAt(s, e) = s[e + 1]
    BY <2>1, StringCharacters
  <2> QED
    BY <1>2, <1>4, <2>2
<1>11. e = n => CharAt(s, e) = Nul
  BY <1>1, StringCharacters DEF n
<1>12. NextWord(s, i) = IF CharAt(s, e) \in {Space} THEN e + 1 ELSE e
  BY DEF NextWord, AfterPart, WordEnd, e
<1>13. NextWord(s, i) = IF e < n THEN e + 1 ELSE e
  BY <1>1, <1>8, <1>10, <1>11, <1>12 DEF Nul, Space
<1>14. IsWord(s, i + 1, e)
  <2>1. i + 1 > 1 => s[i + 1 - 1] = Space
    <3>1. i + 1 - 1 = i /\ (i + 1 > 1 => i # 0)
      OBVIOUS
    <3> QED
      BY <3>1
  <2>2. 1 <= i + 1 /\ i + 1 <= e /\ e <= n
    BY <1>1, <1>8
  <2> QED
    BY <1>9, <1>10, <2>1, <2>2 DEF IsWord, n
<1>15. e < n => WordBegins(s, e + 1)
  <2> SUFFICES ASSUME e < n PROVE WordBegins(s, e + 1)
    OBVIOUS
  <2>1. e + 1 \in 0 .. n /\ s[e + 1] = Space
    BY <1>1, <1>8, <1>10
  <2>2. e + 1 < n => s[e + 1 + 1] # Space
    <3> SUFFICES ASSUME e + 1 < n PROVE s[e + 1 + 1] # Space
      OBVIOUS
    <3>1. e + 1 \in 1 .. (n - 1)
      BY <1>1, <1>8
    <3>2. \A k \in 1 .. (n - 1) : s[k] # Space \/ s[k + 1] # Space
      BY DEF OneNumber, n
    <3> QED
      BY <2>1, <3>1, <3>2
  <2> QED
    BY <2>1, <2>2 DEF WordBegins, n
<1>16. /\ NextWord(s, i) \in {e, e + 1} /\ (NextWord(s, i) = e + 1 => s[e + 1] = Space)
       /\ NextWord(s, i) > i
       /\ NextWord(s, i) = n \/ WordBegins(s, NextWord(s, i))
  BY <1>1, <1>8, <1>10, <1>13, <1>15
<1> QED
  BY <1>8, <1>14, <1>16 DEF e, n

\* The word of the number, where there is one.
IsNumberWord(s, w) ==
    \E a, b \in 1 .. Len(s) : a <= b /\ a .. b = NumberPlaces(s) /\ w = SubSeq(s, a, b)

NumbersFrom(s, i) == NumberPlaces(s) \cap ((i + 1) .. Len(s))

WordsFrom(s, i) == Cut(s, i, Space, Len(s) + 1, {Space})

\* Behind a place come options, and the number if it is behind that place.
OptionsAndNumber(s, i) ==
    /\ WordsFrom(s, i) \in Seq(Strings)
    /\ NumbersFrom(s, i) = {} =>
          \A k \in 1 .. Len(WordsFrom(s, i)) : WordsFrom(s, i)[k] \in Options
    /\ NumbersFrom(s, i) # {} =>
          \E m \in 1 .. Len(WordsFrom(s, i)) :
              /\ IsNumberWord(s, WordsFrom(s, i)[m])
              /\ \A k \in 1 .. Len(WordsFrom(s, i)) : k # m => WordsFrom(s, i)[k] \in Options

\* One word is an option, or the number; what comes behind it.
LEMMA WordIs ==
    ASSUME NEW s \in Strings, OneNumber(s), NEW i \in Nat, i < Len(s), WordBegins(s, i)
    PROVE  /\ WordsFrom(s, i) = <<SubSeq(s, i + 1, WordEnd(s, i))>> \o WordsFrom(s, NextWord(s, i))
           /\ SubSeq(s, i + 1, WordEnd(s, i)) \in Strings
           /\ \/ /\ SubSeq(s, i + 1, WordEnd(s, i)) \in Options
                 /\ NumbersFrom(s, NextWord(s, i)) = NumbersFrom(s, i)
              \/ /\ IsNumberWord(s, SubSeq(s, i + 1, WordEnd(s, i)))
                 /\ NumbersFrom(s, NextWord(s, i)) = {} /\ NumbersFrom(s, i) # {}
<1> DEFINE n == Len(s)
           e == WordEnd(s, i)
           w == SubSeq(s, i + 1, e)
           next == NextWord(s, i)
<1>1. n \in Nat /\ i \in 0 .. n
  BY DEF Strings
<1>2. /\ e \in (i + 1) .. n /\ IsWord(s, i + 1, e) /\ next \in {e, e + 1}
      /\ (next = e + 1 => s[e + 1] = Space) /\ next > i
      /\ (next = n \/ WordBegins(s, next))
  BY WordTaken DEF WordBegins
<1>3. WordsFrom(s, i) = <<w>> \o WordsFrom(s, next)
  <2>1. Unfolds(s, i, Space, n + 1, {Space})
    <3> DEFINE size == n + 1
               skipped == {Space}
    <3>1. size \in Nat \ {0} /\ Space \in skipped /\ Nul \notin skipped
      BY <1>1 DEF Nul, Space
    <3> HIDE DEF size, skipped
    <3>2. Unfolds(s, i, Space, size, skipped)
      BY <1>1, <3>1, CutUnfolds
    <3> QED
      BY <3>2 DEF size, skipped
  <2>2. CharAt(s, i) # Nul
    BY StringCharacters
  <2>3. Span(s, i, e) = w
    BY DEF Span
  <2> QED
    BY <2>1, <2>2, <2>3 DEF Unfolds, WordsFrom, WordEnd, NextWord
<1> HIDE DEF n, e, next
<1>4. w \in Strings /\ Len(w) = e - i /\ \A k \in 1 .. Len(w) : w[k] = s[i + k]
  <2> DEFINE S == 1 .. 255
  <2>1. s \in Seq(S)
    BY DEF Strings
  <2> HIDE DEF S
  <2>2. e \in i .. Len(s)
    BY <1>1, <1>2 DEF n
  <2>3. /\ Span(s, i, e) \in Seq(S) /\ Len(Span(s, i, e)) = e - i
        /\ \A k \in 1 .. (e - i) : Span(s, i, e)[k] = s[i + k]
    BY <2>1, <2>2, SpanOfString
  <2> QED
    BY <2>3 DEF S, Strings, Span
<1>5. w \in Options \/ (i + 1) .. e = NumberPlaces(s)
  <2>1. i + 1 \in 1 .. n /\ e \in 1 .. n
    BY <1>1, <1>2
  <2> QED
    BY <1>2, <2>1 DEF OneNumber, n
<1> HIDE DEF w
<1>6. \A k \in (i + 1) .. next : k <= e \/ s[k] = Space
  BY <1>1, <1>2
<1>7. Space \notin Digits
  BY DEF Space, Digits
<1>8. NumbersFrom(s, next) \subseteq NumbersFrom(s, i)
  BY <1>1, <1>2 DEF NumbersFrom, n
<1>9. CASE w \in Options
  <2>1. ASSUME NEW k \in (i + 1) .. e PROVE s[k] \notin Digits
    <3>1. k - i \in 1 .. Len(w) /\ i + (k - i) = k
      BY <1>1, <1>2, <1>4
    <3>2. w[k - i] = s[k] /\ w[k - i] \notin Digits
      BY <1>4, <1>9, <3>1, OptionsHaveNoDigits
    <3> QED
      BY <3>2
  <2>2. ASSUME NEW k \in NumbersFrom(s, i) PROVE k \in NumbersFrom(s, next)
    <3>1. k \in (i + 1) .. n /\ s[k] \in Digits /\ k \in NumberPlaces(s)
      BY DEF NumbersFrom, NumberPlaces, n
    <3>2. ~(k <= next)
      BY <1>1, <1>2, <1>6, <1>7, <2>1, <3>1
    <3> QED
      BY <1>1, <1>2, <3>1, <3>2 DEF NumbersFrom, n
  <2> QED
    BY <1>3, <1>4, <1>8, <1>9, <2>2 DEF w, e, next
<1>10. CASE (i + 1) .. e = NumberPlaces(s)
  <2>1. IsNumberWord(s, w)
    <3>1. i + 1 \in 1 .. Len(s) /\ e \in 1 .. Len(s) /\ i + 1 <= e
      BY <1>1, <1>2 DEF n
    <3> QED
      BY <1>10, <3>1 DEF IsNumberWord, w
  <2>2. NumbersFrom(s, next) = {}
    BY <1>1, <1>2, <1>10 DEF NumbersFrom, n
  <2>3. i + 1 \in NumbersFrom(s, i)
    BY <1>1, <1>2, <1>10 DEF NumbersFrom, n
  <2> QED
    BY <1>3, <1>4, <2>1, <2>2, <2>3 DEF w, e, next
<1> QED
  BY <1>5, <1>9, <1>10

LEMMA WordBefore ==
    ASSUME NEW s \in Strings, OneNumber(s), NEW i \in Nat, i < Len(s), WordBegins(s, i),
           OptionsAndNumber(s, NextWord(s, i))
    PROVE  OptionsAndNumber(s, i)
<1> DEFINE w == SubSeq(s, i + 1, WordEnd(s, i))
           next == NextWord(s, i)
           rest == WordsFrom(s, next)
           all == WordsFrom(s, i)
<1>1. /\ all = <<w>> \o rest /\ w \in Strings
      /\ \/ w \in Options /\ NumbersFrom(s, next) = NumbersFrom(s, i)
         \/ IsNumberWord(s, w) /\ NumbersFrom(s, next) = {} /\ NumbersFrom(s, i) # {}
  BY WordIs
<1>2. /\ rest \in Seq(Strings)
      /\ NumbersFrom(s, next) = {} => \A k \in 1 .. Len(rest) : rest[k] \in Options
      /\ NumbersFrom(s, next) # {} =>
            \E m \in 1 .. Len(rest) :
                /\ IsNumberWord(s, rest[m])
                /\ \A k \in 1 .. Len(rest) : k # m => rest[k] \in Options
  BY DEF OptionsAndNumber
<1> HIDE DEF w, next, rest, all
<1>3. /\ all \in Seq(Strings) /\ Len(all) = Len(rest) + 1 /\ Len(rest) \in Nat
      /\ all[1] = w /\ \A k \in 1 .. Len(rest) : all[k + 1] = rest[k]
  <2> DEFINE S == Strings
  <2>1. rest \in Seq(S) /\ w \in S
    BY <1>1, <1>2
  <2> HIDE DEF S
  <2>2. <<w>> \in Seq(S) /\ Len(<<w>>) = 1 /\ <<w>>[1] = w /\ Len(rest) \in Nat
    BY <2>1
  <2>3. /\ <<w>> \o rest \in Seq(S) /\ Len(<<w>> \o rest) = Len(<<w>>) + Len(rest)
        /\ \A k \in 1 .. (Len(<<w>>) + Len(rest)) :
              (<<w>> \o rest)[k] = IF k <= Len(<<w>>) THEN <<w>>[k] ELSE rest[k - Len(<<w>>)]
    BY <2>1, <2>2, ConcatProperties
  <2>4. Len(<<w>> \o rest) = Len(rest) + 1
    BY <2>2, <2>3
  <2>5. (<<w>> \o rest)[1] = w
    BY <2>2, <2>3
  <2>6. ASSUME NEW k \in 1 .. Len(rest) PROVE (<<w>> \o rest)[k + 1] = rest[k]
    <3>1. k + 1 \in 1 .. (1 + Len(rest)) /\ ~(k + 1 <= 1) /\ k + 1 - 1 = k
      BY <2>2
    <3> QED
      BY <2>2, <2>3, <3>1
  <2> QED
    BY <1>1, <2>2, <2>3, <2>4, <2>5, <2>6 DEF S
<1>4. \A k \in 1 .. Len(all) : k = 1 \/ (k - 1 \in 1 .. Len(rest) /\ all[k] = rest[k - 1])
  <2> TAKE k \in 1 .. Len(all)
  <2>1. k # 1 => k - 1 \in 1 .. Len(rest) /\ k - 1 + 1 = k
    BY <1>3
  <2> QED
    BY <1>3, <2>1
<1>5. 1 \in 1 .. Len(all)
  BY <1>3
<1>6. CASE w \in Options /\ NumbersFrom(s, next) = NumbersFrom(s, i)
  <2>1. CASE NumbersFrom(s, i) = {}
    <3>1. \A k \in 1 .. Len(all) : all[k] \in Options
      BY <1>2, <1>3, <1>4, <1>6, <2>1
    <3> QED
      BY <1>3, <2>1, <3>1 DEF OptionsAndNumber, all
  <2>2. CASE NumbersFrom(s, i) # {}
    <3>1. PICK m \in 1 .. Len(rest) :
              /\ IsNumberWord(s, rest[m])
              /\ \A k \in 1 .. Len(rest) : k # m => rest[k] \in Options
      BY <1>2, <1>6, <2>2
    <3>2. m + 1 \in 1 .. Len(all) /\ IsNumberWord(s, all[m + 1])
      <4>1. m + 1 \in 1 .. Len(all) /\ all[m + 1] = rest[m]
        BY <1>3
      <4> QED
        BY <3>1, <4>1
    <3>3. ASSUME NEW k \in 1 .. Len(all), k # m + 1 PROVE all[k] \in Options
      <4>1. k = 1 \/ (k - 1 \in 1 .. Len(rest) /\ all[k] = rest[k - 1] /\ k - 1 # m)
        <5>1. k - 1 = m => k = m + 1
          BY <1>3
        <5> QED
          BY <1>4, <3>3, <5>1
      <4> QED
        BY <1>3, <1>6, <3>1, <4>1
    <3> QED
      BY <1>3, <2>2, <3>2, <3>3 DEF OptionsAndNumber, all
  <2> QED
    BY <2>1, <2>2
<1>7. CASE IsNumberWord(s, w) /\ NumbersFrom(s, next) = {} /\ NumbersFrom(s, i) # {}
  <2>1. \A k \in 1 .. Len(all) : k # 1 => all[k] \in Options
    BY <1>2, <1>4, <1>7
  <2>2. IsNumberWord(s, all[1])
    BY <1>3, <1>7
  <2> QED
    BY <1>3, <1>5, <1>7, <2>1, <2>2 DEF OptionsAndNumber, all
<1> QED
  BY <1>1, <1>6, <1>7

\* All words of the arguments of readdisk.
LEMMA WordsFound ==
    ASSUME NEW s \in Strings, OneNumber(s), Len(s) > 0 => s[1] # Space
    PROVE  OptionsAndNumber(s, 0)
<1> DEFINE n == Len(s)
           Place(i) == i = n \/ WordBegins(s, i)
           Q == {m \in Nat : \A i \in 0 .. n : i >= n - m /\ Place(i) => OptionsAndNumber(s, i)}
<1>1. n \in Nat
  BY DEF Strings
<1>2. OptionsAndNumber(s, n)
  <2>1. WordsFrom(s, n) = <<>>
    <3> DEFINE size == n + 1
               skipped == {Space}
    <3>1. size \in Nat \ {0} /\ Space \in skipped /\ Nul \notin skipped
      BY <1>1 DEF Nul, Space
    <3> HIDE DEF size, skipped
    <3>2. Unfolds(s, n, Space, size, skipped)
      BY <1>1, <3>1, CutUnfolds
    <3>3. CharAt(s, n) = Nul
      BY <1>1, StringCharacters
    <3> QED
      BY <3>2, <3>3 DEF Unfolds, WordsFrom, size, skipped
  <2>2. NumbersFrom(s, n) = {}
    BY <1>1 DEF NumbersFrom
  <2>3. <<>> \in Seq(Strings) /\ 1 .. Len(<<>>) = {}
    OBVIOUS
  <2> QED
    BY <2>1, <2>2, <2>3 DEF OptionsAndNumber
<1> HIDE DEF n
<1>3. 0 \in Q
  <2> SUFFICES ASSUME NEW i \in 0 .. n, i >= n - 0 PROVE OptionsAndNumber(s, i)
    OBVIOUS
  <2>1. i = n
    BY <1>1
  <2> QED
    BY <1>2, <2>1
<1>4. ASSUME NEW m \in Q PROVE m + 1 \in Q
  <2> SUFFICES ASSUME NEW i \in 0 .. n, i >= n - (m + 1), Place(i) PROVE OptionsAndNumber(s, i)
    OBVIOUS
  <2>1. m \in Nat /\ \A j \in 0 .. n : j >= n - m /\ Place(j) => OptionsAndNumber(s, j)
    OBVIOUS
  <2> HIDE DEF Q
  <2>2. CASE i = n
    BY <1>2, <2>2
  <2>3. CASE i # n
    <3>1. i \in Nat /\ i < Len(s) /\ WordBegins(s, i)
      BY <1>1, <2>3 DEF n
    <3>2. /\ WordEnd(s, i) \in (i + 1) .. Len(s)
          /\ NextWord(s, i) \in {WordEnd(s, i), WordEnd(s, i) + 1} /\ NextWord(s, i) > i
          /\ (NextWord(s, i) = Len(s) \/ WordBegins(s, NextWord(s, i)))
      BY <3>1, WordTaken DEF WordBegins
    <3>3. NextWord(s, i) \in 0 .. n /\ NextWord(s, i) >= n - m /\ Place(NextWord(s, i))
      <4>1. NextWord(s, i) \in 0 .. n
        <5>1. NextWord(s, i) = n \/ NextWord(s, i) \in 0 .. n
          BY <3>2 DEF WordBegins, n
        <5> QED
          BY <1>1, <5>1
      <4> DEFINE j == NextWord(s, i)
      <4> HIDE DEF j
      <4>2. j \in 0 .. n /\ j > i
        BY <3>2, <4>1 DEF j
      <4>3. j >= n - m
        BY <1>1, <2>1, <4>2
      <4> QED
        BY <3>2, <4>1, <4>3 DEF j, n
    <3>4. OptionsAndNumber(s, NextWord(s, i))
      BY <2>1, <3>3
    <3> QED
      BY <3>1, <3>4, WordBefore
  <2> QED
    BY <2>2, <2>3
<1>5. Q = Nat
  <2>1. Q \in SUBSET Nat
    OBVIOUS
  <2> HIDE DEF Q
  <2> QED
    BY <1>3, <1>4, <2>1, Induction
<1>6. Place(0)
  BY <1>1 DEF WordBegins, n
<1>7. n \in Q /\ 0 \in 0 .. n /\ 0 >= n - n
  <2> HIDE DEF Q
  <2>1. n \in Q
    BY <1>1, <1>5
  <2> QED
    BY <1>1, <2>1
<1> QED
  BY <1>6, <1>7

\* Of words that are options but for one, that one is converted.
LEMMA SectorFound ==
    ASSUME NEW s, Words(s) \in Seq(Strings)
    PROVE  /\ (\A k \in 1 .. Len(Words(s)) : Words(s)[k] \in Options) => SectorToRead(s) = 0
           /\ \A m \in 1 .. Len(Words(s)) :
                 /\ Words(s)[m] \notin Options /\ strToInt(Words(s)[m]) \in Nat
                 /\ \A k \in 1 .. Len(Words(s)) : k # m => Words(s)[k] \in Options
                 => SectorToRead(s) = strToInt(Words(s)[m])
<1> DEFINE words == Words(s)
           n == Len(words)
           Follows(F) == /\ F \in [0 .. n -> Nat] /\ F[0] = 0
                         /\ \A i \in 1 .. n : F[i] = IF words[i] \in Options THEN F[i - 1]
                                                     ELSE strToInt(words[i])
                         /\ SectorToRead(s) = F[n]
<1>1. n \in Nat /\ DOMAIN words = 1 .. n
  OBVIOUS
<1>2. ASSUME \A i \in 1 .. n : words[i] \in Options \/ strToInt(words[i]) \in Nat
      PROVE  \E F : Follows(F)
  <2>1. \E F \in [0 .. n -> Nat] :
            /\ F[0] = 0
            /\ \A i \in 1 .. n : F[i] = IF words[i] \in Options THEN F[i - 1]
                                        ELSE strToInt(words[i])
            /\ SectorToRead(s) = F[n]
    BY <1>1, <1>2, SectorFollowed
  <2> QED
    BY <2>1
<1> HIDE DEF words, n
<1>3. ASSUME NEW F, Follows(F), NEW m \in 0 .. n, NEW v \in Nat, F[m] = v,
             \A k \in (m + 1) .. n : words[k] \in Options
      PROVE  SectorToRead(s) = v
  <2> DEFINE Q == {i \in Nat : i >= m /\ i <= n => F[i] = v}
  <2>1. 0 \in Q
    BY <1>1, <1>3
  <2>2. ASSUME NEW i \in Q PROVE i + 1 \in Q
    <3> SUFFICES ASSUME i + 1 >= m, i + 1 <= n PROVE F[i + 1] = v
      OBVIOUS
    <3>1. i \in Nat /\ (i >= m /\ i <= n => F[i] = v)
      OBVIOUS
    <3> HIDE DEF Q
    <3>2. CASE i + 1 = m
      BY <1>3, <3>2
    <3>3. CASE i + 1 # m
      <4> DEFINE j == i + 1
      <4>1. i >= m /\ i <= n /\ j \in (m + 1) .. n /\ j \in 1 .. n /\ j - 1 = i
        BY <1>1, <3>1, <3>3
      <4> HIDE DEF j
      <4>2. F[j] = IF words[j] \in Options THEN F[j - 1] ELSE strToInt(words[j])
        BY <1>3, <4>1
      <4>3. words[j] \in Options
        BY <1>3, <4>1
      <4> QED
        BY <3>1, <4>1, <4>2, <4>3 DEF j
    <3> QED
      BY <3>2, <3>3
  <2>3. Q = Nat
    <3>1. Q \in SUBSET Nat
      OBVIOUS
    <3> HIDE DEF Q
    <3> QED
      BY <2>1, <2>2, <3>1, Induction
  <2>4. n \in Q /\ n >= m /\ n <= n
    <3> HIDE DEF Q
    <3>1. n \in Q
      BY <1>1, <2>3
    <3> QED
      BY <1>1, <3>1
  <2>5. F[n] = v
    BY <2>4
  <2> QED
    BY <1>3, <2>5
<1>4. ASSUME \A k \in 1 .. n : words[k] \in Options PROVE SectorToRead(s) = 0
  <2>1. PICK F : Follows(F)
    BY <1>2, <1>4
  <2>2. 0 \in 0 .. n /\ F[0] = 0 /\ \A k \in (0 + 1) .. n : words[k] \in Options
    BY <1>1, <1>4, <2>1
  <2> HIDE DEF Follows
  <2> QED
    BY <1>3, <2>1, <2>2
<1>5. ASSUME NEW m \in 1 .. n, words[m] \notin Options, strToInt(words[m]) \in Nat,
             \A k \in 1 .. n : k # m => words[k] \in Options
      PROVE  SectorToRead(s) = strToInt(words[m])
  <2>1. PICK F : Follows(F)
    BY <1>2, <1>5
  <2>2. m \in 0 .. n /\ \A k \in (m + 1) .. n : k \in 1 .. n /\ k # m
    BY <1>1
  <2>3. F[m] = strToInt(words[m])
    BY <1>5, <2>1
  <2> HIDE DEF Follows
  <2> QED
    BY <1>3, <1>5, <2>1, <2>2, <2>3
<1> QED
  BY <1>4, <1>5 DEF words, n

LEMMA DigitsConverted ==
    ASSUME NEW num \in Seq(Digits)
    PROVE  /\ strToInt(num) \in Nat
           /\ Left(strToInt(num), Len(num))[Len(num)] = 0
           /\ \A i \in 1 .. Len(num) :
                 num[i] - 48 = Left(strToInt(num), Len(num))[Len(num) - i] % 10
<1> DEFINE m == Len(num)
           d == [i \in 1 .. m |-> num[i] - 48]
<1>1. m \in Nat /\ \A i \in 1 .. m : num[i] \in 48 .. 57
  <2>1. \A i \in 1 .. m : num[i] \in Digits
    BY ElementOfSeq
  <2> QED
    BY <2>1 DEF Digits
<1>2. PICK F \in [0 .. m -> Nat] :
          /\ F[0] = 0
          /\ \A i \in 1 .. m : F[i] = 10 * F[i - 1] + num[i] - 48
          /\ strToInt(num) = F[m]
  BY Converted
<1> HIDE DEF m
<1>3. d \in [1 .. m -> 0 .. 9]
  <2>1. \A i \in 1 .. m : num[i] - 48 \in 0 .. 9
    BY <1>1
  <2> QED
    BY <2>1
<1>4. \A i \in 1 .. m : F[i] = 10 * F[i - 1] + d[i]
  <2> TAKE i \in 1 .. m
  <2>1. F[i] = 10 * F[i - 1] + num[i] - 48 /\ d[i] = num[i] - 48
    BY <1>2
  <2>2. F[i - 1] \in Nat /\ num[i] \in 48 .. 57
    BY <1>1
  <2> HIDE DEF d
  <2> QED
    BY <2>1, <2>2
<1>5. \A i \in 1 .. m : d[i] = num[i] - 48
  OBVIOUS
<1> HIDE DEF d
<1>6. /\ \A k \in 0 .. m : Left(F[m], m)[k] = F[m - k]
      /\ \A i \in 1 .. m : d[i] = F[i] % 10
  BY <1>1, <1>3, <1>4, DigitsLeft
<1>7. Left(F[m], m)[m] = F[0]
  <2>1. m \in 0 .. m /\ m - m = 0
    BY <1>1
  <2> QED
    BY <1>6, <2>1
<1>8. ASSUME NEW i \in 1 .. m PROVE num[i] - 48 = Left(F[m], m)[m - i] % 10
  <2>1. m - i \in 0 .. m /\ m - (m - i) = i
    BY <1>1
  <2>2. Left(F[m], m)[m - i] = F[i]
    BY <1>6, <2>1
  <2> QED
    BY <1>5, <1>6, <2>2
<1>9. strToInt(num) \in Nat
  BY <1>1, <1>2
<1> QED
  BY <1>2, <1>7, <1>8, <1>9 DEF m

LEMMA SectorIs ==
    ASSUME NEW s \in Strings, OneNumber(s), Len(s) > 0 => s[1] # Space
    PROVE  LET typed == NumberPlaces(s)
               left == Left(SectorToRead(s), Cardinality(typed))
           IN  /\ left[Cardinality(typed)] = 0
               /\ \A i \in typed : s[i] - 48 = left[Max(typed) - i] % 10
<1> DEFINE typed == NumberPlaces(s)
           words == Words(s)
<1>0. Len(s) \in Nat
  BY DEF Strings
<1>1. words = WordsFrom(s, 0)
  BY DEF Words, WordsFrom
<1>2. NumbersFrom(s, 0) = typed
  BY <1>0 DEF NumbersFrom, NumberPlaces
<1> HIDE DEF typed, words
<1>3. /\ words \in Seq(Strings)
      /\ typed = {} => \A k \in 1 .. Len(words) : words[k] \in Options
      /\ typed # {} =>
            \E m \in 1 .. Len(words) :
                /\ IsNumberWord(s, words[m])
                /\ \A k \in 1 .. Len(words) : k # m => words[k] \in Options
  BY <1>1, <1>2, WordsFound DEF OptionsAndNumber
<1>4. CASE typed = {}
  <2>1. SectorToRead(s) = 0
    BY <1>3, <1>4, SectorFound DEF words
  <2>2. strToInt(<<>>) = 0 /\ Left(0, 0)[0] = 0
    <3>1. <<>> \in Seq(Digits) /\ Len(<<>>) = 0
      OBVIOUS
    <3>2. PICK F \in [0 .. Len(<<>>) -> Nat] : F[0] = 0 /\ strToInt(<<>>) = F[Len(<<>>)]
      BY <3>1, Converted
    <3>3. Left(strToInt(<<>>), Len(<<>>))[Len(<<>>)] = 0
      BY <3>1, DigitsConverted
    <3> QED
      BY <3>1, <3>2, <3>3
  <2>3. Cardinality(typed) = 0
    BY <1>4, FS_EmptySet
  <2> QED
    BY <1>4, <2>1, <2>2, <2>3 DEF typed
<1>5. CASE typed # {}
  <2>1. PICK m \in 1 .. Len(words) :
            /\ IsNumberWord(s, words[m])
            /\ \A k \in 1 .. Len(words) : k # m => words[k] \in Options
    BY <1>3, <1>5
  <2>2. PICK a, b \in 1 .. Len(s) : a <= b /\ a .. b = typed /\ words[m] = SubSeq(s, a, b)
    BY <2>1 DEF IsNumberWord, typed
  <2> DEFINE num == words[m]
             size == Len(num)
  <2>3. /\ num \in Seq(Digits) /\ size = b - a + 1 /\ a \in Nat /\ b \in Nat
        /\ \A i \in 1 .. size : num[i] = s[a + i - 1] /\ num[i] \in Digits
    <3> DEFINE S == 1 .. 255
    <3>1. s \in Seq(S)
      BY DEF Strings
    <3> HIDE DEF S
    <3>2. a - 1 \in Nat /\ b \in (a - 1) .. Len(s) /\ a - 1 + 1 = a /\ b - (a - 1) = b - a + 1
      BY <1>0, <2>2
    <3>3. /\ Span(s, a - 1, b) \in Seq(S) /\ Len(Span(s, a - 1, b)) = b - (a - 1)
          /\ \A i \in 1 .. (b - (a - 1)) : Span(s, a - 1, b)[i] = s[a - 1 + i]
      BY <3>1, <3>2, SpanOfString
    <3>4. Span(s, a - 1, b) = num
      BY <2>2, <3>2 DEF Span
    <3>5. num \in Seq(S) /\ size = b - a + 1
      BY <3>2, <3>3, <3>4
    <3>6. ASSUME NEW i \in 1 .. size PROVE num[i] = s[a + i - 1] /\ num[i] \in Digits
      <4>1. i \in 1 .. (b - (a - 1)) /\ a - 1 + i = a + i - 1 /\ a + i - 1 \in a .. b
        BY <1>0, <3>2, <3>5
      <4>2. num[i] = s[a + i - 1]
        BY <3>3, <3>4, <4>1
      <4>3. a + i - 1 \in typed
        BY <2>2, <4>1
      <4> QED
        BY <4>2, <4>3 DEF typed, NumberPlaces
    <3> HIDE DEF num
    <3>7. num \in Seq(Digits)
      <4>1. size \in Nat
        BY <3>5
      <4>2. num = [i \in 1 .. size |-> num[i]]
        BY <3>5
      <4>3. [i \in 1 .. size |-> num[i]] \in Seq(Digits)
        <5>1. \A i \in 1 .. size : num[i] \in Digits
          BY <3>6
        <5> HIDE DEF size
        <5> QED
          BY <4>1, <5>1, IsASeq
      <4> QED
        BY <4>2, <4>3
    <3>8. a \in Nat /\ b \in Nat
      BY <1>0, <2>2
    <3> HIDE DEF size
    <3> QED
      BY <3>5, <3>6, <3>7, <3>8
  <2>4. num \notin Options
    <3>1. 1 \in 1 .. size
      BY <2>2, <2>3
    <3> QED
      BY <2>3, <3>1, OptionsHaveNoDigits
  <2>5. /\ strToInt(num) \in Nat
        /\ Left(strToInt(num), size)[size] = 0
        /\ \A i \in 1 .. size : num[i] - 48 = Left(strToInt(num), size)[size - i] % 10
    <3> HIDE DEF num
    <3> QED
      BY <2>3, DigitsConverted
  <2>6. SectorToRead(s) = strToInt(num)
    BY <1>3, <2>1, <2>4, <2>5, SectorFound DEF words
  <2> HIDE DEF num, size
  <2>7. Cardinality(typed) = size
    <3>1. a \in Int /\ b \in Int /\ ~(a > b)
      BY <2>2, <2>3
    <3>2. Cardinality(a .. b) = b - a + 1
      BY <3>1, FS_Interval
    <3> QED
      BY <2>2, <2>3, <3>2
  <2>8. Max(typed) = b
    <3>1. typed \in SUBSET (1 .. b) /\ b \in typed
      BY <2>2, <2>3
    <3>2. Max(typed) \in typed /\ \A y \in typed : y <= Max(typed)
      BY <1>5, <2>3, <3>1, MaxIsMember
    <3> QED
      BY <2>3, <3>1, <3>2
  <2>9. ASSUME NEW i \in typed
        PROVE  s[i] - 48 = Left(strToInt(num), size)[b - i] % 10
    <3> DEFINE j == i - a + 1
    <3>1. j \in 1 .. size /\ a + j - 1 = i /\ size - j = b - i
      BY <2>2, <2>3
    <3> HIDE DEF j
    <3> QED
      BY <2>3, <2>5, <3>1
  <2> QED
    BY <2>5, <2>6, <2>7, <2>8, <2>9 DEF typed
<1> QED
  BY <1>4, <1>5

\* Arguments do not begin with a space.
LEMMA ArgumentsBegin ==
    ASSUME NEW line \in Lines
    PROVE  Len(ArgumentsOf(line)) > 0 => ArgumentsOf(line)[1] # Space
<1>1. line \in Typed /\ line \in Strings /\ Len(line) \in Nat
  BY ShellAssumption, TypedAreStrings DEF Typed
<1> DEFINE k == FirstIndex(line, 0, {Nul, Space})
           start == FirstIndex(line, k, (0 .. 255) \ {Space})
<1>2. k \in 0 .. Len(line)
  BY <1>1, FirstIndexFound
<1>3. Len(CommandOf(line)) = k
  BY <1>1, <1>2, SpanOfString DEF CommandOf, Typed
<1>4. start \in k .. Len(line) /\ CharAt(line, start) # Space
  <2> DEFINE others == (0 .. 255) \ {Space}
  <2>1. Nul \in others
    BY DEF Nul, Space
  <2>2. \A c \in others : c # Space
    OBVIOUS
  <2> HIDE DEF k, others
  <2>3. /\ FirstIndex(line, k, others) \in k .. Len(line)
        /\ CharAt(line, FirstIndex(line, k, others)) \in others
    BY <1>1, <1>2, <2>1, FirstIndexFound
  <2> QED
    BY <2>2, <2>3 DEF others
<1>5. ArgumentsOf(line) = Span(line, start, Len(line))
  BY <1>3 DEF ArgumentsOf
<1> HIDE DEF start, k
<1>6. start \in Nat /\ Len(line) \in start .. Len(line)
  BY <1>1, <1>2, <1>4
<1>7. /\ Len(Span(line, start, Len(line))) = Len(line) - start
      /\ \A i \in 1 .. (Len(line) - start) : Span(line, start, Len(line))[i] = line[start + i]
  <2> DEFINE S == 1 .. 255
  <2>1. line \in Seq(S)
    BY <1>1 DEF Strings
  <2> HIDE DEF S
  <2> QED
    BY <1>6, <2>1, SpanOfString
<1> SUFFICES ASSUME Len(line) - start > 0 PROVE line[start + 1] # Space
  BY <1>1, <1>5, <1>6, <1>7
<1>8. start < Len(line)
  BY <1>1, <1>6
<1> QED
  BY <1>1, <1>4, <1>6, <1>8, StringCharacters

\* What readdisk has found is for the arguments that are there.
Sought ==
    ran = "readdisk" =>
        \E line \in Lines :
            /\ arguments = ArgumentsOf(line)
            /\ result.sector = SectorToRead(arguments)

LEMMA SoughtKept == Sought /\ [Next]_vars => Sought'
<1> SUFFICES ASSUME Sought, [Next]_vars PROVE Sought'
  OBVIOUS
<1>1. CASE UNCHANGED vars
  BY <1>1 DEF vars, lineVars, Sought
<1>2. ASSUME NEW line \in Lines, ReactToCommand(line), readdisk(arguments') PROVE Sought'
  <2>1. /\ arguments' = ArgumentsOf(line)
        /\ result' = [sector |-> SectorToRead(arguments'), displayAs |-> DisplayAs(arguments')]
    BY <1>2 DEF ReactToCommand, readdisk
  <2>2. result'.sector = SectorToRead(arguments')
    BY <2>1
  <2> QED
    BY <2>1, <2>2 DEF Sought
<1>3. ASSUME NEW line \in Lines, ReactToCommand(line), ~readdisk(arguments') PROVE Sought'
  <2>1. ran' # "readdisk"
    BY <1>3 DEF ReactToCommand, exit, prompt, ls, cd, OpenCommand, ShowCommand
  <2> QED
    BY <2>1 DEF Sought
<1>4. CASE ~strayed /\ ShowPrompt
  BY <1>4 DEF ShowPrompt, Sought
<1> QED
  BY <1>1, <1>2, <1>3, <1>4 DEF Next

\* readdisk reads the sector whose number was typed, with the options around it in any
\* order, and sector 0 when none was (command.c: readdisk; string.c: strToInt), for
\* every line of options and at most one number, as long as the number fits an int.
THEOREM SectorIsTyped == Spec => []SectorReadIsTyped
<1>1. Init => Sought
  BY DEF Init, Sought
<1>2. Sought => SectorReadIsTyped
  <2> SUFFICES ASSUME Sought, ran = "readdisk", OneNumber(arguments)
               PROVE  LET typed == NumberPlaces(arguments)
                          left == Left(result.sector, Cardinality(typed))
                      IN  /\ left[Cardinality(typed)] = 0
                          /\ \A i \in typed : arguments[i] - 48 = left[Max(typed) - i] % 10
    BY DEF SectorReadIsTyped
  <2>1. PICK line \in Lines : /\ arguments = ArgumentsOf(line)
                              /\ result.sector = SectorToRead(arguments)
    BY DEF Sought
  <2>2. arguments \in Strings /\ (Len(arguments) > 0 => arguments[1] # Space)
    BY <2>1, ArgumentsAreString, ArgumentsBegin
  <2> QED
    BY <2>1, <2>2, SectorIs
<1> QED
  BY <1>1, <1>2, SoughtKept, PTL DEF Spec

=============================================================================
