------------------------- MODULE UserInterfaceProofs -------------------------
(***************************************************************************)
(* Theorems about the line editor and the pager, over the console, for     *)
(* every size of the screen, of the line and of the pages, every prompt,   *)
(* all buffers and any number of keys.                                     *)
(***************************************************************************)
EXTENDS UserInterface, SequenceTheorems, WellFoundedInduction, TLAPS

-----------------------------------------------------------------------------
(* The inductive invariant.                                                *)

\* The array holds the line: between the keys as far as it has been typed.  The zero
\* at the end of a full line is not in it.
LineHeld ==
    /\ currentCharIndex = Len(typed) /\ Len(typed) <= LineLimit
    /\ \A i \in 1 .. Len(typed) : inputString[i - 1] = typed[i]
    /\ pc = "react" => /\ Len(typed) < LineLimit => inputString[Len(typed)] = 0
                       /\ Len(typed) = LineLimit => pastEnd = 0

\* The byte that is displayed next is the one after those displayed so far, or the
\* last of them.
Shown ==
    /\ \A i \in 1 .. Len(displayed) : displayed[i] = i - 1
    /\ pc = "display" => /\ bytesShown + byteIndex <= Len(displayed)
                         /\ Len(displayed) <= bytesShown + byteIndex + 1
                         /\ Len(displayed) <= Len(buffer)
    /\ pc = "ask" => byteIndex = 0 /\ Len(displayed) = bytesShown + 1
                     /\ Len(displayed) <= Len(buffer)
    /\ pc = "shown" => Len(displayed) = Len(buffer)

Row(con) == con.y + con.scrolled

\* The cursor is n rows below the one where the page began, at most.
RowsSinceStart(n) ==
    \E r \in 0 .. (Height - 1) : r * Width <= start /\ Row(console) <= r + n

\* The count of the lines is one of rows, when numbers are displayed; and rows leave
\* the screen only when the cursor is in the last one.
Paged ==
    format # "CHAR" =>
        /\ pc \in {"display", "ask"} => console.scrolled = 0 \/ console.y = Height - 1
        /\ pc = "display" => /\ lastXpos = console.x
                             /\ displayBufferLineCount < PageLines
                             /\ RowsSinceStart(displayBufferLineCount)
        /\ pc = "ask" => displayBufferLineCount = 0 /\ RowsSinceStart(PageLines + 2)

IInv == TypeOK /\ LineHeld /\ Shown /\ Paged

\* No text that is displayed moves the cursor back into what is on the screen.
NoBackspaces == \A b \in Buffers : \A i \in 1 .. Len(b) : b[i] # Backspace

\* Nothing is on the screen from a certain cell on.
BlankFrom(con, cell) == \A i \in Cells : i >= cell => con.cells[i] = Blank

\* The rows below the cursor are blank, in front of a line the rest of its row as well.
\* A row scrolls away only when the line has filled the screen down to its end.
LineShown ==
    /\ BlankFrom(console, (console.y + 1) * Width)
    /\ pc \in {"prompt", "read"} => BlankFrom(console, Cursor(console))
    /\ pc \in {"display", "ask", "shown"} => buffer \in Buffers
    /\ pc = "read" /\ ~cropped =>
           /\ Cursor(console) = StartNow + Len(typed)
           /\ \A i \in 1 .. Len(typed) : console.cells[StartNow + i - 1] = typed[i]
           /\ console.scrolled = 0
                 \/ (console.scrolled + Height - 1) * Width <= start + LineLimit

-----------------------------------------------------------------------------
(* Strings on the console.                                                 *)

\* Induction over the numbers: a set that has 0 and with each number the next.
LEMMA Induction ==
    ASSUME NEW S \in SUBSET Nat, 0 \in S, \A n \in S : n + 1 \in S
    PROVE  S = Nat
<1> DEFINE less == {p \in Nat \X Nat : p[1] < p[2]}
<1>1. IsWellFoundedOn(less, Nat)
  BY NatLessThanWellFounded DEF OpToRel
<1> SUFFICES ASSUME Nat \ S # {} PROVE FALSE
  OBVIOUS
<1>2. \E x \in Nat \ S : \A y \in Nat \ S : <<y, x>> \notin less
  <2> HIDE DEF less
  <2> QED
    BY <1>1, WFMin
<1>3. PICK x \in Nat \ S : \A y \in Nat \ S : ~(y < x)
  BY <1>2
<1> QED
  BY <1>3

\* The recursion of ConsoleWriteString has a solution.
LEMMA WritingEnds ==
    ASSUME NEW con, NEW s, NEW k \in Nat
    PROVE  \E f : f = [n \in 0 .. k |-> IF n = 0 THEN con
                                        ELSE ConsoleWriteCharacter(f[n - 1], s[n])]
<1> DEFINE Solves(f, m) ==
        f = [n \in 0 .. m |-> IF n = 0 THEN con ELSE ConsoleWriteCharacter(f[n - 1], s[n])]
    S == {m \in Nat : \E f : Solves(f, m)}
<1>1. 0 \in S
  <2> DEFINE f == [n \in 0 .. 0 |-> con]
  <2>1. Solves(f, 0)
    OBVIOUS
  <2> QED
    BY <2>1
<1>2. ASSUME NEW m \in S PROVE m + 1 \in S
  <2>1. PICK f : Solves(f, m)
    OBVIOUS
  <2> DEFINE g == [n \in 0 .. (m + 1) |-> IF n = m + 1 THEN ConsoleWriteCharacter(f[m], s[m + 1])
                                          ELSE f[n]]
  <2>2. \A n \in 0 .. (m + 1) :
            g[n] = IF n = 0 THEN con ELSE ConsoleWriteCharacter(g[n - 1], s[n])
    <3> TAKE n \in 0 .. (m + 1)
    <3>1. CASE n = m + 1
      BY <3>1
    <3>2. CASE n # m + 1
      <4>1. n \in 0 .. m
        BY <3>2
      <4>2. f[n] = IF n = 0 THEN con ELSE ConsoleWriteCharacter(f[n - 1], s[n])
        BY <2>1, <4>1
      <4>3. n # 0 => n - 1 \in 0 .. (m + 1) /\ n - 1 # m + 1
        BY <3>2
      <4> QED
        BY <4>1, <4>2, <4>3, <3>2
    <3> QED
      BY <3>1, <3>2
  <2>3. g = [n \in 0 .. (m + 1) |-> g[n]]
    OBVIOUS
  <2>4. Solves(g, m + 1)
    <3> HIDE DEF g
    <3> QED
      BY <2>2, <2>3
  <2> HIDE DEF Solves
  <2> QED
    BY <2>4
<1>3. S = Nat
  <2> HIDE DEF S
  <2> QED
    BY <1>1, <1>2, Induction DEF S
<1> QED
  BY <1>3

\* What holds before a string and is carried from one character to the next holds after
\* the string; G[n] is the set of the consoles for which it holds after n characters.
LEMMA StringWritten ==
    ASSUME NEW s, Len(s) \in Nat, NEW G, NEW con \in G[0],
           \A n \in 1 .. Len(s) : \A before \in G[n - 1] :
               ConsoleWriteCharacter(before, s[n]) \in G[n]
    PROVE  ConsoleWriteString(con, s) \in G[Len(s)]
<1> DEFINE f == CHOOSE g : g = [n \in 0 .. Len(s) |->
                    IF n = 0 THEN con ELSE ConsoleWriteCharacter(g[n - 1], s[n])]
    S == {n \in Nat : n <= Len(s) => f[n] \in G[n]}
<1>1. f = [n \in 0 .. Len(s) |-> IF n = 0 THEN con ELSE ConsoleWriteCharacter(f[n - 1], s[n])]
  BY WritingEnds, SMTT(30)
<1>2. ConsoleWriteString(con, s) = f[Len(s)]
  BY DEF ConsoleWriteString
<1> HIDE DEF f
<1>3. f[0] = con /\ \A n \in 1 .. Len(s) : f[n] = ConsoleWriteCharacter(f[n - 1], s[n])
  BY <1>1
<1>4. 0 \in S
  BY <1>3
<1>5. ASSUME NEW n \in S PROVE n + 1 \in S
  <2>1. CASE n + 1 <= Len(s)
    <3>1. f[n] \in G[n] /\ n + 1 \in 1 .. Len(s) /\ (n + 1) - 1 = n
      BY <2>1
    <3>2. f[n + 1] = ConsoleWriteCharacter(f[n], s[n + 1])
      BY <3>1, <1>3
    <3> QED
      BY <3>1, <3>2
  <2>2. CASE ~(n + 1 <= Len(s))
    BY <2>2
  <2> QED
    BY <2>1, <2>2
<1>6. S = Nat
  <2> HIDE DEF S
  <2> QED
    BY <1>4, <1>5, Induction DEF S
<1> QED
  BY <1>2, <1>6

-----------------------------------------------------------------------------
(* One character on the console.                                           *)

Moved == [x : Nat, y : Nat, cells : [Cells -> 0 .. 255], scrolled : Nat]

\* The screen one row further.
Shifted(cells) == [i \in Cells |-> IF i + Width \in Cells THEN cells[i + Width] ELSE Blank]

LEMMA ScreenSize == Width \in Nat /\ Width >= 4 /\ Height \in Nat /\ Height >= 4 /\ TabStop \in Nat \ {0}
  BY ConsoleAssumption, InterfaceAssumption

LEMMA Sizes ==
    /\ Width \in Nat /\ Width >= 4 /\ Height \in Nat /\ Height >= 4 /\ TabStop \in Nat \ {0}
    /\ Width * Height \in Nat /\ Width * Height = (Height - 1) * Width + Width
    /\ \A a, b \in Nat : a < b => a * Width + Width <= b * Width
    /\ \A a \in Nat : a * Width \in Nat /\ (a + 1) * Width = a * Width + Width
<1>1. /\ Width \in Nat /\ Width >= 4 /\ Height \in Nat /\ Height >= 4 /\ TabStop \in Nat \ {0}
  BY ConsoleAssumption, InterfaceAssumption
<1>2. \A a \in Nat : a * Width \in Nat /\ (a + 1) * Width = a * Width + Width
  BY <1>1
<1>3. \A a, d \in Nat : (a + 1 + d) * Width = (a + 1) * Width + d * Width
  BY <1>1
<1>4. ASSUME NEW a \in Nat, NEW b \in Nat, a < b PROVE a * Width + Width <= b * Width
  <2>1. b - a - 1 \in Nat /\ b = a + 1 + (b - a - 1)
    BY <1>4
  <2> DEFINE d == b - a - 1
  <2> HIDE DEF d
  <2>2. d \in Nat /\ b = a + 1 + d
    BY <2>1 DEF d
  <2>3. b * Width = (a + 1) * Width + d * Width
    BY <2>2, <1>3
  <2>4. d * Width \in Nat /\ (a + 1) * Width = a * Width + Width /\ a * Width \in Nat
    BY <2>2, <1>2
  <2> QED
    BY <2>3, <2>4, <1>1
<1>5. Width * Height \in Nat /\ Width * Height = (Height - 1) * Width + Width
  BY <1>1
<1> QED
  BY <1>1, <1>2, <1>4, <1>5

\* The cursor is in a cell.
LEMMA CursorCell ==
    ASSUME NEW con \in Moved, con.x < Width, con.y < Height
    PROVE  /\ con.y * Width \in Nat /\ Cursor(con) \in Cells
           /\ Cursor(con) = con.y * Width + con.x
           /\ con.x = Width - 1 => Cursor(con) + 1 = (con.y + 1) * Width
           /\ con.y = Height - 1 => (con.y + 1) * Width = Width * Height
           /\ con.y < Height - 1 => (con.y + 1) * Width < Width * Height
<1>1. con.x \in Nat /\ con.y \in Nat
  BY DEF Moved
<1>2. con.y * Width + Width <= Height * Width /\ con.y * Width \in Nat
      /\ (con.y + 1) * Width = con.y * Width + Width
      /\ (con.y < Height - 1 => con.y * Width + Width <= (Height - 1) * Width)
  BY <1>1, Sizes
<1>3. Height * Width = Width * Height
  BY Sizes
<1> QED
  BY <1>1, <1>2, <1>3, Sizes DEF Cells, Cursor

LEMMA Quotient == \A a \in Nat, b \in Nat \ {0} : a \div b \in Nat
  OBVIOUS

\* The end of ConsoleWriteCharacter, wherever the character has moved the cursor: in a
\* row, past its end, and below the last row.
LEMMA SettledInRow ==
    ASSUME NEW m \in Moved, m.x < Width, m.y < Height
    PROVE  Scroll(Wrap(m)) = m
<1>1. Wrap(m) = m
  BY ScreenSize DEF Wrap, Moved
<1> QED
  BY <1>1 DEF Scroll

LEMMA SettledNextRow ==
    ASSUME NEW m \in Moved, m.x >= Width, m.y + 1 < Height
    PROVE  Scroll(Wrap(m)) = [x |-> 0, y |-> m.y + 1, cells |-> m.cells, scrolled |-> m.scrolled]
<1> DEFINE w == [x |-> 0, y |-> m.y + 1, cells |-> m.cells, scrolled |-> m.scrolled]
<1>1. m = [x |-> m.x, y |-> m.y, cells |-> m.cells, scrolled |-> m.scrolled]
  BY DEF Moved
<1>2. Wrap(m) = [m EXCEPT !.x = 0, !.y = m.y + 1]
  BY DEF Wrap
<1>3. Wrap(m) = w
  BY <1>1, <1>2
<1>4. w.y < Height
  OBVIOUS
<1> HIDE DEF w
<1>5. Scroll(w) = w
  BY <1>4 DEF Scroll
<1> QED
  BY <1>3, <1>5 DEF w

LEMMA SettledBelow ==
    ASSUME NEW m \in Moved, m.x < Width, m.y = Height
    PROVE  Scroll(Wrap(m)) = [x |-> m.x, y |-> Height - 1, cells |-> Shifted(m.cells),
                              scrolled |-> m.scrolled + 1]
<1>1. m = [x |-> m.x, y |-> m.y, cells |-> m.cells, scrolled |-> m.scrolled]
  BY DEF Moved
<1>2. Wrap(m) = m
  BY ScreenSize DEF Wrap, Moved
<1>3. Scroll(m) = [m EXCEPT !.cells = Shifted(m.cells), !.y = Height - 1,
                            !.scrolled = m.scrolled + 1]
  BY ScreenSize DEF Scroll, Shifted
<1> QED
  BY <1>1, <1>2, <1>3

LEMMA SettledScrolled ==
    ASSUME NEW m \in Moved, m.x >= Width, m.y + 1 = Height
    PROVE  Scroll(Wrap(m)) = [x |-> 0, y |-> Height - 1, cells |-> Shifted(m.cells),
                              scrolled |-> m.scrolled + 1]
<1> DEFINE w == [x |-> 0, y |-> Height, cells |-> m.cells, scrolled |-> m.scrolled]
<1>1. m = [x |-> m.x, y |-> m.y, cells |-> m.cells, scrolled |-> m.scrolled]
      /\ m.cells \in [Cells -> 0 .. 255] /\ m.scrolled \in Nat
  BY DEF Moved
<1>2. Wrap(m) = [m EXCEPT !.x = 0, !.y = m.y + 1]
  BY DEF Wrap
<1>3. Wrap(m) = w
  BY <1>1, <1>2
<1>4. w \in Moved /\ w.x = 0 /\ w.y = Height /\ w.cells = m.cells /\ w.scrolled = m.scrolled
  BY <1>1, ScreenSize DEF Moved
<1> HIDE DEF w
<1>5. Scroll(Wrap(w)) = [x |-> 0, y |-> Height - 1, cells |-> Shifted(m.cells),
                         scrolled |-> m.scrolled + 1]
  BY <1>4, SettledBelow, ScreenSize
<1>6. Wrap(w) = w
  BY <1>4, ScreenSize DEF Wrap
<1> QED
  BY <1>3, <1>5, <1>6

Put(con, c) == [con.cells EXCEPT ![Cursor(con)] = c]

\* A printable character is put at the cursor, which goes to the next cell.
LEMMA PrintableWritten ==
    ASSUME NEW con \in Screens, NEW c \in Blank .. 255, NEW r, r = ConsoleWriteCharacter(con, c)
    PROVE  /\ r \in Screens
           /\ \/ /\ con.x + 1 < Width /\ r.x = con.x + 1 /\ r.y = con.y
                 /\ r.scrolled = con.scrolled /\ r.cells = Put(con, c)
              \/ /\ con.x + 1 = Width /\ con.y + 1 < Height /\ r.x = 0 /\ r.y = con.y + 1
                 /\ r.scrolled = con.scrolled /\ r.cells = Put(con, c)
              \/ /\ con.x + 1 = Width /\ con.y + 1 = Height /\ r.x = 0 /\ r.y = con.y
                 /\ r.scrolled = con.scrolled + 1 /\ r.cells = Shifted(Put(con, c))
<1>1. /\ con.x \in 0 .. (Width - 1) /\ con.y \in 0 .. (Height - 1) /\ con.scrolled \in Nat
      /\ con.cells \in [Cells -> 0 .. 255] /\ con \in Moved
      /\ con = [x |-> con.x, y |-> con.y, cells |-> con.cells, scrolled |-> con.scrolled]
  BY DEF Screens, Moved
<1> DEFINE m == [x |-> con.x + 1, y |-> con.y, cells |-> Put(con, c), scrolled |-> con.scrolled]
<1>2. Put(con, c) \in [Cells -> 0 .. 255] /\ Shifted(Put(con, c)) \in [Cells -> 0 .. 255]
  <2>1. c \in 0 .. 255 /\ Blank \in 0 .. 255
    BY DEF Blank
  <2>2. Put(con, c) \in [Cells -> 0 .. 255]
    BY <2>1, <1>1 DEF Put
  <2> QED
    BY <2>1, <2>2 DEF Shifted
<1>3. m \in Moved
  BY <1>1, <1>2 DEF Moved
<1>4. PutCharacter(con, c) = m
  <2>1. PutCharacter(con, c) = [con EXCEPT !.cells = Put(con, c), !.x = con.x + 1]
    BY DEF PutCharacter, Put
  <2> QED
    BY <2>1, <1>1
<1>5. r = Scroll(Wrap(m))
  <2>1. /\ c # Backspace /\ c # Tab /\ c # Return /\ c # Newline /\ c >= Blank
    BY DEF Blank, Backspace, Tab, Return, Newline
  <2> QED
    BY <2>1, <1>4 DEF ConsoleWriteCharacter
<1> HIDE DEF m
<1>9. /\ m.x = con.x + 1 /\ m.y = con.y /\ m.cells = Put(con, c) /\ m.scrolled = con.scrolled
      /\ m = [x |-> con.x + 1, y |-> con.y, cells |-> Put(con, c), scrolled |-> con.scrolled]
  BY DEF m
<1>6. CASE con.x + 1 < Width
  <2>1. r = m
    BY <1>1, <1>3, <1>5, <1>6, <1>9, SettledInRow, ScreenSize
  <2> QED
    BY <2>1, <1>1, <1>2, <1>6, <1>9, ScreenSize DEF Screens
<1>7. CASE con.x + 1 = Width /\ con.y + 1 < Height
  <2>1. r = [x |-> 0, y |-> con.y + 1, cells |-> Put(con, c), scrolled |-> con.scrolled]
    BY <1>1, <1>3, <1>5, <1>7, <1>9, SettledNextRow, ScreenSize
  <2> QED
    BY <2>1, <1>1, <1>2, <1>7, ScreenSize DEF Screens
<1>8. CASE con.x + 1 = Width /\ con.y + 1 = Height
  <2>1. r = [x |-> 0, y |-> Height - 1, cells |-> Shifted(Put(con, c)),
             scrolled |-> con.scrolled + 1]
    BY <1>1, <1>3, <1>5, <1>8, <1>9, SettledScrolled, ScreenSize
  <2> QED
    BY <2>1, <1>1, <1>2, <1>8, ScreenSize DEF Screens
<1> QED
  BY <1>1, <1>6, <1>7, <1>8, ScreenSize

LEMMA EndOfRow ==
    ASSUME NEW con \in Screens, NEW next
    PROVE  [con EXCEPT !.x = 0, !.y = next]
               = [x |-> 0, y |-> next, cells |-> con.cells, scrolled |-> con.scrolled]
<1> DEFINE m == [con EXCEPT !.x = 0, !.y = next]
<1>1. m \in [x : {0}, y : {next}, cells : {con.cells}, scrolled : {con.scrolled}]
  BY DEF Screens
<1> HIDE DEF m
<1>2. m = [x |-> 0, y |-> next, cells |-> con.cells, scrolled |-> con.scrolled]
  BY <1>1
<1> QED
  BY <1>2 DEF m

\* A newline goes to the start of the next row.
LEMMA NewlineWritten ==
    ASSUME NEW con \in Screens, NEW r, r = ConsoleWriteCharacter(con, Newline)
    PROVE  /\ r \in Screens /\ r.x = 0
           /\ \/ /\ con.y + 1 < Height /\ r.y = con.y + 1
                 /\ r.scrolled = con.scrolled /\ r.cells = con.cells
              \/ /\ con.y + 1 = Height /\ r.y = con.y
                 /\ r.scrolled = con.scrolled + 1 /\ r.cells = Shifted(con.cells)
<1>1. /\ con.x \in 0 .. (Width - 1) /\ con.y \in 0 .. (Height - 1) /\ con.scrolled \in Nat
      /\ con.cells \in [Cells -> 0 .. 255]
      /\ con = [x |-> con.x, y |-> con.y, cells |-> con.cells, scrolled |-> con.scrolled]
  BY DEF Screens
<1> DEFINE m == [x |-> 0, y |-> con.y + 1, cells |-> con.cells, scrolled |-> con.scrolled]
<1>2. m \in Moved /\ Shifted(con.cells) \in [Cells -> 0 .. 255]
  BY <1>1 DEF Moved, Shifted, Blank
<1>3. r = Scroll(Wrap(m))
  <2>1. r = Scroll(Wrap([con EXCEPT !.x = 0, !.y = con.y + 1]))
    BY DEF ConsoleWriteCharacter, Newline, Backspace, Tab, Return, Blank
  <2>2. [con EXCEPT !.x = 0, !.y = con.y + 1] = m
    BY <1>1, EndOfRow
  <2> HIDE DEF m
  <2> QED
    BY <2>1, <2>2, <1>1
<1>6. m.x = 0 /\ m.y = con.y + 1 /\ m.cells = con.cells /\ m.scrolled = con.scrolled
  OBVIOUS
<1> HIDE DEF m
<1>4. CASE con.y + 1 < Height
  <2>1. r = m
    BY <1>1, <1>2, <1>3, <1>4, <1>6, SettledInRow, ScreenSize
  <2> QED
    BY <2>1, <1>1, <1>4, <1>6, ScreenSize DEF Screens, m
<1>5. CASE con.y + 1 = Height
  <2>1. r = [x |-> 0, y |-> Height - 1, cells |-> Shifted(con.cells),
             scrolled |-> con.scrolled + 1]
    BY <1>1, <1>2, <1>3, <1>5, <1>6, SettledBelow, ScreenSize
  <2> QED
    BY <2>1, <1>1, <1>2, <1>5, ScreenSize DEF Screens
<1> QED
  BY <1>1, <1>4, <1>5, ScreenSize

\* A carriage return goes to the start of the row.
LEMMA ReturnWritten ==
    ASSUME NEW con \in Screens, NEW r, r = ConsoleWriteCharacter(con, Return)
    PROVE  r \in Screens /\ r = [con EXCEPT !.x = 0]
<1>1. /\ con.x \in 0 .. (Width - 1) /\ con.y \in 0 .. (Height - 1) /\ con.scrolled \in Nat
      /\ con.cells \in [Cells -> 0 .. 255]
      /\ con = [x |-> con.x, y |-> con.y, cells |-> con.cells, scrolled |-> con.scrolled]
  BY DEF Screens
<1> DEFINE m == [con EXCEPT !.x = 0]
<1>2. m = [x |-> 0, y |-> con.y, cells |-> con.cells, scrolled |-> con.scrolled]
  BY <1>1
<1>3. r = Scroll(Wrap(m))
  BY DEF ConsoleWriteCharacter, Newline, Backspace, Tab, Return, Blank
<1> HIDE DEF m
<1>4. m \in Moved /\ m \in Screens /\ m.x = 0 /\ m.y = con.y
  BY <1>1, <1>2, ScreenSize DEF Moved, Screens
<1>5. r = m
  BY <1>1, <1>3, <1>4, SettledInRow, ScreenSize
<1> QED
  BY <1>4, <1>5 DEF m

\* A backspace goes to the cell before, but not off the screen.
LEMMA BackspaceWritten ==
    ASSUME NEW con \in Screens, NEW r, r = ConsoleWriteCharacter(con, Backspace)
    PROVE  /\ r \in Screens /\ r.cells = con.cells /\ r.scrolled = con.scrolled
           /\ \/ con.x > 0 /\ r.x = con.x - 1 /\ r.y = con.y
              \/ con.x = 0 /\ con.y > 0 /\ r.x = Width - 1 /\ r.y = con.y - 1
              \/ con.x = 0 /\ con.y = 0 /\ r.x = 0 /\ r.y = 0
<1>1. /\ con.x \in 0 .. (Width - 1) /\ con.y \in 0 .. (Height - 1) /\ con.scrolled \in Nat
      /\ con.cells \in [Cells -> 0 .. 255]
      /\ con = [x |-> con.x, y |-> con.y, cells |-> con.cells, scrolled |-> con.scrolled]
  BY DEF Screens
<1> DEFINE m == StepBack(con)
<1>2. /\ m \in Screens /\ m.cells = con.cells /\ m.scrolled = con.scrolled
      /\ \/ con.x > 0 /\ m.x = con.x - 1 /\ m.y = con.y
         \/ con.x = 0 /\ con.y > 0 /\ m.x = Width - 1 /\ m.y = con.y - 1
         \/ con.x = 0 /\ con.y = 0 /\ m.x = 0 /\ m.y = 0
  <2>1. CASE con.x > 0
    <3>1. m = [x |-> con.x - 1, y |-> con.y, cells |-> con.cells, scrolled |-> con.scrolled]
      BY <2>1, <1>1 DEF StepBack
    <3> QED
      BY <3>1, <2>1, <1>1, ScreenSize DEF Screens
  <2>2. CASE con.x = 0 /\ con.y > 0
    <3>2. m = [con EXCEPT !.y = con.y - 1, !.x = Width - 1]
      BY <2>2 DEF StepBack
    <3>1. m = [x |-> Width - 1, y |-> con.y - 1, cells |-> con.cells,
               scrolled |-> con.scrolled]
      BY <3>2, <1>1
    <3> QED
      BY <3>1, <2>2, <1>1, ScreenSize DEF Screens
  <2>3. CASE con.x = 0 /\ con.y = 0
    BY <2>3, <1>1, ScreenSize DEF StepBack, Screens
  <2> QED
    BY <2>1, <2>2, <2>3, <1>1, ScreenSize
<1>3. m \in Moved /\ m.x < Width /\ m.y < Height
  BY <1>2, ScreenSize DEF Screens, Moved
<1>4. r = Scroll(Wrap(m))
  BY DEF ConsoleWriteCharacter, Newline, Backspace, Tab, Return, Blank
<1>5. r = m
  BY <1>3, <1>4, SettledInRow, ScreenSize
<1> HIDE DEF m
<1> QED
  BY <1>2, <1>5

\* Any other character leaves the cells as they are, but for a row that scrolls away.
LEMMA ControlWritten ==
    ASSUME NEW con \in Screens, NEW c \in 0 .. (Blank - 1), c # Backspace,
           NEW r, r = ConsoleWriteCharacter(con, c)
    PROVE  /\ r \in Screens
           /\ \/ r.y \in {con.y, con.y + 1} /\ r.scrolled = con.scrolled /\ r.cells = con.cells
              \/ /\ con.y + 1 = Height /\ r.y = con.y
                 /\ r.scrolled = con.scrolled + 1 /\ r.cells = Shifted(con.cells)
<1>1. /\ con.x \in 0 .. (Width - 1) /\ con.y \in 0 .. (Height - 1) /\ con.scrolled \in Nat
      /\ con.cells \in [Cells -> 0 .. 255] /\ con \in Moved
      /\ con = [x |-> con.x, y |-> con.y, cells |-> con.cells, scrolled |-> con.scrolled]
  BY DEF Screens, Moved
<1>2. CASE c = Tab
  <2>1. PICK t \in Nat : t = (con.x \div TabStop + 1) * TabStop
    <3>1. con.x \div TabStop \in Nat
      BY <1>1, ScreenSize, Quotient
    <3> QED
      BY <3>1, ScreenSize
  <2> DEFINE m == [x |-> t, y |-> con.y, cells |-> con.cells, scrolled |-> con.scrolled]
  <2>2. m \in Moved /\ Shifted(con.cells) \in [Cells -> 0 .. 255]
    BY <1>1 DEF Moved, Shifted, Blank
  <2>3. [con EXCEPT !.x = (@ \div TabStop + 1) * TabStop] = m
    BY <2>1, <1>1
  <2>4. r = Scroll(Wrap(m))
    <3>1. r = Scroll(Wrap([con EXCEPT !.x = (con.x \div TabStop + 1) * TabStop]))
      BY <1>2 DEF ConsoleWriteCharacter, Newline, Backspace, Tab, Return, Blank
    <3> HIDE DEF m
    <3> QED
      BY <3>1, <2>3
  <2>8. m.x = t /\ m.y = con.y /\ m.cells = con.cells /\ m.scrolled = con.scrolled
    OBVIOUS
  <2> HIDE DEF m
  <2>5. CASE t < Width
    <3>1. r = m
      BY <2>5, <2>2, <2>4, <2>8, <1>1, SettledInRow, ScreenSize
    <3> QED
      BY <3>1, <2>5, <1>1, ScreenSize DEF Screens, m
  <2>6. CASE t >= Width /\ con.y + 1 < Height
    <3>1. r = [x |-> 0, y |-> con.y + 1, cells |-> con.cells, scrolled |-> con.scrolled]
      BY <2>6, <2>2, <2>4, <2>8, <1>1, SettledNextRow, ScreenSize
    <3> QED
      BY <3>1, <2>6, <1>1, ScreenSize DEF Screens
  <2>7. CASE t >= Width /\ con.y + 1 = Height
    <3>1. r = [x |-> 0, y |-> Height - 1, cells |-> Shifted(con.cells),
               scrolled |-> con.scrolled + 1]
      BY <2>7, <2>2, <2>4, <2>8, <1>1, SettledScrolled, ScreenSize
    <3> QED
      BY <3>1, <2>2, <2>7, <1>1, ScreenSize DEF Screens
  <2> QED
    BY <2>5, <2>6, <2>7, <1>1, ScreenSize
<1>3. CASE c = Return
  <2>1. r \in Screens /\ r = [con EXCEPT !.x = 0]
    BY <1>3, ReturnWritten
  <2> QED
    BY <2>1, <1>1
<1>4. CASE c = Newline
  BY <1>4, NewlineWritten
<1>5. CASE c \notin {Tab, Return, Newline}
  <2>1. r = Scroll(Wrap(con))
    BY <1>5 DEF ConsoleWriteCharacter, Blank, Backspace
  <2>2. r = con
    BY <2>1, <1>1, SettledInRow, ScreenSize
  <2> QED
    BY <2>2
<1> QED
  BY <1>2, <1>3, <1>4, <1>5

-----------------------------------------------------------------------------
(* What is on the screen.                                                  *)

\* The same as PrintableWritten, by cells: d is what the screen has moved up by.
LEMMA PrintableShown ==
    ASSUME NEW con \in Screens, NEW c \in Blank .. 255, NEW r, r = ConsoleWriteCharacter(con, c)
    PROVE  /\ r \in Screens
           /\ \E d \in {0, Width} :
                /\ r.scrolled * Width = con.scrolled * Width + d
                /\ Cursor(r) = Cursor(con) + 1 - d
                /\ \A i \in Cells : r.cells[i] = IF i + d = Cursor(con) THEN c
                                                 ELSE IF i + d \in Cells THEN con.cells[i + d]
                                                 ELSE Blank
                /\ d = 0 => r.scrolled = con.scrolled
                /\ d = Width => /\ r.scrolled = con.scrolled + 1
                                /\ Cursor(r) = (Height - 1) * Width
                                /\ Cursor(con) + 1 = Width * Height
<1>1. /\ con.x \in 0 .. (Width - 1) /\ con.y \in 0 .. (Height - 1) /\ con.scrolled \in Nat
      /\ con.cells \in [Cells -> 0 .. 255] /\ con \in Moved
  BY DEF Screens, Moved
<1>2. /\ con.y * Width \in Nat /\ Cursor(con) \in Cells
      /\ Cursor(con) = con.y * Width + con.x
  BY <1>1, CursorCell, ScreenSize
<1>3. /\ (con.y + 1) * Width = con.y * Width + Width
      /\ (con.scrolled + 1) * Width = con.scrolled * Width + Width
      /\ con.scrolled * Width \in Nat
  BY <1>1, Sizes
<1>4. r \in Screens
  BY PrintableWritten
<1>5. Put(con, c) \in [Cells -> 0 .. 255]
      /\ \A i \in Cells : Put(con, c)[i] = IF i = Cursor(con) THEN c ELSE con.cells[i]
  <2>1. c \in 0 .. 255
    BY DEF Blank
  <2> QED
    BY <2>1, <1>1, <1>2 DEF Put
<1>6. CASE con.x + 1 < Width
  <2>1. /\ r.x = con.x + 1 /\ r.y = con.y /\ r.scrolled = con.scrolled /\ r.cells = Put(con, c)
    BY <1>1, <1>6, PrintableWritten, ScreenSize
  <2>2. Cursor(r) = Cursor(con) + 1
    BY <2>1, <1>1, <1>2 DEF Cursor
  <2>3. \A i \in Cells : i \in Nat
    BY Sizes DEF Cells
  <2> QED
    BY <2>1, <2>2, <2>3, <1>1, <1>2, <1>3, <1>4, <1>5, ScreenSize
<1>7. CASE con.x + 1 = Width /\ con.y + 1 < Height
  <2>1. /\ r.x = 0 /\ r.y = con.y + 1 /\ r.scrolled = con.scrolled /\ r.cells = Put(con, c)
    BY <1>1, <1>7, PrintableWritten, ScreenSize
  <2>2. Cursor(r) = Cursor(con) + 1
    BY <2>1, <1>1, <1>2, <1>3, <1>7 DEF Cursor
  <2>3. \A i \in Cells : i \in Nat
    BY Sizes DEF Cells
  <2> QED
    BY <2>1, <2>2, <2>3, <1>1, <1>2, <1>3, <1>4, <1>5, ScreenSize
<1>8. CASE con.x + 1 = Width /\ con.y + 1 = Height
  <2>1. /\ r.x = 0 /\ r.y = con.y /\ r.scrolled = con.scrolled + 1
        /\ r.cells = Shifted(Put(con, c))
    BY <1>1, <1>8, PrintableWritten, ScreenSize
  <2>2. Cursor(r) = con.y * Width /\ con.y = Height - 1
    BY <2>1, <1>1, <1>2, <1>8 DEF Cursor
  <2>3. Width * Height = (Height - 1) * Width + Width
    BY Sizes
  <2>4. \A i \in Cells : i \in Nat /\ r.cells[i] = IF i + Width \in Cells THEN Put(con, c)[i + Width]
                                                   ELSE Blank
    BY <2>1, Sizes DEF Cells, Shifted
  <2>5. \A i \in Cells : r.cells[i] = IF i + Width = Cursor(con) THEN c
                                      ELSE IF i + Width \in Cells THEN con.cells[i + Width]
                                      ELSE Blank
    BY <2>4, <1>2, <1>5
  <2>6. /\ r.scrolled * Width = con.scrolled * Width + Width
        /\ Cursor(r) = Cursor(con) + 1 - Width
        /\ Cursor(con) + 1 = Width * Height
    BY <2>1, <2>2, <2>3, <1>1, <1>2, <1>3, <1>8, ScreenSize
  <2> QED
    BY <2>1, <2>2, <2>5, <2>6, <1>4, ScreenSize
<1> QED
  BY <1>1, <1>6, <1>7, <1>8, ScreenSize

\* What a printable character is written behind stays the only thing on the screen.
LEMMA PrintableClear ==
    ASSUME NEW con \in Screens, NEW c \in Blank .. 255, NEW r, r = ConsoleWriteCharacter(con, c),
           BlankFrom(con, Cursor(con))
    PROVE  BlankFrom(r, Cursor(r))
<1>1. PICK d \in {0, Width} :
          /\ Cursor(r) = Cursor(con) + 1 - d
          /\ \A i \in Cells : r.cells[i] = IF i + d = Cursor(con) THEN c
                                           ELSE IF i + d \in Cells THEN con.cells[i + d]
                                           ELSE Blank
  BY PrintableShown
<1>2. con \in Moved /\ con.x < Width /\ con.y < Height
  BY ScreenSize DEF Screens, Moved
<1>3. Cursor(con) \in Nat
  BY <1>2, CursorCell, Sizes DEF Cells
<1> SUFFICES ASSUME NEW i \in Cells, i >= Cursor(r) PROVE r.cells[i] = Blank
  BY DEF BlankFrom
<1>4. i \in Nat
  BY Sizes DEF Cells
<1>5. i + d # Cursor(con) /\ i + d >= Cursor(con)
  BY <1>1, <1>3, <1>4, ScreenSize
<1> QED
  BY <1>1, <1>5 DEF BlankFrom

\* A blank rest of the screen has blank rows.
LEMMA RowsBlank ==
    ASSUME NEW con \in Screens, BlankFrom(con, Cursor(con))
    PROVE  BlankFrom(con, (con.y + 1) * Width)
<1>1. con \in Moved /\ con.x \in 0 .. (Width - 1) /\ con.y \in 0 .. (Height - 1)
  BY DEF Screens, Moved
<1>2. Cursor(con) = con.y * Width + con.x /\ con.y * Width \in Nat
      /\ (con.y + 1) * Width = con.y * Width + Width
  BY <1>1, CursorCell, Sizes
<1>3. \A i \in Cells : i \in Nat
  BY Sizes DEF Cells
<1> QED
  BY <1>1, <1>2, <1>3, ScreenSize DEF BlankFrom

\* A row that has scrolled away leaves a blank one behind.
LEMMA ShiftedBlank ==
    ASSUME NEW con \in Screens, con.y + 1 = Height
    PROVE  \A i \in Cells : i >= con.y * Width => Shifted(con.cells)[i] = Blank
<1>1. (Height - 1) * Width + Width = Width * Height /\ con.y = Height - 1
      /\ (Height - 1) * Width \in Nat
  BY Sizes DEF Screens
<1>2. \A i \in Cells : i \in Nat
  BY Sizes DEF Cells
<1> QED
  BY <1>1, <1>2, ScreenSize DEF Shifted, Cells

\* A newline below which there is nothing leaves nothing from the cursor on.
LEMMA NewlineClear ==
    ASSUME NEW con \in Screens, NEW r, r = ConsoleWriteCharacter(con, Newline),
           BlankFrom(con, (con.y + 1) * Width)
    PROVE  r \in Screens /\ BlankFrom(r, Cursor(r))
<1>1. r \in Screens /\ r.x = 0 /\ r.y \in Nat
  BY NewlineWritten DEF Screens
<1>2. Cursor(r) = r.y * Width
  <2>1. r.y * Width \in Nat
    BY <1>1, Sizes
  <2> QED
    BY <1>1, <2>1 DEF Cursor
<1>3. CASE con.y + 1 < Height
  <2>1. r.y = con.y + 1 /\ r.cells = con.cells
    BY <1>3, NewlineWritten, ScreenSize DEF Screens
  <2> QED
    BY <1>1, <1>2, <2>1 DEF BlankFrom
<1>4. CASE con.y + 1 = Height
  <2>1. r.y = con.y /\ r.cells = Shifted(con.cells)
    BY <1>4, NewlineWritten, ScreenSize DEF Screens
  <2> QED
    BY <1>1, <1>2, <1>4, <2>1, ShiftedBlank DEF BlankFrom
<1> QED
  BY <1>3, <1>4, ScreenSize DEF Screens

\* Any byte leaves the cursor on the screen.
LEMMA AnyWritten ==
    ASSUME NEW con \in Screens, NEW c \in 0 .. 255
    PROVE  ConsoleWriteCharacter(con, c) \in Screens
<1>1. c \in Blank .. 255 \/ c = Backspace \/ (c \in 0 .. (Blank - 1) /\ c # Backspace)
  BY DEF Blank, Backspace
<1> QED
  BY <1>1, PrintableWritten, BackspaceWritten, ControlWritten

\* No byte but a backspace leaves anything in the rows below the cursor.
LEMMA AnyRowsBlank ==
    ASSUME NEW con \in Screens, NEW c \in 0 .. 255, c # Backspace,
           NEW r, r = ConsoleWriteCharacter(con, c),
           BlankFrom(con, (con.y + 1) * Width)
    PROVE  BlankFrom(r, (r.y + 1) * Width)
<1>1. /\ con.y \in 0 .. (Height - 1) /\ con.x \in 0 .. (Width - 1) /\ r \in Screens
      /\ con.cells \in [Cells -> 0 .. 255] /\ con \in Moved
  <2>1. r \in Screens
    BY AnyWritten
  <2> QED
    BY <2>1 DEF Screens, Moved
<1>2. \A i \in Cells : i \in Nat
  BY Sizes DEF Cells
<1>3. /\ con.y * Width \in Nat /\ (con.y + 1) * Width = con.y * Width + Width
      /\ (con.y + 2) * Width = con.y * Width + Width + Width
  <2>1. con.y \in Nat /\ con.y + 1 \in Nat /\ (con.y + 1) + 1 = con.y + 2
    BY <1>1
  <2> QED
    BY <2>1, Sizes
<1>4. CASE c \in Blank .. 255
  <2>1. PICK d \in {0, Width} :
            \A i \in Cells : r.cells[i] = IF i + d = Cursor(con) THEN c
                                          ELSE IF i + d \in Cells THEN con.cells[i + d]
                                          ELSE Blank
    BY <1>4, PrintableShown
  <2>2. r.y \in {con.y, con.y + 1}
    BY <1>4, PrintableWritten
  <2>3. Cursor(con) = con.y * Width + con.x
    BY <1>1, CursorCell, ScreenSize
  <2> SUFFICES ASSUME NEW i \in Cells, i >= (r.y + 1) * Width PROVE r.cells[i] = Blank
    BY DEF BlankFrom
  <2>4. i >= con.y * Width + Width
    <3>1. CASE r.y = con.y
      BY <3>1, <1>3
    <3>2. CASE r.y = con.y + 1
      <4>1. r.y + 1 = con.y + 2
        BY <3>2, <1>1
      <4>2. i >= con.y * Width + Width + Width
        BY <4>1, <1>3
      <4> QED
        BY <4>2, <1>2, <1>3, ScreenSize
    <3> QED
      BY <3>1, <3>2, <2>2
  <2>5. i + d # Cursor(con) /\ i + d >= (con.y + 1) * Width
    BY <2>3, <2>4, <1>1, <1>2, <1>3, ScreenSize
  <2> QED
    BY <2>1, <2>5 DEF BlankFrom
<1>5. CASE c \in 0 .. (Blank - 1)
  <2>1. CASE r.y \in {con.y, con.y + 1} /\ r.cells = con.cells
    <3> SUFFICES ASSUME NEW i \in Cells, i >= (r.y + 1) * Width PROVE r.cells[i] = Blank
      BY DEF BlankFrom
    <3>1. i >= (con.y + 1) * Width
      <4>1. CASE r.y = con.y
        BY <4>1
      <4>2. CASE r.y = con.y + 1
        <5>1. r.y + 1 = con.y + 2
          BY <4>2, <1>1
        <5>2. i >= con.y * Width + Width + Width
          BY <5>1, <1>3
        <5> QED
          BY <5>2, <1>2, <1>3, ScreenSize
      <4> QED
        BY <4>1, <4>2, <2>1
    <3> QED
      BY <2>1, <3>1 DEF BlankFrom
  <2>2. CASE con.y + 1 = Height /\ r.y = con.y /\ r.cells = Shifted(con.cells)
    <3> SUFFICES ASSUME NEW i \in Cells, i >= (r.y + 1) * Width PROVE r.cells[i] = Blank
      BY DEF BlankFrom
    <3>1. i >= con.y * Width
      BY <2>2, <1>2, <1>3, ScreenSize
    <3> QED
      BY <2>2, <3>1, ShiftedBlank
  <2> QED
    BY <2>1, <2>2, <1>5, ControlWritten
<1> QED
  BY <1>4, <1>5 DEF Blank

\* A backspace by cells.
LEMMA BackspaceCursor ==
    ASSUME NEW con \in Screens, NEW r, r = ConsoleWriteCharacter(con, Backspace)
    PROVE  /\ r \in Screens /\ r.cells = con.cells /\ r.scrolled = con.scrolled
           /\ Cursor(r) = IF Cursor(con) = 0 THEN 0 ELSE Cursor(con) - 1
<1>1. /\ con.x \in 0 .. (Width - 1) /\ con.y \in 0 .. (Height - 1) /\ con.y * Width \in Nat
      /\ con.y > 0 => con.y - 1 \in Nat
  BY Sizes DEF Screens
<1>2. con.y > 0 => con.y * Width = (con.y - 1) * Width + Width /\ (con.y - 1) * Width \in Nat
  <2>1. con.y > 0 => con.y - 1 \in Nat /\ (con.y - 1) + 1 = con.y
    BY <1>1
  <2> QED
    BY <2>1, Sizes
<1>3. 0 * Width = 0
  BY ScreenSize
<1>7. r \in Screens /\ r.cells = con.cells /\ r.scrolled = con.scrolled
  BY BackspaceWritten
<1>4. CASE con.x > 0 /\ r.x = con.x - 1 /\ r.y = con.y
  <2>1. r.y * Width = con.y * Width
    BY <1>4
  <2> QED
    BY <1>1, <1>4, <1>7, <2>1 DEF Cursor
<1>5. CASE con.x = 0 /\ con.y > 0 /\ r.x = Width - 1 /\ r.y = con.y - 1
  <2>1. r.y * Width = (con.y - 1) * Width
    BY <1>5
  <2> QED
    BY <1>1, <1>2, <1>5, <1>7, <2>1, ScreenSize DEF Cursor
<1>6. CASE con.x = 0 /\ con.y = 0 /\ r.x = 0 /\ r.y = 0
  <2>1. r.y * Width = 0 /\ con.y * Width = 0
    BY <1>3, <1>6
  <2> QED
    BY <1>6, <1>7, <2>1 DEF Cursor
<1> QED
  BY <1>4, <1>5, <1>6, BackspaceWritten

LEMMA TwoWritten ==
    ASSUME NEW con, NEW a, NEW b
    PROVE  ConsoleWriteString(con, <<a, b>>)
               = ConsoleWriteCharacter(ConsoleWriteCharacter(con, a), b)
<1> DEFINE one == ConsoleWriteCharacter(con, a)
    two == ConsoleWriteCharacter(one, b)
    G == [n \in 0 .. 2 |-> IF n = 0 THEN {con} ELSE IF n = 1 THEN {one} ELSE {two}]
    s == <<a, b>>
<1>1. Len(s) = 2 /\ s[1] = a /\ s[2] = b
  OBVIOUS
<1>2. con \in G[0] /\ G[1] = {one} /\ G[2] = {two} /\ G[0] = {con}
  OBVIOUS
<1>4. ConsoleWriteCharacter(con, a) = one /\ ConsoleWriteCharacter(one, b) = two
  OBVIOUS
<1> HIDE DEF G, s, one, two
<1>3. \A n \in 1 .. Len(s) : \A before \in G[n - 1] : ConsoleWriteCharacter(before, s[n]) \in G[n]
  <2> SUFFICES ASSUME NEW n \in 1 .. 2, NEW before \in G[n - 1]
               PROVE  ConsoleWriteCharacter(before, s[n]) \in G[n]
    BY <1>1
  <2>1. CASE n = 1
    BY <2>1, <1>1, <1>2, <1>4
  <2>2. CASE n = 2
    BY <2>2, <1>1, <1>2, <1>4
  <2> QED
    BY <2>1, <2>2
<1>5. ConsoleWriteString(con, s) \in G[2]
  <2>1. con \in G[0] /\ Len(s) \in Nat
    BY <1>1, <1>2
  <2>2. ConsoleWriteString(con, s) \in G[Len(s)]
    BY <1>3, <2>1, StringWritten
  <2> QED
    BY <1>1, <2>2
<1> QED
  BY <1>2, <1>5 DEF two, one, s

LEMMA ThreeWritten ==
    ASSUME NEW con, NEW a, NEW b, NEW c
    PROVE  ConsoleWriteString(con, <<a, b, c>>)
               = ConsoleWriteCharacter(ConsoleWriteCharacter(ConsoleWriteCharacter(con, a), b), c)
<1> DEFINE one == ConsoleWriteCharacter(con, a)
    two == ConsoleWriteCharacter(one, b)
    three == ConsoleWriteCharacter(two, c)
    G == [n \in 0 .. 3 |-> IF n = 0 THEN {con} ELSE IF n = 1 THEN {one}
                           ELSE IF n = 2 THEN {two} ELSE {three}]
    s == <<a, b, c>>
<1>1. Len(s) = 3 /\ s[1] = a /\ s[2] = b /\ s[3] = c
  OBVIOUS
<1>2. G[0] = {con} /\ G[1] = {one} /\ G[2] = {two} /\ G[3] = {three}
  OBVIOUS
<1>4. /\ ConsoleWriteCharacter(con, a) = one /\ ConsoleWriteCharacter(one, b) = two
      /\ ConsoleWriteCharacter(two, c) = three
  OBVIOUS
<1> HIDE DEF G, s, one, two, three
<1>3. \A n \in 1 .. Len(s) : \A before \in G[n - 1] : ConsoleWriteCharacter(before, s[n]) \in G[n]
  <2> SUFFICES ASSUME NEW n \in 1 .. 3, NEW before \in G[n - 1]
               PROVE  ConsoleWriteCharacter(before, s[n]) \in G[n]
    BY <1>1
  <2>1. CASE n = 1
    BY <2>1, <1>1, <1>2, <1>4
  <2>2. CASE n = 2
    BY <2>2, <1>1, <1>2, <1>4
  <2>3. CASE n = 3
    BY <2>3, <1>1, <1>2, <1>4
  <2> QED
    BY <2>1, <2>2, <2>3
<1>5. ConsoleWriteString(con, s) \in G[3]
  <2>1. con \in G[0] /\ Len(s) \in Nat
    BY <1>1, <1>2
  <2>2. ConsoleWriteString(con, s) \in G[Len(s)]
    BY <1>3, <2>1, StringWritten
  <2> QED
    BY <1>1, <2>2
<1> QED
  BY <1>2, <1>5 DEF three, two, one, s

\* Backspace, blank, backspace: the cell before the cursor is blank and the cursor on it,
\* whatever row it is in.
LEMMA Erased ==
    ASSUME NEW con \in Screens, BlankFrom(con, Cursor(con)),
           NEW r, r = ConsoleWriteString(con, <<Backspace, Blank, Backspace>>)
    PROVE  /\ r \in Screens /\ r.scrolled = con.scrolled
           /\ Cursor(r) = IF Cursor(con) = 0 THEN 0 ELSE Cursor(con) - 1
           /\ BlankFrom(r, Cursor(r))
           /\ \A i \in Cells : i < Cursor(r) => r.cells[i] = con.cells[i]
<1>1. PICK one : one = ConsoleWriteCharacter(con, Backspace)
  OBVIOUS
<1>2. PICK two : two = ConsoleWriteCharacter(one, Blank)
  OBVIOUS
<1>3. r = ConsoleWriteCharacter(two, Backspace)
  BY <1>1, <1>2, ThreeWritten
<1>4. /\ one \in Screens /\ one.cells = con.cells /\ one.scrolled = con.scrolled
      /\ Cursor(one) = IF Cursor(con) = 0 THEN 0 ELSE Cursor(con) - 1
  BY <1>1, BackspaceCursor
<1>5. Cursor(con) \in Cells /\ Cursor(one) \in Cells
  BY <1>4, CursorCell, ScreenSize DEF Screens, Moved
<1>6. /\ \A i \in Cells : i \in Nat /\ i < Width * Height
      /\ Width * Height \in Nat /\ Width * Height > 1
      /\ Cursor(con) \in Nat /\ Cursor(con) < Width * Height /\ Cursor(one) \in Nat
  BY <1>5, Sizes DEF Cells
<1>7. /\ two \in Screens /\ two.scrolled = con.scrolled
      /\ Cursor(two) = Cursor(one) + 1
      /\ \A i \in Cells : two.cells[i] = IF i = Cursor(one) THEN Blank ELSE con.cells[i]
  <2>1. Blank \in Blank .. 255
    BY DEF Blank
  <2>2. PICK d \in {0, Width} :
                /\ Cursor(two) = Cursor(one) + 1 - d
                /\ \A i \in Cells : two.cells[i] = IF i + d = Cursor(one) THEN Blank
                                                   ELSE IF i + d \in Cells THEN one.cells[i + d]
                                                   ELSE Blank
                /\ d = 0 => two.scrolled = one.scrolled
                /\ d = Width => Cursor(one) + 1 = Width * Height
    BY <1>2, <1>4, <2>1, PrintableShown
  <2>3. d = 0
    BY <2>2, <1>4, <1>5, <1>6
  <2>4. \A i \in Cells : i + 0 = i
    BY <1>6
  <2>5. two \in Screens
    BY <1>2, <1>4, <2>1, PrintableShown
  <2>6. Cursor(one) + 1 - 0 = Cursor(one) + 1
    BY <1>5, <1>6
  <2> QED
    BY <2>2, <2>3, <2>4, <2>5, <2>6, <1>4
<1>8. /\ r \in Screens /\ r.cells = two.cells /\ r.scrolled = two.scrolled
      /\ Cursor(r) = IF Cursor(two) = 0 THEN 0 ELSE Cursor(two) - 1
  BY <1>3, <1>7, BackspaceCursor
<1>9. Cursor(r) = Cursor(one)
  BY <1>5, <1>6, <1>7, <1>8
<1>10. BlankFrom(r, Cursor(r))
  <2> SUFFICES ASSUME NEW i \in Cells, i >= Cursor(r) PROVE r.cells[i] = Blank
    BY DEF BlankFrom
  <2>1. i = Cursor(one) \/ i >= Cursor(con)
    BY <1>4, <1>5, <1>6, <1>9
  <2> QED
    BY <2>1, <1>7, <1>8 DEF BlankFrom
<1>11. \A i \in Cells : i < Cursor(r) => r.cells[i] = con.cells[i]
  BY <1>5, <1>6, <1>7, <1>8, <1>9
<1> QED
  BY <1>4, <1>7, <1>8, <1>9, <1>10, <1>11

\* The end of a line.
LEMMA LineEnded ==
    ASSUME NEW con \in Screens, BlankFrom(con, (con.y + 1) * Width),
           NEW r, r = ConsoleWriteString(con, <<Return, Newline>>)
    PROVE  r \in Screens /\ BlankFrom(r, Cursor(r))
<1>1. PICK one : one = ConsoleWriteCharacter(con, Return)
  OBVIOUS
<1>2. one \in Screens /\ one.y = con.y /\ one.cells = con.cells
  <2>1. one \in Screens /\ one = [con EXCEPT !.x = 0]
    BY <1>1, ReturnWritten
  <2> QED
    BY <2>1 DEF Screens
<1>3. r = ConsoleWriteCharacter(one, Newline)
  BY <1>1, TwoWritten
<1>4. BlankFrom(one, (one.y + 1) * Width)
  BY <1>2 DEF BlankFrom
<1> QED
  BY <1>2, <1>3, <1>4, NewlineClear

-----------------------------------------------------------------------------
(* Strings and numbers: what they leave on the screen.                     *)

LEMMA StringOnScreen ==
    ASSUME NEW con \in Screens, NEW s \in Seq(0 .. 255)
    PROVE  ConsoleWriteString(con, s) \in Screens
<1> DEFINE G == [n \in 0 .. Len(s) |-> Screens]
<1>1. con \in G[0] /\ Len(s) \in Nat /\ G[Len(s)] = Screens
  OBVIOUS
<1>2. \A n \in 1 .. Len(s) : \A before \in G[n - 1] : ConsoleWriteCharacter(before, s[n]) \in G[n]
  <2> SUFFICES ASSUME NEW n \in 1 .. Len(s), NEW before \in Screens
               PROVE  ConsoleWriteCharacter(before, s[n]) \in Screens
    OBVIOUS
  <2>1. s[n] \in 0 .. 255
    BY ElementOfSeq
  <2> QED
    BY <2>1, AnyWritten
<1> HIDE DEF G
<1>3. ConsoleWriteString(con, s) \in G[Len(s)]
  BY <1>1, <1>2, StringWritten
<1> QED
  BY <1>1, <1>3

\* The consoles with nothing from the cursor on.
ClearScreens == {q \in Screens : BlankFrom(q, Cursor(q))}

LEMMA PrintablesClear ==
    ASSUME NEW con \in ClearScreens, NEW s \in Seq(Blank .. 126)
    PROVE  ConsoleWriteString(con, s) \in ClearScreens
<1> DEFINE G == [n \in 0 .. Len(s) |-> ClearScreens]
<1>1. con \in G[0] /\ Len(s) \in Nat /\ G[Len(s)] = ClearScreens
  OBVIOUS
<1>2. \A n \in 1 .. Len(s) : \A before \in G[n - 1] : ConsoleWriteCharacter(before, s[n]) \in G[n]
  <2> SUFFICES ASSUME NEW n \in 1 .. Len(s), NEW before \in ClearScreens
               PROVE  ConsoleWriteCharacter(before, s[n]) \in ClearScreens
    OBVIOUS
  <2>1. s[n] \in Blank .. 255
    <3>1. s[n] \in Blank .. 126
      BY ElementOfSeq
    <3> QED
      BY <3>1 DEF Blank
  <2> QED
    BY <2>1, PrintableWritten, PrintableClear DEF ClearScreens
<1> HIDE DEF G
<1>3. ConsoleWriteString(con, s) \in G[Len(s)]
  BY <1>1, <1>2, StringWritten
<1> QED
  BY <1>1, <1>3

\* The message after a page leaves nothing from the cursor on.
LEMMA MessageClear ==
    ASSUME NEW con \in Screens, BlankFrom(con, (con.y + 1) * Width)
    PROVE  ConsoleWriteString(con, MoreMessage) \in ClearScreens
<1> DEFINE G == [n \in 0 .. Len(MoreMessage) |-> IF n = 0 THEN {con} ELSE ClearScreens]
<1>1. /\ MoreMessage \in Seq(0 .. 255) /\ Len(MoreMessage) \in Nat /\ Len(MoreMessage) >= 3
      /\ MoreMessage[1] = Newline /\ MoreMessage[Len(MoreMessage)] = Newline
      /\ \A i \in 2 .. (Len(MoreMessage) - 1) : MoreMessage[i] \in Blank .. 126
  BY InterfaceAssumption
<1>2. G[0] = {con} /\ G[Len(MoreMessage)] = ClearScreens
      /\ \A n \in 1 .. Len(MoreMessage) : G[n] = ClearScreens
  BY <1>1
<1> HIDE DEF G
<1>3. ASSUME NEW n \in 1 .. Len(MoreMessage), NEW before \in G[n - 1]
      PROVE  ConsoleWriteCharacter(before, MoreMessage[n]) \in G[n]
  <2> SUFFICES ConsoleWriteCharacter(before, MoreMessage[n]) \in ClearScreens
    BY <1>2
  <2>1. CASE n = 1
    <3>1. before = con
      BY <2>1, <1>2
    <3> QED
      BY <3>1, <2>1, <1>1, NewlineClear DEF ClearScreens
  <2>2. CASE n # 1 /\ n # Len(MoreMessage)
    <3>1. before \in ClearScreens /\ n \in 2 .. (Len(MoreMessage) - 1)
      BY <2>2, <1>1, <1>2, SMTT(30)
    <3>2. MoreMessage[n] \in Blank .. 255
      <4>1. MoreMessage[n] \in Blank .. 126
        BY <3>1, <1>1
      <4> QED
        BY <4>1 DEF Blank
    <3> QED
      BY <3>1, <3>2, PrintableWritten, PrintableClear DEF ClearScreens
  <2>3. CASE n = Len(MoreMessage) /\ n # 1
    <3>1. before \in ClearScreens
      BY <2>3, <1>1, <1>2
    <3>2. before \in Screens /\ BlankFrom(before, (before.y + 1) * Width)
      BY <3>1, RowsBlank DEF ClearScreens
    <3> QED
      BY <3>2, <2>3, <1>1, NewlineClear DEF ClearScreens
  <2> QED
    BY <2>1, <2>2, <2>3
<1>4. con \in G[0]
  BY <1>2
<1>5. ConsoleWriteString(con, MoreMessage) \in G[Len(MoreMessage)]
  BY <1>1, <1>3, <1>4, StringWritten
<1> QED
  BY <1>2, <1>5

\* Rows leave the screen only when the cursor is in the last one.
Late(con) == con.scrolled = 0 \/ con.y = Height - 1

LEMMA PrintableRow ==
    ASSUME NEW con \in Screens, Late(con), NEW c \in Blank .. 255,
           NEW r, r = ConsoleWriteCharacter(con, c)
    PROVE  /\ r \in Screens /\ Late(r)
           /\ \/ con.x + 1 < Width /\ r.x = con.x + 1 /\ Row(r) = Row(con)
              \/ con.x + 1 = Width /\ r.x = 0 /\ Row(r) = Row(con) + 1
<1>1. con.y \in 0 .. (Height - 1) /\ con.scrolled \in Nat
  BY DEF Screens
<1> QED
  BY <1>1, PrintableWritten, ScreenSize DEF Late, Row

LEMMA NewlineRow ==
    ASSUME NEW con \in Screens, Late(con), NEW r, r = ConsoleWriteCharacter(con, Newline)
    PROVE  r \in Screens /\ Late(r) /\ r.x = 0 /\ Row(r) = Row(con) + 1
<1>1. con.y \in 0 .. (Height - 1) /\ con.scrolled \in Nat
  BY DEF Screens
<1> QED
  BY <1>1, NewlineWritten, ScreenSize DEF Late, Row

\* The message after a page takes two rows.
LEMMA MessageRows ==
    ASSUME NEW con \in Screens, Late(con),
           NEW r, r = ConsoleWriteString(con, MoreMessage)
    PROVE  r \in Screens /\ Late(r) /\ Row(r) = Row(con) + 2
<1> DEFINE last == Len(MoreMessage)
    G == [n \in 0 .. last |->
            {q \in Screens : /\ Late(q)
                             /\ n = 0 => q = con
                             /\ n \in 1 .. (last - 1) => q.x = n - 1 /\ Row(q) = Row(con) + 1
                             /\ n = last => Row(q) = Row(con) + 2}]
<1>1. /\ last \in Nat /\ last >= 3 /\ last <= Width + 1
      /\ MoreMessage[1] = Newline /\ MoreMessage[last] = Newline
      /\ \A i \in 2 .. (last - 1) : MoreMessage[i] \in Blank .. 126
  BY InterfaceAssumption, ScreenSize
<1>2. Row(con) \in Nat
  BY ScreenSize DEF Row, Screens
<1>3. \A n \in 0 .. last, q \in Screens :
         q \in G[n] <=> /\ Late(q)
                        /\ n = 0 => q = con
                        /\ n \in 1 .. (last - 1) => q.x = n - 1 /\ Row(q) = Row(con) + 1
                        /\ n = last => Row(q) = Row(con) + 2
  OBVIOUS
<1>4. \A n \in 0 .. last : G[n] \subseteq Screens
  OBVIOUS
<1> HIDE DEF G, last
<1>5. con \in G[0]
  BY <1>1, <1>3
<1>6. ASSUME NEW n \in 1 .. last, NEW before \in G[n - 1]
      PROVE  ConsoleWriteCharacter(before, MoreMessage[n]) \in G[n]
  <2>1. PICK after : after = ConsoleWriteCharacter(before, MoreMessage[n])
    OBVIOUS
  <2>2. n - 1 \in 0 .. last /\ n \in 0 .. last /\ n # 0
    BY <1>1
  <2>3. /\ before \in Screens /\ Late(before)
        /\ n - 1 = 0 => before = con
        /\ n - 1 \in 1 .. (last - 1) => before.x = n - 2 /\ Row(before) = Row(con) + 1
    <3>1. before \in Screens
      BY <1>4, <2>2
    <3> QED
      BY <3>1, <1>1, <1>3, <2>2
  <2> SUFFICES /\ after \in Screens /\ Late(after)
               /\ n \in 1 .. (last - 1) => after.x = n - 1 /\ Row(after) = Row(con) + 1
               /\ n = last => Row(after) = Row(con) + 2
    BY <1>3, <2>1, <2>2
  <2>4. CASE n = 1
    BY <2>1, <2>3, <2>4, <1>1, NewlineRow
  <2>5. CASE n # 1 /\ n # last
    <3>1. n \in 2 .. (last - 1) /\ n - 1 \in 1 .. (last - 1) /\ n - 1 < Width
      BY <2>5, <1>1, ScreenSize
    <3>2. MoreMessage[n] \in Blank .. 255
      <4>1. MoreMessage[n] \in Blank .. 126
        BY <3>1, <1>1
      <4> QED
        BY <4>1 DEF Blank
    <3>3. before.x + 1 < Width \/ before.x + 1 = Width
      BY <2>3, <3>1, ScreenSize
    <3>4. before.x + 1 = n - 1 /\ Row(before) = Row(con) + 1
      BY <2>3, <3>1
    <3>5. after \in Screens /\ Late(after) /\ after.x = before.x + 1 /\ Row(after) = Row(before)
      BY <2>1, <2>3, <3>1, <3>2, <3>4, PrintableRow, ScreenSize
    <3> QED
      BY <2>5, <3>1, <3>4, <3>5
  <2>6. CASE n = last /\ n # 1
    <3>1. Row(before) = Row(con) + 1
      BY <2>3, <2>6, <1>1
    <3>2. after \in Screens /\ Late(after) /\ Row(after) = Row(before) + 1
      BY <2>1, <2>3, <2>6, <1>1, NewlineRow
    <3> QED
      BY <2>6, <3>1, <3>2, <1>1, <1>2
  <2> QED
    BY <2>4, <2>5, <2>6
<1>7. ConsoleWriteString(con, MoreMessage) \in G[Len(MoreMessage)]
  <2>1. Len(MoreMessage) \in Nat /\ Len(MoreMessage) = last
    BY <1>1 DEF last
  <2> QED
    BY <2>1, <1>5, <1>6, StringWritten
<1> QED
  BY <1>1, <1>3, <1>4, <1>7 DEF last

-----------------------------------------------------------------------------
(* Numbers.                                                                *)

\* What is left of a byte without its last digit.
LEMMA LastDigit ==
    ASSUME NEW n \in 0 .. 255, NEW b \in {10, 16}
    PROVE  /\ n \div b \in Nat /\ (n > 0 => n \div b < n)
           /\ (n < 10 => n \div b = 0) /\ (n < 100 => n \div b < 10) /\ n \div b < 100
           /\ hexChars[(n % b) + 1] \in 48 .. 70
<1>1. (n % b) + 1 \in 1 .. 16
  BY SMT
<1>2. \A k \in 1 .. 16 : hexChars[k] \in 48 .. 70
  BY DEF hexChars
<1> QED
  BY <1>1, <1>2

\* The recursion of Digits has a solution.
LEMMA DigitsEnd ==
    ASSUME NEW b \in {10, 16}, NEW k \in 0 .. 255
    PROVE  \E f : f = [n \in 0 .. k |-> IF n = 0 THEN <<>>
                                        ELSE Append(f[n \div b], hexChars[(n % b) + 1])]
<1> DEFINE Solves(f, m) ==
        f = [n \in 0 .. m |-> IF n = 0 THEN <<>>
                              ELSE Append(f[n \div b], hexChars[(n % b) + 1])]
    S == {m \in Nat : m <= 255 => \E f : Solves(f, m)}
<1>1. 0 \in S
  <2> DEFINE f == [n \in 0 .. 0 |-> <<>>]
  <2>1. Solves(f, 0)
    OBVIOUS
  <2> QED
    BY <2>1
<1>2. ASSUME NEW m \in S, m + 1 <= 255 PROVE \E g : Solves(g, m + 1)
  <2>1. PICK f : Solves(f, m)
    <3> HIDE DEF Solves
    <3>1. m \in Nat /\ m <= 255
      BY <1>2
    <3> QED
      BY <3>1
  <2> DEFINE g == [n \in 0 .. (m + 1) |->
                     IF n = m + 1 THEN Append(f[(m + 1) \div b], hexChars[((m + 1) % b) + 1])
                     ELSE f[n]]
  <2>2. \A n \in 0 .. (m + 1) :
            g[n] = IF n = 0 THEN <<>> ELSE Append(g[n \div b], hexChars[(n % b) + 1])
    <3> SUFFICES ASSUME NEW n \in 0 .. (m + 1)
                 PROVE  g[n] = IF n = 0 THEN <<>>
                               ELSE Append(g[n \div b], hexChars[(n % b) + 1])
      OBVIOUS
    <3>1. n \in 0 .. 255
      BY <1>2
    <3>2. n # 0 => n \div b \in 0 .. m
      BY <3>1, LastDigit, SMTT(90)
    <3>3. \A j \in 0 .. m : g[j] = f[j]
      OBVIOUS
    <3>4. CASE n = m + 1
      <4>1. g[n] = Append(f[n \div b], hexChars[(n % b) + 1])
        BY <3>4
      <4> HIDE DEF g
      <4> QED
        BY <3>2, <3>3, <3>4, <4>1
    <3>5. CASE n # m + 1
      <4>1. n \in 0 .. m
        BY <3>5
      <4>2. f[n] = IF n = 0 THEN <<>> ELSE Append(f[n \div b], hexChars[(n % b) + 1])
        BY <2>1, <4>1
      <4> HIDE DEF g
      <4> QED
        BY <3>2, <3>3, <4>1, <4>2
    <3> QED
      BY <3>4, <3>5
  <2>3. g = [n \in 0 .. (m + 1) |-> g[n]]
    OBVIOUS
  <2>4. Solves(g, m + 1)
    <3> HIDE DEF g
    <3> QED
      BY <2>2, <2>3
  <2> HIDE DEF Solves, g
  <2> QED
    BY <2>4
<1>3. S = Nat
  <2>1. ASSUME NEW m \in S PROVE m + 1 \in S
    <3> HIDE DEF Solves
    <3> QED
      BY <1>2
  <2> HIDE DEF S
  <2> QED
    BY <1>1, <2>1, Induction DEF S
<1>4. k \in Nat /\ k <= 255
  OBVIOUS
<1> HIDE DEF Solves
<1>5. \E f : Solves(f, k)
  BY <1>3, <1>4
<1> QED
  BY <1>5 DEF Solves

\* A byte has three digits at most, none of them a control character.
LEMMA ByteDigits ==
    ASSUME NEW i \in 0 .. 255, NEW b \in {10, 16}, NEW least \in {1, 2}
    PROVE  Digits(i, b, least) \in Seq(48 .. 70) /\ Len(Digits(i, b, least)) <= 3
<1> DEFINE f == CHOOSE g : g = [n \in 0 .. i |->
                    IF n = 0 THEN <<>> ELSE Append(g[n \div b], hexChars[(n % b) + 1])]
    Zeros(k) == [z \in 1 .. k |-> hexChars[1]]
    zeros == IF Len(f[i]) < least THEN least - Len(f[i]) ELSE 0
<1>1. f = [n \in 0 .. i |-> IF n = 0 THEN <<>> ELSE Append(f[n \div b], hexChars[(n % b) + 1])]
  BY DigitsEnd
<1>2. Digits(i, b, least) = Zeros(zeros) \o f[i]
  BY DEF Digits
<1> HIDE DEF f
<1>3. f[0] = <<>>
  BY <1>1
<1>4. \A n \in 1 .. i : f[n] = Append(f[n \div b], hexChars[(n % b) + 1])
  <2> TAKE n \in 1 .. i
  <2>1. n \in 0 .. i /\ n # 0
    OBVIOUS
  <2> QED
    BY <1>1, <2>1
<1> DEFINE D == 48 .. 70
    Short(k) == {s \in Seq(D) : Len(s) <= k}
<1>5. f[0] \in Short(0)
  BY <1>3
<1>6. ASSUME NEW k \in 0 .. 2, NEW n \in 1 .. i, f[n \div b] \in Short(k)
      PROVE  f[n] \in Short(k + 1)
  <2>1. hexChars[(n % b) + 1] \in D
    BY LastDigit, SMTT(90)
  <2> HIDE DEF D
  <2>2. Append(f[n \div b], hexChars[(n % b) + 1]) \in Seq(D)
        /\ Len(Append(f[n \div b], hexChars[(n % b) + 1])) = Len(f[n \div b]) + 1
    BY <1>6, <2>1
  <2>3. Len(f[n \div b]) + 1 <= k + 1
    BY <1>6
  <2> QED
    BY <1>4, <2>2, <2>3
<1>7. \A n \in 0 .. i : n < 10 => f[n] \in Short(1)
  <2> SUFFICES ASSUME NEW n \in 0 .. i, n < 10 PROVE f[n] \in Short(1)
    OBVIOUS
  <2>1. CASE n = 0
    BY <1>5, <2>1
  <2>2. CASE n # 0
    <3>1. n \in 0 .. 255 /\ n \in 1 .. i
      BY <2>2
    <3>2. n \div b = 0
      BY <3>1, LastDigit, SMTT(90)
    <3> HIDE DEF Short
    <3>3. f[n] \in Short(0 + 1)
      BY <1>5, <1>6, <3>1, <3>2
    <3> QED
      BY <3>3
  <2> QED
    BY <2>1, <2>2
<1>8. \A n \in 0 .. i : n < 100 => f[n] \in Short(2)
  <2> SUFFICES ASSUME NEW n \in 0 .. i, n < 100 PROVE f[n] \in Short(2)
    OBVIOUS
  <2>1. CASE n = 0
    BY <1>5, <2>1
  <2>2. CASE n # 0
    <3>1. n \in 0 .. 255 /\ n \in 1 .. i
      BY <2>2
    <3>2. n \div b < 10 /\ n \div b \in 0 .. i
      BY <3>1, LastDigit, SMTT(90)
    <3> HIDE DEF Short
    <3>3. f[n] \in Short(1 + 1)
      BY <1>6, <1>7, <3>1, <3>2
    <3> QED
      BY <3>3
  <2> QED
    BY <2>1, <2>2
<1>9. f[i] \in Short(3)
  <2>1. CASE i = 0
    BY <1>5, <2>1
  <2>2. CASE i # 0
    <3>1. i \in 1 .. i
      BY <2>2
    <3>2. i \div b < 100 /\ i \div b \in 0 .. i
      BY <3>1, LastDigit, SMTT(90)
    <3> HIDE DEF Short
    <3>3. f[i] \in Short(2 + 1)
      BY <1>6, <1>8, <3>1, <3>2
    <3> QED
      BY <3>3
  <2> QED
    BY <2>1, <2>2
<1>10. f[i] \in Seq(D) /\ Len(f[i]) \in Nat /\ Len(f[i]) <= 3
  BY <1>9
<1>11. zeros \in Nat /\ zeros + Len(f[i]) <= 3
  <2>1. least \in Nat /\ least <= 3
    OBVIOUS
  <2>2. PICK n \in Nat : n = Len(f[i]) /\ n <= 3
    BY <1>10
  <2>3. (n < least /\ zeros = least - n) \/ (~(n < least) /\ zeros = 0)
    BY <2>2
  <2> HIDE DEF zeros
  <2>4. zeros \in Nat /\ zeros + n <= 3
    <3>1. CASE n < least /\ zeros = least - n
      BY <2>1, <2>2, <3>1
    <3>2. CASE ~(n < least) /\ zeros = 0
      BY <2>2, <3>2
    <3> QED
      BY <2>3, <3>1, <3>2
  <2> QED
    BY <2>2, <2>4
<1>12. hexChars[1] \in D
  BY DEF hexChars
<1> HIDE DEF zeros, D
<1>13. Zeros(zeros) \in Seq(D) /\ Len(Zeros(zeros)) = zeros
  BY <1>11, <1>12
<1> HIDE DEF Zeros
<1>14. Zeros(zeros) \o f[i] \in Seq(D) /\ Len(Zeros(zeros) \o f[i]) = zeros + Len(f[i])
  BY <1>10, <1>13
<1> QED
  BY <1>2, <1>11, <1>14 DEF D

\* A number takes a row more when the cursor ends up further to the left.
LEMMA NumberRows ==
    ASSUME NEW con \in Screens, Late(con), NEW s \in Seq(48 .. 70), Len(s) <= 3,
           NEW r, r = ConsoleWriteString(con, s)
    PROVE  /\ r \in Screens /\ Late(r)
           /\ \/ r.x >= con.x /\ Row(r) = Row(con)
              \/ r.x < con.x /\ Row(r) = Row(con) + 1
<1> DEFINE G == [n \in 0 .. Len(s) |->
            {q \in Screens : /\ Late(q)
                             /\ \/ q.x = con.x + n /\ Row(q) = Row(con)
                                \/ q.x = con.x + n - Width /\ Row(q) = Row(con) + 1}]
<1>1. /\ Len(s) \in Nat /\ con.x \in 0 .. (Width - 1) /\ Row(con) \in Nat
  BY ScreenSize DEF Screens, Row
<1>2. \A n \in 0 .. Len(s) : \A q :
         q \in G[n] <=> /\ q \in Screens /\ Late(q)
                        /\ \/ q.x = con.x + n /\ Row(q) = Row(con)
                           \/ q.x = con.x + n - Width /\ Row(q) = Row(con) + 1
  OBVIOUS
<1> HIDE DEF G
<1>3. con \in G[0]
  BY <1>1, <1>2
<1>4. ASSUME NEW n \in 1 .. Len(s), NEW before \in G[n - 1]
      PROVE  ConsoleWriteCharacter(before, s[n]) \in G[n]
  <2>1. PICK after : after = ConsoleWriteCharacter(before, s[n])
    OBVIOUS
  <2>2. n - 1 \in 0 .. Len(s) /\ n \in 0 .. Len(s) /\ n <= 3
    BY <1>1
  <2>3. /\ before \in Screens /\ Late(before)
        /\ \/ before.x = con.x + (n - 1) /\ Row(before) = Row(con)
           \/ before.x = con.x + (n - 1) - Width /\ Row(before) = Row(con) + 1
    BY <1>2, <2>2
  <2>4. s[n] \in Blank .. 255
    <3>1. s[n] \in 48 .. 70
      BY ElementOfSeq
    <3> QED
      BY <3>1 DEF Blank
  <2>5. /\ after \in Screens /\ Late(after)
        /\ \/ before.x + 1 < Width /\ after.x = before.x + 1 /\ Row(after) = Row(before)
           \/ before.x + 1 = Width /\ after.x = 0 /\ Row(after) = Row(before) + 1
    BY <2>1, <2>3, <2>4, PrintableRow
  <2>6. \/ after.x = con.x + n /\ Row(after) = Row(con)
        \/ after.x = con.x + n - Width /\ Row(after) = Row(con) + 1
    <3>1. con.x \in Nat /\ con.x < Width /\ n \in 1 .. 3 /\ Width \in Nat /\ Width >= 4
      BY <1>1, <2>2, ScreenSize
    <3>2. CASE before.x = con.x + (n - 1) /\ Row(before) = Row(con)
      BY <3>1, <3>2, <2>5
    <3>3. CASE before.x = con.x + (n - 1) - Width /\ Row(before) = Row(con) + 1
      BY <3>1, <3>3, <2>5
    <3> QED
      BY <2>3, <3>2, <3>3
  <2> QED
    BY <1>2, <2>1, <2>2, <2>5, <2>6
<1>5. r \in G[Len(s)]
  BY <1>1, <1>3, <1>4, StringWritten
<1>6. /\ r \in Screens /\ Late(r)
      /\ \/ r.x = con.x + Len(s) /\ Row(r) = Row(con)
         \/ r.x = con.x + Len(s) - Width /\ Row(r) = Row(con) + 1
  BY <1>1, <1>2, <1>5
<1> QED
  BY <1>1, <1>6, ScreenSize

\* No string without a backspace leaves anything in the rows below the cursor.
LEMMA StringRowsBlank ==
    ASSUME NEW con \in Screens, BlankFrom(con, (con.y + 1) * Width),
           NEW s \in Seq(0 .. 255), \A n \in 1 .. Len(s) : s[n] # Backspace,
           NEW r, r = ConsoleWriteString(con, s)
    PROVE  r \in Screens /\ BlankFrom(r, (r.y + 1) * Width)
<1> DEFINE B == {q \in Screens : BlankFrom(q, (q.y + 1) * Width)}
    G == [n \in 0 .. Len(s) |-> B]
<1>1. con \in G[0] /\ Len(s) \in Nat /\ G[Len(s)] = B
  OBVIOUS
<1>2. \A n \in 1 .. Len(s) : \A before \in G[n - 1] : ConsoleWriteCharacter(before, s[n]) \in G[n]
  <2> SUFFICES ASSUME NEW n \in 1 .. Len(s), NEW before \in B
               PROVE  ConsoleWriteCharacter(before, s[n]) \in B
    OBVIOUS
  <2>1. s[n] \in 0 .. 255 /\ s[n] # Backspace
    BY ElementOfSeq
  <2>2. before \in Screens /\ BlankFrom(before, (before.y + 1) * Width)
    OBVIOUS
  <2> HIDE DEF G
  <2>3. ConsoleWriteCharacter(before, s[n]) \in Screens
    BY <2>1, <2>2, AnyWritten
  <2> QED
    BY <2>1, <2>2, <2>3, AnyRowsBlank
<1> HIDE DEF G
<1>3. r \in G[Len(s)]
  BY <1>1, <1>2, StringWritten
<1> QED
  BY <1>1, <1>3

-----------------------------------------------------------------------------
(* Types.                                                                  *)

LEMMA CursorOnScreen == ASSUME NEW con \in Screens PROVE Cursor(con) \in Cells
  BY CursorCell, ScreenSize DEF Screens, Moved

LEMMA CursorIsNatural == ASSUME NEW con \in Screens PROVE Cursor(con) \in Nat
<1>1. con.x \in Nat /\ con.y \in Nat
  BY DEF Screens
<1> QED
  BY <1>1, Sizes DEF Cursor

LEMMA AnewOnScreen ==
    ASSUME NEW con \in Screens
    PROVE  /\ Anew(con) \in Screens /\ Anew(con).scrolled = 0 /\ Anew(con).x = con.x
           /\ Anew(con).y = con.y /\ Anew(con).cells = con.cells /\ Cursor(Anew(con)) = Cursor(con)
  BY DEF Anew, Screens, Cursor

LEMMA ClearScreen ==
    /\ ConsoleClearScreen \in ClearScreens
    /\ BlankFrom(ConsoleClearScreen, (ConsoleClearScreen.y + 1) * Width)
<1>1. ConsoleClearScreen \in Screens
  BY ScreenSize DEF ConsoleClearScreen, Screens, Blank
<1>2. BlankFrom(ConsoleClearScreen, Cursor(ConsoleClearScreen))
      /\ BlankFrom(ConsoleClearScreen, (ConsoleClearScreen.y + 1) * Width)
  BY DEF ConsoleClearScreen, BlankFrom
<1> QED
  BY <1>1, <1>2 DEF ClearScreens

LEMMA ByteOnScreen ==
    ASSUME TypeOK, NEW byte \in 0 .. 255
    PROVE  WriteByte(byte) \in Screens
<1>1. console \in Screens /\ format \in {"HEX", "DEC", "CHAR"}
  BY DEF TypeOK
<1>2. \A b \in {10, 16}, least \in {1, 2} :
         ConsoleWriteIntMinLength(console, byte, b, least) \in Screens
  <2> SUFFICES ASSUME NEW b \in {10, 16}, NEW least \in {1, 2}
               PROVE  ConsoleWriteString(console, Digits(byte, b, least)) \in Screens
    BY DEF ConsoleWriteIntMinLength
  <2>1. Digits(byte, b, least) \in Seq(48 .. 70)
    BY ByteDigits
  <2>2. Digits(byte, b, least) \in Seq(0 .. 255)
    BY <2>1
  <2> QED
    BY <1>1, <2>2, StringOnScreen
<1>3. ConsoleWriteCharacter(console, byte) \in Screens
  BY <1>1, AnyWritten
<1> QED
  BY <1>1, <1>2, <1>3 DEF WriteByte

\* Every step keeps the types.
\* The editor writes to the array or to the byte after it.
LEMMA Stored ==
    ASSUME TypeOK, NEW c \in 0 .. 126, Store(c)
    PROVE  /\ inputString' \in [0 .. (LineLimit - 1) -> 0 .. 126]
           /\ pastEnd' \in NotWritten .. 126
           /\ \A i \in 0 .. (LineLimit - 1) :
                  inputString'[i] = IF i = currentCharIndex THEN c ELSE inputString[i]
           /\ currentCharIndex = LineLimit => pastEnd' = c
<1>1. /\ LineLimit \in Nat /\ currentCharIndex \in Nat
      /\ inputString \in [0 .. (LineLimit - 1) -> 0 .. 126] /\ pastEnd \in NotWritten .. 126
  BY InterfaceAssumption DEF TypeOK
<1>2. CASE /\ currentCharIndex < LineLimit
           /\ inputString' = [inputString EXCEPT ![currentCharIndex] = c] /\ UNCHANGED pastEnd
  BY <1>1, <1>2
<1>3. CASE currentCharIndex = LineLimit /\ pastEnd' = c /\ UNCHANGED inputString
  <2>1. \A i \in 0 .. (LineLimit - 1) : i # currentCharIndex
    BY <1>1, <1>3
  <2>2. c \in NotWritten .. 126
    BY DEF NotWritten
  <2> QED
    BY <1>1, <1>3, <2>1, <2>2
<1> QED
  BY <1>2, <1>3 DEF Store

LEMMA TypesKept == TypeOK /\ [Next]_vars => TypeOK'
<1> SUFFICES ASSUME TypeOK, [Next]_vars PROVE TypeOK'
  OBVIOUS
<1>1. /\ console \in Screens /\ 0 \in 0 .. 126 /\ Characters \subseteq 0 .. 126
      /\ Buffers \subseteq Seq(0 .. 255)
      /\ currentCharIndex \in Nat /\ keys \in Nat /\ buffers \in Nat
  <2>1. Characters \subseteq 0 .. 126
    BY InterfaceAssumption DEF Blank
  <2>2. Buffers \subseteq Seq(0 .. 255)
    BY InterfaceAssumption
  <2> QED
    BY <2>1, <2>2 DEF TypeOK
<1> DEFINE Later(con) == Anew(con) \in Screens /\ Cursor(con) \in Nat /\ con.x \in Nat
<1>2. \A con \in Screens : Later(con)
  <2> SUFFICES ASSUME NEW con \in Screens PROVE Later(con)
    OBVIOUS
  <2>1. con.x \in Nat
    BY DEF Screens
  <2> QED
    BY <2>1, AnewOnScreen, CursorIsNatural
<1>3. \A c \in 0 .. 255 : ConsoleWriteCharacter(console, c) \in Screens
  BY <1>1, AnyWritten
<1>4. \A s \in Seq(0 .. 255) : ConsoleWriteString(console, s) \in Screens
  BY <1>1, StringOnScreen
<1>5. Newline \in 0 .. 255 /\ Backspace \in 0 .. 255 /\ Blank \in 0 .. 255 /\ Return \in 0 .. 255
  BY DEF Newline, Backspace, Blank, Return
<1>6. ConsoleClearScreen \in Screens
  BY ClearScreen DEF ClearScreens
<1>7. CASE WritePrompt
  <2>1. Prompt \in Seq(0 .. 255)
    BY InterfaceAssumption DEF Blank
  <2>2. Anew(ConsoleWriteString(console, Prompt)) \in Screens
    BY <2>1, <1>2, <1>4
  <2>3. console' \in Screens /\ start' \in Nat
    BY <1>7, <2>2, CursorIsNatural DEF WritePrompt
  <2>4. typed' \in Seq(Characters)
    BY <1>7 DEF WritePrompt
  <2>5. pc' = "read" /\ currentCharIndex' = 0 /\ cropped' \in BOOLEAN
        /\ UNCHANGED <<inputString, pastEnd, pagerVars, keys, buffers>>
    BY <1>7 DEF WritePrompt
  <2> QED
    BY <2>3, <2>4, <2>5 DEF pagerVars, TypeOK
<1>8. ASSUME NEW c \in Characters, TypeCharacter(c) PROVE TypeOK'
  <2>1. c \in 0 .. 126 /\ c \in 0 .. 255
    BY <1>1
  <2>5. console' \in Screens
    BY <1>3, <1>8, <2>1 DEF TypeCharacter
  <2>6. keys' = keys + 1 /\ currentCharIndex' \in {currentCharIndex, currentCharIndex + 1}
    BY <1>8 DEF TypeCharacter, Key
  <2>2. console' \in Screens /\ keys' \in Nat /\ currentCharIndex' \in Nat
    BY <1>1, <2>5, <2>6
  <2>3. typed' \in Seq(Characters) /\ cropped' \in BOOLEAN
    <3>1. Append(typed, c) \in Seq(Characters)
      BY DEF TypeOK
    <3> QED
      BY <1>8, <3>1 DEF TypeCharacter, TypeOK
  <2>4. inputString' \in [0 .. (LineLimit - 1) -> 0 .. 126] /\ pastEnd' \in NotWritten .. 126
    BY <1>8, <2>1, Stored DEF TypeCharacter
  <2> QED
    BY <1>8, <2>2, <2>3, <2>4 DEF TypeCharacter, Key, pagerVars, TypeOK
<1>9. CASE TypeBackspace
  <2>1. <<Backspace, Blank, Backspace>> \in Seq(0 .. 255)
    BY <1>5
  <2>5. console' \in Screens
    BY <1>4, <1>9, <2>1 DEF TypeBackspace
  <2>6. /\ keys' = keys + 1 /\ currentCharIndex' = currentCharIndex - 1
        /\ currentCharIndex # 0
    BY <1>9 DEF TypeBackspace, Key
  <2>2. console' \in Screens /\ keys' \in Nat /\ currentCharIndex' \in Nat
    BY <1>1, <2>5, <2>6
  <2>3. typed' \in Seq(Characters)
    <3>1. Len(typed) - 1 \in Int /\ Len(typed) - 1 <= Len(typed)
      BY DEF TypeOK
    <3>2. \A n \in 1 .. (Len(typed) - 1) : typed[n] \in Characters
      BY DEF TypeOK
    <3>3. SubSeq(typed, 1, Len(typed) - 1) \in Seq(Characters)
      BY <3>1, <3>2, SubSeqProperties DEF TypeOK
    <3> QED
      BY <1>9, <3>3 DEF TypeBackspace, Front
  <2>4. inputString' \in [0 .. (LineLimit - 1) -> 0 .. 126] /\ pastEnd' \in NotWritten .. 126
    BY <1>1, <1>9, Stored DEF TypeBackspace
  <2> QED
    BY <1>9, <2>2, <2>3, <2>4 DEF TypeBackspace, Key, pagerVars, TypeOK
<1>10. CASE TypeReturn
  <2>1. <<Return, Newline>> \in Seq(0 .. 255)
    BY <1>5
  <2>5. console' \in Screens
    BY <1>4, <1>10, <2>1 DEF TypeReturn
  <2>6. keys' = keys + 1
    BY <1>10 DEF TypeReturn, Key
  <2>2. console' \in Screens /\ keys' \in Nat
    BY <1>1, <2>5, <2>6
  <2>3. inputString' \in [0 .. (LineLimit - 1) -> 0 .. 126] /\ pastEnd' \in NotWritten .. 126
    BY <1>1, <1>10, Stored DEF TypeReturn
  <2> QED
    BY <1>10, <2>2, <2>3 DEF TypeReturn, Key, pagerVars, TypeOK
<1>11. ASSUME NEW b \in Buffers, read(b) PROVE TypeOK'
  <2>1. console' \in Screens /\ start' \in Nat /\ lastXpos' \in Nat
    BY <1>1, <1>2, <1>11 DEF read, FirstPart, NextPart, Display
  <2>2. b \in Seq(0 .. 255) /\ <<>> \in Seq(Nat)
    BY <1>1
  <2>3. buffers' \in Nat /\ displayBufferLineCount' \in Nat /\ bytesShown' = 0 /\ byteIndex' = 0
    BY <1>1, <1>11 DEF read, FirstPart, NextPart, Display, TypeOK
  <2>4. /\ command' \in {"read", "readdisk"} /\ pc' = "display" /\ buffer' = b
        /\ format' = "CHAR" /\ displayed' = <<>>
    BY <1>11 DEF read, FirstPart, NextPart, Display, TypeOK
  <2>5. UNCHANGED <<lineVars, keys>>
    BY <1>11 DEF read, FirstPart, NextPart, Display
  <2> QED
    BY <2>1, <2>2, <2>3, <2>4, <2>5 DEF lineVars, TypeOK
<1>12. ASSUME NEW b \in Buffers, NEW f \in {"HEX", "DEC", "CHAR"}, readdisk(b, f) PROVE TypeOK'
  <2>1. ConsoleWriteCharacter(console, Newline) \in Screens
    BY <1>3, <1>5
  <2>2. console' \in Screens /\ start' \in Nat /\ lastXpos' \in Nat
    BY <1>2, <1>12, <2>1 DEF readdisk, Display
  <2>3. b \in Seq(0 .. 255) /\ <<>> \in Seq(Nat) /\ buffers' \in Nat
    BY <1>1, <1>12 DEF readdisk, Display
  <2> QED
    BY <1>12, <2>2, <2>3 DEF readdisk, Display, lineVars, TypeOK
<1>13. CASE LastPart
  BY <1>13 DEF LastPart, lineVars, pagerVars, TypeOK
<1>14. CASE EndCommand
  <2>1. console' \in Screens
    BY <1>3, <1>5, <1>14 DEF EndCommand
  <2> QED
    BY <1>14, <2>1 DEF EndCommand, lineVars, pagerVars, TypeOK
<1>15. CASE cls
  BY <1>6, <1>15 DEF cls, lineVars, pagerVars, TypeOK
<1>16. ASSUME pc = "display", bytesShown + byteIndex < Len(buffer)
       PROVE  /\ WriteByte(buffer[bytesShown + byteIndex + 1]) \in Screens
              /\ ShownAlso(bytesShown + byteIndex) \in Seq(Nat)
              /\ {bytesShown + byteIndex, byteIndex + 1} \subseteq Nat
              /\ \A con : LinesAfter(con) \in Nat
  <2>1. bytesShown \in Nat /\ byteIndex \in Nat /\ displayBufferLineCount \in Nat
    BY DEF TypeOK
  <2>2. bytesShown + byteIndex + 1 \in 1 .. Len(buffer)
    BY <1>16, <2>1 DEF TypeOK
  <2>3. buffer[bytesShown + byteIndex + 1] \in 0 .. 255
    BY <2>2, ElementOfSeq DEF TypeOK
  <2>4. ShownAlso(bytesShown + byteIndex) \in Seq(Nat)
    <3>1. Append(displayed, bytesShown + byteIndex) \in Seq(Nat)
      BY <2>1 DEF TypeOK
    <3> QED
      BY <3>1 DEF ShownAlso, TypeOK
  <2>5. \A con : LinesAfter(con) \in Nat
    BY <2>1 DEF LinesAfter
  <2>6. WriteByte(buffer[bytesShown + byteIndex + 1]) \in Screens
    BY <2>3, ByteOnScreen
  <2> QED
    BY <2>1, <2>4, <2>5, <2>6
<1>17. CASE DisplayByte
  <2>1. console' \in Screens /\ displayed' \in Seq(Nat) /\ byteIndex' \in Nat
        /\ displayBufferLineCount' \in Nat
    BY <1>16, <1>17 DEF DisplayByte
  <2>2. lastXpos' \in Nat
    BY <1>2, <1>17, <2>1 DEF DisplayByte
  <2> QED
    BY <1>17, <2>1, <2>2 DEF DisplayByte, lineVars, TypeOK
<1>18. CASE PageBreak
  <2>1. displayed' \in Seq(Nat) /\ bytesShown' \in Nat /\ byteIndex' \in Nat
    BY <1>16, <1>18 DEF PageBreak
  <2>2. console' \in Screens
    <3>1. PICK con \in Screens : console' = ConsoleWriteString(con, MoreMessage)
      BY <1>16, <1>18 DEF PageBreak
    <3>2. MoreMessage \in Seq(0 .. 255)
      BY InterfaceAssumption
    <3> QED
      BY <3>1, <3>2, StringOnScreen
  <2> QED
    BY <1>18, <2>1, <2>2 DEF PageBreak, lineVars, TypeOK
<1>19. CASE SeeMore
  <2>1. console' \in Screens /\ lastXpos' \in Nat /\ start' \in Nat
    BY <1>1, <1>2, <1>19 DEF SeeMore
  <2> QED
    BY <1>19, <2>1 DEF SeeMore, lineVars, TypeOK
<1>20. CASE Quit
  BY <1>20 DEF Quit, lineVars, pagerVars, TypeOK
<1>21. CASE EndOfBuffer
  <2>1. bytesShown' \in Nat /\ byteIndex' \in Nat
    BY <1>21 DEF EndOfBuffer, TypeOK
  <2> QED
    BY <1>21, <2>1 DEF EndOfBuffer, lineVars, TypeOK
<1>22. CASE UNCHANGED vars
  BY <1>22 DEF vars, lineVars, pagerVars, TypeOK
<1> QED
  BY <1>7, <1>8, <1>9, <1>10, <1>11, <1>12, <1>13, <1>14, <1>15, <1>17, <1>18, <1>19, <1>20,
     <1>21, <1>22 DEF Next, ReadStringFromKeyboard, DisplayEntireBuffer

-----------------------------------------------------------------------------
(* The line.                                                               *)

\* Every step keeps the line in the array.
LEMMA LineKept == TypeOK /\ LineHeld /\ [Next]_vars => LineHeld'
<1> SUFFICES ASSUME TypeOK, LineHeld, [Next]_vars PROVE LineHeld'
  OBVIOUS
<1>1. /\ typed \in Seq(Characters) /\ Len(typed) \in Nat /\ LineLimit \in Nat
      /\ currentCharIndex = Len(typed) /\ Len(typed) <= LineLimit
      /\ 0 \in 0 .. 126 /\ Characters \subseteq 0 .. 126
      /\ \A i \in 1 .. Len(typed) : inputString[i - 1] = typed[i]
  BY InterfaceAssumption DEF TypeOK, LineHeld, Blank
<1>2. CASE WritePrompt
  <2>1. typed' = <<>> /\ currentCharIndex' = 0 /\ pc' = "read"
    BY <1>2 DEF WritePrompt
  <2>2. Len(typed') = 0
    BY <2>1
  <2> QED
    BY <2>1, <2>2, <1>1 DEF LineHeld
<1>3. ASSUME NEW c \in Characters, TypeCharacter(c) PROVE LineHeld'
  <2>1. /\ Store(c) /\ pc' = pc /\ pc = "read"
        /\ currentCharIndex' = IF currentCharIndex + 1 > LineLimit THEN currentCharIndex
                               ELSE currentCharIndex + 1
        /\ typed' = IF Len(typed) < LineLimit THEN Append(typed, c) ELSE typed
    BY <1>3 DEF TypeCharacter, Key
  <2>2. \A i \in 0 .. (LineLimit - 1) :
            inputString'[i] = IF i = Len(typed) THEN c ELSE inputString[i]
    BY <1>1, <2>1, Stored
  <2>3. CASE Len(typed) < LineLimit
    <3>1. /\ Len(typed') = Len(typed) + 1
          /\ \A i \in 1 .. (Len(typed) + 1) :
                typed'[i] = IF i = Len(typed) + 1 THEN c ELSE typed[i]
      BY <1>1, <2>1, <2>3
    <3>2. currentCharIndex' = Len(typed')
      BY <1>1, <2>1, <2>3, <3>1
    <3>3. ASSUME NEW i \in 1 .. Len(typed') PROVE inputString'[i - 1] = typed'[i]
      <4>1. i \in 1 .. (Len(typed) + 1) /\ i - 1 \in 0 .. (LineLimit - 1)
        BY <1>1, <2>3, <3>1
      <4>2. CASE i = Len(typed) + 1
        BY <1>1, <2>2, <3>1, <4>1, <4>2
      <4>3. CASE i # Len(typed) + 1
        <5>1. i \in 1 .. Len(typed) /\ i - 1 # Len(typed)
          BY <1>1, <4>1, <4>3
        <5> QED
          BY <1>1, <2>2, <3>1, <4>1, <4>3, <5>1
      <4> QED
        BY <4>2, <4>3
    <3> QED
      BY <1>1, <2>1, <2>3, <3>1, <3>2, <3>3 DEF LineHeld
  <2>4. CASE Len(typed) = LineLimit
    <3>1. typed' = typed /\ currentCharIndex' = currentCharIndex
      BY <1>1, <2>1, <2>4
    <3>2. \A i \in 1 .. Len(typed) : inputString'[i - 1] = typed[i]
      <4> TAKE i \in 1 .. Len(typed)
      <4>1. i - 1 \in 0 .. (LineLimit - 1) /\ i - 1 # Len(typed)
        BY <1>1
      <4> QED
        BY <1>1, <2>2, <4>1
    <3> QED
      BY <1>1, <2>1, <3>1, <3>2 DEF LineHeld
  <2> QED
    BY <1>1, <2>3, <2>4
<1>4. CASE TypeBackspace
  <2>1. /\ Store(0) /\ pc' = pc /\ pc = "read"
        /\ currentCharIndex' = currentCharIndex - 1 /\ currentCharIndex # 0
        /\ typed' = SubSeq(typed, 1, Len(typed) - 1)
    BY <1>4 DEF TypeBackspace, Key, Front
  <2>2. /\ Len(typed') = Len(typed) - 1
        /\ \A i \in 1 .. (Len(typed) - 1) : typed'[i] = typed[i]
    BY <1>1, <2>1
  <2>3. ASSUME NEW i \in 1 .. (Len(typed) - 1) PROVE inputString'[i - 1] = typed'[i]
    <3>1. i \in 1 .. Len(typed) /\ i - 1 \in 0 .. (LineLimit - 1) /\ i - 1 # currentCharIndex
      BY <1>1
    <3>2. inputString'[i - 1] = inputString[i - 1]
      BY <1>1, <2>1, <3>1, Stored
    <3> QED
      BY <1>1, <2>2, <3>1, <3>2
  <2> QED
    BY <1>1, <2>1, <2>2, <2>3 DEF LineHeld
<1>5. CASE TypeReturn
  <2>1. Store(0) /\ currentCharIndex' = currentCharIndex /\ typed' = typed
    BY <1>5 DEF TypeReturn
  <2>2. /\ Len(typed) < LineLimit => inputString'[Len(typed)] = 0
        /\ Len(typed) = LineLimit => pastEnd' = 0
    <3>1. Len(typed) < LineLimit => Len(typed) \in 0 .. (LineLimit - 1)
      BY <1>1
    <3> QED
      BY <1>1, <2>1, <3>1, Stored
  <2>3. ASSUME NEW i \in 1 .. Len(typed) PROVE inputString'[i - 1] = typed[i]
    <3>1. i - 1 \in 0 .. (LineLimit - 1) /\ i - 1 # currentCharIndex
      BY <1>1
    <3> QED
      BY <1>1, <2>1, <3>1, Stored
  <2> QED
    BY <1>1, <2>1, <2>2, <2>3 DEF LineHeld
<1>6. ASSUME UNCHANGED lineVars, pc' # "react" PROVE LineHeld'
  BY <1>6 DEF LineHeld, lineVars
<1>7. ASSUME NEW b \in Buffers, read(b) PROVE LineHeld'
  BY <1>6, <1>7 DEF read, FirstPart, NextPart, Display
<1>8. ASSUME NEW b \in Buffers, NEW f \in {"HEX", "DEC", "CHAR"}, readdisk(b, f) PROVE LineHeld'
  BY <1>6, <1>8 DEF readdisk, Display
<1>9. CASE LastPart
  BY <1>6, <1>9 DEF LastPart
<1>10. CASE EndCommand
  BY <1>6, <1>10 DEF EndCommand
<1>11. CASE cls
  BY <1>6, <1>11 DEF cls
<1>12. CASE DisplayByte
  BY <1>6, <1>12 DEF DisplayByte
<1>13. CASE PageBreak
  BY <1>6, <1>13 DEF PageBreak
<1>14. CASE SeeMore
  BY <1>6, <1>14 DEF SeeMore
<1>15. CASE Quit
  BY <1>6, <1>15 DEF Quit
<1>16. CASE EndOfBuffer
  BY <1>6, <1>16 DEF EndOfBuffer
<1>17. CASE UNCHANGED vars
  BY <1>17 DEF vars, lineVars, LineHeld
<1> QED
  BY <1>2, <1>3, <1>4, <1>5, <1>7, <1>8, <1>9, <1>10, <1>11, <1>12, <1>13, <1>14, <1>15, <1>16,
     <1>17 DEF Next, ReadStringFromKeyboard, DisplayEntireBuffer

-----------------------------------------------------------------------------
(* The bytes.                                                              *)

\* One more byte on the record of those displayed, or the last one again.
LEMMA RecordedByte ==
    ASSUME NEW i \in Nat, displayed \in Seq(Nat),
           i <= Len(displayed), Len(displayed) <= i + 1,
           \A k \in 1 .. Len(displayed) : displayed[k] = k - 1
    PROVE  /\ Len(ShownAlso(i)) = i + 1
           /\ \A k \in 1 .. (i + 1) : ShownAlso(i)[k] = k - 1
<1>1. Len(displayed) \in Nat
  OBVIOUS
<1>2. displayed # <<>> => Len(displayed) > 0 /\ Last(displayed) = Len(displayed) - 1
  BY DEF Last
<1>3. CASE Len(displayed) = i + 1
  <2>1. ShownAlso(i) = displayed
    BY <1>2, <1>3 DEF ShownAlso
  <2> QED
    BY <1>3, <2>1
<1>4. CASE Len(displayed) = i
  <2>1. ShownAlso(i) = Append(displayed, i)
    BY <1>2, <1>4 DEF ShownAlso
  <2>2. Len(Append(displayed, i)) = i + 1
    BY <1>4
  <2>3. \A k \in 1 .. (i + 1) : Append(displayed, i)[k] = k - 1
    BY <1>4
  <2> QED
    BY <2>1, <2>2, <2>3
<1> QED
  BY <1>1, <1>3, <1>4

\* Every step keeps the record without a gap.
LEMMA RecordKept == TypeOK /\ Shown /\ [Next]_vars => Shown'
<1> SUFFICES ASSUME TypeOK, Shown, [Next]_vars PROVE Shown'
  OBVIOUS
<1>1. /\ bytesShown \in Nat /\ byteIndex \in Nat /\ displayed \in Seq(Nat)
      /\ Len(displayed) \in Nat /\ Len(buffer) \in Nat
  BY DEF TypeOK
<1>2. ASSUME pc = "display", bytesShown + byteIndex < Len(buffer),
             displayed' = ShownAlso(bytesShown + byteIndex)
      PROVE  /\ Len(displayed') = bytesShown + byteIndex + 1
             /\ Len(displayed') <= Len(buffer)
             /\ \A i \in 1 .. Len(displayed') : displayed'[i] = i - 1
  <2>1. /\ bytesShown + byteIndex \in Nat
        /\ bytesShown + byteIndex <= Len(displayed)
        /\ Len(displayed) <= bytesShown + byteIndex + 1
        /\ \A k \in 1 .. Len(displayed) : displayed[k] = k - 1
    BY <1>1, <1>2 DEF Shown
  <2>2. /\ Len(displayed') = bytesShown + byteIndex + 1
        /\ \A k \in 1 .. (bytesShown + byteIndex + 1) : displayed'[k] = k - 1
    BY <1>1, <1>2, <2>1, RecordedByte
  <2> QED
    BY <1>1, <1>2, <2>2
<1>3. CASE DisplayByte
  <2>1. /\ pc = "display" /\ pc' = "display" /\ bytesShown + byteIndex < Len(buffer)
        /\ displayed' = ShownAlso(bytesShown + byteIndex)
        /\ bytesShown' = bytesShown /\ byteIndex' = byteIndex + 1 /\ buffer' = buffer
    BY <1>3 DEF DisplayByte
  <2>2. bytesShown' + byteIndex' = bytesShown + byteIndex + 1
    BY <1>1, <2>1
  <2> QED
    BY <1>1, <1>2, <2>1, <2>2 DEF Shown
<1>4. CASE PageBreak
  <2>1. /\ pc = "display" /\ pc' = "ask" /\ bytesShown + byteIndex < Len(buffer)
        /\ displayed' = ShownAlso(bytesShown + byteIndex)
        /\ bytesShown' = bytesShown + byteIndex /\ byteIndex' = 0 /\ buffer' = buffer
    BY <1>4 DEF PageBreak
  <2> QED
    BY <1>2, <2>1 DEF Shown
<1>5. CASE SeeMore
  BY <1>1, <1>5 DEF SeeMore, Shown
<1>6. CASE EndOfBuffer
  BY <1>1, <1>6 DEF EndOfBuffer, Shown
<1>7. ASSUME pc' = "display", bytesShown' = 0, byteIndex' = 0, displayed' = <<>>, buffer' \in Seq(0 .. 255)
      PROVE  Shown'
  <2>1. Len(displayed') = 0 /\ Len(buffer') \in Nat
    BY <1>7
  <2> QED
    BY <1>7, <2>1 DEF Shown
<1>8. ASSUME NEW b \in Buffers, read(b) PROVE Shown'
  <2>1. b \in Seq(0 .. 255)
    BY InterfaceAssumption
  <2> QED
    BY <1>7, <1>8, <2>1 DEF read, FirstPart, NextPart, Display
<1>9. ASSUME NEW b \in Buffers, NEW f \in {"HEX", "DEC", "CHAR"}, readdisk(b, f) PROVE Shown'
  <2>1. b \in Seq(0 .. 255)
    BY InterfaceAssumption
  <2> QED
    BY <1>7, <1>9, <2>1 DEF readdisk, Display
<1>10. ASSUME displayed' = displayed, pc' \notin {"display", "ask", "shown"} PROVE Shown'
  BY <1>10 DEF Shown
<1>11. CASE WritePrompt
  BY <1>10, <1>11 DEF WritePrompt, pagerVars
<1>12. ASSUME NEW c \in Characters, TypeCharacter(c) PROVE Shown'
  BY <1>10, <1>12 DEF TypeCharacter, Key, pagerVars
<1>13. CASE TypeBackspace
  BY <1>10, <1>13 DEF TypeBackspace, Key, pagerVars
<1>14. CASE TypeReturn
  BY <1>10, <1>14 DEF TypeReturn, pagerVars
<1>15. CASE LastPart
  BY <1>10, <1>15 DEF LastPart, pagerVars
<1>16. CASE EndCommand
  BY <1>10, <1>16 DEF EndCommand, pagerVars
<1>17. CASE cls
  BY <1>10, <1>17 DEF cls, pagerVars
<1>18. CASE Quit
  BY <1>10, <1>18 DEF Quit, pagerVars
<1>19. CASE UNCHANGED vars
  BY <1>19 DEF vars, pagerVars, Shown
<1> QED
  BY <1>3, <1>4, <1>5, <1>6, <1>8, <1>9, <1>11, <1>12, <1>13, <1>14, <1>15, <1>16, <1>17, <1>18,
     <1>19 DEF Next, ReadStringFromKeyboard, DisplayEntireBuffer

-----------------------------------------------------------------------------
(* The pages.                                                              *)

\* A byte displayed as a number takes a row more when the cursor ends up further to the
\* left.
LEMMA ByteRows ==
    ASSUME TypeOK, format # "CHAR", Late(console), NEW byte \in 0 .. 255,
           NEW r, r = WriteByte(byte)
    PROVE  /\ r \in Screens /\ Late(r)
           /\ \/ r.x >= console.x /\ Row(r) = Row(console)
              \/ r.x < console.x /\ Row(r) = Row(console) + 1
<1>1. console \in Screens /\ format \in {"HEX", "DEC"}
  BY DEF TypeOK
<1>2. PICK s \in Seq(48 .. 70) : Len(s) <= 3 /\ r = ConsoleWriteString(console, s)
  <2>1. CASE format = "HEX"
    <3>1. r = ConsoleWriteString(console, Digits(byte, 16, 2))
      BY <2>1 DEF WriteByte, ConsoleWriteIntMinLength
    <3> QED
      BY <3>1, ByteDigits
  <2>2. CASE format = "DEC"
    <3>1. r = ConsoleWriteString(console, Digits(byte, 10, 1))
      BY <2>2 DEF WriteByte, ConsoleWriteIntMinLength
    <3> QED
      BY <3>1, ByteDigits
  <2> QED
    BY <1>1, <2>1, <2>2
<1> QED
  BY <1>1, <1>2, NumberRows

\* Where a page begins.
LEMMA PageBegins ==
    ASSUME NEW con \in Screens
    PROVE  /\ con.y \in 0 .. (Height - 1) /\ con.y * Width <= Cursor(con)
           /\ Row(Anew(con)) <= con.y + 0 /\ Anew(con).x = con.x /\ Anew(con).scrolled = 0
<1>1. con.x \in Nat /\ con.y \in 0 .. (Height - 1) /\ con.y \in Nat
  BY ScreenSize DEF Screens
<1>2. con.y * Width \in Nat
  BY <1>1, Sizes
<1> QED
  BY <1>1, <1>2, AnewOnScreen DEF Cursor, Row

\* Every step keeps the count of the lines above that of the rows.
LEMMA PageKept == TypeOK /\ Paged /\ [Next]_vars => Paged'
<1> SUFFICES ASSUME TypeOK, Paged, [Next]_vars PROVE Paged'
  OBVIOUS
<1>1. /\ console \in Screens /\ displayBufferLineCount \in Nat /\ start \in Nat
      /\ bytesShown \in Nat /\ byteIndex \in Nat
      /\ PageLines \in Nat /\ PageLines > 0
  BY InterfaceAssumption DEF TypeOK
<1>2. ASSUME pc = "display", bytesShown + byteIndex < Len(buffer), format # "CHAR",
             NEW r, r = WriteByte(buffer[bytesShown + byteIndex + 1])
      PROVE  /\ r \in Screens /\ Late(r) /\ LinesAfter(r) \in Nat
             /\ LinesAfter(r) <= displayBufferLineCount + 1
             /\ Row(r) - Row(console) = LinesAfter(r) - displayBufferLineCount
  <2>1. Late(console) /\ lastXpos = console.x
    BY <1>2 DEF Paged, Late
  <2>2. bytesShown + byteIndex + 1 \in 1 .. Len(buffer)
    BY <1>1, <1>2 DEF TypeOK
  <2>3. buffer[bytesShown + byteIndex + 1] \in 0 .. 255
    BY <2>2, ElementOfSeq DEF TypeOK
  <2>4. /\ r \in Screens /\ Late(r)
        /\ \/ r.x >= console.x /\ Row(r) = Row(console)
           \/ r.x < console.x /\ Row(r) = Row(console) + 1
    BY <1>2, <2>1, <2>3, ByteRows
  <2>5. r.x \in Nat /\ console.x \in Nat /\ Row(console) \in Nat
    BY <1>1, <2>4 DEF Screens, Row
  <2>6. CASE r.x >= console.x /\ Row(r) = Row(console)
    <3>1. LinesAfter(r) = displayBufferLineCount + 0
      BY <2>1, <2>5, <2>6 DEF LinesAfter
    <3> QED
      BY <1>1, <2>4, <2>5, <2>6, <3>1
  <2>7. CASE r.x < console.x /\ Row(r) = Row(console) + 1
    <3>1. LinesAfter(r) = displayBufferLineCount + 1
      BY <2>1, <2>5, <2>7 DEF LinesAfter
    <3> QED
      BY <1>1, <2>4, <2>5, <2>7, <3>1
  <2> QED
    BY <2>4, <2>6, <2>7
<1>3. CASE DisplayByte
  <2> SUFFICES ASSUME format # "CHAR" PROVE Paged'
    BY <1>3 DEF DisplayByte, Paged
  <2>1. /\ pc = "display" /\ pc' = "display" /\ bytesShown + byteIndex < Len(buffer)
        /\ console' = WriteByte(buffer[bytesShown + byteIndex + 1])
        /\ LinesAfter(console') < PageLines /\ displayBufferLineCount' = LinesAfter(console')
        /\ lastXpos' = console'.x /\ start' = start
    BY <1>3 DEF DisplayByte
  <2>2. /\ console' \in Screens /\ Late(console') /\ LinesAfter(console') \in Nat
        /\ Row(console') - Row(console) = LinesAfter(console') - displayBufferLineCount
    BY <1>2, <2>1
  <2>3. PICK r \in 0 .. (Height - 1) :
            r * Width <= start /\ Row(console) <= r + displayBufferLineCount
    BY <2>1 DEF Paged, RowsSinceStart
  <2>4. Row(console) \in Nat /\ Row(console') \in Nat
    BY <1>1, <2>2 DEF Screens, Row
  <2>5. Row(console') <= r + displayBufferLineCount'
    BY <1>1, <2>1, <2>2, <2>3, <2>4, ScreenSize
  <2>6. RowsSinceStart(displayBufferLineCount)'
    BY <2>1, <2>3, <2>5 DEF RowsSinceStart, Row
  <2> QED
    BY <2>1, <2>2, <2>6 DEF Paged, Late
<1>4. CASE PageBreak
  <2> SUFFICES ASSUME format # "CHAR" PROVE Paged'
    BY <1>4 DEF PageBreak, Paged
  <2>1. PICK con : /\ con = WriteByte(buffer[bytesShown + byteIndex + 1])
                   /\ console' = ConsoleWriteString(con, MoreMessage)
    BY <1>4 DEF PageBreak
  <2>2. /\ pc = "display" /\ pc' = "ask" /\ bytesShown + byteIndex < Len(buffer)
        /\ displayBufferLineCount' = 0 /\ start' = start
    BY <1>4 DEF PageBreak
  <2>3. /\ con \in Screens /\ Late(con) /\ LinesAfter(con) \in Nat
        /\ LinesAfter(con) <= displayBufferLineCount + 1
        /\ Row(con) - Row(console) = LinesAfter(con) - displayBufferLineCount
    BY <1>2, <2>1, <2>2
  <2>4. console' \in Screens /\ Late(console') /\ Row(console') = Row(con) + 2
    BY <2>1, <2>3, MessageRows
  <2>5. PICK r \in 0 .. (Height - 1) :
            r * Width <= start /\ Row(console) <= r + displayBufferLineCount
    BY <2>2 DEF Paged, RowsSinceStart
  <2>6. Row(console) \in Nat /\ Row(con) \in Nat /\ displayBufferLineCount < PageLines
    <3>1. Row(console) \in Nat
      BY <1>1 DEF Screens, Row
    <3>2. Row(con) \in Nat
      BY <2>3 DEF Screens, Row
    <3>3. displayBufferLineCount < PageLines
      BY <2>2 DEF Paged
    <3> QED
      BY <3>1, <3>2, <3>3
  <2>7. Row(console') <= r + (PageLines + 2)
    BY <1>1, <2>3, <2>4, <2>5, <2>6, ScreenSize
  <2>8. RowsSinceStart(PageLines + 2)'
    BY <2>2, <2>5, <2>7 DEF RowsSinceStart, Row
  <2> QED
    BY <2>2, <2>4, <2>8 DEF Paged, Late
<1>5. CASE SeeMore
  <2> SUFFICES ASSUME format # "CHAR" PROVE Paged'
    BY <1>5 DEF SeeMore, Paged
  <2>1. /\ pc' = "display" /\ console' = Anew(console) /\ lastXpos' = console.x
        /\ start' = Cursor(console) /\ displayBufferLineCount' = 0
    BY <1>5 DEF SeeMore, Paged
  <2>2. /\ console.y \in 0 .. (Height - 1) /\ console.y * Width <= start'
        /\ Row(console') <= console.y + 0 /\ lastXpos' = console'.x /\ console'.scrolled = 0
    BY <1>1, <2>1, PageBegins
  <2>3. RowsSinceStart(displayBufferLineCount)'
    BY <2>1, <2>2 DEF RowsSinceStart, Row
  <2> QED
    BY <1>1, <2>1, <2>2, <2>3 DEF Paged
<1>6. ASSUME NEW b \in Buffers, NEW f \in {"HEX", "DEC", "CHAR"}, readdisk(b, f) PROVE Paged'
  <2>1. PICK con : con = ConsoleWriteCharacter(console, Newline)
    OBVIOUS
  <2>2. con \in Screens
    BY <1>1, <2>1, AnyWritten DEF Newline
  <2>3. /\ pc' = "display" /\ console' = Anew(con) /\ lastXpos' = con.x
        /\ start' = Cursor(con) /\ displayBufferLineCount' = 0
    BY <1>6, <2>1 DEF readdisk, Display
  <2>4. /\ con.y \in 0 .. (Height - 1) /\ con.y * Width <= start'
        /\ Row(console') <= con.y + 0 /\ lastXpos' = console'.x /\ console'.scrolled = 0
    BY <2>2, <2>3, PageBegins
  <2>5. RowsSinceStart(displayBufferLineCount)'
    BY <2>3, <2>4 DEF RowsSinceStart, Row
  <2> QED
    BY <1>1, <2>3, <2>4, <2>5 DEF Paged
<1>7. ASSUME NEW b \in Buffers, read(b) PROVE Paged'
  BY <1>7 DEF read, FirstPart, NextPart, Display, Paged
<1>8. ASSUME pc' \notin {"display", "ask"} PROVE Paged'
  BY <1>8 DEF Paged
<1>9. CASE WritePrompt
  BY <1>8, <1>9 DEF WritePrompt
<1>10. ASSUME NEW c \in Characters, TypeCharacter(c) PROVE Paged'
  BY <1>8, <1>10 DEF TypeCharacter, Key
<1>11. CASE TypeBackspace
  BY <1>8, <1>11 DEF TypeBackspace, Key
<1>12. CASE TypeReturn
  BY <1>8, <1>12 DEF TypeReturn
<1>13. CASE LastPart
  BY <1>8, <1>13 DEF LastPart
<1>14. CASE EndCommand
  BY <1>8, <1>14 DEF EndCommand
<1>15. CASE cls
  BY <1>8, <1>15 DEF cls
<1>16. CASE Quit
  BY <1>8, <1>16 DEF Quit
<1>17. CASE EndOfBuffer
  BY <1>8, <1>17 DEF EndOfBuffer
<1>18. CASE UNCHANGED vars
  BY <1>18 DEF vars, pagerVars, Paged, RowsSinceStart, Row
<1> QED
  BY <1>3, <1>4, <1>5, <1>6, <1>7, <1>9, <1>10, <1>11, <1>12, <1>13, <1>14, <1>15, <1>16, <1>17,
     <1>18 DEF Next, ReadStringFromKeyboard, DisplayEntireBuffer

-----------------------------------------------------------------------------
(* The screen while a line is edited.                                      *)

\* Rows scroll away no further than to where the line began.
LEMMA StartStays ==
    ASSUME TypeOK, NEW n \in Nat,
           n = 0 \/ (n + Height - 1) * Width <= start + LineLimit
    PROVE  n * Width \in Nat /\ start - n * Width \in Nat
<1>1. /\ start \in Nat /\ LineLimit \in Nat /\ Len(Prompt) \in Nat
      /\ Len(Prompt) + LineLimit + 1 < Width * (Height - 1)
  BY InterfaceAssumption DEF TypeOK
<1>2. n * Width \in Nat /\ (Height - 1) * Width = Width * (Height - 1)
      /\ Width * (Height - 1) \in Nat
      /\ (n + Height - 1) * Width = n * Width + (Height - 1) * Width
  <2>1. Width \in Nat /\ Height - 1 \in Nat /\ n + Height - 1 = n + (Height - 1)
    BY ScreenSize
  <2>2. \A a, b \in Nat : /\ a * Width \in Nat /\ a * Width = Width * a
                          /\ (a + b) * Width = a * Width + b * Width
    BY <2>1
  <2> QED
    BY <2>1, <2>2
<1>3. CASE n = 0
  <2>1. n * Width = 0
    BY <1>3, ScreenSize
  <2> QED
    BY <1>1, <2>1
<1>4. CASE (n + Height - 1) * Width <= start + LineLimit
  BY <1>1, <1>2, <1>4
<1> QED
  BY <1>3, <1>4

\* A byte that is displayed leaves the rows below the cursor blank.
LEMMA ByteRowsBlank ==
    ASSUME TypeOK, NEW byte \in 0 .. 255, byte # Backspace,
           BlankFrom(console, (console.y + 1) * Width),
           NEW r, r = WriteByte(byte)
    PROVE  r \in Screens /\ BlankFrom(r, (r.y + 1) * Width)
<1>1. console \in Screens /\ format \in {"HEX", "DEC", "CHAR"}
  BY DEF TypeOK
<1>2. r \in Screens
  BY ByteOnScreen
<1>3. ASSUME NEW b \in {10, 16}, NEW least \in {1, 2},
             r = ConsoleWriteIntMinLength(console, byte, b, least)
      PROVE  BlankFrom(r, (r.y + 1) * Width)
  <2>1. PICK s \in Seq(48 .. 70) : r = ConsoleWriteString(console, s)
    BY <1>3, ByteDigits DEF ConsoleWriteIntMinLength
  <2>2. ASSUME NEW n \in 1 .. Len(s) PROVE s[n] # Backspace
    <3>1. s[n] \in 48 .. 70
      BY ElementOfSeq
    <3>2. \A v \in 48 .. 70 : v # Backspace
      BY DEF Backspace
    <3> QED
      BY <3>1, <3>2
  <2>3. s \in Seq(0 .. 255)
    OBVIOUS
  <2> QED
    BY <1>1, <2>1, <2>2, <2>3, StringRowsBlank
<1>4. CASE format = "CHAR"
  <2>1. r = ConsoleWriteCharacter(console, byte)
    BY <1>4 DEF WriteByte
  <2> QED
    BY <1>1, <1>2, <2>1, AnyRowsBlank
<1>5. CASE format = "HEX"
  <2>1. r = ConsoleWriteIntMinLength(console, byte, 16, 2)
    BY <1>5 DEF WriteByte
  <2> QED
    BY <1>2, <1>3, <2>1
<1>6. CASE format = "DEC"
  <2>1. r = ConsoleWriteIntMinLength(console, byte, 10, 1)
    BY <1>6 DEF WriteByte
  <2> QED
    BY <1>2, <1>3, <2>1
<1> QED
  BY <1>1, <1>4, <1>5, <1>6

\* What the screen shows of the line, for a given screen and line.
ShowsLine(con, s) ==
    /\ Cursor(con) = start - con.scrolled * Width + Len(s)
    /\ \A i \in 1 .. Len(s) : con.cells[start - con.scrolled * Width + i - 1] = s[i]
    /\ con.scrolled = 0 \/ (con.scrolled + Height - 1) * Width <= start + LineLimit

\* One more character on the line.
LEMMA LineGrows ==
    ASSUME TypeOK, NEW s \in Seq(Characters), Len(s) < LineLimit, ShowsLine(console, s),
           NEW c \in Characters, NEW r, r = ConsoleWriteCharacter(console, c)
    PROVE  ShowsLine(r, Append(s, c))
<1>1. c \in Blank .. 255 /\ console \in Screens /\ start \in Nat /\ LineLimit \in Nat
      /\ Len(s) \in Nat
  <2>1. c \in Blank .. 126
    BY InterfaceAssumption
  <2>2. c \in Blank .. 255
    BY <2>1 DEF Blank
  <2>3. LineLimit \in Nat
    BY InterfaceAssumption
  <2> QED
    BY <2>2, <2>3 DEF TypeOK
<1>2. r \in Screens
  BY <1>1, PrintableWritten
<1>3. PICK d \in {0, Width} :
          /\ r.scrolled * Width = console.scrolled * Width + d
          /\ Cursor(r) = Cursor(console) + 1 - d
          /\ \A i \in Cells : r.cells[i] = IF i + d = Cursor(console) THEN c
                                           ELSE IF i + d \in Cells THEN console.cells[i + d]
                                           ELSE Blank
          /\ d = 0 => r.scrolled = console.scrolled
          /\ d = Width => /\ r.scrolled = console.scrolled + 1
                          /\ Cursor(console) + 1 = Width * Height
  BY <1>1, PrintableShown
<1>4. console.scrolled \in Nat /\ r.scrolled \in Nat
  BY <1>1, <1>2 DEF Screens
<1>5. PICK was \in Nat : was = start - console.scrolled * Width /\ console.scrolled * Width \in Nat
  BY <1>4, StartStays DEF ShowsLine
<1>6. /\ Cursor(console) = was + Len(s)
      /\ \A i \in 1 .. Len(s) : console.cells[was + i - 1] = s[i]
  BY <1>5 DEF ShowsLine
<1>7. r.scrolled = 0 \/ (r.scrolled + Height - 1) * Width <= start + LineLimit
  <2>1. CASE d = 0
    BY <1>3, <2>1 DEF ShowsLine
  <2>2. CASE d = Width
    <3>1. /\ r.scrolled + Height - 1 = console.scrolled + Height
          /\ (console.scrolled + Height) * Width = console.scrolled * Width + Width * Height
      <4>1. Width \in Nat /\ Height \in Nat
        BY ScreenSize
      <4>2. \A a, b \in Nat : (a + b) * Width = a * Width + Width * b
        BY <4>1
      <4>3. (console.scrolled + Height) * Width = console.scrolled * Width + Width * Height
        BY <1>4, <4>1, <4>2
      <4>4. r.scrolled = console.scrolled + 1
        BY <1>3, <2>2
      <4>5. r.scrolled + Height - 1 = console.scrolled + Height
        BY <1>4, <4>1, <4>4
      <4> QED
        BY <4>3, <4>5
    <3>2. Width * Height = was + Len(s) + 1
      BY <1>3, <1>6, <2>2
    <3> QED
      BY <1>1, <1>5, <3>1, <3>2, SMTT(30)
  <2> QED
    BY <2>1, <2>2
<1>8. PICK now \in Nat : now = start - r.scrolled * Width /\ now + d = was
  <2>1. start - r.scrolled * Width \in Nat
    BY <1>4, <1>7, StartStays
  <2>2. start - r.scrolled * Width + d = was
    BY <1>1, <1>3, <1>5, ScreenSize
  <2> QED
    BY <2>1, <2>2
<1>12. d \in Nat /\ Cursor(r) = Cursor(console) + 1 - d /\ now + d = was /\ Len(s) \in Nat
  BY <1>1, <1>3, <1>8, ScreenSize
<1>9. Cursor(r) = now + (Len(s) + 1)
  <2>1. Cursor(console) = was + Len(s)
    BY <1>6
  <2> QED
    BY <1>12, <2>1
<1>10. /\ Len(Append(s, c)) = Len(s) + 1
       /\ \A i \in 1 .. (Len(s) + 1) : Append(s, c)[i] = IF i = Len(s) + 1 THEN c ELSE s[i]
  BY <1>1
<1>11. ASSUME NEW i \in 1 .. (Len(s) + 1) PROVE r.cells[now + i - 1] = Append(s, c)[i]
  <2>1. Cursor(console) \in Cells
    BY <1>1, CursorOnScreen
  <2>2. Cursor(console) < Width * Height /\ Width * Height \in Nat
    BY <2>1, Sizes DEF Cells
  <2>3. now + i - 1 \in Cells /\ (now + i - 1) + d = was + i - 1
    <3>1. now + i - 1 \in Nat /\ (now + i - 1) + d = was + i - 1
      BY <1>12
    <3>2. now + i - 1 < Width * Height
      BY <1>1, <1>6, <1>8, <1>12, <2>2, <3>1
    <3> QED
      BY <2>2, <3>1, <3>2 DEF Cells
  <2>4. CASE i = Len(s) + 1
    <3>1. was + i - 1 = Cursor(console)
      BY <1>1, <1>6, <2>4
    <3> QED
      BY <1>3, <1>10, <2>3, <2>4, <3>1
  <2>5. CASE i # Len(s) + 1
    <3>1. i \in 1 .. Len(s) /\ was + i - 1 # Cursor(console) /\ was + i - 1 < Width * Height
          /\ was + i - 1 \in Nat
      BY <1>1, <1>6, <2>2, <2>5
    <3>2. was + i - 1 \in Cells
      BY <2>2, <3>1 DEF Cells
    <3>3. r.cells[now + i - 1] = console.cells[was + i - 1]
      BY <1>3, <2>3, <3>1, <3>2
    <3> QED
      BY <1>6, <1>10, <2>5, <3>1, <3>3
  <2> QED
    BY <2>4, <2>5
<1> QED
  BY <1>7, <1>8, <1>9, <1>10, <1>11 DEF ShowsLine

\* One character less.
LEMMA LineShrinks ==
    ASSUME TypeOK, NEW s \in Seq(Characters), Len(s) > 0, ShowsLine(console, s),
           BlankFrom(console, Cursor(console)),
           NEW r, r = ConsoleWriteString(console, <<Backspace, Blank, Backspace>>)
    PROVE  ShowsLine(r, SubSeq(s, 1, Len(s) - 1))
<1>1. console \in Screens /\ start \in Nat /\ Len(s) \in Nat
  BY DEF TypeOK
<1>2. /\ r \in Screens /\ r.scrolled = console.scrolled
      /\ Cursor(r) = IF Cursor(console) = 0 THEN 0 ELSE Cursor(console) - 1
      /\ \A i \in Cells : i < Cursor(r) => r.cells[i] = console.cells[i]
  BY <1>1, Erased
<1>3. console.scrolled \in Nat
  BY <1>1 DEF Screens
<1>4. PICK was \in Nat : was = start - console.scrolled * Width
  BY <1>3, StartStays DEF ShowsLine
<1>5. /\ Cursor(console) = was + Len(s)
      /\ \A i \in 1 .. Len(s) : console.cells[was + i - 1] = s[i]
  BY <1>4 DEF ShowsLine
<1>6. Cursor(r) = was + (Len(s) - 1)
  BY <1>1, <1>2, <1>5
<1>7. /\ Len(SubSeq(s, 1, Len(s) - 1)) = Len(s) - 1
      /\ \A i \in 1 .. (Len(s) - 1) : SubSeq(s, 1, Len(s) - 1)[i] = s[i]
  <2>1. \A i \in 1 .. (Len(s) - 1) : s[i] \in Characters
    BY <1>1, ElementOfSeq
  <2>2. /\ Len(SubSeq(s, 1, Len(s) - 1)) = IF 1 <= Len(s) - 1 THEN Len(s) - 1 - 1 + 1 ELSE 0
        /\ \A i \in 1 .. (Len(s) - 1 - 1 + 1) : SubSeq(s, 1, Len(s) - 1)[i] = s[1 + i - 1]
    BY <1>1, <2>1, SubSeqProperties
  <2>3. Len(s) - 1 - 1 + 1 = Len(s) - 1 /\ \A i \in 1 .. (Len(s) - 1) : 1 + i - 1 = i
    BY <1>1
  <2> QED
    BY <1>1, <2>2, <2>3
<1>8. ASSUME NEW i \in 1 .. (Len(s) - 1)
      PROVE  r.cells[was + i - 1] = SubSeq(s, 1, Len(s) - 1)[i]
  <2>1. Cursor(r) \in Cells
    BY <1>2, CursorOnScreen
  <2>2. Cursor(r) < Width * Height /\ Width * Height \in Nat
    BY <2>1, Sizes DEF Cells
  <2>3. i \in 1 .. Len(s) /\ was + i - 1 \in Nat /\ was + i - 1 < Cursor(r)
    BY <1>1, <1>6
  <2>4. was + i - 1 \in Cells
    BY <1>1, <1>6, <2>2, <2>3 DEF Cells
  <2> QED
    BY <1>2, <1>5, <1>7, <2>3, <2>4
<1> QED
  BY <1>2, <1>4, <1>6, <1>7, <1>8 DEF ShowsLine

\* Every step keeps the line on the screen, if no text moves the cursor back.
LEMMA ScreenKept ==
    ASSUME NoBackspaces
    PROVE  TypeOK /\ LineHeld /\ LineShown /\ [Next]_vars => LineShown'
<1> SUFFICES ASSUME TypeOK, LineHeld, LineShown, [Next]_vars PROVE LineShown'
  OBVIOUS
<1> DEFINE RowsClear(con) == BlankFrom(con, (con.y + 1) * Width)
<1>1. /\ console \in Screens /\ RowsClear(console)
      /\ typed \in Seq(Characters) /\ Len(typed) \in Nat /\ Len(typed) <= LineLimit
      /\ currentCharIndex = Len(typed) /\ bytesShown \in Nat /\ byteIndex \in Nat
  BY DEF TypeOK, LineHeld, LineShown
<1>2. \A con \in ClearScreens : con \in Screens /\ RowsClear(con) /\ BlankFrom(con, Cursor(con))
  BY RowsBlank DEF ClearScreens
<1>3. ASSUME NEW con \in Screens, RowsClear(con) PROVE RowsClear(Anew(con))
  BY <1>3, AnewOnScreen DEF BlankFrom
<1>4. /\ LineShown <=> /\ RowsClear(console)
                       /\ pc \in {"prompt", "read"} => BlankFrom(console, Cursor(console))
                       /\ pc \in {"display", "ask", "shown"} => buffer \in Buffers
                       /\ pc = "read" /\ ~cropped => ShowsLine(console, typed)
      /\ LineShown' <=> /\ RowsClear(console')
                        /\ pc' \in {"prompt", "read"} => BlankFrom(console', Cursor(console'))
                        /\ pc' \in {"display", "ask", "shown"} => buffer' \in Buffers
                        /\ pc' = "read" /\ ~cropped' => ShowsLine(console, typed)'
  BY DEF LineShown, ShowsLine, StartNow, BlankFrom, Cursor
<1> HIDE DEF RowsClear
<1>5. CASE WritePrompt
  <2>1. PICK con : con = ConsoleWriteString(console, Prompt)
    OBVIOUS
  <2>2. con \in ClearScreens
    <3>1. console \in ClearScreens
      BY <1>1, <1>4, <1>5 DEF WritePrompt, ClearScreens
    <3>2. Prompt \in Seq(Blank .. 126)
      BY InterfaceAssumption
    <3> QED
      BY <2>1, <3>1, <3>2, PrintablesClear
  <2>3. console' = Anew(con) /\ start' = Cursor(console') /\ typed' = <<>> /\ pc' = "read"
    BY <1>5, <2>1 DEF WritePrompt
  <2>4. /\ console' \in Screens /\ RowsClear(console') /\ BlankFrom(console', Cursor(console'))
        /\ console'.scrolled = 0
    BY <1>2, <1>3, <2>2, <2>3, AnewOnScreen DEF BlankFrom
  <2>5. ShowsLine(console, typed)'
    <3>1. Len(typed') = 0 /\ start' \in Nat /\ console'.scrolled * Width = 0
      BY <2>3, <2>4, CursorIsNatural, ScreenSize
    <3> QED
      BY <2>3, <2>4, <3>1 DEF ShowsLine
  <2> QED
    BY <1>4, <2>3, <2>4, <2>5
<1>6. ASSUME NEW c \in Characters, TypeCharacter(c) PROVE LineShown'
  <2>1. /\ console' = ConsoleWriteCharacter(console, c) /\ pc = "read" /\ pc' = "read"
        /\ typed' = (IF Len(typed) < LineLimit THEN Append(typed, c) ELSE typed)
        /\ start' = start
    BY <1>6 DEF TypeCharacter, Key
  <2>2. c \in Blank .. 255
    <3>1. c \in Blank .. 126
      BY InterfaceAssumption
    <3> QED
      BY <3>1 DEF Blank
  <2>3. console' \in ClearScreens
    <3>1. BlankFrom(console, Cursor(console))
      BY <1>4, <2>1
    <3> QED
      BY <1>1, <2>1, <2>2, <3>1, PrintableWritten, PrintableClear DEF ClearScreens
  <2>4. ASSUME ~cropped' PROVE ShowsLine(console, typed)'
    <3>1. ~cropped /\ Len(typed) # LineLimit
      BY <1>6, <2>4 DEF TypeCharacter
    <3>2. Len(typed) < LineLimit /\ typed' = Append(typed, c)
      BY <1>1, <2>1, <3>1, InterfaceAssumption
    <3>3. ShowsLine(console, typed)
      BY <1>4, <2>1, <3>1
    <3>4. ShowsLine(console', Append(typed, c))
      BY <1>1, <2>1, <3>2, <3>3, LineGrows
    <3> QED
      BY <2>1, <3>2, <3>4 DEF ShowsLine
  <2> QED
    BY <1>2, <1>4, <2>1, <2>3, <2>4
<1>7. CASE TypeBackspace
  <2>1. /\ console' = ConsoleWriteString(console, <<Backspace, Blank, Backspace>>)
        /\ pc = "read" /\ pc' = "read" /\ currentCharIndex # 0
        /\ typed' = SubSeq(typed, 1, Len(typed) - 1)
        /\ start' = start /\ cropped' = cropped
    BY <1>7 DEF TypeBackspace, Key, Front
  <2>2. BlankFrom(console, Cursor(console))
    BY <1>4, <2>1
  <2>3. console' \in ClearScreens
    BY <1>1, <2>1, <2>2, Erased DEF ClearScreens
  <2>4. ASSUME ~cropped' PROVE ShowsLine(console, typed)'
    <3>1. Len(typed) > 0 /\ ShowsLine(console, typed)
      BY <1>1, <1>4, <2>1, <2>4
    <3>2. ShowsLine(console', SubSeq(typed, 1, Len(typed) - 1))
      BY <1>1, <2>1, <2>2, <3>1, LineShrinks
    <3> QED
      BY <2>1, <3>2 DEF ShowsLine
  <2> QED
    BY <1>2, <1>4, <2>1, <2>3, <2>4
<1>8. CASE TypeReturn
  <2>1. console' = ConsoleWriteString(console, <<Return, Newline>>) /\ pc' = "react"
    BY <1>8 DEF TypeReturn
  <2>2. console' \in ClearScreens
    BY <1>1, <2>1, LineEnded DEF ClearScreens, RowsClear
  <2> QED
    BY <1>2, <1>4, <2>1, <2>2
<1>9. ConsoleWriteCharacter(console, Newline) \in ClearScreens
  BY <1>1, NewlineClear DEF ClearScreens, RowsClear
<1>10. ASSUME NEW b \in Buffers, read(b) PROVE LineShown'
  <2>1. console' = Anew(console) /\ pc' = "display" /\ buffer' = b
    BY <1>10 DEF read, FirstPart, NextPart, Display
  <2> QED
    BY <1>1, <1>3, <1>4, <2>1
<1>11. ASSUME NEW b \in Buffers, NEW f \in {"HEX", "DEC", "CHAR"}, readdisk(b, f) PROVE LineShown'
  <2>1. console' = Anew(ConsoleWriteCharacter(console, Newline)) /\ pc' = "display" /\ buffer' = b
    BY <1>11 DEF readdisk, Display
  <2> QED
    BY <1>2, <1>3, <1>4, <1>9, <2>1
<1>12. CASE EndCommand
  <2>1. console' = ConsoleWriteCharacter(console, Newline) /\ pc' = "prompt"
    BY <1>12 DEF EndCommand
  <2> QED
    BY <1>2, <1>4, <1>9, <2>1
<1>13. CASE cls
  <2>1. console' = ConsoleClearScreen /\ pc' = "prompt"
    BY <1>13 DEF cls
  <2> QED
    BY <1>2, <1>4, <2>1, ClearScreen
<1>14. ASSUME pc = "display", bytesShown + byteIndex < Len(buffer),
              NEW r, r = WriteByte(buffer[bytesShown + byteIndex + 1])
       PROVE  r \in Screens /\ RowsClear(r) /\ buffer \in Buffers
  <2>1. buffer \in Buffers
    BY <1>4, <1>14
  <2>2. bytesShown + byteIndex + 1 \in 1 .. Len(buffer)
    BY <1>1, <1>14 DEF TypeOK
  <2>3. buffer[bytesShown + byteIndex + 1] \in 0 .. 255
    BY <2>2, ElementOfSeq DEF TypeOK
  <2>4. buffer[bytesShown + byteIndex + 1] # Backspace
    BY <2>1, <2>2 DEF NoBackspaces
  <2> QED
    BY <1>1, <1>14, <2>1, <2>3, <2>4, ByteRowsBlank DEF RowsClear
<1>15. CASE DisplayByte
  <2>1. /\ console' = WriteByte(buffer[bytesShown + byteIndex + 1])
        /\ pc = "display" /\ pc' = "display" /\ bytesShown + byteIndex < Len(buffer)
        /\ buffer' = buffer
    BY <1>15 DEF DisplayByte
  <2> QED
    BY <1>4, <1>14, <2>1
<1>16. CASE PageBreak
  <2>1. PICK con : /\ con = WriteByte(buffer[bytesShown + byteIndex + 1])
                   /\ console' = ConsoleWriteString(con, MoreMessage)
    BY <1>16 DEF PageBreak
  <2>2. /\ pc = "display" /\ pc' = "ask" /\ bytesShown + byteIndex < Len(buffer)
        /\ buffer' = buffer
    BY <1>16 DEF PageBreak
  <2>3. con \in Screens /\ RowsClear(con) /\ buffer \in Buffers
    BY <1>14, <2>1, <2>2
  <2>4. console' \in ClearScreens
    BY <2>1, <2>3, MessageClear DEF RowsClear
  <2> QED
    BY <1>2, <1>4, <2>2, <2>3, <2>4
<1>17. CASE SeeMore
  <2>1. /\ console' = Anew(console) /\ pc = "ask" /\ pc' = "display" /\ buffer' = buffer
    BY <1>17 DEF SeeMore
  <2> QED
    BY <1>1, <1>3, <1>4, <2>1
<1>18. CASE LastPart
  BY <1>4, <1>18 DEF LastPart
<1>19. CASE Quit
  BY <1>4, <1>19 DEF Quit
<1>20. CASE EndOfBuffer
  BY <1>4, <1>20 DEF EndOfBuffer
<1>21. CASE UNCHANGED vars
  BY <1>21 DEF vars, lineVars, pagerVars, LineShown, StartNow
<1> QED
  BY <1>5, <1>6, <1>7, <1>8, <1>10, <1>11, <1>12, <1>13, <1>15, <1>16, <1>17, <1>18, <1>19, <1>20,
     <1>21 DEF Next, ReadStringFromKeyboard, DisplayEntireBuffer

-----------------------------------------------------------------------------
(* The theorems.                                                           *)

\* Every variable has its type: what the screen holds are bytes, and between two
\* characters the cursor is on it, whatever has been written (console.c).
THEOREM TypeCorrect == Spec => []TypeOK
<1>1. Init => TypeOK
  <2> SUFFICES ASSUME Init PROVE TypeOK
    OBVIOUS
  <2>1. ConsoleClearScreen \in Screens
    BY ClearScreen DEF ClearScreens
  <2>2. inputString \in [0 .. (LineLimit - 1) -> 0 .. 126] /\ pastEnd \in NotWritten .. 126
    BY DEF Init, NotWritten
  <2>3. typed \in Seq(Characters) /\ buffer \in Seq(0 .. 255) /\ displayed \in Seq(Nat)
    BY DEF Init
  <2>5. cropped \in BOOLEAN /\ console \in Screens
    BY <2>1 DEF Init
  <2>4. /\ pc = "prompt" /\ command = "read" /\ format = "CHAR" /\ currentCharIndex = 0
        /\ bytesShown = 0 /\ byteIndex = 0 /\ lastXpos = 0 /\ displayBufferLineCount = 0
        /\ start = 0 /\ keys = 0 /\ buffers = 0
    BY DEF Init
  <2> QED
    BY <2>2, <2>3, <2>4, <2>5 DEF TypeOK
<1> QED
  BY <1>1, TypesKept, PTL DEF Spec

LEMMA Invariant == Spec => []IInv
<1>1. Init => LineHeld /\ Shown /\ Paged
  <2> SUFFICES ASSUME Init PROVE LineHeld /\ Shown /\ Paged
    OBVIOUS
  <2>1. Len(typed) = 0 /\ Len(displayed) = 0 /\ LineLimit \in Nat
    BY InterfaceAssumption DEF Init
  <2>2. LineHeld
    BY <2>1 DEF Init, LineHeld
  <2>3. Shown
    BY <2>1 DEF Init, Shown
  <2>4. Paged
    BY DEF Init, Paged
  <2> QED
    BY <2>2, <2>3, <2>4
<1>2. TypeOK /\ (LineHeld /\ Shown /\ Paged) /\ [Next]_vars => (LineHeld /\ Shown /\ Paged)'
  BY LineKept, RecordKept, PageKept
<1>3. Spec => [](LineHeld /\ Shown /\ Paged)
  BY <1>1, <1>2, TypeCorrect, PTL DEF Spec
<1> QED
  BY <1>3, TypeCorrect, PTL DEF IInv

\* The shell gets what was typed, cropped, whatever was erased on the way and whatever
\* earlier lines left in its array; a line as long as the array fills it, and the zero
\* that ends it goes to the byte after it (ReadStringFromKeyboard).
THEOREM LineTyped == Spec => []LineIsTyped
<1>1. IInv => LineIsTyped
  <2> SUFFICES ASSUME IInv, pc = "react"
               PROVE  /\ \A i \in DOMAIN typed : inputString[i - 1] = typed[i]
                      /\ Len(typed) < LineLimit => inputString[Len(typed)] = 0
                      /\ Len(typed) = LineLimit => pastEnd = 0
    BY DEF LineIsTyped
  <2>1. DOMAIN typed = 1 .. Len(typed)
    BY DEF IInv, TypeOK
  <2> QED
    BY <2>1 DEF IInv, LineHeld
<1> QED
  BY <1>1, Invariant, PTL

\* The pager skips no byte, over all pages and although each call of DisplayBuffer
\* begins with a byte that may have been displayed before (DisplayEntireBuffer).
THEOREM BytesShown == Spec => []EveryByteShown
<1>1. IInv => EveryByteShown
  <2> SUFFICES ASSUME IInv PROVE EveryByteShown
    OBVIOUS
  <2>1. DOMAIN displayed = 1 .. Len(displayed)
    BY DEF IInv, TypeOK
  <2> QED
    BY <2>1 DEF IInv, Shown, EveryByteShown
<1> QED
  BY <1>1, Invariant, PTL

\* A page of numbers, with the question after it, does not scroll off the screen, for
\* pages of up to two lines less than the screen has (DisplayBuffer).
THEOREM PageStays == Spec => []PageStaysOnScreen
<1>1. IInv => PageStaysOnScreen
  <2> SUFFICES ASSUME IInv, pc = "ask", format # "CHAR" PROVE StartNow >= 0
    BY DEF PageStaysOnScreen
  <2>1. console \in Screens /\ start \in Nat
    BY DEF IInv, TypeOK
  <2>2. console.y \in Nat /\ console.scrolled \in Nat
    BY <2>1 DEF Screens
  <2>3. PICK r \in 0 .. (Height - 1) :
            r * Width <= start /\ Row(console) <= r + (PageLines + 2)
    BY DEF IInv, Paged, RowsSinceStart
  <2>4. PageLines \in Nat /\ PageLines + 2 < Height
    BY InterfaceAssumption
  <2>5. console.scrolled = 0 \/ console.y = Height - 1
    BY DEF IInv, Paged
  <2>6. console.scrolled <= r
    BY <2>2, <2>3, <2>4, <2>5, ScreenSize DEF Row
  <2>7. console.scrolled * Width <= r * Width /\ console.scrolled * Width \in Nat
    <3>1. r \in Nat
      BY ScreenSize
    <3>2. \A a, b \in Nat : a <= b => a * Width <= b * Width
      <4> TAKE a, b \in Nat
      <4> HAVE a <= b
      <4>1. CASE a = b
        BY <4>1, Sizes
      <4>2. CASE a < b
        BY <4>2, Sizes
      <4> QED
        BY <4>1, <4>2
    <3> QED
      BY <2>2, <2>6, <3>1, <3>2, Sizes
  <2>8. r * Width \in Nat
    BY Sizes, ScreenSize
  <2> QED
    BY <2>1, <2>3, <2>7, <2>8 DEF StartNow
<1> QED
  BY <1>1, Invariant, PTL

\* The screen ends with the line as it is edited, across the ends of rows in both
\* directions and after it has scrolled, and nothing is behind the cursor, provided that
\* no text that was displayed before has moved the cursor back with a backspace
\* (ReadStringFromKeyboard, ConsoleWriteCharacter).
THEOREM LineOnScreen ==
    ASSUME NoBackspaces
    PROVE  Spec => []ScreenShowsLine
<1>1. Init => LineShown
  <2> SUFFICES ASSUME Init PROVE LineShown
    OBVIOUS
  <2>1. BlankFrom(console, Cursor(console)) /\ BlankFrom(console, (console.y + 1) * Width)
    BY ClearScreen DEF Init, ClearScreens
  <2> QED
    BY <2>1 DEF Init, LineShown
<1>2. TypeOK /\ LineHeld /\ LineShown /\ [Next]_vars => LineShown'
  BY ScreenKept
<1>3. IInv => TypeOK /\ LineHeld
  BY DEF IInv
<1>4. TypeOK /\ LineShown => ScreenShowsLine
  <2> SUFFICES ASSUME TypeOK, LineShown, pc = "read", ~cropped
               PROVE  /\ Cursor(console) = StartNow + Len(typed)
                      /\ \A i \in Cells : i >= StartNow =>
                            console.cells[i] = IF i < Cursor(console)
                                               THEN typed[i - StartNow + 1] ELSE Blank
    BY DEF ScreenShowsLine
  <2>1. /\ Cursor(console) = StartNow + Len(typed)
        /\ \A i \in 1 .. Len(typed) : console.cells[StartNow + i - 1] = typed[i]
        /\ BlankFrom(console, Cursor(console))
    BY DEF LineShown
  <2>2. console.scrolled \in Nat /\ start \in Nat /\ Len(typed) \in Nat
    BY DEF TypeOK, Screens
  <2>3. StartNow \in Int
    <3>1. console.scrolled * Width \in Nat
      BY <2>2, Sizes
    <3> QED
      BY <2>2, <3>1 DEF StartNow
  <2>4. ASSUME NEW i \in Cells, i >= StartNow
        PROVE  console.cells[i] = IF i < Cursor(console) THEN typed[i - StartNow + 1] ELSE Blank
    <3>1. i \in Nat
      BY Sizes DEF Cells
    <3>2. CASE i < Cursor(console)
      <4>1. i - StartNow + 1 \in 1 .. Len(typed) /\ StartNow + (i - StartNow + 1) - 1 = i
        BY <2>1, <2>2, <2>3, <2>4, <3>1, <3>2
      <4>2. console.cells[StartNow + (i - StartNow + 1) - 1] = typed[i - StartNow + 1]
        BY <2>1, <4>1
      <4> QED
        BY <3>2, <4>1, <4>2
    <3>3. CASE ~(i < Cursor(console))
      <4>1. i >= Cursor(console)
        BY <2>1, <2>2, <2>3, <3>1, <3>3
      <4> QED
        BY <2>1, <3>3, <4>1 DEF BlankFrom
    <3> QED
      BY <3>2, <3>3
  <2> QED
    BY <2>1, <2>4
<1>5. Spec => []LineShown
  BY <1>1, <1>2, <1>3, Invariant, PTL DEF Spec
<1> QED
  BY <1>4, <1>5, TypeCorrect, PTL

=============================================================================
