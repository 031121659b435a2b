------------------------------- MODULE Console -------------------------------
(***************************************************************************)
(* The text console (src/kernel/console.c): what a character does to the   *)
(* screen and the cursor, as functions of a record                         *)
(*     [x, y: the cursor, cells: the screen row by row, scrolled]          *)
(* where scrolled counts the rows that have left the screen (the code has  *)
(* no such count).  Characters are their ASCII codes; colours are left     *)
(* out.                                                                    *)
(***************************************************************************)
EXTENDS Integers, Sequences, SequencesExt

CONSTANTS
    Width, Height,      \* CONSOLE_WIDTH, CONSOLE_HEIGHT
    TabStop             \* 8

ASSUME ConsoleAssumption ==
    Width \in Nat \ {0} /\ Height \in Nat \ {0} /\ TabStop \in Nat \ {0}

Backspace == 8
Tab == 9
Newline == 10
Return == 13
Blank == 32

Cells == 0 .. (Width * Height - 1)

\* Every console there can be: between two characters the cursor is on the screen.
Screens ==
    [x : 0 .. (Width - 1), y : 0 .. (Height - 1), cells : [Cells -> 0 .. 255], scrolled : Nat]

Cursor(con) == con.y * Width + con.x

ConsoleClearScreen == [x |-> 0, y |-> 0, cells |-> [i \in Cells |-> Blank], scrolled |-> 0]

-----------------------------------------------------------------------------
\* A faulty one, which stops at the left edge.
StepBackInRow(con) == IF con.x > 0 THEN [con EXCEPT !.x = @ - 1] ELSE con

\* To the left, from the left edge to the end of the row above.
StepBack(con) ==
    IF con.x > 0 THEN [con EXCEPT !.x = @ - 1]
    ELSE IF con.y > 0 THEN [con EXCEPT !.y = @ - 1, !.x = Width - 1]
    ELSE con

PutCharacter(con, c) ==
    [con EXCEPT !.cells[Cursor(con)] = c, !.x = @ + 1]

\* At the edge of a row the cursor goes to the next one ...
Wrap(con) ==
    IF con.x >= Width THEN [con EXCEPT !.x = 0, !.y = @ + 1] ELSE con

\* ... and below the last row everything moves up.
Scroll(con) ==
    IF con.y < Height THEN con
    ELSE [con EXCEPT
            !.cells = [i \in Cells |->
                IF i + Width \in Cells THEN con.cells[i + Width] ELSE Blank],
            !.y = Height - 1,
            !.scrolled = @ + 1]

ConsoleWriteCharacter(con, c) ==
    LET moved ==
          CASE c = Backspace -> StepBack(con)
            [] c = Tab       -> [con EXCEPT !.x = (@ \div TabStop + 1) * TabStop]
            [] c = Return    -> [con EXCEPT !.x = 0]
            [] c = Newline   -> [con EXCEPT !.x = 0, !.y = @ + 1]
            [] c >= Blank    -> PutCharacter(con, c)
            [] OTHER         -> con
    IN  Scroll(Wrap(moved))

ConsoleWriteString(con, s) ==
    LET after[n \in 0 .. Len(s)] ==
          IF n = 0 THEN con ELSE ConsoleWriteCharacter(after[n - 1], s[n])
    IN  after[Len(s)]

-----------------------------------------------------------------------------
(* Numbers.                                                                *)

hexChars == <<48, 49, 50, 51, 52, 53, 54, 55, 56, 57, 65, 66, 67, 68, 69, 70>>

\* The digits, filled up with zeros on the left; 0 itself has none.
Digits(i, base, minimumLength) ==
    LET digits[n \in 0 .. i] ==
          IF n = 0 THEN <<>> ELSE Append(digits[n \div base], hexChars[(n % base) + 1])
        zeros == IF Len(digits[i]) < minimumLength THEN minimumLength - Len(digits[i]) ELSE 0
    IN  [k \in 1 .. zeros |-> hexChars[1]] \o digits[i]

ConsoleWriteIntMinLength(con, i, base, minimumLength) ==
    ConsoleWriteString(con, Digits(i, base, minimumLength))

=============================================================================
