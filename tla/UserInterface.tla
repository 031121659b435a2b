---------------------------- MODULE UserInterface ----------------------------
(***************************************************************************)
(* The line editor and the pager (src/kernel/userinterface.c), as the      *)
(* shell uses them: Run prompts, reads a line, reacts to it; commands that *)
(* display a file or a sector hand its bytes to the pager.  Both write on  *)
(* the console.  One step is one key, or one byte displayed.               *)
(***************************************************************************)
EXTENDS Console

CONSTANTS
    Characters,         \* the printable characters the user types
    LineLimit,          \* 255: the last index of the editor, the size of the array
    Prompt,             \* PS1
    MoreMessage,        \* "\nEnter to see more, Q to quit.\n"
    PageLines,          \* maxLinesAtOnce: the height of the console less 15
    Buffers,            \* the data that commands display: sequences of bytes
    MaxKeys,            \* bound: the keys typed at prompts
    MaxBuffers          \* bound: the buffers displayed

\* A line, with its prompt, fits on the screen: 2000 cells for 255 characters.  A page
\* and the message after it fit as well, and a number is shorter than a row.
ASSUME InterfaceAssumption ==
    /\ Characters \subseteq Blank .. 126
    /\ LineLimit \in Nat \ {0} /\ PageLines \in Nat \ {0}
    /\ Prompt \in Seq(Blank .. 126)
    /\ Len(Prompt) + LineLimit + 1 < Width * (Height - 1)
    /\ MoreMessage \in Seq(0 .. 255) /\ Len(MoreMessage) \in 3 .. (Width + 1)
    /\ MoreMessage[1] = Newline /\ MoreMessage[Len(MoreMessage)] = Newline
    /\ \A i \in 2 .. (Len(MoreMessage) - 1) : MoreMessage[i] \in Blank .. 126
    /\ PageLines + 2 < Height /\ 3 < Width
    /\ Buffers \subseteq Seq(0 .. 255) \ {<<>>}
    /\ MaxKeys \in Nat /\ MaxBuffers \in Nat

VARIABLES
    pc,                 \* where the shell is
    console,
    inputString,        \* the shell's array
    pastEnd,            \* the byte after it, which the editor writes to as well
    currentCharIndex,
    command,            \* the command that displays, read or readdisk
    buffer, format,     \* the arguments of DisplayEntireBuffer
    bytesShown,         \* its local variable
    byteIndex, lastXpos,        \* the local variables of DisplayBuffer
    displayBufferLineCount,
    typed,              \* the line as the user means it
    cropped,            \* more was typed than the line takes
    start,              \* the cell where the line, or the page, began
    displayed,          \* the places in the buffer of the bytes displayed so far
    keys, buffers       \* what the bounds count

lineVars == <<inputString, pastEnd, currentCharIndex, typed, cropped>>
pagerVars == <<command, buffer, format, bytesShown, byteIndex, lastXpos,
               displayBufferLineCount, displayed>>
vars == <<pc, console, lineVars, pagerVars, start, keys, buffers>>

\* The console with a count of the rows that leave it from now on.
Anew(con) == [con EXCEPT !.scrolled = 0]

\* What the byte after the array holds before the editor has written to it.
NotWritten == -1

Init ==
    /\ pc = "prompt" /\ console = ConsoleClearScreen
    /\ inputString = [i \in 0 .. (LineLimit - 1) |-> 0] /\ pastEnd = NotWritten
    /\ currentCharIndex = 0
    /\ command = "read" /\ buffer = <<>> /\ format = "CHAR"
    /\ bytesShown = 0 /\ byteIndex = 0
    /\ lastXpos = 0 /\ displayBufferLineCount = 0
    /\ typed = <<>> /\ cropped = FALSE /\ start = 0 /\ displayed = <<>>
    /\ keys = 0 /\ buffers = 0

-----------------------------------------------------------------------------
(* The line editor.                                                        *)

WritePrompt ==
    /\ pc = "prompt"
    /\ console' = Anew(ConsoleWriteString(console, Prompt))
    /\ start' = Cursor(console')
    /\ currentCharIndex' = 0 /\ typed' = <<>> /\ cropped' = FALSE
    /\ pc' = "read"
    /\ UNCHANGED <<inputString, pastEnd, pagerVars, keys, buffers>>

\* inputString[currentCharIndex] = c, where the index may be that of the byte after it.
Store(c) ==
    \/ /\ currentCharIndex < LineLimit
       /\ inputString' = [inputString EXCEPT ![currentCharIndex] = c]
       /\ UNCHANGED pastEnd
    \/ /\ currentCharIndex = LineLimit
       /\ pastEnd' = c
       /\ UNCHANGED inputString

Key == pc = "read" /\ keys < MaxKeys /\ keys' = keys + 1

\* A faulty one, with >= for the > of the limit.
TypeCharacterCropsEarly(c) ==
    /\ Key
    /\ Store(c)
    /\ console' = ConsoleWriteCharacter(console, c)
    /\ currentCharIndex' = IF currentCharIndex + 1 >= LineLimit THEN currentCharIndex
                           ELSE currentCharIndex + 1
    /\ typed' = IF Len(typed) < LineLimit THEN Append(typed, c) ELSE typed
    /\ cropped' = (cropped \/ Len(typed) = LineLimit)
    /\ UNCHANGED <<pc, pagerVars, start, buffers>>

\* A key that converts to a character.
TypeCharacter(c) ==
    /\ Key
    /\ Store(c)
    /\ console' = ConsoleWriteCharacter(console, c)
    /\ currentCharIndex' = IF currentCharIndex + 1 > LineLimit THEN currentCharIndex
                           ELSE currentCharIndex + 1
    /\ typed' = IF Len(typed) < LineLimit THEN Append(typed, c) ELSE typed
    /\ cropped' = (cropped \/ Len(typed) = LineLimit)
    /\ UNCHANGED <<pc, pagerVars, start, buffers>>

TypeBackspace ==
    /\ Key
    /\ currentCharIndex # 0
    /\ console' = ConsoleWriteString(console, <<Backspace, Blank, Backspace>>)
    /\ Store(0)
    /\ currentCharIndex' = currentCharIndex - 1
    /\ typed' = Front(typed)
    /\ UNCHANGED <<pc, pagerVars, cropped, start, buffers>>

TypeReturn ==
    /\ Key
    /\ console' = ConsoleWriteString(console, <<Return, Newline>>)
    /\ Store(0)
    /\ pc' = "react"
    /\ UNCHANGED <<currentCharIndex, typed, cropped, pagerVars, start, buffers>>

ReadStringFromKeyboard ==
    \/ \E c \in Characters : TypeCharacter(c)
    \/ TypeBackspace
    \/ TypeReturn

-----------------------------------------------------------------------------
(* The commands: one clears the screen, some display nothing, readdisk     *)
(* displays a sector, read one part of a file after another.  Of what they *)
(* write themselves there is the newline at the end, and that of readdisk  *)
(* before the sector.                                                      *)

cls ==
    /\ pc = "react"
    /\ console' = ConsoleClearScreen
    /\ pc' = "prompt"
    /\ UNCHANGED <<lineVars, pagerVars, start, keys, buffers>>

EndCommand ==
    /\ pc \in {"react", "end"}
    /\ console' = ConsoleWriteCharacter(console, Newline)
    /\ pc' = "prompt"
    /\ UNCHANGED <<lineVars, pagerVars, start, keys, buffers>>

\* DisplayEntireBuffer begins, and with it the first call of DisplayBuffer.
Display(b, f, con) ==
    /\ buffers < MaxBuffers /\ buffers' = buffers + 1
    /\ buffer' = b /\ format' = f
    /\ bytesShown' = 0 /\ byteIndex' = 0 /\ displayed' = <<>>
    /\ console' = Anew(con)
    /\ lastXpos' = con.x
    /\ start' = Cursor(con)
    /\ pc' = "display"
    /\ UNCHANGED <<lineVars, keys>>

\* readdisk and the first part of read: after InitialiseDisplayBuffer.
readdisk(b, f) ==
    /\ pc = "react"
    /\ command' = "readdisk"
    /\ Display(b, f, ConsoleWriteCharacter(console, Newline))
    /\ displayBufferLineCount' = 0

FirstPart(b) ==
    /\ pc = "react"
    /\ command' = "read"
    /\ Display(b, "CHAR", console)
    /\ displayBufferLineCount' = 0

\* Further parts go on with the count of the lines.
NextPart(b) ==
    /\ pc = "shown" /\ command = "read"
    /\ Display(b, "CHAR", console)
    /\ UNCHANGED <<command, displayBufferLineCount>>

read(b) == FirstPart(b) \/ NextPart(b)

LastPart ==
    /\ pc = "shown"
    /\ pc' = "end"
    /\ UNCHANGED <<console, lineVars, pagerVars, start, keys, buffers>>

-----------------------------------------------------------------------------
(* The pager.                                                              *)

WriteByte(byte) ==
    CASE format = "HEX"  -> ConsoleWriteIntMinLength(console, byte, 16, 2)
      [] format = "DEC"  -> ConsoleWriteIntMinLength(console, byte, 10, 1)
      [] format = "CHAR" -> ConsoleWriteCharacter(console, byte)

\* A faulty count of the lines, which takes a wrap in mid-row for none.
LinesAfterAtEdge(con) ==
    displayBufferLineCount + IF lastXpos > con.x /\ con.x = 0 THEN 1 ELSE 0

\* A row has ended when the cursor is further to the left than before the byte.
LinesAfter(con) ==
    displayBufferLineCount + IF lastXpos > con.x THEN 1 ELSE 0

\* The byte that was displayed last may be displayed again.
ShownAlso(i) ==
    IF displayed # <<>> /\ Last(displayed) = i THEN displayed ELSE Append(displayed, i)

\* One byte in the loop of DisplayBuffer.
DisplayByte ==
    /\ pc = "display" /\ bytesShown + byteIndex < Len(buffer)
    /\ console' = WriteByte(buffer[bytesShown + byteIndex + 1])
    /\ LinesAfter(console') < PageLines
    /\ displayBufferLineCount' = LinesAfter(console')
    /\ lastXpos' = console'.x
    /\ byteIndex' = byteIndex + 1
    /\ displayed' = ShownAlso(bytesShown + byteIndex)
    /\ UNCHANGED <<pc, lineVars, command, buffer, format, bytesShown, start, keys, buffers>>

\* Two faulty breaks: one does not reset the count of the lines, one counts a byte
\* too many.
PageBreakKeepsCount ==
    /\ pc = "display" /\ bytesShown + byteIndex < Len(buffer)
    /\ LET con == WriteByte(buffer[bytesShown + byteIndex + 1])
       IN  /\ LinesAfter(con) >= PageLines
           /\ console' = ConsoleWriteString(con, MoreMessage)
           /\ displayBufferLineCount' = LinesAfter(con)
    /\ bytesShown' = bytesShown + byteIndex
    /\ byteIndex' = 0
    /\ displayed' = ShownAlso(bytesShown + byteIndex)
    /\ pc' = "ask"
    /\ UNCHANGED <<lineVars, command, buffer, format, lastXpos, start, keys, buffers>>

PageBreakSkips ==
    /\ pc = "display" /\ bytesShown + byteIndex < Len(buffer)
    /\ LET con == WriteByte(buffer[bytesShown + byteIndex + 1])
       IN  /\ LinesAfter(con) >= PageLines
           /\ console' = ConsoleWriteString(con, MoreMessage)
    /\ displayBufferLineCount' = 0
    /\ bytesShown' = bytesShown + byteIndex + 2
    /\ byteIndex' = 0
    /\ displayed' = ShownAlso(bytesShown + byteIndex)
    /\ pc' = "ask"
    /\ UNCHANGED <<lineVars, command, buffer, format, lastXpos, start, keys, buffers>>

\* The byte that ends the page: DisplayBuffer returns its index, and because that is
\* less than the size the user is asked.
PageBreak ==
    /\ pc = "display" /\ bytesShown + byteIndex < Len(buffer)
    /\ LET con == WriteByte(buffer[bytesShown + byteIndex + 1])
       IN  /\ LinesAfter(con) >= PageLines
           /\ console' = ConsoleWriteString(con, MoreMessage)
    /\ displayBufferLineCount' = 0
    /\ bytesShown' = bytesShown + byteIndex
    /\ byteIndex' = 0
    /\ displayed' = ShownAlso(bytesShown + byteIndex)
    /\ pc' = "ask"
    /\ UNCHANGED <<lineVars, command, buffer, format, lastXpos, start, keys, buffers>>

\* Enter: the next call of DisplayBuffer.  Keys other than Enter and Q do nothing.
SeeMore ==
    /\ pc = "ask"
    /\ console' = Anew(console)
    /\ lastXpos' = console.x
    /\ start' = Cursor(console)
    /\ pc' = "display"
    /\ UNCHANGED <<lineVars, command, buffer, format, bytesShown, byteIndex,
                   displayBufferLineCount, displayed, keys, buffers>>

\* Q: the command ends.
Quit ==
    /\ pc = "ask"
    /\ pc' = "end"
    /\ UNCHANGED <<console, lineVars, pagerVars, start, keys, buffers>>

EndOfBuffer ==
    /\ pc = "display" /\ bytesShown + byteIndex = Len(buffer)
    /\ bytesShown' = bytesShown + byteIndex
    /\ byteIndex' = 0
    /\ pc' = "shown"
    /\ UNCHANGED <<console, lineVars, command, buffer, format, lastXpos,
                   displayBufferLineCount, displayed, start, keys, buffers>>

DisplayEntireBuffer == DisplayByte \/ PageBreak \/ SeeMore \/ Quit \/ EndOfBuffer

Next ==
    \/ WritePrompt \/ ReadStringFromKeyboard
    \/ \E b \in Buffers : read(b) \/ \E f \in {"HEX", "DEC", "CHAR"} : readdisk(b, f)
    \/ LastPart \/ EndCommand \/ cls
    \/ DisplayEntireBuffer

\* The kernel is the only thread, and the user answers the pager: weak fairness of
\* DisplayEntireBuffer, written out because one of its steps is always possible
\* in these two places and nowhere else.
Fairness == []<>(pc \notin {"display", "ask"}) \/ []<><<DisplayEntireBuffer>>_vars

Spec == Init /\ [][Next]_vars /\ Fairness

-----------------------------------------------------------------------------
(* Properties.                                                             *)

\* Every variable has its type.
TypeOK ==
    /\ pc \in {"prompt", "read", "react", "display", "ask", "shown", "end"}
    /\ console \in Screens
    /\ inputString \in [0 .. (LineLimit - 1) -> 0 .. 126] /\ pastEnd \in NotWritten .. 126
    /\ typed \in Seq(Characters) /\ cropped \in BOOLEAN
    /\ command \in {"read", "readdisk"}
    /\ buffer \in Seq(0 .. 255) /\ format \in {"HEX", "DEC", "CHAR"}
    /\ {currentCharIndex, bytesShown, byteIndex, lastXpos, displayBufferLineCount} \subseteq Nat
    /\ {start, keys, buffers} \subseteq Nat
    /\ displayed \in Seq(Nat)

\* The cell, on the screen as it is now, where the line or the page began.
StartNow == start - console.scrolled * Width

\* While a line is edited the screen ends with it: the characters it has now, in
\* the order they were typed, the cursor behind them and nothing after it; across
\* the ends of rows, in both directions, and after the screen has scrolled.
ScreenShowsLine ==
    pc = "read" /\ ~cropped =>
        /\ Cursor(console) = StartNow + Len(typed)
        /\ \A i \in Cells : i >= StartNow =>
              console.cells[i] = IF i < Cursor(console) THEN typed[i - StartNow + 1]
                                 ELSE Blank

\* The string the shell gets is what the user typed, "cropped down to 255
\* characters" (8), whatever was erased on the way and whatever earlier lines
\* left in the array.  A line of 255 characters leaves no room in the array for the
\* zero that ends it: that goes to the byte after it.
LineIsTyped ==
    pc = "react" =>
        /\ \A i \in DOMAIN typed : inputString[i - 1] = typed[i]
        /\ Len(typed) < LineLimit => inputString[Len(typed)] = 0
        /\ Len(typed) = LineLimit => pastEnd = 0

\* The pager skips no byte: it shows each one after the one before, or the last
\* one of a page again, and when it says that it is done it has shown them all.
EveryByteShown ==
    /\ \A i \in DOMAIN displayed : displayed[i] = i - 1
    /\ pc = "shown" => Len(displayed) = Len(buffer)

\* "stop the data from scrolling offscreen" (124): when the user is asked, the page
\* is still on the screen.  This is so for numbers; a newline in the first column
\* is not counted as a line.
PageStaysOnScreen == pc = "ask" /\ format # "CHAR" => StartNow >= 0

\* The pager comes to an end: each page shows something new, although a call may
\* return 0.
DisplayEnds == (pc = "display") ~> (pc \in {"shown", "end"})

=============================================================================
