------------------------------- MODULE Shell -------------------------------
(***************************************************************************)
(* The command shell (src/kernel/command.c), on top of Fat12Directory: one *)
(* action for each line the user types, which is cut into a command and    *)
(* its arguments, and runs the command.                                    *)
(***************************************************************************)
EXTENDS Fat12Directory

CONSTANTS
    Text(_),            \* the character codes of a string
    Lines,              \* the lines the user types
    PromptSize          \* the size of the array PS1: 255

\* The array PS1 is as long as a line may be, and keys give characters of ASCII.
ASSUME ShellAssumption ==
    /\ PromptSize \in Nat
    /\ Lines \subseteq Seq(1 .. 127) /\ \A line \in Lines : Len(line) <= PromptSize
    /\ Text("Command>") \in Seq(1 .. 255) /\ Len(Text("Command>")) <= PromptSize
    /\ Text("-c") = <<45, 99>> /\ Text("-d") = <<45, 100>>

VARIABLES
    running,            \* _running
    PS1,                \* the array, with its nulls
    inputString,        \* the line typed last
    ran, arguments,     \* the function called last and its arguments
    result,             \* what it has found, for the functions that look for something
    prompted            \* the last argument of prompt (not in the code)

lineVars == <<inputString, ran, arguments>>
vars == <<directoryVars, running, PS1, lineVars, result, prompted>>

Command(name, function) == [name |-> Text(name), function |-> function]

\* InitialiseCommandsArray.
commands == <<
    Command("HELP", "helpFunction"), Command("CLS", "cls"), Command("EXIT", "exit"),
    Command("PROMPT", "prompt"), Command("READDISK", "readdisk"), Command("LS", "ls"),
    Command("DIR", "ls"), Command("PWD", "pwd"), Command("CD", "cd"),
    Command("FILE", "showFileInfo"), Command("READ", "read"), Command("DBG", "dbg"),
    Command("", "incorrectFunction") >>

commandNum == Len(commands) - 1

-----------------------------------------------------------------------------
(* Cutting the line.                                                       *)

CommandOf(line) == Span(line, 0, FirstIndex(line, 0, {Nul, Space}))

ArgumentsOf(line) ==
    LET start == FirstIndex(line, Len(CommandOf(line)), (0 .. 255) \ {Space})
    IN  Span(line, start, Len(line))

\* The last entry of the table when no other matches.
FunctionOf(command) ==
    LET matches == {i \in 1 .. commandNum : strcmp(command, commands[i].name) = 0}
    IN  commands[Min(matches \cup {commandNum + 1})].function

-----------------------------------------------------------------------------
(* What the commands do.                                                   *)

\* The text that ls shows for an entry: a file has a dot and all three characters of
\* its extension, the spaces that it is padded with included.
ShownText(entry) ==
    Unpadded(entry.name) \o (IF entry.subdir THEN <<>> ELSE <<Dot>> \o entry.ext)

\* All letters upper case, and slashes for backslashes.
FormatInputString(s) ==
    [i \in DOMAIN s |-> CASE s[i] \in 97 .. 122 -> s[i] - 32
                          [] s[i] = Backslash -> Slash
                          [] OTHER -> s[i]]

\* A faulty prompt, which copies until the argument has ended.
PromptKeepsRest(argument) ==
    [j \in 1 .. PromptSize |-> IF j <= Len(argument) THEN CharAt(argument, j - 1)
                               ELSE PS1[j]]

\* Copies until both the old prompt and the new one have ended.
PromptAfter(argument) ==
    LET ends == {j \in 1 .. PromptSize : PS1[j] = Nul /\ CharAt(argument, j - 1) = Nul}
        end == Min(ends \cup {PromptSize + 1})
    IN  [j \in 1 .. PromptSize |-> IF j < end THEN CharAt(argument, j - 1) ELSE PS1[j]]

\* The options of readdisk: words with one space after each.
Words(argument) == Cut(argument, 0, Space, Len(argument) + 1, {Space})

Options == {Text("-c"), Text("-d")}

SectorToRead(argument) ==
    FoldLeft(LAMBDA sector, word : IF word \in Options THEN sector ELSE strToInt(word),
             0, Words(argument))

DisplayAs(argument) ==
    FoldLeft(LAMBDA format, word : CASE word = Text("-c") -> "CHAR"
                                     [] word = Text("-d") -> "DEC"
                                     [] OTHER -> format, "HEX", Words(argument))

\* FsFat12_Open, for the read and file commands.
Opened(path) == GetNestedDirectoryEntry(FormatInputString(path))

-----------------------------------------------------------------------------
(* The shell.                                                              *)

\* Before the first line; the arrays hold nulls where nothing was stored.
Init ==
    /\ DirectoryInit
    /\ running = TRUE
    /\ PS1 = [j \in 1 .. PromptSize |-> CharAt(Text("Command>"), j - 1)]
    /\ inputString = <<>> /\ ran = "none" /\ arguments = <<>>
    /\ result = NULL /\ prompted = Text("Command>")

exit ==
    /\ ran' = "exit"
    /\ running' = FALSE
    /\ result' = NULL
    /\ UNCHANGED <<PS1, prompted, directoryVars>>

prompt(argument) ==
    /\ ran' = "prompt"
    /\ \/ CharAt(argument, 0) = Nul /\ UNCHANGED <<PS1, prompted>>
       \/ CharAt(argument, 0) # Nul /\ PS1' = PromptAfter(argument) /\ prompted' = argument
    /\ result' = NULL
    /\ UNCHANGED <<running, directoryVars>>

readdisk(argument) ==
    /\ ran' = "readdisk"
    /\ result' = [sector |-> SectorToRead(argument), displayAs |-> DisplayAs(argument)]
    /\ UNCHANGED <<running, PS1, prompted, directoryVars>>

ls ==
    /\ ran' = "ls"
    /\ result' = DisplayedEntries
    /\ UNCHANGED <<running, PS1, prompted, directoryVars>>

cd(argument) ==
    /\ ran' = "cd"
    /\ FsFat12_ChangeDirectory(FormatInputString(argument))
    /\ result' = NULL
    /\ UNCHANGED <<running, PS1, prompted>>

\* read and showFileInfo; the reading itself is in Fat12File.
OpenCommand(argument) ==
    /\ ran' \in {"read", "showFileInfo"}
    /\ result' = Opened(argument)
    /\ strayed' = Strays(FormatInputString(argument))
    /\ UNCHANGED <<running, PS1, prompted, disk, currentDirectory, currentDirectoryName>>

\* help, cls, pwd, dbg and incorrectFunction only show something.
ShowCommand ==
    /\ ran' \in {"helpFunction", "cls", "pwd", "dbg", "incorrectFunction"}
    /\ result' = NULL
    /\ UNCHANGED <<running, PS1, prompted, directoryVars>>

\* The line that has been read.
ReactToCommand(line) ==
    /\ running /\ ran = "none"
    /\ inputString' = line /\ arguments' = ArgumentsOf(line)
    /\ ran' = FunctionOf(CommandOf(line))
    /\ \/ exit \/ prompt(arguments') \/ readdisk(arguments') \/ ls \/ cd(arguments')
       \/ OpenCommand(arguments') \/ ShowCommand

\* Run goes on: the prompt is shown, and the next line takes the place of the last.
ShowPrompt ==
    /\ running /\ ran # "none"
    /\ inputString' = <<>> /\ ran' = "none" /\ arguments' = <<>> /\ result' = NULL
    /\ UNCHANGED <<directoryVars, running, PS1, prompted>>

\* Nothing is claimed of what comes after a path that has left the tree.
Next ==
    \/ \E line \in Lines : ReactToCommand(line)
    \/ ~strayed /\ ShowPrompt

Spec == Init /\ [][Next]_vars

-----------------------------------------------------------------------------
(* Properties.                                                             *)

\* The prompt on the screen is the last one the user gave, however long the ones
\* before it were: PS1 is overwritten in place.
PromptIsLastGiven == Span(PS1, 0, FirstIndex(PS1, 0, {Nul})) = prompted

Digits == 48 .. 57

NumberPlaces(line) == {i \in 1 .. Len(line) : line[i] \in Digits}

\* Between two spaces, or the ends of the line.
IsWord(line, i, j) ==
    /\ 1 <= i /\ i <= j /\ j <= Len(line) /\ \A k \in i .. j : line[k] # Space
    /\ i > 1 => line[i - 1] = Space
    /\ j < Len(line) => line[j + 1] = Space

\* One number or none, options, and no two spaces after one another.
OneNumber(line) ==
    /\ \A i, j \in 1 .. Len(line) :
          IsWord(line, i, j) => SubSeq(line, i, j) \in Options \/ i .. j = NumberPlaces(line)
    /\ \A i \in 1 .. (Len(line) - 1) : line[i] # Space \/ line[i + 1] # Space

\* What is left of a number after so many divisions by ten.
Left(number, size) ==
    LET left[k \in 0 .. size] == IF k = 0 THEN number ELSE left[k - 1] \div 10 IN left

\* readdisk reads the sector whose number is in the line, wherever the options are: its
\* last digit is the last one typed, and so on, and no other is left; so that it is
\* sector 0 when there is no number ("default to sector 0", command.c:184).
SectorReadIsTyped ==
    LET typed == NumberPlaces(arguments)
        left == Left(result.sector, Cardinality(typed))
    IN  ran = "readdisk" /\ OneNumber(arguments) =>
            /\ left[Cardinality(typed)] = 0
            /\ \A i \in typed : arguments[i] - 48 = left[Max(typed) - i] % 10

\* The name of an entry as a user writes it: no spaces, and no dot without an extension.
NameText(entry) ==
    Unpadded(entry.name) \o (IF Unpadded(entry.ext) = <<>> THEN <<>>
                             ELSE <<Dot>> \o Unpadded(entry.ext))

\* The reference: the tree of directories read from the root, through entries
\* that are directories and bear names, "." and ".." left out.
Missing == [invalidDirectory EXCEPT !.cluster = -1]

Step(entry, text) ==
    LET entries == Entries(entry.cluster)
        matches == {i \in 1 .. Len(entries) : NameText(entries[i]) = text}
    IN  IF entry.subdir /\ matches # {} THEN entries[Min(matches)] ELSE Missing

Walk(names) == FoldLeft(Step, rootDirectory, names)

Names(path) == Cut(path, Start(path), Slash, 255, {Slash})

\* The parts that the text of a path names from the root, without a look at the disk.
NamesStep(names, n) ==
    CASE n = <<Dot>> -> names
      [] n = <<Dot, Dot>> -> Front(names)
      [] OTHER -> Append(names, Unpadded(n))

FullPath(path) ==
    FoldLeft(NamesStep, IF Start(path) = 1 THEN <<>> ELSE Names(currentDirectoryName),
             Names(path))

\* "update the current working directory string to match this new directory"
\* (fat12_functions.c:372): the string of pwd, edited from the text of each path,
\* and the cluster, found through the entries on the disk, "." and ".." included,
\* always name the same directory; unless a path has gone through a file that is
\* empty, or past the end of a root directory that is full.  The string is cut every
\* 8 characters, so that directories may not have an extension and more of them.
PwdNamesCurrentDirectory ==
    ~strayed => Walk(Names(currentDirectoryName)).cluster = currentDirectory.cluster

\* Spaces before the dot are no part of the name that is looked for: "CRIM  .TXT" is
\* CRIM.TXT.
SpaceBeforeDot(n) == \E i, j \in 1 .. Len(n) : i < j /\ n[i] = Space /\ n[j] = Dot

\* A relative path opens what the path that pwd shows, continued with it, names
\* from the root: the text of a path and the entries for "." and ".." that it is
\* followed through agree.
OpenFollowsPwd ==
    LET path == FormatInputString(arguments)
    IN  /\ ran \in {"read", "showFileInfo"} /\ ~strayed /\ result # invalidDirectory
        /\ \A i \in DOMAIN Names(path) : ~SpaceBeforeDot(Names(path)[i])
        => Walk(FullPath(path)).cluster = result.cluster

\* A file without an extension: ls shows a dot and three spaces after its name.
HasNoExtension(entry) == ~entry.subdir /\ Unpadded(entry.ext) = <<>>

\* What ls shows of the directory can be opened, under its name and under the text that
\* is shown, spaces included: the name cut out of a path and the name on the disk agree
\* at every length.  Except that the text shown for a file without an extension is
\* refused (a dot that a space follows, fat12_functions.c:240), and that ls shows
\* deleted entries as well (DELETED_FILENAME is not used).
ListedEntriesOpen ==
    ran = "ls" =>
        \A entry \in ToSet(result) \cap ToSet(Entries(currentDirectory.cluster)) :
            \/ DELETED_FILENAME(entry)
            \/ /\ Opened(NameText(entry)) = entry
               /\ Opened(ShownText(entry)) = IF HasNoExtension(entry) THEN invalidDirectory
                                             ELSE entry

=============================================================================
