--------------------------- MODULE Fat12Directory ---------------------------
(***************************************************************************)
(* The current directory (src/kernel/fat12_functions.c): the cd command    *)
(* follows a path through the directories of the disk, and edits the       *)
(* string that pwd shows beside it, from the text of the same path.        *)
(*                                                                         *)
(* The text of a path is cut in two places, by different rules, and each   *)
(* part is made a name of 8 and an extension of 3 characters: that is what *)
(* the properties are about, and so the model has the characters.          *)
(***************************************************************************)
EXTENDS CStrings

CONSTANTS
    Disks               \* [entries, NumDirEntries]: entries is, for the first
                        \* cluster of each directory or file, the sequence of
                        \* its entries, those of the root directory for 0.
                        \* The text of a file matches no name: no entries.

VARIABLES
    disk,               \* fixed
    currentDirectory,   \* the entry [name, ext, subdir, cluster]
    currentDirectoryName,
    strayed             \* a path has left the tree of directories (not in the code)

directoryVars == <<disk, currentDirectory, currentDirectoryName, strayed>>

NULL == <<>>
rootDirectory == [name |-> Padded(<<Slash>>, 8), ext |-> Padded(<<>>, 3),
                  subdir |-> TRUE, cluster |-> 0]
invalidDirectory == [name |-> <<>>, ext |-> <<>>, subdir |-> FALSE, cluster |-> 0]
DELETED_FILENAME(entry) == Head(entry.name) = 229

FirstDataCluster == 2

\* Names on the disk are characters and then spaces; those of a path are formatted, and
\* end with a dot, a slash or a space.  "." and ".." are directories' own.
NameCharacters == (1 .. 255) \ ({Space, Dot, Slash, Backslash} \cup 97 .. 122)

Stored(text, size) ==
    /\ Len(text) = size
    /\ \E n \in 0 .. size : \A i \in 1 .. size :
           IF i <= n THEN text[i] \in NameCharacters ELSE text[i] = Space

WellNamed(entry) ==
    \/ Stored(entry.name, 8) /\ entry.name[1] # Space /\ Stored(entry.ext, 3)
    \/ entry.name \in {Padded(<<Dot>>, 8), Padded(<<Dot, Dot>>, 8)} /\ entry.ext = Padded(<<>>, 3)

EntriesOf(d) ==
    [name : Seq(0 .. 255), ext : Seq(0 .. 255), subdir : BOOLEAN, cluster : DOMAIN d.entries]

\* A disk as it is formatted and written: entries with names of their own.
ASSUME DirectoryAssumption ==
    \A d \in Disks :
        /\ {0, FirstDataCluster} \subseteq DOMAIN d.entries
        /\ d.NumDirEntries \in Nat /\ Len(d.entries[0]) <= d.NumDirEntries
        /\ \A c \in DOMAIN d.entries :
             /\ d.entries[c] \in Seq(EntriesOf(d))
             /\ \A i \in 1 .. Len(d.entries[c]) : WellNamed(d.entries[c][i])
             /\ \A i, j \in 1 .. Len(d.entries[c]) :
                  /\ d.entries[c][i].name = d.entries[c][j].name
                  /\ d.entries[c][i].ext = d.entries[c][j].ext
                  => i = j \/ DELETED_FILENAME(d.entries[c][i])

\* Directories have no extension.  "." and ".." are the directories that they are on
\* every disk, and the root directory has neither.
IsDots(entry) == Head(entry.name) = Dot

DotsPoint(d, entry, parent) ==
    \A j \in 1 .. Len(d.entries[entry.cluster]) :
        LET dots == d.entries[entry.cluster][j]
        IN  /\ dots.name = Padded(<<Dot>>, 8) => dots.cluster = entry.cluster
            /\ dots.name = Padded(<<Dot, Dot>>, 8) => dots.cluster = parent

ASSUME TreeAssumption ==
    \A d \in Disks : \A c \in DOMAIN d.entries : \A i \in 1 .. Len(d.entries[c]) :
        LET entry == d.entries[c][i]
        IN  /\ IsDots(entry) => c # 0 /\ entry.subdir
            /\ entry.subdir => entry.ext = Padded(<<>>, 3)
            /\ entry.subdir /\ ~IsDots(entry) /\ ~DELETED_FILENAME(entry) =>
                   DotsPoint(d, entry, c)

-----------------------------------------------------------------------------
(* The text of names.                                                      *)

\* A faulty one, which has no room for the eighth character.
ExtractShortName(nameAndExt) ==
    LET length == FirstIndex(nameAndExt, 0, {Nul, Slash, Dot, Space})
    IN  IF length >= 8 THEN NULL ELSE Padded(Span(nameAndExt, 0, length), 8)

\* Up to 8 characters before the extension; "." and ".." are the only names that
\* start with a dot.
ExtractFileName(nameAndExt) ==
    LET length == IF CharAt(nameAndExt, 0) # Dot
                  THEN FirstIndex(nameAndExt, 0, {Nul, Slash, Dot, Space})
                  ELSE IF CharAt(nameAndExt, 1) = Dot THEN 2 ELSE 1
        isDots == CharAt(nameAndExt, 0) = Dot
    IN  IF length >= 9 \/ (isDots /\ CharAt(nameAndExt, length) \notin {Nul, Slash})
        THEN NULL ELSE Padded(Span(nameAndExt, 0, length), 8)

\* Up to 3 characters after the dot, which must be one of the first nine; without
\* a dot the extension is blank.
ExtractFileExtension(nameAndExt) ==
    LET dots == CHOOSE i \in 0 .. Len(nameAndExt) :
                    /\ CharAt(nameAndExt, i) # Dot
                    /\ \A j \in 0 .. (i - 1) : CharAt(nameAndExt, j) = Dot
        end == FirstIndex(nameAndExt, dots, {Nul, Slash, Dot})
        start == end + 1
        length == FirstIndex(nameAndExt, start, {Nul, Slash}) - start
    IN  IF end >= 9 THEN NULL
        ELSE IF CharAt(nameAndExt, end) # Dot THEN Padded(<<>>, 3)
        ELSE IF CharAt(nameAndExt, start) \in {Nul, Slash, Space} \/ length >= 4 THEN NULL
        ELSE Padded(Span(nameAndExt, start, start + length), 3)

Start(path) == IF CharAt(path, 0) = Slash THEN 1 ELSE 0

-----------------------------------------------------------------------------
(* Following a path.                                                       *)

Entries(cluster) == disk.entries[cluster]

\* FsFat12_GetDirectoryEntryByIndex: past the last entry, of the last cluster or
\* before it, the entry is invalid.  Nothing ends a root directory that is full:
\* the entries after it are read from the first data cluster.
GetDirectoryEntryByIndex(dirIndex, cluster) ==
    LET beyond == dirIndex - disk.NumDirEntries
    IN  IF dirIndex < Len(Entries(cluster)) THEN Entries(cluster)[dirIndex + 1]
        ELSE IF cluster = 0 /\ beyond >= 0 /\ Len(Entries(0)) = disk.NumDirEntries
                            /\ beyond < Len(Entries(FirstDataCluster))
             THEN Entries(FirstDataCluster)[beyond + 1]
        ELSE invalidDirectory

\* The index of the first entry that a scan from the first one on stops at: the
\* invalid one at the latest.
ScanStop(cluster, Stops(_)) ==
    CHOOSE i \in 0 .. (Len(Entries(cluster)) + Len(Entries(FirstDataCluster))) :
        LET StopsAt(j) == LET entry == GetDirectoryEntryByIndex(j, cluster)
                          IN  entry = invalidDirectory \/ Stops(entry)
        IN  StopsAt(i) /\ \A j \in 0 .. (i - 1) : ~StopsAt(j)

\* FsFat12_GetDirectoryEntryWithName.
GetDirectoryEntryWithName(directoryEntry, cluster) ==
    LET entryName == ExtractFileName(directoryEntry)
        extension == ExtractFileExtension(directoryEntry)
        Matches(entry) == /\ strncmp(entryName, entry.name, 8) = 0
                          /\ strncmp(extension, entry.ext, 3) = 0
    IN  IF entryName = NULL \/ extension = NULL THEN invalidDirectory
        ELSE GetDirectoryEntryByIndex(ScanStop(cluster, Matches), cluster)

\* FsFat12_GetNestedDirectoryEntry: nothing asks whether an entry on the way is
\* a directory.
Descend(entry, name) ==
    IF entry = invalidDirectory THEN invalidDirectory
    ELSE GetDirectoryEntryWithName(name, entry.cluster)

PathParts(path) == Cut(path, Start(path), Slash, 19, 1 .. 255)
StartDirectory(path) == IF Start(path) = 1 THEN rootDirectory ELSE currentDirectory

\* A faulty search, which starts at the root whatever the path.
GetEntryFromRoot(path) == FoldLeft(Descend, rootDirectory, PathParts(path))

GetNestedDirectoryEntry(path) == FoldLeft(Descend, StartDirectory(path), PathParts(path))

-----------------------------------------------------------------------------
(* The string.                                                             *)

\* UpdateCurrentDirName, for a piece of 8 characters.
UpdateCurrentDirName(directoryName, piece) ==
    LET separators == {i \in 1 .. (Len(directoryName) - 1) : CharAt(directoryName, i) = Slash}
        separator == IF Last(directoryName) = Slash THEN <<>> ELSE <<Slash>>
    IN  CASE piece = Padded(<<Dot>>, 8) -> directoryName
          [] piece = Padded(<<Dot, Dot>>, 8) ->
                 SubSeq(directoryName, 1, Max(separators \cup {1}))
          [] OTHER -> directoryName \o separator \o Unpadded(piece)

Pieces(path) ==
    LET parts == Cut(path, Start(path), Slash, 8, {Slash})
    IN  [i \in DOMAIN parts |-> Padded(parts[i], 8)]

\* A faulty one, which appends absolute paths as well.
SetPathWithoutReset(path) ==
    FoldLeft(UpdateCurrentDirName, currentDirectoryName, Pieces(path))

SetCurrentDirPath(path) ==
    FoldLeft(UpdateCurrentDirName,
             IF Start(path) = 1 THEN <<Slash>> ELSE currentDirectoryName, Pieces(path))

-----------------------------------------------------------------------------
(* The commands.  One that fails shows a message and changes nothing.      *)

\* A step of the path that leaves the tree: below an entry that is not a directory,
\* or to one that is not in the directory it was looked for in.
Strays(path) ==
    LET parts == PathParts(path)
        entry[i \in 0 .. Len(parts)] ==
            IF i = 0 THEN StartDirectory(path) ELSE Descend(entry[i - 1], parts[i])
    IN  \E i \in DOMAIN parts :
            /\ entry[i] # invalidDirectory
            /\ ~entry[i - 1].subdir \/ entry[i] \notin ToSet(Entries(entry[i - 1].cluster))

\* FsFat12_Initialise.
DirectoryInit ==
    /\ disk \in Disks
    /\ currentDirectory = rootDirectory
    /\ currentDirectoryName = <<Slash>>
    /\ strayed = FALSE

FsFat12_ChangeDirectory(newDirectory) ==
    LET resultingEntry == GetNestedDirectoryEntry(newDirectory)
    IN  /\ IF resultingEntry = invalidDirectory \/ ~resultingEntry.subdir
           THEN UNCHANGED <<currentDirectory, currentDirectoryName, strayed>>
           ELSE /\ currentDirectory' = resultingEntry
                /\ currentDirectoryName' = SetCurrentDirPath(newDirectory)
                /\ strayed' = Strays(newDirectory)
        /\ UNCHANGED disk

\* FsFat12_DisplayAllCurrentDirectoryEntries: up to the invalid entry, deleted ones
\* as well.
DisplayedEntries ==
    [i \in 1 .. ScanStop(currentDirectory.cluster, LAMBDA entry : FALSE) |->
        GetDirectoryEntryByIndex(i - 1, currentDirectory.cluster)]

=============================================================================
