------------------------------ MODULE MCShell ------------------------------
(* Instances of Shell: a part of the tree of src/TestDirStructure and two     *)
(* files more, one without an extension; with an empty file, and with a root  *)
(* directory that is full.                                                    *)
EXTENDS Shell, TLC

\* The characters of ASCII from 32 to 122, with "!" for those that no line has, and
\* their codes.  TLC can take a string apart.
Alphabet ==
    " !!!!!!!!!!!!-./0123456789!!!!>!!ABCDEFGHIJKLMNOPQRSTUVWXYZ!\\!!!!abcdefghijklmnopqrstuvwxyz"

Ascii(s) ==
    [i \in 1 .. Len(s) |->
        31 + CHOOSE k \in 1 .. Len(Alphabet) : SubSeq(Alphabet, k, k) = SubSeq(s, i, i)]

Entry(name, ext, isDirectory, first) ==
    [name |-> Padded(Ascii(name), 8), ext |-> Padded(Ascii(ext), 3),
     subdir |-> isDirectory, cluster |-> first]

Dots(self, parent) == << Entry(".", "", TRUE, self), Entry("..", "", TRUE, parent) >>

Deleted == [Entry("XD", "TXT", FALSE, 8) EXCEPT !.name[1] = 229]

\* /CRIM.TXT, /TESTING/INNER3, /TESTING/190SECTR.TXT, /TDIR2/TESTING/TD2TFIL.TXT, ...
Tree(inInner3) ==
    0 :> << Entry("CRIM", "TXT", FALSE, 7), Entry("TESTING", "", TRUE, 2),
            Entry("TDIR2", "", TRUE, 4) >> @@
    2 :> Dots(2, 0) \o << Entry("INNER3", "", TRUE, 3), Deleted,
                          Entry("190SECTR", "TXT", FALSE, 8) >> @@
    3 :> Dots(3, 2) \o inInner3 @@
    4 :> Dots(4, 0) \o << Entry("TESTING", "", TRUE, 5), Entry("README", "", FALSE, 8),
                          Entry("KERNEL", "C", FALSE, 9) >> @@
    5 :> Dots(5, 4) \o << Entry("TD2TFIL", "TXT", FALSE, 9) >> @@
    7 :> <<>> @@ 8 :> <<>> @@ 9 :> <<>>

Disk(entries, size) == [entries |-> entries, NumDirEntries |-> size]

MCDisks == { Disk(Tree(<<>>), 4),
             Disk(Tree(<< Entry("EMPTY", "TXT", FALSE, 0) >>), 4),
             Disk(Tree(<<>>), 3) }

Names5 == {".", "..", "TESTING", "TDIR2", "INNER3"}

\* Paths of up to three parts.
PathTexts ==
    LET relative == Names5 \cup {a \o "/" \o b : a, b \in Names5}
                    \cup {a \o "/" \o b \o "/" \o c : a, b, c \in Names5}
    IN  relative \cup {"/" \o p : p \in relative} \cup
        {"", "/", "TESTING/", "TESTING//INNER3", "testing\\inner3", "TOOLONGNAME",
         "TESTING /./.././TESTING", "TDIR2/TESTING/TD2TFIL.TXT", "TDIR2.ZIP/CRIM.TXT",
         "CRIM.TXT", "CRIM .TXT", "../CRIM.TXT", "CRIM.TXT/TESTING",
         "TESTING/190SECTR.TXT", "190SECTR.TXT", "190SECTR.TEXT", "CRIM.", ".X", "...",
         "TESTING/INNER3/EMPTY.TXT", "TESTING/INNER3/EMPTY.TXT/TDIR2",
         "TDIR2/README", "TDIR2/README.", "TDIR2/README.   ", "TDIR2/KERNEL.C  ", "KERNEL.C",
         "AVERYLONGNAMEOF19CH/TESTING", "AVERYLONGNAMEOF19CHXTESTING"}

OtherTexts ==
    {"", " ", "HELP", "CLS", "EXIT", "LS", "DIR", "PWD", "DBG", "CDX", "C", "cd", " CD TDIR2",
     "PROMPT", "PROMPT >", "PROMPT  long one",
     "READDISK", "READDISK 305", "READDISK -c 0190", "READDISK 2879 -d", "READDISK -d -c 7 ",
     "READDISK  -c  5  -d"}

MCLines == {Ascii(s) : s \in {"CD " \o p : p \in PathTexts} \cup {"READ  " \o p : p \in PathTexts}
                             \cup {"FILE CRIM.TXT"} \cup OtherTexts}

=============================================================================
