------------------------------ MODULE BootLoader ------------------------------
(***************************************************************************)
(* The boot loader up to the start of the kernel (src/boot/boot.asm,       *)
(* boot2.asm, fat12.asm, floppy16.asm): the second stage is read, then the *)
(* root directory, the tables and the file KERNEL.SYS, sector by sector    *)
(* and with retries, and the image is copied to where the kernel runs.     *)
(*                                                                         *)
(* Memory is a function from places of a sector's size to the disk sectors *)
(* read there; all addresses of the loader are multiples of that size.     *)
(* The registers of ReadSectors are variables.                             *)
(***************************************************************************)
EXTENDS Fat12Disk

CONSTANTS
    SectorsPerTrack, HeadsPerCylinder, TotalSectors,    \* the BIOS parameter block
    Attempts,           \* 5
    Memory,             \* the places of memory: 640 KB
    SecondStage,        \* 9000h
    FAT_SEG,            \* 2C00h
    ROOT_DIRECTORY,     \* 2E00h
    IMAGE_RMODE,        \* 10000h
    Segment,            \* the size of a segment, 64 KB
    Chains,             \* the clusters of KERNEL.SYS
    EndMarks,           \* what the table has for the last one
    RootEntries         \* its entry of the root directory, or -1

EntriesPerSector == BytesPerSector \div DirectoryEntrySize

\* A kernel that does not fit in a segment is loaded over its own beginning.  No
\* cluster is in the file twice, or has a number that ends files.
ASSUME BootAssumption ==
    /\ BytesPerSector % DirectoryEntrySize = 0
    /\ NumDirEntries % EntriesPerSector = 0 /\ NumDirEntries > 0
    /\ SectorsPerTrack \in Nat \ {0} /\ HeadsPerCylinder \in Nat \ {0} /\ TotalSectors \in Nat
    /\ FatEntries <= 4080
    /\ Chains \subseteq Seq(2 .. (FatEntries - 1)) \ {<<>>}
    /\ \A clusters \in Chains :
          /\ Len(clusters) <= Segment
          /\ \A i, j \in 1 .. Len(clusters) : clusters[i] = clusters[j] => i = j
    /\ EndMarks \subseteq 4088 .. 4095
    /\ RootEntries \subseteq -1 .. (NumDirEntries - 1)
    /\ Attempts \in Nat \ {0}

rootSectors == (NumDirEntries * DirectoryEntrySize) \div BytesPerSector
datasector == rootSector + rootSectors

\* Where the loader, the directory, the tables and the image are in memory.
Places(first, count) == first .. (first + count - 1)

StagePlaces == Places(SecondStage, 5)
RootPlaces == Places(ROOT_DIRECTORY, rootSectors)
TablePlaces == Places(FAT_SEG, NumberOfFats * SectorsPerFat)
ImagePlaces == Places(IMAGE_RMODE, Segment)

\* The tables may lie over the directory, and nothing else over anything else.
ASSUME MemoryAssumption ==
    /\ SecondStage \in Nat /\ FAT_SEG \in Nat /\ ROOT_DIRECTORY \in Nat /\ IMAGE_RMODE \in Nat
    /\ Segment \in Nat
    /\ StagePlaces \cup RootPlaces \cup TablePlaces \cup ImagePlaces \subseteq Memory
    /\ StagePlaces \cap (RootPlaces \cup TablePlaces \cup ImagePlaces) = {}
    /\ TablePlaces \cap ImagePlaces = {}
    /\ rootSectors <= Segment /\ NumberOfFats * SectorsPerFat <= Segment

VARIABLES
    chain, endMark, rootEntry,      \* what is on the disk: fixed
    pc, back,           \* where the loader is, where ReadSectors returns to
    ax, cx, es, bx, di, \* the arguments of ReadSectors, and its attempts left
    memory,
    cluster,            \* the variable of floppy16.asm
    imageBx,            \* the offset in the image's segment, on the stack
    ImageSize,          \* the number of sectors, on the stack and then in boot2.asm
    kernel,             \* what is at IMAGE_PMODE_BASE
    errors              \* how often the BIOS has failed to read this sector

disk == <<chain, endMark, rootEntry>>
registers == <<ax, cx, es, bx, di>>
file == <<cluster, imageBx, ImageSize>>
vars == <<disk, pc, back, registers, memory, file, kernel, errors>>

Nothing == -1

\* The table, on a sound disk; the first two entries are no clusters.
fat ==
    [n \in 0 .. (FatEntries - 1) |->
        IF \E i \in DOMAIN chain : chain[i] = n
        THEN LET i == CHOOSE j \in DOMAIN chain : chain[j] = n
             IN  IF i = Len(chain) THEN endMark ELSE chain[i + 1]
        ELSE IF n < 2 THEN 4080 ELSE 0]

ClusterToLBA(n) == (n - 2) + datasector

Init ==
    /\ chain \in Chains /\ endMark \in EndMarks /\ rootEntry \in RootEntries
    /\ pc = "stage1" /\ back = "stage1"
    /\ ax = 0 /\ cx = 0 /\ es = 0 /\ bx = 0 /\ di = 0
    /\ memory = [place \in Memory |-> Nothing]
    /\ cluster = 0 /\ imageBx = 0 /\ ImageSize = 0 /\ kernel = <<>> /\ errors = 0

-----------------------------------------------------------------------------
(* The first stage reads the second one, and does not try again.           *)

ReadSecondStage ==
    /\ pc = "stage1"
    /\ \/ /\ memory' = [place \in Memory |->
                IF place \in StagePlaces THEN place - SecondStage + 1
                ELSE memory[place]]
          /\ pc' = "root"
       \/ /\ pc' = "halted"
          /\ UNCHANGED memory
    /\ UNCHANGED <<disk, back, registers, file, kernel, errors>>

-----------------------------------------------------------------------------
(* ReadSectors.                                                            *)

\* A call: the sectors from lba on are read to the places from segment:offset on.
ReadSectors(lba, count, segment, offset, return) ==
    /\ ax' = lba /\ cx' = count /\ es' = segment /\ bx' = offset
    /\ di' = Attempts /\ errors' = 0
    /\ pc' = "read" /\ back' = return

LBAToCHS(lba) ==
    [track |-> (lba \div SectorsPerTrack) \div HeadsPerCylinder,
     head |-> (lba \div SectorsPerTrack) % HeadsPerCylinder,
     sector |-> (lba % SectorsPerTrack) + 1]

\* The sector the BIOS reads.
SectorAt(chs) ==
    (chs.track * HeadsPerCylinder + chs.head) * SectorsPerTrack + chs.sector - 1

\* A faulty success, after which the attempts go on where they were.
ReadSuccessKeepsAttempts ==
    /\ pc = "read"
    /\ SectorAt(LBAToCHS(ax)) < TotalSectors
    /\ memory' = [memory EXCEPT ![es + bx] = SectorAt(LBAToCHS(ax))]
    /\ ax' = ax + 1 /\ bx' = (bx + 1) % Segment /\ cx' = cx - 1
    /\ errors' = 0
    /\ pc' = IF cx = 1 THEN back ELSE "read"
    /\ UNCHANGED <<disk, back, es, di, file, kernel>>

\* The offset goes round at the end of the segment.
ReadSuccess ==
    /\ pc = "read"
    /\ SectorAt(LBAToCHS(ax)) < TotalSectors
    /\ memory' = [memory EXCEPT ![es + bx] = SectorAt(LBAToCHS(ax))]
    /\ ax' = ax + 1 /\ bx' = (bx + 1) % Segment /\ cx' = cx - 1
    /\ di' = Attempts /\ errors' = 0
    /\ pc' = IF cx = 1 THEN back ELSE "read"
    /\ UNCHANGED <<disk, back, es, file, kernel>>

\* A faulty retry, which begins with all attempts again.
ReadErrorForgets ==
    /\ pc = "read"
    /\ errors' = IF errors < Attempts THEN errors + 1 ELSE errors
    /\ UNCHANGED <<disk, pc, back, registers, memory, file, kernel>>

\* The BIOS reports an error; after the last one the computer boots anew.
ReadError ==
    /\ pc = "read"
    /\ di' = di - 1 /\ errors' = errors + 1
    /\ pc' = IF di = 1 THEN "reboot" ELSE "read"
    /\ UNCHANGED <<disk, back, ax, cx, es, bx, memory, file, kernel>>

AttemptRead == ReadSuccess \/ ReadError

-----------------------------------------------------------------------------
(* The second stage: the root directory, the file.                         *)

LoadRoot ==
    /\ pc = "root"
    /\ ReadSectors(rootSector, rootSectors, ROOT_DIRECTORY, 0, "find")
    /\ UNCHANGED <<disk, memory, file, kernel>>

\* Which entry of the disk's root directory is the k-th one in memory.
EntryInMemory(k) ==
    (memory[ROOT_DIRECTORY + k \div EntriesPerSector] - rootSector) * EntriesPerSector
        + (k % EntriesPerSector)

Found(k) == rootEntry # Nothing /\ EntryInMemory(k) = rootEntry

\* LoadFile finds the entry and takes the first cluster from it, before the table
\* is loaded over the directory.
LoadFile ==
    /\ pc = "find"
    /\ \E k \in 0 .. (NumDirEntries - 1) : Found(k)
    /\ cluster' = chain[1]
    /\ imageBx' = 0 /\ ImageSize' = 0
    /\ ReadSectors(FATSector, NumberOfFats * SectorsPerFat, FAT_SEG, 0, "load")
    /\ UNCHANGED <<disk, memory, kernel>>

NotFound ==
    /\ pc = "find"
    /\ ~ \E k \in 0 .. (NumDirEntries - 1) : Found(k)
    /\ pc' = "halted"
    /\ UNCHANGED <<disk, back, registers, memory, file, kernel, errors>>

LoadFile_Load ==
    /\ pc = "load"
    /\ ReadSectors(ClusterToLBA(cluster), 1, IMAGE_RMODE, imageBx, "next")
    /\ UNCHANGED <<disk, memory, file, kernel>>

\* A byte of the table in memory.
TableByte(i) ==
    SectorByte(fat, memory[FAT_SEG + i \div BytesPerSector], i % BytesPerSector)

\* A faulty link, which takes the low bits for clusters of both kinds.
LowBits(n) == TableByte((n * 3) \div 2) + 256 * (TableByte((n * 3) \div 2 + 1) % 16)

\* The word at 3/2 of the cluster, its low or its high 12 bits.
NextCluster(n) ==
    LET word == TableByte((n * 3) \div 2) + 256 * TableByte((n * 3) \div 2 + 1)
    IN  IF n % 2 = 0 THEN word % 4096 ELSE word \div 16

LoadFile_Next ==
    /\ pc = "next"
    /\ ImageSize' = ImageSize + 1
    /\ imageBx' = bx
    /\ cluster' = NextCluster(cluster)
    /\ pc' = IF cluster' < 4080 THEN "load" ELSE "loaded"
    /\ UNCHANGED <<disk, back, registers, memory, kernel, errors>>

\* ImageSize sectors are copied to the address where the kernel runs.
Initialise_PM ==
    /\ pc = "loaded"
    /\ kernel' = [i \in 1 .. ImageSize |-> memory[IMAGE_RMODE + i - 1]]
    /\ pc' = "kernel"
    /\ UNCHANGED <<disk, back, registers, memory, file, errors>>

Second_Stage ==
    \/ LoadRoot \/ LoadFile \/ NotFound \/ LoadFile_Load \/ LoadFile_Next
    \/ Initialise_PM

Next == ReadSecondStage \/ AttemptRead \/ Second_Stage

\* Nothing else runs: the processor goes on.
Spec == Init /\ [][Next]_vars /\ WF_vars(Next)

-----------------------------------------------------------------------------
(* Properties.                                                             *)

\* What is started at IMAGE_PMODE_BASE is the file, all its sectors in the order of
\* its chain, whatever had to be read again; the tables and the image have spared
\* the second stage, which still runs; and when the loader stops, the file is not
\* there or the second stage was not read.
KernelIsWhole ==
    /\ pc = "kernel" =>
          /\ kernel = [i \in DOMAIN chain |-> ClusterToLBA(chain[i])]
          /\ \A i \in 0 .. 4 : memory[SecondStage + i] = i + 1
    /\ pc = "halted" => rootEntry = Nothing \/ memory[SecondStage] = Nothing

\* "If a sector read fails, it will be attempted a total of five times" (floppy16.asm,
\* 45): the loader gives up after that many errors for one sector, no sooner and no
\* later, however many there were for sectors before it.
AttemptsRunOut ==
    /\ pc = "reboot" => errors = Attempts
    /\ pc = "read" => errors < Attempts

\* The loader starts the kernel or gives up, also when no read works.
BootEnds == <>(pc \in {"kernel", "reboot", "halted"})

=============================================================================
