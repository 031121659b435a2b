------------------------------ MODULE Fat12File ------------------------------
(***************************************************************************)
(* Reading a file (FsFat12_Open, FsFat12_Read, FsFat12_Close of            *)
(* src/kernel/fat12_functions.c, called by the read command until Eof).    *)
(*                                                                         *)
(* The floppy driver has one buffer: the sector that holds the file's data *)
(* and the sectors of the table are read into the same 512 bytes, so that  *)
(* every pointer into it is good until the next read only.  The state has  *)
(* that buffer, and a step for each read.  A read may fail, as the driver  *)
(* allows (SectorReader): a seek that fails gives a null pointer, from     *)
(* which the callers read all the same; a transfer that fails leaves the   *)
(* buffer as it was; and the driver takes the sector for present.          *)
(***************************************************************************)
EXTENDS Fat12Disk, SequencesExt

CONSTANTS
    Chains,             \* the cluster chains the file may have
    EndMarks,           \* what the table has for the last cluster of a chain:
                        \* 0xFF8 and above on a sound disk
    OtherEntry,         \* what it has for the clusters of other files
    JunkBytes,          \* what is found for a byte of the table when the table is
                        \* not where it is looked for
    Lengths,            \* the lengths callers pass to FsFat12_Read
    MaxStream,          \* bound: no call once so many bytes have been read
    MaxFailures         \* bound: the reads of the disk that fail

\* No file has a cluster twice, and no cluster has a number that SPECIAL_CLUSTER
\* takes for a mark.
ASSUME FileAssumption ==
    /\ Chains \subseteq Seq(2 .. (FatEntries - 1)) \ {<<>>}
    /\ \A file \in Chains : \A i, j \in 1 .. Len(file) : file[i] = file[j] => i = j
    /\ FatEntries <= 4080
    /\ EndMarks \subseteq EntryValues /\ OtherEntry \in EntryValues
    /\ JunkBytes \subseteq ByteValues /\ JunkBytes # {}
    /\ Lengths \subseteq Nat \ {0} /\ MaxStream \in Nat /\ MaxFailures \in Nat

VARIABLES
    chain, fat,         \* the file's clusters and the table: fixed
    pc,                 \* where FsFat12_Read is; "returned" outside of it
    CurrentCluster, Position, Eof,          \* the FILE
    length, totalRead,  \* the argument and the result of FsFat12_Read
    buffer,             \* the caller's buffer
    dmaBuffer,          \* the sector whose contents are in the driver's buffer
    lastReadSector,     \* the driver's: the sector it takes for read
    nullPointer,        \* the read made last has returned NULL
    failures,           \* the reads of the disk that have failed
    firstByte,          \* the local variable of FsFat12_GetFATEntry
    stream              \* everything FsFat12_Read has copied since the file was
                        \* opened

diskVars == <<chain, fat>>
FILEVars == <<CurrentCluster, Position, Eof>>
driverVars == <<dmaBuffer, lastReadSector, nullPointer, failures>>
vars == <<diskVars, pc, FILEVars, length, totalRead, buffer, driverVars, firstByte, stream>>

\* The table a formatting tool writes for a file with this chain.
TableFor(clusters, endMark) ==
    [n \in Clusters |->
        IF \E i \in DOMAIN clusters : clusters[i] = n
        THEN LET i == CHOOSE j \in DOMAIN clusters : clusters[j] = n
             IN  IF i = Len(clusters) THEN endMark ELSE clusters[i + 1]
        ELSE OtherEntry]

\* FsFat12_Open, for a file that is not empty.
Init ==
    /\ chain \in Chains
    /\ \E endMark \in EndMarks : fat = TableFor(chain, endMark)
    /\ pc = "returned"
    /\ CurrentCluster = Head(chain) /\ Position = 0 /\ Eof = FALSE
    /\ length = 0 /\ totalRead = 0 /\ buffer = <<>> /\ stream = <<>>
    /\ dmaBuffer = rootSector /\ lastReadSector = rootSector
    /\ nullPointer = FALSE /\ failures = 0 /\ firstByte = 0

-----------------------------------------------------------------------------
(* Reading a sector.                                                       *)

\* FloppyDriveReadSector: the sector read last is not read again; the others are, or
\* the seek or the transfer fails.
FloppyDriveReadSector(lba) ==
    /\ lastReadSector' = lba
    /\ \/ lba = lastReadSector /\ nullPointer' = FALSE /\ UNCHANGED <<dmaBuffer, failures>>
       \/ /\ lba # lastReadSector
          /\ \/ dmaBuffer' = lba /\ nullPointer' = FALSE /\ UNCHANGED failures
             \/ /\ failures < MaxFailures /\ failures' = failures + 1
                /\ nullPointer' \in BOOLEAN /\ UNCHANGED dmaBuffer

\* What a byte of the table may be read as, from the pointer of the last read.
TableByte(index) ==
    IF nullPointer \/ dmaBuffer \notin FATSector .. (FATSector + SectorsPerFat - 1)
    THEN JunkBytes ELSE {ByteAt(fat, dmaBuffer, index)}

-----------------------------------------------------------------------------
(* The calls.                                                              *)

\* The read command calls FsFat12_Read as long as Eof is not set.
Call(n) ==
    /\ pc = "returned" /\ ~Eof
    /\ Len(stream) < MaxStream
    /\ length' = n /\ totalRead' = 0 /\ buffer' = <<>>
    /\ pc' = "cluster"
    /\ UNCHANGED <<diskVars, FILEVars, driverVars, firstByte, stream>>

FsFat12_ReadCluster ==
    /\ pc = "cluster"
    /\ \/ /\ INVALID_CLUSTER(CurrentCluster)
          /\ nullPointer' = TRUE
          /\ UNCHANGED <<dmaBuffer, lastReadSector, failures>>
       \/ /\ ~INVALID_CLUSTER(CurrentCluster)
          /\ FloppyDriveReadSector(ReadCluster(CurrentCluster))
    /\ pc' = "copy"
    /\ UNCHANGED <<diskVars, FILEVars, length, totalRead, buffer, firstByte, stream>>

\* What the pointer FsFat12_ReadCluster returned points to: the driver's buffer,
\* or for NULL the start of memory.
PointedTo(offset) ==
    IF nullPointer THEN NoSector - offset
    ELSE SectorByte(fat, dmaBuffer, offset)

\* The part of the cluster that the file position and the length leave.
amountToRead ==
    LET remainingDist == length - totalRead
    IN  IF Position + remainingDist < BytesPerSector THEN remainingDist
        ELSE BytesPerSector - Position

CopyData ==
    /\ pc = "copy"
    /\ LET data == [i \in 1 .. amountToRead |-> PointedTo(Position + i - 1)]
       IN  buffer' = buffer \o data /\ stream' = stream \o data
    /\ Position' = Position + amountToRead
    /\ totalRead' = totalRead + amountToRead
    /\ pc' = IF Position' >= BytesPerSector THEN "link" ELSE "check"
    /\ UNCHANGED <<diskVars, CurrentCluster, Eof, length, driverVars, firstByte>>

\* FsFat12_GetFATEntry, up to the reading of the first byte ...
ReadFirstSector ==
    /\ pc = "link" /\ ~INVALID_CLUSTER(CurrentCluster)
    /\ FloppyDriveReadSector(SectorOfByte(firstByteIndex(CurrentCluster)))
    /\ pc' = "first"
    /\ UNCHANGED <<diskVars, FILEVars, length, totalRead, buffer, firstByte, stream>>

\* A faulty one, which looks for the second byte in the sector of the first.
ReadNoSecondSector ==
    /\ pc = "first"
    /\ firstByte' \in TableByte(firstByteIndex(CurrentCluster))
    /\ pc' = "second"
    /\ UNCHANGED <<diskVars, FILEVars, length, totalRead, buffer, driverVars, stream>>

\* ... from there to the reading of the second, which may be in the next sector ...
ReadSecondSector ==
    /\ pc = "first"
    /\ firstByte' \in TableByte(firstByteIndex(CurrentCluster))
    /\ LET secondSector == SectorOfByte(secondByteIndex(CurrentCluster))
       IN  IF secondSector = SectorOfByte(firstByteIndex(CurrentCluster))
           THEN UNCHANGED driverVars
           ELSE FloppyDriveReadSector(secondSector)
    /\ pc' = "second"
    /\ UNCHANGED <<diskVars, FILEVars, length, totalRead, buffer, stream>>

\* A faulty one, which does not go back to the start of the cluster.
PositionKept ==
    /\ pc = "second"
    /\ \E secondByte \in TableByte(secondByteIndex(CurrentCluster)) :
           CurrentCluster' = JoinBytes(CurrentCluster, firstByte, secondByte)
    /\ pc' = "check"
    /\ UNCHANGED <<diskVars, Position, Eof, length, totalRead, buffer, driverVars, firstByte,
                   stream>>

\* ... and to its end; FsFat12_Read goes to the start of the next cluster.
FollowLink ==
    /\ pc = "second"
    /\ \E secondByte \in TableByte(secondByteIndex(CurrentCluster)) :
           CurrentCluster' = JoinBytes(CurrentCluster, firstByte, secondByte)
    /\ Position' = Position - BytesPerSector
    /\ pc' = "check"
    /\ UNCHANGED <<diskVars, Eof, length, totalRead, buffer, driverVars, firstByte, stream>>

\* A cluster number that the table cannot have links to 0.
InvalidLink ==
    /\ pc = "link" /\ INVALID_CLUSTER(CurrentCluster)
    /\ CurrentCluster' = 0
    /\ Position' = Position - BytesPerSector
    /\ pc' = "check"
    /\ UNCHANGED <<diskVars, Eof, length, totalRead, buffer, driverVars, firstByte, stream>>

\* A faulty end of the file that leaves the rest of the buffer as it was.
EndWithoutZeros ==
    /\ pc = "check" /\ SPECIAL_CLUSTER(CurrentCluster)
    /\ Eof' = TRUE
    /\ pc' = "returned"
    /\ UNCHANGED <<diskVars, CurrentCluster, Position, length, totalRead, buffer, driverVars,
                   firstByte, stream>>

\* The end of the loop's body and its condition.
EndOfChain ==
    /\ pc = "check" /\ SPECIAL_CLUSTER(CurrentCluster)
    /\ Eof' = TRUE
    /\ buffer' = buffer \o [i \in 1 .. (length - totalRead) |-> 0]
    /\ pc' = "returned"
    /\ UNCHANGED <<diskVars, CurrentCluster, Position, length, totalRead, driverVars,
                   firstByte, stream>>

\* A faulty condition of the loop, which goes on when there is nothing left to read.
NextPartWithoutEnd ==
    /\ pc = "check" /\ ~SPECIAL_CLUSTER(CurrentCluster)
    /\ pc' = IF totalRead <= length THEN "cluster" ELSE "returned"
    /\ UNCHANGED <<diskVars, FILEVars, length, totalRead, buffer, driverVars, firstByte,
                   stream>>

NextPart ==
    /\ pc = "check" /\ ~SPECIAL_CLUSTER(CurrentCluster)
    /\ pc' = IF totalRead < length THEN "cluster" ELSE "returned"
    /\ UNCHANGED <<diskVars, FILEVars, length, totalRead, buffer, driverVars, firstByte,
                   stream>>

FsFat12_Read ==
    \/ FsFat12_ReadCluster \/ CopyData
    \/ ReadFirstSector \/ ReadSecondSector \/ FollowLink \/ InvalidLink
    \/ EndOfChain \/ NextPart

Next == (\E n \in Lengths : Call(n)) \/ FsFat12_Read

\* A call runs to its end; the floppy driver answers (FloppyDisk!ReadsReturn).
Spec == Init /\ [][Next]_vars /\ WF_vars(FsFat12_Read)

-----------------------------------------------------------------------------
(* Properties.                                                             *)

\* What the chain holds, cluster after cluster.
ChainBytes ==
    [k \in 1 .. (Len(chain) * BytesPerSector) |->
        DataByte(dataSector + chain[(k - 1) \div BytesPerSector + 1] - 2,
                 (k - 1) % BytesPerSector)]

\* The chain ends as the format requires.
SoundTable == fat[Last(chain)] >= 4088

\* Every variable has its type.
TypeOK ==
    /\ chain \in Chains /\ fat \in Tables
    /\ pc \in {"returned", "cluster", "copy", "link", "first", "second", "check"}
    /\ CurrentCluster \in EntryValues /\ Position \in 0 .. BytesPerSector /\ Eof \in BOOLEAN
    /\ length \in Lengths \cup {0} /\ totalRead \in 0 .. length
    /\ buffer \in Seq(Int) /\ stream \in Seq(Int)
    /\ dmaBuffer \in Nat /\ lastReadSector \in Nat
    /\ nullPointer \in BOOLEAN /\ failures \in 0 .. MaxFailures
    /\ firstByte \in ByteValues

\* As long as no read of the disk fails, successive calls, of any lengths, deliver
\* the bytes of the chain in order, each one once: although the links are read into
\* the buffer that the data is copied from, and a link's two bytes may be in two
\* sectors.
ReadsFollowChain == SoundTable /\ failures = 0 => IsPrefix(stream, ChainBytes)

\* Eof tells the caller the truth: it is set by the call that delivers the last
\* byte of the chain, and by no earlier one, even when that byte is the last one
\* the caller asked for.
EofAtEndOfChain ==
    SoundTable /\ failures = 0 /\ pc = "returned" => (Eof <=> Len(stream) = Len(ChainBytes))

\* A call fills the caller's buffer and never more than it: the data, then zeros,
\* and zeros only at the end of the file.  This depends neither on the table nor on
\* the disk: it holds for a chain that ends in a cluster number out of range, or in
\* a cycle, and when bytes are taken from a null pointer or for another sector's.
BufferIsFilled ==
    pc = "returned" => /\ Len(buffer) = length
                       /\ totalRead < length => Eof
                       /\ \A i \in (totalRead + 1) .. length : buffer[i] = 0

\* The n-th cluster of a file, which directory scans ask for again and again from
\* the first one, is the n-th of its chain, and NULL past the end.
NthClusterFound ==
    SoundTable => \A n \in 0 .. (Len(chain) + 1) :
        GetNextClusterOfCurrentFile(fat, Head(chain), n) =
            IF n < Len(chain) THEN dataSector + chain[n + 1] - 2 ELSE NoSector

\* Every call returns, whatever it reads: each turn of the loop copies something.
ReadReturns == (pc = "cluster") ~> (pc = "returned")

=============================================================================
