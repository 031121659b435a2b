------------------------------ MODULE Fat12Disk ------------------------------
(***************************************************************************)
(* The disk as src/kernel/fat12_functions.c sees it: where the parts of a  *)
(* FAT12 volume are, and how an entry of the file allocation table is read *)
(* out of two bytes that may lie in different sectors.                     *)
(*                                                                         *)
(* A cluster is a sector, as the code assumes.  A data byte is named by    *)
(* its place; the bytes of the table are numbers.                          *)
(***************************************************************************)
EXTENDS Integers, Sequences

CONSTANTS
    BytesPerSector, ReservedSectors, NumberOfFats, SectorsPerFat,
    NumDirEntries           \* the BIOS parameter block

ASSUME BpbAssumption ==
    /\ BytesPerSector \in Nat \ {0} /\ SectorsPerFat \in Nat \ {0}
    /\ ReservedSectors \in Nat /\ NumberOfFats \in Nat \ {0} /\ NumDirEntries \in Nat
    /\ (SectorsPerFat * BytesPerSector) % 3 = 0

DirectoryEntrySize == 32

\* FsFat12_Initialise.
FATSector == ReservedSectors
rootSector == FATSector + SectorsPerFat * NumberOfFats
dataSector ==
    rootSector + ((NumDirEntries * DirectoryEntrySize + BytesPerSector - 1) \div BytesPerSector)

\* A faulty test that misses the first of the marks that end a file.
SpecialAboveFirst(n) == n > 4088 \/ n = 0

SPECIAL_CLUSTER(n) == n >= 4080 \/ n = 0

FatEntries == (SectorsPerFat * BytesPerSector * 2) \div 3
INVALID_CLUSTER(n) == n < 2 \/ n >= FatEntries

-----------------------------------------------------------------------------
(* What is on the disk: fat is the table as a function of the cluster.     *)

\* What a byte and an entry of the table may be; the clusters that have an entry.
ByteValues == 0 .. 255
EntryValues == 0 .. 4095
Clusters == 0 .. (FatEntries - 1)
Tables == [Clusters -> EntryValues]

\* Two entries of 12 bits make three bytes.
PackedByte(fat, i) ==
    LET even == fat[2 * (i \div 3)]
        odd == fat[2 * (i \div 3) + 1]
    IN  CASE i % 3 = 0 -> even % 256
          [] i % 3 = 1 -> (even \div 256) + 16 * (odd % 16)
          [] i % 3 = 2 -> odd \div 16

DataByte(sector, offset) == 256 + sector * BytesPerSector + offset

SectorByte(fat, sector, offset) ==
    IF sector \in FATSector .. (FATSector + SectorsPerFat - 1)
    THEN PackedByte(fat, (sector - FATSector) * BytesPerSector + offset)
    ELSE DataByte(sector, offset)

-----------------------------------------------------------------------------
(* Reading a link.                                                         *)

firstByteIndex(n) == (n \div 2) * 3 + (n % 2)
secondByteIndex(n) == firstByteIndex(n) + 1

SectorOfByte(index) == FATSector + (index \div BytesPerSector)

ByteAt(fat, sector, index) == SectorByte(fat, sector, index % BytesPerSector)

\* The result taken from the two bytes.
JoinBytes(n, firstByte, secondByte) ==
    IF n % 2 = 0 THEN firstByte + 256 * (secondByte % 16)
    ELSE (firstByte \div 16) + 16 * secondByte

\* FsFat12_GetFATEntry.
GetFATEntry(fat, n) ==
    LET first == firstByteIndex(n)
        second == secondByteIndex(n)
    IN  IF INVALID_CLUSTER(n) THEN 0
        ELSE JoinBytes(n, ByteAt(fat, SectorOfByte(first), first),
                          ByteAt(fat, SectorOfByte(second), second))

\* FsFat12_ReadCluster: the sector it asks the driver for, or NoSector for NULL.
NoSector == -1

ReadCluster(n) == IF INVALID_CLUSTER(n) THEN NoSector ELSE dataSector + n - 2

\* A faulty one, which follows one link too few.
GetClusterBefore(fat, firstCluster, clusterNumber) ==
    LET currentCluster[i \in 0 .. clusterNumber] ==
          IF i <= 1 THEN firstCluster
          ELSE IF i > 1 /\ SPECIAL_CLUSTER(currentCluster[i - 1]) THEN currentCluster[i - 1]
          ELSE GetFATEntry(fat, currentCluster[i - 1])
    IN  IF clusterNumber > 0 /\ SPECIAL_CLUSTER(currentCluster[clusterNumber])
        THEN NoSector ELSE ReadCluster(currentCluster[clusterNumber])

\* FsFat12_GetNextClusterOfCurrentFile: clusterNumber links from the first
\* cluster on; it gives up at a special cluster.
GetNextClusterOfCurrentFile(fat, firstCluster, clusterNumber) ==
    LET currentCluster[i \in 0 .. clusterNumber] ==
          IF i = 0 THEN firstCluster
          ELSE IF i > 1 /\ SPECIAL_CLUSTER(currentCluster[i - 1]) THEN currentCluster[i - 1]
          ELSE GetFATEntry(fat, currentCluster[i - 1])
    IN  IF clusterNumber > 0 /\ SPECIAL_CLUSTER(currentCluster[clusterNumber])
        THEN NoSector ELSE ReadCluster(currentCluster[clusterNumber])

=============================================================================
