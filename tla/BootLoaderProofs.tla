--------------------------- MODULE BootLoaderProofs ---------------------------
(***************************************************************************)
(* Theorems about BootLoader, for every disk, every layout of memory and   *)
(* every number of attempts.                                               *)
(***************************************************************************)
EXTENDS BootLoader, TLAPS

-----------------------------------------------------------------------------
(* Arithmetic.                                                             *)

LEMMA DivMod ==
    ASSUME NEW a \in Nat, NEW b \in Nat \ {0}
    PROVE  /\ a \div b \in Nat /\ a % b \in 0 .. (b - 1)
           /\ a = b * (a \div b) + (a % b)
    BY SMT

LEMMA DivUnique ==
    ASSUME NEW m \in Nat, NEW b \in Nat \ {0}, NEW r \in 0 .. (b - 1)
    PROVE  (b * m + r) \div b = m /\ (b * m + r) % b = r
    BY SMT

LEMMA DivBound ==
    ASSUME NEW a \in Nat, NEW b \in Nat \ {0}, NEW s \in Nat, a < s * b
    PROVE  a \div b < s
    BY SMT

\* The entries are in pairs of three bytes.
LEMMA Pairs == \E k \in Nat : SectorsPerFat * BytesPerSector = 3 * k /\ FatEntries = 2 * k
<1> DEFINE size == SectorsPerFat * BytesPerSector
<1>1. size \in Nat
    BY BpbAssumption
<1>2. size % 3 = 0
    BY BpbAssumption
<1>3. PICK k \in Nat : size = 3 * k
    BY <1>1, <1>2, SMT
<1>4. FatEntries = (size * 2) \div 3
    BY DEF FatEntries
<1> HIDE DEF size
<1>5. (size * 2) \div 3 = 2 * k
    BY <1>1, <1>3, SMT
<1> QED
    BY <1>3, <1>4, <1>5 DEF size

-----------------------------------------------------------------------------
(* Entries of the table.                                                   *)

\* The three bytes of a pair.
LEMMA PackedBytes ==
    ASSUME NEW f \in Tables, NEW m \in Nat, 2 * m < FatEntries
    PROVE  /\ f[2 * m] \in EntryValues /\ f[2 * m + 1] \in EntryValues
           /\ PackedByte(f, 3 * m) = f[2 * m] % 256
           /\ PackedByte(f, 3 * m + 1) = (f[2 * m] \div 256) + 16 * (f[2 * m + 1] % 16)
           /\ PackedByte(f, 3 * m + 2) = f[2 * m + 1] \div 16
<1>1. PICK k \in Nat : FatEntries = 2 * k
    BY Pairs
<1>2. 2 * m \in Clusters /\ 2 * m + 1 \in Clusters
    BY <1>1 DEF Clusters
<1>3. f[2 * m] \in EntryValues /\ f[2 * m + 1] \in EntryValues
    BY <1>2 DEF Tables
<1>4. /\ (3 * m) \div 3 = m /\ (3 * m + 1) \div 3 = m /\ (3 * m + 2) \div 3 = m
      /\ (3 * m) % 3 = 0 /\ (3 * m + 1) % 3 = 1 /\ (3 * m + 2) % 3 = 2
    BY SMT
<1> QED
    BY <1>3, <1>4 DEF PackedByte

LEMMA ByteRange ==
    ASSUME NEW f \in Tables, NEW i \in Nat, i < SectorsPerFat * BytesPerSector
    PROVE  PackedByte(f, i) \in ByteValues
<1> DEFINE m == i \div 3
<1>1. PICK k \in Nat : SectorsPerFat * BytesPerSector = 3 * k /\ FatEntries = 2 * k
    BY Pairs
<1>2. m \in Nat /\ (i = 3 * m \/ i = 3 * m + 1 \/ i = 3 * m + 2) /\ 2 * m < FatEntries
    BY <1>1, SMT
<1> HIDE DEF m
<1>3. /\ f[2 * m] \in EntryValues /\ f[2 * m + 1] \in EntryValues
      /\ PackedByte(f, 3 * m) = f[2 * m] % 256
      /\ PackedByte(f, 3 * m + 1) = (f[2 * m] \div 256) + 16 * (f[2 * m + 1] % 16)
      /\ PackedByte(f, 3 * m + 2) = f[2 * m + 1] \div 16
    BY <1>2, PackedBytes
<1>4. ASSUME NEW e \in EntryValues, NEW o \in EntryValues
      PROVE  /\ e % 256 \in 0 .. 255
             /\ (e \div 256) + 16 * (o % 16) \in 0 .. 255
             /\ o \div 16 \in 0 .. 255
  <2>1. e \in Nat /\ o \in Nat /\ e < 4096 /\ o < 4096
      BY DEF EntryValues
  <2>2. e % 256 \in 0 .. 255 /\ o \div 16 \in 0 .. 255
      BY <2>1, SMT
  <2>3. e \div 256 \in 0 .. 15 /\ o % 16 \in 0 .. 15
      BY <2>1, SMT
  <2> QED
      BY <2>2, <2>3, SMT
<1> QED
    BY <1>2, <1>3, <1>4 DEF ByteValues

\* Decoding inverts packing.
LEMMA Decoded ==
    ASSUME NEW f \in Tables, NEW n \in Clusters
    PROVE  JoinBytes(n, PackedByte(f, firstByteIndex(n)), PackedByte(f, secondByteIndex(n)))
               = f[n]
<1> DEFINE m == n \div 2
<1>1. m \in Nat /\ ((n = 2 * m /\ n % 2 = 0) \/ (n = 2 * m + 1 /\ n % 2 = 1)) /\ 2 * m < FatEntries
    BY Pairs, SMT DEF Clusters
<1>2. /\ n % 2 = 0 => firstByteIndex(n) = 3 * m /\ secondByteIndex(n) = 3 * m + 1
      /\ n % 2 = 1 => firstByteIndex(n) = 3 * m + 1 /\ secondByteIndex(n) = 3 * m + 2
    BY <1>1 DEF firstByteIndex, secondByteIndex
<1> HIDE DEF m
<1>3. /\ f[2 * m] \in EntryValues /\ f[2 * m + 1] \in EntryValues
      /\ PackedByte(f, 3 * m) = f[2 * m] % 256
      /\ PackedByte(f, 3 * m + 1) = (f[2 * m] \div 256) + 16 * (f[2 * m + 1] % 16)
      /\ PackedByte(f, 3 * m + 2) = f[2 * m + 1] \div 16
    BY <1>1, PackedBytes
<1>4. \A e, o \in EntryValues :
          /\ (e % 256) + 256 * (((e \div 256) + 16 * (o % 16)) % 16) = e
          /\ (((e \div 256) + 16 * (o % 16)) \div 16) + 16 * (o \div 16) = o
  <2> SUFFICES ASSUME NEW e \in Nat, NEW o \in Nat, e < 4096, o < 4096
               PROVE  /\ (e % 256) + 256 * (((e \div 256) + 16 * (o % 16)) % 16) = e
                      /\ (((e \div 256) + 16 * (o % 16)) \div 16) + 16 * (o \div 16) = o
      BY DEF EntryValues
  <2> QED
      BY SMT
<1>5. CASE n % 2 = 0
    BY <1>1, <1>2, <1>3, <1>4, <1>5 DEF JoinBytes
<1>6. CASE n % 2 = 1
    BY <1>1, <1>2, <1>3, <1>4, <1>6 DEF JoinBytes
<1> QED
    BY <1>1, <1>5, <1>6

TableSectors == FATSector .. (FATSector + SectorsPerFat - 1)

\* A byte of the table is in a sector of the table.
LEMMA BytePlace ==
    ASSUME NEW f \in Tables, NEW i \in Nat, i < SectorsPerFat * BytesPerSector
    PROVE  /\ SectorOfByte(i) \in TableSectors /\ SectorOfByte(i) \in Nat
           /\ ByteAt(f, SectorOfByte(i), i) = PackedByte(f, i)
<1> DEFINE q == i \div BytesPerSector
           r == i % BytesPerSector
<1>1. q \in Nat /\ r \in 0 .. (BytesPerSector - 1) /\ i = BytesPerSector * q + r
    BY DivMod, BpbAssumption
<1>2. q < SectorsPerFat
    BY DivBound, BpbAssumption
<1>3. SectorOfByte(i) = ReservedSectors + q
    BY DEF SectorOfByte, FATSector
<1> HIDE DEF q
<1>4. SectorOfByte(i) \in TableSectors /\ SectorOfByte(i) \in Nat
    BY <1>1, <1>2, <1>3, BpbAssumption DEF TableSectors, FATSector
<1>5. (SectorOfByte(i) - FATSector) * BytesPerSector + r = i
    BY <1>1, <1>3, BpbAssumption DEF FATSector
<1> QED
    BY <1>4, <1>5 DEF ByteAt, SectorByte, TableSectors

\* The bytes of an entry are in the table.
LEMMA EntryBytes ==
    ASSUME NEW n \in Clusters
    PROVE  /\ firstByteIndex(n) \in Nat /\ firstByteIndex(n) < SectorsPerFat * BytesPerSector
           /\ secondByteIndex(n) \in Nat /\ secondByteIndex(n) < SectorsPerFat * BytesPerSector
<1>1. PICK k \in Nat : SectorsPerFat * BytesPerSector = 3 * k /\ FatEntries = 2 * k
    BY Pairs
<1> QED
    BY <1>1, SMT DEF firstByteIndex, secondByteIndex, Clusters

-----------------------------------------------------------------------------
(* The layout.                                                             *)

LEMMA Layout ==
    /\ FatEntries \in Nat /\ FATSector \in Nat /\ rootSector \in Nat /\ dataSector \in Nat
    /\ FATSector + SectorsPerFat <= dataSector
<1> DEFINE dir == (NumDirEntries * DirectoryEntrySize + BytesPerSector - 1) \div BytesPerSector
           tables == SectorsPerFat * NumberOfFats
<1>1. NumDirEntries * DirectoryEntrySize + BytesPerSector - 1 \in Nat
    BY BpbAssumption, SMT DEF DirectoryEntrySize
<1>2. dir \in Nat
    BY <1>1, DivMod, BpbAssumption
<1>3. tables \in Nat /\ SectorsPerFat <= tables
    BY BpbAssumption, SMT
<1>4. FatEntries \in Nat
    BY Pairs, SMT
<1>5. rootSector = FATSector + tables /\ dataSector = rootSector + dir
    BY DEF rootSector, dataSector
<1>6. FATSector \in Nat
    BY BpbAssumption DEF FATSector
<1> HIDE DEF dir, tables
<1> QED
    BY <1>2, <1>3, <1>4, <1>5, <1>6, BpbAssumption

-----------------------------------------------------------------------------
(* The attempts.                                                           *)

\* While sectors are read, the attempts made and those left are all there are, and no
\* call of ReadSectors returns into itself.
Attempting ==
    /\ back \in {"stage1", "find", "load", "next"}
    /\ pc = "read" => di \in 1 .. Attempts /\ errors = Attempts - di
    /\ pc = "reboot" => errors = Attempts

LEMMA InitAttempting == Init => Attempting
    BY DEF Init, Attempting

\* A call of ReadSectors sets out with all attempts.
LEMMA CallAttempting ==
    ASSUME NEW lba, NEW count, NEW segment, NEW offset,
           NEW return \in {"find", "load", "next"},
           ReadSectors(lba, count, segment, offset, return)
    PROVE  Attempting'
<1>1. Attempts \in Nat \ {0}
    BY BootAssumption
<1>2. di' = Attempts /\ errors' = 0 /\ pc' = "read" /\ back' = return
    BY DEF ReadSectors
<1>3. di' \in 1 .. Attempts /\ errors' = Attempts - di'
    BY <1>1, <1>2
<1> QED
    BY <1>2, <1>3 DEF Attempting

LEMMA NextAttempting == Attempting /\ [Next]_vars => Attempting'
<1> SUFFICES ASSUME Attempting, [Next]_vars PROVE Attempting'
    OBVIOUS
<1>1. CASE ReadSecondStage
  <2>1. pc' \in {"root", "halted"} /\ back' = back
      BY <1>1 DEF ReadSecondStage
  <2> QED
      BY <2>1 DEF Attempting
<1>2. CASE ReadSuccess
  <2>1. Attempts \in Nat \ {0}
      BY BootAssumption
  <2>2. di' = Attempts /\ errors' = 0 /\ back' = back /\ pc' \in {back, "read"}
      BY <1>2 DEF ReadSuccess
  <2>3. di' \in 1 .. Attempts /\ errors' = Attempts - di'
      BY <2>1, <2>2
  <2>4. back \in {"stage1", "find", "load", "next"}
      BY DEF Attempting
  <2> QED
      BY <2>2, <2>3, <2>4 DEF Attempting
<1>3. CASE ReadError
  <2>1. Attempts \in Nat \ {0}
      BY BootAssumption
  <2>2. /\ di' = di - 1 /\ errors' = errors + 1 /\ back' = back
        /\ pc' = IF di = 1 THEN "reboot" ELSE "read"
        /\ di \in 1 .. Attempts /\ errors = Attempts - di
      BY <1>3 DEF ReadError, Attempting
  <2>3. CASE di = 1
    <3>1. errors' = Attempts /\ pc' = "reboot"
        BY <2>1, <2>2, <2>3
    <3> QED
        BY <2>2, <3>1 DEF Attempting
  <2>4. CASE di # 1
    <3>1. di' \in 1 .. Attempts /\ errors' = Attempts - di' /\ pc' = "read"
        BY <2>1, <2>2, <2>4
    <3> QED
        BY <2>2, <3>1 DEF Attempting
  <2> QED
      BY <2>3, <2>4
<1>4. CASE LoadRoot
    BY <1>4, CallAttempting DEF LoadRoot
<1>5. CASE LoadFile
    BY <1>5, CallAttempting DEF LoadFile
<1>6. CASE LoadFile_Load
    BY <1>6, CallAttempting DEF LoadFile_Load
<1>7. CASE NotFound \/ LoadFile_Next \/ Initialise_PM
  <2>1. pc' \in {"halted", "load", "loaded", "kernel"} /\ back' = back
      BY <1>7 DEF NotFound, LoadFile_Next, Initialise_PM
  <2> QED
      BY <2>1 DEF Attempting
<1>8. CASE UNCHANGED vars
    BY <1>8 DEF vars, registers, Attempting
<1> QED
    BY <1>1, <1>2, <1>3, <1>4, <1>5, <1>6, <1>7, <1>8 DEF Next, AttemptRead, Second_Stage

\* ReadSectors (floppy16.asm) gives up a sector after Attempts errors, no sooner and no
\* later, however many there were for the sectors before it.
THEOREM GivesUpInTime == Spec => []AttemptsRunOut
<1>1. Init => Attempting
    BY InitAttempting
<1>2. Attempting /\ [Next]_vars => Attempting'
    BY NextAttempting
<1>3. Attempting => AttemptsRunOut
  <2>1. Attempts \in Nat \ {0}
      BY BootAssumption
  <2>2. ASSUME Attempting, pc = "read" PROVE errors < Attempts
    <3>1. di \in 1 .. Attempts /\ errors = Attempts - di
        BY <2>2 DEF Attempting
    <3> QED
        BY <2>1, <3>1
  <2>3. ASSUME Attempting, pc = "reboot" PROVE errors = Attempts
      BY <2>3 DEF Attempting
  <2> QED
      BY <2>2, <2>3 DEF AttemptsRunOut
<1> QED
    BY <1>1, <1>2, <1>3, PTL DEF Spec

-----------------------------------------------------------------------------
(* Sizes and places.                                                       *)

TableSize == NumberOfFats * SectorsPerFat

LEMMA Sizes ==
    /\ TableSize \in Nat \ {0} /\ SectorsPerFat \in Nat \ {0} /\ SectorsPerFat <= TableSize
    /\ rootSectors \in Nat \ {0} /\ Segment \in Nat \ {0}
    /\ EntriesPerSector \in Nat \ {0} /\ NumDirEntries = EntriesPerSector * rootSectors
    /\ FATSector \in Nat /\ rootSector \in Nat /\ datasector \in Nat
<1>1. /\ BytesPerSector \in Nat \ {0} /\ SectorsPerFat \in Nat \ {0} /\ ReservedSectors \in Nat
      /\ NumberOfFats \in Nat \ {0} /\ NumDirEntries \in Nat
    BY BpbAssumption
<1>2. /\ BytesPerSector % 32 = 0 /\ NumDirEntries % EntriesPerSector = 0 /\ NumDirEntries > 0
    BY BootAssumption DEF DirectoryEntrySize
<1>3. TableSize \in Nat \ {0} /\ SectorsPerFat <= TableSize
    BY <1>1, SMT DEF TableSize
<1>4. BytesPerSector = 32 * EntriesPerSector /\ EntriesPerSector \in Nat \ {0}
  <2> DEFINE e == BytesPerSector \div 32
  <2>1. e \in Nat /\ BytesPerSector = 32 * e + (BytesPerSector % 32)
      BY <1>1, DivMod
  <2>2. EntriesPerSector = e
      BY DEF EntriesPerSector, DirectoryEntrySize
  <2> HIDE DEF e
  <2>3. BytesPerSector = 32 * e /\ e \in Nat \ {0}
      BY <1>1, <1>2, <2>1
  <2> QED
      BY <2>2, <2>3
<1>5. PICK n \in Nat : NumDirEntries = EntriesPerSector * n
  <2> DEFINE n == NumDirEntries \div EntriesPerSector
  <2>1. n \in Nat /\ NumDirEntries = EntriesPerSector * n + (NumDirEntries % EntriesPerSector)
      BY <1>1, <1>4, DivMod
  <2> HIDE DEF n
  <2>2. EntriesPerSector * n \in Nat
      BY <1>4, <2>1
  <2>3. NumDirEntries = EntriesPerSector * n
      BY <1>2, <2>1, <2>2
  <2> QED
      BY <2>1, <2>3
<1>6. n \in Nat \ {0}
    BY <1>1, <1>2, <1>4, <1>5, SMT
<1>7. rootSectors = n
  <2>1. NumDirEntries * DirectoryEntrySize = BytesPerSector * n + 0
      BY <1>1, <1>4, <1>5, <1>6, SMT DEF DirectoryEntrySize
  <2>2. (BytesPerSector * n + 0) \div BytesPerSector = n
      BY <1>1, <1>6, DivUnique
  <2> QED
      BY <2>1, <2>2 DEF rootSectors
<1>8. Segment \in Nat \ {0}
    BY <1>6, <1>7, MemoryAssumption
<1>9. FATSector \in Nat /\ rootSector \in Nat
    BY Layout
<1>10. datasector \in Nat
    BY <1>6, <1>7, <1>9 DEF datasector
<1> QED
    BY <1>1, <1>3, <1>4, <1>5, <1>6, <1>7, <1>8, <1>9, <1>10

\* The conversion to cylinder, head and sector loses nothing.
LEMMA Geometry ==
    ASSUME NEW lba \in Nat
    PROVE  SectorAt(LBAToCHS(lba)) = lba
<1> DEFINE q == lba \div SectorsPerTrack
           r == lba % SectorsPerTrack
           t == q \div HeadsPerCylinder
           h == q % HeadsPerCylinder
<1>1. SectorsPerTrack \in Nat \ {0} /\ HeadsPerCylinder \in Nat \ {0}
    BY BootAssumption
<1>2. q \in Nat /\ r \in Nat /\ lba = SectorsPerTrack * q + r
    BY <1>1, DivMod
<1>3. SectorAt(LBAToCHS(lba)) = (t * HeadsPerCylinder + h) * SectorsPerTrack + (r + 1) - 1
    BY DEF SectorAt, LBAToCHS
<1> HIDE DEF q, r
<1>4. t \in Nat /\ h \in Nat /\ q = HeadsPerCylinder * t + h
    BY <1>1, <1>2, DivMod
<1> HIDE DEF t, h
<1>5. t * HeadsPerCylinder + h = q
    BY <1>1, <1>4
<1>6. q * SectorsPerTrack = SectorsPerTrack * q /\ q * SectorsPerTrack \in Nat
    BY <1>1, <1>2
<1> QED
    BY <1>2, <1>3, <1>5, <1>6

\* The places are in memory; the second stage is apart, the image is apart from the table.
LEMMA Apart ==
    /\ \A i \in 0 .. 4 : SecondStage + i \in StagePlaces
    /\ StagePlaces \subseteq Memory
    /\ Places(ROOT_DIRECTORY, rootSectors) \subseteq Memory \ StagePlaces
    /\ Places(FAT_SEG, TableSize) \subseteq Memory \ StagePlaces
    /\ \A i \in 0 .. (Segment - 1) : IMAGE_RMODE + i \in ImagePlaces
    /\ ImagePlaces \subseteq (Memory \ StagePlaces) \ Places(FAT_SEG, TableSize)
    /\ SecondStage \in Nat /\ FAT_SEG \in Nat /\ ROOT_DIRECTORY \in Nat /\ IMAGE_RMODE \in Nat
    /\ rootSectors <= Segment /\ TableSize <= Segment
<1>1. /\ StagePlaces \subseteq Memory
      /\ Places(ROOT_DIRECTORY, rootSectors) \subseteq Memory \ StagePlaces
      /\ Places(FAT_SEG, TableSize) \subseteq Memory \ StagePlaces
      /\ ImagePlaces \subseteq (Memory \ StagePlaces) \ Places(FAT_SEG, TableSize)
    BY MemoryAssumption DEF RootPlaces, TablePlaces, TableSize
<1>2. /\ SecondStage \in Nat /\ FAT_SEG \in Nat /\ ROOT_DIRECTORY \in Nat /\ IMAGE_RMODE \in Nat
      /\ rootSectors <= Segment /\ TableSize <= Segment
    BY MemoryAssumption DEF TableSize
<1>3. \A i \in 0 .. 4 : SecondStage + i \in StagePlaces
    BY <1>2 DEF StagePlaces, Places
<1>4. \A i \in 0 .. (Segment - 1) : IMAGE_RMODE + i \in ImagePlaces
    BY <1>2, Sizes DEF ImagePlaces, Places
<1> QED
    BY <1>1, <1>2, <1>3, <1>4

-----------------------------------------------------------------------------
(* The file.                                                               *)

LEMMA ChainNumbers ==
    ASSUME chain \in Chains
    PROVE  /\ Len(chain) \in Nat \ {0} /\ DOMAIN chain = 1 .. Len(chain) /\ Len(chain) <= Segment
           /\ \A i \in 1 .. Len(chain) :
                 /\ chain[i] \in Clusters /\ chain[i] \in Nat
                 /\ chain[i] < 4080 /\ ClusterToLBA(chain[i]) \in Nat
<1>1. /\ chain \in Seq(2 .. (FatEntries - 1)) /\ chain # <<>> /\ FatEntries <= 4080
      /\ Len(chain) <= Segment
    BY BootAssumption
<1>2. Len(chain) \in Nat \ {0} /\ DOMAIN chain = 1 .. Len(chain)
    BY <1>1
<1>3. FatEntries \in Nat /\ datasector \in Nat
    BY Layout, Sizes
<1>4. ASSUME NEW i \in 1 .. Len(chain)
      PROVE  /\ chain[i] \in Clusters /\ chain[i] \in Nat
             /\ chain[i] < 4080 /\ ClusterToLBA(chain[i]) \in Nat
  <2> DEFINE S == 2 .. (FatEntries - 1)
  <2>0. chain \in Seq(S)
      BY <1>1
  <2> HIDE DEF S
  <2>1. chain[i] \in S
      BY <2>0
  <2> USE DEF S
  <2> QED
      BY <1>1, <1>3, <2>1 DEF Clusters, ClusterToLBA
<1> QED
    BY <1>1, <1>2, <1>4

\* The table has the links of the chain, and the mark at its end.
LEMMA TableLinks ==
    ASSUME chain \in Chains, endMark \in EndMarks
    PROVE  /\ fat \in Tables
           /\ \A i \in 1 .. Len(chain) :
                 fat[chain[i]] = IF i = Len(chain) THEN endMark ELSE chain[i + 1]
<1> DEFINE place(n) == CHOOSE j \in DOMAIN chain : chain[j] = n
           entry(n) == IF \E i \in DOMAIN chain : chain[i] = n
                       THEN IF place(n) = Len(chain) THEN endMark ELSE chain[place(n) + 1]
                       ELSE IF n < 2 THEN 4080 ELSE 0
<1>1. fat = [n \in Clusters |-> entry(n)]
    BY DEF fat, Clusters
<1>2. /\ Len(chain) \in Nat \ {0} /\ DOMAIN chain = 1 .. Len(chain)
      /\ \A i \in 1 .. Len(chain) :
            chain[i] \in Clusters /\ chain[i] \in Nat /\ chain[i] < 4080
    BY ChainNumbers
<1>3. endMark \in EntryValues
    BY BootAssumption DEF EntryValues
<1>4. ASSUME NEW i \in 1 .. Len(chain)
      PROVE  place(chain[i]) = i
  <2>1. \A j, k \in 1 .. Len(chain) : chain[j] = chain[k] => j = k
      BY BootAssumption
  <2>2. place(chain[i]) \in DOMAIN chain /\ chain[place(chain[i])] = chain[i]
      BY <1>2
  <2> QED
      BY <1>2, <2>1, <2>2
<1> HIDE DEF place
<1>5. ASSUME NEW i \in 1 .. Len(chain)
      PROVE  /\ entry(chain[i]) = IF i = Len(chain) THEN endMark ELSE chain[i + 1]
             /\ entry(chain[i]) \in EntryValues
  <2>1. \E j \in DOMAIN chain : chain[j] = chain[i]
      BY <1>2
  <2>2. entry(chain[i]) = IF i = Len(chain) THEN endMark ELSE chain[i + 1]
      BY <1>4, <2>1
  <2> HIDE DEF entry
  <2>3. i # Len(chain) => i + 1 \in 1 .. Len(chain)
    <3>1. i \in Nat /\ 1 <= i /\ i <= Len(chain) /\ Len(chain) \in Nat
        BY <1>2
    <3> QED
        BY <3>1
  <2>4. ASSUME NEW k \in 1 .. Len(chain) PROVE chain[k] \in EntryValues
    <3>1. \A e \in Nat : e < 4080 => e \in EntryValues
        BY DEF EntryValues
    <3>2. chain[k] \in Nat /\ chain[k] < 4080
        BY <1>2
    <3> QED
        BY <3>1, <3>2
  <2>5. i # Len(chain) => chain[i + 1] \in EntryValues
      BY <2>3, <2>4, Zenon
  <2> QED
      BY <1>3, <2>2, <2>5, Zenon
<1>6. ASSUME NEW n \in Clusters
      PROVE  entry(n) \in EntryValues
  <2>1. CASE \E i \in DOMAIN chain : chain[i] = n
    <3>1. PICK i \in 1 .. Len(chain) : chain[i] = n
        BY <1>2, <2>1
    <3> QED
        BY <1>5, <3>1
  <2>2. CASE ~ \E i \in DOMAIN chain : chain[i] = n
      BY <2>2 DEF EntryValues
  <2> QED
      BY <2>1, <2>2
<1> HIDE DEF entry
<1> QED
  <2>1. fat \in Tables
      BY <1>1, <1>6 DEF Tables
  <2>2. \A n \in Clusters : fat[n] = entry(n)
      BY <1>1
  <2> QED
    <3>1. ASSUME NEW i \in 1 .. Len(chain)
          PROVE  fat[chain[i]] = IF i = Len(chain) THEN endMark ELSE chain[i + 1]
      <4>1. chain[i] \in Clusters
          BY <1>2
      <4>2. fat[chain[i]] = entry(chain[i])
          BY <2>2, <4>1, Zenon
      <4>3. entry(chain[i]) = IF i = Len(chain) THEN endMark ELSE chain[i + 1]
          BY <1>5, Zenon
      <4> QED
          BY <4>2, <4>3, Zenon
    <3> QED
        BY <2>1, <3>1, Zenon

\* Consecutive sectors, from start on, at consecutive places.
Holds(mem, start, count, place) == \A i \in 0 .. (count - 1) : mem[place + i] = start + i

\* Three halves of the cluster's number, and 12 bits of the word there, are the link.
LEMMA LinkRead ==
    ASSUME fat \in Tables, Holds(memory, FATSector, TableSize, FAT_SEG), NEW n \in Clusters
    PROVE  NextCluster(n) = fat[n]
<1>1. ASSUME NEW i \in Nat, i < SectorsPerFat * BytesPerSector
      PROVE  TableByte(i) = PackedByte(fat, i) /\ TableByte(i) \in ByteValues
  <2> DEFINE q == i \div BytesPerSector
  <2>1. q \in Nat /\ q < SectorsPerFat
      BY <1>1, DivMod, DivBound, BpbAssumption
  <2>2. q \in 0 .. (TableSize - 1)
      BY <2>1, Sizes
  <2>3. memory[FAT_SEG + q] = FATSector + q
      BY <2>2 DEF Holds
  <2>4. TableByte(i) = ByteAt(fat, SectorOfByte(i), i)
      BY <2>3 DEF TableByte, ByteAt, SectorOfByte
  <2> QED
      BY <1>1, <2>4, BytePlace, ByteRange
<1>2. n \in Nat
    BY Layout DEF Clusters
<1>3. (n * 3) \div 2 = firstByteIndex(n) /\ (n * 3) \div 2 + 1 = secondByteIndex(n)
  <2>1. (n * 3) \div 2 = (n \div 2) * 3 + (n % 2)
      BY <1>2, SMT
  <2> QED
      BY <2>1 DEF firstByteIndex, secondByteIndex
<1> DEFINE first == PackedByte(fat, firstByteIndex(n))
           second == PackedByte(fat, secondByteIndex(n))
<1>4. /\ TableByte((n * 3) \div 2) = first /\ TableByte((n * 3) \div 2 + 1) = second
      /\ first \in ByteValues /\ second \in ByteValues
    BY <1>1, <1>3, EntryBytes
<1>5. JoinBytes(n, first, second) = fat[n]
    BY Decoded
<1>6. NextCluster(n) = IF n % 2 = 0 THEN (first + 256 * second) % 4096
                       ELSE (first + 256 * second) \div 16
    BY <1>4 DEF NextCluster
<1> HIDE DEF first, second
<1>7. first \in Nat /\ second \in Nat /\ first < 256 /\ second < 256
    BY <1>4 DEF ByteValues
<1>8. (first + 256 * second) % 4096 = first + 256 * (second % 16)
    BY <1>7, SMT
<1>9. (first + 256 * second) \div 16 = (first \div 16) + 16 * second
    BY <1>7, SMT
<1> QED
    BY <1>5, <1>6, <1>8, <1>9 DEF JoinBytes

-----------------------------------------------------------------------------
(* A call of ReadSectors.                                                  *)

\* count sectors from start on are to be read, and those before ax have been.
Reading(start, count, segment, offset) ==
    /\ cx \in 1 .. count /\ ax = start + (count - cx)
    /\ es = segment /\ bx = offset + (count - cx)
    /\ Holds(memory, start, count - cx, segment + offset)

\* One more sector is where it belongs, nothing else has changed, and the offset has
\* not gone round before the last one.
LEMMA SectorRead ==
    ASSUME memory \in [Memory -> Int], ReadSuccess,
           NEW start \in Nat, NEW count \in Nat \ {0}, NEW segment \in Nat, NEW offset \in Nat,
           Reading(start, count, segment, offset), offset + count <= Segment,
           Places(segment + offset, count) \subseteq Memory
    PROVE  /\ memory' \in [Memory -> Int]
           /\ \A place \in Memory \ Places(segment + offset, count) : memory'[place] = memory[place]
           /\ cx # 1 => /\ pc' = "read" /\ cx' \in 1 .. count /\ ax' = start + (count - cx')
                        /\ es' = segment /\ bx' = offset + (count - cx')
                        /\ Holds(memory', start, count - cx', segment + offset)
           /\ cx = 1 => /\ pc' = back /\ bx' = (offset + count) % Segment
                        /\ Holds(memory', start, count, segment + offset)
           /\ back' = back
<1> DEFINE n == count - cx
           here == segment + offset + n
<1>1. /\ cx \in 1 .. count /\ ax = start + n /\ es = segment /\ bx = offset + n
      /\ Holds(memory, start, n, segment + offset)
    BY DEF Reading
<1>2. /\ memory' = [memory EXCEPT ![es + bx] = SectorAt(LBAToCHS(ax))]
      /\ ax' = ax + 1 /\ bx' = (bx + 1) % Segment /\ cx' = cx - 1 /\ es' = es /\ back' = back
      /\ pc' = IF cx = 1 THEN back ELSE "read"
    BY DEF ReadSuccess
<1>3. n \in 0 .. (count - 1) /\ here \in Nat /\ ax \in Nat
    BY <1>1
<1>4. here \in Places(segment + offset, count) /\ here \in Memory
    BY <1>3 DEF Places
<1>5. SectorAt(LBAToCHS(ax)) = start + n
    BY <1>1, <1>3, Geometry
<1>6. es + bx = here
    BY <1>1, <1>3
<1>7. memory' = [memory EXCEPT ![here] = start + n]
    BY <1>2, <1>5, <1>6
<1>8. count - cx' = n + 1 /\ count \in Nat
    BY <1>1, <1>2
<1>9. \A i \in 0 .. n : segment + offset + i = here <=> i = n
    BY <1>3
<1>10. \A i \in 0 .. n : segment + offset + i \in Memory
  <2>1. \A i \in 0 .. n : segment + offset + i \in Places(segment + offset, count)
      BY <1>3 DEF Places
  <2> QED
      BY <2>1
<1>11. Segment \in Nat \ {0}
    BY Sizes
<1> HIDE DEF here, n
<1>12. /\ memory' \in [Memory -> Int] /\ memory'[here] = start + n
       /\ \A place \in Memory : place # here => memory'[place] = memory[place]
    BY <1>3, <1>4, <1>7
<1>13. Holds(memory', start, n + 1, segment + offset)
  <2> SUFFICES ASSUME NEW i \in 0 .. n
               PROVE  memory'[segment + offset + i] = start + i
      BY <1>3 DEF Holds
  <2>1. CASE i = n
      BY <1>9, <1>12, <2>1
  <2>2. CASE i # n
    <3>1. segment + offset + i # here
        BY <1>9, <2>2
    <3>2. memory'[segment + offset + i] = memory[segment + offset + i]
        BY <1>10, <1>12, <3>1
    <3>3. i \in 0 .. (n - 1)
        BY <1>3, <2>2
    <3> QED
        BY <1>1, <3>2, <3>3 DEF Holds
  <2> QED
      BY <2>1, <2>2
<1>14. \A place \in Memory \ Places(segment + offset, count) : memory'[place] = memory[place]
    BY <1>4, <1>12
<1>15. ASSUME cx # 1
       PROVE  /\ pc' = "read" /\ cx' \in 1 .. count /\ ax' = start + (count - cx')
              /\ es' = segment /\ bx' = offset + (count - cx')
              /\ Holds(memory', start, count - cx', segment + offset)
  <2>1. n + 1 < count
      BY <1>1, <1>15 DEF n
  <2>2. bx + 1 \in Nat /\ bx + 1 < Segment /\ bx + 1 = offset + (n + 1)
      BY <1>1, <1>3, <1>11, <2>1
  <2>3. bx' = offset + (n + 1)
      BY <1>2, <1>11, <2>2
  <2>4. cx' \in 1 .. count
      BY <1>1, <1>2, <1>15
  <2>5. ax' = start + (n + 1)
      BY <1>1, <1>2, <1>3
  <2> QED
      BY <1>1, <1>2, <1>8, <1>13, <1>15, <2>3, <2>4, <2>5
<1>16. ASSUME cx = 1
       PROVE  /\ pc' = back /\ bx' = (offset + count) % Segment
              /\ Holds(memory', start, count, segment + offset)
  <2>1. n + 1 = count
      BY <1>1, <1>16 DEF n
  <2>2. bx + 1 = offset + count
      BY <1>1, <1>3, <2>1
  <2> QED
      BY <1>2, <1>13, <1>16, <2>1, <2>2
<1> QED
    BY <1>2, <1>12, <1>14, <1>15, <1>16

-----------------------------------------------------------------------------
(* What has been loaded.                                                   *)

DiskTypes ==
    /\ chain \in Chains /\ endMark \in EndMarks /\ rootEntry \in RootEntries
    /\ memory \in [Memory -> Int]

\* The second stage is there once it runs, and stays there.
StageKept ==
    /\ pc = "stage1" => \A place \in Memory : memory[place] = Nothing
    /\ pc \notin {"stage1", "halted"} => \A i \in 0 .. 4 : memory[SecondStage + i] = i + 1
    /\ pc = "halted" => rootEntry = Nothing \/ memory[SecondStage] = Nothing

\* The root directory, then the tables.
RootLoaded ==
    /\ pc = "read" => back \in {"find", "load", "next"}
    /\ pc = "read" /\ back = "find" => Reading(rootSector, rootSectors, ROOT_DIRECTORY, 0)
    /\ pc = "find" => Holds(memory, rootSector, rootSectors, ROOT_DIRECTORY)

TablesLoading ==
    pc = "read" /\ back = "load" =>
        /\ Reading(FATSector, TableSize, FAT_SEG, 0)
        /\ cluster = chain[1] /\ imageBx = 0 /\ ImageSize = 0

\* The image has as many sectors of the file as ImageSize says, and cluster is the next.
ImageHas(mem, n) == \A i \in 1 .. n : mem[IMAGE_RMODE + i - 1] = ClusterToLBA(chain[i])

AtCluster ==
    /\ ImageSize \in 0 .. (Len(chain) - 1) /\ imageBx = ImageSize
    /\ cluster = chain[ImageSize + 1]
    /\ ImageHas(memory, ImageSize)
    /\ Holds(memory, FATSector, TableSize, FAT_SEG)

FileLoading ==
    /\ pc = "load" => AtCluster
    /\ pc = "read" /\ back = "next" =>
           AtCluster /\ Reading(ClusterToLBA(cluster), 1, IMAGE_RMODE, imageBx)
    /\ pc = "next" => AtCluster /\ ImageHas(memory, ImageSize + 1) /\ bx = (imageBx + 1) % Segment
    /\ pc = "loaded" => ImageSize = Len(chain) /\ ImageHas(memory, ImageSize)
    /\ pc = "kernel" => kernel = [i \in DOMAIN chain |-> ClusterToLBA(chain[i])]

Loading == DiskTypes /\ StageKept /\ RootLoaded /\ TablesLoading /\ FileLoading

LEMMA InitLoading == Init => Loading
<1> SUFFICES ASSUME Init PROVE Loading
    OBVIOUS
<1>1. /\ chain \in Chains /\ endMark \in EndMarks /\ rootEntry \in RootEntries
      /\ pc = "stage1" /\ memory = [place \in Memory |-> Nothing]
    BY DEF Init
<1>2. Nothing \in Int
    BY DEF Nothing
<1>3. memory \in [Memory -> Int] /\ \A place \in Memory : memory[place] = Nothing
    BY <1>1, <1>2
<1> QED
    BY <1>1, <1>3 DEF Loading, DiskTypes, StageKept, RootLoaded, TablesLoading, FileLoading

LEMMA StageRead ==
    ASSUME Loading, ReadSecondStage
    PROVE  Loading'
<1>1. /\ pc = "stage1" /\ \A place \in Memory : memory[place] = Nothing
      /\ memory \in [Memory -> Int] /\ DiskTypes
    BY DEF ReadSecondStage, Loading, StageKept, DiskTypes
<1>2. chain' = chain /\ endMark' = endMark /\ rootEntry' = rootEntry
    BY DEF ReadSecondStage, disk
<1>3. CASE /\ memory' = [place \in Memory |-> IF place \in StagePlaces THEN place - SecondStage + 1
                                             ELSE memory[place]]
           /\ pc' = "root"
  <2>1. \A place \in StagePlaces : place - SecondStage + 1 \in Int
      BY Apart DEF StagePlaces, Places
  <2>2. memory' \in [Memory -> Int]
      BY <1>1, <1>3, <2>1
  <2>3. ASSUME NEW i \in 0 .. 4 PROVE memory'[SecondStage + i] = i + 1
    <3>1. SecondStage + i \in StagePlaces /\ SecondStage + i \in Memory /\ SecondStage \in Nat
        BY Apart
    <3>2. memory'[SecondStage + i] = (SecondStage + i) - SecondStage + 1
        BY <1>3, <3>1
    <3> QED
        BY <3>1, <3>2
  <2>4. DiskTypes' /\ StageKept'
      BY <1>1, <1>2, <1>3, <2>2, <2>3 DEF DiskTypes, StageKept
  <2> QED
      BY <1>3, <2>4 DEF Loading, RootLoaded, TablesLoading, FileLoading
<1>4. CASE memory' = memory /\ pc' = "halted"
  <2>1. memory[SecondStage] = Nothing
    <3>1. SecondStage + 0 \in Memory /\ SecondStage + 0 = SecondStage
        BY Apart
    <3> QED
        BY <1>1, <3>1
  <2>2. DiskTypes' /\ StageKept'
      BY <1>1, <1>2, <1>4, <2>1 DEF DiskTypes, StageKept
  <2> QED
      BY <1>4, <2>2 DEF Loading, RootLoaded, TablesLoading, FileLoading
<1> QED
    BY <1>3, <1>4 DEF ReadSecondStage

\* The three callers of ReadSectors read to places apart from the second stage.
LEMMA SectorKept ==
    ASSUME Loading, ReadSuccess
    PROVE  Loading'
<1>1. /\ pc = "read" /\ back \in {"find", "load", "next"} /\ memory \in [Memory -> Int]
      /\ chain \in Chains /\ endMark \in EndMarks /\ rootEntry \in RootEntries
      /\ \A i \in 0 .. 4 : memory[SecondStage + i] = i + 1
    BY DEF ReadSuccess, Loading, RootLoaded, DiskTypes, StageKept
<1>2. /\ chain' = chain /\ endMark' = endMark /\ rootEntry' = rootEntry
      /\ cluster' = cluster /\ imageBx' = imageBx /\ ImageSize' = ImageSize /\ kernel' = kernel
    BY DEF ReadSuccess, disk, file
<1>3. ASSUME NEW places, memory' \in [Memory -> Int], places \cap StagePlaces = {},
             \A place \in Memory \ places : memory'[place] = memory[place],
             pc' \in {"read", "find", "load", "next"}
      PROVE  DiskTypes' /\ StageKept'
  <2>1. \A i \in 0 .. 4 : memory'[SecondStage + i] = memory[SecondStage + i]
      BY <1>3, Apart
  <2> QED
      BY <1>1, <1>2, <1>3, <2>1 DEF DiskTypes, StageKept
<1>4. CASE back = "find"
  <2>1. Reading(rootSector, rootSectors, ROOT_DIRECTORY, 0)
      BY <1>1, <1>4 DEF Loading, RootLoaded
  <2>2. /\ ROOT_DIRECTORY + 0 = ROOT_DIRECTORY /\ 0 + rootSectors = rootSectors
        /\ rootSectors <= Segment /\ Places(ROOT_DIRECTORY, rootSectors) \subseteq Memory \ StagePlaces
        /\ rootSector \in Nat /\ rootSectors \in Nat \ {0} /\ ROOT_DIRECTORY \in Nat
      BY Apart, Sizes
  <2>3. /\ Places(ROOT_DIRECTORY + 0, rootSectors) \subseteq Memory /\ 0 + rootSectors <= Segment
        /\ 0 \in Nat
      BY <2>2
  <2>4. /\ memory' \in [Memory -> Int]
        /\ \A place \in Memory \ Places(ROOT_DIRECTORY + 0, rootSectors) :
               memory'[place] = memory[place]
        /\ cx # 1 => /\ pc' = "read" /\ cx' \in 1 .. rootSectors
                     /\ ax' = rootSector + (rootSectors - cx')
                     /\ es' = ROOT_DIRECTORY /\ bx' = 0 + (rootSectors - cx')
                     /\ Holds(memory', rootSector, rootSectors - cx', ROOT_DIRECTORY + 0)
        /\ cx = 1 => pc' = back /\ Holds(memory', rootSector, rootSectors, ROOT_DIRECTORY + 0)
        /\ back' = back
    <3> DEFINE segment == ROOT_DIRECTORY
               count == rootSectors
               start == rootSector
               offset == 0
    <3>1. /\ memory \in [Memory -> Int] /\ start \in Nat /\ count \in Nat \ {0}
          /\ segment \in Nat /\ offset \in Nat /\ Reading(start, count, segment, offset)
          /\ offset + count <= Segment /\ Places(segment + offset, count) \subseteq Memory
        BY <1>1, <2>1, <2>2, <2>3
    <3> HIDE DEF segment, count, start, offset
    <3>2. /\ memory' \in [Memory -> Int]
          /\ \A place \in Memory \ Places(segment + offset, count) :
                 memory'[place] = memory[place]
          /\ cx # 1 => /\ pc' = "read" /\ cx' \in 1 .. count /\ ax' = start + (count - cx')
                       /\ es' = segment /\ bx' = offset + (count - cx')
                       /\ Holds(memory', start, count - cx', segment + offset)
          /\ cx = 1 => pc' = back /\ Holds(memory', start, count, segment + offset)
          /\ back' = back
        BY <3>1, SectorRead
    <3> QED
        BY <3>2 DEF segment, count, start, offset
  <2>5. DiskTypes' /\ StageKept'
    <3>1. pc' \in {"read", "find"}
        BY <1>4, <2>4
    <3>2. Places(ROOT_DIRECTORY + 0, rootSectors) \cap StagePlaces = {}
        BY <2>2
    <3> QED
        BY <1>3, <2>4, <3>1, <3>2
  <2>6. CASE cx # 1
    <3>1. Reading(rootSector, rootSectors, ROOT_DIRECTORY, 0)'
        BY <2>4, <2>6 DEF Reading, rootSector, rootSectors, FATSector, Holds
    <3> QED
        BY <1>4, <2>4, <2>5, <2>6, <3>1 DEF Loading, RootLoaded, TablesLoading, FileLoading
  <2>7. CASE cx = 1
    <3>1. Holds(memory', rootSector, rootSectors, ROOT_DIRECTORY) /\ pc' = "find"
        BY <1>4, <2>2, <2>4, <2>7
    <3> QED
        BY <2>5, <3>1 DEF Loading, RootLoaded, TablesLoading, FileLoading
  <2> QED
      BY <2>6, <2>7
<1>5. CASE back = "load"
  <2>1. /\ Reading(FATSector, TableSize, FAT_SEG, 0)
        /\ cluster = chain[1] /\ imageBx = 0 /\ ImageSize = 0
      BY <1>1, <1>5 DEF Loading, TablesLoading
  <2>2. /\ FAT_SEG + 0 = FAT_SEG /\ 0 + TableSize = TableSize
        /\ TableSize <= Segment /\ Places(FAT_SEG, TableSize) \subseteq Memory \ StagePlaces
        /\ FATSector \in Nat /\ TableSize \in Nat \ {0} /\ FAT_SEG \in Nat
      BY Apart, Sizes
  <2>3. /\ Places(FAT_SEG + 0, TableSize) \subseteq Memory /\ 0 + TableSize <= Segment
        /\ 0 \in Nat
      BY <2>2
  <2>4. /\ memory' \in [Memory -> Int]
        /\ \A place \in Memory \ Places(FAT_SEG + 0, TableSize) :
               memory'[place] = memory[place]
        /\ cx # 1 => /\ pc' = "read" /\ cx' \in 1 .. TableSize
                     /\ ax' = FATSector + (TableSize - cx')
                     /\ es' = FAT_SEG /\ bx' = 0 + (TableSize - cx')
                     /\ Holds(memory', FATSector, TableSize - cx', FAT_SEG + 0)
        /\ cx = 1 => pc' = back /\ Holds(memory', FATSector, TableSize, FAT_SEG + 0)
        /\ back' = back
    <3> DEFINE segment == FAT_SEG
               count == TableSize
               start == FATSector
               offset == 0
    <3>1. /\ memory \in [Memory -> Int] /\ start \in Nat /\ count \in Nat \ {0}
          /\ segment \in Nat /\ offset \in Nat /\ Reading(start, count, segment, offset)
          /\ offset + count <= Segment /\ Places(segment + offset, count) \subseteq Memory
        BY <1>1, <2>1, <2>2, <2>3
    <3> HIDE DEF segment, count, start, offset
    <3>2. /\ memory' \in [Memory -> Int]
          /\ \A place \in Memory \ Places(segment + offset, count) :
                 memory'[place] = memory[place]
          /\ cx # 1 => /\ pc' = "read" /\ cx' \in 1 .. count /\ ax' = start + (count - cx')
                       /\ es' = segment /\ bx' = offset + (count - cx')
                       /\ Holds(memory', start, count - cx', segment + offset)
          /\ cx = 1 => pc' = back /\ Holds(memory', start, count, segment + offset)
          /\ back' = back
        BY <3>1, SectorRead
    <3> QED
        BY <3>2 DEF segment, count, start, offset
  <2>5. DiskTypes' /\ StageKept'
    <3>1. pc' \in {"read", "load"}
        BY <1>5, <2>4
    <3>2. Places(FAT_SEG + 0, TableSize) \cap StagePlaces = {}
        BY <2>2
    <3> QED
        BY <1>3, <2>4, <3>1, <3>2
  <2>6. CASE cx # 1
    <3>1. Reading(FATSector, TableSize, FAT_SEG, 0)'
        BY <2>4, <2>6 DEF Reading, FATSector, TableSize, Holds
    <3>2. TablesLoading'
        BY <1>2, <2>1, <3>1 DEF TablesLoading
    <3> QED
        BY <1>5, <2>4, <2>5, <2>6, <3>2 DEF Loading, RootLoaded, FileLoading
  <2>7. CASE cx = 1
    <3>1. Holds(memory', FATSector, TableSize, FAT_SEG) /\ pc' = "load"
        BY <1>5, <2>2, <2>4, <2>7
    <3>2. AtCluster'
      <4>1. Len(chain) \in Nat \ {0}
          BY <1>1, ChainNumbers
      <4>2. ImageSize' = 0 /\ imageBx' = 0 /\ cluster' = chain'[ImageSize' + 1] /\ chain' = chain
          BY <1>2, <2>1
      <4>3. \A i \in 1 .. ImageSize' : memory'[IMAGE_RMODE + i - 1] = ClusterToLBA(chain[i])
          BY <4>2
      <4>4. ImageHas(memory, ImageSize)'
          BY <4>2, <4>3 DEF ImageHas, ClusterToLBA
      <4>5. Holds(memory, FATSector, TableSize, FAT_SEG)'
          BY <3>1 DEF Holds, FATSector, TableSize
      <4>6. ImageSize' \in 0 .. (Len(chain') - 1)
          BY <4>1, <4>2
      <4> QED
          BY <4>2, <4>4, <4>5, <4>6 DEF AtCluster
    <3> QED
        BY <2>5, <3>1, <3>2 DEF Loading, RootLoaded, TablesLoading, FileLoading
  <2> QED
      BY <2>6, <2>7
<1>6. CASE back = "next"
  <2> DEFINE k == ImageSize
             lba == ClusterToLBA(cluster)
  <2>1. AtCluster /\ Reading(ClusterToLBA(cluster), 1, IMAGE_RMODE, imageBx)
      BY <1>1, <1>6 DEF Loading, FileLoading
  <2>2. /\ k \in 0 .. (Len(chain) - 1) /\ imageBx = k /\ cluster = chain[k + 1]
        /\ ImageHas(memory, k) /\ Holds(memory, FATSector, TableSize, FAT_SEG)
      BY <2>1 DEF AtCluster
  <2>3. /\ Len(chain) \in Nat \ {0} /\ Len(chain) <= Segment /\ Segment \in Nat
        /\ \A i \in 1 .. Len(chain) : ClusterToLBA(chain[i]) \in Nat
      BY <1>1, ChainNumbers, Sizes
  <2>4. k \in Nat /\ k + 1 \in 1 .. Len(chain) /\ k < Segment /\ k + 1 <= Segment
      BY <2>2, <2>3
  <2>5. lba \in Nat
      BY <2>2, <2>3, <2>4
  <2>6. /\ IMAGE_RMODE \in Nat /\ IMAGE_RMODE + k \in ImagePlaces
        /\ ImagePlaces \subseteq (Memory \ StagePlaces) \ Places(FAT_SEG, TableSize)
    <3>1. k \in 0 .. (Segment - 1)
        BY <2>3, <2>4
    <3> QED
        BY <3>1, Apart
  <2>7. Places(IMAGE_RMODE + k, 1) = {IMAGE_RMODE + k}
      BY <2>4, <2>6 DEF Places
  <2>8. Reading(lba, 1, IMAGE_RMODE, k) /\ Places(IMAGE_RMODE + k, 1) \subseteq Memory
      BY <2>1, <2>2, <2>6, <2>7
  <2> HIDE DEF lba
  <2>9. /\ memory' \in [Memory -> Int] /\ cx = 1 /\ pc' = "next" /\ bx' = (k + 1) % Segment
        /\ \A place \in Memory \ {IMAGE_RMODE + k} : memory'[place] = memory[place]
        /\ Holds(memory', lba, 1, IMAGE_RMODE + k)
    <3>1. cx = 1 /\ 1 \in Nat \ {0}
        BY <2>8 DEF Reading
    <3> DEFINE offset == k
               count == 1
    <3>2. /\ memory \in [Memory -> Int] /\ lba \in Nat /\ count \in Nat \ {0}
          /\ IMAGE_RMODE \in Nat /\ offset \in Nat /\ Reading(lba, count, IMAGE_RMODE, offset)
          /\ offset + count <= Segment /\ Places(IMAGE_RMODE + offset, count) \subseteq Memory
        BY <1>1, <2>4, <2>5, <2>6, <2>8
    <3> HIDE DEF offset, count
    <3>3. /\ memory' \in [Memory -> Int]
          /\ \A place \in Memory \ Places(IMAGE_RMODE + offset, count) :
                 memory'[place] = memory[place]
          /\ cx = 1 => /\ pc' = back /\ bx' = (offset + count) % Segment
                       /\ Holds(memory', lba, count, IMAGE_RMODE + offset)
        BY <3>2, SectorRead
    <3> USE DEF offset, count
    <3>4. Places(IMAGE_RMODE + offset, count) = {IMAGE_RMODE + k}
        BY <2>7
    <3> HIDE DEF count
    <3>5. \A place \in Memory \ {IMAGE_RMODE + k} : memory'[place] = memory[place]
        BY <3>3, <3>4
    <3> USE DEF count
    <3> QED
        BY <1>6, <3>1, <3>3, <3>5
  <2>10. DiskTypes' /\ StageKept'
    <3>1. {IMAGE_RMODE + k} \cap StagePlaces = {}
        BY <2>6
    <3> QED
        BY <1>3, <2>9, <3>1
  <2>11. Holds(memory', FATSector, TableSize, FAT_SEG)
    <3> SUFFICES ASSUME NEW i \in 0 .. (TableSize - 1)
                 PROVE  memory'[FAT_SEG + i] = FATSector + i
        BY DEF Holds
    <3>1. FAT_SEG + i \in Places(FAT_SEG, TableSize)
        BY Apart, Sizes DEF Places
    <3>2. FAT_SEG + i \in Memory /\ FAT_SEG + i # IMAGE_RMODE + k
        BY <2>6, <3>1, Apart
    <3>3. memory[FAT_SEG + i] = FATSector + i
        BY <2>2 DEF Holds
    <3> QED
        BY <2>9, <3>2, <3>3
  <2>12. memory'[IMAGE_RMODE + k] = lba
    <3>1. memory'[IMAGE_RMODE + k + 0] = lba + 0
        BY <2>9 DEF Holds
    <3> QED
        BY <2>4, <2>5, <2>6, <3>1
  <2>13. \A i \in 1 .. (k + 1) : memory'[IMAGE_RMODE + i - 1] = ClusterToLBA(chain[i])
    <3> SUFFICES ASSUME NEW i \in 1 .. (k + 1)
                 PROVE  memory'[IMAGE_RMODE + i - 1] = ClusterToLBA(chain[i])
        OBVIOUS
    <3>1. CASE i = k + 1
      <4>1. IMAGE_RMODE + i - 1 = IMAGE_RMODE + k
          BY <2>4, <2>6, <3>1
      <4>2. ClusterToLBA(chain[i]) = lba
          BY <2>2, <3>1 DEF lba
      <4> QED
          BY <2>12, <4>1, <4>2
    <3>2. CASE i # k + 1
      <4>1. i \in 1 .. k /\ IMAGE_RMODE + i - 1 # IMAGE_RMODE + k
          BY <2>4, <2>6, <3>2
      <4>2. IMAGE_RMODE + i - 1 \in Memory
        <5>1. i - 1 \in 0 .. (Segment - 1) /\ IMAGE_RMODE + (i - 1) = IMAGE_RMODE + i - 1
            BY <2>3, <2>4, <2>6, <4>1
        <5>2. IMAGE_RMODE + (i - 1) \in ImagePlaces
            BY <5>1, Apart
        <5> QED
            BY <2>6, <5>1, <5>2
      <4>3. memory[IMAGE_RMODE + i - 1] = ClusterToLBA(chain[i])
          BY <2>2, <4>1 DEF ImageHas
      <4> QED
          BY <2>9, <4>1, <4>2, <4>3
    <3> QED
        BY <3>1, <3>2
  <2>14. \A i \in 1 .. k : memory'[IMAGE_RMODE + i - 1] = ClusterToLBA(chain[i])
      BY <2>4, <2>13
  <2>15. AtCluster'
      BY <1>2, <2>2, <2>11, <2>14 DEF AtCluster, ImageHas, ClusterToLBA, FATSector, TableSize
  <2>16. ImageHas(memory, ImageSize + 1)'
      BY <1>2, <2>13 DEF ImageHas
  <2>17. bx' = (imageBx' + 1) % Segment
      BY <1>2, <2>2, <2>9
  <2> QED
      BY <2>9, <2>10, <2>15, <2>16, <2>17 DEF Loading, RootLoaded, TablesLoading, FileLoading
<1> QED
    BY <1>1, <1>4, <1>5, <1>6

\* A failed read, and a call: memory stays as it is.
LEMMA CallsKept ==
    ASSUME Loading, ReadError \/ LoadRoot \/ LoadFile \/ LoadFile_Load
    PROVE  Loading'
<1>1. /\ chain \in Chains /\ memory' = memory
      /\ chain' = chain /\ endMark' = endMark /\ rootEntry' = rootEntry
      /\ pc \notin {"stage1", "halted"} /\ pc' \in {"read", "reboot"}
    BY DEF Loading, DiskTypes, ReadError, LoadRoot, LoadFile, LoadFile_Load, ReadSectors, disk
<1>2. DiskTypes' /\ StageKept'
    BY <1>1 DEF Loading, DiskTypes, StageKept
<1>3. ASSUME NEW count \in Nat \ {0}, cx' = count
      PROVE  cx' \in 1 .. count /\ count - cx' = 0
    BY <1>3
<1>4. CASE ReadError
  <2>1. /\ pc = "read" /\ back' = back /\ ax' = ax /\ cx' = cx /\ es' = es /\ bx' = bx
        /\ cluster' = cluster /\ imageBx' = imageBx /\ ImageSize' = ImageSize
        /\ pc' \in {"read", "reboot"}
      BY <1>4 DEF ReadError, file
  <2>2. RootLoaded'
      BY <1>1, <2>1 DEF Loading, RootLoaded, Reading, Holds, rootSector, rootSectors, FATSector
  <2>3. TablesLoading'
      BY <1>1, <2>1 DEF Loading, TablesLoading, Reading, Holds, FATSector, TableSize
  <2>4. FileLoading'
      BY <1>1, <2>1 DEF Loading, FileLoading, AtCluster, ImageHas, Reading, Holds, ClusterToLBA
  <2> QED
      BY <1>2, <2>2, <2>3, <2>4 DEF Loading
<1>5. CASE LoadRoot
  <2>1. /\ pc' = "read" /\ back' = "find" /\ cx' = rootSectors /\ ax' = rootSector
        /\ es' = ROOT_DIRECTORY /\ bx' = 0
      BY <1>5 DEF LoadRoot, ReadSectors
  <2>2. rootSectors \in Nat \ {0} /\ rootSector \in Nat
      BY Sizes
  <2>3. /\ cx' \in 1 .. rootSectors /\ ax' = rootSector + (rootSectors - cx')
        /\ bx' = 0 + (rootSectors - cx')
        /\ Holds(memory', rootSector, rootSectors - cx', ROOT_DIRECTORY + 0)
      BY <2>1, <2>2 DEF Holds
  <2>4. Reading(rootSector, rootSectors, ROOT_DIRECTORY, 0)'
      BY <2>1, <2>3 DEF Reading, Holds
  <2> QED
      BY <1>2, <2>1, <2>4 DEF Loading, RootLoaded, TablesLoading, FileLoading
<1>6. CASE LoadFile
  <2>1. /\ pc' = "read" /\ back' = "load" /\ cx' = TableSize /\ ax' = FATSector
        /\ es' = FAT_SEG /\ bx' = 0 /\ cluster' = chain'[1] /\ imageBx' = 0 /\ ImageSize' = 0
      BY <1>6, <1>1 DEF LoadFile, ReadSectors, TableSize
  <2>2. TableSize \in Nat \ {0} /\ FATSector \in Nat
      BY Sizes
  <2>3. /\ cx' \in 1 .. TableSize /\ ax' = FATSector + (TableSize - cx')
        /\ bx' = 0 + (TableSize - cx')
        /\ Holds(memory', FATSector, TableSize - cx', FAT_SEG + 0)
      BY <2>1, <2>2 DEF Holds
  <2>4. Reading(FATSector, TableSize, FAT_SEG, 0)'
      BY <2>1, <2>3 DEF Reading, Holds, FATSector, TableSize
  <2> QED
      BY <1>2, <2>1, <2>4 DEF Loading, RootLoaded, TablesLoading, FileLoading
<1>7. CASE LoadFile_Load
  <2>1. /\ pc = "load" /\ pc' = "read" /\ back' = "next" /\ cx' = 1 /\ ax' = ClusterToLBA(cluster)
        /\ es' = IMAGE_RMODE /\ bx' = imageBx
        /\ cluster' = cluster /\ imageBx' = imageBx /\ ImageSize' = ImageSize
      BY <1>7 DEF LoadFile_Load, ReadSectors, file
  <2>2. AtCluster
      BY <2>1 DEF Loading, FileLoading
  <2>3. AtCluster'
      BY <1>1, <2>1, <2>2 DEF AtCluster, ImageHas, Holds, ClusterToLBA, FATSector, TableSize
  <2>4. /\ ImageSize \in 0 .. (Len(chain) - 1) /\ imageBx = ImageSize
        /\ cluster = chain[ImageSize + 1]
      BY <2>2 DEF AtCluster
  <2>5. Len(chain) \in Nat \ {0} /\ \A i \in 1 .. Len(chain) : ClusterToLBA(chain[i]) \in Nat
      BY <1>1, ChainNumbers
  <2>6. ImageSize + 1 \in 1 .. Len(chain) /\ imageBx \in Nat
      BY <2>4, <2>5
  <2>7. ClusterToLBA(cluster) \in Nat
      BY <2>4, <2>5, <2>6
  <2>8. /\ cx' \in 1 .. 1 /\ ax' = ClusterToLBA(cluster) + (1 - cx') /\ bx' = imageBx + (1 - cx')
        /\ Holds(memory', ClusterToLBA(cluster), 1 - cx', IMAGE_RMODE + imageBx)
      BY <2>1, <2>6, <2>7 DEF Holds
  <2>9. Reading(ClusterToLBA(cluster), 1, IMAGE_RMODE, imageBx)'
      BY <2>1, <2>8 DEF Reading, Holds, ClusterToLBA
  <2> QED
      BY <1>2, <2>1, <2>3, <2>9 DEF Loading, RootLoaded, TablesLoading, FileLoading
<1> QED
    BY <1>4, <1>5, <1>6, <1>7

\* The entry is in the directory, so that it is found: the loader stops without it only.
LEMMA NotFoundKept ==
    ASSUME Loading, NotFound
    PROVE  Loading'
<1>1. /\ pc = "find" /\ pc' = "halted" /\ memory' = memory /\ rootEntry \in RootEntries
      /\ memory \in [Memory -> Int]
      /\ chain' = chain /\ endMark' = endMark /\ rootEntry' = rootEntry
      /\ Holds(memory, rootSector, rootSectors, ROOT_DIRECTORY)
    BY DEF NotFound, Loading, DiskTypes, RootLoaded, disk
<1>2. rootEntry = Nothing
  <2> SUFFICES ASSUME rootEntry # Nothing PROVE FALSE
      OBVIOUS
  <2> DEFINE q == rootEntry \div EntriesPerSector
             r == rootEntry % EntriesPerSector
  <2>1. /\ EntriesPerSector \in Nat \ {0} /\ rootSectors \in Nat \ {0} /\ rootSector \in Nat
        /\ NumDirEntries = EntriesPerSector * rootSectors
      BY Sizes
  <2>2. NumDirEntries \in Nat
      BY BpbAssumption
  <2>3. rootEntry \in 0 .. (NumDirEntries - 1)
    <3>1. rootEntry \in -1 .. (NumDirEntries - 1)
        BY <1>1, BootAssumption
    <3> QED
        BY <2>2, <3>1 DEF Nothing
  <2>4. /\ q \in Nat /\ r \in 0 .. (EntriesPerSector - 1)
        /\ rootEntry = EntriesPerSector * q + r
    <3>1. rootEntry \in Nat
        BY <2>2, <2>3
    <3> QED
        BY <2>1, <3>1, DivMod
  <2>5. q < rootSectors
    <3>1. rootEntry < rootSectors * EntriesPerSector /\ rootEntry \in Nat
        BY <2>1, <2>2, <2>3
    <3> QED
        BY <2>1, <3>1, DivBound
  <2>6. memory[ROOT_DIRECTORY + q] = rootSector + q
      BY <1>1, <2>1, <2>4, <2>5 DEF Holds
  <2>7. EntryInMemory(rootEntry) = (memory[ROOT_DIRECTORY + q] - rootSector) * EntriesPerSector + r
      BY DEF EntryInMemory
  <2> HIDE DEF q, r
  <2>8. (rootSector + q) - rootSector = q
      BY <2>1, <2>4
  <2>9. EntryInMemory(rootEntry) = q * EntriesPerSector + r
      BY <2>6, <2>7, <2>8
  <2>10. q * EntriesPerSector = EntriesPerSector * q
      BY <2>1, <2>4
  <2>11. Found(rootEntry)
      BY <2>4, <2>9, <2>10 DEF Found
  <2> QED
      BY <2>3, <2>11 DEF NotFound
<1>3. DiskTypes' /\ StageKept'
    BY <1>1, <1>2 DEF Loading, DiskTypes, StageKept
<1> QED
    BY <1>1, <1>3 DEF Loading, RootLoaded, TablesLoading, FileLoading

\* The table leads to the next cluster of the file, and to a mark after the last.
LEMMA NextKept ==
    ASSUME Loading, LoadFile_Next
    PROVE  Loading'
<1> DEFINE k == ImageSize
<1>1. /\ pc = "next" /\ ImageSize' = k + 1 /\ imageBx' = bx /\ cluster' = NextCluster(cluster)
      /\ pc' = (IF cluster' < 4080 THEN "load" ELSE "loaded") /\ memory' = memory /\ back' = back
      /\ chain' = chain /\ endMark' = endMark /\ rootEntry' = rootEntry
    BY DEF LoadFile_Next, disk
<1>2. /\ chain \in Chains /\ endMark \in EndMarks
      /\ AtCluster /\ ImageHas(memory, k + 1) /\ bx = (imageBx + 1) % Segment
    BY <1>1 DEF Loading, DiskTypes, FileLoading
<1>3. /\ k \in 0 .. (Len(chain) - 1) /\ imageBx = k /\ cluster = chain[k + 1]
      /\ Holds(memory, FATSector, TableSize, FAT_SEG)
    BY <1>2 DEF AtCluster
<1>4. /\ Len(chain) \in Nat \ {0} /\ Len(chain) <= Segment /\ Segment \in Nat \ {0}
      /\ \A i \in 1 .. Len(chain) : chain[i] \in Clusters /\ chain[i] \in Nat /\ chain[i] < 4080
    BY <1>2, ChainNumbers, Sizes
<1>5. k \in Nat /\ k + 1 \in 1 .. Len(chain)
    BY <1>3, <1>4
<1>6. cluster \in Clusters
    BY <1>3, <1>4, <1>5
<1>7. /\ fat \in Tables
      /\ fat[chain[k + 1]] = IF k + 1 = Len(chain) THEN endMark ELSE chain[(k + 1) + 1]
    BY <1>2, <1>5, TableLinks
<1>8. cluster' = fat[cluster]
    BY <1>1, <1>3, <1>6, <1>7, LinkRead
<1>9. DiskTypes' /\ StageKept'
    BY <1>1 DEF Loading, DiskTypes, StageKept
<1>10. ImageHas(memory, ImageSize)'
    BY <1>1, <1>2 DEF ImageHas, ClusterToLBA
<1>11. CASE k + 1 = Len(chain)
  <2>1. cluster' = endMark /\ endMark \in 4088 .. 4095
      BY <1>2, <1>3, <1>7, <1>8, <1>11, BootAssumption
  <2>2. pc' = "loaded"
      BY <1>1, <2>1
  <2> QED
      BY <1>1, <1>9, <1>10, <1>11, <2>2 DEF Loading, RootLoaded, TablesLoading, FileLoading
<1>12. CASE k + 1 # Len(chain)
  <2>1. (k + 1) + 1 \in 1 .. Len(chain) /\ k + 1 \in 0 .. (Len(chain) - 1) /\ k + 1 < Segment
      BY <1>4, <1>5, <1>12
  <2>2. cluster' = chain[(k + 1) + 1]
      BY <1>3, <1>7, <1>8, <1>12
  <2>3. cluster' \in Nat /\ cluster' < 4080
      BY <1>4, <2>1, <2>2
  <2>4. pc' = "load"
      BY <1>1, <2>3
  <2>5. imageBx' = k + 1
    <3>1. \A n \in Nat : n < Segment => n % Segment = n
        BY <1>4
    <3>2. (k + 1) % Segment = k + 1
        BY <1>5, <2>1, <3>1
    <3> QED
        BY <1>1, <1>2, <1>3, <3>2
  <2>6. AtCluster'
      BY <1>1, <1>3, <1>10, <2>1, <2>2, <2>5 DEF AtCluster, Holds, FATSector, TableSize
  <2> QED
      BY <1>9, <2>4, <2>6 DEF Loading, RootLoaded, TablesLoading, FileLoading
<1> QED
    BY <1>11, <1>12

LEMMA CopyKept ==
    ASSUME Loading, Initialise_PM
    PROVE  Loading'
<1>1. /\ pc = "loaded" /\ pc' = "kernel" /\ memory' = memory
      /\ kernel' = [i \in 1 .. ImageSize |-> memory[IMAGE_RMODE + i - 1]]
      /\ chain' = chain /\ endMark' = endMark /\ rootEntry' = rootEntry
    BY DEF Initialise_PM, disk
<1>2. chain \in Chains /\ ImageSize = Len(chain) /\ ImageHas(memory, ImageSize)
    BY <1>1 DEF Loading, DiskTypes, FileLoading
<1>3. DOMAIN chain = 1 .. Len(chain)
    BY <1>2, ChainNumbers
<1>4. \A i \in 1 .. ImageSize : memory[IMAGE_RMODE + i - 1] = ClusterToLBA(chain[i])
    BY <1>2 DEF ImageHas
<1>5. kernel' = [i \in DOMAIN chain |-> ClusterToLBA(chain[i])]
    BY <1>1, <1>2, <1>3, <1>4
<1>6. kernel' = [i \in DOMAIN chain' |-> ClusterToLBA(chain'[i])]
    BY <1>1, <1>5
<1>7. DiskTypes' /\ StageKept'
    BY <1>1 DEF Loading, DiskTypes, StageKept
<1> QED
    BY <1>1, <1>6, <1>7 DEF Loading, RootLoaded, TablesLoading, FileLoading, ClusterToLBA

LEMMA StutterKept == Loading /\ UNCHANGED vars => Loading'
<1> SUFFICES ASSUME Loading, UNCHANGED vars PROVE Loading'
    OBVIOUS
<1> USE DEF vars, disk, registers, file
<1>1. DiskTypes' /\ StageKept'
    BY DEF Loading, DiskTypes, StageKept
<1>2. RootLoaded' /\ TablesLoading'
    BY DEF Loading, RootLoaded, TablesLoading, Reading, Holds
<1>3. FileLoading'
    BY DEF Loading, FileLoading, AtCluster, ImageHas, Reading, Holds, ClusterToLBA
<1> QED
    BY <1>1, <1>2, <1>3 DEF Loading

\* What is started is the file, all of it and in order, whatever had to be read again and
\* wherever its clusters are; the loader, which still runs, is spared; and it stops without
\* starting anything only if the file or the second stage is not there (LoadFile,
\* Initialise_PM).
THEOREM KernelWhole == Spec => []KernelIsWhole
<1>1. Init => Loading
    BY InitLoading
<1>2. Loading /\ [Next]_vars => Loading'
    BY StageRead, SectorKept, CallsKept, NotFoundKept, NextKept, CopyKept, StutterKept
       DEF Next, AttemptRead, Second_Stage
<1>3. Loading => KernelIsWhole
    BY DEF Loading, StageKept, FileLoading, KernelIsWhole
<1> QED
    BY <1>1, <1>2, <1>3, PTL DEF Spec

=============================================================================
