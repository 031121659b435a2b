-------------------------- MODULE Fat12FileProofs --------------------------
(***************************************************************************)
(* Theorems about Fat12File for every layout of the disk, every chain of   *)
(* clusters, all lengths and any number of reads that fail.                *)
(***************************************************************************)
EXTENDS Fat12File, WellFoundedInduction, TLAPS

-----------------------------------------------------------------------------
(* Arithmetic.                                                             *)

LEMMA DivMod ==
    ASSUME NEW a \in Nat, NEW b \in Nat \ {0}
    PROVE  /\ a \div b \in Nat /\ a % b \in 0 .. (b - 1)
           /\ a = b * (a \div b) + (a % b)
    BY SMT

LEMMA DivUnique ==
    ASSUME NEW m \in Nat, NEW b \in Nat \ {0}, NEW r \in 0 .. (b - 1)
    PROVE  (b * m + r) \div b = m /\ (b * m + r) % b = r
    BY SMT

LEMMA DivBound ==
    ASSUME NEW a \in Nat, NEW b \in Nat \ {0}, NEW s \in Nat, a < s * b
    PROVE  a \div b < s
    BY SMT

\* The entries are in pairs of three bytes.
LEMMA Pairs == \E k \in Nat : SectorsPerFat * BytesPerSector = 3 * k /\ FatEntries = 2 * k
<1> DEFINE size == SectorsPerFat * BytesPerSector
<1>1. size \in Nat
    BY BpbAssumption
<1>2. size % 3 = 0
    BY BpbAssumption
<1>3. PICK k \in Nat : size = 3 * k
    BY <1>1, <1>2, SMT
<1>4. FatEntries = (size * 2) \div 3
    BY DEF FatEntries
<1> HIDE DEF size
<1>5. (size * 2) \div 3 = 2 * k
    BY <1>1, <1>3, SMT
<1> QED
    BY <1>3, <1>4, <1>5 DEF size

-----------------------------------------------------------------------------
(* Entries of the table.                                                   *)

\* The three bytes of a pair.
LEMMA PackedBytes ==
    ASSUME NEW f \in Tables, NEW m \in Nat, 2 * m < FatEntries
    PROVE  /\ f[2 * m] \in EntryValues /\ f[2 * m + 1] \in EntryValues
           /\ PackedByte(f, 3 * m) = f[2 * m] % 256
           /\ PackedByte(f, 3 * m + 1) = (f[2 * m] \div 256) + 16 * (f[2 * m + 1] % 16)
           /\ PackedByte(f, 3 * m + 2) = f[2 * m + 1] \div 16
<1>1. PICK k \in Nat : FatEntries = 2 * k
    BY Pairs
<1>2. 2 * m \in Clusters /\ 2 * m + 1 \in Clusters
    BY <1>1 DEF Clusters
<1>3. f[2 * m] \in EntryValues /\ f[2 * m + 1] \in EntryValues
    BY <1>2 DEF Tables
<1>4. /\ (3 * m) \div 3 = m /\ (3 * m + 1) \div 3 = m /\ (3 * m + 2) \div 3 = m
      /\ (3 * m) % 3 = 0 /\ (3 * m + 1) % 3 = 1 /\ (3 * m + 2) % 3 = 2
    BY SMT
<1> QED
    BY <1>3, <1>4 DEF PackedByte

LEMMA ByteRange ==
    ASSUME NEW f \in Tables, NEW i \in Nat, i < SectorsPerFat * BytesPerSector
    PROVE  PackedByte(f, i) \in ByteValues
<1> DEFINE m == i \div 3
<1>1. PICK k \in Nat : SectorsPerFat * BytesPerSector = 3 * k /\ FatEntries = 2 * k
    BY Pairs
<1>2. m \in Nat /\ (i = 3 * m \/ i = 3 * m + 1 \/ i = 3 * m + 2) /\ 2 * m < FatEntries
    BY <1>1, SMT
<1> HIDE DEF m
<1>3. /\ f[2 * m] \in EntryValues /\ f[2 * m + 1] \in EntryValues
      /\ PackedByte(f, 3 * m) = f[2 * m] % 256
      /\ PackedByte(f, 3 * m + 1) = (f[2 * m] \div 256) + 16 * (f[2 * m + 1] % 16)
      /\ PackedByte(f, 3 * m + 2) = f[2 * m + 1] \div 16
    BY <1>2, PackedBytes
<1>4. ASSUME NEW e \in EntryValues, NEW o \in EntryValues
      PROVE  /\ e % 256 \in 0 .. 255
             /\ (e \div 256) + 16 * (o % 16) \in 0 .. 255
             /\ o \div 16 \in 0 .. 255
  <2>1. e \in Nat /\ o \in Nat /\ e < 4096 /\ o < 4096
      BY DEF EntryValues
  <2>2. e % 256 \in 0 .. 255 /\ o \div 16 \in 0 .. 255
      BY <2>1, SMT
  <2>3. e \div 256 \in 0 .. 15 /\ o % 16 \in 0 .. 15
      BY <2>1, SMT
  <2> QED
      BY <2>2, <2>3, SMT
<1> QED
    BY <1>2, <1>3, <1>4 DEF ByteValues

\* Decoding inverts packing.
LEMMA Decoded ==
    ASSUME NEW f \in Tables, NEW n \in Clusters
    PROVE  JoinBytes(n, PackedByte(f, firstByteIndex(n)), PackedByte(f, secondByteIndex(n)))
               = f[n]
<1> DEFINE m == n \div 2
<1>1. m \in Nat /\ ((n = 2 * m /\ n % 2 = 0) \/ (n = 2 * m + 1 /\ n % 2 = 1)) /\ 2 * m < FatEntries
    BY Pairs, SMT DEF Clusters
<1>2. /\ n % 2 = 0 => firstByteIndex(n) = 3 * m /\ secondByteIndex(n) = 3 * m + 1
      /\ n % 2 = 1 => firstByteIndex(n) = 3 * m + 1 /\ secondByteIndex(n) = 3 * m + 2
    BY <1>1 DEF firstByteIndex, secondByteIndex
<1> HIDE DEF m
<1>3. /\ f[2 * m] \in EntryValues /\ f[2 * m + 1] \in EntryValues
      /\ PackedByte(f, 3 * m) = f[2 * m] % 256
      /\ PackedByte(f, 3 * m + 1) = (f[2 * m] \div 256) + 16 * (f[2 * m + 1] % 16)
      /\ PackedByte(f, 3 * m + 2) = f[2 * m + 1] \div 16
    BY <1>1, PackedBytes
<1>4. \A e, o \in EntryValues :
          /\ (e % 256) + 256 * (((e \div 256) + 16 * (o % 16)) % 16) = e
          /\ (((e \div 256) + 16 * (o % 16)) \div 16) + 16 * (o \div 16) = o
  <2> SUFFICES ASSUME NEW e \in Nat, NEW o \in Nat, e < 4096, o < 4096
               PROVE  /\ (e % 256) + 256 * (((e \div 256) + 16 * (o % 16)) % 16) = e
                      /\ (((e \div 256) + 16 * (o % 16)) \div 16) + 16 * (o \div 16) = o
      BY DEF EntryValues
  <2> QED
      BY SMT
<1>5. CASE n % 2 = 0
    BY <1>1, <1>2, <1>3, <1>4, <1>5 DEF JoinBytes
<1>6. CASE n % 2 = 1
    BY <1>1, <1>2, <1>3, <1>4, <1>6 DEF JoinBytes
<1> QED
    BY <1>1, <1>5, <1>6

LEMMA JoinRange ==
    ASSUME NEW n \in Nat, NEW first \in ByteValues, NEW second \in ByteValues
    PROVE  JoinBytes(n, first, second) \in EntryValues
    BY SMT DEF JoinBytes, EntryValues, ByteValues

TableSectors == FATSector .. (FATSector + SectorsPerFat - 1)

\* A byte of the table is in a sector of the table.
LEMMA BytePlace ==
    ASSUME NEW f \in Tables, NEW i \in Nat, i < SectorsPerFat * BytesPerSector
    PROVE  /\ SectorOfByte(i) \in TableSectors /\ SectorOfByte(i) \in Nat
           /\ ByteAt(f, SectorOfByte(i), i) = PackedByte(f, i)
<1> DEFINE q == i \div BytesPerSector
           r == i % BytesPerSector
<1>1. q \in Nat /\ r \in 0 .. (BytesPerSector - 1) /\ i = BytesPerSector * q + r
    BY DivMod, BpbAssumption
<1>2. q < SectorsPerFat
    BY DivBound, BpbAssumption
<1>3. SectorOfByte(i) = ReservedSectors + q
    BY DEF SectorOfByte, FATSector
<1> HIDE DEF q
<1>4. SectorOfByte(i) \in TableSectors /\ SectorOfByte(i) \in Nat
    BY <1>1, <1>2, <1>3, BpbAssumption DEF TableSectors, FATSector
<1>5. (SectorOfByte(i) - FATSector) * BytesPerSector + r = i
    BY <1>1, <1>3, BpbAssumption DEF FATSector
<1> QED
    BY <1>4, <1>5 DEF ByteAt, SectorByte, TableSectors

LEMMA SectorBytes ==
    ASSUME NEW f \in Tables, NEW sector \in TableSectors, NEW i \in Nat
    PROVE  ByteAt(f, sector, i) \in ByteValues
<1> DEFINE r == i % BytesPerSector
           q == sector - FATSector
<1>1. r \in 0 .. (BytesPerSector - 1)
    BY DivMod, BpbAssumption
<1>2. q \in 0 .. (SectorsPerFat - 1)
    BY BpbAssumption DEF TableSectors, FATSector
<1>3. ByteAt(f, sector, i) = PackedByte(f, q * BytesPerSector + r)
    BY DEF ByteAt, SectorByte, TableSectors
<1> HIDE DEF r, q
<1>4. q * BytesPerSector + r \in Nat /\ q * BytesPerSector + r < SectorsPerFat * BytesPerSector
  <2>1. q * BytesPerSector \in Nat /\ (q + 1) * BytesPerSector <= SectorsPerFat * BytesPerSector
      BY <1>2, BpbAssumption, SMT
  <2>2. (q + 1) * BytesPerSector = q * BytesPerSector + BytesPerSector
      BY <1>2, BpbAssumption, SMT
  <2> QED
      BY <1>1, <2>1, <2>2, BpbAssumption
<1> QED
    BY <1>3, <1>4, ByteRange

\* The bytes of an entry are in the table.
LEMMA EntryBytes ==
    ASSUME NEW n \in Clusters
    PROVE  /\ firstByteIndex(n) \in Nat /\ firstByteIndex(n) < SectorsPerFat * BytesPerSector
           /\ secondByteIndex(n) \in Nat /\ secondByteIndex(n) < SectorsPerFat * BytesPerSector
<1>1. PICK k \in Nat : SectorsPerFat * BytesPerSector = 3 * k /\ FatEntries = 2 * k
    BY Pairs
<1> QED
    BY <1>1, SMT DEF firstByteIndex, secondByteIndex, Clusters

-----------------------------------------------------------------------------
(* The layout.                                                             *)

LEMMA Layout ==
    /\ FatEntries \in Nat /\ FATSector \in Nat /\ rootSector \in Nat /\ dataSector \in Nat
    /\ FATSector + SectorsPerFat <= dataSector
<1> DEFINE dir == (NumDirEntries * DirectoryEntrySize + BytesPerSector - 1) \div BytesPerSector
           tables == SectorsPerFat * NumberOfFats
<1>1. NumDirEntries * DirectoryEntrySize + BytesPerSector - 1 \in Nat
    BY BpbAssumption, SMT DEF DirectoryEntrySize
<1>2. dir \in Nat
    BY <1>1, DivMod, BpbAssumption
<1>3. tables \in Nat /\ SectorsPerFat <= tables
    BY BpbAssumption, SMT
<1>4. FatEntries \in Nat
    BY Pairs, SMT
<1>5. rootSector = FATSector + tables /\ dataSector = rootSector + dir
    BY DEF rootSector, dataSector
<1>6. FATSector \in Nat
    BY BpbAssumption DEF FATSector
<1> HIDE DEF dir, tables
<1> QED
    BY <1>2, <1>3, <1>4, <1>5, <1>6, BpbAssumption

LEMMA Concatenation ==
    ASSUME NEW s \in Seq(Int), NEW t \in Seq(Int)
    PROVE  /\ s \o t \in Seq(Int) /\ Len(s \o t) = Len(s) + Len(t)
           /\ \A j \in 1 .. Len(s) : (s \o t)[j] = s[j]
           /\ \A j \in 1 .. Len(t) : (s \o t)[Len(s) + j] = t[j]
    BY SMT

-----------------------------------------------------------------------------
(* The chain.                                                              *)

\* A cluster of a chain is a cluster of the data.
LEMMA ChainClusters ==
    ASSUME NEW file \in Chains, NEW i \in 1 .. Len(file)
    PROVE  /\ file[i] \in Clusters /\ file[i] \in EntryValues /\ file[i] \in Nat
           /\ ~INVALID_CLUSTER(file[i]) /\ ~SPECIAL_CLUSTER(file[i])
           /\ ReadCluster(file[i]) = dataSector + file[i] - 2
           /\ ReadCluster(file[i]) \in Nat /\ ReadCluster(file[i]) \notin TableSectors
<1> DEFINE c == file[i]
           S == 2 .. (FatEntries - 1)
<1>1. file \in Seq(S) /\ FatEntries <= 4080
    BY FileAssumption
<1>2. /\ FatEntries \in Nat /\ FATSector \in Nat /\ dataSector \in Nat
      /\ FATSector + SectorsPerFat <= dataSector
    BY Layout
<1> HIDE DEF S
<1>3. c \in S
    BY <1>1
<1>4. c \in Nat /\ 2 <= c /\ c < FatEntries /\ c < 4080
    BY <1>1, <1>2, <1>3 DEF S
<1> HIDE DEF c
<1>5. c \in Clusters /\ c \in EntryValues /\ ~INVALID_CLUSTER(c) /\ ~SPECIAL_CLUSTER(c)
    BY <1>2, <1>4 DEF Clusters, EntryValues, INVALID_CLUSTER, SPECIAL_CLUSTER
<1>6. ReadCluster(c) = dataSector + c - 2
    BY <1>5 DEF ReadCluster
<1>7. ReadCluster(c) \in Nat /\ ReadCluster(c) \notin TableSectors
    BY <1>2, <1>4, <1>6, BpbAssumption DEF TableSectors
<1> QED
    BY <1>4, <1>5, <1>6, <1>7 DEF c

LEMMA ChainIsSequence ==
    ASSUME NEW file \in Chains
    PROVE  file \in Seq(Nat) /\ file # <<>> /\ Len(file) \in Nat \ {0}
<1>1. file \in Seq(2 .. (FatEntries - 1)) /\ file # <<>>
    BY FileAssumption
<1>2. Len(file) \in Nat /\ DOMAIN file = 1 .. Len(file)
    BY <1>1
<1>3. \A i \in 1 .. Len(file) : file[i] \in Nat
    BY ChainClusters
<1>4. file = [i \in 1 .. Len(file) |-> file[i]]
    BY <1>1
<1> QED
    BY <1>1, <1>2, <1>3, <1>4

\* Each cluster but the last links to the next.
TableFollows == \A i \in 1 .. (Len(chain) - 1) : fat[chain[i]] = chain[i + 1]

LEMMA InitialTable ==
    ASSUME NEW file \in Chains, NEW endMark \in EndMarks
    PROVE  /\ TableFor(file, endMark) \in Tables
           /\ \A i \in 1 .. (Len(file) - 1) : TableFor(file, endMark)[file[i]] = file[i + 1]
<1> DEFINE place(n) == CHOOSE j \in DOMAIN file : file[j] = n
           entry(n) == IF \E k \in DOMAIN file : file[k] = n
                       THEN IF place(n) = Len(file) THEN endMark ELSE file[place(n) + 1]
                       ELSE OtherEntry
<1>1. TableFor(file, endMark) = [n \in Clusters |-> entry(n)]
    BY DEF TableFor, Clusters
<1>2. Len(file) \in Nat \ {0} /\ DOMAIN file = 1 .. Len(file)
    BY ChainIsSequence
<1>3. \A i \in 1 .. Len(file) : file[i] \in Clusters /\ file[i] \in EntryValues
    BY ChainClusters
<1>4. endMark \in EntryValues /\ OtherEntry \in EntryValues
    BY FileAssumption
<1>5. ASSUME NEW i \in 1 .. Len(file)
      PROVE  place(file[i]) = i
  <2>1. \A j, k \in 1 .. Len(file) : file[j] = file[k] => j = k
      BY FileAssumption
  <2>2. place(file[i]) \in DOMAIN file /\ file[place(file[i])] = file[i]
      BY <1>2
  <2> QED
      BY <1>2, <2>1, <2>2
<1> HIDE DEF place
<1>6. ASSUME NEW n \in Clusters
      PROVE  entry(n) \in EntryValues
  <2>1. CASE \E i \in DOMAIN file : file[i] = n
    <3>1. PICK i \in 1 .. Len(file) : file[i] = n
        BY <2>1, <1>2
    <3>2. place(n) = i
        BY <3>1, <1>5
    <3>3. entry(n) = IF i = Len(file) THEN endMark ELSE file[i + 1]
        BY <2>1, <3>2
    <3>4. i # Len(file) => i + 1 \in 1 .. Len(file)
      <4>1. Len(file) \in Nat /\ i \in Nat /\ 1 <= i /\ i <= Len(file)
          BY <1>2
      <4> QED
          BY <4>1
    <3>5. i # Len(file) => file[i + 1] \in EntryValues
        BY <3>4, <1>3
    <3>6. CASE i = Len(file)
        BY <3>3, <3>6, <1>4
    <3>7. CASE i # Len(file)
        BY <3>3, <3>7, <3>5
    <3> QED
        BY <3>6, <3>7
  <2>2. CASE ~ \E i \in DOMAIN file : file[i] = n
      BY <2>2, <1>4
  <2> QED
      BY <2>1, <2>2
<1>7. ASSUME NEW i \in 1 .. (Len(file) - 1)
      PROVE  entry(file[i]) = file[i + 1]
  <2>1. i \in DOMAIN file /\ i \in 1 .. Len(file) /\ i # Len(file)
    <3>1. Len(file) \in Nat
        BY <1>2
    <3>2. i \in 1 .. Len(file) /\ i # Len(file)
        BY <3>1
    <3> QED
        BY <3>2, <1>2
  <2>2. place(file[i]) = i
      BY <2>1, <1>5
  <2>3. \E j \in DOMAIN file : file[j] = file[i]
      BY <2>1
  <2>4. entry(file[i]) = IF place(file[i]) = Len(file) THEN endMark ELSE file[place(file[i]) + 1]
      BY <2>3
  <2> QED
      BY <2>1, <2>2, <2>4
<1> HIDE DEF entry
<1>8. TableFor(file, endMark) \in Tables
    BY <1>1, <1>6 DEF Tables
<1>9. \A i \in 1 .. (Len(file) - 1) : file[i] \in Clusters
    BY <1>2, <1>3
<1> QED
    BY <1>1, <1>7, <1>8, <1>9

-----------------------------------------------------------------------------
(* The types.                                                              *)

\* The types in three groups, which the steps treat apart.
DiskTypes == chain \in Chains /\ fat \in Tables

BufferTypes == buffer \in Seq(Int) /\ stream \in Seq(Int)

NumberTypes ==
    /\ pc \in {"returned", "cluster", "copy", "link", "first", "second", "check"}
    /\ CurrentCluster \in EntryValues /\ Position \in 0 .. BytesPerSector /\ Eof \in BOOLEAN
    /\ length \in Lengths \cup {0} /\ totalRead \in 0 .. length
    /\ dmaBuffer \in Nat /\ lastReadSector \in Nat
    /\ nullPointer \in BOOLEAN /\ failures \in 0 .. MaxFailures /\ firstByte \in ByteValues

LEMMA TypeGroups == TypeOK <=> DiskTypes /\ BufferTypes /\ NumberTypes
    BY Zenon DEF TypeOK, DiskTypes, BufferTypes, NumberTypes

-----------------------------------------------------------------------------
(* Reading a sector.                                                       *)

LEMMA ReadSector ==
    ASSUME TypeOK, NEW lba \in Nat, FloppyDriveReadSector(lba)
    PROVE  /\ dmaBuffer' \in Nat /\ lastReadSector' \in Nat /\ nullPointer' \in BOOLEAN
           /\ failures' \in 0 .. MaxFailures
           /\ lastReadSector' = lba /\ (failures' = 0 => failures = 0)
           /\ failures' = 0 /\ dmaBuffer = lastReadSector => dmaBuffer' = lba /\ ~nullPointer'
<1>1. /\ MaxFailures \in Nat /\ failures \in 0 .. MaxFailures
      /\ dmaBuffer \in Nat /\ lastReadSector \in Nat
    BY FileAssumption DEF TypeOK
<1>2. CASE lba = lastReadSector /\ nullPointer' = FALSE /\ UNCHANGED <<dmaBuffer, failures>>
    BY <1>1, <1>2 DEF FloppyDriveReadSector
<1>3. CASE dmaBuffer' = lba /\ nullPointer' = FALSE /\ UNCHANGED failures
    BY <1>1, <1>3 DEF FloppyDriveReadSector
<1>4. CASE /\ failures < MaxFailures /\ failures' = failures + 1
           /\ nullPointer' \in BOOLEAN /\ UNCHANGED dmaBuffer
    BY <1>1, <1>4 DEF FloppyDriveReadSector
<1> QED
    BY <1>2, <1>3, <1>4 DEF FloppyDriveReadSector

LEMMA ByteIndices ==
    ASSUME NEW n \in Nat
    PROVE  /\ firstByteIndex(n) \in Nat /\ secondByteIndex(n) \in Nat
           /\ SectorOfByte(firstByteIndex(n)) \in Nat /\ SectorOfByte(secondByteIndex(n)) \in Nat
<1>1. firstByteIndex(n) \in Nat /\ secondByteIndex(n) \in Nat
    BY DivMod DEF firstByteIndex, secondByteIndex
<1>2. \A i \in Nat : SectorOfByte(i) \in Nat
  <2> TAKE i \in Nat
  <2>1. i \div BytesPerSector \in Nat
      BY DivMod, BpbAssumption
  <2> QED
      BY <2>1, BpbAssumption DEF SectorOfByte, FATSector
<1> QED
    BY <1>1, <1>2

LEMMA TableBytes ==
    ASSUME TypeOK, NEW i \in Nat
    PROVE  TableByte(i) \subseteq ByteValues
<1>1. fat \in Tables
    BY TypeGroups DEF DiskTypes
<1>2. CASE nullPointer \/ dmaBuffer \notin TableSectors
  <2>1. TableByte(i) = JunkBytes
      BY <1>2, Zenon DEF TableByte, TableSectors
  <2> QED
      BY <2>1, FileAssumption
<1>3. CASE ~nullPointer /\ dmaBuffer \in TableSectors
    BY <1>1, <1>3, SectorBytes DEF TableByte, TableSectors
<1> QED
    BY <1>2, <1>3

LEMMA PointedBytes ==
    ASSUME TypeOK, NEW offset \in Nat, offset < BytesPerSector
    PROVE  PointedTo(offset) \in Int
<1>1. fat \in Tables /\ dmaBuffer \in Nat
    BY TypeGroups DEF DiskTypes, NumberTypes
<1>2. DataByte(dmaBuffer, offset) \in Int
    BY <1>1, BpbAssumption, SMT DEF DataByte
<1>3. CASE dmaBuffer \in TableSectors
  <2>1. offset % BytesPerSector = offset
      BY BpbAssumption, SMT
  <2>2. ByteAt(fat, dmaBuffer, offset) \in ByteValues
      BY <1>1, <1>3, SectorBytes
  <2> QED
      BY <2>1, <2>2, SMT DEF ByteAt, PointedTo, NoSector, ByteValues
<1>4. CASE dmaBuffer \notin TableSectors
    BY <1>2, <1>4 DEF PointedTo, NoSector, SectorByte, TableSectors
<1> QED
    BY <1>3, <1>4

-----------------------------------------------------------------------------
(* The types, and the filling of the buffer.                               *)

\* Inside of a turn of the loop there is something left to read; the position is in
\* the cluster, or just after it until the link has been followed.
LoopTurns ==
    /\ pc \in {"cluster", "copy"} => totalRead < length
    /\ pc \in {"link", "first", "second"} => Position = BytesPerSector
    /\ pc \in {"returned", "cluster", "copy", "check"} => Position < BytesPerSector

Filling ==
    /\ pc # "returned" => Len(buffer) = totalRead
    /\ BufferIsFilled

LEMMA Amount ==
    ASSUME TypeOK, LoopTurns, pc = "copy"
    PROVE  /\ amountToRead \in Nat \ {0}
           /\ totalRead + amountToRead \in 0 .. length
           /\ Position + amountToRead \in 0 .. BytesPerSector
           /\ \A j \in 1 .. amountToRead :
                  Position + j - 1 \in Nat /\ Position + j - 1 < BytesPerSector
<1>1. length \in Nat /\ totalRead \in Nat /\ totalRead < length
    BY FileAssumption DEF TypeOK, LoopTurns
<1>2. BytesPerSector \in Nat /\ Position \in Nat /\ Position < BytesPerSector
    BY BpbAssumption DEF TypeOK, LoopTurns
<1>3. CASE Position + (length - totalRead) < BytesPerSector
  <2>1. amountToRead = length - totalRead
      BY <1>3 DEF amountToRead
  <2> QED
      BY <1>1, <1>2, <1>3, <2>1
<1>4. CASE ~(Position + (length - totalRead) < BytesPerSector)
  <2>1. amountToRead = BytesPerSector - Position
      BY <1>4 DEF amountToRead
  <2> QED
      BY <1>1, <1>2, <1>4, <2>1
<1> QED
    BY <1>3, <1>4

LEMMA NumbersKept ==
    ASSUME TypeOK, LoopTurns, [Next]_vars
    PROVE  NumberTypes' /\ LoopTurns'
<1>0. NumberTypes
    BY TypeGroups
<1> USE <1>0 DEF NumberTypes
<1>1. /\ BytesPerSector \in Nat \ {0} /\ MaxFailures \in Nat /\ Lengths \subseteq Nat \ {0}
      /\ length \in Nat /\ CurrentCluster \in Nat
    BY BpbAssumption, FileAssumption DEF EntryValues
<1>2. ASSUME NEW n \in Lengths, Call(n)
      PROVE  NumberTypes' /\ LoopTurns'
    BY <1>1, <1>2 DEF Call, diskVars, FILEVars, driverVars, LoopTurns
<1>3. CASE FsFat12_ReadCluster
  <2>1. dmaBuffer' \in Nat /\ lastReadSector' \in Nat /\ nullPointer' \in BOOLEAN
        /\ failures' \in 0 .. MaxFailures
    <3>1. CASE INVALID_CLUSTER(CurrentCluster)
        BY <1>3, <3>1 DEF FsFat12_ReadCluster
    <3>2. CASE ~INVALID_CLUSTER(CurrentCluster)
      <4>1. ReadCluster(CurrentCluster) \in Nat
          BY <3>2, <1>1, Layout DEF ReadCluster, INVALID_CLUSTER
      <4> QED
          BY <1>3, <3>2, <4>1, ReadSector DEF FsFat12_ReadCluster
    <3> QED
        BY <3>1, <3>2
  <2> QED
      BY <1>3, <2>1 DEF FsFat12_ReadCluster, diskVars, FILEVars, LoopTurns
<1>4. CASE CopyData
  <2>1. /\ amountToRead \in Nat \ {0} /\ totalRead + amountToRead \in 0 .. length
        /\ Position + amountToRead \in 0 .. BytesPerSector
        /\ \A j \in 1 .. amountToRead :
               Position + j - 1 \in Nat /\ Position + j - 1 < BytesPerSector
      BY <1>4, Amount DEF CopyData
  <2>2. /\ Position' = Position + amountToRead /\ totalRead' = totalRead + amountToRead
        /\ pc' = IF Position' >= BytesPerSector THEN "link" ELSE "check"
        /\ UNCHANGED <<diskVars, CurrentCluster, Eof, length, driverVars, firstByte>>
      BY <1>4 DEF CopyData
  <2> QED
      BY <1>1, <2>1, <2>2 DEF diskVars, driverVars, LoopTurns
<1>5. CASE ReadFirstSector
  <2>1. dmaBuffer' \in Nat /\ lastReadSector' \in Nat /\ nullPointer' \in BOOLEAN
        /\ failures' \in 0 .. MaxFailures
      BY <1>1, <1>5, ByteIndices, ReadSector DEF ReadFirstSector
  <2> QED
      BY <1>5, <2>1 DEF ReadFirstSector, diskVars, FILEVars, LoopTurns
<1>6. CASE ReadSecondSector
  <2>1. dmaBuffer' \in Nat /\ lastReadSector' \in Nat /\ nullPointer' \in BOOLEAN
        /\ failures' \in 0 .. MaxFailures
    <3> DEFINE secondSector == SectorOfByte(secondByteIndex(CurrentCluster))
    <3>1. secondSector \in Nat
        BY <1>1, ByteIndices
    <3>2. UNCHANGED driverVars \/ FloppyDriveReadSector(secondSector)
        BY <1>6 DEF ReadSecondSector
    <3> QED
        BY <3>1, <3>2, ReadSector DEF driverVars
  <2>2. firstByte' \in ByteValues
      BY <1>1, <1>6, ByteIndices, TableBytes DEF ReadSecondSector
  <2> QED
      BY <1>6, <2>1, <2>2 DEF ReadSecondSector, diskVars, FILEVars, LoopTurns
<1>7. CASE FollowLink
  <2>1. CurrentCluster' \in EntryValues
    <3>1. PICK secondByte \in TableByte(secondByteIndex(CurrentCluster)) :
              CurrentCluster' = JoinBytes(CurrentCluster, firstByte, secondByte)
        BY <1>7 DEF FollowLink
    <3>2. secondByte \in ByteValues
        BY <1>1, <3>1, ByteIndices, TableBytes
    <3>3. JoinBytes(CurrentCluster, firstByte, secondByte) \in EntryValues
        BY <1>1, <3>2, JoinRange
    <3> QED
        BY <3>1, <3>3 DEF EntryValues
  <2> QED
      BY <1>1, <1>7, <2>1 DEF FollowLink, diskVars, driverVars, LoopTurns
<1>8. CASE InvalidLink
    BY <1>1, <1>8 DEF InvalidLink, diskVars, driverVars, LoopTurns, EntryValues
<1>9. CASE EndOfChain
    BY <1>9 DEF EndOfChain, diskVars, driverVars, LoopTurns
<1>10. CASE NextPart
    BY <1>1, <1>10 DEF NextPart, diskVars, FILEVars, driverVars, LoopTurns
<1>11. CASE UNCHANGED vars
    BY <1>11 DEF vars, diskVars, FILEVars, driverVars, LoopTurns
<1> QED
    BY <1>2, <1>3, <1>4, <1>5, <1>6, <1>7, <1>8, <1>9, <1>10, <1>11 DEF Next, FsFat12_Read

LEMMA BuffersKept ==
    ASSUME TypeOK, LoopTurns, [Next]_vars
    PROVE  BufferTypes' /\ DiskTypes'
<1>1. DiskTypes /\ BufferTypes /\ length \in Nat /\ totalRead \in 0 .. length
  <2>1. DiskTypes /\ BufferTypes /\ NumberTypes
      BY TypeGroups
  <2> QED
      BY <2>1, FileAssumption DEF NumberTypes
<1>2. CASE CopyData
  <2> DEFINE data == [j \in 1 .. amountToRead |-> PointedTo(Position + j - 1)]
  <2>1. /\ amountToRead \in Nat
        /\ \A j \in 1 .. amountToRead :
               Position + j - 1 \in Nat /\ Position + j - 1 < BytesPerSector
      BY <1>2, Amount DEF CopyData
  <2>2. \A j \in 1 .. amountToRead : PointedTo(Position + j - 1) \in Int
      BY <2>1, PointedBytes
  <2>3. data \in Seq(Int)
      BY <2>1, <2>2
  <2>4. buffer' = buffer \o data /\ stream' = stream \o data /\ UNCHANGED diskVars
      BY <1>2 DEF CopyData
  <2> HIDE DEF data
  <2> QED
      BY <1>1, <2>3, <2>4 DEF BufferTypes, DiskTypes, diskVars
<1>3. CASE EndOfChain
  <2> DEFINE zeros == [j \in 1 .. (length - totalRead) |-> 0]
  <2>1. length - totalRead \in Nat
      BY <1>1
  <2>2. zeros \in Seq(Int)
      BY <2>1
  <2>3. buffer' = buffer \o zeros /\ UNCHANGED <<diskVars, stream>>
      BY <1>3 DEF EndOfChain
  <2> HIDE DEF zeros
  <2> QED
      BY <1>1, <2>2, <2>3 DEF BufferTypes, DiskTypes, diskVars
<1>4. ASSUME NEW n \in Lengths, Call(n)
      PROVE  BufferTypes' /\ DiskTypes'
  <2>1. buffer' = <<>> /\ UNCHANGED <<diskVars, stream>>
      BY <1>4 DEF Call
  <2> QED
      BY <1>1, <2>1 DEF BufferTypes, DiskTypes, diskVars
<1>5. CASE ~CopyData /\ ~EndOfChain /\ ~(\E n \in Lengths : Call(n))
  <2>1. UNCHANGED <<chain, fat, buffer, stream>>
      BY <1>5 DEF Next, FsFat12_Read, FsFat12_ReadCluster, ReadFirstSector, ReadSecondSector,
                  FollowLink, InvalidLink, NextPart, vars, diskVars
  <2> QED
      BY <1>1, <2>1 DEF BufferTypes, DiskTypes
<1> QED
    BY <1>2, <1>3, <1>4, <1>5

LEMMA TypesKept ==
    ASSUME TypeOK, LoopTurns, [Next]_vars
    PROVE  TypeOK' /\ LoopTurns'
<1>1. NumberTypes' /\ LoopTurns'
    BY NumbersKept
<1>2. BufferTypes' /\ DiskTypes'
    BY BuffersKept
<1>3. TypeOK' <=> (DiskTypes /\ BufferTypes /\ NumberTypes)'
    BY Zenon DEF TypeOK, DiskTypes, BufferTypes, NumberTypes
<1> QED
    BY <1>1, <1>2, <1>3

LEMMA FillingKept ==
    ASSUME TypeOK, LoopTurns, Filling, [Next]_vars
    PROVE  Filling'
<1>1. /\ length \in Nat /\ totalRead \in 0 .. length /\ buffer \in Seq(Int)
      /\ pc \in {"returned", "cluster", "copy", "link", "first", "second", "check"}
  <2>1. BufferTypes /\ NumberTypes
      BY TypeGroups
  <2> QED
      BY <2>1, FileAssumption DEF BufferTypes, NumberTypes
<1>2. ASSUME NEW n \in Lengths, Call(n)
      PROVE  Filling'
    BY <1>2 DEF Call, Filling, BufferIsFilled
<1>3. CASE CopyData
  <2> DEFINE data == [j \in 1 .. amountToRead |-> PointedTo(Position + j - 1)]
  <2>1. /\ amountToRead \in Nat
        /\ \A j \in 1 .. amountToRead :
               Position + j - 1 \in Nat /\ Position + j - 1 < BytesPerSector
      BY <1>3, Amount DEF CopyData
  <2>2. data \in Seq(Int) /\ Len(data) = amountToRead
      BY <2>1, PointedBytes
  <2>3. /\ buffer' = buffer \o data /\ totalRead' = totalRead + amountToRead
        /\ Len(buffer) = totalRead /\ pc' # "returned"
      BY <1>3 DEF CopyData, Filling
  <2> HIDE DEF data
  <2>4. Len(buffer') = totalRead'
    <3>1. Len(buffer \o data) = Len(buffer) + Len(data)
        BY <1>1, <2>2, Concatenation
    <3> QED
        BY <2>2, <2>3, <3>1
  <2> QED
      BY <2>3, <2>4 DEF Filling, BufferIsFilled
<1>4. CASE EndOfChain
  <2> DEFINE rest == length - totalRead
             zeros == [j \in 1 .. rest |-> 0]
  <2>1. rest \in Nat
      BY <1>1
  <2>2. zeros \in Seq(Int) /\ Len(zeros) = rest /\ \A j \in 1 .. rest : zeros[j] = 0
      BY <2>1
  <2>3. /\ buffer' = buffer \o zeros /\ Len(buffer) = totalRead
        /\ pc' = "returned" /\ Eof' /\ length' = length /\ totalRead' = totalRead
      BY <1>4 DEF EndOfChain, Filling
  <2> HIDE DEF zeros
  <2>4. Len(buffer') = length
    <3>1. Len(buffer \o zeros) = Len(buffer) + Len(zeros)
        BY <1>1, <2>2, Concatenation
    <3> QED
        BY <1>1, <2>2, <2>3, <3>1
  <2>5. ASSUME NEW j \in (totalRead + 1) .. length
        PROVE  buffer'[j] = 0
    <3>1. j - totalRead \in 1 .. rest /\ j > Len(buffer) /\ j \in 1 .. (Len(buffer) + Len(zeros))
        BY <1>1, <2>2, <2>3
    <3>2. buffer'[j] = zeros[j - totalRead]
        BY <1>1, <2>2, <2>3, <3>1
    <3> QED
        BY <2>2, <3>1, <3>2
  <2> QED
      BY <2>3, <2>4, <2>5 DEF Filling, BufferIsFilled
<1>5. CASE NextPart
  <2>1. /\ pc = "check" /\ UNCHANGED <<buffer, length, totalRead, Eof>>
        /\ pc' = IF totalRead < length THEN "cluster" ELSE "returned"
      BY <1>5 DEF NextPart, FILEVars
  <2>2. Len(buffer) = totalRead
      BY <2>1 DEF Filling
  <2>3. CASE totalRead < length
      BY <2>1, <2>2, <2>3 DEF Filling, BufferIsFilled
  <2>4. CASE ~(totalRead < length)
    <3>1. totalRead = length
        BY <1>1, <2>4
    <3> QED
        BY <1>1, <2>1, <2>2, <2>4, <3>1 DEF Filling, BufferIsFilled
  <2> QED
      BY <2>3, <2>4
<1>6. CASE FsFat12_ReadCluster \/ ReadFirstSector \/ ReadSecondSector \/ FollowLink \/ InvalidLink
  <2>1. pc # "returned" /\ pc' # "returned" /\ UNCHANGED <<buffer, totalRead>>
      BY <1>6 DEF FsFat12_ReadCluster, ReadFirstSector, ReadSecondSector, FollowLink, InvalidLink
  <2> QED
      BY <2>1 DEF Filling, BufferIsFilled
<1>7. CASE UNCHANGED vars
  <2>1. UNCHANGED <<pc, buffer, totalRead, length, Eof>>
      BY <1>7 DEF vars, FILEVars
  <2> QED
      BY <2>1 DEF Filling, BufferIsFilled
<1> QED
    BY <1>2, <1>3, <1>4, <1>5, <1>6, <1>7 DEF Next, FsFat12_Read

-----------------------------------------------------------------------------
(* Where a reader is in the chain, as long as no read has failed.          *)

Sound == SoundTable /\ failures = 0

\* The last cluster has been read: what CurrentCluster holds is the mark behind it.
AtEnd == Eof \/ (pc = "check" /\ SPECIAL_CLUSTER(CurrentCluster))

At(i) == CurrentCluster = chain[i] /\ Len(stream) = (i - 1) * BytesPerSector + Position

InChain ==
    /\ AtEnd => Len(stream) = Len(chain) * BytesPerSector
    /\ ~AtEnd => \E i \in 1 .. Len(chain) : At(i)

\* The driver's buffer holds the sector that the next step expects there.
RightSector ==
    /\ ~nullPointer /\ dmaBuffer = lastReadSector
    /\ pc = "copy" => dmaBuffer = ReadCluster(CurrentCluster)
    /\ pc = "first" => dmaBuffer = SectorOfByte(firstByteIndex(CurrentCluster))
    /\ pc = "second" => /\ dmaBuffer = SectorOfByte(secondByteIndex(CurrentCluster))
                        /\ firstByte = PackedByte(fat, firstByteIndex(CurrentCluster))

StreamFollows ==
    Len(stream) <= Len(ChainBytes) /\ \A k \in 1 .. Len(stream) : stream[k] = ChainBytes[k]

Following ==
    /\ Eof => pc = "returned"
    /\ Sound => InChain /\ RightSector /\ StreamFollows

LEMMA ChainByte ==
    ASSUME chain \in Chains
    PROVE  /\ ChainBytes \in Seq(Int) /\ Len(ChainBytes) = Len(chain) * BytesPerSector
           /\ \A i \in 1 .. Len(chain), r \in 0 .. (BytesPerSector - 1) :
                  /\ (i - 1) * BytesPerSector + r + 1 \in 1 .. Len(ChainBytes)
                  /\ ChainBytes[(i - 1) * BytesPerSector + r + 1]
                         = DataByte(ReadCluster(chain[i]), r)
<1> DEFINE size == Len(chain) * BytesPerSector
           byte(k) == DataByte(dataSector + chain[(k - 1) \div BytesPerSector + 1] - 2,
                               (k - 1) % BytesPerSector)
<1>1. BytesPerSector \in Nat \ {0} /\ Len(chain) \in Nat \ {0}
    BY BpbAssumption, ChainIsSequence
<1>2. size \in Nat
    BY <1>1
<1>3. ChainBytes = [k \in 1 .. size |-> byte(k)]
    BY DEF ChainBytes
<1>4. ASSUME NEW k \in 1 .. size
      PROVE  byte(k) \in Int
  <2> DEFINE q == (k - 1) \div BytesPerSector
             r == (k - 1) % BytesPerSector
  <2>1. k - 1 \in Nat /\ k - 1 < size
      BY <1>2
  <2>2. q \in Nat /\ q < Len(chain) /\ r \in 0 .. (BytesPerSector - 1)
      BY <1>1, <2>1, DivMod, DivBound
  <2> HIDE DEF q, r
  <2>3. q + 1 \in 1 .. Len(chain)
      BY <1>1, <2>2
  <2>4. chain[q + 1] \in Nat
      BY <2>3, ChainClusters
  <2>5. dataSector \in Nat
      BY Layout
  <2>6. DataByte(dataSector + chain[q + 1] - 2, r) \in Int
      BY <1>1, <2>2, <2>4, <2>5, SMT DEF DataByte
  <2> QED
      BY <2>6 DEF q, r
<1>5. ASSUME NEW i \in 1 .. Len(chain), NEW r \in 0 .. (BytesPerSector - 1)
      PROVE  /\ (i - 1) * BytesPerSector + r + 1 \in 1 .. size
             /\ byte((i - 1) * BytesPerSector + r + 1) = DataByte(ReadCluster(chain[i]), r)
  <2> DEFINE m == i - 1
             k == m * BytesPerSector + r + 1
  <2>1. m \in Nat /\ m + 1 <= Len(chain) /\ r \in Nat /\ r < BytesPerSector
      BY <1>1
  <2>2. /\ m * BytesPerSector \in Nat /\ (m + 1) * BytesPerSector <= size
        /\ (m + 1) * BytesPerSector = m * BytesPerSector + BytesPerSector
      BY <1>1, <2>1, SMT
  <2>3. k \in 1 .. size
      BY <1>1, <1>2, <2>1, <2>2
  <2>4. k - 1 = BytesPerSector * m + r
      BY <1>1, <2>1, <2>2, SMT
  <2>5. (BytesPerSector * m + r) \div BytesPerSector = m /\ (BytesPerSector * m + r) % BytesPerSector = r
      BY <1>1, <2>1, DivUnique
  <2>6. (k - 1) \div BytesPerSector = m /\ (k - 1) % BytesPerSector = r /\ m + 1 = i
      BY <2>4, <2>5, <1>1
  <2>7. ReadCluster(chain[i]) = dataSector + chain[i] - 2
      BY ChainClusters
  <2>8. byte(k) = DataByte(dataSector + chain[i] - 2, r)
      BY <2>6
  <2> QED
      BY <2>3, <2>7, <2>8
<1> HIDE DEF byte, size
<1>6. ChainBytes \in Seq(Int) /\ Len(ChainBytes) = size /\ \A k \in 1 .. size : ChainBytes[k] = byte(k)
    BY <1>2, <1>3, <1>4
<1> QED
    BY <1>5, <1>6 DEF size

LEMMA SoundByte ==
    ASSUME TypeOK, ~nullPointer, NEW i \in Nat, i < SectorsPerFat * BytesPerSector,
           dmaBuffer = SectorOfByte(i)
    PROVE  TableByte(i) = {PackedByte(fat, i)}
<1>1. fat \in Tables
    BY TypeGroups DEF DiskTypes
<1>2. dmaBuffer \in TableSectors /\ ByteAt(fat, dmaBuffer, i) = PackedByte(fat, i)
    BY <1>1, BytePlace
<1> QED
    BY <1>2 DEF TableByte, TableSectors

\* No step makes good what has failed, and the disk stays as it is.
LEMMA SoundBefore ==
    ASSUME TypeOK, [Next]_vars, Sound'
    PROVE  Sound /\ chain' = chain /\ fat' = fat /\ ChainBytes' = ChainBytes
<1>1. chain' = chain /\ fat' = fat
    BY DEF Next, Call, FsFat12_Read, FsFat12_ReadCluster, CopyData, ReadFirstSector,
           ReadSecondSector, FollowLink, InvalidLink, EndOfChain, NextPart, vars, diskVars
<1>2. failures \in Nat
    BY TypeGroups, FileAssumption DEF NumberTypes
<1>3. \A lba : FloppyDriveReadSector(lba) /\ failures' = 0 => failures = 0
    BY <1>2 DEF FloppyDriveReadSector
<1>4. failures' = 0 => failures = 0
    BY <1>3 DEF Next, Call, FsFat12_Read, FsFat12_ReadCluster, CopyData, ReadFirstSector,
           ReadSecondSector, FollowLink, InvalidLink, EndOfChain, NextPart, vars, driverVars
<1> QED
    BY <1>1, <1>4 DEF Sound, SoundTable, ChainBytes

\* What the steps inside a call have in common.
LEMMA ReaderPlaced ==
    ASSUME TypeOK, Following, Sound, pc \in {"cluster", "copy", "link", "first", "second"}
    PROVE  ~Eof /\ \E i \in 1 .. Len(chain) : At(i)
    BY DEF Following, InChain, AtEnd

LEMMA StreamKept ==
    ASSUME StreamFollows, ChainBytes' = ChainBytes, stream' = stream
    PROVE  StreamFollows'
    BY DEF StreamFollows

LEMMA ReadClusterFollows ==
    ASSUME TypeOK, Following, FsFat12_ReadCluster, Sound', Sound, chain' = chain, fat' = fat
    PROVE  InChain' /\ RightSector'
<1>1. PICK i \in 1 .. Len(chain) : ~Eof /\ At(i)
    BY ReaderPlaced DEF FsFat12_ReadCluster
<1>2. /\ ~INVALID_CLUSTER(CurrentCluster) /\ ReadCluster(CurrentCluster) \in Nat
    BY <1>1, ChainClusters, TypeGroups DEF At, DiskTypes
<1>3. /\ FloppyDriveReadSector(ReadCluster(CurrentCluster)) /\ pc' = "copy"
      /\ UNCHANGED <<CurrentCluster, Position, Eof, stream>>
    BY <1>2 DEF FsFat12_ReadCluster, FILEVars
<1>4. dmaBuffer' = ReadCluster(CurrentCluster) /\ ~nullPointer' /\ lastReadSector' = dmaBuffer'
    BY <1>2, <1>3, ReadSector DEF Sound, Following, RightSector
<1>5. RightSector'
    BY <1>3, <1>4 DEF RightSector, ReadCluster
<1>6. InChain'
    BY <1>1, <1>3 DEF InChain, AtEnd, At
<1> QED
    BY <1>5, <1>6

LEMMA ReadFirstFollows ==
    ASSUME TypeOK, Following, ReadFirstSector, Sound', Sound, chain' = chain, fat' = fat
    PROVE  InChain' /\ RightSector'
<1> DEFINE lba == SectorOfByte(firstByteIndex(CurrentCluster))
<1>1. PICK i \in 1 .. Len(chain) : ~Eof /\ At(i)
    BY ReaderPlaced DEF ReadFirstSector
<1>2. CurrentCluster \in Nat
    BY <1>1, ChainClusters, TypeGroups DEF At, DiskTypes
<1>3. lba \in Nat
    BY <1>2, ByteIndices
<1>4. FloppyDriveReadSector(lba) /\ pc' = "first" /\ UNCHANGED <<CurrentCluster, Position, Eof, stream>>
    BY DEF ReadFirstSector, FILEVars
<1>5. dmaBuffer' = lba /\ ~nullPointer' /\ lastReadSector' = dmaBuffer'
    BY <1>3, <1>4, ReadSector DEF Sound, Following, RightSector
<1>6. RightSector'
    BY <1>4, <1>5 DEF RightSector
<1>7. InChain'
    BY <1>1, <1>4 DEF InChain, AtEnd, At
<1> QED
    BY <1>6, <1>7

LEMMA ReadSecondFollows ==
    ASSUME TypeOK, Following, ReadSecondSector, Sound', Sound, chain' = chain, fat' = fat
    PROVE  InChain' /\ RightSector'
<1> DEFINE first == firstByteIndex(CurrentCluster)
           lba == SectorOfByte(secondByteIndex(CurrentCluster))
<1>1. PICK i \in 1 .. Len(chain) : ~Eof /\ At(i)
    BY ReaderPlaced DEF ReadSecondSector
<1>2. CurrentCluster \in Clusters /\ CurrentCluster \in Nat
    BY <1>1, ChainClusters, TypeGroups DEF At, DiskTypes
<1>3. first \in Nat /\ first < SectorsPerFat * BytesPerSector /\ lba \in Nat
    BY <1>2, EntryBytes, ByteIndices
<1>4. ~nullPointer /\ dmaBuffer = SectorOfByte(first) /\ lastReadSector = dmaBuffer
    BY DEF ReadSecondSector, Sound, Following, RightSector
<1>5. TableByte(first) = {PackedByte(fat, first)}
    BY <1>3, <1>4, SoundByte
<1>6. /\ firstByte' = PackedByte(fat, first) /\ pc' = "second"
      /\ UNCHANGED <<CurrentCluster, Position, Eof, stream>>
    BY <1>5 DEF ReadSecondSector, FILEVars
<1>7. dmaBuffer' = lba /\ ~nullPointer' /\ lastReadSector' = dmaBuffer'
  <2>1. CASE lba = SectorOfByte(first)
      BY <2>1, <1>4 DEF ReadSecondSector, driverVars
  <2>2. CASE lba # SectorOfByte(first)
    <3>1. FloppyDriveReadSector(lba)
        BY <2>2 DEF ReadSecondSector
    <3> QED
        BY <3>1, <1>3, <1>4, ReadSector DEF Sound
  <2> QED
      BY <2>1, <2>2
<1>8. RightSector'
    BY <1>6, <1>7 DEF RightSector
<1>9. InChain'
    BY <1>1, <1>6 DEF InChain, AtEnd, At
<1> QED
    BY <1>8, <1>9

LEMMA FollowLinkFollows ==
    ASSUME TypeOK, LoopTurns, TableFollows, Following, FollowLink, Sound', Sound,
           chain' = chain, fat' = fat
    PROVE  InChain' /\ RightSector'
<1> DEFINE first == firstByteIndex(CurrentCluster)
           second == secondByteIndex(CurrentCluster)
<1>1. PICK i \in 1 .. Len(chain) : ~Eof /\ At(i)
    BY ReaderPlaced DEF FollowLink
<1>2. /\ chain \in Chains /\ fat \in Tables /\ Len(chain) \in Nat \ {0}
      /\ BytesPerSector \in Nat \ {0}
    BY TypeGroups, ChainIsSequence, BpbAssumption DEF DiskTypes
<1>3. CurrentCluster \in Clusters /\ CurrentCluster = chain[i]
    BY <1>1, <1>2, ChainClusters DEF At
<1>4. second \in Nat /\ second < SectorsPerFat * BytesPerSector
    BY <1>3, EntryBytes
<1>5. /\ ~nullPointer /\ dmaBuffer = SectorOfByte(second) /\ lastReadSector = dmaBuffer
      /\ firstByte = PackedByte(fat, first)
    BY DEF FollowLink, Following, RightSector
<1>6. TableByte(second) = {PackedByte(fat, second)}
    BY <1>4, <1>5, SoundByte
<1>7. /\ CurrentCluster' = JoinBytes(CurrentCluster, firstByte, PackedByte(fat, second))
      /\ pc = "second" /\ pc' = "check" /\ Position' = Position - BytesPerSector
      /\ UNCHANGED <<Eof, stream, dmaBuffer, lastReadSector, nullPointer>>
    BY <1>6 DEF FollowLink, driverVars
<1>8. CurrentCluster' = fat[chain[i]]
    BY <1>2, <1>3, <1>5, <1>7, Decoded
<1>9. RightSector'
    BY <1>5, <1>7 DEF RightSector
<1>10. Position' = 0 /\ Len(stream') = (i - 1) * BytesPerSector + BytesPerSector
    BY <1>1, <1>2, <1>7 DEF At, LoopTurns
<1>11. Len(stream') = i * BytesPerSector
    BY <1>2, <1>10, SMT
<1>12. CASE i = Len(chain)
  <2>1. CurrentCluster' >= 4088
    <3>1. Last(chain) = chain[i]
        BY <1>12 DEF Last
    <3>2. fat[Last(chain)] >= 4088
        BY DEF Sound, SoundTable
    <3>3. fat[Last(chain)] = CurrentCluster'
        BY <1>8, <3>1
    <3> QED
        BY <3>2, <3>3
  <2>2. AtEnd'
    <3>1. CurrentCluster' \in Nat
      <4>1. fat[chain[i]] \in EntryValues
          BY <1>2, <1>3 DEF Tables
      <4>2. \A e \in EntryValues : e \in Nat
          BY DEF EntryValues
      <4> QED
          BY <1>8, <4>1, <4>2
    <3>2. CurrentCluster' >= 4080
        BY <2>1, <3>1
    <3> QED
        BY <1>7, <3>2 DEF AtEnd, SPECIAL_CLUSTER
  <2> QED
      BY <1>9, <1>11, <1>12, <2>2 DEF InChain
<1>13. CASE i # Len(chain)
  <2>1. i \in 1 .. (Len(chain) - 1) /\ i + 1 \in 1 .. Len(chain)
      BY <1>2, <1>13
  <2>2. CurrentCluster' = chain[i + 1]
      BY <1>8, <2>1 DEF TableFollows
  <2>3. ~SPECIAL_CLUSTER(CurrentCluster')
      BY <1>2, <2>1, <2>2, ChainClusters
  <2>4. ~AtEnd'
      BY <1>1, <1>7, <2>3 DEF AtEnd, SPECIAL_CLUSTER
  <2>5. ((i + 1) - 1) * BytesPerSector + Position' = i * BytesPerSector
      BY <1>2, <1>10, SMT
  <2>6. At(i + 1)'
      BY <1>11, <2>2, <2>5 DEF At
  <2> QED
      BY <1>9, <2>1, <2>4, <2>6 DEF InChain
<1> QED
    BY <1>12, <1>13

\* The bytes copied are the next ones of the chain.
LEMMA CopyFollows ==
    ASSUME TypeOK, LoopTurns, Following, CopyData, Sound', Sound, chain' = chain, fat' = fat,
           ChainBytes' = ChainBytes
    PROVE  InChain' /\ RightSector' /\ StreamFollows'
<1> DEFINE data == [j \in 1 .. amountToRead |-> PointedTo(Position + j - 1)]
<1>1. PICK i \in 1 .. Len(chain) : ~Eof /\ At(i)
    BY ReaderPlaced DEF CopyData
<1>2. /\ chain \in Chains /\ stream \in Seq(Int) /\ Len(chain) \in Nat \ {0}
      /\ BytesPerSector \in Nat \ {0} /\ Position \in Nat
  <2>1. DiskTypes /\ BufferTypes /\ NumberTypes
      BY TypeGroups
  <2> QED
      BY <2>1, ChainIsSequence, BpbAssumption DEF DiskTypes, BufferTypes, NumberTypes
<1>3. /\ amountToRead \in Nat \ {0} /\ Position + amountToRead <= BytesPerSector
      /\ \A j \in 1 .. amountToRead :
             Position + j - 1 \in Nat /\ Position + j - 1 < BytesPerSector
    BY <1>2, Amount DEF CopyData
<1>4. /\ ~nullPointer /\ dmaBuffer = ReadCluster(chain[i]) /\ dmaBuffer \notin TableSectors
      /\ CurrentCluster = chain[i] /\ ~SPECIAL_CLUSTER(CurrentCluster)
    BY <1>1, <1>2, ChainClusters DEF CopyData, Following, RightSector, At
<1>5. \A j \in 1 .. amountToRead :
          PointedTo(Position + j - 1) = DataByte(ReadCluster(chain[i]), Position + j - 1)
    BY <1>4 DEF PointedTo, SectorByte, TableSectors
<1>6. data \in Seq(Int) /\ Len(data) = amountToRead
  <2>1. \A j \in 1 .. amountToRead : PointedTo(Position + j - 1) \in Int
      BY <1>3, PointedBytes
  <2> QED
      BY <1>3, <2>1
<1>7. \A j \in 1 .. amountToRead :
          data[j] = DataByte(ReadCluster(chain[i]), Position + j - 1)
    BY <1>5
<1>8. /\ stream' = stream \o data /\ Position' = Position + amountToRead
      /\ pc' = IF Position' >= BytesPerSector THEN "link" ELSE "check"
      /\ UNCHANGED <<CurrentCluster, Eof, dmaBuffer, lastReadSector, nullPointer>>
    BY DEF CopyData, driverVars
<1> HIDE DEF data
<1> DEFINE start == (i - 1) * BytesPerSector + Position
<1>9. start \in Nat /\ Len(stream) = start
  <2>1. i - 1 \in Nat
      BY <1>2
  <2>2. (i - 1) * BytesPerSector \in Nat
      BY <2>1, <1>2, SMT
  <2> QED
      BY <1>1, <1>2, <2>2 DEF At
<1>10. /\ Len(stream') = start + amountToRead
       /\ \A j \in 1 .. start : stream'[j] = stream[j]
       /\ \A j \in 1 .. amountToRead : stream'[start + j] = data[j]
    BY <1>2, <1>6, <1>8, <1>9, Concatenation
<1>11. ASSUME NEW j \in 1 .. amountToRead
       PROVE  start + j \in 1 .. Len(ChainBytes) /\ ChainBytes[start + j] = data[j]
  <2> DEFINE r == Position + j - 1
  <2>1. r \in 0 .. (BytesPerSector - 1)
      BY <1>3, <1>2
  <2>2. /\ (i - 1) * BytesPerSector + r + 1 \in 1 .. Len(ChainBytes)
        /\ ChainBytes[(i - 1) * BytesPerSector + r + 1] = DataByte(ReadCluster(chain[i]), r)
      BY <1>2, <2>1, ChainByte
  <2>3. (i - 1) * BytesPerSector + r + 1 = start + j
    <3>1. (i - 1) * BytesPerSector \in Int
        BY <1>2, SMT
    <3> HIDE DEF start
    <3> QED
        BY <1>2, <1>3, <3>1 DEF start
  <2> QED
      BY <1>7, <2>2, <2>3
<1> HIDE DEF start
<1>12. StreamFollows'
  <2>1. StreamFollows
      BY DEF Following
  <2>2. Len(ChainBytes) \in Nat
      BY <1>2, ChainByte
  <2>3. Len(stream') <= Len(ChainBytes)
    <3>1. amountToRead \in 1 .. amountToRead
        BY <1>3
    <3>2. start + amountToRead \in 1 .. Len(ChainBytes)
        BY <1>11, <3>1
    <3> QED
        BY <1>10, <2>2, <3>2
  <2>4. ASSUME NEW k \in 1 .. Len(stream')
        PROVE  stream'[k] = ChainBytes[k]
    <3>1. CASE k <= start
        BY <1>9, <1>10, <2>1, <3>1 DEF StreamFollows
    <3>2. CASE k > start
      <4>1. k - start \in 1 .. amountToRead /\ start + (k - start) = k
          BY <1>3, <1>9, <1>10, <3>2
      <4>2. stream'[k] = data[k - start]
          BY <1>10, <4>1
      <4>3. ChainBytes[k] = data[k - start]
          BY <1>11, <4>1
      <4> QED
          BY <4>2, <4>3
    <3> QED
        BY <1>3, <1>9, <1>10, <3>1, <3>2
  <2>5. ChainBytes' = ChainBytes
      OBVIOUS
  <2>6. Len(stream') <= Len(ChainBytes') /\ \A k \in 1 .. Len(stream') : stream'[k] = ChainBytes'[k]
      BY <2>3, <2>4, <2>5
  <2> QED
      BY <2>6, Zenon DEF StreamFollows
<1>13. RightSector'
  <2>1. pc' \in {"link", "check"} /\ ~nullPointer' /\ dmaBuffer' = lastReadSector'
      BY <1>4, <1>8 DEF CopyData, Sound, Following, RightSector
  <2> QED
      BY <2>1 DEF RightSector
<1>14. ~AtEnd'
    BY <1>1, <1>4, <1>8 DEF AtEnd, SPECIAL_CLUSTER
<1>15. At(i)'
  <2>1. (i - 1) * BytesPerSector \in Int
      BY <1>2, SMT
  <2> QED
      BY <1>1, <1>2, <1>3, <1>8, <1>10, <2>1 DEF At, start
<1> QED
    BY <1>12, <1>13, <1>14, <1>15 DEF InChain

LEMMA FollowingKept ==
    ASSUME TypeOK, LoopTurns, TableFollows, Following, [Next]_vars
    PROVE  Following'
<1>1. Eof' => pc' = "returned"
    BY DEF Following, Next, Call, FsFat12_Read, FsFat12_ReadCluster, CopyData, ReadFirstSector,
           ReadSecondSector, FollowLink, InvalidLink, EndOfChain, NextPart, vars, FILEVars
<1>2. ASSUME Sound'
      PROVE  InChain' /\ RightSector' /\ StreamFollows'
  <2>1. /\ Sound /\ chain' = chain /\ fat' = fat /\ ChainBytes' = ChainBytes
        /\ InChain /\ RightSector /\ StreamFollows
      BY <1>2, SoundBefore DEF Following
  <2>2. CASE CopyData
      BY <1>2, <2>1, <2>2, CopyFollows
  <2>3. CASE FsFat12_ReadCluster
      BY <1>2, <2>1, <2>3, ReadClusterFollows, StreamKept DEF FsFat12_ReadCluster
  <2>4. CASE ReadFirstSector
      BY <1>2, <2>1, <2>4, ReadFirstFollows, StreamKept DEF ReadFirstSector
  <2>5. CASE ReadSecondSector
      BY <1>2, <2>1, <2>5, ReadSecondFollows, StreamKept DEF ReadSecondSector
  <2>6. CASE FollowLink
      BY <1>2, <2>1, <2>6, FollowLinkFollows, StreamKept DEF FollowLink
  <2>7. CASE InvalidLink
    <3>1. PICK i \in 1 .. Len(chain) : At(i)
        BY <2>1, <2>7, ReaderPlaced DEF InvalidLink
    <3>2. ~INVALID_CLUSTER(CurrentCluster)
        BY <3>1, ChainClusters, TypeGroups DEF At, DiskTypes
    <3> QED
        BY <2>7, <3>2 DEF InvalidLink
  <2>8. ASSUME NEW n \in Lengths, Call(n)
        PROVE  InChain' /\ RightSector' /\ StreamFollows'
    <3>1. /\ pc = "returned" /\ ~Eof /\ pc' = "cluster"
          /\ UNCHANGED <<CurrentCluster, Position, Eof, stream, dmaBuffer, lastReadSector,
                         nullPointer>>
        BY <2>8 DEF Call, FILEVars, driverVars
    <3>2. InChain' /\ RightSector'
        BY <2>1, <3>1 DEF InChain, RightSector, AtEnd, At
    <3> QED
        BY <2>1, <3>1, <3>2, StreamKept
  <2>9. CASE EndOfChain
    <3>1. /\ AtEnd /\ Eof' /\ pc' = "returned"
          /\ UNCHANGED <<stream, dmaBuffer, lastReadSector, nullPointer>>
        BY <2>9 DEF EndOfChain, AtEnd, driverVars
    <3>2. InChain' /\ RightSector'
        BY <2>1, <3>1 DEF InChain, RightSector, AtEnd
    <3> QED
        BY <2>1, <3>1, <3>2, StreamKept
  <2>10. CASE NextPart
    <3>1. /\ pc = "check" /\ ~SPECIAL_CLUSTER(CurrentCluster) /\ pc' \in {"cluster", "returned"}
          /\ UNCHANGED <<CurrentCluster, Position, Eof, stream, dmaBuffer, lastReadSector,
                         nullPointer>>
        BY <2>10 DEF NextPart, FILEVars, driverVars
    <3>2. InChain' /\ RightSector'
        BY <2>1, <3>1 DEF InChain, RightSector, AtEnd, At
    <3> QED
        BY <2>1, <3>1, <3>2, StreamKept
  <2>11. CASE UNCHANGED vars
    <3>1. UNCHANGED <<pc, CurrentCluster, Position, Eof, stream, dmaBuffer, lastReadSector,
                      nullPointer, firstByte>>
        BY <2>11 DEF vars, FILEVars, driverVars
    <3>2. InChain' /\ RightSector'
        BY <2>1, <3>1 DEF InChain, RightSector, AtEnd, At, SPECIAL_CLUSTER
    <3> QED
        BY <2>1, <3>1, <3>2, StreamKept
  <2> QED
      BY <2>2, <2>3, <2>4, <2>5, <2>6, <2>7, <2>8, <2>9, <2>10, <2>11 DEF Next, FsFat12_Read
<1> QED
    BY <1>1, <1>2 DEF Following

-----------------------------------------------------------------------------
(* The theorems.                                                           *)

IInv == TypeOK /\ LoopTurns /\ Filling /\ TableFollows /\ Following

LEMMA InitInv == Init => IInv
<1> SUFFICES ASSUME Init PROVE IInv
    OBVIOUS
<1>1. PICK endMark \in EndMarks : chain \in Chains /\ fat = TableFor(chain, endMark)
    BY DEF Init
<1>2. fat \in Tables /\ TableFollows
    BY <1>1, InitialTable DEF TableFollows
<1>3. /\ Len(chain) \in Nat \ {0} /\ chain[1] \in EntryValues /\ chain[1] = Head(chain)
      /\ 1 \in 1 .. Len(chain)
    BY <1>1, ChainIsSequence, ChainClusters
<1>4. /\ BytesPerSector \in Nat \ {0} /\ MaxFailures \in Nat /\ rootSector \in Nat
      /\ 0 \in ByteValues
    BY BpbAssumption, FileAssumption, Layout DEF ByteValues
<1>5. TypeOK
  <2>1. DiskTypes
      BY <1>1, <1>2 DEF DiskTypes
  <2>2. BufferTypes
      BY DEF Init, BufferTypes
  <2>3. NumberTypes
    <3>1. /\ pc = "returned" /\ CurrentCluster = chain[1] /\ Position = 0 /\ Eof = FALSE
          /\ length = 0 /\ totalRead = 0 /\ dmaBuffer = rootSector /\ lastReadSector = rootSector
          /\ nullPointer = FALSE /\ failures = 0 /\ firstByte = 0
        BY <1>3 DEF Init
    <3>2. 0 \in 0 .. BytesPerSector /\ 0 \in 0 .. MaxFailures /\ 0 \in 0 .. 0
        BY <1>4
    <3> QED
        BY <1>3, <1>4, <3>1, <3>2 DEF NumberTypes
  <2> QED
      BY <2>1, <2>2, <2>3, TypeGroups
<1>6. LoopTurns /\ Filling
    BY <1>4 DEF Init, LoopTurns, Filling, BufferIsFilled
<1>7. Following
  <2>1. At(1)
      BY <1>3, <1>4 DEF Init, At
  <2>2. ~AtEnd
      BY DEF Init, AtEnd
  <2>3. RightSector
      BY DEF Init, RightSector
  <2>4. StreamFollows
    <3>1. Len(ChainBytes) \in Nat /\ stream = <<>>
        BY <1>1, ChainByte DEF Init
    <3> QED
        BY <3>1 DEF StreamFollows
  <2> QED
      BY <1>3, <2>1, <2>2, <2>3, <2>4 DEF Init, Following, InChain
<1> QED
    BY <1>2, <1>5, <1>6, <1>7 DEF IInv

LEMMA NextInv == IInv /\ [Next]_vars => IInv'
<1> SUFFICES ASSUME IInv, [Next]_vars PROVE IInv'
    OBVIOUS
<1>1. TypeOK /\ LoopTurns /\ Filling /\ TableFollows /\ Following
    BY DEF IInv
<1>2. TypeOK' /\ LoopTurns' /\ Filling' /\ Following'
    BY <1>1, TypesKept, FillingKept, FollowingKept
<1>3. chain' = chain /\ fat' = fat
    BY DEF Next, Call, FsFat12_Read, FsFat12_ReadCluster, CopyData, ReadFirstSector,
           ReadSecondSector, FollowLink, InvalidLink, EndOfChain, NextPart, vars, diskVars
<1>4. TableFollows'
    BY <1>1, <1>3 DEF TableFollows
<1> QED
    BY <1>2, <1>4 DEF IInv

LEMMA Invariance == Spec => []IInv
    BY InitInv, NextInv, PTL DEF Spec

\* Every variable keeps its type, the position in the cluster included: no call moves
\* it past the end of one (FsFat12_Read).
THEOREM TypeCorrect == Spec => []TypeOK
<1>1. IInv => TypeOK
    BY DEF IInv
<1> QED
    BY <1>1, Invariance, PTL

\* Calls fill the buffer they are given and never more, for any table and any number of
\* reads that fail (FsFat12_Read).
THEOREM BufferFilled == Spec => []BufferIsFilled
<1>1. IInv => BufferIsFilled
    BY DEF IInv, Filling
<1> QED
    BY <1>1, Invariance, PTL

\* The data is the chain's, in order and without a gap, whatever lengths the caller asks
\* for (FsFat12_Read with FsFat12_GetFATEntry over one buffer).
THEOREM StreamIsPrefix == Spec => []ReadsFollowChain
<1>1. IInv => ReadsFollowChain
  <2> SUFFICES ASSUME IInv, SoundTable, failures = 0
               PROVE  IsPrefix(stream, ChainBytes)
      BY DEF ReadsFollowChain
  <2>1. TypeOK /\ StreamFollows
      BY DEF IInv, Following, Sound
  <2>2. stream \in Seq(Int) /\ ChainBytes \in Seq(Int)
      BY <2>1, TypeGroups, ChainByte DEF DiskTypes, BufferTypes
  <2>3. /\ Len(stream) <= Len(ChainBytes)
        /\ \A k \in 1 .. Len(stream) : stream[k] = ChainBytes[k]
      BY <2>1 DEF StreamFollows
  <2>4. SubSeq(stream, 1, Len(stream)) = SubSeq(ChainBytes, 1, Len(stream))
      BY <2>2, <2>3
  <2> QED
      BY <2>3, <2>4 DEF IsPrefix
<1> QED
    BY <1>1, Invariance, PTL

\* Eof is set by the call that delivers the last byte of the chain, and by no other
\* (the end of the loop in FsFat12_Read).
THEOREM EofTold == Spec => []EofAtEndOfChain
<1>1. IInv => EofAtEndOfChain
  <2> SUFFICES ASSUME IInv, SoundTable, failures = 0, pc = "returned"
               PROVE  Eof <=> Len(stream) = Len(ChainBytes)
      BY DEF EofAtEndOfChain
  <2>1. TypeOK /\ LoopTurns /\ InChain
      BY DEF IInv, Following, Sound
  <2>2. /\ Len(ChainBytes) = Len(chain) * BytesPerSector /\ Len(chain) \in Nat \ {0}
        /\ BytesPerSector \in Nat \ {0} /\ Position \in Nat /\ Position < BytesPerSector
    <3>1. DiskTypes /\ NumberTypes
        BY <2>1, TypeGroups
    <3> QED
        BY <2>1, <3>1, ChainByte, ChainIsSequence, BpbAssumption
           DEF DiskTypes, NumberTypes, LoopTurns
  <2>3. CASE Eof
      BY <2>1, <2>2, <2>3 DEF InChain, AtEnd
  <2>4. CASE ~Eof
    <3>1. PICK i \in 1 .. Len(chain) : At(i)
        BY <2>1, <2>4 DEF InChain, AtEnd
    <3>2. i * BytesPerSector <= Len(chain) * BytesPerSector
        BY <2>2, SMT
    <3>3. (i - 1) * BytesPerSector = i * BytesPerSector - BytesPerSector
          /\ i * BytesPerSector \in Int
        BY <2>2, SMT
    <3>4. Len(chain) * BytesPerSector \in Int
        BY <2>2, SMT
    <3> QED
        BY <2>2, <2>4, <3>1, <3>2, <3>3, <3>4 DEF At
  <2> QED
      BY <2>3, <2>4
<1> QED
    BY <1>1, Invariance, PTL

-----------------------------------------------------------------------------
(* Scans from the first cluster on.                                        *)

\* Induction over the numbers: a set that has 0 and with each number the next.
LEMMA Induction ==
    ASSUME NEW S \in SUBSET Nat, 0 \in S, \A n \in S : n + 1 \in S
    PROVE  S = Nat
<1> DEFINE less == {p \in Nat \X Nat : p[1] < p[2]}
<1>1. IsWellFoundedOn(less, Nat)
    BY NatLessThanWellFounded DEF OpToRel
<1> SUFFICES ASSUME Nat \ S # {} PROVE FALSE
    OBVIOUS
<1>2. \E x \in Nat \ S : \A y \in Nat \ S : <<y, x>> \notin less
  <2> HIDE DEF less
  <2> QED
      BY <1>1, WFMin
<1>3. PICK x \in Nat \ S : \A y \in Nat \ S : ~(y < x)
    BY <1>2
<1> QED
    BY <1>3

\* FsFat12_GetFATEntry reads the entry of the cluster, in one sector of the table or two.
LEMMA LinkRead ==
    ASSUME NEW f \in Tables, NEW n \in Clusters, ~INVALID_CLUSTER(n)
    PROVE  GetFATEntry(f, n) = f[n]
<1>1. /\ ByteAt(f, SectorOfByte(firstByteIndex(n)), firstByteIndex(n))
             = PackedByte(f, firstByteIndex(n))
      /\ ByteAt(f, SectorOfByte(secondByteIndex(n)), secondByteIndex(n))
             = PackedByte(f, secondByteIndex(n))
    BY EntryBytes, BytePlace
<1> QED
    BY <1>1, Decoded DEF GetFATEntry

\* What a scan has found after i links: the chain, then the mark at its end.
Found(i) == IF i < Len(chain) THEN chain[i + 1] ELSE fat[Last(chain)]

\* The turn of FsFat12_GetNextClusterOfCurrentFile that reads the i-th link.
Turn(i, current) == IF i > 1 /\ SPECIAL_CLUSTER(current) THEN current
                    ELSE GetFATEntry(fat, current)

LEMMA MarkIsSpecial ==
    ASSUME chain \in Chains, fat \in Tables, SoundTable
    PROVE  SPECIAL_CLUSTER(fat[Last(chain)])
<1>1. Len(chain) \in 1 .. Len(chain) /\ Last(chain) = chain[Len(chain)]
    BY ChainIsSequence DEF Last
<1>2. Last(chain) \in Clusters
    BY <1>1, ChainClusters
<1>3. PICK mark \in EntryValues : mark = fat[Last(chain)]
    BY <1>2 DEF Tables
<1>4. mark >= 4088
    BY <1>3 DEF SoundTable
<1>5. SPECIAL_CLUSTER(mark)
    BY <1>4 DEF SPECIAL_CLUSTER, EntryValues
<1> QED
    BY <1>3, <1>5

LEMMA ScanTurn ==
    ASSUME chain \in Chains, fat \in Tables, TableFollows, SoundTable, NEW i \in Nat \ {0}
    PROVE  Turn(i, Found(i - 1)) = Found(i)
<1>1. Len(chain) \in Nat \ {0} /\ Last(chain) = chain[Len(chain)]
    BY ChainIsSequence DEF Last
<1>2. CASE i <= Len(chain)
  <2>1. i \in 1 .. Len(chain) /\ Found(i - 1) = chain[i]
      BY <1>1, <1>2 DEF Found
  <2>2. Turn(i, chain[i]) = fat[chain[i]]
      BY <2>1, ChainClusters, LinkRead DEF Turn
  <2>3. CASE i < Len(chain)
    <3>1. i \in 1 .. (Len(chain) - 1)
        BY <1>1, <2>3
    <3>2. fat[chain[i]] = chain[i + 1]
        BY <3>1 DEF TableFollows
    <3> QED
        BY <2>1, <2>2, <2>3, <3>2 DEF Found
  <2>4. CASE i = Len(chain)
    <3>1. Found(i) = fat[Last(chain)]
        BY <1>1, <2>4 DEF Found
    <3> QED
        BY <1>1, <2>1, <2>2, <2>4, <3>1
  <2> QED
      BY <1>1, <1>2, <2>3, <2>4
<1>3. CASE i > Len(chain)
  <2>1. i > 1 /\ Found(i - 1) = fat[Last(chain)] /\ Found(i) = fat[Last(chain)]
      BY <1>1, <1>3 DEF Found
  <2>2. SPECIAL_CLUSTER(fat[Last(chain)])
      BY MarkIsSpecial
  <2> QED
      BY <2>1, <2>2 DEF Turn
<1> QED
    BY <1>1, <1>2, <1>3

\* The recursion of GetNextClusterOfCurrentFile has one solution, which is what a scan
\* finds.
LEMMA ScanFinds ==
    ASSUME chain \in Chains, fat \in Tables, TableFollows, SoundTable, NEW n \in Nat
    PROVE  GetNextClusterOfCurrentFile(fat, Head(chain), n) =
               IF n < Len(chain) THEN dataSector + chain[n + 1] - 2 ELSE NoSector
<1> DEFINE Solves(g) ==
        g = [i \in 0 .. n |-> IF i = 0 THEN Head(chain)
                              ELSE IF i > 1 /\ SPECIAL_CLUSTER(g[i - 1]) THEN g[i - 1]
                              ELSE GetFATEntry(fat, g[i - 1])]
    f == CHOOSE g : Solves(g)
<1>1. Len(chain) \in Nat \ {0} /\ Head(chain) = chain[1] /\ Last(chain) = chain[Len(chain)]
      /\ Found(0) = chain[1]
    BY ChainIsSequence DEF Last, Found
<1>2. \E g : Solves(g)
  <2> DEFINE g == [i \in 0 .. n |-> Found(i)]
  <2>1. ASSUME NEW i \in 0 .. n
        PROVE  g[i] = IF i = 0 THEN Head(chain)
                      ELSE IF i > 1 /\ SPECIAL_CLUSTER(g[i - 1]) THEN g[i - 1]
                      ELSE GetFATEntry(fat, g[i - 1])
    <3>1. CASE i = 0
        BY <1>1, <3>1
    <3>2. CASE i # 0
      <4>1. i \in Nat \ {0} /\ i - 1 \in 0 .. n
          BY <3>2
      <4>2. Turn(i, Found(i - 1)) = Found(i)
          BY <4>1, ScanTurn
      <4>3. g[i] = Found(i) /\ g[i - 1] = Found(i - 1)
          BY <4>1
      <4> HIDE DEF g
      <4> QED
          BY <3>2, <4>2, <4>3 DEF Turn
    <3> QED
        BY <3>1, <3>2
  <2>2. g = [i \in 0 .. n |-> g[i]]
      OBVIOUS
  <2>3. Solves(g)
    <3> HIDE DEF g
    <3> QED
        BY <2>1, <2>2
  <2> HIDE DEF g, Solves
  <2> QED
      BY <2>3
<1>3. Solves(f)
  <2> HIDE DEF Solves
  <2> QED
      BY <1>2
<1>4. GetNextClusterOfCurrentFile(fat, Head(chain), n) =
          IF n > 0 /\ SPECIAL_CLUSTER(f[n]) THEN NoSector ELSE ReadCluster(f[n])
    BY DEF GetNextClusterOfCurrentFile
<1> HIDE DEF f
<1>5. /\ f[0] = chain[1]
      /\ \A i \in 1 .. n : f[i] = Turn(i, f[i - 1])
  <2>1. 0 \in 0 .. n /\ \A i \in 1 .. n : i \in 0 .. n /\ i # 0
      OBVIOUS
  <2>2. \A i \in 0 .. n : f[i] = IF i = 0 THEN Head(chain)
                      ELSE IF i > 1 /\ SPECIAL_CLUSTER(f[i - 1]) THEN f[i - 1]
                      ELSE GetFATEntry(fat, f[i - 1])
      BY <1>3
  <2> QED
      BY <1>1, <2>1, <2>2 DEF Turn
<1> DEFINE S == {i \in Nat : i <= n => f[i] = Found(i)}
<1>6. 0 \in S
    BY <1>1, <1>5
<1>7. ASSUME NEW i \in S PROVE i + 1 \in S
  <2>1. CASE i + 1 <= n
    <3>1. i + 1 \in 1 .. n /\ f[i] = Found(i) /\ i + 1 - 1 = i /\ i + 1 \in Nat \ {0}
        BY <2>1
    <3>2. f[i + 1] = Turn(i + 1, Found(i))
        BY <1>5, <3>1
    <3>3. Turn(i + 1, Found(i + 1 - 1)) = Found(i + 1)
        BY <3>1, ScanTurn
    <3> QED
        BY <3>1, <3>2, <3>3
  <2>2. CASE ~(i + 1 <= n)
      BY <2>2
  <2> QED
      BY <2>1, <2>2
<1>8. f[n] = Found(n)
  <2>1. S = Nat
    <3> HIDE DEF S
    <3> QED
        BY <1>6, <1>7, Induction DEF S
  <2> QED
      BY <2>1
<1>9. CASE n < Len(chain)
  <2>1. n + 1 \in 1 .. Len(chain) /\ f[n] = chain[n + 1]
      BY <1>1, <1>8, <1>9 DEF Found
  <2> QED
      BY <1>4, <1>9, <2>1, ChainClusters
<1>10. CASE n >= Len(chain)
  <2>1. n > 0 /\ f[n] = fat[Last(chain)]
      BY <1>1, <1>8, <1>10 DEF Found
  <2> QED
      BY <1>1, <1>4, <1>10, <2>1, MarkIsSpecial
<1> QED
    BY <1>1, <1>9, <1>10

\* A scan that starts from the first cluster for each cluster it wants, as those of
\* directories do, finds the n-th of the chain, and NULL past its end, for every n
\* (FsFat12_GetNextClusterOfCurrentFile).
THEOREM ClustersFound == Spec => []NthClusterFound
<1>1. IInv => NthClusterFound
  <2> SUFFICES ASSUME IInv, SoundTable, NEW n \in 0 .. (Len(chain) + 1)
               PROVE  GetNextClusterOfCurrentFile(fat, Head(chain), n) =
                          IF n < Len(chain) THEN dataSector + chain[n + 1] - 2 ELSE NoSector
      BY DEF NthClusterFound
  <2>1. chain \in Chains /\ fat \in Tables /\ TableFollows
      BY TypeGroups DEF IInv, DiskTypes
  <2> QED
      BY <2>1, ScanFinds
<1> QED
    BY <1>1, Invariance, PTL

=============================================================================
