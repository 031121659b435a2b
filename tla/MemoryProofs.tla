---------------------------- MODULE MemoryProofs ----------------------------
(***************************************************************************)
(* What TLAPS proves of the two memory managers.                           *)
(*                                                                         *)
(* Of PhysicalMemory, for every layout of memory that satisfies            *)
(* LayoutAssumption and any number of callers that allocate and free       *)
(* single blocks (SingleSpec): the counter and the bit map agree, the map  *)
(* says exactly which blocks are taken, and no block has two owners.       *)
(*                                                                         *)
(* Of VirtualMemory, composed with it, for every size of tables and        *)
(* directory, set of pages and layout of memory (VSpec).  Nothing is       *)
(* assumed of the search for the directory's run of three blocks, which    *)
(* may find blocks in use: nothing that comes later does.                  *)
(***************************************************************************)
EXTENDS VirtualMemory, TLAPS, FiniteSetTheorems, WellFoundedInduction

-----------------------------------------------------------------------------
(* Lemmas about the operators.                                             *)

\* Min, a CHOOSE, picks an element of a non-empty set of numbers.
LEMMA MinIsMember ==
    ASSUME NEW S \in SUBSET Nat, S # {}
    PROVE  Min(S) \in S /\ \A n \in S : Min(S) <= n
<1> DEFINE less == {p \in Nat \X Nat : p[1] < p[2]}
<1>1. IsWellFoundedOn(less, Nat)
  BY NatLessThanWellFounded DEF OpToRel
<1>2. \E x \in S : \A y \in S : <<y, x>> \notin less
  <2> HIDE DEF less
  <2> QED
    BY <1>1, WFMin
<1>3. \E x \in S : \A y \in S : x =< y
  <2>1. \A x, y \in Nat : y < x => <<y, x>> \in less
    OBVIOUS
  <2> HIDE DEF less
  <2>2. \A x, y \in S : <<y, x>> \notin less => x =< y
    BY <2>1
  <2> QED
    BY <1>2, <2>2
<1> QED
  BY <1>3 DEF Min

\* A number in range is not changed by its reduction to an unsigned integer.
LEMMA UnsignedSmall ==
    ASSUME NEW n \in Nat, n < UIntValues
    PROVE  Unsigned(n) = n
  BY SizesAssumption DEF Unsigned

\* The first bit found free is a clear bit of the map.
LEMMA FirstFreeIsClear ==
    ASSUME mapBits \in Nat, MemoryMapFindFirstFree # NotFound
    PROVE  /\ MemoryMapFindFirstFree \in AllBits \ memoryMap
           /\ MemoryMapFindFirstFree \in Nat
<1> DEFINE free == AllBits \ memoryMap
<1>1. free # {}
  BY DEF MemoryMapFindFirstFree
<1>2. free \in SUBSET Nat
  BY DEF AllBits
<1>3. MemoryMapFindFirstFree = Min(free)
  BY <1>1 DEF MemoryMapFindFirstFree
<1> HIDE DEF free
<1>4. Min(free) \in free
  BY <1>1, <1>2, MinIsMember
<1> QED
  BY <1>2, <1>3, <1>4 DEF free

\* A run of one block.
LEMMA SingleRun ==
    ASSUME NEW f \in Nat
    PROVE  Run(f, 1) = {f}
  BY DEF Run

-----------------------------------------------------------------------------
(* The inductive invariant.                                                *)

\* Callers of SingleSpec hold single blocks.
SinglesOnly == \A r \in held : r.frame \in Nat /\ r.size = 1

\* FreeCountMatchesMap, without the reduction to 32 bits: the form in which
\* one step of counting can be added to it.
CountsAgree ==
    /\ mapBits = 8 * MapBytes
    /\ maximumBlockCount - usedBlocks = Cardinality(AllBits \ memoryMap)

IInv ==
    /\ TypeOK
    /\ SinglesOnly
    /\ MapTellsWhoHolds
    /\ BlocksAreExclusive
    /\ phase = "off" => held = {}
    /\ phase = "running" => CountsAgree

\* The map has a finite number of bits.
LEMMA AllBitsFinite ==
    ASSUME mapBits \in Nat
    PROVE  /\ IsFiniteSet(AllBits)
           /\ Cardinality(AllBits) = mapBits
<1>1. /\ IsFiniteSet(0 .. (mapBits - 1))
      /\ Cardinality(0 .. (mapBits - 1)) = IF 0 > mapBits - 1 THEN 0 ELSE (mapBits - 1) - 0 + 1
  BY FS_Interval
<1> QED
  BY <1>1 DEF AllBits

\* The blocks held when every run is a single block.
LEMMA HeldSingles ==
    ASSUME SinglesOnly
    PROVE  HeldBlocks = {r.frame : r \in held}
<1>1. \A r \in held : Run(r.frame, r.size) = {r.frame}
  BY SingleRun DEF SinglesOnly
<1> QED
  BY <1>1 DEF HeldBlocks

\* Before start-up nothing is held.
LEMMA InitIInv == Init => IInv
<1> SUFFICES ASSUME Init PROVE IInv
  OBVIOUS
<1> USE DEF Init
<1>1. TypeOK
  BY DEF TypeOK, AllBits
<1>2. HeldBlocks = {}
  BY DEF HeldBlocks
<1> QED
  BY <1>1, <1>2 DEF IInv, SinglesOnly, MapTellsWhoHolds, BlocksAreExclusive

\* Start-up: after PMM_Initialise and the five reservations, the bits that are
\* clear are the available blocks that are not reserved, and they are counted.
LEMMA InitialiseIInv == IInv /\ InitialisePhysicalMemory => IInv'
<1> SUFFICES ASSUME IInv, InitialisePhysicalMemory PROVE IInv'
  OBVIOUS
<1> DEFINE bits == 0 .. (8 * MapBytes - 1)
<1>1. /\ held' = {} /\ phase' = "running" /\ mapBits' = 8 * MapBytes
      /\ memoryMap' = (bits \ AvailableBlocks) \cup ReservedBlocks
      /\ maximumBlockCount' = AvailableMemory \div BlockSize
      /\ usedBlocks' = AvailableMemory \div BlockSize - AvailableCount + ReservedCount
  BY DEF IInv, InitialisePhysicalMemory
<1>2. AllBits' = bits
  BY <1>1 DEF AllBits
<1>3. HeldBlocks' = {}
  BY <1>1 DEF HeldBlocks
<1>4. bits \ memoryMap' = AvailableBlocks \ ReservedBlocks
  BY <1>1, Layout DEF LayoutAssumption
<1>5. IsFiniteSet(AvailableBlocks)
  <2>1. IsFiniteSet(bits)
    BY FS_Interval, Layout DEF LayoutAssumption
  <2> HIDE DEF bits
  <2> QED
    BY <2>1, FS_Subset, Layout DEF LayoutAssumption, bits
<1>6. /\ Cardinality(AvailableBlocks \ ReservedBlocks)
           = Cardinality(AvailableBlocks) - Cardinality(ReservedBlocks)
      /\ Cardinality(AvailableBlocks) \in Nat
      /\ Cardinality(ReservedBlocks) \in Nat
  <2>1. AvailableBlocks \cap ReservedBlocks = ReservedBlocks
    BY Layout DEF LayoutAssumption
  <2>2. IsFiniteSet(ReservedBlocks)
    BY <1>5, FS_Subset, Layout DEF LayoutAssumption
  <2> QED
    BY <1>5, <2>1, <2>2, FS_Difference, FS_CardinalityType
<1>7. AvailableMemory \div BlockSize \in Nat
  BY SizesAssumption, Layout DEF LayoutAssumption
<1>8. CountsAgree'
  <2>1. (AllBits \ memoryMap)' = AvailableBlocks \ ReservedBlocks
    BY <1>2, <1>4
  <2>2. Cardinality(AllBits \ memoryMap)' = AvailableCount - ReservedCount
    BY <1>6, <2>1, Layout DEF LayoutAssumption
  <2>3. AvailableCount \in Nat /\ ReservedCount \in Nat
    BY <1>6, Layout DEF LayoutAssumption
  <2>4. maximumBlockCount' - usedBlocks' = AvailableCount - ReservedCount
    BY <1>1, <1>7, <2>3
  <2> QED
    BY <1>1, <2>2, <2>4 DEF CountsAgree
<1>9. TypeOK'
  <2>1. memoryMap' \subseteq AllBits'
    BY <1>1, <1>2, Layout DEF LayoutAssumption
  <2> HIDE DEF bits
  <2> QED
    BY <1>1, <1>6, <1>7, <2>1, Layout DEF TypeOK, LayoutAssumption
<1>10. (MapTellsWhoHolds /\ BlocksAreExclusive /\ SinglesOnly)'
  BY <1>1, <1>2, <1>3
     DEF MapTellsWhoHolds, BlocksAreExclusive, SinglesOnly, UnavailableBlocks
<1> QED
  BY <1>1, <1>8, <1>9, <1>10 DEF IInv

\* An allocation takes the first clear bit: one free block less, one held.
LEMMA AllocateBlockIInv == IInv /\ PMM_AllocateBlock => IInv'
<1> SUFFICES ASSUME IInv, PMM_AllocateBlock PROVE IInv'
  OBVIOUS
<1> DEFINE b == MemoryMapFindFirstFree
           free == AllBits \ memoryMap
<1>1. mapBits \in Nat /\ TypeOK /\ phase = "running" /\ CountsAgree
  BY DEF IInv, TypeOK, PMM_AllocateBlock
<1>2. BlockFound = b /\ b # NotFound
  BY DEF PMM_AllocateBlock, BlockFound
<1>3. b \in free /\ b \in Nat
  BY <1>1, <1>2, FirstFreeIsClear
<1>4. /\ memoryMap' = memoryMap \cup {b}
      /\ usedBlocks' = usedBlocks + 1
      /\ held' = held \cup {[frame |-> b, size |-> 1]}
      /\ UNCHANGED <<phase, mapBits, maximumBlockCount>>
  BY <1>2 DEF PMM_AllocateBlock
<1> HIDE DEF b
<1>5. AllBits' = AllBits
  BY <1>4 DEF AllBits
<1>6. SinglesOnly /\ SinglesOnly'
  BY <1>3, <1>4 DEF IInv, SinglesOnly
<1>7. HeldBlocks' = HeldBlocks \cup {b}
  <2>1. HeldBlocks = {r.frame : r \in held}
    BY <1>6, HeldSingles
  <2>2. HeldBlocks' = {r.frame : r \in held'}
    <3>1. \A r \in held' : Run(r.frame, r.size) = {r.frame}
      BY <1>6, SingleRun DEF SinglesOnly
    <3> QED
      BY <3>1 DEF HeldBlocks
  <2>3. {r.frame : r \in held'} = {r.frame : r \in held} \cup {b}
    <3> DEFINE new == [frame |-> b, size |-> 1]
    <3>1. held' = held \cup {new} /\ new.frame = b
      BY <1>4
    <3> HIDE DEF new
    <3> QED
      BY <3>1
  <2> QED
    BY <2>1, <2>2, <2>3
<1>8. CountsAgree'
  <2>1. IsFiniteSet(free)
    BY <1>1, AllBitsFinite, FS_Difference
  <2>2. Cardinality(free \ {b}) = Cardinality(free) - 1 /\ Cardinality(free) \in Nat
    BY <1>3, <2>1, FS_RemoveElement, FS_CardinalityType
  <2>3. Cardinality(free)' = Cardinality(free \ {b})
    <3>1. free' = free \ {b}
      BY <1>4, <1>5
    <3> QED
      BY <3>1
  <2> HIDE DEF free
  <2>4. maximumBlockCount \in Nat /\ usedBlocks \in Int
    BY <1>1 DEF TypeOK
  <2>5. maximumBlockCount - usedBlocks = Cardinality(free)
    BY <1>1 DEF CountsAgree, free
  <2>6. maximumBlockCount' - usedBlocks' = Cardinality(free)'
    BY <1>4, <2>2, <2>3, <2>4, <2>5
  <2> QED
    BY <1>1, <1>4, <2>6 DEF CountsAgree, free
<1>9. TypeOK'
  BY <1>1, <1>3, <1>4, <1>5 DEF TypeOK
<1>10. MapTellsWhoHolds'
  BY <1>1, <1>4, <1>5, <1>7 DEF IInv, MapTellsWhoHolds, UnavailableBlocks
<1>11. BlocksAreExclusive'
  <2>1. b \notin UnavailableBlocks /\ b \notin HeldBlocks
    BY <1>1, <1>3 DEF IInv, MapTellsWhoHolds
  <2>2. UnavailableBlocks' = UnavailableBlocks
    BY <1>5 DEF UnavailableBlocks
  <2>3. \A r \in held : b \notin Run(r.frame, r.size)
    BY <2>1 DEF HeldBlocks
  <2>4. Run(b, 1) = {b}
    BY <1>3, SingleRun
  <2> QED
    BY <1>4, <1>7, <2>1, <2>2, <2>3, <2>4 DEF IInv, BlocksAreExclusive
<1> QED
  BY <1>1, <1>4, <1>6, <1>8, <1>9, <1>10, <1>11 DEF IInv

\* A block that is freed was held by its owner only, and its bit was set.
LEMMA FreeBlockIInv ==
    ASSUME NEW r \in held
    PROVE  IInv /\ PMM_FreeBlock(r) => IInv'
<1> SUFFICES ASSUME IInv, PMM_FreeBlock(r) PROVE IInv'
  OBVIOUS
<1> DEFINE b == r.frame
           free == AllBits \ memoryMap
<1>1. mapBits \in Nat /\ TypeOK /\ phase = "running" /\ CountsAgree
  BY DEF IInv, TypeOK
<1>2. /\ memoryMap' = memoryMap \ {b}
      /\ usedBlocks' = usedBlocks - 1
      /\ held' = held \ {r}
      /\ UNCHANGED <<phase, mapBits, maximumBlockCount>>
  BY DEF PMM_FreeBlock
<1>3. AllBits' = AllBits
  BY <1>2 DEF AllBits
<1>4. SinglesOnly /\ SinglesOnly' /\ b \in Nat /\ r.size = 1
  BY <1>2 DEF IInv, SinglesOnly
<1>5. \A s \in held : Run(s.frame, s.size) = {s.frame}
  BY <1>4, SingleRun DEF SinglesOnly
<1>6. b \in HeldBlocks /\ HeldBlocks' = HeldBlocks \ {b}
  <2>1. HeldBlocks = {s.frame : s \in held}
    BY <1>5 DEF HeldBlocks
  <2>2. HeldBlocks' = {s.frame : s \in held'}
    BY <1>2, <1>5 DEF HeldBlocks
  <2>3. \A s \in held : s # r => s.frame # b
    BY <1>5 DEF IInv, BlocksAreExclusive
  <2> QED
    BY <1>2, <2>1, <2>2, <2>3
<1>7. b \in memoryMap /\ b \in AllBits /\ b \notin UnavailableBlocks
  BY <1>1, <1>6 DEF IInv, MapTellsWhoHolds, BlocksAreExclusive, TypeOK
<1> HIDE DEF b
<1>8. CountsAgree'
  <2>1. IsFiniteSet(free)
    BY <1>1, AllBitsFinite, FS_Difference
  <2>2. Cardinality(free \cup {b}) = Cardinality(free) + 1 /\ Cardinality(free) \in Nat
    BY <1>7, <2>1, FS_AddElement, FS_CardinalityType
  <2>3. Cardinality(free)' = Cardinality(free \cup {b})
    <3>1. free' = free \cup {b}
      BY <1>2, <1>3, <1>7
    <3> QED
      BY <3>1
  <2> HIDE DEF free
  <2>4. maximumBlockCount \in Nat /\ usedBlocks \in Int
    BY <1>1 DEF TypeOK
  <2>5. maximumBlockCount - usedBlocks = Cardinality(free)
    BY <1>1 DEF CountsAgree, free
  <2>6. maximumBlockCount' - usedBlocks' = Cardinality(free)'
    BY <1>2, <2>2, <2>3, <2>4, <2>5
  <2> QED
    BY <1>1, <1>2, <2>6 DEF CountsAgree, free
<1>9. TypeOK'
  BY <1>1, <1>2, <1>3 DEF TypeOK
<1>10. UnavailableBlocks' = UnavailableBlocks
  BY <1>3 DEF UnavailableBlocks
<1>11. MapTellsWhoHolds'
  BY <1>1, <1>2, <1>6, <1>7, <1>10 DEF IInv, MapTellsWhoHolds
<1>12. BlocksAreExclusive'
  BY <1>2, <1>6, <1>10 DEF IInv, BlocksAreExclusive
<1> QED
  BY <1>1, <1>2, <1>4, <1>8, <1>9, <1>11, <1>12 DEF IInv

\* Every operation on single blocks preserves the invariant.
LEMMA NextIInv == IInv /\ [SingleNext]_vars => IInv'
<1> SUFFICES ASSUME IInv, [SingleNext]_vars PROVE IInv'
  OBVIOUS
<1>1. CASE InitialisePhysicalMemory
  BY <1>1, InitialiseIInv
<1>2. CASE PMM_AllocateBlock
  BY <1>2, AllocateBlockIInv
<1>3. CASE \E r \in held : PMM_FreeBlock(r)
  BY <1>3, FreeBlockIInv
<1>4. CASE UNCHANGED vars
  BY <1>4 DEF vars, IInv, TypeOK, AllBits, SinglesOnly, MapTellsWhoHolds,
              BlocksAreExclusive, UnavailableBlocks, HeldBlocks, CountsAgree
<1> QED
  BY <1>1, <1>2, <1>3, <1>4 DEF SingleNext

\* The invariant from which the results follow holds of the manager
\* (physicalmemorymanager.c) whatever sequence of single-block calls is made.
THEOREM Inductive == SingleSpec => []IInv
<1>1. Init => IInv
  BY InitIInv
<1>2. IInv /\ [SingleNext]_vars => IInv'
  BY NextIInv
<1> QED
  BY <1>1, <1>2, PTL DEF SingleSpec

-----------------------------------------------------------------------------
(* The results.                                                            *)

\* The variables keep their types whatever callers of single blocks do.
THEOREM TypeCorrect == SingleSpec => []TypeOK
<1>1. IInv => TypeOK
  BY DEF IInv
<1> QED
  BY <1>1, Inductive, PTL

\* A bit of the map is set exactly for the blocks that are taken.  Of single blocks this and
\* FreeCountExact together say that PMM_AllocateBlock gives none to two callers: a block
\* given twice would be counted twice.
THEOREM MapExact == SingleSpec => []MapTellsWhoHolds
<1>1. IInv => MapTellsWhoHolds
  BY DEF IInv
<1> QED
  BY <1>1, Inductive, PTL

\* PMM_GetFreeBlockCount is the number of clear bits: the check against the
\* counter and the search in the map never disagree.
THEOREM FreeCountExact == SingleSpec => []FreeCountMatchesMap
<1>1. IInv => FreeCountMatchesMap
  <2> SUFFICES ASSUME IInv, phase = "running"
               PROVE  PMM_GetFreeBlockCount = Cardinality(AllBits \ memoryMap)
    BY DEF FreeCountMatchesMap
  <2>1. mapBits \in Nat /\ CountsAgree
    BY DEF IInv, TypeOK
  <2>2. /\ Cardinality(AllBits \ memoryMap) \in Nat
        /\ Cardinality(AllBits \ memoryMap) <= mapBits
    BY <2>1, AllBitsFinite, FS_Subset, FS_CardinalityType
  <2>3. Cardinality(AllBits \ memoryMap) < UIntValues
    BY <2>1, <2>2, SizesAssumption, Layout DEF CountsAgree, LayoutAssumption
  <2> QED
    BY <2>1, <2>2, <2>3, UnsignedSmall DEF CountsAgree, PMM_GetFreeBlockCount
<1> QED
  BY <1>1, Inductive, PTL

\* PMM_AllocateBlock hands out a block that was free: single blocks are searched in the
\* map word by word, without the faulty test of bits that runs are searched with.
THEOREM BlocksWereFree == SingleSpec => AllocatedRunsWereFree
<1> DEFINE WereFree == \A r \in held' \ held : Run(r.frame, r.size) \subseteq AllBits \ memoryMap
<1>1. IInv /\ [SingleNext]_vars => [WereFree]_vars
  <2> SUFFICES ASSUME IInv, [SingleNext]_vars, NEW r \in held' \ held
               PROVE  Run(r.frame, r.size) \subseteq AllBits \ memoryMap
    OBVIOUS
  <2>1. PMM_AllocateBlock
    BY DEF SingleNext, InitialisePhysicalMemory, PMM_FreeBlock, vars
  <2>2. r = [frame |-> BlockFound, size |-> 1] /\ BlockFound = MemoryMapFindFirstFree
    BY <2>1 DEF PMM_AllocateBlock, BlockFound
  <2>3. MemoryMapFindFirstFree \in AllBits \ memoryMap /\ MemoryMapFindFirstFree \in Nat
    BY <2>1, <2>2, FirstFreeIsClear DEF IInv, TypeOK, PMM_AllocateBlock
  <2> QED
    BY <2>2, <2>3, SingleRun
<1> QED
  BY <1>1, Inductive, PTL DEF SingleSpec, AllocatedRunsWereFree

-----------------------------------------------------------------------------
(* The virtual memory manager.                                             *)

Indices == 0 .. (Entries - 1)
Entry == [present : BOOLEAN, frame : Nat]
Tables == [Indices -> Entry]

KernelFrame == KernelBase \div BlockSize

-----------------------------------------------------------------------------
(* The inductive invariant.                                                *)

PagingTypes ==
    /\ step \in {"physical", "table", "table2", "directory", "ready"}
    /\ mapBits \in Nat
    /\ directory \in Tables
    /\ DOMAIN tables \subseteq Nat /\ tables \in [DOMAIN tables -> Tables]

Single(frame) == [frame |-> frame, size |-> 1]

\* How far VMM_Initialise has got.
Starting ==
    /\ step \in {"physical", "table"} => DOMAIN tables = {}
    /\ step = "table2" =>
           \E a \in Nat : DOMAIN tables = {a} /\ tables[a] = LinearTable(0)
    /\ step = "directory" =>
           \E a, b \in Nat : /\ a # b /\ DOMAIN tables = {a, b}
                             /\ tables[a] = LinearTable(0) /\ tables[b] = LinearTable(KernelFrame)
    /\ step # "ready" => directory = ClearTable /\ held = {Single(f) : f \in DOMAIN tables}
    /\ step # "physical" => UnavailableBlocks \cup DOMAIN tables \subseteq memoryMap

PageFrames == {EntryOf(page).frame : page \in AllocatedPages}

\* The directory points to each table once, the first two are the kernel's; what has
\* memory is marked, and pages have memory of their own.
Paging ==
    step = "ready" =>
        /\ directory[0].present /\ tables[directory[0].frame] = LinearTable(0)
        /\ directory[KernelEntry].present
        /\ tables[directory[KernelEntry].frame] = LinearTable(KernelFrame)
        /\ \A i, j \in Indices : /\ i # j /\ directory[i].present /\ directory[j].present
                                 => directory[i].frame # directory[j].frame
        /\ DOMAIN tables = TableFrames
        /\ Run(directoryFrame, 3) \subseteq memoryMap
        /\ \A page \in AllocatedPages :
               /\ EntryOf(page).frame \in memoryMap
               /\ EntryOf(page).frame \notin DOMAIN tables \cup Run(directoryFrame, 3)
                                                 \cup UnavailableBlocks
               /\ \A other \in AllocatedPages \ {page} : EntryOf(other).frame # EntryOf(page).frame
        /\ held = {Single(f) : f \in DOMAIN tables \cup PageFrames}
                      \cup {[frame |-> directoryFrame, size |-> 3]}

\* Where a frame is going to be set the bit above the mask is clear: the entries that have
\* had it are those of devices, which stay.
Reusable ==
    /\ \A i \in Indices : directory[i].present \/ directory[i].frame = 0
    /\ step = "ready" =>
           \A page \in Pages : HasTable(page) =>
               \/ EntryOf(page).frame < MaskedFrames
               \/ EntryOf(page).present /\ EntryOf(page).frame \in DeviceFrames

VIInv == PagingTypes /\ Starting /\ Paging /\ Reusable

-----------------------------------------------------------------------------
(* Tables and entries.                                                     *)

LEMMA Numbers ==
    /\ Entries \in Nat \ {0} /\ 0 \in Indices
    /\ KernelEntry \in Indices /\ KernelEntry # 0
    /\ KernelFrame \in Nat \ {0}
    /\ MaskedFrames \in Nat \ {0} /\ DeviceFrames \subseteq Nat
<1>1. Entries \in Nat \ {0} /\ KernelEntry \in 1 .. (Entries - 1)
    BY VirtualAssumption
<1>2. KernelBase \in Nat /\ BlockSize \in Nat \ {0} /\ KernelBase >= BlockSize
    BY VirtualAssumption, SizesAssumption
<1>3. KernelFrame \in Nat \ {0}
    BY <1>2 DEF KernelFrame
<1>4. MaskedFrames \in Nat \ {0} /\ DeviceFrames \subseteq Nat
    BY VirtualAssumption
<1> QED
    BY <1>1, <1>3, <1>4 DEF Indices

LEMMA EntryChanges ==
    ASSUME NEW e \in Entry, NEW frame \in Nat
    PROVE  /\ AddPresent(e) = [present |-> TRUE, frame |-> e.frame] /\ AddPresent(e) \in Entry
           /\ RemovePresent(e) = [present |-> FALSE, frame |-> e.frame]
           /\ RemovePresent(e) \in Entry
           /\ e.frame < MaskedFrames =>
                  /\ SetFrame(e, frame) = [present |-> e.present, frame |-> frame]
                  /\ SetFrame(e, frame) \in Entry
<1>1. /\ [e EXCEPT !.present = TRUE] \in Entry
      /\ [e EXCEPT !.present = TRUE].present = TRUE /\ [e EXCEPT !.present = TRUE].frame = e.frame
    BY DEF Entry
<1>2. /\ [e EXCEPT !.present = FALSE] \in Entry
      /\ [e EXCEPT !.present = FALSE].present = FALSE /\ [e EXCEPT !.present = FALSE].frame = e.frame
    BY DEF Entry
<1>3. /\ [e EXCEPT !.frame = frame] \in Entry
      /\ [e EXCEPT !.frame = frame].present = e.present /\ [e EXCEPT !.frame = frame].frame = frame
    BY DEF Entry
<1>4. \A a, b \in Entry : a.present = b.present /\ a.frame = b.frame => a = b
    BY DEF Entry
<1>5. \A present \in BOOLEAN, f \in Nat : [present |-> present, frame |-> f] \in Entry
    BY DEF Entry
<1>6. e.present \in BOOLEAN /\ e.frame \in Nat
    BY DEF Entry
<1>7. AddPresent(e) = [present |-> TRUE, frame |-> e.frame] /\ AddPresent(e) \in Entry
  <2> DEFINE x == [e EXCEPT !.present = TRUE]
             y == [present |-> TRUE, frame |-> e.frame]
  <2>1. x \in Entry /\ y \in Entry
      BY <1>1, <1>5, <1>6
  <2>2. x.present = y.present /\ x.frame = y.frame
      BY <1>1
  <2>3. AddPresent(e) = x
      BY DEF AddPresent
  <2> HIDE DEF x, y
  <2>4. x = y
      BY <1>4, <2>1, <2>2
  <2> QED
      BY <2>1, <2>3, <2>4 DEF y
<1>8. RemovePresent(e) = [present |-> FALSE, frame |-> e.frame] /\ RemovePresent(e) \in Entry
  <2> DEFINE x == [e EXCEPT !.present = FALSE]
             y == [present |-> FALSE, frame |-> e.frame]
  <2>1. x \in Entry /\ y \in Entry
      BY <1>2, <1>5, <1>6
  <2>2. x.present = y.present /\ x.frame = y.frame
      BY <1>2
  <2>3. RemovePresent(e) = x
      BY DEF RemovePresent
  <2> HIDE DEF x, y
  <2>4. x = y
      BY <1>4, <2>1, <2>2
  <2> QED
      BY <2>1, <2>3, <2>4 DEF y
<1>9. ASSUME e.frame < MaskedFrames
      PROVE  SetFrame(e, frame) = [present |-> e.present, frame |-> frame] /\ SetFrame(e, frame) \in Entry
  <2>1. SetFrame(e, frame) = [e EXCEPT !.frame = frame]
      BY <1>9 DEF SetFrame, Entry
  <2>2. [e EXCEPT !.frame = frame] = [present |-> e.present, frame |-> frame]
    <3> DEFINE x == [e EXCEPT !.frame = frame]
               y == [present |-> e.present, frame |-> frame]
    <3>1. x \in Entry /\ y \in Entry
      BY <1>3, <1>5, <1>6
    <3>2. x.present = y.present /\ x.frame = y.frame
      BY <1>3
    <3> HIDE DEF x, y
    <3>3. x = y
      BY <1>4, <3>1, <3>2
    <3> QED
      BY <3>3 DEF x, y
  <2> QED
      BY <1>3, <2>1, <2>2
<1> QED
    BY <1>7, <1>8, <1>9

LEMMA Mapped ==
    ASSUME NEW e \in Entry, e.frame < MaskedFrames, NEW frame \in Nat
    PROVE  /\ AddPresent(SetFrame(e, frame)) = [present |-> TRUE, frame |-> frame]
           /\ SetFrame(AddPresent(e), frame) = [present |-> TRUE, frame |-> frame]
           /\ [present |-> TRUE, frame |-> frame] \in Entry
<1>1. SetFrame(e, frame) \in Entry /\ SetFrame(e, frame).frame = frame
    BY EntryChanges
<1>2. AddPresent(e) \in Entry /\ AddPresent(e).present = TRUE /\ AddPresent(e).frame = e.frame
    BY EntryChanges
<1>3. AddPresent(SetFrame(e, frame)) = [present |-> TRUE, frame |-> frame]
    BY <1>1, EntryChanges
<1>4. SetFrame(AddPresent(e), frame) = [present |-> TRUE, frame |-> frame]
    BY <1>2, EntryChanges
<1> QED
    BY <1>3, <1>4 DEF Entry

LEMMA LinearTables ==
    ASSUME NEW first \in Nat
    PROVE  /\ LinearTable(first) \in Tables
           /\ \A i \in Indices : LinearTable(first)[i] = [present |-> TRUE, frame |-> first + i]
<1>1. Clear \in Entry /\ Clear.frame < MaskedFrames
    BY Numbers DEF Clear, Entry
<1>2. \A i \in Indices : first + i \in Nat
    BY Numbers DEF Indices
<1>3. \A i \in Indices :
          /\ SetFrame(AddPresent(Clear), first + i) = [present |-> TRUE, frame |-> first + i]
          /\ [present |-> TRUE, frame |-> first + i] \in Entry
    BY <1>1, <1>2, Mapped
<1>4. LinearTable(first) = [i \in Indices |-> SetFrame(AddPresent(Clear), first + i)]
    BY DEF LinearTable, Indices
<1> QED
    BY <1>3, <1>4 DEF Tables

LEMMA ClearTables ==
    /\ ClearTable \in Tables
    /\ \A i \in Indices : /\ ClearTable[i] = [present |-> FALSE, frame |-> 0]
                           /\ ClearTable[i] \in Entry /\ ClearTable[i].frame < MaskedFrames
    BY Numbers DEF ClearTable, Clear, Tables, Entry, Indices

LEMMA PageIndices ==
    ASSUME NEW page \in Pages
    PROVE  /\ page[1] \in Indices /\ page[2] \in Indices
           /\ page[1] # 0 /\ page[1] # KernelEntry
           /\ \A other \in Pages : other # page => other[1] # page[1] \/ other[2] # page[2]
<1>1. Pages \subseteq ((1 .. (Entries - 1)) \ {KernelEntry}) \X (0 .. (Entries - 1))
    BY VirtualAssumption
<1> QED
    BY <1>1, Numbers DEF Indices

\* A block that is found is free, and not a device's.
LEMMA FoundIsFree ==
    ASSUME PagingTypes, Starting, step # "physical", PMM_AllocateBlock
    PROVE  /\ BlockFound \in Nat /\ BlockFound \notin memoryMap
           /\ BlockFound \notin DOMAIN tables \cup UnavailableBlocks \cup DeviceFrames
           /\ BlockFound \in AvailableBlocks
           /\ memoryMap' = memoryMap \cup {BlockFound}
           /\ held' = held \cup {Single(BlockFound)}
           /\ mapBits' = mapBits
<1>1. BlockFound # NotFound /\ mapBits \in Nat
    BY DEF PMM_AllocateBlock, PagingTypes
<1>2. BlockFound = MemoryMapFindFirstFree
    BY <1>1 DEF BlockFound
<1>3. BlockFound \in AllBits \ memoryMap /\ BlockFound \in Nat
    BY <1>1, <1>2, FirstFreeIsClear
<1>4. BlockFound \notin UnavailableBlocks /\ BlockFound \notin DOMAIN tables
    BY <1>3 DEF Starting
<1>5. BlockFound \in AvailableBlocks
    BY <1>3, <1>4 DEF UnavailableBlocks
<1> QED
    BY <1>3, <1>4, <1>5, VirtualAssumption DEF PMM_AllocateBlock, Single

LEMMA UnavailableFixed ==
    ASSUME mapBits' = mapBits
    PROVE  UnavailableBlocks' = UnavailableBlocks
    BY DEF UnavailableBlocks, AllBits

\* The null page is never a caller's.
LEMMA NullReserved == 0 \in UnavailableBlocks
<1>1. BlockSize \in Nat \ {0}
    BY SizesAssumption
<1>2. 0 % BlockSize = 0 /\ 0 \div BlockSize = 0
    BY <1>1
<1>3. (BlockSize + BlockSize - 1) \div BlockSize = 1
    BY <1>1, Z3
<1>4. (1 * BlockSize) \div BlockSize = 1
    BY <1>1, Z3
<1>5. RegionBlocks(0, BlockSize) = Run(0, 1)
    BY <1>1, <1>2, <1>3, <1>4 DEF RegionBlocks, RegionCount, RoundUp
<1>6. 0 \in Run(0, 1)
    BY DEF Run
<1>7. [base |-> 0, size |-> BlockSize] \in Reservations
    BY DEF Reservations
<1> DEFINE null == [base |-> 0, size |-> BlockSize]
<1>8. null \in Reservations /\ 0 \in RegionBlocks(null.base, null.size)
    BY <1>5, <1>6, <1>7
<1> HIDE DEF null
<1>9. 0 \in ReservedBlocks
    BY <1>8 DEF ReservedBlocks
<1> QED
    BY <1>9 DEF UnavailableBlocks

LEMMA OneMoreTable ==
    ASSUME PagingTypes, NEW frame \in Nat, NEW table \in Tables
    PROVE  /\ DOMAIN AddedTable(frame, table) = DOMAIN tables \cup {frame}
           /\ AddedTable(frame, table)[frame] = table
           /\ \A f \in DOMAIN tables : f # frame => AddedTable(frame, table)[f] = tables[f]
           /\ DOMAIN AddedTable(frame, table) \subseteq Nat
           /\ AddedTable(frame, table) \in [DOMAIN AddedTable(frame, table) -> Tables]
    BY DEF PagingTypes, AddedTable

-----------------------------------------------------------------------------
(* Start-up.                                                               *)

LEMMA InitKept == VInit => VIInv
<1> SUFFICES ASSUME VInit PROVE VIInv
    OBVIOUS
<1>1. /\ step = "physical" /\ directory = ClearTable /\ tables = <<>> /\ held = {} /\ mapBits = 0
    BY DEF VInit, Init
<1>2. DOMAIN tables = {}
    BY <1>1
<1>3. PagingTypes
    BY <1>1, <1>2, ClearTables DEF PagingTypes
<1>4. Starting
    BY <1>1, <1>2 DEF Starting
<1>5. Reusable
    BY <1>1, ClearTables DEF Reusable
<1> QED
    BY <1>1, <1>3, <1>4, <1>5 DEF VIInv, Paging

LEMMA StartKept ==
    ASSUME VIInv, Start
    PROVE  VIInv'
<1>1. /\ step = "physical" /\ step' = "table" /\ directory' = directory /\ tables' = tables
      /\ held' = held /\ mapBits' = 8 * MapBytes
      /\ memoryMap' = ((0 .. (8 * MapBytes - 1)) \ AvailableBlocks) \cup ReservedBlocks
    BY DEF Start, InitialisePhysicalMemory, pagingVars
<1>2. MapBytes \in Nat
    BY Layout DEF LayoutAssumption
<1>3. UnavailableBlocks' = memoryMap'
    BY <1>1 DEF UnavailableBlocks, AllBits
<1>4. DOMAIN tables = {} /\ directory = ClearTable /\ held = {Single(f) : f \in DOMAIN tables}
    BY <1>1 DEF VIInv, Starting
<1>5. PagingTypes'
    BY <1>1, <1>2 DEF VIInv, PagingTypes
<1>6. Starting'
    BY <1>1, <1>3, <1>4 DEF Starting
<1>7. Reusable'
    BY <1>1, <1>4, ClearTables DEF Reusable
<1> QED
    BY <1>1, <1>5, <1>6, <1>7 DEF VIInv, Paging

LEMMA TableKept ==
    ASSUME VIInv, AllocateTables
    PROVE  VIInv'
<1> DEFINE b == BlockFound
<1>1. /\ step \in {"table", "table2"} /\ PMM_AllocateBlock
      /\ directory' = directory /\ directoryFrame' = directoryFrame
    BY DEF AllocateTables, AllocateTable
<1>2. /\ b \in Nat /\ b \notin memoryMap /\ b \notin DOMAIN tables
      /\ memoryMap' = memoryMap \cup {b} /\ held' = held \cup {Single(b)} /\ mapBits' = mapBits
    BY <1>1, FoundIsFree DEF VIInv
<1>3. /\ directory = ClearTable /\ held = {Single(f) : f \in DOMAIN tables}
      /\ UnavailableBlocks \cup DOMAIN tables \subseteq memoryMap
      /\ PagingTypes
    BY <1>1 DEF VIInv, Starting
<1>4. UnavailableBlocks' = UnavailableBlocks
    BY <1>2, UnavailableFixed
<1>5. ASSUME NEW first \in Nat, tables' = AddedTable(b, LinearTable(first))
      PROVE  /\ DOMAIN tables' = DOMAIN tables \cup {b} /\ tables'[b] = LinearTable(first)
             /\ \A f \in DOMAIN tables : f # b => tables'[f] = tables[f]
             /\ DOMAIN tables' \subseteq Nat /\ tables' \in [DOMAIN tables' -> Tables]
  <2> DEFINE table == LinearTable(first)
  <2>1. table \in Tables
      BY LinearTables
  <2> HIDE DEF table
  <2>2. tables' = AddedTable(b, table) /\ b \in Nat /\ PagingTypes
      BY <1>2, <1>3, <1>5 DEF table
  <2> HIDE DEF b
  <2>3. /\ DOMAIN tables' = DOMAIN tables \cup {b} /\ tables'[b] = table
        /\ \A f \in DOMAIN tables : f # b => tables'[f] = tables[f]
        /\ DOMAIN tables' \subseteq Nat /\ tables' \in [DOMAIN tables' -> Tables]
      BY <2>1, <2>2, OneMoreTable
  <2> QED
      BY <2>3 DEF table
<1> HIDE DEF b
<1>6. ASSUME DOMAIN tables' = DOMAIN tables \cup {b}
      PROVE  /\ held' = {Single(f) : f \in DOMAIN tables'}
             /\ UnavailableBlocks' \cup DOMAIN tables' \subseteq memoryMap'
             /\ directory' = ClearTable /\ directory' \in Tables /\ mapBits' \in Nat
  <2>1. held' = {Single(f) : f \in DOMAIN tables} \cup {Single(b)}
      BY <1>2, <1>3
  <2>2. held' = {Single(f) : f \in DOMAIN tables'}
      BY <1>6, <2>1
  <2> QED
      BY <1>1, <1>2, <1>3, <1>4, <1>6, <2>2 DEF PagingTypes
<1>7. CASE step = "table" /\ step' = "table2" /\ tables' = AddedTable(b, LinearTable(0))
  <2>1. DOMAIN tables = {}
      BY <1>7 DEF VIInv, Starting
  <2>2. /\ DOMAIN tables' = DOMAIN tables \cup {b} /\ tables'[b] = LinearTable(0)
        /\ DOMAIN tables' \subseteq Nat /\ tables' \in [DOMAIN tables' -> Tables]
      BY <1>5, <1>7
  <2>3. DOMAIN tables' = {b}
      BY <2>1, <2>2
  <2>4. PagingTypes'
      BY <1>6, <1>7, <2>2 DEF PagingTypes
  <2>5. Starting'
      BY <1>2, <1>6, <1>7, <2>2, <2>3 DEF Starting
  <2>6. Reusable'
      BY <1>6, <1>7, <2>2, ClearTables DEF Reusable
  <2> QED
      BY <1>7, <2>4, <2>5, <2>6 DEF VIInv, Paging
<1>8. CASE step = "table2" /\ step' = "directory" /\ tables' = AddedTable(b, LinearTable(KernelFrame))
  <2>1. PICK a \in Nat : DOMAIN tables = {a} /\ tables[a] = LinearTable(0)
      BY <1>8 DEF VIInv, Starting
  <2>2. /\ DOMAIN tables' = DOMAIN tables \cup {b} /\ tables'[b] = LinearTable(KernelFrame)
        /\ \A f \in DOMAIN tables : f # b => tables'[f] = tables[f]
        /\ DOMAIN tables' \subseteq Nat /\ tables' \in [DOMAIN tables' -> Tables]
      BY <1>5, <1>8, Numbers
  <2>3. a # b /\ DOMAIN tables' = {a, b} /\ tables'[a] = LinearTable(0)
      BY <1>2, <2>1, <2>2
  <2>4. PagingTypes'
      BY <1>6, <1>8, <2>2 DEF PagingTypes
  <2>5. Starting'
      BY <1>2, <1>6, <1>8, <2>2, <2>3 DEF Starting
  <2>6. Reusable'
      BY <1>6, <1>8, <2>2, ClearTables DEF Reusable
  <2> QED
      BY <1>8, <2>4, <2>5, <2>6 DEF VIInv, Paging
<1> QED
    BY <1>7, <1>8 DEF AllocateTables, AllocateTable, b, KernelFrame

LEMMA DirectoryKept ==
    ASSUME VIInv, AllocateDirectory
    PROVE  VIInv'
<1> DEFINE run == BlocksFound(3)
<1>1. /\ step = "directory" /\ step' = "ready" /\ tables' = tables /\ directoryFrame' = run
      /\ memoryMap' = memoryMap \cup Run(run, 3)
      /\ held' = held \cup {[frame |-> run, size |-> 3]} /\ mapBits' = mapBits
    BY DEF AllocateDirectory, PMM_AllocateBlocks
<1> HIDE DEF run
<1>2. PICK a, b \in Nat : /\ a # b /\ DOMAIN tables = {a, b}
                          /\ tables[a] = LinearTable(0) /\ tables[b] = LinearTable(KernelFrame)
    BY <1>1 DEF VIInv, Starting
<1>3. LinearTable(0) # LinearTable(KernelFrame)
  <2>1. LinearTable(0)[0] = [present |-> TRUE, frame |-> 0 + 0]
      BY LinearTables, Numbers
  <2>2. LinearTable(KernelFrame)[0] = [present |-> TRUE, frame |-> KernelFrame + 0]
      BY LinearTables, Numbers
  <2>3. LinearTable(0)[0].frame = 0 /\ LinearTable(KernelFrame)[0].frame # 0
      BY <2>1, <2>2, Numbers
  <2> QED
      BY <2>3
<1>4. directory' = [ClearTable EXCEPT ![0] = SetFrame(AddPresent(@), a),
                                      ![KernelEntry] = SetFrame(AddPresent(@), b)]
    BY <1>2, <1>3 DEF AllocateDirectory, KernelFrame
<1>5. /\ \A i \in Indices : directory'[i] = IF i = 0 THEN [present |-> TRUE, frame |-> a]
                            ELSE IF i = KernelEntry THEN [present |-> TRUE, frame |-> b]
                            ELSE [present |-> FALSE, frame |-> 0]
      /\ directory' \in Tables
  <2>1. /\ ClearTable[0] \in Entry /\ ClearTable[0].frame < MaskedFrames
        /\ ClearTable[KernelEntry] \in Entry /\ ClearTable[KernelEntry].frame < MaskedFrames
      BY ClearTables, Numbers
  <2>2. /\ SetFrame(AddPresent(ClearTable[0]), a) = [present |-> TRUE, frame |-> a]
        /\ SetFrame(AddPresent(ClearTable[KernelEntry]), b) = [present |-> TRUE, frame |-> b]
      BY <2>1, Mapped
  <2>3. directory' = [[ClearTable EXCEPT ![0] = [present |-> TRUE, frame |-> a]]
                          EXCEPT ![KernelEntry] = [present |-> TRUE, frame |-> b]]
      BY <1>4, <2>2, Numbers, ClearTables DEF Tables
  <2>4. [present |-> TRUE, frame |-> a] \in Entry /\ [present |-> TRUE, frame |-> b] \in Entry
      BY Mapped, <2>1
  <2> HIDE DEF Entry
  <2> QED
      BY <2>3, <2>4, Numbers, ClearTables DEF Tables
<1>6. TableFrames' = {a, b}
  <2>1. DOMAIN directory' = Indices
      BY <1>5 DEF Tables
  <2>2. {j \in DOMAIN directory' : directory'[j].present} = {0, KernelEntry}
      BY <1>5, <2>1, Numbers
  <2>3. directory'[0].frame = a /\ directory'[KernelEntry].frame = b
      BY <1>5, Numbers
  <2> QED
      BY <2>2, <2>3 DEF TableFrames
<1>7. AllocatedPages' = {}
  <2>1. \A page \in Pages : ~directory'[page[1]].present
      BY <1>5, PageIndices
  <2> QED
      BY <2>1 DEF AllocatedPages, HasTable
<1>8. /\ held = {Single(f) : f \in DOMAIN tables} /\ PagingTypes
      /\ UnavailableBlocks \cup DOMAIN tables \subseteq memoryMap
    BY <1>1 DEF VIInv, Starting
<1>9. UnavailableBlocks' = UnavailableBlocks
    BY <1>1, UnavailableFixed
<1>10. PagingTypes'
    BY <1>1, <1>5, <1>8 DEF PagingTypes
<1>11. Starting'
    BY <1>1, <1>8, <1>9 DEF Starting
<1>12. Paging'
  <2>1. /\ directory'[0] = [present |-> TRUE, frame |-> a]
        /\ directory'[KernelEntry] = [present |-> TRUE, frame |-> b]
        /\ \A i \in Indices : i # 0 /\ i # KernelEntry => ~directory'[i].present
    <3>1. directory'[0] = [present |-> TRUE, frame |-> a]
        BY <1>5, Numbers
    <3>2. directory'[KernelEntry] = [present |-> TRUE, frame |-> b]
        BY <1>5, Numbers
    <3>3. ASSUME NEW i \in Indices, i # 0, i # KernelEntry PROVE ~directory'[i].present
      <4>1. directory'[i] = [present |-> FALSE, frame |-> 0]
          BY <1>5, <3>3
      <4> QED
          BY <4>1
    <3> QED
        BY <3>1, <3>2, <3>3
  <2>2. \A i, j \in Indices : i # j /\ directory'[i].present /\ directory'[j].present
                                => directory'[i].frame # directory'[j].frame
      BY <1>2, <2>1
  <2>3. PageFrames' = {}
      BY <1>7 DEF PageFrames
  <2>4. held' = {Single(f) : f \in DOMAIN tables' \cup PageFrames'}
                    \cup {[frame |-> directoryFrame', size |-> 3]}
      BY <1>1, <1>8, <2>3
  <2> QED
      BY <1>1, <1>2, <1>6, <1>7, <2>1, <2>2, <2>4 DEF Paging
<1>13. Reusable'
  <2>1. \A i \in Indices : directory'[i].present \/ directory'[i].frame = 0
      BY <1>5
  <2>2. \A page \in Pages : ~directory'[page[1]].present
      BY <1>5, PageIndices
  <2> QED
      BY <2>1, <2>2 DEF Reusable, HasTable
<1> QED
    BY <1>10, <1>11, <1>12, <1>13 DEF VIInv


-----------------------------------------------------------------------------
(* The operations.                                                         *)

\* One entry of one table changes, and nothing else: the directory has no table twice.
LEMMA EntrySet ==
    ASSUME PagingTypes, Paging, step = "ready", step' = step, directory' = directory,
           NEW page \in Pages, HasTable(page), NEW e \in Entry, SetEntry(page, e)
    PROVE  /\ DOMAIN tables' = DOMAIN tables /\ tables' \in [DOMAIN tables' -> Tables]
           /\ \A other \in Pages : HasTable(other)' = HasTable(other)
           /\ EntryOf(page)' = e
           /\ \A other \in Pages \ {page} : HasTable(other) => EntryOf(other)' = EntryOf(other)
           /\ TableFrames' = TableFrames
           /\ tables'[directory[0].frame] = LinearTable(0)
           /\ tables'[directory[KernelEntry].frame] = LinearTable(KernelFrame)
<1> DEFINE d == TableOf(page)
<1>1. /\ directory \in Tables /\ tables \in [DOMAIN tables -> Tables]
      /\ DOMAIN tables = TableFrames
    BY DEF PagingTypes, Paging
<1>2. DOMAIN directory = Indices
    BY <1>1 DEF Tables
<1>3. \A i \in Indices : directory[i].present => directory[i].frame \in DOMAIN tables
    BY <1>1, <1>2 DEF TableFrames
<1>4. \A i, j \in Indices : i # j /\ directory[i].present /\ directory[j].present
                          => directory[i].frame # directory[j].frame
    BY DEF Paging
<1>5. page[1] \in Indices /\ page[2] \in Indices /\ page[1] # 0 /\ page[1] # KernelEntry
    BY PageIndices
<1>6. d \in DOMAIN tables
    BY <1>3, <1>5 DEF HasTable, TableOf
<1>7. tables' = [tables EXCEPT ![d] = [tables[d] EXCEPT ![page[2]] = e]]
    BY DEF SetEntry
<1>8. /\ [tables[d] EXCEPT ![page[2]] = e] \in Tables
      /\ [tables[d] EXCEPT ![page[2]] = e][page[2]] = e
      /\ \A i \in Indices : i # page[2] => [tables[d] EXCEPT ![page[2]] = e][i] = tables[d][i]
  <2> HIDE DEF d, Entry
  <2>1. tables[d] \in Tables
      BY <1>1, <1>6
  <2> QED
      BY <2>1, <1>5 DEF Tables
<1> DEFINE changed == [tables[d] EXCEPT ![page[2]] = e]
<1>9. /\ DOMAIN tables' = DOMAIN tables /\ tables' \in [DOMAIN tables' -> Tables]
      /\ tables'[d] = changed
      /\ \A f \in DOMAIN tables : f # d => tables'[f] = tables[f]
  <2> HIDE DEF d, changed, Tables
  <2>1. tables' = [tables EXCEPT ![d] = changed] /\ changed \in Tables
      BY <1>7, <1>8 DEF changed
  <2> QED
      BY <2>1, <1>1, <1>6
<1>10. \A other \in Pages : HasTable(other)' = HasTable(other)
    BY DEF HasTable
<1>11. EntryOf(page)' = e
    BY <1>8, <1>9 DEF EntryOf, TableOf
<1>12. ASSUME NEW other \in Pages \ {page}, HasTable(other)
       PROVE  EntryOf(other)' = EntryOf(other)
  <2>1. other[1] \in Indices /\ other[2] \in Indices
      BY PageIndices
  <2>2. TableOf(other) \in DOMAIN tables
      BY <1>3, <1>12, <2>1 DEF HasTable, TableOf
  <2>3. CASE other[1] # page[1]
    <3>1. TableOf(other) # d
        BY <1>4, <1>5, <1>12, <2>1, <2>3 DEF HasTable, TableOf
    <3>2. tables'[TableOf(other)] = tables[TableOf(other)]
        BY <1>9, <2>2, <3>1
    <3> QED
        BY <3>2 DEF EntryOf, TableOf
  <2>4. CASE other[1] = page[1]
    <3>1. other[2] # page[2]
        BY <2>4, PageIndices
    <3>2. TableOf(other) = d
        BY <2>4 DEF TableOf
    <3>3. tables'[TableOf(other)][other[2]] = tables[TableOf(other)][other[2]]
      <4>1. changed[other[2]] = tables[d][other[2]]
          BY <1>8, <2>1, <3>1
      <4>2. tables'[TableOf(other)] = changed
          BY <1>9, <3>2
      <4> HIDE DEF d, changed
      <4> QED
          BY <3>2, <4>1, <4>2
    <3> QED
        BY <3>3 DEF EntryOf, TableOf
  <2> QED
      BY <2>3, <2>4
<1>13. \A i \in Indices : i # page[1] /\ directory[i].present
                      => tables'[directory[i].frame] = tables[directory[i].frame]
  <2> SUFFICES ASSUME NEW i \in Indices, i # page[1], directory[i].present
               PROVE  tables'[directory[i].frame] = tables[directory[i].frame]
      OBVIOUS
  <2>1. directory[i].frame # d
      BY <1>4, <1>5 DEF HasTable, TableOf
  <2>2. directory[i].frame \in DOMAIN tables
      BY <1>3
  <2> QED
      BY <1>9, <2>1, <2>2
<1>14. /\ tables'[directory[0].frame] = LinearTable(0)
       /\ tables'[directory[KernelEntry].frame] = LinearTable(KernelFrame)
    BY <1>5, <1>13, Numbers DEF Paging
<1>15. TableFrames' = TableFrames
    BY DEF TableFrames
<1> HIDE DEF d, changed
<1> QED
    BY <1>9, <1>10, <1>11, <1>12, <1>14, <1>15

\* What is left of the invariant then: that the memory of the page, if it has any now,
\* is marked and its own, and that the blocks held are those that are left.
LEMMA EntryKept ==
    ASSUME VIInv, step = "ready", step' = step, directory' = directory,
           directoryFrame' = directoryFrame, mapBits' = mapBits,
           NEW page \in Pages, HasTable(page), NEW e \in Entry, SetEntry(page, e),
           e.frame < MaskedFrames \/ (e.present /\ e.frame \in DeviceFrames),
           NEW others, others = {EntryOf(other).frame : other \in AllocatedPages \ {page}},
           NEW own, own = IF e.present /\ e.frame \notin DeviceFrames THEN {e.frame} ELSE {},
           UnavailableBlocks \cup DOMAIN tables \cup Run(directoryFrame, 3)
               \cup others \cup own \subseteq memoryMap',
           own \cap (UnavailableBlocks \cup DOMAIN tables \cup Run(directoryFrame, 3)
                         \cup others) = {},
           held' = {Single(f) : f \in DOMAIN tables \cup others \cup own}
                       \cup {[frame |-> directoryFrame, size |-> 3]}
    PROVE  VIInv'
<1>1. PagingTypes /\ Paging
    BY DEF VIInv
<1>2. /\ DOMAIN tables' = DOMAIN tables /\ tables' \in [DOMAIN tables' -> Tables]
      /\ \A other \in Pages : HasTable(other)' = HasTable(other)
      /\ EntryOf(page)' = e
      /\ \A other \in Pages \ {page} : HasTable(other) => EntryOf(other)' = EntryOf(other)
      /\ TableFrames' = TableFrames
      /\ tables'[directory[0].frame] = LinearTable(0)
      /\ tables'[directory[KernelEntry].frame] = LinearTable(KernelFrame)
    BY <1>1, EntrySet
<1>3. UnavailableBlocks' = UnavailableBlocks
    BY UnavailableFixed
<1>4. \A other \in Pages \ {page} : other \in AllocatedPages' <=> other \in AllocatedPages
    BY <1>2 DEF AllocatedPages
<1>5. \A other \in AllocatedPages' \ {page} :
          /\ other \in AllocatedPages \ {page}
          /\ EntryOf(other)' = EntryOf(other) /\ EntryOf(other)'.frame \in others
    BY <1>2, <1>4 DEF AllocatedPages
<1>6. page \in AllocatedPages' <=> e.present /\ e.frame \notin DeviceFrames
    BY <1>2 DEF AllocatedPages
<1>7. page \in AllocatedPages' => EntryOf(page)'.frame \in own /\ own = {EntryOf(page)'.frame}
    BY <1>2, <1>6
<1>8. PageFrames' = others \cup own
  <2>1. PageFrames' = {EntryOf(other)'.frame : other \in AllocatedPages'}
      BY DEF PageFrames
  <2>2. \A f \in PageFrames' : f \in others \cup own
      BY <1>5, <1>7, <2>1
  <2>3. \A f \in others : f \in PageFrames'
    <3>1. \A other \in AllocatedPages \ {page} :
              other \in AllocatedPages' /\ EntryOf(other)' = EntryOf(other)
        BY <1>2, <1>4 DEF AllocatedPages
    <3> QED
        BY <2>1, <3>1
  <2>4. \A f \in own : f \in PageFrames'
      BY <1>2, <1>6, <2>1
  <2> QED
      BY <2>2, <2>3, <2>4
<1>9. PagingTypes'
    BY <1>1, <1>2 DEF PagingTypes
<1>10. Starting'
    BY <1>2, <1>3 DEF Starting
<1>11. ASSUME NEW one \in AllocatedPages'
       PROVE  /\ EntryOf(one)'.frame \in memoryMap'
              /\ EntryOf(one)'.frame \notin DOMAIN tables' \cup Run(directoryFrame, 3)'
                                                   \cup UnavailableBlocks'
              /\ \A other \in AllocatedPages' \ {one} : EntryOf(other)'.frame # EntryOf(one)'.frame
  <2>1. Run(directoryFrame, 3)' = Run(directoryFrame, 3)
      BY DEF Run
  <2>2. CASE one = page
      BY <1>2, <1>3, <1>5, <1>7, <2>1, <2>2
  <2>3. CASE one # page
    <3>1. one \in AllocatedPages \ {page} /\ EntryOf(one)' = EntryOf(one) /\ EntryOf(one).frame \in others
        BY <1>5, <2>3
    <3>2. /\ EntryOf(one).frame \notin DOMAIN tables \cup Run(directoryFrame, 3)
                                                 \cup UnavailableBlocks
          /\ \A other \in AllocatedPages \ {one} : EntryOf(other).frame # EntryOf(one).frame
        BY <1>1, <3>1 DEF Paging
    <3>3. \A other \in AllocatedPages' \ {one} : EntryOf(other)'.frame # EntryOf(one)'.frame
      <4> SUFFICES ASSUME NEW other \in AllocatedPages' \ {one}
                   PROVE  EntryOf(other)'.frame # EntryOf(one)'.frame
          OBVIOUS
      <4>1. CASE other = page
          BY <1>7, <3>1, <4>1
      <4>2. CASE other # page
          BY <1>5, <3>1, <3>2, <4>2
      <4> QED
          BY <4>1, <4>2
    <3> QED
        BY <1>2, <1>3, <2>1, <3>1, <3>2, <3>3
  <2> QED
      BY <2>2, <2>3
<1>12. Run(directoryFrame, 3)' \subseteq memoryMap'
    BY DEF Run
<1>13. held' = {Single(f) : f \in DOMAIN tables' \cup PageFrames'}
                   \cup {[frame |-> directoryFrame', size |-> 3]}
    BY <1>2, <1>8
<1>14. Paging'
    BY <1>1, <1>2, <1>11, <1>12, <1>13 DEF Paging
<1>15. Reusable'
  <2>1. Reusable
      BY DEF VIInv
  <2>2. \A i \in Indices : directory'[i].present \/ directory'[i].frame = 0
      BY <2>1 DEF Reusable
  <2>3. ASSUME NEW other \in Pages, HasTable(other)'
        PROVE  \/ EntryOf(other)'.frame < MaskedFrames
               \/ EntryOf(other)'.present /\ EntryOf(other)'.frame \in DeviceFrames
      BY <1>2, <2>1, <2>3 DEF Reusable
  <2> QED
      BY <2>2, <2>3 DEF Reusable
<1> QED
    BY <1>9, <1>10, <1>14, <1>15 DEF VIInv

\* The types of the entries of pages that have a table.
LEMMA EntryTypes ==
    ASSUME PagingTypes, Paging, step = "ready", NEW page \in Pages, HasTable(page)
    PROVE  EntryOf(page) \in Entry
<1>1. page[1] \in DOMAIN directory /\ page[2] \in Indices
    BY PageIndices DEF PagingTypes, Tables
<1>2. TableOf(page) \in DOMAIN tables
    BY <1>1 DEF Paging, TableFrames, TableOf, HasTable
<1> QED
    BY <1>1, <1>2 DEF PagingTypes, Tables, EntryOf

\* Where nothing is mapped a frame can be set, and the frame of a page's memory is read back.
LEMMA FramesRead ==
    ASSUME VIInv, step = "ready", NEW page \in Pages, HasTable(page)
    PROVE  /\ EntryOf(page) \in Entry
           /\ ~EntryOf(page).present => EntryOf(page).frame < MaskedFrames
           /\ EntryOf(page).present /\ EntryOf(page).frame \notin DeviceFrames =>
                  /\ PhysicalAddress(EntryOf(page)) = EntryOf(page).frame
                  /\ EntryOf(page).frame # 0 /\ EntryOf(page).frame < MaskedFrames
<1>1. EntryOf(page) \in Entry
    BY EntryTypes DEF VIInv
<1>2. EntryOf(page).frame \in Nat
    BY <1>1 DEF Entry
<1>3. ~EntryOf(page).present => EntryOf(page).frame < MaskedFrames
    BY DEF VIInv, Reusable
<1>4. ASSUME EntryOf(page).present, EntryOf(page).frame \notin DeviceFrames
      PROVE  /\ PhysicalAddress(EntryOf(page)) = EntryOf(page).frame
             /\ EntryOf(page).frame # 0 /\ EntryOf(page).frame < MaskedFrames
  <2>1. EntryOf(page).frame < MaskedFrames
      BY <1>4 DEF VIInv, Reusable
  <2>2. PhysicalAddress(EntryOf(page)) = EntryOf(page).frame
      BY <1>2, <2>1, Numbers DEF PhysicalAddress
  <2>3. page \in AllocatedPages
      BY <1>4 DEF AllocatedPages
  <2>4. EntryOf(page).frame \notin UnavailableBlocks
      BY <2>3 DEF VIInv, Paging
  <2> QED
      BY <2>1, <2>2, <2>4, NullReserved
<1> QED
    BY <1>1, <1>3, <1>4

LEMMA AllocatePageKept ==
    ASSUME MemoryIsMasked, VIInv, NEW page \in Pages, VMM_AllocatePage(page)
    PROVE  VIInv'
<1> DEFINE b == BlockFound
           e == AddPresent(SetFrame(EntryOf(page), b))
           others == {EntryOf(other).frame : other \in AllocatedPages \ {page}}
<1>1. /\ step = "ready" /\ step' = step /\ directory' = directory
      /\ directoryFrame' = directoryFrame /\ PMM_AllocateBlock /\ PagingTypes /\ Paging
      /\ Starting /\ HasTable(page) /\ ~EntryOf(page).present /\ SetEntry(page, e)
    BY DEF VMM_AllocatePage, VIInv
<1>2. /\ b \in Nat /\ b \notin memoryMap /\ b \notin DeviceFrames
      /\ memoryMap' = memoryMap \cup {b} /\ held' = held \cup {Single(b)} /\ mapBits' = mapBits
      /\ b < MaskedFrames
    BY <1>1, FoundIsFree, Numbers DEF MemoryIsMasked
<1> HIDE DEF b
<1>3. e = [present |-> TRUE, frame |-> b] /\ e \in Entry
    BY <1>1, <1>2, FramesRead, Mapped
<1>4. page \notin AllocatedPages
    BY <1>1 DEF AllocatedPages
<1>5. others = PageFrames
    BY <1>4 DEF PageFrames
<1>6. UnavailableBlocks \cup DOMAIN tables \cup Run(directoryFrame, 3) \cup others \subseteq memoryMap
    BY <1>1 DEF Starting, Paging
<1>7. held' = {Single(f) : f \in DOMAIN tables \cup others \cup {b}}
                  \cup {[frame |-> directoryFrame, size |-> 3]}
  <2>1. held = {Single(f) : f \in DOMAIN tables \cup others}
                   \cup {[frame |-> directoryFrame, size |-> 3]}
      BY <1>1, <1>5 DEF Paging
  <2> HIDE DEF others
  <2> QED
      BY <1>2, <2>1
<1>8. {b} = IF e.present /\ e.frame \notin DeviceFrames THEN {e.frame} ELSE {}
    BY <1>2, <1>3
<1>9. others = {EntryOf(other).frame : other \in AllocatedPages \ {page}}
    OBVIOUS
<1> HIDE DEF e, others
<1>10. UnavailableBlocks \cup DOMAIN tables \cup Run(directoryFrame, 3) \cup others \cup {b}
           \subseteq memoryMap'
    BY <1>2, <1>6
<1>11. {b} \cap (UnavailableBlocks \cup DOMAIN tables \cup Run(directoryFrame, 3)
                     \cup others) = {}
    BY <1>2, <1>6
<1> QED
    BY <1>1, <1>2, <1>3, <1>7, <1>8, <1>9, <1>10, <1>11, EntryKept

\* The frame of a page that is given back is its own: freeing it takes nothing from
\* another.
LEMMA FreePageKept ==
    ASSUME VIInv, NEW page \in Pages, VMM_FreePage(page)
    PROVE  VIInv'
<1> DEFINE f == EntryOf(page).frame
           e == RemovePresent(EntryOf(page))
           others == {EntryOf(other).frame : other \in AllocatedPages \ {page}}
<1>1. /\ step = "ready" /\ step' = step /\ directory' = directory
      /\ directoryFrame' = directoryFrame /\ PagingTypes /\ Paging /\ Starting
      /\ HasTable(page) /\ EntryOf(page).present /\ f \notin DeviceFrames /\ SetEntry(page, e)
      /\ memoryMap' = memoryMap \ {f} /\ held' = held \ {Single(f)} /\ mapBits' = mapBits
  <2>1. /\ step = "ready" /\ step' = step /\ directory' = directory
        /\ directoryFrame' = directoryFrame /\ PagingTypes /\ Paging /\ Starting
        /\ HasTable(page) /\ EntryOf(page).present /\ f \notin DeviceFrames /\ SetEntry(page, e)
        /\ FreeFrame(PhysicalAddress(EntryOf(page)))
      BY DEF VMM_FreePage, VIInv
  <2>2. PhysicalAddress(EntryOf(page)) = f /\ f # 0
      BY <2>1, FramesRead
  <2>3. PMM_FreeBlock(Single(f))
      BY <2>1, <2>2 DEF FreeFrame, Single
  <2> QED
      BY <2>1, <2>3 DEF PMM_FreeBlock, Single
<1>2. page \in AllocatedPages
    BY <1>1 DEF AllocatedPages
<1>3. /\ f \notin DOMAIN tables \cup Run(directoryFrame, 3) \cup UnavailableBlocks
      /\ f \notin others
    BY <1>1, <1>2 DEF Paging
<1>4. PageFrames = others \cup {f}
    BY <1>2 DEF PageFrames
<1>5. UnavailableBlocks \cup DOMAIN tables \cup Run(directoryFrame, 3) \cup others \subseteq memoryMap
    BY <1>1, <1>4 DEF Starting, Paging
<1>6. e \in Entry /\ ~e.present /\ e.frame < MaskedFrames
    BY <1>1, FramesRead, EntryChanges
<1>7. held' = {Single(g) : g \in DOMAIN tables \cup others \cup {}}
                  \cup {[frame |-> directoryFrame, size |-> 3]}
  <2>1. held = {Single(g) : g \in DOMAIN tables \cup others \cup {f}}
                   \cup {[frame |-> directoryFrame, size |-> 3]}
      BY <1>1, <1>4 DEF Paging
  <2>2. [frame |-> directoryFrame, size |-> 3] # Single(f)
      BY DEF Single
  <2>3. \A g : Single(g) = Single(f) => g = f
      BY DEF Single
  <2> HIDE DEF others, f
  <2> QED
      BY <1>1, <1>3, <2>1, <2>2, <2>3
<1>8. {} = IF e.present /\ e.frame \notin DeviceFrames THEN {e.frame} ELSE {}
    BY <1>6
<1>9. others = {EntryOf(other).frame : other \in AllocatedPages \ {page}}
    OBVIOUS
<1> HIDE DEF e, f, others
<1>10. UnavailableBlocks \cup DOMAIN tables \cup Run(directoryFrame, 3) \cup others \cup {}
           \subseteq memoryMap'
    BY <1>1, <1>3, <1>5
<1>11. {} \cap (UnavailableBlocks \cup DOMAIN tables \cup Run(directoryFrame, 3)
                    \cup others) = {}
    OBVIOUS
<1>12. e.frame < MaskedFrames \/ (e.present /\ e.frame \in DeviceFrames)
    BY <1>6
<1> QED
    BY <1>1, <1>6, <1>12, <1>7, <1>8, <1>9, <1>10, <1>11, EntryKept

\* A device at a page that has a table: no memory is taken.
LEMMA DeviceKept ==
    ASSUME VIInv, NEW page \in Pages, NEW phys \in DeviceFrames, VMM_MapPage(phys, page),
           HasTable(page)
    PROVE  VIInv'
<1> DEFINE e == AddPresent(SetFrame(EntryOf(page), phys))
           others == {EntryOf(other).frame : other \in AllocatedPages \ {page}}
<1>1. /\ step = "ready" /\ step' = step /\ directory' = directory
      /\ directoryFrame' = directoryFrame /\ PagingTypes /\ Paging /\ Starting
      /\ ~EntryOf(page).present /\ SetEntry(page, e)
      /\ memoryMap' = memoryMap /\ held' = held /\ mapBits' = mapBits
    BY DEF VMM_MapPage, AddTable, VIInv, vars
<1>2. e = [present |-> TRUE, frame |-> phys] /\ e \in Entry
  <2>1. EntryOf(page) \in Entry /\ EntryOf(page).frame < MaskedFrames
      BY <1>1, FramesRead
  <2>2. phys \in Nat
      BY Numbers
  <2>3. e = [present |-> TRUE, frame |-> phys] /\ [present |-> TRUE, frame |-> phys] \in Entry
      BY <2>1, <2>2, Mapped
  <2> QED
      BY <2>3
<1>3. others = PageFrames
    BY <1>1 DEF AllocatedPages, PageFrames
<1>4. others = {EntryOf(other).frame : other \in AllocatedPages \ {page}}
    OBVIOUS
<1> HIDE DEF e, others
<1>5. UnavailableBlocks \cup DOMAIN tables \cup Run(directoryFrame, 3) \cup others \cup {}
          \subseteq memoryMap'
  <2>1. \A f \in PageFrames : f \in memoryMap
      BY <1>1 DEF Paging, PageFrames
  <2> QED
      BY <1>1, <1>3, <2>1 DEF Starting, Paging
<1>6. {} \cap (UnavailableBlocks \cup DOMAIN tables \cup Run(directoryFrame, 3)
                   \cup others) = {}
    OBVIOUS
<1>7. held' = {Single(f) : f \in DOMAIN tables \cup others \cup {}}
                  \cup {[frame |-> directoryFrame, size |-> 3]}
    BY <1>1, <1>3 DEF Paging
<1>8. {} = IF e.present /\ e.frame \notin DeviceFrames THEN {e.frame} ELSE {}
    BY <1>2
<1>9. e.frame < MaskedFrames \/ (e.present /\ e.frame \in DeviceFrames)
    BY <1>2
<1> QED
    BY <1>1, <1>2, <1>9, <1>4, <1>5, <1>6, <1>7, <1>8, EntryKept

\* A device at a page that has no table: the block of the table was nobody's.
LEMMA AddTableKept ==
    ASSUME VIInv, NEW page \in Pages, NEW phys \in DeviceFrames, VMM_MapPage(phys, page),
           ~HasTable(page)
    PROVE  VIInv'
<1> DEFINE b == BlockFound
           fresh == [ClearTable EXCEPT ![page[2]] = AddPresent(SetFrame(@, phys))]
<1>1. /\ step = "ready" /\ step' = step /\ directoryFrame' = directoryFrame
      /\ PagingTypes /\ Paging /\ Starting /\ PMM_AllocateBlock
      /\ directory' = [directory EXCEPT ![page[1]] = SetFrame(AddPresent(@), b)]
      /\ tables' = AddedTable(b, fresh)
    BY DEF VMM_MapPage, AddTable, VIInv
<1>2. /\ b \in Nat /\ b \notin memoryMap
      /\ memoryMap' = memoryMap \cup {b} /\ held' = held \cup {Single(b)} /\ mapBits' = mapBits
    BY <1>1, FoundIsFree
<1> HIDE DEF b
<1>3. /\ page[1] \in Indices /\ page[2] \in Indices /\ page[1] # 0 /\ page[1] # KernelEntry
      /\ 0 \in Indices /\ KernelEntry \in Indices
    BY PageIndices, Numbers
<1>4. directory \in Tables /\ tables \in [DOMAIN tables -> Tables]
    BY <1>1 DEF PagingTypes
<1>5. /\ fresh \in Tables /\ fresh[page[2]] = [present |-> TRUE, frame |-> phys]
      /\ \A i \in Indices : i # page[2] => ~fresh[i].present /\ fresh[i].frame = 0
  <2>1. ClearTable[page[2]] \in Entry /\ ClearTable[page[2]].frame < MaskedFrames
      BY <1>3, ClearTables
  <2>2. AddPresent(SetFrame(ClearTable[page[2]], phys)) = [present |-> TRUE, frame |-> phys]
      BY <2>1, Mapped, Numbers
  <2>3. fresh = [ClearTable EXCEPT ![page[2]] = [present |-> TRUE, frame |-> phys]]
      BY <1>3, <2>2, ClearTables DEF Tables
  <2>4. [present |-> TRUE, frame |-> phys] \in Entry
      BY Numbers DEF Entry
  <2> DEFINE mapped == [present |-> TRUE, frame |-> phys]
  <2> HIDE DEF mapped, fresh
  <2>5. fresh = [ClearTable EXCEPT ![page[2]] = mapped] /\ mapped \in Entry
      BY <2>3, <2>4 DEF mapped
  <2>6. fresh \in Tables /\ fresh[page[2]] = mapped
      BY <1>3, <2>5, ClearTables DEF Tables
  <2>7. ASSUME NEW i \in Indices, i # page[2] PROVE ~fresh[i].present /\ fresh[i].frame = 0
    <3>1. fresh[i] = ClearTable[i]
        BY <1>3, <2>5, <2>7, ClearTables DEF Tables
    <3> QED
        BY <3>1, ClearTables
  <2> QED
      BY <2>6, <2>7 DEF mapped
<1> HIDE DEF fresh
<1>6. /\ directory' \in Tables /\ directory'[page[1]] = [present |-> TRUE, frame |-> b]
      /\ \A i \in Indices : i # page[1] => directory'[i] = directory[i]
  <2>1. directory[page[1]] \in Entry /\ directory[page[1]].frame < MaskedFrames
      BY <1>3, <1>4, Numbers DEF Tables, VIInv, Reusable, HasTable
  <2>2. SetFrame(AddPresent(directory[page[1]]), b) = [present |-> TRUE, frame |-> b]
      BY <1>2, <2>1, Mapped
  <2>3. [present |-> TRUE, frame |-> b] \in Entry
      BY <1>2 DEF Entry
  <2> DEFINE mapped == [present |-> TRUE, frame |-> b]
  <2>4. directory' = [directory EXCEPT ![page[1]] = mapped]
      BY <1>1, <1>3, <1>4, <2>2 DEF Tables
  <2> HIDE DEF mapped
  <2>5. mapped \in Entry
      BY <2>3 DEF mapped
  <2>6. /\ directory' \in Tables /\ directory'[page[1]] = mapped
        /\ \A i \in Indices : i # page[1] => directory'[i] = directory[i]
      BY <1>3, <1>4, <2>4, <2>5 DEF Tables
  <2> QED
      BY <2>6 DEF mapped
<1>7. /\ DOMAIN tables' = DOMAIN tables \cup {b} /\ tables'[b] = fresh
      /\ \A f \in DOMAIN tables : f # b => tables'[f] = tables[f]
      /\ DOMAIN tables' \subseteq Nat /\ tables' \in [DOMAIN tables' -> Tables]
  <2>1. fresh \in Tables /\ b \in Nat /\ PagingTypes
      BY <1>1, <1>2, <1>5
  <2>2. tables' = AddedTable(b, fresh)
      BY <1>1
  <2> QED
      BY <2>1, <2>2, OneMoreTable
<1>8. /\ UnavailableBlocks \cup DOMAIN tables \cup Run(directoryFrame, 3) \subseteq memoryMap
      /\ \A other \in AllocatedPages : EntryOf(other).frame \in memoryMap
      /\ DOMAIN tables = TableFrames
    BY <1>1 DEF Starting, Paging
<1>9. DOMAIN directory = Indices /\ DOMAIN directory' = Indices
    BY <1>4, <1>6 DEF Tables
<1>10. \A i \in Indices : directory[i].present => directory[i].frame \in DOMAIN tables
    BY <1>8, <1>9 DEF TableFrames
<1>11. b \notin DOMAIN tables
    BY <1>2, <1>8
<1>12. ~directory[page[1]].present
    BY DEF HasTable
<1>13. \A other \in Pages : other[1] # page[1] /\ HasTable(other)
           => /\ HasTable(other)' /\ EntryOf(other)' = EntryOf(other)
  <2> SUFFICES ASSUME NEW other \in Pages, other[1] # page[1], HasTable(other)
               PROVE  HasTable(other)' /\ EntryOf(other)' = EntryOf(other)
      OBVIOUS
  <2>1. directory'[other[1]] = directory[other[1]] /\ directory[other[1]].frame \in DOMAIN tables
      BY <1>6, <1>10, PageIndices DEF HasTable
  <2>2. tables'[directory[other[1]].frame] = tables[directory[other[1]].frame]
      BY <1>7, <1>11, <2>1
  <2> QED
      BY <2>1, <2>2 DEF HasTable, EntryOf, TableOf
<1>14. \A other \in Pages : other \in AllocatedPages =>
           other \in AllocatedPages' /\ EntryOf(other)' = EntryOf(other)
  <2>1. \A other \in AllocatedPages : other[1] # page[1] /\ HasTable(other)
      BY <1>12 DEF AllocatedPages, HasTable
  <2> QED
      BY <1>1, <1>13, <2>1 DEF AllocatedPages
<1>15. ASSUME NEW other \in Pages, other \in AllocatedPages'
       PROVE  other \in AllocatedPages
  <2>1. CASE other[1] = page[1]
    <3>1. EntryOf(other)' = fresh[other[2]]
        BY <1>6, <1>7, <2>1 DEF EntryOf, TableOf
    <3>2. fresh[other[2]].present => fresh[other[2]].frame \in DeviceFrames
        BY <1>5, PageIndices
    <3> QED
        BY <1>15, <3>1, <3>2 DEF AllocatedPages
  <2>2. CASE other[1] # page[1]
    <3>1. HasTable(other)
        BY <1>6, <1>15, <2>2, PageIndices DEF AllocatedPages, HasTable
    <3>2. EntryOf(other)' = EntryOf(other)
        BY <1>13, <2>2, <3>1
    <3> QED
        BY <1>1, <1>15, <3>1, <3>2 DEF AllocatedPages
  <2> QED
      BY <2>1, <2>2
<1>16. AllocatedPages' = AllocatedPages /\ PageFrames' = PageFrames
  <2>1. AllocatedPages' = AllocatedPages
      BY <1>14, <1>15 DEF AllocatedPages
  <2>2. PageFrames' = {EntryOf(other)'.frame : other \in AllocatedPages'}
      BY DEF PageFrames
  <2>3. \A other \in AllocatedPages : EntryOf(other)' = EntryOf(other)
      BY <1>14 DEF AllocatedPages
  <2>4. PageFrames' = {EntryOf(other).frame : other \in AllocatedPages}
      BY <2>1, <2>2, <2>3
  <2> QED
      BY <2>1, <2>4 DEF PageFrames
<1>17. TableFrames' = TableFrames \cup {b}
  <2>1. TableFrames = {directory[i].frame : i \in {j \in Indices : directory[j].present}}
      BY <1>9 DEF TableFrames
  <2>2. TableFrames' = {directory'[i].frame : i \in {j \in Indices : directory'[j].present}}
      BY <1>9 DEF TableFrames
  <2>3. {j \in Indices : directory'[j].present} = {j \in Indices : directory[j].present} \cup {page[1]}
      BY <1>3, <1>6
  <2>4. \A i \in {j \in Indices : directory[j].present} : directory'[i].frame = directory[i].frame
      BY <1>6, <1>12
  <2>5. directory'[page[1]].frame = b
      BY <1>6
  <2> QED
      BY <2>1, <2>2, <2>3, <2>4, <2>5
<1>18. UnavailableBlocks' = UnavailableBlocks /\ Run(directoryFrame, 3)' = Run(directoryFrame, 3)
    BY <1>1, <1>2, UnavailableFixed DEF Run
<1>19. PagingTypes'
    BY <1>1, <1>2, <1>6, <1>7 DEF PagingTypes
<1>20. Starting'
    BY <1>1, <1>2, <1>7, <1>8, <1>18 DEF Starting
<1>21. /\ directory'[0].present /\ tables'[directory'[0].frame] = LinearTable(0)
       /\ directory'[KernelEntry].present
       /\ tables'[directory'[KernelEntry].frame] = LinearTable(KernelFrame)
  <2>1. /\ directory[0].present /\ tables[directory[0].frame] = LinearTable(0)
        /\ directory[KernelEntry].present
        /\ tables[directory[KernelEntry].frame] = LinearTable(KernelFrame)
      BY <1>1 DEF Paging
  <2>2. directory'[0] = directory[0] /\ directory'[KernelEntry] = directory[KernelEntry]
      BY <1>3, <1>6
  <2> QED
      BY <1>3, <1>7, <1>10, <1>11, <2>1, <2>2
<1>22. \A i, j \in Indices : i # j /\ directory'[i].present /\ directory'[j].present
                          => directory'[i].frame # directory'[j].frame
  <2> SUFFICES ASSUME NEW i \in Indices, NEW j \in Indices,
                      i # j, directory'[i].present, directory'[j].present
               PROVE  directory'[i].frame # directory'[j].frame
      OBVIOUS
  <2>1. CASE i = page[1]
    <3>1. directory'[i].frame = b
        BY <1>6, <2>1
    <3>2. directory'[j] = directory[j]
        BY <1>6, <2>1
    <3>3. directory'[j].frame \in DOMAIN tables
        BY <1>10, <3>2
    <3> QED
        BY <1>11, <3>1, <3>3
  <2>2. CASE j = page[1]
    <3>1. directory'[j].frame = b
        BY <1>6, <2>2
    <3>2. directory'[i] = directory[i]
        BY <1>6, <2>2
    <3>3. directory'[i].frame \in DOMAIN tables
        BY <1>10, <3>2
    <3> QED
        BY <1>11, <3>1, <3>3
  <2>3. CASE i # page[1] /\ j # page[1]
    <3>1. directory'[i] = directory[i] /\ directory'[j] = directory[j]
        BY <1>6, <2>3
    <3> QED
        BY <1>1, <3>1 DEF Paging
  <2> QED
      BY <2>1, <2>2, <2>3
<1>23. ASSUME NEW one \in AllocatedPages'
       PROVE  /\ EntryOf(one)'.frame \in memoryMap'
              /\ EntryOf(one)'.frame \notin DOMAIN tables' \cup Run(directoryFrame, 3)'
                                                   \cup UnavailableBlocks'
              /\ \A other \in AllocatedPages' \ {one} : EntryOf(other)'.frame # EntryOf(one)'.frame
  <2>1. \A other \in AllocatedPages' : other \in AllocatedPages /\ EntryOf(other)' = EntryOf(other)
      BY <1>14, <1>16 DEF AllocatedPages
  <2>2. /\ EntryOf(one).frame \in memoryMap
        /\ EntryOf(one).frame \notin DOMAIN tables \cup Run(directoryFrame, 3)
                                             \cup UnavailableBlocks
        /\ \A other \in AllocatedPages \ {one} : EntryOf(other).frame # EntryOf(one).frame
      BY <1>1, <2>1 DEF Paging
  <2>3. EntryOf(one).frame # b
      BY <1>2, <2>2
  <2> QED
      BY <1>2, <1>7, <1>18, <2>1, <2>2, <2>3
<1>24. held' = {Single(f) : f \in DOMAIN tables' \cup PageFrames'}
                   \cup {[frame |-> directoryFrame', size |-> 3]}
  <2>1. held = {Single(f) : f \in DOMAIN tables \cup PageFrames}
                   \cup {[frame |-> directoryFrame, size |-> 3]}
      BY <1>1 DEF Paging
  <2> QED
      BY <1>1, <1>2, <1>7, <1>16, <2>1
<1>25. Paging'
  <2>1. DOMAIN tables' = TableFrames'
      BY <1>7, <1>8, <1>17
  <2>2. Run(directoryFrame, 3)' \subseteq memoryMap'
      BY <1>2, <1>8, <1>18
  <2> QED
      BY <1>21, <1>22, <1>23, <1>24, <2>1, <2>2 DEF Paging
<1>26. Reusable'
  <2>1. Reusable
      BY DEF VIInv
  <2>2. \A i \in Indices : directory'[i].present \/ directory'[i].frame = 0
      BY <1>6, <2>1 DEF Reusable
  <2>3. ASSUME NEW other \in Pages, HasTable(other)'
        PROVE  \/ EntryOf(other)'.frame < MaskedFrames
               \/ EntryOf(other)'.present /\ EntryOf(other)'.frame \in DeviceFrames
    <3>1. CASE other[1] = page[1]
      <4>1. EntryOf(other)' = fresh[other[2]] /\ other[2] \in Indices
          BY <1>6, <1>7, <3>1, PageIndices DEF EntryOf, TableOf
      <4> QED
          BY <1>5, <4>1, Numbers
    <3>2. CASE other[1] # page[1]
      <4>1. HasTable(other)
          BY <1>6, <2>3, <3>2, PageIndices DEF HasTable
      <4>2. EntryOf(other)' = EntryOf(other)
          BY <1>13, <3>2, <4>1
      <4> QED
          BY <1>1, <2>1, <4>1, <4>2 DEF Reusable
    <3> QED
        BY <3>1, <3>2
  <2> QED
      BY <2>2, <2>3 DEF Reusable
<1> QED
    BY <1>19, <1>20, <1>25, <1>26 DEF VIInv

LEMMA NextKept == MemoryIsMasked /\ VIInv /\ [VNext]_vmVars => VIInv'
<1> SUFFICES ASSUME MemoryIsMasked, VIInv, [VNext]_vmVars PROVE VIInv'
    OBVIOUS
<1>1. CASE Start
    BY <1>1, StartKept
<1>2. CASE VMM_Initialise
    BY <1>2, TableKept, DirectoryKept DEF VMM_Initialise
<1>3. ASSUME NEW page \in Pages, VMM_AllocatePage(page) \/ VMM_FreePage(page) PROVE VIInv'
    BY <1>3, AllocatePageKept, FreePageKept
<1>4. ASSUME NEW page \in Pages, NEW phys \in DeviceFrames, VMM_MapPage(phys, page) PROVE VIInv'
    BY <1>4, DeviceKept, AddTableKept
<1>5. CASE UNCHANGED vmVars
  <2> USE <1>5 DEF vmVars, vars, pagingVars
  <2>1. PagingTypes'
      BY DEF VIInv, PagingTypes
  <2>2. UnavailableBlocks' = UnavailableBlocks
      BY UnavailableFixed
  <2>3. Starting'
      BY <2>2 DEF VIInv, Starting
  <2>4. AllocatedPages' = AllocatedPages /\ TableFrames' = TableFrames /\ PageFrames' = PageFrames
      BY DEF AllocatedPages, TableFrames, PageFrames, HasTable, EntryOf, TableOf
  <2>5. Paging'
      BY <2>2, <2>4 DEF VIInv, Paging, EntryOf, TableOf, Run
  <2>6. Reusable'
      BY DEF VIInv, Reusable, HasTable, EntryOf, TableOf
  <2> QED
      BY <2>1, <2>3, <2>5, <2>6 DEF VIInv
<1> QED
    BY <1>1, <1>2, <1>3, <1>4, <1>5 DEF VNext

-----------------------------------------------------------------------------
(* The results.                                                            *)

\* Whatever pages and devices callers map and give back, the invariant holds where memory
\* is below the bit that the masks of VMM_FreePage and VMM_AllocatePage leave out.
THEOREM PagingInvariant == ASSUME MemoryIsMasked PROVE VSpec => []VIInv
<1>1. VInit => VIInv
    BY InitKept
<1>2. VIInv /\ [VNext]_vmVars => VIInv'
    BY NextKept
<1> QED
    BY <1>1, <1>2, PTL DEF VSpec

\* With memory below 2 GB and devices anywhere: no two pages have the same memory, and none
\* has that of a table, of the directory or of what start-up reserved, although released
\* entries keep their frames and no frame is cleared or read whole (VMM_FreePage,
\* VMM_AllocatePage, PTE_SetFrame, PTE_PhysicalAddress).
THEOREM FramesAreOwn == ASSUME MemoryIsMasked PROVE VSpec => []PagesHaveOwnFrames
<1>1. VIInv => PagesHaveOwnFrames
  <2>1. AllocatedPages # {} => step = "ready"
      BY DEF AllocatedPages
  <2> QED
      BY <2>1 DEF VIInv, Paging, PagesHaveOwnFrames
<1> QED
    BY <1>1, PagingInvariant, PTL

\* With memory below 2 GB: every block VMM_Initialise, VMM_MapPage and VMM_AllocatePage have
\* taken is still the memory of a table, of a page or of the directory.
THEOREM NoBlockLost == ASSUME MemoryIsMasked PROVE VSpec => []NoBlockIsLost
<1>1. VIInv => NoBlockIsLost
  <2> SUFFICES ASSUME VIInv, step = "ready"
               PROVE  HeldBlocks = TableFrames \cup Run(directoryFrame, 3) \cup PageFrames
      BY DEF NoBlockIsLost, PageFrames
  <2>1. /\ DOMAIN tables = TableFrames /\ DOMAIN tables \subseteq Nat
        /\ held = {Single(f) : f \in DOMAIN tables \cup PageFrames}
                      \cup {[frame |-> directoryFrame, size |-> 3]}
        /\ \A page \in AllocatedPages : EntryOf(page) \in Entry
    <3>1. PagingTypes /\ Paging
        BY DEF VIInv
    <3>2. \A page \in AllocatedPages : EntryOf(page) \in Entry
        BY <3>1, EntryTypes DEF AllocatedPages
    <3> QED
        BY <3>1, <3>2 DEF PagingTypes, Paging
  <2>2. PageFrames \subseteq Nat
      BY <2>1 DEF PageFrames, Entry
  <2>3. \A f \in DOMAIN tables \cup PageFrames : Run(Single(f).frame, Single(f).size) = {f}
      BY <2>1, <2>2, SingleRun DEF Single
  <2>4. ASSUME NEW x \in HeldBlocks
        PROVE  x \in DOMAIN tables \cup PageFrames \cup Run(directoryFrame, 3)
    <3>1. PICK r \in held : x \in Run(r.frame, r.size)
        BY DEF HeldBlocks
    <3>2. CASE r = [frame |-> directoryFrame, size |-> 3]
        BY <3>1, <3>2
    <3>3. CASE r \in {Single(f) : f \in DOMAIN tables \cup PageFrames}
        BY <2>3, <3>1, <3>3
    <3> QED
        BY <2>1, <3>2, <3>3
  <2>5. ASSUME NEW x \in DOMAIN tables \cup PageFrames
        PROVE  x \in HeldBlocks
    <3>1. Single(x) \in held /\ x \in Run(Single(x).frame, Single(x).size)
        BY <2>1, <2>3
    <3> QED
        BY <3>1 DEF HeldBlocks
  <2>6. Run(directoryFrame, 3) \subseteq HeldBlocks
    <3> DEFINE whole == [frame |-> directoryFrame, size |-> 3]
    <3>1. whole \in held /\ Run(whole.frame, whole.size) = Run(directoryFrame, 3)
        BY <2>1
    <3> HIDE DEF whole
    <3> QED
        BY <3>1 DEF HeldBlocks
  <2> QED
      BY <2>1, <2>4, <2>5, <2>6
<1> QED
    BY <1>1, PagingInvariant, PTL

\* With memory below 2 GB: the kernel's two tables are where the directory says and map what
\* VMM_Initialise has put there, no later mapping reaches them.
THEOREM KernelMapped == ASSUME MemoryIsMasked PROVE VSpec => []KernelStaysMapped
<1>1. VIInv => KernelStaysMapped
  <2> SUFFICES ASSUME VIInv, step = "ready", NEW i \in Indices
               PROVE  /\ directory[0].present /\ directory[KernelEntry].present
                      /\ tables[directory[0].frame][i] = [present |-> TRUE, frame |-> i]
                      /\ tables[directory[KernelEntry].frame][i] =
                            [present |-> TRUE, frame |-> KernelFrame + i]
      BY DEF KernelStaysMapped, EntryOf, TableOf, Indices, KernelFrame
  <2>1. /\ directory[0].present /\ tables[directory[0].frame] = LinearTable(0)
        /\ directory[KernelEntry].present
        /\ tables[directory[KernelEntry].frame] = LinearTable(KernelFrame)
      BY DEF VIInv, Paging
  <2>2. LinearTable(0)[i] = [present |-> TRUE, frame |-> 0 + i]
      BY LinearTables
  <2>3. LinearTable(KernelFrame)[i] = [present |-> TRUE, frame |-> KernelFrame + i]
      BY LinearTables, Numbers
  <2>4. 0 + i = i
      BY DEF Indices
  <2> QED
      BY <2>1, <2>2, <2>3, <2>4
<1> QED
    BY <1>1, PagingInvariant, PTL

-----------------------------------------------------------------------------
(* The refinement: tables as a map from pages to frames.                    *)

Mapping == [page \in Pages \cup DOMAIN KernelMapping |-> Translation(page)]

FreeMemory == AvailableBlocks \ memoryMap

\* The memory of pages is available memory, so that a page gives back what it has taken.
FramesAvailable ==
    \A page \in Pages : Translation(page) \in AvailableBlocks \cup DeviceFrames \cup {-1}

\* The one page of a call gets a frame, or loses it.
Remapped(page, frame) ==
    \A other \in Pages : Translation(other)' = IF other = page THEN frame ELSE Translation(other)

LEMMA KernelPages ==
    ASSUME NEW page \in DOMAIN KernelMapping
    PROVE  /\ page = <<page[1], page[2]>> /\ page[1] \in {0, KernelEntry} /\ page[2] \in Indices
           /\ page \notin Pages
<1>1. DOMAIN KernelMapping = {0, KernelEntry} \X Indices
  BY DEF KernelMapping, Indices
<1>2. page[1] \in {0, KernelEntry} /\ page[2] \in Indices /\ page = <<page[1], page[2]>>
  BY <1>1
<1> QED
  BY <1>2, PageIndices

\* What the processor finds for the kernel's pages.
KernelIsFound ==
    step = "ready" => \A page \in DOMAIN KernelMapping : Translation(page) = KernelMapping[page]

LEMMA KernelTranslated == KernelStaysMapped => KernelIsFound
<1> SUFFICES ASSUME step = "ready", KernelStaysMapped, NEW page \in DOMAIN KernelMapping
             PROVE  Translation(page) = KernelMapping[page]
  BY DEF KernelIsFound
<1>1. page = <<page[1], page[2]>> /\ page[1] \in {0, KernelEntry} /\ page[2] \in Indices
  BY KernelPages
<1>2. KernelMapping[page] = IF page[1] = 0 THEN page[2] ELSE KernelFrame + page[2]
  BY <1>1 DEF KernelMapping, Indices, KernelFrame
<1>3. HasTable(page) /\ EntryOf(page).present /\ EntryOf(page).frame = KernelMapping[page]
  <2>1. CASE page[1] = 0
    <3>1. /\ directory[0].present
          /\ EntryOf(<<0, page[2]>>) = [present |-> TRUE, frame |-> page[2]]
      BY <1>1 DEF KernelStaysMapped, Indices
    <3>2. page = <<0, page[2]>>
      BY <1>1, <2>1
    <3>3. EntryOf(page) = [present |-> TRUE, frame |-> page[2]]
      BY <3>1, <3>2
    <3> QED
      BY <1>2, <2>1, <3>1, <3>3 DEF HasTable
  <2>2. CASE page[1] = KernelEntry
    <3>1. /\ directory[KernelEntry].present
          /\ EntryOf(<<KernelEntry, page[2]>>) = [present |-> TRUE, frame |-> KernelFrame + page[2]]
      BY <1>1 DEF KernelStaysMapped, Indices, KernelFrame
    <3>2. page = <<KernelEntry, page[2]>>
      BY <1>1, <2>2
    <3>3. EntryOf(page) = [present |-> TRUE, frame |-> KernelFrame + page[2]]
      BY <3>1, <3>2
    <3> QED
      BY <1>2, <2>2, <3>1, <3>3, Numbers DEF HasTable
  <2> QED
    BY <1>1, <2>1, <2>2
<1> QED
  BY <1>3 DEF Translation

\* A call changes the map at its page only.
LEMMA MappingChanged ==
    ASSUME step = "ready", step' = step, KernelIsFound, KernelIsFound',
           NEW page \in Pages, NEW frame, Remapped(page, frame)
    PROVE  Mapping' = [Mapping EXCEPT ![page] = frame]
<1>1. ASSUME NEW other \in DOMAIN KernelMapping PROVE Translation(other)' = Translation(other)
  BY DEF KernelIsFound
<1> QED
  BY <1>1, KernelPages DEF Mapping, Remapped

\* An entry of a table that is there.
LEMMA EntryRemaps ==
    ASSUME VIInv, step = "ready", step' = step, directory' = directory, NEW page \in Pages,
           HasTable(page), NEW e \in Entry, SetEntry(page, e)
    PROVE  Remapped(page, IF e.present THEN e.frame ELSE -1)
<1>1. PagingTypes /\ Paging
  BY DEF VIInv
<1>2. /\ \A other \in Pages : HasTable(other)' = HasTable(other)
      /\ EntryOf(page)' = e
      /\ \A other \in Pages \ {page} : HasTable(other) => EntryOf(other)' = EntryOf(other)
  BY <1>1, EntrySet
<1> SUFFICES ASSUME NEW other \in Pages
             PROVE  Translation(other)' =
                        IF other = page THEN IF e.present THEN e.frame ELSE -1
                        ELSE Translation(other)
  BY DEF Remapped
<1>3. CASE other = page
  BY <1>2, <1>3 DEF Translation
<1>4. CASE other # page
  BY <1>2, <1>4 DEF Translation
<1> QED
  BY <1>3, <1>4

\* A new table has no pages but the one it was made for.
LEMMA TableRemaps ==
    ASSUME VIInv, step = "ready", step' = step, NEW page \in Pages, NEW phys \in DeviceFrames,
           AddTable(page, phys)
    PROVE  Remapped(page, phys)
<1> DEFINE b == BlockFound
           fresh == [ClearTable EXCEPT ![page[2]] = AddPresent(SetFrame(@, phys))]
<1>1. /\ PagingTypes /\ Paging /\ Starting /\ PMM_AllocateBlock /\ ~HasTable(page)
      /\ directory' = [directory EXCEPT ![page[1]] = SetFrame(AddPresent(@), b)]
      /\ tables' = AddedTable(b, fresh)
  BY DEF AddTable, VIInv
<1>2. b \in Nat /\ b \notin DOMAIN tables
  BY <1>1, FoundIsFree
<1> HIDE DEF b
<1>3. page[1] \in Indices /\ page[2] \in Indices
  BY PageIndices
<1>4. \A i \in Indices : fresh[i] = IF i = page[2] THEN [present |-> TRUE, frame |-> phys]
                                   ELSE [present |-> FALSE, frame |-> 0]
  <2>1. AddPresent(SetFrame(ClearTable[page[2]], phys)) = [present |-> TRUE, frame |-> phys]
    BY <1>3, ClearTables, Mapped, Numbers
  <2>2. \A i \in Indices : ClearTable[i] = [present |-> FALSE, frame |-> 0]
    BY ClearTables
  <2>3. DOMAIN ClearTable = Indices
    BY ClearTables DEF Tables
  <2> HIDE DEF ClearTable
  <2> QED
    BY <1>3, <2>1, <2>2, <2>3
<1>5. tables'[b] = fresh /\ \A f \in DOMAIN tables : tables'[f] = tables[f]
  BY <1>1, <1>2 DEF AddedTable
<1> HIDE DEF fresh
<1>6. /\ directory'[page[1]].present /\ directory'[page[1]].frame = b
      /\ \A i \in Indices : i # page[1] => directory'[i] = directory[i]
  <2>1. /\ directory \in Tables /\ directory[page[1]] \in Entry
        /\ directory[page[1]].frame < MaskedFrames
    BY <1>1, <1>3, Numbers DEF PagingTypes, Tables, VIInv, Reusable, HasTable
  <2>2. SetFrame(AddPresent(directory[page[1]]), b) = [present |-> TRUE, frame |-> b]
    BY <1>2, <2>1, Mapped
  <2> QED
    BY <1>1, <1>3, <2>1, <2>2 DEF Tables
<1>7. \A i \in Indices : directory[i].present => directory[i].frame \in DOMAIN tables
  BY <1>1 DEF PagingTypes, Paging, TableFrames, Tables
<1> SUFFICES ASSUME NEW other \in Pages
             PROVE  Translation(other)' = IF other = page THEN phys ELSE Translation(other)
  BY DEF Remapped
<1>8. other[1] \in Indices /\ other[2] \in Indices
  BY PageIndices
<1>9. CASE other[1] = page[1]
  <2>1. HasTable(other)' /\ EntryOf(other)' = fresh[other[2]] /\ ~HasTable(other)
    BY <1>1, <1>5, <1>6, <1>9 DEF HasTable, EntryOf, TableOf
  <2>2. other = page <=> other[2] = page[2]
    BY <1>9, PageIndices
  <2> QED
    BY <1>4, <1>8, <2>1, <2>2 DEF Translation
<1>10. CASE other[1] # page[1]
  <2>1. directory'[other[1]] = directory[other[1]]
    BY <1>6, <1>8, <1>10
  <2>2. HasTable(other)' = HasTable(other) /\ (HasTable(other) => EntryOf(other)' = EntryOf(other))
    BY <1>5, <1>7, <1>8, <2>1 DEF HasTable, EntryOf, TableOf
  <2> QED
    BY <1>10, <2>2 DEF Translation
<1> QED
  BY <1>9, <1>10

\* The start-up finds the map empty, and pages have available memory.
Founded ==
    /\ step = "physical" => memoryMap = {}
    /\ FramesAvailable

LEMMA InitIsFounded == VInit => Founded
  BY DEF VInit, Init, Founded, FramesAvailable, Translation

LEMMA InitRefines == VInit => Space!Init
<1> SUFFICES ASSUME VInit PROVE Space!Init
  OBVIOUS
<1>1. step = "physical" /\ memoryMap = {}
  BY DEF VInit, Init
<1>2. \A page : Translation(page) = -1
  BY <1>1 DEF Translation
<1> QED
  BY <1>1, <1>2 DEF Space!Init, Space!Unmapped, Space!KernelPages

\* Until paging is on blocks are taken and no page is mapped.
LEMMA ReserveRefines ==
    ASSUME Founded, step # "ready", step' \notin {"ready", "physical"}, memoryMap \subseteq memoryMap'
    PROVE  Space!Reserve /\ Founded'
<1>1. \A page : Translation(page) = -1 /\ Translation(page)' = -1
  BY DEF Translation
<1> QED
  BY <1>1 DEF Space!Reserve, Founded, FramesAvailable

\* When paging is turned on the directory has the kernel's two tables.
LEMMA EnableRefines ==
    ASSUME KernelIsFound', AllocateDirectory
    PROVE  Space!EnablePaging /\ Founded'
<1>1. /\ step = "directory" /\ step' = "ready" /\ memoryMap \subseteq memoryMap'
  BY DEF AllocateDirectory, PMM_AllocateBlocks
<1>2. \A page \in Pages : ~directory'[page[1]].present
  <2> SUFFICES ASSUME NEW page \in Pages PROVE ~directory'[page[1]].present
    OBVIOUS
  <2>1. PICK table, table2 :
            directory' = [ClearTable EXCEPT ![0] = SetFrame(AddPresent(@), table),
                                            ![KernelEntry] = SetFrame(AddPresent(@), table2)]
    BY DEF AllocateDirectory
  <2>2. page[1] \in Indices /\ page[1] # 0 /\ page[1] # KernelEntry
    BY PageIndices
  <2>3. directory'[page[1]] = ClearTable[page[1]]
    BY <2>1, <2>2, ClearTables DEF Tables
  <2> QED
    BY <2>2, <2>3, ClearTables
<1>3. \A page \in Pages : Translation(page)' = -1
  BY <1>2 DEF Translation, HasTable
<1>4. Mapping' = [page \in Pages \cup DOMAIN KernelMapping |->
                     IF page \in DOMAIN KernelMapping THEN KernelMapping[page] ELSE -1]
  BY <1>1, <1>3 DEF Mapping, KernelIsFound
<1> QED
  BY <1>1, <1>3, <1>4
     DEF Space!EnablePaging, Space!KernelPages, Space!Unmapped, Mapping, Founded, FramesAvailable

\* A page that has available memory, or a device, or nothing.
LEMMA PageFounded ==
    ASSUME Founded, step = "ready", step' = step, NEW page \in Pages, NEW frame,
           Remapped(page, frame), frame \in AvailableBlocks \cup DeviceFrames \cup {-1}
    PROVE  Founded'
  BY DEF Founded, FramesAvailable, Remapped

LEMMA AllocateRefines ==
    ASSUME VIInv, Founded, KernelIsFound, KernelIsFound', NEW page \in Pages, VMM_AllocatePage(page)
    PROVE  Space!Allocate(page) /\ Founded'
<1> DEFINE b == BlockFound
           e == AddPresent(SetFrame(EntryOf(page), b))
<1>1. /\ step = "ready" /\ step' = step /\ directory' = directory /\ PMM_AllocateBlock
      /\ PagingTypes /\ Paging /\ Starting /\ HasTable(page) /\ ~EntryOf(page).present
      /\ SetEntry(page, e)
  BY DEF VMM_AllocatePage, VIInv
<1>2. b \in Nat /\ b \in FreeMemory /\ memoryMap' = memoryMap \cup {b}
  <2>1. /\ b \in Nat /\ b \notin memoryMap /\ b \notin UnavailableBlocks
        /\ memoryMap' = memoryMap \cup {b}
    BY <1>1, FoundIsFree
  <2>2. b \in AllBits
    BY <1>1, FirstFreeIsClear DEF PMM_AllocateBlock, BlockFound, PagingTypes
  <2> QED
    BY <2>1, <2>2 DEF UnavailableBlocks, FreeMemory
<1> HIDE DEF b
<1>3. e = [present |-> TRUE, frame |-> b] /\ e \in Entry
  BY <1>1, <1>2, FramesRead, Mapped
<1> HIDE DEF e
<1>4. Remapped(page, b)
  <2>1. Remapped(page, IF e.present THEN e.frame ELSE -1)
    BY <1>1, <1>3, EntryRemaps
  <2> QED
    BY <1>3, <2>1
<1>5. Mapping' = [Mapping EXCEPT ![page] = b]
  BY <1>1, <1>4, MappingChanged
<1>6. Mapping[page] = -1
  BY <1>1 DEF Mapping, Translation
<1>7. FreeMemory' = FreeMemory \ {b}
  BY <1>2 DEF FreeMemory
<1>8. Founded'
  BY <1>1, <1>2, <1>4, PageFounded DEF FreeMemory
<1> QED
  BY <1>1, <1>2, <1>5, <1>6, <1>7, <1>8 DEF Space!Allocate, Space!Unmapped, Mapping, FreeMemory

LEMMA FreeRefines ==
    ASSUME VIInv, Founded, KernelIsFound, KernelIsFound', NEW page \in Pages, VMM_FreePage(page)
    PROVE  Space!Free(page) /\ Founded'
<1> DEFINE f == EntryOf(page).frame
           e == RemovePresent(EntryOf(page))
<1>1. /\ step = "ready" /\ step' = step /\ directory' = directory
      /\ PagingTypes /\ Paging /\ HasTable(page) /\ EntryOf(page).present
      /\ f \notin DeviceFrames /\ SetEntry(page, e) /\ memoryMap' = memoryMap \ {f}
  <2>1. /\ step = "ready" /\ step' = step /\ directory' = directory
        /\ PagingTypes /\ Paging /\ HasTable(page) /\ EntryOf(page).present
        /\ f \notin DeviceFrames /\ SetEntry(page, e)
        /\ FreeFrame(PhysicalAddress(EntryOf(page)))
    BY DEF VMM_FreePage, VIInv
  <2>2. PhysicalAddress(EntryOf(page)) = f /\ f # 0
    BY <2>1, FramesRead
  <2>3. memoryMap' = memoryMap \ {f}
    BY <2>1, <2>2 DEF FreeFrame, PMM_FreeBlock
  <2> QED
    BY <2>1, <2>3
<1>2. e \in Entry /\ ~e.present /\ f \in Nat
  BY <1>1, EntryTypes, EntryChanges DEF Entry
<1>3. Mapping[page] = f
  BY <1>1 DEF Mapping, Translation
<1>4. f \in AvailableBlocks
  BY <1>1, <1>2 DEF Founded, FramesAvailable, Translation
<1> HIDE DEF e, f
<1>5. Remapped(page, -1)
  <2>1. Remapped(page, IF e.present THEN e.frame ELSE -1)
    BY <1>1, <1>2, EntryRemaps
  <2> QED
    BY <1>2, <2>1
<1>6. Mapping' = [Mapping EXCEPT ![page] = -1]
  BY <1>1, <1>5, MappingChanged
<1>7. FreeMemory' = FreeMemory \cup {f}
  BY <1>1, <1>4 DEF FreeMemory
<1>8. Founded'
  BY <1>1, <1>5, PageFounded
<1> QED
  BY <1>1, <1>2, <1>3, <1>6, <1>7, <1>8 DEF Space!Free, Space!Unmapped, Mapping, FreeMemory

LEMMA MapRefines ==
    ASSUME VIInv, Founded, KernelIsFound, KernelIsFound', NEW page \in Pages,
           NEW phys \in DeviceFrames, VMM_MapPage(phys, page)
    PROVE  Space!Map(phys, page) /\ Founded'
<1>1. /\ step = "ready" /\ step' = step /\ PagingTypes /\ Paging /\ Starting /\ phys \in Nat
  BY Numbers DEF VMM_MapPage, VIInv
<1>2. Mapping[page] = -1
  BY DEF VMM_MapPage, AddTable, Mapping, Translation
<1>3. /\ Remapped(page, phys)
      /\ FreeMemory' = FreeMemory \/ \E table \in FreeMemory : FreeMemory' = FreeMemory \ {table}
  <2>1. CASE AddTable(page, phys)
    <3> DEFINE b == BlockFound
    <3>1. PMM_AllocateBlock
      BY <2>1 DEF AddTable
    <3>2. /\ b \notin memoryMap /\ b \notin UnavailableBlocks /\ memoryMap' = memoryMap \cup {b}
      BY <1>1, <3>1, FoundIsFree
    <3>3. b \in AllBits
      BY <1>1, <3>1, FirstFreeIsClear DEF PMM_AllocateBlock, BlockFound, PagingTypes
    <3> HIDE DEF b
    <3>4. b \in FreeMemory /\ FreeMemory' = FreeMemory \ {b}
      BY <3>2, <3>3 DEF UnavailableBlocks, FreeMemory
    <3> QED
      BY <1>1, <2>1, <3>4, TableRemaps
  <2>2. CASE ~AddTable(page, phys)
    <3> DEFINE e == AddPresent(SetFrame(EntryOf(page), phys))
    <3>1. /\ HasTable(page) /\ SetEntry(page, e) /\ directory' = directory
          /\ memoryMap' = memoryMap /\ ~EntryOf(page).present
      BY <2>2 DEF VMM_MapPage, vars
    <3>2. e = [present |-> TRUE, frame |-> phys] /\ e \in Entry
      BY <1>1, <3>1, FramesRead, Mapped
    <3> HIDE DEF e
    <3>3. Remapped(page, IF e.present THEN e.frame ELSE -1)
      BY <1>1, <3>1, <3>2, EntryRemaps
    <3> QED
      BY <3>1, <3>2, <3>3 DEF FreeMemory
  <2> QED
    BY <2>1, <2>2
<1>4. Mapping' = [Mapping EXCEPT ![page] = phys]
  BY <1>1, <1>3, MappingChanged
<1>5. Founded'
  BY <1>1, <1>3, PageFounded
<1> QED
  BY <1>1, <1>2, <1>3, <1>4, <1>5 DEF Space!Map, Space!Unmapped, Mapping, FreeMemory

LEMMA SpaceNext ==
    VIInv /\ Founded /\ KernelIsFound /\ KernelIsFound' /\ [VNext]_vmVars
        => [Space!Next]_(Space!vars) /\ Founded'
<1> SUFFICES ASSUME VIInv, Founded, KernelIsFound, KernelIsFound', [VNext]_vmVars
             PROVE  [Space!Next]_(Space!vars) /\ Founded'
  OBVIOUS
<1>1. CASE Start
  <2>1. step # "ready" /\ step' = "table" /\ memoryMap = {}
    BY <1>1 DEF Start, Founded
  <2> QED
    BY <2>1, ReserveRefines DEF Space!Next
<1>2. CASE AllocateTables
  <2>1. step # "ready" /\ step' \in {"table2", "directory"} /\ memoryMap \subseteq memoryMap'
    BY <1>2 DEF AllocateTables, AllocateTable, PMM_AllocateBlock
  <2> QED
    BY <2>1, ReserveRefines DEF Space!Next
<1>3. CASE AllocateDirectory
  BY <1>3, EnableRefines DEF Space!Next
<1>4. ASSUME NEW page \in Pages, VMM_AllocatePage(page) \/ VMM_FreePage(page)
      PROVE  [Space!Next]_(Space!vars) /\ Founded'
  BY <1>4, AllocateRefines, FreeRefines DEF Space!Next
<1>5. ASSUME NEW page \in Pages, NEW phys \in DeviceFrames, VMM_MapPage(phys, page)
      PROVE  [Space!Next]_(Space!vars) /\ Founded'
  BY <1>5, MapRefines DEF Space!Next
<1>6. CASE UNCHANGED vmVars
  <2>1. UNCHANGED <<step, directory, tables, memoryMap>>
    BY <1>6 DEF vmVars, vars, pagingVars
  <2>2. \A page : Translation(page)' = Translation(page)
    BY <2>1 DEF Translation, HasTable, EntryOf, TableOf
  <2>3. UNCHANGED Space!vars
    BY <2>1, <2>2 DEF Space!vars
  <2> QED
    BY <2>1, <2>2, <2>3 DEF Founded, FramesAvailable
<1> QED
  BY <1>1, <1>2, <1>3, <1>4, <1>5, <1>6 DEF VNext, VMM_Initialise

\* With memory below 2 GB: directory and tables, whose masks leave out a bit of each frame,
\* are a map from pages to frames: VMM_AllocatePage, VMM_FreePage and
\* VMM_MapPage change their own page and leave all others as they are, the kernel's
\* included, and memory comes from what nobody has.
THEOREM ImplementsAddressSpace == ASSUME MemoryIsMasked PROVE VSpec => TablesAreMapping
<1>1. VSpec => []KernelIsFound
  BY KernelMapped, KernelTranslated, PTL
<1> QED
  BY <1>1, InitRefines, InitIsFounded, SpaceNext, PagingInvariant, PTL
     DEF VSpec, TablesAreMapping, Space!Spec

=============================================================================
