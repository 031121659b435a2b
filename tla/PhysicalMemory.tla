--------------------------- MODULE PhysicalMemory ---------------------------
(***************************************************************************)
(* The physical memory manager (src/kernel/physicalmemorymanager.c) and    *)
(* its start-up by the kernel (InitialisePhysicalMemory,                   *)
(* src/kernel/kernel_main.c).                                              *)
(*                                                                         *)
(* Physical memory is divided in blocks of BlockSize bytes.  A bit map,    *)
(* placed right after the kernel image, has one bit per block: set when    *)
(* the block is in use.  A separate counter, _usedBlocks, is updated by    *)
(* every operation; what the callers ask for is checked against the        *)
(* counter, what they get is searched in the map.                          *)
(*                                                                         *)
(* memoryMap is the set of the numbers of the bits that are set.           *)
(* usedBlocks is the value of _usedBlocks before its reduction to 32 bits: *)
(* every read of it goes through Unsigned.                                 *)
(***************************************************************************)
EXTENDS Integers, Sequences, FiniteSets, FiniteSetsExt

CONSTANTS
    BlockSize,      \* PMM_BLOCK_SIZE
    WordBits,       \* the bits of an element of the map (uint32_t)
    BoolBits,       \* the low bits of such a word that survive its conversion
                    \* to bool (typedef signed char bool, src/include/stdint.h)
    UIntValues,     \* the number of values of uint32_t
    Regions,        \* the memory map the BIOS returned: a sequence of records
                    \* [base, size, available], ended by one with base 0
    KernelBase,     \* where the boot loader put the kernel (0x100000)
    KernelSize,     \* bootInfo->KernelSize
    StackTop,       \* bootInfo->StackTop
    DmaBuffer,      \* the block the floppy driver's DMA transfers use (0x8000)
    MaxRun,         \* bound: the longest run a caller asks for
    MaxHeld         \* bound: the blocks the callers hold at any time

ASSUME SizesAssumption ==
    /\ BlockSize \in Nat \ {0}
    /\ WordBits \in Nat \ {0}
    /\ BoolBits \in 1 .. WordBits
    /\ UIntValues \in Nat \ {0}
    /\ KernelBase \in Nat /\ KernelSize \in Nat
    /\ StackTop \in Nat /\ DmaBuffer \in Nat
    /\ MaxRun \in Nat \ {0} /\ MaxHeld \in Nat

VARIABLES
    phase,              \* "off" until InitialisePhysicalMemory has run
    memoryMap,          \* the bits of _memoryMap that are set
    mapBits,            \* 32 * _memoryMapSize
    maximumBlockCount,  \* _maximumBlockCount
    usedBlocks,         \* _usedBlocks
    held                \* the runs of blocks the callers own: records
                        \* [frame, size] returned to them and not freed yet

vars == <<phase, memoryMap, mapBits, maximumBlockCount, usedBlocks, held>>

NotFound == -1          \* 0xFFFFFFFF as the result of a search

Unsigned(n) == n % UIntValues

-----------------------------------------------------------------------------
(* The layout of memory at start-up: constants, computed from the boot     *)
(* loader's data.                                                          *)

RoundUp(n, unit) == ((n + unit - 1) \div unit) * unit

Run(frame, size) == frame .. (frame + size - 1)

\* The blocks whose bits PMM_MarkRegionAsAvailable and
\* PMM_MarkRegionAsUnavailable change for a region.
RegionCount(base, size) ==
    LET offsetInBlock == base % BlockSize
        adjustedSize == IF offsetInBlock = 0 THEN size
                        ELSE (BlockSize - offsetInBlock) + size
    IN  RoundUp(adjustedSize, BlockSize) \div BlockSize

RegionBlocks(base, size) == Run(base \div BlockSize, RegionCount(base, size))

\* The regions PMM_Initialise looks at: its loops stop at the first region
\* but the first whose base is 0.
AvailableRegions ==
    {i \in DOMAIN Regions : /\ \A j \in 2 .. i : Regions[j].base # 0
                            /\ Regions[i].available}

AvailableMemory == MapThenSumSet(LAMBDA i : Regions[i].size, AvailableRegions)

TotalAddressable ==
    LET last == Max(AvailableRegions)
    IN  Regions[last].base + Regions[last].size

\* The size of the map in bytes: eight blocks to a byte, whole words.
MapBytes == RoundUp((TotalAddressable \div BlockSize) \div 8, WordBits \div 8)

MapAddress == RoundUp(KernelBase + KernelSize, BlockSize)

AvailableBlocks ==
    UNION {RegionBlocks(Regions[i].base, Regions[i].size) : i \in AvailableRegions}

AvailableCount ==
    MapThenSumSet(LAMBDA i : RegionCount(Regions[i].base, Regions[i].size),
                  AvailableRegions)

\* What InitialisePhysicalMemory takes back: the null page, the kernel, the
\* map itself, two blocks of stack and the DMA buffer.
Reservations ==
    { [base |-> 0, size |-> BlockSize],
      [base |-> KernelBase, size |-> KernelSize],
      [base |-> MapAddress, size |-> MapBytes],
      [base |-> StackTop - 2 * BlockSize, size |-> 2 * BlockSize],
      [base |-> DmaBuffer, size |-> 4096] }

ReservedBlocks == UNION {RegionBlocks(r.base, r.size) : r \in Reservations}

ReservedCount == MapThenSumSet(LAMBDA r : RegionCount(r.base, r.size), Reservations)

\* The layouts the manager is made for: no two available regions and no two
\* reservations share a block, what is reserved was available before, and the
\* map, whose size is rounded down to whole bytes first, has a bit for every
\* available block.
LayoutAssumption ==
    /\ MapBytes \in Nat /\ 8 * MapBytes < UIntValues
    /\ AvailableMemory \in Nat
    /\ AvailableCount = Cardinality(AvailableBlocks)
    /\ ReservedCount = Cardinality(ReservedBlocks)
    /\ ReservedBlocks \subseteq AvailableBlocks
    /\ AvailableBlocks \subseteq 0 .. (8 * MapBytes - 1)

ASSUME Layout == LayoutAssumption

-----------------------------------------------------------------------------
(* Searches in the map.                                                    *)

PMM_GetFreeBlockCount == Unsigned(maximumBlockCount - usedBlocks)

AllBits == 0 .. (mapBits - 1)

MemoryMapTestBit(bit) == bit \in memoryMap /\ bit % WordBits < BoolBits

MemoryMapFindFirstFree ==
    LET free == AllBits \ memoryMap
    IN  IF free = {} THEN NotFound ELSE Min(free)

\* A faulty search: the first free block, whatever follows it.
FindFirstFreeSizeUnchecked(size) == IF size = 0 THEN NotFound ELSE MemoryMapFindFirstFree

\* The search for a run of size > 1: skip the bits that test as used, count
\* those that test as free, start again after them.  The room that is left is
\* compared with _maximumBlockCount before the skip, never after it.
MemoryMapFindFirstFreeSize(size) ==
    LET search[startingBit \in 0 .. (mapBits + size)] ==
          IF startingBit + size > maximumBlockCount THEN NotFound
          ELSE LET start == Min({b \in startingBit .. mapBits : ~MemoryMapTestBit(b)})
                   freeBlocks == Max({n \in 0 .. size :
                                      \A b \in Run(start, n) : ~MemoryMapTestBit(b)})
               IN  IF freeBlocks = size THEN start ELSE search[start + freeBlocks]
        first == MemoryMapFindFirstFree
    IN  IF size = 0 THEN NotFound
        ELSE IF size = 1 \/ first = NotFound THEN first
        ELSE search[first]

\* What PMM_AllocateBlock and PMM_AllocateBlocks find, NotFound when they
\* return 0.
BlockFound ==
    IF PMM_GetFreeBlockCount <= 0 THEN NotFound ELSE MemoryMapFindFirstFree

BlocksFound(size) ==
    IF PMM_GetFreeBlockCount <= size THEN NotFound
    ELSE MemoryMapFindFirstFreeSize(size)

-----------------------------------------------------------------------------
(* The operations.  A call that fails changes nothing and is no step.      *)

HeldBlocks == UNION {Run(r.frame, r.size) : r \in held}

Init ==
    /\ phase = "off"
    /\ memoryMap = {} /\ mapBits = 0 /\ maximumBlockCount = 0 /\ usedBlocks = 0
    /\ held = {}

\* A faulty start-up, which takes the size of the map in bytes for its bits.
InitialiseCountsBytes ==
    /\ phase = "off" /\ phase' = "running"
    /\ mapBits' = MapBytes
    /\ maximumBlockCount' = AvailableMemory \div BlockSize
    /\ memoryMap' = ((0 .. (8 * MapBytes - 1)) \ AvailableBlocks) \cup ReservedBlocks
    /\ usedBlocks' = AvailableMemory \div BlockSize - AvailableCount + ReservedCount
    /\ UNCHANGED held

\* kernel_main.c InitialisePhysicalMemory: PMM_Initialise sets every bit and
\* clears those of the available regions; then the reservations are set.
InitialisePhysicalMemory ==
    /\ phase = "off"
    /\ phase' = "running"
    /\ mapBits' = 8 * MapBytes
    /\ maximumBlockCount' = AvailableMemory \div BlockSize
    /\ memoryMap' = ((0 .. (8 * MapBytes - 1)) \ AvailableBlocks) \cup ReservedBlocks
    /\ usedBlocks' = AvailableMemory \div BlockSize - AvailableCount + ReservedCount
    /\ UNCHANGED held

\* A faulty allocation that does not set the bit.
AllocateBlockUnmarked ==
    /\ phase = "running"
    /\ Cardinality(HeldBlocks) < MaxHeld
    /\ BlockFound # NotFound
    /\ usedBlocks' = usedBlocks + 1
    /\ held' = held \cup {[frame |-> BlockFound, size |-> 1]}
    /\ UNCHANGED <<phase, memoryMap, mapBits, maximumBlockCount>>

PMM_AllocateBlock ==
    /\ phase = "running"
    /\ Cardinality(HeldBlocks) < MaxHeld
    /\ BlockFound # NotFound
    /\ memoryMap' = memoryMap \cup {BlockFound}
    /\ usedBlocks' = usedBlocks + 1
    /\ held' = held \cup {[frame |-> BlockFound, size |-> 1]}
    /\ UNCHANGED <<phase, mapBits, maximumBlockCount>>

\* A faulty release that does not count the block.
FreeBlockUncounted(r) ==
    /\ r.size = 1
    /\ memoryMap' = memoryMap \ {r.frame}
    /\ held' = held \ {r}
    /\ UNCHANGED <<phase, mapBits, maximumBlockCount, usedBlocks>>

\* A caller frees what it holds, once.
PMM_FreeBlock(r) ==
    /\ r.size = 1
    /\ memoryMap' = memoryMap \ {r.frame}
    /\ usedBlocks' = usedBlocks - 1
    /\ held' = held \ {r}
    /\ UNCHANGED <<phase, mapBits, maximumBlockCount>>

PMM_AllocateBlocks(size) ==
    /\ phase = "running"
    /\ Cardinality(HeldBlocks) + size <= MaxHeld
    /\ LET frame == BlocksFound(size)
       IN  /\ frame # NotFound
           /\ memoryMap' = memoryMap \cup Run(frame, size)
           /\ held' = held \cup {[frame |-> frame, size |-> size]}
    /\ usedBlocks' = usedBlocks + size
    /\ UNCHANGED <<phase, mapBits, maximumBlockCount>>

\* Two faulty releases: one counts a run as one block, one leaves its last bit set.
FreeBlocksCountsOne(r) ==
    /\ memoryMap' = memoryMap \ Run(r.frame, r.size)
    /\ usedBlocks' = usedBlocks - 1
    /\ held' = held \ {r}
    /\ UNCHANGED <<phase, mapBits, maximumBlockCount>>

FreeBlocksLeavesLast(r) ==
    /\ memoryMap' = memoryMap \ Run(r.frame, r.size - 1)
    /\ usedBlocks' = usedBlocks - r.size
    /\ held' = held \ {r}
    /\ UNCHANGED <<phase, mapBits, maximumBlockCount>>

PMM_FreeBlocks(r) ==
    /\ memoryMap' = memoryMap \ Run(r.frame, r.size)
    /\ usedBlocks' = usedBlocks - r.size
    /\ held' = held \ {r}
    /\ UNCHANGED <<phase, mapBits, maximumBlockCount>>

Next ==
    \/ InitialisePhysicalMemory
    \/ PMM_AllocateBlock
    \/ \E r \in held : PMM_FreeBlock(r)
    \/ \E size \in 1 .. MaxRun : PMM_AllocateBlocks(size)
    \/ \E r \in held : PMM_FreeBlocks(r)

Spec == Init /\ [][Next]_vars

\* What the running kernel uses once its page directory is set up: single
\* blocks, from VMM_AllocatePage, VMM_FreePage and VMM_MapPage.
SingleNext ==
    \/ InitialisePhysicalMemory
    \/ PMM_AllocateBlock
    \/ \E r \in held : PMM_FreeBlock(r)

SingleSpec == Init /\ [][SingleNext]_vars

-----------------------------------------------------------------------------
(* Properties.                                                             *)

\* The counters are numbers, the map has bits for its own blocks only and the
\* callers hold runs of blocks.
TypeOK ==
    /\ phase \in {"off", "running"}
    /\ mapBits \in Nat /\ maximumBlockCount \in Nat /\ usedBlocks \in Int
    /\ memoryMap \subseteq AllBits
    /\ held \subseteq [frame : Nat, size : Nat \ {0}]

\* The two records of the same fact agree: what PMM_GetFreeBlockCount
\* computes from _usedBlocks is the number of clear bits of the map, so that
\* an allocation refused by the count would not have found a block and one
\* admitted by it does.
FreeCountMatchesMap ==
    phase = "running" =>
        PMM_GetFreeBlockCount = Cardinality(AllBits \ memoryMap)

\* A bit is set because start-up left it set or because a caller holds the
\* block, and for no other reason: no block is lost, none is free while held.
UnavailableBlocks == (AllBits \ AvailableBlocks) \cup ReservedBlocks

MapTellsWhoHolds ==
    phase = "running" => memoryMap = UnavailableBlocks \cup HeldBlocks

\* Two owners never share a block, and no owner has a block of the null page,
\* the kernel, the map, the stack or the DMA buffer, or one outside RAM.
BlocksAreExclusive ==
    /\ HeldBlocks \cap UnavailableBlocks = {}
    /\ \A r, s \in held :
         r # s => Run(r.frame, r.size) \cap Run(s.frame, s.size) = {}

\* A run that is handed out was free: none of its blocks was in use before.
AllocatedRunsWereFree ==
    [][\A r \in held' \ held : Run(r.frame, r.size) \subseteq AllBits \ memoryMap]_vars

=============================================================================
