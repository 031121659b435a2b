---------------------------- MODULE VirtualMemory ----------------------------
(***************************************************************************)
(* The virtual memory manager (src/kernel/virtualmemorymanager.c, vm_pte.c *)
(* and vm_pde.c), which takes every page table and every page from the     *)
(* physical memory manager: the two modules are composed, each step of     *)
(* this one makes the step of PhysicalMemory for the block it takes or     *)
(* gives back.                                                             *)
(*                                                                         *)
(* Addresses are block numbers, a virtual address is a pair of indices.    *)
(***************************************************************************)
EXTENDS PhysicalMemory

CONSTANTS
    Entries,            \* the entries of a page table or directory (1024)
    KernelEntry,        \* the entry of the directory for 0xC0000000
    Pages,              \* the virtual pages callers use: pairs <<index in the
                        \* directory, index in the table>>
    MaskedFrames,       \* the frames that I86_PTE_FRAME and I86_PDE_FRAME cover: bit
                        \* 31 of an address is not in 0x7FFFF000, so 2^19 of 2^20
    DeviceFrames        \* the frames callers map, outside of memory

\* Callers keep away from the two tables of the kernel, which is not at address 0.
ASSUME VirtualAssumption ==
    /\ Entries \in Nat \ {0} /\ KernelEntry \in 1 .. (Entries - 1)
    /\ KernelBase >= BlockSize
    /\ MaskedFrames \in Nat \ {0}
    /\ Pages \subseteq ((1 .. (Entries - 1)) \ {KernelEntry}) \X (0 .. (Entries - 1))
    /\ AvailableBlocks \cup DeviceFrames \subseteq 0 .. (2 * MaskedFrames - 1)
    /\ DeviceFrames \cap AvailableBlocks = {}

VARIABLES
    step,               \* how far VMM_Initialise has got
    directoryFrame,     \* _current_pdbr
    directory,          \* the entries of the page directory
    tables              \* the entries of the page tables, by their frames

pagingVars == <<directoryFrame, directory, tables>>
vmVars == <<vars, step, pagingVars>>

-----------------------------------------------------------------------------
(* Entries: the present bit and the frame; other attributes do not matter. *)

Clear == [present |-> FALSE, frame |-> 0]
ClearTable == [i \in 0 .. (Entries - 1) |-> Clear]

AddPresent(e) == [e EXCEPT !.present = TRUE]
RemovePresent(e) == [e EXCEPT !.present = FALSE]

\* A faulty one, which adds the frame to what a freed page has left there.
SetFrameOnce(e, frame) == IF e.frame = 0 THEN [e EXCEPT !.frame = frame] ELSE e

\* (*entry & ~I86_PTE_FRAME) | addr: the bit above the mask is not cleared, and stays
\* set once an entry has had it.
SetFrame(e, frame) ==
    [e EXCEPT !.frame = IF @ < MaskedFrames \/ frame >= MaskedFrames THEN frame
                        ELSE frame + MaskedFrames]

\* PTE_PhysicalAddress: the bit above the mask is lost.
PhysicalAddress(e) == e.frame % MaskedFrames

\* A table that maps consecutive pages to the frames from the first one on.
LinearTable(first) ==
    [i \in 0 .. (Entries - 1) |-> SetFrame(AddPresent(Clear), first + i)]

\* One more table, in the memory of a certain frame.
AddedTable(frame, table) ==
    [f \in DOMAIN tables \cup {frame} |-> IF f = frame THEN table ELSE tables[f]]

\* The processor and VMM_MapPage, unlike PTE_PhysicalAddress, use the whole frame.
HasTable(page) == directory[page[1]].present
TableOf(page) == directory[page[1]].frame
EntryOf(page) == tables[TableOf(page)][page[2]]

-----------------------------------------------------------------------------
(* Start-up.                                                               *)

VInit ==
    /\ Init
    /\ step = "physical"
    /\ directoryFrame = 0 /\ directory = ClearTable /\ tables = <<>>

Start ==
    /\ step = "physical"
    /\ InitialisePhysicalMemory
    /\ step' = "table"
    /\ UNCHANGED pagingVars

\* VMM_Initialise takes a block for each of its two tables ...
AllocateTable(here, next, first) ==
    /\ step = here
    /\ PMM_AllocateBlock
    /\ tables' = AddedTable(BlockFound, LinearTable(first))
    /\ step' = next
    /\ UNCHANGED <<directoryFrame, directory>>

\* ... the first 4 MB, the kernel at 3 GB ...
AllocateTables ==
    \/ AllocateTable("table", "table2", 0)
    \/ AllocateTable("table2", "directory", KernelBase \div BlockSize)

\* ... and three blocks for the directory.  When one is not to be had it returns
\* and paging stays as the boot loader left it: no step.
AllocateDirectory ==
    /\ step = "directory"
    /\ PMM_AllocateBlocks(3)
    /\ directoryFrame' = BlocksFound(3)
    /\ \E table, table2 \in DOMAIN tables :
          /\ tables[table] = LinearTable(0)
          /\ tables[table2] = LinearTable(KernelBase \div BlockSize)
          /\ directory' = [ClearTable EXCEPT ![0] = SetFrame(AddPresent(@), table),
                                             ![KernelEntry] = SetFrame(AddPresent(@), table2)]
    /\ step' = "ready"
    /\ UNCHANGED tables

VMM_Initialise == AllocateTables \/ AllocateDirectory

-----------------------------------------------------------------------------
(* The operations.                                                         *)

SetEntry(page, e) == tables' = [tables EXCEPT ![TableOf(page)][page[2]] = e]

\* A caller wants memory at a page that has a table and nothing mapped.
VMM_AllocatePage(page) ==
    /\ step = "ready" /\ HasTable(page) /\ ~EntryOf(page).present
    /\ PMM_AllocateBlock
    /\ SetEntry(page, AddPresent(SetFrame(EntryOf(page), BlockFound)))
    /\ UNCHANGED <<step, directoryFrame, directory>>

\* What is read from the entry is freed, unless it is the null page.
FreeFrame(frame) ==
    \/ frame = 0 /\ UNCHANGED vars
    \/ frame # 0 /\ PMM_FreeBlock([frame |-> frame, size |-> 1])

\* A faulty release, which leaves the page present.
FreePageStaysPresent(page) ==
    /\ step = "ready" /\ HasTable(page) /\ EntryOf(page).present
    /\ EntryOf(page).frame \notin DeviceFrames
    /\ FreeFrame(PhysicalAddress(EntryOf(page)))
    /\ UNCHANGED <<step, pagingVars>>

\* A caller gives back a page it has allocated.  The frame stays in the entry.
VMM_FreePage(page) ==
    /\ step = "ready" /\ HasTable(page) /\ EntryOf(page).present
    /\ EntryOf(page).frame \notin DeviceFrames
    /\ FreeFrame(PhysicalAddress(EntryOf(page)))
    /\ SetEntry(page, RemovePresent(EntryOf(page)))
    /\ UNCHANGED <<step, directoryFrame, directory>>

\* A faulty one, which does not clear the table: what the block held before maps
\* pages nobody has asked for.
AddTableUncleared(page, phys) ==
    /\ ~HasTable(page)
    /\ PMM_AllocateBlock
    /\ directory' = [directory EXCEPT
          ![page[1]] = SetFrame(AddPresent(@), BlockFound)]
    /\ tables' = AddedTable(BlockFound,
          [i \in 0 .. (Entries - 1) |-> AddPresent(SetFrame(Clear, phys))])

\* VMM_MapPage, where a cleared table has to be made first ...
AddTable(page, phys) ==
    /\ ~HasTable(page)
    /\ PMM_AllocateBlock
    /\ directory' = [directory EXCEPT
          ![page[1]] = SetFrame(AddPresent(@), BlockFound)]
    /\ tables' = AddedTable(BlockFound,
          [ClearTable EXCEPT ![page[2]] = AddPresent(SetFrame(@, phys))])

\* ... and where there is one.  Callers map devices at pages that are free.
VMM_MapPage(phys, page) ==
    /\ step = "ready"
    /\ \/ AddTable(page, phys)
       \/ /\ HasTable(page) /\ ~EntryOf(page).present
          /\ SetEntry(page, AddPresent(SetFrame(EntryOf(page), phys)))
          /\ UNCHANGED <<vars, directory>>
    /\ UNCHANGED <<step, directoryFrame>>

VNext ==
    \/ Start
    \/ VMM_Initialise
    \/ \E page \in Pages : VMM_AllocatePage(page) \/ VMM_FreePage(page)
    \/ \E page \in Pages, phys \in DeviceFrames : VMM_MapPage(phys, page)

VSpec == VInit /\ [][VNext]_vmVars

-----------------------------------------------------------------------------
(* Properties.                                                             *)

\* The pages that have memory of their own.
AllocatedPages ==
    {page \in Pages : /\ step = "ready" /\ HasTable(page)
                      /\ EntryOf(page).present
                      /\ EntryOf(page).frame \notin DeviceFrames}

TableFrames == {directory[i].frame : i \in {j \in DOMAIN directory : directory[j].present}}

\* Memory below the bit that the masks leave out, which is 2 GB.  With memory above, a page
\* that is given back frees the block 2 GB below its own, and its entry keeps the bit for
\* the next frame: none of what follows holds then.
MemoryIsMasked == AvailableBlocks \subseteq 0 .. (MaskedFrames - 1)

\* No two pages have the same memory, and none has the memory of a page table, of
\* the directory, or what start-up reserved: through any sequence of allocations
\* and releases, although released entries keep their frames.
PagesHaveOwnFrames ==
    \A page \in AllocatedPages :
        LET frame == EntryOf(page).frame
        IN  /\ frame \notin TableFrames \cup Run(directoryFrame, 3)
            /\ frame \notin UnavailableBlocks
            /\ \A other \in AllocatedPages \ {page} : EntryOf(other).frame # frame

\* Every block the manager has taken is still in use: as a table the directory
\* points to, as a page that is present, or as the directory.
NoBlockIsLost ==
    step = "ready" =>
        HeldBlocks = TableFrames \cup Run(directoryFrame, 3)
                        \cup {EntryOf(page).frame : page \in AllocatedPages}

\* "The first 4MB of virtual addresses are mapped to the same physical addresses"
\* (141) and the kernel is at 3 GB, from the moment paging is on and whatever
\* is mapped later.
KernelStaysMapped ==
    step = "ready" =>
        \A i \in 0 .. (Entries - 1) :
            /\ directory[0].present /\ directory[KernelEntry].present
            /\ EntryOf(<<0, i>>) = [present |-> TRUE, frame |-> i]
            /\ EntryOf(<<KernelEntry, i>>) =
                  [present |-> TRUE, frame |-> KernelBase \div BlockSize + i]

\* What the processor finds for a page through directory and tables.
Translation(page) ==
    IF step = "ready" /\ HasTable(page) /\ EntryOf(page).present THEN EntryOf(page).frame ELSE -1

KernelMapping ==
    [page \in {0, KernelEntry} \X (0 .. (Entries - 1)) |->
        IF page[1] = 0 THEN page[2] ELSE KernelBase \div BlockSize + page[2]]

Space == INSTANCE AddressSpace
    WITH Memory <- AvailableBlocks, paging <- step = "ready", free <- AvailableBlocks \ memoryMap,
         mapping <- [page \in Pages \cup DOMAIN KernelMapping |-> Translation(page)]

\* Directory and tables, made and changed entry by entry in blocks that had other
\* contents before, are a map from pages to frames: a call changes its own page only.
TablesAreMapping == Space!Spec

=============================================================================
