---------------------------- MODULE AddressSpace ----------------------------
(***************************************************************************)
(* What the virtual memory manager promises its callers: a page leads to   *)
(* the frame it was given until it is given back, whatever is done with    *)
(* other pages, and memory for a page is taken from what nobody has.  Of   *)
(* the tables only the memory that they take can be seen.                  *)
(***************************************************************************)
EXTENDS Integers

CONSTANTS
    Memory,             \* the frames of available memory
    DeviceFrames,       \* the frames callers map, outside of memory
    Pages,              \* the pages callers use
    KernelMapping       \* the frames of the kernel's pages, a function

VARIABLES
    paging,             \* paging is on
    mapping,            \* the frame of each page, or Unmapped
    free                \* the memory that nobody has

vars == <<paging, mapping, free>>

Unmapped == -1

KernelPages == DOMAIN KernelMapping

Init ==
    /\ paging = FALSE
    /\ mapping = [page \in Pages \cup KernelPages |-> Unmapped]
    /\ free = Memory

\* Memory for the kernel, and for tables.
Reserve ==
    /\ ~paging
    /\ free' \in SUBSET free
    /\ UNCHANGED <<paging, mapping>>

\* The kernel's pages are mapped, and no others.
EnablePaging ==
    /\ ~paging /\ paging' = TRUE
    /\ mapping' = [page \in Pages \cup KernelPages |->
                      IF page \in KernelPages THEN KernelMapping[page] ELSE Unmapped]
    /\ free' \in SUBSET free

Allocate(page) ==
    /\ paging /\ mapping[page] = Unmapped
    /\ \E frame \in free :
          /\ mapping' = [mapping EXCEPT ![page] = frame]
          /\ free' = free \ {frame}
    /\ UNCHANGED paging

Free(page) ==
    /\ paging /\ mapping[page] \notin DeviceFrames \cup {Unmapped}
    /\ mapping' = [mapping EXCEPT ![page] = Unmapped]
    /\ free' = free \cup {mapping[page]}
    /\ UNCHANGED paging

\* A device's frame; a table may be needed.
Map(frame, page) ==
    /\ paging /\ mapping[page] = Unmapped
    /\ mapping' = [mapping EXCEPT ![page] = frame]
    /\ \/ UNCHANGED free
       \/ \E table \in free : free' = free \ {table}
    /\ UNCHANGED paging

Next ==
    \/ Reserve \/ EnablePaging
    \/ \E page \in Pages : Allocate(page) \/ Free(page)
    \/ \E page \in Pages, frame \in DeviceFrames : Map(frame, page)

Spec == Init /\ [][Next]_vars

=============================================================================
