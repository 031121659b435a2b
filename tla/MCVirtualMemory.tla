--------------------------- MODULE MCVirtualMemory ---------------------------
(* Instances of VirtualMemory, on a machine of 16 blocks: two available       *)
(* regions (0-11 and 13-15), DMA buffer 2, kernel 4-5, map 6, stack 8-9.      *)
EXTENDS VirtualMemory

Region(b, s, a) == [base |-> b, size |-> s, available |-> a]

MCTinyRegions == <<
    Region(0, 12 * 4096, TRUE),
    Region(12 * 4096, 4096, FALSE),
    Region(13 * 4096, 3 * 4096, TRUE),
    Region(0, 0, FALSE) >>

\* Two tables' worth of pages, one index in both.
MCPages == {<<2, 0>>, <<2, 1>>, <<2, 3>>, <<3, 1>>}

=============================================================================
