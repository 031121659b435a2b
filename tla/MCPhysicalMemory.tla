-------------------------- MODULE MCPhysicalMemory --------------------------
(* Instances of PhysicalMemory: a PC with 639 KB of low memory, as its BIOS *)
(* reports it, and 128 KB of extended memory.                              *)
EXTENDS PhysicalMemory

Region(b, s, a) == [base |-> b, size |-> s, available |-> a]

\* 0-0x9FC00, the extended BIOS data area, the BIOS, and 0x100000 upwards.
MCRegions == <<
    Region(0, 654336, TRUE),
    Region(654336, 1024, FALSE),
    Region(983040, 65536, FALSE),
    Region(1048576, 131072, TRUE),
    Region(1179648, 65536, FALSE),
    Region(0, 0, FALSE) >>

=============================================================================
