-------------------------- MODULE FloppyDiskProofs --------------------------
(***************************************************************************)
(* Theorems about FloppyDisk, for every value of its constants.            *)
(***************************************************************************)
EXTENDS FloppyDisk, TLAPS

-----------------------------------------------------------------------------
(* The DMA controllers.                                                    *)

LEMMA BytesOfWord ==
    ASSUME NEW n \in Nat
    PROVE  /\ n % 256 \in Bytes
           /\ (n \div 256) % 256 \in Bytes
           /\ n < 65536 => ((n \div 256) % 256) * 256 + (n % 256) = n
<1>1. \A m \in Nat : m % 256 \in Nat /\ m % 256 <= 255
  BY SMT
<1>2. \A m \in Nat : m <= 255 => m \in Bytes
  BY SMT DEF Bytes
<1>3. n \div 256 \in Nat
  BY SMT
<1>4. n < 65536 => ((n \div 256) % 256) * 256 + (n % 256) = n
  BY SMT
<1> QED
  BY <1>1, <1>2, <1>3, <1>4

LEMMA Toggled ==
    ASSUME NEW d \in Hardware, NEW c \in 0 .. 1
    PROVE  /\ Toggle(d, c) \in Hardware
           /\ Toggle(d, c).flipflop[c] = 1 - d.flipflop[c]
           /\ Toggle(d, c).addr = d.addr /\ Toggle(d, c).count = d.count
           /\ Toggle(d, c).masked = d.masked /\ Toggle(d, c).mode = d.mode
           /\ Toggle(d, c).page = d.page
<1>1. d.flipflop \in [0 .. 1 -> 0 .. 1]
  BY DEF Hardware
<1>2. [d.flipflop EXCEPT ![c] = 1 - d.flipflop[c]] \in [0 .. 1 -> 0 .. 1]
  BY <1>1, SMT
<1> QED
  BY <1>1, <1>2, SMT DEF Toggle, Hardware

\* What a write to the address or the count of channel 2 leaves alone.
SameElsewhere(d, e) ==
    /\ e \in Hardware
    /\ e.flipflop[0] = 1 - d.flipflop[0]
    /\ e.page = d.page /\ e.masked = d.masked /\ e.mode = d.mode

LEMMA RegisterWritten ==
    ASSUME NEW d \in Hardware, NEW byte \in Bytes
    PROVE  /\ SameElsewhere(d, WriteAddress(d, 2, byte))
           /\ WriteAddress(d, 2, byte).addr[2] = NextByte(d, 2, d.addr[2], byte)
           /\ WriteAddress(d, 2, byte).count = d.count
           /\ SameElsewhere(d, WriteCount(d, 2, byte))
           /\ WriteCount(d, 2, byte).count[2] = NextByte(d, 2, d.count[2], byte)
           /\ WriteCount(d, 2, byte).addr = d.addr
<1>1. ControllerOf(2) = 0 /\ 0 \in 0 .. 1 /\ 2 \in Channels
  BY SMT DEF ControllerOf, Channels
<1> DEFINE t == Toggle(d, 0)
           a == NextByte(d, 2, d.addr[2], byte)
           c == NextByte(d, 2, d.count[2], byte)
           addr == [d.addr EXCEPT ![2] = a]
           count == [d.count EXCEPT ![2] = c]
<1>2. /\ d.addr \in [Channels -> Words] /\ d.addr[2] \in Words
      /\ d.count \in [Channels -> Words] /\ d.count[2] \in Words
  BY <1>1 DEF Hardware
<1>3. a \in Words /\ c \in Words
  BY <1>2 DEF NextByte, Words
<1>4. /\ addr \in [Channels -> Words] /\ addr[2] = a
      /\ count \in [Channels -> Words] /\ count[2] = c
  BY <1>1, <1>2, <1>3
<1>5. /\ WriteAddress(d, 2, byte) = [t EXCEPT !.addr = addr]
      /\ WriteCount(d, 2, byte) = [t EXCEPT !.count = count]
  BY <1>1 DEF WriteAddress, WriteCount
<1>6. SameElsewhere(d, t) /\ t.addr = d.addr /\ t.count = d.count
  BY <1>1, Toggled DEF SameElsewhere
<1> HIDE DEF t, addr, count, a, c
<1>7. /\ SameElsewhere(d, [t EXCEPT !.addr = addr])
      /\ [t EXCEPT !.addr = addr].addr = addr /\ [t EXCEPT !.addr = addr].count = d.count
  BY <1>4, <1>6 DEF Hardware, SameElsewhere
<1>8. /\ SameElsewhere(d, [t EXCEPT !.count = count])
      /\ [t EXCEPT !.count = count].count = count /\ [t EXCEPT !.count = count].addr = d.addr
  BY <1>4, <1>6 DEF Hardware, SameElsewhere
<1> QED
  BY <1>4, <1>5, <1>7, <1>8 DEF a, c

\* The registers are those of d but for one of them and for the flip-flop.
AddressIs(d, e, word) ==
    /\ e \in Hardware /\ e.flipflop[0] = 0
    /\ e.addr[2] = word

CountIs(d, e, word) ==
    /\ e \in Hardware /\ e.flipflop[0] = 0
    /\ e.count[2] = word /\ e.addr = d.addr

LEMMA AddressSet ==
    ASSUME NEW d \in Hardware, NEW low \in Bytes, NEW high \in Bytes, d.flipflop[0] = 0
    PROVE  AddressIs(d, DMA_SetAddress(d, 2, low, high), <<low, high>>)
<1> DEFINE e == WriteAddress(d, 2, low)
           f == WriteAddress(e, 2, high)
<1>1. ControllerOf(2) = 0
  BY SMT DEF ControllerOf
<1>2. SameElsewhere(d, e) /\ e.addr[2] = NextByte(d, 2, d.addr[2], low)
  BY RegisterWritten
<1>3. NextByte(d, 2, d.addr[2], low) = <<low, d.addr[2][2]>>
  BY <1>1 DEF NextByte
<1>4. e \in Hardware /\ e.flipflop[0] = 1
  BY <1>2, SMT DEF SameElsewhere
<1> HIDE DEF e
<1>5. SameElsewhere(e, f) /\ f.addr[2] = NextByte(e, 2, e.addr[2], high)
  BY <1>4, RegisterWritten
<1>6. NextByte(e, 2, e.addr[2], high) = <<e.addr[2][1], high>>
  BY <1>1, <1>4 DEF NextByte
<1>7. f \in Hardware /\ f.flipflop[0] = 0
  BY <1>4, <1>5, SMT DEF SameElsewhere
<1>8. f.addr[2] = <<low, high>>
  BY <1>2, <1>3, <1>5, <1>6
<1> QED
  BY <1>7, <1>8 DEF AddressIs, DMA_SetAddress, e

LEMMA CountSet ==
    ASSUME NEW d \in Hardware, NEW low \in Bytes, NEW high \in Bytes, d.flipflop[0] = 0
    PROVE  CountIs(d, DMA_SetCount(d, 2, low, high), <<low, high>>)
<1> DEFINE e == WriteCount(d, 2, low)
           f == WriteCount(e, 2, high)
<1>1. ControllerOf(2) = 0
  BY SMT DEF ControllerOf
<1>2. SameElsewhere(d, e) /\ e.count[2] = NextByte(d, 2, d.count[2], low) /\ e.addr = d.addr
  BY RegisterWritten
<1>3. NextByte(d, 2, d.count[2], low) = <<low, d.count[2][2]>>
  BY <1>1 DEF NextByte
<1>4. e \in Hardware /\ e.flipflop[0] = 1
  BY <1>2, SMT DEF SameElsewhere
<1> HIDE DEF e
<1>5. SameElsewhere(e, f) /\ f.count[2] = NextByte(e, 2, e.count[2], high) /\ f.addr = e.addr
  BY <1>4, RegisterWritten
<1>6. NextByte(e, 2, e.count[2], high) = <<e.count[2][1], high>>
  BY <1>1, <1>4 DEF NextByte
<1>7. f \in Hardware /\ f.flipflop[0] = 0
  BY <1>4, <1>5, SMT DEF SameElsewhere
<1>8. f.count[2] = <<low, high>> /\ f.addr = d.addr
  BY <1>2, <1>3, <1>5, <1>6
<1> QED
  BY <1>7, <1>8 DEF CountIs, DMA_SetCount, e

\* All but the masks, or all but the masks and the modes, are those of d.
SameRegisters(d, e) ==
    /\ e \in Hardware
    /\ e.flipflop = d.flipflop /\ e.addr = d.addr /\ e.count = d.count /\ e.page = d.page

LEMMA MaskSet ==
    ASSUME NEW d \in Hardware
    PROVE  /\ SameRegisters(d, DMA_MaskChannel(d, 2))
           /\ SameRegisters(d, DMA_UnmaskChannel(d, 2))
           /\ 2 \notin DMA_UnmaskChannel(d, 2).masked
           /\ DMA_UnmaskChannel(d, 2).mode = d.mode
<1>1. /\ MaskController(2) = 0 /\ MaskLine(2) = 2
      /\ 4 + (2 % 4) = 6 /\ 4 * 0 + (6 % 4) = 2 /\ (6 \div 4) % 2 = 1
      /\ 4 * 0 + (2 % 4) = 2 /\ (2 \div 4) % 2 # 1 /\ 2 \in Channels
  BY SMT DEF MaskController, MaskLine, Channels
<1>2. /\ DMA_MaskChannel(d, 2) = [d EXCEPT !.masked = d.masked \cup {2}]
      /\ DMA_UnmaskChannel(d, 2) = [d EXCEPT !.masked = d.masked \ {2}]
  BY <1>1 DEF DMA_MaskChannel, DMA_UnmaskChannel, WriteMask
<1> QED
  BY <1>1, <1>2 DEF Hardware, SameRegisters

LEMMA ModeSet ==
    ASSUME NEW d \in Hardware, NEW byte \in Bytes, byte % 4 = 2
    PROVE  /\ SameRegisters(d, WriteMode(d, 0, byte))
           /\ WriteMode(d, 0, byte).mode[2] = byte
<1> DEFINE mode == [d.mode EXCEPT ![2] = byte]
<1>1. 4 * 0 + (byte % 4) = 2 /\ 2 \in Channels
  BY SMT DEF Channels
<1>2. WriteMode(d, 0, byte) = [d EXCEPT !.mode = mode]
  BY <1>1 DEF WriteMode
<1>3. mode \in [Channels -> Bytes] /\ mode[2] = byte
  BY <1>1 DEF Hardware
<1> HIDE DEF mode
<1> QED
  BY <1>2, <1>3 DEF Hardware, SameRegisters

LEMMA Cleared ==
    ASSUME NEW d \in Hardware
    PROVE  DMA_Reset(d, 1) \in Hardware /\ DMA_Reset(d, 1).flipflop[0] = 0
<1> DEFINE flipflop == [d.flipflop EXCEPT ![0] = 0]
           masked == d.masked \cup (4 * 0 .. 4 * 0 + 3)
<1>1. flipflop \in [0 .. 1 -> 0 .. 1] /\ flipflop[0] = 0
  BY SMT DEF Hardware
<1>2. masked \subseteq Channels
  BY SMT DEF Hardware, Channels
<1>3. DMA_Reset(d, 1) = [[d EXCEPT !.flipflop = flipflop] EXCEPT !.masked = masked]
  BY DEF DMA_Reset, MasterClear, ClearFlipflop
<1> HIDE DEF flipflop, masked
<1> QED
  BY <1>1, <1>2, <1>3 DEF Hardware

LEMMA PageSet ==
    ASSUME NEW d \in Hardware
    PROVE  LET e == DMA_SetExternalPageRegister(d, 2, 0)
           IN  e \in Hardware /\ e.addr = d.addr /\ e.count = d.count /\ e.page[2] = 0
<1> DEFINE page == [d.page EXCEPT ![2] = 0]
<1>1. DMA_SetExternalPageRegister(d, 2, 0) = [d EXCEPT !.page = page]
  BY DEF DMA_SetExternalPageRegister
<1>2. 2 \in Channels /\ 0 \in Bytes
  BY SMT DEF Channels, Bytes
<1>3. page \in [Channels -> Bytes] /\ page[2] = 0
  BY <1>2 DEF Hardware
<1> HIDE DEF page
<1> QED
  BY <1>1, <1>3 DEF Hardware

\* Whatever the BIOS or an earlier transfer left in the controllers, the driver
\* ends with its channel open, into memory, for one sector at the buffer.
LEMMA ChannelProgrammed ==
    ASSUME NEW d \in Hardware, DmaBuffer \in Nat, DmaBuffer + SectorBytes <= 65536
    PROVE  LET e == ProgramChannel(d)
           IN  /\ e \in Hardware
               /\ Enabled(e, FDC_DMA_CHANNEL) /\ IntoMemory(e, FDC_DMA_CHANNEL)
               /\ TransferAddress(e, FDC_DMA_CHANNEL) = DmaBuffer
               /\ TransferLength(e, FDC_DMA_CHANNEL) = SectorBytes
<1>1. DMAAccepts(DmaBuffer, 512)
  <2>1. DmaBuffer + 512 - 1 < 65536
    BY SMT DEF SectorBytes
  <2>2. DmaBuffer \div 16777216 = 0 /\ DmaBuffer % 65536 = DmaBuffer
    BY <2>1, SMT
  <2> QED
    BY <2>1, <2>2 DEF DMAAccepts
<1>2. /\ \A x : DMA_ResetFlipflop(x, 1) = x
      /\ (512 - 1) % 256 = 255 /\ ((512 - 1) \div 256) % 256 = 1
      /\ 255 \in Bytes /\ 1 \in Bytes /\ 70 \in Bytes /\ 70 % 4 = 2
  BY SMT DEF DMA_ResetFlipflop, Bytes
<1>3. /\ DmaBuffer % 256 \in Bytes /\ (DmaBuffer \div 256) % 256 \in Bytes
      /\ ((DmaBuffer \div 256) % 256) * 256 + (DmaBuffer % 256) = DmaBuffer
  <2>1. DmaBuffer \in Nat /\ DmaBuffer < 65536
    BY SMT DEF SectorBytes
  <2> QED
    BY <2>1, BytesOfWord
<1>4. PICK low, high : low = DmaBuffer % 256 /\ high = (DmaBuffer \div 256) % 256
  OBVIOUS
<1>5. PICK d0 : d0 = DMA_Reset(d, 1)
  OBVIOUS
<1>6. PICK d1 : d1 = DMA_MaskChannel(d0, 2)
  OBVIOUS
<1>7. PICK d2 : d2 = DMA_SetAddress(d1, 2, low, high)
  OBVIOUS
<1>8. PICK d3 : d3 = DMA_SetCount(d2, 2, 255, 1)
  OBVIOUS
<1>9. PICK d4 : d4 = DMA_SetExternalPageRegister(d3, 2, 0)
  OBVIOUS
<1>10. PICK d5 : d5 = DMA_UnmaskChannel(d4, 2)
  OBVIOUS
<1>11. PICK d6 : d6 = DMA_MaskChannel(d5, 2)
  OBVIOUS
<1>12. PICK d7 : d7 = WriteMode(d6, 0, 70)
  OBVIOUS
<1>13. PICK d8 : d8 = DMA_UnmaskChannel(d7, 2)
  OBVIOUS
<1>14. ProgramChannel(d) = d8
  <2>1. FloppyDriveDMAInitialise(d, DmaBuffer, 512) = d5
    BY <1>1, <1>2, <1>4, <1>5, <1>6, <1>7, <1>8, <1>9, <1>10
       DEF FloppyDriveDMAInitialise, FDC_DMA_CHANNEL
  <2>2. 4 + 64 = 68 /\ (2 % 4) + 68 = 70 /\ ControllerOf(2) = 0
    BY SMT DEF ControllerOf
  <2>3. DMA_SetRead(d5, 2) = d8
    BY <2>2, <1>11, <1>12, <1>13 DEF DMA_SetRead, DMA_SetMode
  <2> QED
    BY <2>1, <2>3 DEF ProgramChannel, FDC_DMA_CHANNEL, SectorBytes
<1>15. d0 \in Hardware /\ d0.flipflop[0] = 0
  BY <1>5, Cleared
<1>16. SameRegisters(d0, d1)
  BY <1>6, <1>15, MaskSet
<1>17. AddressIs(d1, d2, <<low, high>>)
  BY <1>3, <1>4, <1>7, <1>15, <1>16, AddressSet DEF SameRegisters
<1>18. CountIs(d2, d3, <<255, 1>>)
  BY <1>2, <1>8, <1>17, CountSet DEF AddressIs
<1>19. d4 \in Hardware /\ d4.addr = d3.addr /\ d4.count = d3.count /\ d4.page[2] = 0
  BY <1>9, <1>18, PageSet DEF CountIs
<1>20. SameRegisters(d4, d5)
  BY <1>10, <1>19, MaskSet
<1>21. SameRegisters(d5, d6)
  BY <1>11, <1>20, MaskSet DEF SameRegisters
<1>22. SameRegisters(d6, d7) /\ d7.mode[2] = 70
  BY <1>2, <1>12, <1>21, ModeSet DEF SameRegisters
<1>23. SameRegisters(d7, d8) /\ 2 \notin d8.masked /\ d8.mode = d7.mode
  BY <1>13, <1>22, MaskSet DEF SameRegisters
<1>24. d8.addr = d2.addr /\ d8.count = d3.count /\ d8.page = d4.page
  BY <1>18, <1>19, <1>20, <1>21, <1>22, <1>23 DEF SameRegisters, CountIs
<1>25. d8.addr[2] = <<low, high>> /\ d8.count[2] = <<255, 1>> /\ d8.page[2] = 0
  BY <1>17, <1>18, <1>19, <1>24 DEF AddressIs, CountIs
<1>26. TransferAddress(d8, 2) = DmaBuffer
  <2>1. TransferAddress(d8, 2) = 0 * 65536 + high * 256 + low
    BY <1>25 DEF TransferAddress
  <2> QED
    BY <2>1, <1>3, <1>4, SMT DEF Bytes
<1>27. TransferLength(d8, 2) = 512
  <2>1. TransferLength(d8, 2) = 1 * 256 + 255 + 1
    BY <1>25 DEF TransferLength
  <2> QED
    BY <2>1, SMT
<1>28. IntoMemory(d8, 2)
  <2>1. (70 \div 4) % 4 = 1
    BY SMT
  <2> QED
    BY <2>1, <1>22, <1>23 DEF IntoMemory
<1> QED
  BY <1>14, <1>23, <1>26, <1>27, <1>28
     DEF Enabled, SameRegisters, FDC_DMA_CHANNEL, SectorBytes

-----------------------------------------------------------------------------
(* Sector numbers.                                                         *)

LEMMA Division ==
    ASSUME NEW a \in Nat, NEW b \in Nat \ {0}
    PROVE  /\ a \div b \in Nat /\ a % b \in Nat
           /\ a % b < b
           /\ a = b * (a \div b) + (a % b)
  BY Z3

LEMMA RemainderUnique ==
    ASSUME NEW b \in Nat \ {0}, NEW k \in Nat, NEW l \in Nat,
           NEW r \in Nat, NEW s \in Nat, r < b, s < b, b * k + r = b * l + s
    PROVE  r = s
<1>1. CASE k = l
  BY <1>1, Z3
<1>2. ASSUME NEW x \in Nat, NEW y \in Nat, NEW u \in Nat, NEW v \in Nat,
             u < b, x < y, b * x + u = b * y + v
      PROVE  FALSE
  <2>1. PICK d \in Nat : y = x + 1 + d
    BY <1>2, Z3
  <2>2. b * y = b * x + b + b * d /\ b * d \in Nat
    BY <2>1, Z3
  <2> QED
    BY <1>2, <2>2, Z3
<1>3. k < l \/ l < k \/ k = l
  BY Z3
<1> QED
  BY <1>1, <1>2, <1>3

\* The address of a sector on the disk gives its number back.
LEMMA AddressOfSector ==
    ASSUME NEW lba \in Sectors
    PROVE  /\ Track(lba) \in 0 .. MaxCylinder /\ Head(lba) \in Nat /\ Sector(lba) \in Nat
           /\ (Track(lba) * 2 + Head(lba)) * SectorsPerTrack + Sector(lba) - 1 = lba
<1> DEFINE S == SectorsPerTrack
<1>1. /\ lba \in Nat /\ S \in Nat \ {0} /\ S * 2 \in Nat \ {0}
      /\ MaxCylinder \in Nat /\ MaxCylinder < 256 /\ lba < (S * 2) * (MaxCylinder + 1)
  BY FloppyAssumption, LayoutAssumption, SMT DEF FloppyAssumption, LayoutAssumption
<1> HIDE DEF S
<1>2. PICK t, m : t = lba \div (S * 2) /\ m = lba % (S * 2)
  OBVIOUS
<1>3. PICK h, s, r : h = m \div S /\ s = m % S /\ r = lba % S
  OBVIOUS
<1>4. /\ t \in Nat /\ m \in Nat /\ m < S * 2 /\ lba = (S * 2) * t + m
  BY <1>1, <1>2, Division
<1>5. h \in Nat /\ s \in Nat /\ s < S /\ m = S * h + s
  BY <1>1, <1>3, <1>4, Division
<1>6. r \in Nat /\ r < S /\ lba = S * (lba \div S) + r /\ lba \div S \in Nat
  BY <1>1, <1>3, Division
<1>7. lba = S * (t * 2 + h) + s
  BY <1>1, <1>4, <1>5, Z3
<1>8. r = s
  <2>1. t * 2 + h \in Nat
    BY <1>4, <1>5, SMT
  <2>2. S * (lba \div S) + r = S * (t * 2 + h) + s
    BY <1>6, <1>7
  <2> QED
    BY <1>1, <1>5, <1>6, <2>1, <2>2, RemainderUnique
<1>9. t <= MaxCylinder
  <2>1. SUFFICES ASSUME t >= MaxCylinder + 1 PROVE FALSE
    BY <1>1, <1>4, SMT
  <2>2. (S * 2) * t >= (S * 2) * (MaxCylinder + 1)
    BY <1>1, <1>4, <2>1, Z3
  <2>3. (S * 2) * t \in Nat /\ (S * 2) * (MaxCylinder + 1) \in Nat
    BY <1>1, <1>4, Z3
  <2> QED
    BY <1>1, <1>4, <2>2, <2>3, SMT
<1>10. t % 256 = t
  BY <1>1, <1>4, <1>9, SMT
<1>11. Track(lba) = t /\ Head(lba) = h /\ Sector(lba) = r + 1
  BY <1>2, <1>3, <1>10 DEF Track, Head, Sector, S
<1>12. (t * 2 + h) * S + (r + 1) - 1 = lba
  BY <1>1, <1>4, <1>5, <1>7, <1>8, Z3
<1>13. t \in 0 .. MaxCylinder /\ r + 1 \in Nat
  BY <1>1, <1>4, <1>6, <1>9, SMT
<1> QED
  BY <1>5, <1>11, <1>12, <1>13 DEF S

-----------------------------------------------------------------------------
(* The inductive invariant.  It says what the driver has told the          *)
(* controller at each point of its program, and what the answer will be.   *)

Waits == {"sense", "calibrated", "sought", "status"}

\* The driver is at label, or waits for the interrupt that brings it there.
At(label) == pc = label \/ (pc \in {"wait", "clear"} /\ back = label)

\* TypeOK, and the operands of the controller's command.
Typed ==
    /\ TypeOK
    /\ fdc \in [cmd : {"none", "reset", "calibrate", "seek", "read"},
                cyl : Nat, head : Nat, sector : Nat]

\* Of the command, the request of an interrupt and the flag, exactly one is there
\* during a wait, and none outside of waits.
OneOutstanding ==
    /\ pc \notin {"wait", "clear"} => fdc.cmd = "none" /\ ~irq /\ ~floppyDiskIRQ
    /\ pc = "clear" => back \in Waits /\ fdc.cmd = "none" /\ ~irq /\ floppyDiskIRQ
    /\ pc = "wait" =>
           /\ back \in Waits
           /\ \/ fdc.cmd # "none" /\ ~irq /\ ~floppyDiskIRQ
              \/ fdc.cmd = "none" /\ irq /\ ~floppyDiskIRQ
              \/ fdc.cmd = "none" /\ ~irq /\ floppyDiskIRQ

\* What the driver waits for is what it has sent.
CommandOfWait ==
    fdc.cmd # "none" =>
        /\ back = "sense" => fdc = Command("reset", 0, 0, 0)
        /\ back = "calibrated" => fdc = Command("calibrate", 0, 0, 0)
        /\ back = "sought" => fdc = Command("seek", Track(request), Head(request), 0)
        /\ back = "status" =>
               fdc = Command("read", Track(request), Head(request), Sector(request))

\* The digital output register.
Motor ==
    /\ At("sense") => dor = {"reset", "dma"}
    /\ pc = "calibrate" \/ At("calibrated") => dor = MotorOn
    /\ pc \in {"seek", "transfer"} \/ At("sought") \/ At("status") => dor = MotorOn
    /\ pc \in {"idle", "enter"} /\ ~failed => "motor" \notin dor

\* Who waits for the driver: nobody while it is installed, then one caller.
Caller ==
    /\ ~installed => /\ pc = "reset" \/ At("sense") \/ pc = "calibrate" \/ At("calibrated")
                     /\ reply = Null /\ request = Junk /\ lastReadSector = -1 /\ ~failed
    /\ installed /\ pc # "idle" => reply = Pending /\ request \in Sectors
    /\ installed /\ pc \notin {"idle", "enter"} => lastReadSector = request
    /\ pc = "idle" => installed /\ reply # Pending

\* The channel is open for the sector while it is read.
ChannelOpen ==
    fdc.cmd = "read" =>
        /\ Enabled(dma, FDC_DMA_CHANNEL) /\ IntoMemory(dma, FDC_DMA_CHANNEL)
        /\ TransferAddress(dma, FDC_DMA_CHANNEL) = DmaBuffer
        /\ TransferLength(dma, FDC_DMA_CHANNEL) = SectorBytes

\* As long as nothing has failed the buffer holds the sector that was read last.
Contents ==
    /\ pc \in {"idle", "enter"} /\ ~failed /\ lastReadSector # -1 => buffer = lastReadSector
    /\ At("status") /\ fdc.cmd = "none" /\ ~failed => buffer = request
    /\ pc = "idle" /\ ~failed => reply \in {request, Null}
    /\ ~stray

IInv ==
    /\ Typed /\ OneOutstanding /\ CommandOfWait /\ Motor /\ Caller /\ ChannelOpen /\ Contents

LEMMA BelowBound == \A n \in Nat \ {0}, t \in Nat : t < n => t \in 0 .. (n - 1)
BY SMT

LEMMA InitInvariant == Init => IInv
<1>1. 0 \in 0 .. (Tries - 1) /\ 0 \in 0 .. MaxMisses
  BY FloppyAssumption, BelowBound, SMT DEF FloppyAssumption
<1> SUFFICES ASSUME Init PROVE IInv
  OBVIOUS
<1>2. fdc = Idle /\ Idle \in [cmd : {"none", "reset", "calibrate", "seek", "read"},
                              cyl : Nat, head : Nat, sector : Nat]
  BY DEF Init, Idle
<1>3. dma \in Hardware
  BY FloppyAssumption DEF Init, FloppyAssumption
<1>4. TypeOK
  BY <1>1, <1>2, <1>3 DEF Init, TypeOK, Junk, Null, Pending, Idle
<1>5. OneOutstanding /\ CommandOfWait /\ Motor /\ Caller /\ ChannelOpen /\ Contents
  BY <1>2 DEF Init, OneOutstanding, CommandOfWait, Motor, Caller, ChannelOpen, Contents, At,
              Idle, Junk, Null, Pending
<1> QED
  BY <1>2, <1>4, <1>5 DEF IInv, Typed

LEMMA NextInvariant == IInv /\ [Next]_vars => IInv'
<1> SUFFICES ASSUME IInv, [Next]_vars PROVE IInv'
  OBVIOUS
<1> USE DEF Junk, Null, Pending, FloppyAssumption
<1>1. ASSUME NEW lba \in Sectors, Call(lba) PROVE IInv'
  <2>1. TypeOK'
    BY <1>1, FloppyAssumption DEF IInv, Typed, TypeOK, Motor, Caller, OneOutstanding, Waits, At,
       Call, Goto
  <2>2. Typed'
    BY <1>1, <2>1, FloppyAssumption DEF IInv, Typed, TypeOK, Caller, OneOutstanding,
       Call, Goto
  <2>3. OneOutstanding'
    BY <1>1, <2>1, FloppyAssumption
       DEF IInv, Typed, TypeOK, OneOutstanding, CommandOfWait, Motor, Caller, ChannelOpen, Contents,
         Waits, At,
           Call, Goto
  <2>4. CommandOfWait'
    BY <1>1, <2>1, FloppyAssumption
       DEF IInv, Typed, TypeOK, OneOutstanding, CommandOfWait, Motor, Caller, ChannelOpen, Contents,
         Waits, At,
           Call, Goto
  <2>5. Motor'
    BY <1>1, <2>1, FloppyAssumption
       DEF IInv, Typed, TypeOK, OneOutstanding, CommandOfWait, Motor, Caller, ChannelOpen, Contents,
         Waits, At,
           Call, Goto
  <2>6. Caller'
    BY <1>1, <2>1, FloppyAssumption
       DEF IInv, Typed, TypeOK, OneOutstanding, CommandOfWait, Motor, Caller, ChannelOpen, Contents,
         Waits, At,
           Call, Goto
  <2>7. ChannelOpen'
    BY <1>1, <2>1, FloppyAssumption
       DEF IInv, Typed, TypeOK, OneOutstanding, CommandOfWait, Motor, Caller, ChannelOpen, Contents,
         Waits, At,
           Call, Goto
  <2>8. Contents'
    BY <1>1, <2>1, FloppyAssumption
       DEF IInv, Typed, TypeOK, OneOutstanding, CommandOfWait, Motor, Caller, ChannelOpen, Contents,
         Waits, At,
           Call, Goto
  <2> QED
    BY <2>1, <2>2, <2>3, <2>4, <2>5, <2>6, <2>7, <2>8 DEF IInv
<1>2. ASSUME FloppyDriveReadSector PROVE IInv'
  BY <1>2, FloppyAssumption
     DEF IInv, Typed, TypeOK, OneOutstanding, CommandOfWait, Motor, Caller, ChannelOpen, Contents,
         Waits, At,
         FloppyDriveReadSector, Goto
<1>3. ASSUME FloppyDriveReset PROVE IInv'
  BY <1>3, FloppyAssumption
     DEF IInv, Typed, TypeOK, OneOutstanding, CommandOfWait, Motor, Caller, ChannelOpen, Contents,
         Waits, At,
         FloppyDriveReset, WaitThen, Command
<1>4. ASSUME FloppyDriveWaitForInterrupt PROVE IInv'
  <2>1. CASE pc = "wait"
    <3>1. pc' = "clear" /\ floppyDiskIRQ /\ UNCHANGED floppyDiskIRQ
      BY <1>4, <2>1 DEF FloppyDriveWaitForInterrupt, Goto
    <3>2. fdc.cmd = "none" /\ ~irq /\ back \in Waits
      BY <2>1, <3>1 DEF IInv, OneOutstanding
    <3>3. UNCHANGED <<back, installed, tries, request, reply, lastReadSector, dor, dma,
                      buffer, stray, irq, fdc, cylinder, misses, failed>>
      BY <1>4 DEF FloppyDriveWaitForInterrupt
    <3> QED
      BY <2>1, <3>1, <3>2, <3>3
         DEF IInv, Typed, TypeOK, OneOutstanding, CommandOfWait, Motor, Caller, ChannelOpen,
             Contents, Waits, At
  <2>2. CASE pc = "clear"
    <3>1. pc' = back /\ floppyDiskIRQ' = FALSE
      BY <1>4, <2>2 DEF FloppyDriveWaitForInterrupt, Goto
    <3>2. fdc.cmd = "none" /\ ~irq /\ back \in Waits
      BY <2>2 DEF IInv, OneOutstanding
    <3>3. UNCHANGED <<back, installed, tries, request, reply, lastReadSector, dor, dma,
                      buffer, stray, irq, fdc, cylinder, misses, failed>>
      BY <1>4 DEF FloppyDriveWaitForInterrupt
    <3> QED
      BY <2>2, <3>1, <3>2, <3>3
         DEF IInv, Typed, TypeOK, OneOutstanding, CommandOfWait, Motor, Caller, ChannelOpen,
             Contents, Waits, At
  <2> QED
    BY <1>4, <2>1, <2>2 DEF FloppyDriveWaitForInterrupt
<1>5. ASSUME SenseAndConfigure PROVE IInv'
  BY <1>5, FloppyAssumption
     DEF IInv, Typed, TypeOK, OneOutstanding, CommandOfWait, Motor, Caller, ChannelOpen, Contents,
         Waits, At,
         SenseAndConfigure, Goto, MotorOn
<1>6. ASSUME FloppyDriveCalibrate PROVE IInv'
  BY <1>6, FloppyAssumption
     DEF IInv, Typed, TypeOK, OneOutstanding, CommandOfWait, Motor, Caller, ChannelOpen, Contents,
         Waits, At,
         FloppyDriveCalibrate, SendCommand, WaitThen, Command
<1>7. ASSUME Calibrated PROVE IInv'
  <2>1. TypeOK'
    <3>1. tries' \in 0 .. (Tries - 1)
      <4>1. tries \in Nat /\ Tries \in Nat \ {0}
        BY FloppyAssumption, SMT DEF IInv, Typed, TypeOK
      <4>2. tries' = 0 \/ (tries' = tries + 1 /\ tries + 1 < Tries)
        BY <1>7 DEF Calibrated
      <4> QED
        BY <4>1, <4>2, BelowBound, SMT
    <3>2. dor' \subseteq {"reset", "dma", "motor"} /\ installed' \in BOOLEAN
      BY <1>7 DEF IInv, Typed, TypeOK, Calibrated, MotorOff
    <3>3. pc' \in {"calibrate", "motor", "idle"}
      BY <1>7 DEF Calibrated, Goto
    <3> QED
      BY <1>7, <3>1, <3>2, <3>3 DEF IInv, Typed, TypeOK, Calibrated
  <2>2. Typed'
    BY <1>7, <2>1, FloppyAssumption DEF IInv, Typed, TypeOK, Caller, OneOutstanding,
       Calibrated, Goto, MotorOn, MotorOff
  <2>3. OneOutstanding'
    BY <1>7, <2>1, FloppyAssumption
       DEF IInv, Typed, TypeOK, OneOutstanding, CommandOfWait, Motor, Caller, ChannelOpen, Contents,
         Waits, At,
           Calibrated, Goto, MotorOn, MotorOff
  <2>4. CommandOfWait'
    BY <1>7, <2>1, FloppyAssumption
       DEF IInv, Typed, TypeOK, OneOutstanding, CommandOfWait, Motor, Caller, ChannelOpen, Contents,
         Waits, At,
           Calibrated, Goto, MotorOn, MotorOff
  <2>5. Motor'
    BY <1>7, <2>1, FloppyAssumption
       DEF IInv, Typed, TypeOK, OneOutstanding, CommandOfWait, Motor, Caller, ChannelOpen, Contents,
         Waits, At,
           Calibrated, Goto, MotorOn, MotorOff
  <2>6. Caller'
    BY <1>7, <2>1, FloppyAssumption
       DEF IInv, Typed, TypeOK, OneOutstanding, CommandOfWait, Motor, Caller, ChannelOpen, Contents,
         Waits, At,
           Calibrated, Goto, MotorOn, MotorOff
  <2>7. ChannelOpen'
    BY <1>7, <2>1, FloppyAssumption
       DEF IInv, Typed, TypeOK, OneOutstanding, CommandOfWait, Motor, Caller, ChannelOpen, Contents,
         Waits, At,
           Calibrated, Goto, MotorOn, MotorOff
  <2>8. Contents'
    BY <1>7, <2>1, FloppyAssumption
       DEF IInv, Typed, TypeOK, OneOutstanding, CommandOfWait, Motor, Caller, ChannelOpen, Contents,
         Waits, At,
           Calibrated, Goto, MotorOn, MotorOff
  <2> QED
    BY <2>1, <2>2, <2>3, <2>4, <2>5, <2>6, <2>7, <2>8 DEF IInv
<1>8. ASSUME TurnMotorOn PROVE IInv'
  BY <1>8, FloppyAssumption
     DEF IInv, Typed, TypeOK, OneOutstanding, CommandOfWait, Motor, Caller, ChannelOpen, Contents,
         Waits, At,
         TurnMotorOn, Goto, MotorOn
<1>9. ASSUME FloppyDriveSeek PROVE IInv'
  <2>1. TypeOK'
    BY <1>9, FloppyAssumption DEF IInv, Typed, TypeOK, Motor, Caller, OneOutstanding, Waits, At,
       FloppyDriveSeek, SendCommand, WaitThen, Command
  <2>2. Typed'
    <3>1. request \in Sectors
      BY <1>9 DEF IInv, Caller, FloppyDriveSeek, SendCommand, At
    <3>2. Track(request) \in Nat /\ Head(request) \in Nat
      BY <3>1, FloppyAssumption, AddressOfSector, SMT
    <3> QED
      BY <1>9, <2>1, <3>2
         DEF IInv, Typed, FloppyDriveSeek, SendCommand, Command
  <2>3. OneOutstanding'
    BY <1>9, <2>1, FloppyAssumption
       DEF IInv, Typed, TypeOK, OneOutstanding, CommandOfWait, Motor, Caller, ChannelOpen, Contents,
         Waits, At,
           FloppyDriveSeek, SendCommand, WaitThen, Command
  <2>4. CommandOfWait'
    BY <1>9, <2>1, FloppyAssumption
       DEF IInv, Typed, TypeOK, OneOutstanding, CommandOfWait, Motor, Caller, ChannelOpen, Contents,
         Waits, At,
           FloppyDriveSeek, SendCommand, WaitThen, Command
  <2>5. Motor'
    BY <1>9, <2>1, FloppyAssumption
       DEF IInv, Typed, TypeOK, OneOutstanding, CommandOfWait, Motor, Caller, ChannelOpen, Contents,
         Waits, At,
           FloppyDriveSeek, SendCommand, WaitThen, Command
  <2>6. Caller'
    BY <1>9, <2>1, FloppyAssumption
       DEF IInv, Typed, TypeOK, OneOutstanding, CommandOfWait, Motor, Caller, ChannelOpen, Contents,
         Waits, At,
           FloppyDriveSeek, SendCommand, WaitThen, Command
  <2>7. ChannelOpen'
    BY <1>9, <2>1, FloppyAssumption
       DEF IInv, Typed, TypeOK, OneOutstanding, CommandOfWait, Motor, Caller, ChannelOpen, Contents,
         Waits, At,
           FloppyDriveSeek, SendCommand, WaitThen, Command
  <2>8. Contents'
    BY <1>9, <2>1, FloppyAssumption
       DEF IInv, Typed, TypeOK, OneOutstanding, CommandOfWait, Motor, Caller, ChannelOpen, Contents,
         Waits, At,
           FloppyDriveSeek, SendCommand, WaitThen, Command
  <2> QED
    BY <2>1, <2>2, <2>3, <2>4, <2>5, <2>6, <2>7, <2>8 DEF IInv
<1>10. ASSUME Sought PROVE IInv'
  <2>1. TypeOK'
    BY <1>10, FloppyAssumption DEF IInv, Typed, TypeOK, Motor, Caller, OneOutstanding, Waits, At,
       Sought, Goto
  <2>2. Typed'
    BY <1>10, <2>1, FloppyAssumption DEF IInv, Typed, TypeOK, Caller, OneOutstanding,
       Sought, Goto
  <2>3. OneOutstanding'
    BY <1>10, <2>1, FloppyAssumption
       DEF IInv, Typed, TypeOK, OneOutstanding, CommandOfWait, Motor, Caller, ChannelOpen, Contents,
         Waits, At,
           Sought, Goto
  <2>4. CommandOfWait'
    BY <1>10, <2>1, FloppyAssumption
       DEF IInv, Typed, TypeOK, OneOutstanding, CommandOfWait, Motor, Caller, ChannelOpen, Contents,
         Waits, At,
           Sought, Goto
  <2>5. Motor'
    BY <1>10, <2>1, FloppyAssumption
       DEF IInv, Typed, TypeOK, OneOutstanding, CommandOfWait, Motor, Caller, ChannelOpen, Contents,
         Waits, At,
           Sought, Goto
  <2>6. Caller'
    BY <1>10, <2>1, FloppyAssumption
       DEF IInv, Typed, TypeOK, OneOutstanding, CommandOfWait, Motor, Caller, ChannelOpen, Contents,
         Waits, At,
           Sought, Goto
  <2>7. ChannelOpen'
    BY <1>10, <2>1, FloppyAssumption
       DEF IInv, Typed, TypeOK, OneOutstanding, CommandOfWait, Motor, Caller, ChannelOpen, Contents,
         Waits, At,
           Sought, Goto
  <2>8. Contents'
    BY <1>10, <2>1, FloppyAssumption
       DEF IInv, Typed, TypeOK, OneOutstanding, CommandOfWait, Motor, Caller, ChannelOpen, Contents,
         Waits, At,
           Sought, Goto
  <2> QED
    BY <2>1, <2>2, <2>3, <2>4, <2>5, <2>6, <2>7, <2>8 DEF IInv
<1>11. ASSUME FloppyDriveReadSectorHTS PROVE IInv'
  <2>1. TypeOK'
    <3>1. /\ dma \in Hardware
          /\ DmaBuffer \in Nat /\ DmaBuffer + SectorBytes <= 65536
      BY FloppyAssumption, LayoutAssumption, SMT DEF IInv, Typed, TypeOK, LayoutAssumption, SectorBytes
    <3>2. dma' \in Hardware
      BY <1>11, <3>1, ChannelProgrammed DEF FloppyDriveReadSectorHTS
    <3>3. fdc'.cmd = "read"
      BY <1>11 DEF FloppyDriveReadSectorHTS, SendCommand, Command
    <3> HIDE DEF FloppyAssumption
    <3> QED
      BY <1>11, <3>2, <3>3
         DEF IInv, Typed, TypeOK, FloppyDriveReadSectorHTS, SendCommand, WaitThen
  <2>2. Typed'
    <3>1. request \in Sectors
      BY <1>11 DEF IInv, Caller, FloppyDriveReadSectorHTS, SendCommand, At
    <3>2. Track(request) \in Nat /\ Head(request) \in Nat /\ Sector(request) \in Nat
      BY <3>1, FloppyAssumption, AddressOfSector, SMT
    <3> QED
      BY <1>11, <2>1, <3>2
         DEF IInv, Typed, FloppyDriveReadSectorHTS, SendCommand, Command
  <2>3. OneOutstanding'
    BY <1>11, <2>1, FloppyAssumption
       DEF IInv, Typed, TypeOK, OneOutstanding, CommandOfWait, Motor, Caller, ChannelOpen, Contents,
         Waits, At,
           FloppyDriveReadSectorHTS, SendCommand, WaitThen, Command
  <2>4. CommandOfWait'
    BY <1>11, <2>1, FloppyAssumption
       DEF IInv, Typed, TypeOK, OneOutstanding, CommandOfWait, Motor, Caller, ChannelOpen, Contents,
         Waits, At,
           FloppyDriveReadSectorHTS, SendCommand, WaitThen, Command
  <2>5. Motor'
    BY <1>11, <2>1, FloppyAssumption
       DEF IInv, Typed, TypeOK, OneOutstanding, CommandOfWait, Motor, Caller, ChannelOpen, Contents,
         Waits, At,
           FloppyDriveReadSectorHTS, SendCommand, WaitThen, Command
  <2>6. Caller'
    BY <1>11, <2>1, FloppyAssumption
       DEF IInv, Typed, TypeOK, OneOutstanding, CommandOfWait, Motor, Caller, ChannelOpen, Contents,
         Waits, At,
           FloppyDriveReadSectorHTS, SendCommand, WaitThen, Command
  <2>7. ChannelOpen'
    <3>1. /\ dma \in Hardware
          /\ DmaBuffer \in Nat /\ DmaBuffer + SectorBytes <= 65536
      BY FloppyAssumption, LayoutAssumption, SMT DEF IInv, Typed, TypeOK, LayoutAssumption, SectorBytes
    <3>2. dma' = ProgramChannel(dma)
      BY <1>11 DEF FloppyDriveReadSectorHTS
    <3> QED
      BY <3>1, <3>2, ChannelProgrammed DEF ChannelOpen
  <2>8. Contents'
    BY <1>11, <2>1, FloppyAssumption
       DEF IInv, Typed, TypeOK, OneOutstanding, CommandOfWait, Motor, Caller, ChannelOpen, Contents,
         Waits, At,
           FloppyDriveReadSectorHTS, SendCommand, WaitThen, Command
  <2> QED
    BY <2>1, <2>2, <2>3, <2>4, <2>5, <2>6, <2>7, <2>8 DEF IInv
<1>12. ASSUME ReadStatusInfo PROVE IInv'
  BY <1>12, FloppyAssumption
     DEF IInv, Typed, TypeOK, OneOutstanding, CommandOfWait, Motor, Caller, ChannelOpen, Contents,
         Waits, At,
         ReadStatusInfo, Goto, MotorOff
<1>13. ASSUME I86_FloppyDriveInterruptHandler PROVE IInv'
  BY <1>13, FloppyAssumption
     DEF IInv, Typed, TypeOK, OneOutstanding, CommandOfWait, Motor, Caller, ChannelOpen, Contents,
         Waits, At,
         I86_FloppyDriveInterruptHandler, driverVars
<1>14. ASSUME ControllerResets PROVE IInv'
  <2>1. TypeOK'
    BY <1>14, FloppyAssumption DEF IInv, Typed, TypeOK, Motor, Caller, OneOutstanding, Waits, At,
       ControllerResets, Complete, driverVars, Idle
  <2>2. Typed'
    BY <1>14, <2>1, FloppyAssumption DEF IInv, Typed, TypeOK, Caller, OneOutstanding,
       ControllerResets, Complete, driverVars, Idle
  <2>3. OneOutstanding'
    <3>1. pc = "wait" /\ back \in Waits /\ ~irq /\ ~floppyDiskIRQ
      BY <1>14 DEF IInv, OneOutstanding, ControllerResets
    <3>2. dor \in {{"reset", "dma"}, MotorOn}
      BY <3>1 DEF IInv, Motor, Waits, At
    <3>3. "dma" \in dor
      BY <3>2 DEF MotorOn
    <3>4. irq' /\ ~floppyDiskIRQ' /\ fdc'.cmd = "none" /\ pc' = pc /\ back' = back
      BY <1>14, <3>1, <3>3 DEF ControllerResets, Complete, driverVars, Idle
    <3> QED
      BY <3>1, <3>4 DEF OneOutstanding
  <2>4. CommandOfWait'
    BY <1>14, <2>1, FloppyAssumption
       DEF IInv, Typed, TypeOK, OneOutstanding, CommandOfWait, Motor, Caller, ChannelOpen, Contents,
         Waits, At,
           ControllerResets, Complete, driverVars, Idle
  <2>5. Motor'
    BY <1>14, <2>1, FloppyAssumption
       DEF IInv, Typed, TypeOK, OneOutstanding, CommandOfWait, Motor, Caller, ChannelOpen, Contents,
         Waits, At,
           ControllerResets, Complete, driverVars, Idle
  <2>6. Caller'
    BY <1>14, <2>1, FloppyAssumption
       DEF IInv, Typed, TypeOK, OneOutstanding, CommandOfWait, Motor, Caller, ChannelOpen, Contents,
         Waits, At,
           ControllerResets, Complete, driverVars, Idle
  <2>7. ChannelOpen'
    BY <1>14, <2>1, FloppyAssumption
       DEF IInv, Typed, TypeOK, OneOutstanding, CommandOfWait, Motor, Caller, ChannelOpen, Contents,
         Waits, At,
           ControllerResets, Complete, driverVars, Idle
  <2>8. Contents'
    <3>1. pc = "wait" /\ back # "status"
      BY <1>14 DEF IInv, OneOutstanding, CommandOfWait, ControllerResets, Command
    <3> QED
      BY <1>14, <3>1 DEF IInv, Contents, At, ControllerResets, Complete, driverVars
  <2> QED
    BY <2>1, <2>2, <2>3, <2>4, <2>5, <2>6, <2>7, <2>8 DEF IInv
<1>15. ASSUME HeadMoves PROVE IInv'
  <2>1. /\ pc = "wait" /\ back \in {"calibrated", "sought"} /\ ~floppyDiskIRQ
        /\ dor = MotorOn
    BY <1>15 DEF IInv, OneOutstanding, CommandOfWait, Motor, HeadMoves, Command, Waits, At
  <2>2. irq' = TRUE /\ fdc' = Idle /\ UNCHANGED <<driverVars, floppyDiskIRQ, dor, dma, buffer, stray, failed>>
    BY <1>15, <2>1 DEF HeadMoves, Complete, MotorOn
  <2>3. fdc.cyl \in 0 .. MaxCylinder
    <3>1. CASE back = "calibrated"
      BY <1>15, <2>1, <3>1, FloppyAssumption, SMT DEF IInv, CommandOfWait, HeadMoves, Command
    <3>2. CASE back = "sought"
      <4>1. request \in Sectors
        BY <2>1, <3>2 DEF IInv, Caller, At
      <4>2. fdc.cyl = Track(request)
        BY <1>15, <2>1, <3>2 DEF IInv, CommandOfWait, HeadMoves, Command
      <4> QED
        BY <4>1, <4>2, AddressOfSector
    <3> QED
      BY <2>1, <3>1, <3>2
  <2>4. cylinder' \in 0 .. MaxCylinder /\ misses' \in 0 .. MaxMisses
    <3>1. misses \in 0 .. MaxMisses /\ MaxMisses \in Nat
      BY FloppyAssumption DEF IInv, Typed, TypeOK
    <3>2. misses' = 0 \/ (misses < MaxMisses /\ misses' = misses + 1)
      BY <1>15 DEF HeadMoves
    <3>3. cylinder' = fdc.cyl \/ cylinder' \in (0 .. MaxCylinder) \ {fdc.cyl}
      BY <1>15 DEF HeadMoves
    <3>4. misses' \in 0 .. MaxMisses
      BY <3>1, <3>2, SMT
    <3> QED
      BY <2>3, <3>3, <3>4
  <2>5. Idle \in [cmd : {"none", "reset", "calibrate", "seek", "read"},
                  cyl : Nat, head : Nat, sector : Nat] /\ Idle.cmd = "none"
    BY DEF Idle
  <2>6. Typed'
    BY <2>2, <2>4, <2>5 DEF IInv, Typed, TypeOK, driverVars
  <2>7. OneOutstanding' /\ CommandOfWait' /\ Motor' /\ Caller' /\ ChannelOpen'
    BY <2>1, <2>2, <2>5
       DEF IInv, OneOutstanding, CommandOfWait, Motor, Caller, ChannelOpen, driverVars, Waits, At
  <2>8. Contents'
    BY <2>1, <2>2 DEF IInv, Contents, driverVars, At
  <2> QED
    BY <2>6, <2>7, <2>8 DEF IInv
<1>16. ASSUME ControllerReads PROVE IInv'
  <2>1. /\ pc = "wait" /\ back = "status" /\ ~floppyDiskIRQ /\ dor = MotorOn
        /\ fdc = Command("read", Track(request), Head(request), Sector(request))
    BY <1>16 DEF IInv, OneOutstanding, CommandOfWait, Motor, ControllerReads, Command, Waits, At
  <2>2. request \in Sectors /\ installed
    BY <2>1 DEF IInv, Caller, At
  <2>3. /\ irq' = TRUE /\ fdc' = Idle
        /\ UNCHANGED <<driverVars, floppyDiskIRQ, dor, dma, cylinder, misses>>
    BY <1>16, <2>1 DEF ControllerReads, Complete, MotorOn
  <2>4. (fdc.cyl * 2 + fdc.head) * SectorsPerTrack + fdc.sector - 1 = request
    BY <2>1, <2>2, AddressOfSector DEF Command
  <2>5. \/ failed' = FALSE /\ buffer' = request /\ UNCHANGED stray
        \/ failed' = TRUE /\ UNCHANGED <<buffer, stray>>
    BY <1>16, <2>4 DEF IInv, ChannelOpen, ControllerReads, TransferSector
  <2>6. Idle \in [cmd : {"none", "reset", "calibrate", "seek", "read"},
                  cyl : Nat, head : Nat, sector : Nat] /\ Idle.cmd = "none"
    BY DEF Idle
  <2>7. Typed'
    BY <2>2, <2>3, <2>5, <2>6 DEF IInv, Typed, TypeOK, driverVars
  <2>8. OneOutstanding' /\ CommandOfWait' /\ Motor' /\ Caller' /\ ChannelOpen'
    BY <2>1, <2>2, <2>3, <2>6
       DEF IInv, OneOutstanding, CommandOfWait, Motor, Caller, ChannelOpen, driverVars, Waits, At
  <2>9. Contents'
    BY <2>1, <2>3, <2>5 DEF IInv, Contents, driverVars, At
  <2> QED
    BY <2>7, <2>8, <2>9 DEF IInv
<1>17. CASE UNCHANGED vars
  BY <1>17 DEF IInv, Typed, TypeOK, OneOutstanding, CommandOfWait, Motor, Caller, ChannelOpen, Contents,
         Waits, At,
         vars, driverVars
<1> QED
  BY <1>1, <1>2, <1>3, <1>4, <1>5, <1>6, <1>7, <1>8, <1>9, <1>10, <1>11, <1>12, <1>13, <1>14, <1>15, <1>16, <1>17 DEF Next, Driver, Controller

LEMMA Invariance == Spec => []IInv
BY InitInvariant, NextInvariant, PTL DEF Spec

-----------------------------------------------------------------------------
(* The properties of FloppyDisk that no liveness is needed for.            *)

\* Every variable keeps its type: among others, the buffer only ever holds a
\* sector that a caller asked for, the conversion to cylinder, head and sector
\* being exact (404-410).
THEOREM TypeCorrect == Spec => []TypeOK
<1>1. IInv => TypeOK
  BY DEF IInv, Typed
<1> QED
  BY <1>1, Invariance, PTL

\* The flag of the interrupt, cleared in a second statement (186-190), is never
\* cleared for an interrupt that comes between the two, and no wait is ended by
\* the interrupt of another command.
THEOREM InterruptsAreMatched == Spec => [](WaitsEndInTime /\ NoInterruptOutstanding)
<1>1. IInv => WaitsEndInTime /\ NoInterruptOutstanding
  BY DEF IInv, OneOutstanding, WaitsEndInTime, NoInterruptOutstanding
<1> QED
  BY <1>1, Invariance, PTL

\* While the controller has a command its interrupts are gated on, and the motor
\* turns unless it is being reset (221-259).
THEOREM GateOpen == Spec => []GateOpenWhileWaiting
<1>1. IInv => GateOpenWhileWaiting
  <2>1. SUFFICES ASSUME IInv, fdc.cmd # "none" PROVE GateOpenWhileWaiting
    BY DEF GateOpenWhileWaiting
  <2>2. pc = "wait" /\ back \in Waits
    BY <2>1 DEF IInv, OneOutstanding
  <2>3. CASE back = "sense"
    BY <2>1, <2>2, <2>3
       DEF IInv, CommandOfWait, Motor, At, Command, GateOpenWhileWaiting
  <2>4. CASE back # "sense"
    BY <2>1, <2>2, <2>4 DEF IInv, Motor, At, Waits, MotorOn, GateOpenWhileWaiting
  <2> QED
    BY <2>3, <2>4
<1> QED
  BY <1>1, Invariance, PTL

\* Whatever state the BIOS left the DMA controllers in, no transfer writes
\* outside the buffer (110-137).
THEOREM NoStrayTransfer == Spec => []TransfersStayInBuffer
<1>1. IInv => TransfersStayInBuffer
  BY DEF IInv, Contents, TransfersStayInBuffer
<1> QED
  BY <1>1, Invariance, PTL

\* Until something fails, and again after the next transfer, a caller gets the
\* sector it asked for, and finds the motor off.
THEOREM RepliesCorrect == Spec => [](RepliesAreRequested /\ MotorOffWhenIdle)
<1>1. IInv => RepliesAreRequested /\ MotorOffWhenIdle
  BY DEF IInv, Contents, Motor, RepliesAreRequested, MotorOffWhenIdle
<1> QED
  BY <1>1, Invariance, PTL

-----------------------------------------------------------------------------
(* The driver implements SectorReader, step by step.                       *)

LEMMA InitRefines == Init => Contract!Init
BY DEF Init, Contract!Init, Junk, Null, Contract!Junk, Contract!Null

LEMMA NextRefines == IInv /\ [Next]_vars => [Contract!Next]_(Contract!vars)
<1> SUFFICES ASSUME IInv, [Next]_vars PROVE [Contract!Next]_(Contract!vars)
  OBVIOUS
<1> USE DEF Junk, Null, Pending, Contract!Junk, Contract!Null, Contract!Pending
<1>1. ASSUME NEW lba \in Sectors, Call(lba) PROVE Contract!Next
  BY <1>1 DEF IInv, Caller, Call, Contract!Next, Contract!Request
<1>2. ASSUME FloppyDriveReadSector PROVE [Contract!Next]_(Contract!vars)
  <2>1. CASE request = lastReadSector
    <3>1. reply = Pending /\ reply' = buffer /\ UNCHANGED <<request, failed>>
      BY <1>2, <2>1 DEF IInv, Caller, FloppyDriveReadSector, At
    <3>2. buffer \in IF failed THEN Sectors \cup {Junk} ELSE {request}
      BY <1>2, <2>1, FloppyAssumption
         DEF FloppyAssumption, IInv, Typed, TypeOK, Caller, Contents, FloppyDriveReadSector, At
    <3> QED
      BY <3>1, <3>2 DEF Contract!Next, Contract!Answer, Contract!Deliver
  <2>2. CASE request # lastReadSector
    BY <1>2, <2>2 DEF FloppyDriveReadSector, Contract!vars
  <2> QED
    BY <2>1, <2>2
<1>3. ASSUME Sought PROVE [Contract!Next]_(Contract!vars)
  <2>1. CASE UNCHANGED <<reply, failed>>
    BY <1>3, <2>1 DEF Sought, Contract!vars
  <2>2. CASE reply' = Null /\ failed' = TRUE
    <3>1. reply = Pending /\ UNCHANGED request
      BY <1>3 DEF IInv, Caller, Sought, At
    <3> QED
      BY <2>2, <3>1 DEF Contract!Next, Contract!Answer, Contract!Refuse
  <2> QED
    BY <1>3, <2>1, <2>2 DEF Sought
<1>4. ASSUME ReadStatusInfo PROVE Contract!Next
  <2>1. reply = Pending /\ reply' = buffer /\ UNCHANGED <<request, failed>>
    BY <1>4 DEF IInv, Caller, ReadStatusInfo, At
  <2>2. buffer \in IF failed THEN Sectors \cup {Junk} ELSE {request}
    BY <1>4 DEF IInv, Typed, TypeOK, OneOutstanding, Contents, ReadStatusInfo, At
  <2> QED
    BY <2>1, <2>2 DEF Contract!Next, Contract!Answer, Contract!Deliver
<1>5. ASSUME ControllerReads PROVE Contract!Next
  <2>1. pc = "wait" /\ back = "status"
    BY <1>5 DEF IInv, OneOutstanding, CommandOfWait, Command, Waits, ControllerReads
  <2>2. reply = Pending
    BY <2>1 DEF IInv, Caller, At
  <2>3. failed' \in BOOLEAN /\ UNCHANGED <<request, reply>>
    BY <1>5 DEF ControllerReads, Complete, driverVars
  <2> QED
    BY <2>2, <2>3 DEF Contract!Next, Contract!Transfer
<1>6. ASSUME \/ FloppyDriveReset \/ FloppyDriveWaitForInterrupt \/ SenseAndConfigure
             \/ Calibrated \/ TurnMotorOn
      PROVE  UNCHANGED Contract!vars
  BY <1>6 DEF FloppyDriveReset, FloppyDriveWaitForInterrupt, SenseAndConfigure, Calibrated,
              TurnMotorOn, Contract!vars
<1>7. ASSUME FloppyDriveCalibrate \/ FloppyDriveSeek \/ FloppyDriveReadSectorHTS
      PROVE  UNCHANGED Contract!vars
  BY <1>7 DEF FloppyDriveCalibrate, FloppyDriveSeek, FloppyDriveReadSectorHTS, SendCommand,
              Contract!vars
<1>8. ASSUME I86_FloppyDriveInterruptHandler \/ ControllerResets \/ HeadMoves \/ UNCHANGED vars
      PROVE  UNCHANGED Contract!vars
  BY <1>8 DEF I86_FloppyDriveInterruptHandler, ControllerResets, HeadMoves, Complete, driverVars,
              vars, Contract!vars
<1> QED
  BY <1>1, <1>2, <1>3, <1>4, <1>5, <1>6, <1>7, <1>8 DEF Next, Driver, Controller

\* Every step of the driver, of its handler and of the controller is a request, a
\* transfer, an answer or nothing to the caller: FloppyDriveReadSector (437-472)
\* keeps its contract, but for its promise to answer.
THEOREM ImplementsSectorReader == Spec => ContractSafety
BY InitRefines, NextRefines, Invariance, PTL DEF Spec, ContractSafety

=============================================================================
