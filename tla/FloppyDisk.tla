----------------------------- MODULE FloppyDisk -----------------------------
(***************************************************************************)
(* The floppy driver (src/kernel/floppydisk.c): a program that sends       *)
(* commands to the controller and waits, in a loop around HAL_Sleep, for a *)
(* flag that its interrupt handler sets; the controller and the handler    *)
(* run beside it.                                                          *)
(*                                                                         *)
(* pc is the point the driver has reached; each step runs up to the next   *)
(* one at which it depends on the controller or on the handler.            *)
(***************************************************************************)
EXTENDS Integers, Dma

CONSTANTS
    Sectors,            \* the sector numbers (LBA) callers ask for
    SectorsPerTrack,    \* FLPY_SECTORS_PER_TRACK
    MaxCylinder,        \* bound: the cylinders the head may stand on
    Tries,              \* the attempts of a calibration or a seek
    DmaBuffer,          \* DMA_BUFFER
    BootDma,            \* the states the BIOS may leave the DMA controllers in
    MaxMisses,          \* bound: consecutive calibrations or seeks that miss
    ReadsMayFail        \* the controller may report a failed read

ASSUME FloppyAssumption ==
    /\ Sectors \subseteq Nat /\ SectorsPerTrack \in Nat \ {0}
    /\ MaxCylinder \in Nat /\ Tries \in Nat \ {0} /\ MaxMisses \in Nat
    /\ DmaBuffer \in Nat /\ BootDma \subseteq Hardware /\ ReadsMayFail \in BOOLEAN

\* DMA_BUFFER is 0x8000, in page 0; the sectors asked for are on the disk, whose
\* cylinders have two sides and are numbered in a byte.
ASSUME LayoutAssumption ==
    /\ DmaBuffer + 512 <= 65536 /\ MaxCylinder < 256
    /\ \A lba \in Sectors : lba < (SectorsPerTrack * 2) * (MaxCylinder + 1)

VARIABLES
    pc,                 \* where the driver is
    back,               \* where FloppyDriveWaitForInterrupt returns to
    installed,          \* FloppyDriveInstall has returned
    tries,              \* i of the loop in Calibrate or Seek
    request,            \* the argument of FloppyDriveReadSector
    reply,              \* what it returned
    lastReadSector,
    floppyDiskIRQ,      \* _FloppyDiskIRQ
    dor,                \* the bits of the digital output register that are set
    dma,                \* the DMA controllers and the page registers
    buffer,             \* the contents of the 512 bytes at DmaBuffer
    stray,              \* a transfer has written somewhere else
    irq,                \* an interrupt request is latched, not yet served
    fdc,                \* the controller's command: [cmd, cyl, head, sector]
    cylinder,           \* where the head stands
    misses,             \* consecutive calibrations or seeks that missed
    failed              \* the last seek or read that FloppyDriveReadSector
                        \* made has failed: what the properties look back at

driverVars == <<pc, back, installed, tries, request, reply, lastReadSector>>
vars == <<driverVars, floppyDiskIRQ, dor, dma, buffer, stray, irq, fdc, cylinder, misses, failed>>

Junk == -1              \* what no sector contains
Null == -2              \* a null pointer
Pending == -3           \* no answer yet

Idle == [cmd |-> "none", cyl |-> 0, head |-> 0, sector |-> 0]

Command(name, cyl, head, sector) ==
    [cmd |-> name, cyl |-> cyl, head |-> head, sector |-> sector]

-----------------------------------------------------------------------------
(* Values the driver computes.                                             *)

\* A faulty head number, without the reduction to a cylinder.
HeadOfDisk(lba) == lba \div SectorsPerTrack

\* FloppyDriveLBAToCHS, and the casts to uint8_t of its callers.
Head(lba) == (lba % (SectorsPerTrack * 2)) \div SectorsPerTrack
Track(lba) == (lba \div (SectorsPerTrack * 2)) % 256
Sector(lba) == (lba % SectorsPerTrack) + 1

FDC_DMA_CHANNEL == 2
SectorBytes == 512

\* FloppyDriveDMAInitialise refuses an address of 16 MB or more and a transfer
\* that crosses a boundary of 64 KB.
DMAAccepts(addr, length) ==
    addr \div 16777216 = 0 /\ (addr % 65536) + length - 1 < 65536

\* Otherwise it programs the low half of the address, the length less one, and
\* page 0, with the channel masked meanwhile.
FloppyDriveDMAInitialise(d, addr, length) ==
    LET low(n) == n % 256
        high(n) == (n \div 256) % 256
        masked == DMA_ResetFlipflop(DMA_MaskChannel(DMA_Reset(d, 1), FDC_DMA_CHANNEL), 1)
        addressed == DMA_ResetFlipflop(
                         DMA_SetAddress(masked, FDC_DMA_CHANNEL, low(addr), high(addr)), 1)
        counted == DMA_SetCount(addressed, FDC_DMA_CHANNEL, low(length - 1), high(length - 1))
    IN  IF DMAAccepts(addr, length)
        THEN DMA_UnmaskChannel(DMA_SetExternalPageRegister(counted, 2, 0), FDC_DMA_CHANNEL)
        ELSE d

\* What FloppyDriveReadSectorHTS does to the controllers; that the buffer was
\* refused is not looked at.
ProgramChannel(d) ==
    DMA_SetRead(FloppyDriveDMAInitialise(d, DmaBuffer, SectorBytes), FDC_DMA_CHANNEL)

\* A faulty value for the motor: the gate of the interrupts stays closed.
MotorOnWithoutDma == {"reset", "motor"}

\* FloppyDriveControlMotor: on selects the drive, its motor, RESET and DMA (the
\* bit that lets the controller interrupt); off leaves RESET alone.
MotorOn == {"reset", "dma", "motor"}
MotorOff == {"reset"}

-----------------------------------------------------------------------------
(* The driver.                                                             *)

Goto(label) == pc' = label

WaitThen(label) == pc' = "wait" /\ back' = label

Init ==
    /\ pc = "reset" /\ back = "none" /\ installed = FALSE /\ tries = 0
    /\ request = Junk /\ reply = Null /\ lastReadSector = -1
    /\ floppyDiskIRQ = FALSE
    /\ dor = {} /\ dma \in BootDma /\ buffer = Junk /\ stray = FALSE
    /\ irq = FALSE /\ fdc = Idle /\ misses = 0 /\ failed = FALSE
    /\ cylinder \in 0 .. MaxCylinder

\* A caller calls FloppyDriveReadSector.
Call(lba) ==
    /\ pc = "idle"
    /\ request' = lba /\ reply' = Pending
    /\ Goto("enter")
    /\ UNCHANGED <<back, installed, tries, lastReadSector, floppyDiskIRQ, dor, dma,
                   buffer, stray, irq, fdc, cylinder, misses, failed>>

\* A faulty cache, which compares tracks.
ReadSectorCachesTracks ==
    /\ pc = "enter"
    /\ \/ /\ lastReadSector # -1 /\ Track(request) = Track(lastReadSector)
          /\ reply' = buffer
          /\ Goto("idle")
          /\ UNCHANGED lastReadSector
       \/ /\ lastReadSector = -1 \/ Track(request) # Track(lastReadSector)
          /\ lastReadSector' = request
          /\ Goto("reset")
          /\ UNCHANGED reply
    /\ UNCHANGED <<back, installed, tries, request, floppyDiskIRQ, dor, dma, buffer,
                   stray, irq, fdc, cylinder, misses, failed>>

\* The sector read last is answered from the buffer; for any other one the
\* driver notes its number and resets the controller.
FloppyDriveReadSector ==
    /\ pc = "enter"
    /\ \/ /\ request = lastReadSector
          /\ reply' = buffer
          /\ Goto("idle")
          /\ UNCHANGED lastReadSector
       \/ /\ request # lastReadSector
          /\ lastReadSector' = request
          /\ Goto("reset")
          /\ UNCHANGED reply
    /\ UNCHANGED <<back, installed, tries, request, floppyDiskIRQ, dor, dma, buffer,
                   stray, irq, fdc, cylinder, misses, failed>>

\* A faulty reset, which does not wait for the interrupt it causes.
ResetWithoutWait ==
    /\ pc = "reset"
    /\ dor' = {"reset", "dma"}
    /\ fdc' = Command("reset", 0, 0, 0)
    /\ Goto("sense")
    /\ UNCHANGED <<back, installed, tries, request, reply, lastReadSector, floppyDiskIRQ,
                   dma, buffer, stray, irq, cylinder, misses, failed>>

\* FloppyDriveReset: DOR 0, then RESET and DMA, and the wait for the interrupt
\* that a reset ends with.
FloppyDriveReset ==
    /\ pc = "reset"
    /\ dor' = {"reset", "dma"}
    /\ fdc' = Command("reset", 0, 0, 0)
    /\ WaitThen("sense")
    /\ UNCHANGED <<installed, tries, request, reply, lastReadSector, floppyDiskIRQ,
                   dma, buffer, stray, irq, cylinder, misses, failed>>

\* FloppyDriveWaitForInterrupt: the loop ends when the flag is seen set; it is
\* cleared by a statement of its own.
FloppyDriveWaitForInterrupt ==
    /\ \/ /\ pc = "wait" /\ floppyDiskIRQ
          /\ Goto("clear")
          /\ UNCHANGED floppyDiskIRQ
       \/ /\ pc = "clear"
          /\ floppyDiskIRQ' = FALSE
          /\ Goto(back)
    /\ UNCHANGED <<back, installed, tries, request, reply, lastReadSector, dor, dma,
                   buffer, stray, irq, fdc, cylinder, misses, failed>>

\* The rest of FloppyDriveReset up to the calibration: sense the interrupt of
\* the four drives, configure, turn the motor on.
SenseAndConfigure ==
    /\ pc = "sense"
    /\ dor' = MotorOn
    /\ tries' = 0
    /\ Goto("calibrate")
    /\ UNCHANGED <<back, installed, request, reply, lastReadSector, floppyDiskIRQ, dma,
                   buffer, stray, irq, fdc, cylinder, misses, failed>>

\* FloppyDriveCalibrate and FloppyDriveSeek send a command and wait ...
SendCommand(label, command, after) ==
    /\ pc = label
    /\ fdc.cmd = "none"
    /\ fdc' = command
    /\ WaitThen(after)
    /\ UNCHANGED <<installed, tries, request, reply, lastReadSector, floppyDiskIRQ, dor,
                   buffer, stray, irq, cylinder, misses, failed>>

FloppyDriveCalibrate ==
    /\ SendCommand("calibrate", Command("calibrate", 0, 0, 0), "calibrated")
    /\ UNCHANGED dma

FloppyDriveSeek ==
    /\ SendCommand("seek", Command("seek", Track(request), Head(request), 0), "sought")
    /\ UNCHANGED dma

\* FloppyDriveReadSectorHTS: program the DMA controller, send the command.
FloppyDriveReadSectorHTS ==
    /\ SendCommand("transfer", Command("read", Track(request), Head(request),
                                       Sector(request)), "status")
    /\ dma' = ProgramChannel(dma)

\* ... and then ask where the head stands, up to Tries times.  Whether the
\* calibration succeeded is not looked at: the motor is turned off in both cases,
\* and FloppyDriveReadSector turns it on again; FloppyDriveInstall returns.
Calibrated ==
    /\ pc = "calibrated"
    /\ \/ /\ cylinder # 0 /\ tries + 1 < Tries
          /\ tries' = tries + 1
          /\ Goto("calibrate")
          /\ UNCHANGED <<dor, installed>>
       \/ /\ cylinder = 0 \/ tries + 1 = Tries
          /\ tries' = 0
          /\ dor' = MotorOff
          /\ installed' = TRUE
          /\ Goto(IF installed THEN "motor" ELSE "idle")
    /\ UNCHANGED <<back, request, reply, lastReadSector, floppyDiskIRQ, dma, buffer,
                   stray, irq, fdc, cylinder, misses, failed>>

\* A faulty one, which relies on the calibration to leave the motor on.
MotorLeftOff ==
    /\ pc = "motor"
    /\ Goto("seek")
    /\ UNCHANGED <<back, installed, tries, request, reply, lastReadSector, dor,
                   floppyDiskIRQ, dma, buffer, stray, irq, fdc, cylinder, misses, failed>>

\* Back in FloppyDriveReadSector.
TurnMotorOn ==
    /\ pc = "motor"
    /\ dor' = MotorOn
    /\ Goto("seek")
    /\ UNCHANGED <<back, installed, tries, request, reply, lastReadSector,
                   floppyDiskIRQ, dma, buffer, stray, irq, fdc, cylinder, misses, failed>>

\* A faulty count of the attempts: one more than there should be.
SoughtOnceMore ==
    /\ pc = "sought"
    /\ \/ /\ cylinder = Track(request)
          /\ Goto("transfer")
          /\ UNCHANGED <<tries, reply, failed>>
       \/ /\ cylinder # Track(request) /\ tries < Tries
          /\ tries' = tries + 1
          /\ Goto("seek")
          /\ UNCHANGED <<reply, failed>>
       \/ /\ cylinder # Track(request) /\ tries = Tries
          /\ reply' = Null
          /\ failed' = TRUE
          /\ Goto("idle")
          /\ UNCHANGED tries
    /\ UNCHANGED <<back, installed, request, lastReadSector, floppyDiskIRQ, dor, dma,
                   buffer, stray, irq, fdc, cylinder, misses>>

\* The result of the seek.  When it failed the function returns 0 at once.
Sought ==
    /\ pc = "sought"
    /\ \/ /\ cylinder = Track(request)
          /\ Goto("transfer")
          /\ UNCHANGED <<tries, reply, failed>>
       \/ /\ cylinder # Track(request) /\ tries + 1 < Tries
          /\ tries' = tries + 1
          /\ Goto("seek")
          /\ UNCHANGED <<reply, failed>>
       \/ /\ cylinder # Track(request) /\ tries + 1 = Tries
          /\ reply' = Null
          /\ failed' = TRUE
          /\ Goto("idle")
          /\ UNCHANGED tries
    /\ UNCHANGED <<back, installed, request, lastReadSector, floppyDiskIRQ, dor, dma,
                   buffer, stray, irq, fdc, cylinder, misses>>

\* A faulty end of a read, which leaves the motor on.
MotorStaysOn ==
    /\ pc = "status"
    /\ reply' = buffer
    /\ Goto("idle")
    /\ UNCHANGED <<back, installed, tries, request, lastReadSector, floppyDiskIRQ, dor,
                   dma, buffer, stray, irq, fdc, cylinder, misses, failed>>

\* The seven result bytes are read and dropped, the motor is turned off.
ReadStatusInfo ==
    /\ pc = "status"
    /\ dor' = MotorOff
    /\ reply' = buffer
    /\ Goto("idle")
    /\ UNCHANGED <<back, installed, tries, request, lastReadSector, floppyDiskIRQ, dma,
                   buffer, stray, irq, fdc, cylinder, misses, failed>>

Driver ==
    \/ FloppyDriveReadSector \/ FloppyDriveReset \/ FloppyDriveWaitForInterrupt
    \/ SenseAndConfigure \/ FloppyDriveCalibrate \/ Calibrated
    \/ TurnMotorOn \/ FloppyDriveSeek \/ Sought
    \/ FloppyDriveReadSectorHTS \/ ReadStatusInfo

-----------------------------------------------------------------------------
(* The interrupt handler, and the controller.                              *)

I86_FloppyDriveInterruptHandler ==
    /\ irq
    /\ irq' = FALSE
    /\ floppyDiskIRQ' = TRUE
    /\ UNCHANGED <<driverVars, dor, dma, buffer, stray, fdc, cylinder, misses, failed>>

\* A command ends with an interrupt, if the DMA bit of the DOR is set.
Complete ==
    /\ fdc' = Idle
    /\ irq' = (irq \/ "dma" \in dor)
    /\ UNCHANGED <<driverVars, floppyDiskIRQ, dor, dma>>

ControllerResets ==
    /\ fdc.cmd = "reset"
    /\ Complete
    /\ UNCHANGED <<buffer, stray, cylinder, misses, failed>>

\* A calibration or a seek ends on its cylinder, or misses it.
HeadMoves ==
    /\ fdc.cmd \in {"calibrate", "seek"}
    /\ \/ /\ cylinder' = fdc.cyl
          /\ misses' = 0
       \/ /\ misses < MaxMisses
          /\ cylinder' \in (0 .. MaxCylinder) \ {fdc.cyl}
          /\ misses' = misses + 1
    /\ Complete
    /\ UNCHANGED <<buffer, stray, failed>>

\* The sector under the head is transferred where the DMA controller says, if
\* the channel takes bytes into memory; else the controller's own buffer overruns.
\* A count that is too high lets the transfer run past the buffer.
TransferSector(contents) ==
    IF TransferAddress(dma, FDC_DMA_CHANNEL) = DmaBuffer
           /\ TransferLength(dma, FDC_DMA_CHANNEL) = SectorBytes
    THEN buffer' = contents /\ UNCHANGED stray
    ELSE stray' = TRUE /\ UNCHANGED buffer

ControllerReads ==
    /\ fdc.cmd = "read"
    /\ \/ /\ cylinder = fdc.cyl
          /\ Enabled(dma, FDC_DMA_CHANNEL) /\ IntoMemory(dma, FDC_DMA_CHANNEL)
          /\ failed' = FALSE
          /\ TransferSector((fdc.cyl * 2 + fdc.head) * SectorsPerTrack + fdc.sector - 1)
       \/ /\ \/ ReadsMayFail \/ cylinder # fdc.cyl
             \/ ~Enabled(dma, FDC_DMA_CHANNEL) \/ ~IntoMemory(dma, FDC_DMA_CHANNEL)
          /\ failed' = TRUE
          /\ UNCHANGED <<buffer, stray>>
    /\ Complete
    /\ UNCHANGED <<cylinder, misses>>

Controller == ControllerResets \/ HeadMoves \/ ControllerReads

Next ==
    \/ \E lba \in Sectors : Call(lba)
    \/ Driver
    \/ I86_FloppyDriveInterruptHandler
    \/ Controller

\* The driver is the only thread and HAL_Sleep ends because the timer ticks;
\* interrupts stay enabled; the controller ends what it was told to do.
Fairness ==
    /\ WF_vars(Driver)
    /\ WF_vars(I86_FloppyDriveInterruptHandler)
    /\ WF_vars(Controller)

Spec == Init /\ [][Next]_vars /\ Fairness

-----------------------------------------------------------------------------
(* Properties.                                                             *)

\* Every variable has its type.
TypeOK ==
    /\ pc \in {"idle", "enter", "reset", "wait", "clear", "sense", "calibrate",
               "calibrated", "motor", "seek", "sought", "transfer", "status"}
    /\ back \in {"none", "sense", "calibrated", "sought", "status"}
    /\ installed \in BOOLEAN /\ tries \in 0 .. (Tries - 1)
    /\ request \in Sectors \cup {Junk}
    /\ reply \in Sectors \cup {Junk, Null, Pending}
    /\ lastReadSector \in Sectors \cup {-1}
    /\ floppyDiskIRQ \in BOOLEAN /\ irq \in BOOLEAN /\ stray \in BOOLEAN
    /\ dor \subseteq {"reset", "dma", "motor"}
    /\ dma \in Hardware /\ buffer \in Sectors \cup {Junk}
    /\ fdc.cmd \in {"none", "reset", "calibrate", "seek", "read"}
    /\ cylinder \in 0 .. MaxCylinder /\ misses \in 0 .. MaxMisses

\* A pointer that FloppyDriveReadSector returns points to the contents of the
\* sector asked for, whether it was read now or kept from the last call, unless
\* the last seek or read has failed: the damage of a failure ends with the next
\* transfer.
RepliesAreRequested == pc = "idle" /\ ~failed => reply \in {request, Null}

\* "No need to re-read a buffer that's already in memory" (442): between calls the
\* buffer holds the sector that lastReadSector names.
CacheHoldsSector == pc = "idle" /\ lastReadSector # -1 => buffer = lastReadSector

\* The flag is global and never tied to a command: a wait must still end for the
\* interrupt of the command it waits for, with no second one on its way.
WaitsEndInTime == pc = "clear" => fdc.cmd = "none" /\ ~irq

\* Clearing the flag in a second statement never loses an interrupt: whenever
\* the driver is not waiting, no interrupt is outstanding.
NoInterruptOutstanding ==
    pc \notin {"wait", "clear"} => ~irq /\ ~floppyDiskIRQ /\ fdc.cmd = "none"

\* Turning the motor off also closes the gate of the controller's interrupts:
\* the driver never waits for one while it is closed, nor moves the head or
\* transfers with the motor off.
GateOpenWhileWaiting ==
    fdc.cmd # "none" =>
        /\ "dma" \in dor
        /\ fdc.cmd # "reset" => "motor" \in dor

\* The motor is off whenever the driver has returned to its caller, unless the
\* seek failed (464 returns before the motor is turned off).
MotorOffWhenIdle == pc \in {"idle", "enter"} /\ ~failed => "motor" \notin dor

\* No transfer writes outside the DMA buffer.
TransfersStayInBuffer == ~stray

\* FloppyDriveInstall and each FloppyDriveReadSector return, whatever seeks and
\* reads do.
ReadsReturn == (pc # "idle") ~> (pc = "idle")

\* The driver implements its contract.
Contract == INSTANCE SectorReader
            WITH Sectors <- Sectors, request <- request, reply <- reply, failed <- failed

ContractKept == Contract!Spec

\* What of the contract can be seen from steps alone, without the promise that
\* every request is answered.
ContractSafety == Contract!Init /\ [][Contract!Next]_(Contract!vars)

=============================================================================
