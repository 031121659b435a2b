-------------------------------- MODULE Dma --------------------------------
(***************************************************************************)
(* The driver of the two 8237 DMA controllers (src/kernel/hal/dma.c): each *)
(* function as an operator from the state of the hardware to the state it  *)
(* leaves.  Controller 0 has channels 0 to 3, controller 1 has 4 to 7.  A  *)
(* flip-flop in each says which byte of a 16-bit register the next write   *)
(* goes to; the high byte of an address is in a page register outside.     *)
(***************************************************************************)
EXTENDS Integers

Channels == 0 .. 7
Bytes == 0 .. 255

\* A register of 16 bits: its low and its high byte.
Words == Bytes \X Bytes

Hardware == [flipflop : [0 .. 1 -> 0 .. 1], masked : SUBSET Channels,
             addr : [Channels -> Words], count : [Channels -> Words],
             mode : [Channels -> Bytes], page : [Channels -> Bytes]]

ControllerOf(channel) == channel \div 4

-----------------------------------------------------------------------------
(* What a write to a port of controller c does.                            *)

\* Bits 0 and 1 of the byte select the channel, bit 2 says to mask it.
WriteMask(d, c, byte) ==
    LET channel == {4 * c + (byte % 4)}
    IN  [d EXCEPT !.masked = IF (byte \div 4) % 2 = 1 THEN d.masked \cup channel
                                                      ELSE d.masked \ channel]

\* Bits 0 and 1 of the byte select the channel.
WriteMode(d, c, byte) == [d EXCEPT !.mode = [d.mode EXCEPT ![4 * c + (byte % 4)] = byte]]

ClearFlipflop(d, c) == [d EXCEPT !.flipflop = [d.flipflop EXCEPT ![c] = 0]]

\* The master clear also masks every channel.
MasterClear(d, c) ==
    [ClearFlipflop(d, c) EXCEPT !.masked = d.masked \cup (4 * c .. 4 * c + 3)]

Toggle(d, c) == [d EXCEPT !.flipflop = [d.flipflop EXCEPT ![c] = 1 - d.flipflop[c]]]

\* A register of 16 bits takes its low byte or its high byte.
NextByte(d, channel, word, byte) ==
    IF d.flipflop[ControllerOf(channel)] = 0 THEN <<byte, word[2]>> ELSE <<word[1], byte>>

WriteAddress(d, channel, byte) ==
    [Toggle(d, ControllerOf(channel)) EXCEPT
        !.addr = [d.addr EXCEPT ![channel] = NextByte(d, channel, d.addr[channel], byte)]]

WriteCount(d, channel, byte) ==
    [Toggle(d, ControllerOf(channel)) EXCEPT
        !.count = [d.count EXCEPT ![channel] = NextByte(d, channel, d.count[channel], byte)]]

-----------------------------------------------------------------------------
(* The driver.                                                             *)

\* Channel 4 is taken for one of the first controller.
MaskController(channel) == IF channel <= 4 THEN 0 ELSE 1
MaskLine(channel) == IF channel <= 4 THEN channel ELSE channel - 4

\* 0x04 | line.
DMA_MaskChannel(d, channel) ==
    WriteMask(d, MaskController(channel), 4 + (MaskLine(channel) % 4))

DMA_UnmaskChannel(d, channel) == WriteMask(d, MaskController(channel), MaskLine(channel))

\* A faulty reset, which writes to a register that changes nothing.
DMA_ResetTemporary(d, dma) == d

\* The register called temporary is, when written, the master clear, and it is
\* the first controller's whatever the argument.
DMA_Reset(d, dma) == MasterClear(d, 0)

\* Both numbers of a controller are refused; for others the flip-flop of the
\* second one is cleared.
DMA_ResetFlipflop(d, dma) == IF dma < 2 THEN d ELSE ClearFlipflop(d, 1)

DMA_SetAddress(d, channel, low, high) == WriteAddress(WriteAddress(d, channel, low), channel, high)

DMA_SetCount(d, channel, low, high) == WriteCount(WriteCount(d, channel, low), channel, high)

\* Registers without a port, 0 and those from 8 on, are written to port 0, which is
\* the address of channel 0.
DMA_SetExternalPageRegister(d, reg, val) ==
    CASE reg \in {1, 2, 3, 5, 6, 7} -> [d EXCEPT !.page = [d.page EXCEPT ![reg] = val]]
      [] reg \in {0} \cup 8 .. 14   -> WriteAddress(d, 0, val)
      [] reg = 4 \/ reg > 14         -> d

\* The line and the bits of the mode are joined; neither overlaps the other.
DMA_SetMode(d, channel, mode) ==
    DMA_UnmaskChannel(WriteMode(DMA_MaskChannel(d, channel), ControllerOf(channel),
                                (channel % 4) + mode), channel)

\* DMA_MODE_READ_TRANSFER | DMA_MODE_TRANSFER_SINGLE: from the device to memory.
DMA_SetRead(d, channel) == DMA_SetMode(d, channel, 4 + 64)

\* DMA_MODE_WRITE_TRANSFER | DMA_MODE_TRANSFER_SINGLE.
DMA_SetWrite(d, channel) == DMA_SetMode(d, channel, 8 + 64)

-----------------------------------------------------------------------------
(* What a device that requests a transfer on a channel of controller 0     *)
(* gets.                                                                   *)

Enabled(d, channel) == channel \notin d.masked

IntoMemory(d, channel) == (d.mode[channel] \div 4) % 4 = 1

TransferAddress(d, channel) ==
    d.page[channel] * 65536 + d.addr[channel][2] * 256 + d.addr[channel][1]

TransferLength(d, channel) == d.count[channel][2] * 256 + d.count[channel][1] + 1

=============================================================================
