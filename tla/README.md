# JeremyOS in TLA+

JeremyOS is a small 32-bit operating system for the PC: a boot loader that starts
from a FAT12 floppy disk, and one kernel thread that runs a command shell.  There is
no scheduler and no second thread: what runs beside the kernel are interrupt
handlers (timer, keyboard, floppy disk) and the devices themselves.  This directory
holds specifications of its parts, the TLC runs that check them, and proofs.

All line numbers below are of the files under `src/`.  The kernel is compiled
without optimisation (`src/kernel/makefile`), so each read of a variable in the
source is a read of memory.

To check a run: `tlc -config <run>.cfg <module>`, with the pairs of section 4; to check
the proofs of a module: `tlapm <module>.tla`.

## 1. Inventory

| Part | State it keeps | Operations | Correct when | Modelled |
|---|---|---|---|---|
| Physical memory manager (`physicalmemorymanager.c`, start-up in `kernel_main.c`) | bit map of blocks, `_usedBlocks`, `_maximumBlockCount` | start-up from the BIOS memory map and five reservations, allocate / free one block or a run | counter and map agree; no block has two owners; nothing reserved is handed out | `PhysicalMemory` |
| Virtual memory manager (`virtualmemorymanager.c`, `vm_pte.c`, `vm_pde.c`) | page directory, tables | map, allocate, free a page; initialise | each present page has a frame of its own; tables are a map from pages to frames | `VirtualMemory`, `AddressSpace` |
| Floppy driver (`floppydisk.c`) | `_FloppyDiskIRQ`, `lastReadSector`, `DMA_BUFFER`, digital output register | install, reset, calibrate, seek, read | a returned pointer is to the requested sector; each wait ends, for its own interrupt | `FloppyDisk`, `SectorReader` |
| DMA driver (`hal/dma.c`) | controller registers, flip-flops, page registers | program a channel | address and count arrive whole, whatever the BIOS left | `Dma` |
| Interrupts and timer (`hal/hal.c`, `pic.c`, `pit.c`, `idt.c`) | vectors, PIC registers, tick counter | start of the kernel, set vector, end of interrupt, `HAL_Sleep` | handlers are in place before their interrupts; sleeps and waits end, in time | `Interrupts` |
| Keyboard driver (`keyboard.c`) | `_scancode`, modifier and lock flags, LEDs | handler, `KeyboardGetCharacter`, conversion | presses in order, flags as held, lights as locks | `Keyboard` |
| FAT12 (`fat12_functions.c`) | layout, `currentDirectory`, `currentDirectoryName`, a `FILE` | open, read, cd, pwd, ls | data is the chain; pwd names the current directory | `Fat12Disk`, `Fat12File`, `Fat12Directory` |
| Shell (`command.c`) | prompt, command table | dispatch, the commands | the command typed is the one run | `Shell` |
| Strings (`string.c`) | none | compare, cut, convert | as the C library | `CStrings` |
| Console, pager, line editor (`console.c`, `userinterface.c`) | cursor, screen, input line, line count | write, scroll, read a line, page | the screen shows the line; every byte is shown | `Console`, `UserInterface` |
| Boot loader (`boot/*.asm`) | FAT and root directory in memory | read sectors with retries, load a file | the kernel image is loaded whole | `BootLoader` |
| Exceptions, CPU tables | none after boot | print and stop | -- | the contexts that hang in `Interrupts` |

Interaction.  The shell calls the file system, which calls the floppy driver; every
sector arrives in one 512-byte buffer, to which the driver hands out pointers.  The
floppy driver programs the DMA controllers, and waits in `HAL_Sleep`, which counts the
timer's interrupts, for a flag set by its handler.  The line editor waits for a scan code
stored by the keyboard's handler.  Handlers interrupt one another.  The virtual memory
manager is the caller of the physical one.

What is hard: variables shared by handlers and the thread without locks; the order in
which the start of the kernel enables interrupts and installs handlers; the global flag
and the gate of the floppy's interrupts; a seek that fails half-way, and what its callers
do with the null pointer; the single buffer behind every sector pointer; two records of
one fact (counter and map, directory and path string); boundaries (words of the map,
clusters, sectors of the table, rows, the eighth character of a name).  `PROJECT.json`
lists these hazards, each at its line, with the properties that would show it going wrong.

## 2. Plan, and what is done

| Step | Module | Composes | Checked | Proved |
|---|---|---|---|---|
| 1 | `PhysicalMemory` | -- | `pmm_api`, `pmm_overlap` | yes, for single blocks |
| 2 | `FloppyDisk` over `SectorReader` | `Dma` | `floppy`, `floppy_stale_cache` | yes, with the refinement |
| 3 | `Keyboard`, with the line editor's two conversions | -- | `kbd`, `kbd_discard` | yes, safety |
| 4 | `Fat12Disk`, `Fat12File` over a driver whose reads may fail | `Fat12Disk` | `fat_file` | yes, safety |
| 5 | `VirtualMemory` over `AddressSpace` | `PhysicalMemory` | `vmm` | yes, with the refinement |
| 6 | `Interrupts` | -- | `irq` | yes, safety |
| 7 | `Console`, `UserInterface` | `Console` | `ui` | yes, safety |
| 8 | `CStrings`, `Fat12Directory`, `Shell` | each the one before | `shell` | yes |
| 9 | `BootLoader` | `Fat12Disk` | `boot` | yes, safety |

What could follow: proofs about runs of blocks.  They need that the narrowed test sees all bits
of a word and also that a run ends inside the map: the search compares the room that is left
before it skips the bits in use, and not after.

## 3. The modules

Variables that the code does not have are named as such in each module: they record what
the properties look back at, and no action of the code depends on them.  Definitions that
a module calls faulty are not part of its specification: each is a plausible mistake in the
definition that follows it, kept to show that a property would notice.

### PhysicalMemory

`memoryMap` is the set of numbers of the bits that are set, `mapBits` the number of
bits, `usedBlocks` the counter before its reduction to 32 bits (each read goes through
`Unsigned`).  `held` is what the callers own.  `InitialisePhysicalMemory` is the whole
start-up, as one action: nothing else runs yet.  `MemoryMapTestBit` narrows the masked
word to `bool`, a signed char, as the code does; `MemoryMapFindFirstFree` tests words
without it.  A call that fails changes nothing and is not a step.  `Spec` has all
operations, `SingleSpec` those on single blocks, which is what the kernel uses once
`VMM_Initialise` is done.  Region bases above 4 GB are
not modelled (the code reads the low words only).

### VirtualMemory and AddressSpace

It extends `PhysicalMemory`, and each action that takes or gives back a block is the
conjunction of its own change and the action of that module.  A page directory and page
tables are functions from indices to entries; an entry has its present bit and its frame.
Frames are masked as in the code, whose mask leaves out the top bit: `SetFrame` keeps the bit
that the old entry had, `PhysicalAddress` drops it.  `MaskedFrames`, 2^19 in the code, is the
number of frames the mask covers.
`VMM_Initialise` is three steps, one per allocation.  When an allocation fails it returns and
paging stays as the boot loader set it: no step, since nothing after it depends on it in
the model.  Nothing in the kernel calls the other three operations: the callers are the
environment, which allocates pages that are not present and frees what it allocated.

`AddressSpace` is what they are promised: a map from pages to frames, where a call changes its
own page, and a set of free blocks; there are no tables in it but for the memory they take.
`TablesAreMapping` states the refinement: `mapping` is what the processor finds through
directory and tables (`Translation`), `free` the available blocks that are not marked.  The
kernel's pages are part of the map, so that they stay what `VMM_Initialise` has made them.

### Dma, FloppyDisk and SectorReader

`Dma` has the registers of both 8237 controllers, a pair of bytes each, their flip-flops and the
page registers.  A function of `dma.c` is an operator from the hardware to the hardware after it,
made of the port writes it does in their order (`DMA_SetExternalPageRegister` with a register that
has no port writes to port 0, the address register of channel 0); `ClearFlipflop`, `WriteAddress`
and the like say what the controller does with a write.

In `FloppyDisk`, `pc` is the point the driver has reached; a step runs to the next point that
depends on the controller or the handler.  `dor` is the digital output register, `dma` the
DMA hardware, `irq` a latched request, `floppyDiskIRQ` the flag.  The wait and the
clearing of the flag are two steps, the handler may run between them.  The controller
ends each command with an interrupt if the gate is open; calibrations and seeks may miss;
reads may fail.  A transfer goes where the channel has been told: to the buffer, or astray
(`stray`).  The BIOS may leave the flip-flop in either state (`BootDma`).  Sector contents
are named by the sector's number.  `failed` (not in the code) says that the last seek or
read of the disk failed.

`SectorReader` is the contract: one request at a time, answered by the contents of its
sector or by a null pointer; while `failed` holds the contents may be any.
`FloppyDisk!ContractKept` states the refinement: `request`, `reply` and `failed` are the
variables of both, `Deliver` and `Refuse` the steps that end a call.

### Interrupts

It starts with the first call of the kernel and follows it up to the installation of the
floppy driver; then main sends commands, waits for their interrupts in `HAL_Sleep`, and
switches the motor, for ever.  The processor runs one context and keeps the interrupted
ones in `stack`; a context is a handler, the line it serves, and the point it has reached.
A step of a context waits until no request is left that may be taken, as the processor looks
for one before each instruction.  A handler has four steps, as the code has: its body, the
end of interrupt, `sti`, `iret`; after `sti` another handler may interrupt it.  `irr` and
`isr` are the controller's, and `I86_PIC_Initialise` moves the lines to their vectors (`base`)
and forgets what was requested.  Handlers for exceptions and for vectors nobody has set never
return.  The timer ticks, the user presses keys at any time, the keyboard waits with
the next byte until the output buffer is read.

### Keyboard

The handler takes one byte per step; the reader has four: the comparison of
`_scancode`, its use as an index, the LEDs, the discard.  The line editor then converts the
key twice, to test and to store the character, which are two steps more.  Presses carry a
number (not in the code) to tell two presses of the same key apart.  A read past the end of
the key table finds any of `BeyondTable`, at each read; `misread` (not in the code) says which
flags such a read has cleared.  A key is the sequence of its bytes, so that left and right
control are two keys with one make code.

### Fat12Disk, Fat12File

`Fat12Disk` has the layout and the arithmetic of the table, in both directions: the
packing of two entries in three bytes, which is the format, and the code's decoding.
`Fat12File` reads a file: one step per access to the driver's buffer `dmaBuffer`, so that
the data pointer, the first and the second byte of an entry are read from what the
buffer holds at the time.  The driver is `SectorReader`'s: a read may fail (`MaxFailures`),
with a null pointer, from which the code reads all the same (`nullPointer`), or with the old
contents in the buffer; either way the driver takes the sector for present
(`lastReadSector`) and the next read of it does nothing.  What is read where no table is, is a
byte of `JunkBytes`.  A data byte is named by its place on the disk; `stream` collects what
was copied since the file was opened.

### CStrings, Fat12Directory, Shell

`CStrings` has what the code does with strings, on sequences of character codes without the
final null: the index of the first character of a kind, spans, padding, the cutting of paths,
`strcmp`, `strncmp`, `strToInt`.  Here names are character by character, since the properties
are about how names are cut.

`Fat12Directory` has the current directory as an entry and pwd's string;
`FsFat12_ChangeDirectory` follows the entries of the disk by the parts that
`FsFat12_OpenFrom` cuts, and `SetCurrentDirPath` edits the string by its own, as one action
(nothing interleaves).  Cluster 0 is the root directory, whose scan has no bound of its own:
when it is full it goes on into what follows on the disk.  That the n-th cluster of a directory
is found through the table is `Fat12File!NthClusterFound`.

`ShownText` is what `ls` writes for an entry, `NameText` its name as a user writes it.
`Shell` is one action per line: it is formatted, cut into command and arguments, looked up in
the table, and the command runs on the directory.  `PS1` is the array with its nulls.  The
contents of files and sectors are left to `Fat12File`, their display to `UserInterface`.
`strayed` (not in the code) holds once a path has left the tree of directories, through an
empty file or past the end of a full root directory: section 6.

### Console, UserInterface

`Console` has no variables: a character, a string or a number is a function from the console
(cursor and cells) to the console after it.  The rows that have scrolled away are counted in
`scrolled`, which the code does not have, so that properties can say where on the screen something
is now.  `UserInterface` composes the shell's loop, the line editor and the pager on one console.
One key is one step, and so is one byte displayed: `DisplayByte` is an iteration of the loop of
`DisplayBuffer`, `PageBreak` the one that returns to `DisplayEntireBuffer` early, `EndOfBuffer`
the end of the loop.  Of the commands there are `cls`, `readdisk`, `read` (which hands the pager
part after part), and any other as a newline.  The array of the line has `LineLimit` cells, 255 in
the code; the editor's index goes one further, and what it writes there goes to `pastEnd`.
`typed`, `cropped`, `start` and `displayed` are not in the code: the line as the user means it,
whether it was cropped, where on the screen it began, and what the pager has shown.

### BootLoader

It uses the layout of `Fat12Disk`.  `memory` says which disk sector each place of memory holds
(places are 512 bytes, the addresses of the code divided by that); one step is one attempt of
the BIOS to read a sector, or the code between two calls of `ReadSectors`, whose arguments are
the variables `ax`, `cx`, `es`, `bx`, `di`.  The directory and the table are read from
what memory holds, not from the disk: the tables (2C00h) are loaded over the directory (2E00h).
`errors` (not in the code) counts the failures of the sector that is being read.

## 4. The runs

| Run | Module | Question | Result |
|---|---|---|---|
| `pmm_api` | `MCPhysicalMemory` | all operations, a real PC's layout | holds while callers hold at most 5 blocks below the DMA block |
| `pmm_overlap` | `MCPhysicalMemory` | the same, one more block | **violated**: a run contains the DMA block |
| `vmm` | `MCVirtualMemory` | start-up, then pages allocated, freed and mapped until memory is full | holds, and implements `AddressSpace` |
| `irq` | `MCInterrupts` | the start of the kernel, sleeps and waits, with timer, keys and floppy interrupting anywhere | holds; only a key pressed before its handler is there can stop the kernel |
| `floppy` | `MCFloppyDisk` | seeks and reads that fail, for a while or for good | holds, and implements `SectorReader` |
| `floppy_stale_cache` | `MCFloppyDisk` | does the buffer hold the sector that `lastReadSector` names? | **violated** |
| `kbd` | `MCKeyboard` | flags, lights, order of presses, the characters stored, none kept back | holds |
| `kbd_discard` | `MCKeyboard` | is the discarded press the handled one? | **violated** |
| `fat_file` | `MCFat12File` | contents, end of file, n-th cluster; damaged tables and failed reads | contents right for sound tables and disks; buffers are filled and calls return in any case |
| `shell` | `MCShell` | some 350 lines, one after another, on three disks | holds |
| `ui` | `MCUserInterface` | lines typed and erased across rows and scrolling; buffers shown in pages | holds |
| `boot` | `MCBootLoader` | the kernel is loaded, with reads that fail at any attempt | holds |

Each violated property quotes the comment of the source that it states; see "findings" in
`PROJECT.json`.

Bounds.

* `pmm_api`: runs of up to 2 and 5 blocks held are the most for which the
  narrowed test cannot matter (blocks 1 to 7 are in the low 8 bits of the map's first
  word); `pmm_overlap` shows the next value.  `UIntValues` is below 2^32 because TLC's
  integers are; no counter comes near it.  A block handed out twice to two callers is one
  element of `held`; it shows as a disagreement of counter and map (`FreeCountMatchesMap`),
  not in `BlocksAreExclusive`.
* `vmm` scales words to 8 bits, so that the narrowed test sees all of them, memory to 16 blocks,
  so that full memory is reached, and tables to 16 entries; its pages are in two tables, with one
  index in both.  The mask covers 64 frames (`MaskedFrames`): memory is below, of the two devices
  that are mapped one is below and one above.  With memory above the mask the properties are false
  (section 6).
* `irq`: a counter of 4 ticks, sleeps of 1 and 2, so that targets lie before, at and past the
  wrap; two keys, so that one waits behind the output buffer while another is served;
  all three lines may request at once, which nests handlers as deep as they go.
* `floppy`, `floppy_stale_cache`: 4 sectors on both heads of one cylinder and on another;
  3 attempts stand for the code's 10; with `MaxMisses` 3 a seek may fail for good, or succeed in
  its last attempt.  The BIOS leaves either flip-flop state, channel masked or not.  After a
  seek that failed the motor stays on until the next call (line 464), and the cache is wrong
  (`floppy_stale_cache`); the contract says what holds when the last transfer worked.
* `kbd`: three presses suffice for one to replace another while it is handled and to be
  replaced itself; the queue is as long as an extended key's bytes and one more, or the two
  acknowledgements.  One key of each kind (plain, lock, unknown) and the two control keys,
  which share a flag: the property says what the code does for them, that the flag is set
  if both are held and only if one is (section 6).  Past the end of the table there may be a
  number that is no key's, or the control key's.
* `fat_file`: sectors of 4 bytes make entries of clusters 2 and 5 straddle sectors and 3 and 6
  not; lengths 3, 4, 9 end before, at and beyond cluster ends; three clusters.  `EndMarks`
  4088 is the format's, 5 makes a cycle or a link into another file, 2000 is out of
  range: the properties about contents are stated for tables that end as the format requires
  (`SoundTable`) and while no read has failed; `BufferIsFilled` and `ReadReturns` for all.
  One read fails, at any point, which is enough for the null pointer, the stale buffer and
  the wrong cache after it.  `OtherEntry` 0xABC has different nibbles, so that a misplaced
  one is seen; `JunkBytes` make links to the end, into the file, and out of range.
* `shell`: parts of `src/TestDirStructure` and two files more, two levels deep, where one name appears on two
  levels; as it is, with an empty file, and with a root directory that is full.  Every path of
  up to three of five names, absolute and relative, odd and wrong paths, names of exactly
  8 characters, extensions of three, one and no characters, names with the spaces that `ls` shows
  behind them, a deleted entry, prompts shorter and longer than the one before, `readdisk`
  with options before and after the number.  The array of the prompt has 40 characters, more
  than any line.  No limit on the number of lines.
* `ui`: a screen of 4 by 5, a page of 2 lines, lines of 4 characters after a prompt of one, so
  that a full line crosses a row and starts on every row; 7 keys are a full line, one character
  more, a backspace, and Return.  Buffers have empty lines, tabs, rows filled exactly and numbers
  that cross the edge of a row, and are longer than three pages in one format at least.
* `boot`: the disk's parameters and the loader's addresses are the repository's, no bound is
  needed; the files have up to four clusters in any order, one with the entry that lies across
  two sectors of the table, and the entry is in the first or the last place of the directory,
  in a later sector of it, or missing.

Deadlock is checked except where the system may stop: the user may stop typing
(`kbd*`, `ui`), the shell may leave the tree (`shell`), the loader ends (`boot`), a file ends
(`fat_file`), and the callers of `vmm` may want more memory than there is.

Fairness.

* `Interrupts`: the processor takes requests and runs handlers; the timer ticks, commands end,
  the keyboard sends.  Handlers are shorter than the 10 ms of a tick, hence the strong
  fairness of main's steps, which each new request delays, and of the return of the handlers
  that the timer interrupts; and the loop of `HAL_Sleep` looks at the counter before it
  changes again, so that it does not miss the value when the counter wraps.
* `FloppyDisk`: the driver goes on because it is the only thread and the timer
  ticks; its handler runs because interrupts are enabled (both are what `irq` shows in
  `CommandsEnd`); the controller ends what it was told (no lost interrupts: the code has no
  time limit, so with one it would hang).
* `Keyboard`: the handler runs and the shell asks for the next key.
* `Fat12File`: a call that started runs on; no fairness on the caller.
* `UserInterface`: the pager runs on, and the user answers it with Enter or Q; nothing is
  assumed of the line editor.
* `BootLoader`: the processor goes on; nothing is assumed of the BIOS, which may fail every
  read.

## 5. Proofs

Each of the eight modules `<M>Proofs` extends the module it is about, states an
inductive invariant (`IInv`, `VIInv`, `Attempting` and `Loading`), proves that `Init` implies it
and that each step keeps it (one step of the proof per action), and draws the theorems from it.
The assumptions are those named in the modules; TLC evaluates them on the runs' constants.

| Module | Theorem | Property |
|---|---|---|
| `MemoryProofs` | `TypeCorrect`, `MapExact`, `FreeCountExact`, `BlocksWereFree` | of `PhysicalMemory`: `TypeOK`; `MapTellsWhoHolds`; `FreeCountMatchesMap`; `AllocatedRunsWereFree` |
| | `FramesAreOwn`, `NoBlockLost`, `KernelMapped`, `ImplementsAddressSpace` | of `VirtualMemory`: `PagesHaveOwnFrames`; `NoBlockIsLost`; `KernelStaysMapped`; `TablesAreMapping` |
| `FloppyDiskProofs` | `TypeCorrect`, `InterruptsAreMatched`, `GateOpen`, `NoStrayTransfer`, `RepliesCorrect` | `TypeOK`; `WaitsEndInTime` and `NoInterruptOutstanding`; `GateOpenWhileWaiting`; `TransfersStayInBuffer`; `RepliesAreRequested` and `MotorOffWhenIdle` |
| | `ImplementsSectorReader` | `ContractSafety`, the safety part of `ContractKept` |
| `InterruptsProofs` | `TypeCorrect`, `HangNeedsEarlyKey`, `ServiceMatches`, `WaitsMatched`, `SleepsLongEnough` | `TypeOK`; `OnlyEarlyKeysHang`; `InServiceMatchesHandlers`; `WaitsMatchCommands`; `SleepIsLongEnough` |
| `Fat12FileProofs` | `TypeCorrect`, `BufferFilled`, `StreamIsPrefix`, `EofTold`, `ClustersFound` | `TypeOK`; `BufferIsFilled`; `ReadsFollowChain`; `EofAtEndOfChain`; `NthClusterFound` |
| `KeyboardProofs` | `TypeCorrect`, `PressesInOrder`, `LightsAgree`, `CharactersStored`, `FlagsFollowKeys` | `TypeOK`; `PressesReturnedInOrder`; `LedsMatchLocks`; `CharactersComeFromKeys`; `FlagsMatchKeys` |
| `UserInterfaceProofs` | `TypeCorrect`, `LineTyped`, `LineOnScreen`, `BytesShown`, `PageStays` | `TypeOK`; `LineIsTyped`; `ScreenShowsLine` (no backspaces in what is displayed); `EveryByteShown`; `PageStaysOnScreen` |
| `ShellProofs` | `PromptShown`, `ShownIsFound`, `PwdIsCurrent`, `OpenIsFromPwd`, `SectorIsTyped` | of `Shell`: `PromptIsLastGiven`; `ListedEntriesOpen`; `PwdNamesCurrentDirectory`; `OpenFollowsPwd`; `SectorReadIsTyped` |
| `BootLoaderProofs` | `GivesUpInTime`, `KernelWhole` | `AttemptsRunOut`; `KernelIsWhole` |

The type invariants of these modules, `NoInterruptOutstanding`, `RepliesAreRequested`,
`MotorOffWhenIdle`, `InServiceMatchesHandlers` and `KernelStaysMapped` (which `TablesAreMapping`
checks as well) are proved, and so have no run.

### MemoryProofs: blocks

For every layout of memory that satisfies `LayoutAssumption` and any number of operations on
single blocks (`SingleSpec`).  The assumption says that available regions share no block,
reservations share none and lie in available memory, and the map has a bit for each available
block.  The last does not follow from the code: the size of the map is rounded down to bytes
before it is rounded up to words (line 151).

`IInv` adds that callers hold single blocks only, and the count without its reduction to 32 bits
(`CountsAgree`: the free blocks of the counter are the clear bits, and the map is exactly the
unavailable and the held blocks).  An allocation takes the first clear bit, which is held by
nobody because held blocks are set; so the count of clear bits goes down by one as the counter
does.  A release clears a bit that was set because its owner held it, and that no one else holds.
`MapExact` and `FreeCountExact` together say that no block has two owners: it would have been
counted twice, and marked once.  The lemmas are `MinIsMember` (the least element of a set of
numbers exists, from well-foundedness), `FirstFreeIsClear` and one per action.

### MemoryProofs: pages

For every layout of memory, size of tables, set of pages outside the kernel's two tables and set
of device frames outside of memory.  The theorems have one hypothesis more, `MemoryIsMasked`:
memory is below 2 GB, where the mask of a frame loses nothing.  Devices may be anywhere:
`Reusable`, a part of the invariant, says that an entry with the top bit of a frame is a device's
and present, so that no other frame is set over it; callers map devices at pages that are not
present, and nothing unmaps a device.  Without the hypothesis the theorems are false (section 6).
`Starting` says how many tables there are at each point of `VMM_Initialise`, and that what is
reserved or used by a table is marked in the map.  `Paging` is for what comes then: the directory
points to every table once, the first two are the kernel's, and the runs held are exactly tables,
directory and the frames of the present pages, all marked and none a page's and anything else's.
An allocation finds a clear bit (`FirstFreeIsClear`), so the block was nobody's; a release frees a
frame that was the page's alone; and because tables have frames of their own, setting an entry
changes one page (`EntrySet`).  Nothing is assumed of the search for the directory's three blocks,
which may find blocks in use (`pmm_overlap`): the theorems are about pages.

`ImplementsAddressSpace` takes each step to one of `AddressSpace` or to a stutter.
`KernelIsFound` says that the kernel's pages lead where `KernelMapping` says, and `Founded` that
a page's frame is a device's or available memory, so that a release gives back to `free` what an
allocation took.  `Remapped`
says that a call changes what is found for one page: where there is a table because tables have
frames of their own (`EntrySet`), where a new one is made because it is cleared and its frame was
no table's (`TableRemaps`).

### FloppyDiskProofs

For every geometry with two heads, any sectors on it, any number of attempts and misses, and
every state of the DMA hardware at the start.  `OneOutstanding` is the heart: of the command,
the latched request and the flag exactly one is there during a wait, and none outside of waits.
`CommandOfWait` says which command that is, `Motor` and `ChannelOpen` what the digital output
register and the channel hold then, `Caller` who waits for the driver, `Contents` what
is in the buffer as long as nothing has failed.  The lemmas on `Dma` follow the two bytes of a
word through the flip-flop, those on the geometry put cylinder, head and sector together again.
The refinement is proved by cases of the steps: a request, a transfer, an answer, or a stutter
of `SectorReader`; that every request is answered is liveness, and checked.

### InterruptsProofs

For every width of the counter, length of the sleeps and number of keys.  `Shape` says that
main is at the bottom of the stack and only contexts at `iret` are above it; `Service` that a
line is in service exactly while its handler has not told the PIC.  The handlers' arguments
do not name their lines (the keyboard's passes 0), so that this is what makes the non-specific
end of interrupt hit the right one.  `Started` is what has been set up at each point of the
start, `Requesters` that a request needs its handler or an early key, `Matched` is
`OneOutstanding` again with the handler as a fourth place, `Counting` that the ticks since
the call of `HAL_Sleep` are the counter less its value then, as long as nothing wraps.

### Fat12FileProofs

For every disk of up to 4080 table entries, every set of chains that have no cluster twice,
every end mark, all lengths and any number of failed reads.  `LoopTurns` and `Filling` say how
far the copy loop is and that the buffer holds as many bytes; they need no assumption on the
table.  `TableFollows` says that the table has the chain's links.  `Following` is for sound
tables and no failure: the current cluster is the i-th of the chain, `stream` is the first
`i - 1` clusters and `Position` bytes of it (`InChain`), the driver's buffer holds the sector
that the next access needs (`RightSector`), and `stream` agrees with the chain so far
(`StreamFollows`).  The arithmetic is in lemmas of their own: `Decoded`, that the code's
decoding of two bytes inverts the packing of two entries in three; `BytePlace`, that each byte
is found in its sector; `ChainByte`, which byte of the chain is where.

`ClustersFound` is about the scan that starts at the first cluster for each cluster it wants.
Lemma `ScanFinds` says what it finds after any number of turns, for every table that has the
links of a chain: the cluster with that index, or the end and then nothing.  It is induction
over the number of turns: the set of the numbers for which it holds has 0 and with each number
the next (`ScanTurn`), so that it has them all (`Induction`, from the existence of least
elements, since the library's induction has an operator for a parameter).

### KeyboardProofs

For every set of keys whose make codes are in the table, every table and any number of
presses.  `Pending` says that the make codes in the controller are in the order of their
presses and later than the one in `_scancode`; `Reader` that `_scancode` is of a press not yet
returned except between the return of its key and the discard; `Lights` that the lights were
set after the press that is discarded; `Editing` that a key that passed the first
conversion has a character whatever the flags (lemma `Characters`).
`FlagsFollowKeys` has an invariant of its own, `FlagsFollow`: what a flag is going to be once
the bytes in the controller are served (`SetAfter`) is set if all its keys are held, unless an
answer of the keyboard has cleared it, and set or so cleared only if one is.  Nothing is assumed
of the memory past the end of the table, where the code looks an answer up.

### UserInterfaceProofs

For every size of screen that holds a line with its prompt and a page with its question, every
prompt, set of characters, set of buffers and number of keys (`InterfaceAssumption`; the last line
of the page's question is shorter than a row).  `TypeOK` has in it that between two characters
the cursor is on the screen, which is why a write never goes past the video memory; the lemmas
about `Console` say what a character, a string and a number do to cursor, rows and cells, the
last two by induction over their length.

`LineHeld` says that the array holds the line typed so far and that its index is the line's
length; lemma `Stored` where a character goes, into the array or to the byte after it, which has
the zero of a full line.  `Shown` says that the byte displayed next is the one after those
displayed, or the last of them: the byte that ends a page is the only one that is displayed again.
`Paged` says that the rows since the page began are no more than the lines counted, and that rows
leave the screen only while the cursor is in the last one; without that a page could be on a part
of the screen that has scrolled for other reasons.  When the user is asked the count is 0 again,
which the next page needs.

`LineShown` is the invariant of the screen: the rows below the cursor are blank, in front of a
line the rest of its row too; the line is in the cells from its start on; and a row
scrolls away only once the line has filled the screen to its end, so that the start of the line
stays on it and an erasure across a row's edge finds the cell it wrote.  That holds for
what is typed, but not behind a text with backspaces: `DisplayBuffer` writes the bytes of a file as
they are, a backspace moves the cursor back, and what follows is written over what is there, so that
a prompt can come in front of old text.  `NoBackspaces` is therefore a hypothesis of
`LineOnScreen`, and of no other theorem.

### BootLoaderProofs

`Attempting`, for every disk, layout and number of attempts, says that while sectors are read
the errors of this sector and the attempts left add up to all of them, and that `ReadSectors`
returns to one of its callers.

`Loading` is for every geometry, chain without repetitions that fits in a segment, table of up to
4080 entries, and memory whose parts lie apart (`MemoryAssumption`; the table may lie over the
directory, and does).  `Reading` says how far a call of `ReadSectors` is; `SectorRead`, for all
three calls at once, that a sector goes where it belongs and that the offset does not go round
before the last; `AtCluster` that the image has the first `ImageSize` clusters of the chain and
the table is in memory; `StageKept` that the loader itself is not overwritten.  `Geometry`
says that the conversion to cylinder, head and sector loses nothing, `TableLinks` that the table
has the chain's links, and `LinkRead` that the word at three halves of a cluster's number has
its link.  That rests on the lemmas about `Fat12Disk` that `Fat12FileProofs` has as well, because
no module can extend both components.

### ShellProofs

For every set of lines that the array `PS1` has room for, which is as long as a line may be, and
every disk.  `Prompted` says that the array begins with the prompt and that a null follows it
unless the prompt fills the array.  The copy does not write a null itself: it goes on until the
old prompt has ended too, so that what it reads past the end of the argument clears what was there.

`Located` says that the current directory is one of the disk's entries or the root, and not the
invalid entry.  A step of a path may pass through a file or past the end of a full root directory
(`EntryByIndex`); what it finds is an entry of the disk all the same, which is all that
`ShownIsFound` needs, so that it holds after a path that has left the tree as well.
`DirectoryAssumption` is what a formatter guarantees: names are padded with spaces and have no
separators, small letters or spaces inside, no two entries of a directory have one name unless
they are deleted, and the root has no more entries than there is room for.  `RegularNamed` and
`DotsNamed` say that the name of an entry is left alone by `FormatInputString`, and that
`ExtractFileName` and `ExtractFileExtension` get the name and the extension back, with no, one,
two or three characters after the dot and up to 8 before it; `EntryShown` the same of the text
that `ls` shows, which has spaces after a short extension (`ExtensionExtracted` copies them), and
that this text is refused when the file has no extension.  Directories have none and are shown
without a dot (`TreeAssumption`).  `NameFound` says that the search stops at that entry and at no
other before it.

`Tracked` is the invariant behind `PwdIsCurrent`: until a path leaves the tree, the string and the
current directory are one of the `Tracks`.  These are the pairs of a string and an entry that
come from ("/", root directory) by going to a directory below by its name, any number of
times: the smallest set closed under that, so that what holds of the root and is kept
by a name holds of all.  That `Walk` along the parts of the string reaches the
entry is one such fact (`TracksWalk`); that the string without its last part is the one before
(`ExtendedTrims`), which ".." needs, is another.  `PathTracked` takes a path part by part: each part
that finds a directory is "." or ".." or has that directory's name, and at most 8
characters (`DirectoryFound`), so that the path is cut in the same parts for the entries
and for the string, although one cut is by 19 characters and the other by 8 (`CutsAgree`); and each
part leads from a track to a track (`TrackFollowed`).  It rests on `TreeAssumption`, what every FAT
disk has: "." and ".." of a directory lead to itself and to the directory it is in, the root has
neither, and directories have no extension, without which the theorem is false (section 6).  Lines
are of ASCII characters, as keys give: the 229 that marks a deleted entry cannot be typed.
`Step` chooses the first entry of a name; `NameFound` and `DirectoryAssumption` make it the one that
the code's scan stops at.

`OpenIsFromPwd` goes along the same tracks for the path of a read or file command, whose last part
may be a file: `PathOpened` shows that each part before it leads from a track to a track
(`PartLed`) while the list of names that `FullPath` makes grows by the same rule, and that
the last part names the entry it finds in the directory the names lead to.  A part that finds an
entry has at most 12 characters (`PartShort`), so that the cut by 19 characters makes the parts
that are in the text; and it reads as the entry's name (`PartNamed`), unless it has a space before
its dot: `ExtractFileName` ends at the space, and `ExtractFileExtension` goes on to the dot, so
that "CRIM  .TXT" opens CRIM.TXT.  The attempt to prove it without that condition showed that the
property, which TLC had found to hold on lines without such names, was false with them; now it has
the condition, and the run such a line.  `Answered` is the other half of the invariant: what
the shell shows is what the open function returned, for the arguments it still has.

`SectorIsTyped` is about the arguments of readdisk.  The property does not cut the line in words
as the code does: it says where a word is (`IsWord`), that each is an option or all the digits of
the line (`OneNumber`), and that dividing the sector by ten gives the digits typed from the last
one on, and then nothing (`Left`).  `WordsFound`, from the end of the line backwards, shows that
the code's words behind each place are options, and the number if it is behind that place;
`SectorFound` that of such words the number is the one converted, wherever it is; and
`DigitsConverted` that the conversion, which multiplies by ten from the first digit on, is undone
by the divisions.  `Sought` is the invariant: the sector is the one for the arguments that the
shell still has.

The recursions that cut a string, and the folds that follow a path, are shown to have a solution
(`ForwardRecursion`, `FoldExists`) by induction over sets of numbers, which the provers take
where the library's induction over operators is out of reach.

### What is only model-checked

Liveness under fairness is out of the prover's reach: `ReadsReturn`, `CommandsEnd`,
`BytesAreRead`, `KeysReachCaller`, `ReadReturns`, `DisplayEnds`, `BootEnds`, and the promise to
answer in `ContractKept`.  `BlocksAreExclusive` says something of runs of blocks only, and
of those it is false beyond the bounds of `pmm_api` (`pmm_overlap`).
`AllocatedRunsWereFree` is proved for single blocks only: it holds for runs as long as the
narrowed test sees what is set.

## 6. Not modelled, and known divergences without a run

Not modelled: exceptions print and stop; the global descriptor table and the colours of the
console are constant data; the mode switches, the memory map and A20 in the boot loader are
BIOS and CPU set-up; copies and fills of memory are what the models of their callers assign.
Nothing calls `HAL_Shutdown`, `HAL_GenerateInterrupt`, `I86_PIT_SetTickCount`, the enabling,
reset and self test of the keyboard.  The test functions of the file system (the shell's `dbg`)
are not part of it.  A disk exchanged between two calls is not considered.

Read in the code while modelling it, and not kept as runs:

* `physicalmemorymanager.c:248` refuses a run as long as the number of free blocks, and
  `:99` one that ends past `_maximumBlockCount`, which counts RAM and not addresses; the
  actions have both tests.
* `physicalmemorymanager.c:178-188` rounds an available region outwards, so that block 159
  of a PC with 639 KB, which holds the extended BIOS data area, is free; the model does the
  same, and `AvailableBlocks` is the code's idea of what is available.
* `virtualmemorymanager.c:35` takes the index in the table for the one in the directory; nothing
  calls it.  Line 165 takes three blocks for a directory that needs one.  `VMM_MapPage` reaches
  new tables by their physical address, which is mapped below 4 MB only.
* `vm_pte.h:21`, `vm_pde.h:20`: the masks of a frame are 0x7FFFF000, without bit 31.
  `vm_pte.c:17` and its like for directory entries leave that bit of the old entry in the new one,
  and `vm_pte.c:32` drops it when `virtualmemorymanager.c:79` looks for the block to free.  So a
  frame at or above 2 GB is set, but an entry that has had one maps the next frame 2 GB too
  high, and the release of a page there frees the block 2 GB below.  `MemoryIsMasked` leaves
  it out.  With the mask in the middle of the memory of `vmm` (`MaskedFrames` 8, a device at 12)
  TLC finds all three of its properties violated, within the mapping of a device, the
  allocation of a page, its release and an allocation.
* `hal/hal.c:28` enables interrupts before the drivers are installed.  A key pressed before
  `KeyboardInstall` meets the default handler, which never returns (`OnlyEarlyKeysHang`
  says that nothing else can); one pressed before the PIC is initialised is forgotten by the PIC
  and keeps the output buffer full, so that no later key comes through (`BytesAreRead`).
* `hal/hal.c:155`: a sleep whose target is past the wrap of the counter ends at once, after 497
  days; `SleepIsLongEnough` excludes it.
* The keyboard's handler tells `HAL_InterruptDone` 0, the timer's line: harmless, since the
  end of interrupt names no line.
* `floppydisk.c:133` programs page 0 whatever `DMA_BUFFER` is: the comment at line 92 allows
  anything below 1 MB, the transfer goes elsewhere from 64 KB on.  `LayoutAssumption`
  holds for the address the kernel uses.
* `keyboard.c:323`: the failure code 0xFC of the self test, and the diagnostic and resend codes,
  lose their top bit (line 259) before they are compared, so that the handler, which "will catch the
  error" (line 630), never does; `I86KeyboardInterruptHandler` has both lines.
* `keyboard.c:272`: both shift (and control, and alt) keys share a flag, which the release of
  either clears; `FlagsMatchKeys` allows that and no more.
* The key table has 89 entries and is read past its end for the make codes after
  that of F12; `KeyboardAssumption` leaves keyboards that send them out, the acknowledgements
  (250) do read there.  What they find may be the number of a modifier key, whose flag they clear
  while the key is held, until it repeats: `FlagsMatchKeys` allows that (`misread`).
* `userinterface.c:44`: a key is converted twice, with the shift state of that moment;
  `CharactersComeFromKeys` says what holds all the same; a character in the wrong case is one of
  the key's.
* `keyboard.c:620` discards a press that comes after the reading of the key (`kbd_discard`):
  `KeysReachCaller` says that the last press is handled unless it comes in just that window.
* `command.c:89`: the shell's array has 255 characters, and the line editor's index goes up to
  255 (`userinterface.c:51`), one further: a full line's zero, and before it each character
  too many, is written to the byte after the array, which is `pastEnd` in the model.  `LineIsTyped`
  says that the line is the one typed as long as that byte keeps it.  The array of
  `command.c:102` is as long, so that a command of 255 characters has no zero in it; in `Shell`
  it ends all the same.
* `userinterface.c:165` returns the index of the byte that ended the page, one less than "the
  number of bytes successfully displayed" (line 125): that byte is displayed again on the next
  page. `EveryByteShown` allows it.
* `userinterface.c:156`: a newline in the first column does not count as a line, so that text with
  many empty lines does scroll off the screen; `PageStaysOnScreen` is about numbers.
* `command.c:198`: with two spaces after one another `readdisk` reads sector 0, whatever number is
  given; `SectorReadIsTyped` excludes them.  `strToInt` (`string.c:176`) does not look at what it
  converts or whether it fits an int; the property is about digits, and numbers that fit.
* `fat12_functions.c:284`: the scan of the root directory ends at an invalid entry, and not
  after the last one: a full root directory is read on into the first cluster of data.
* `fat12_functions.c:360`: what a path passes through need not be a directory, and an empty file
  has cluster 0, which is the root: a path through it goes on there.  The properties of the
  `shell` run claim nothing after either (`strayed`).
* `fat12_functions.c:435` cuts a part of a path every 8 characters: pwd shows a directory with
  an extension and more than 8 characters in all as two, and `cd TESTING.OLD` makes the string
  /TESTING./OLD.  `TreeAssumption` leaves such directories out.
* `fat12_functions.c:630` writes a dot and the three characters of the extension for every file,
  also when they are spaces: a file without an extension is listed as "README.   ", a name
  that `fat12_functions.c:240` refuses; it opens as "README".  `ListedEntriesOpen` says just that.
* `ls` shows deleted entries: `DELETED_FILENAME` is not used.  `ListedEntriesOpen` leaves them out.
* `fat12_functions.c:527` never looks at `FileLength`: the read command shows the last
  cluster to its end.
* `string.c:134` compares `destinationSize < count == 0`, in a function that nothing calls.
* `floppy16.asm:85`: a kernel of more than 64 KB wraps in its segment, and `LoadFile` returns 0;
  `BootAssumption` excludes it.
