----------------------------- MODULE Interrupts -----------------------------
(***************************************************************************)
(* Interrupts and the timer (src/kernel/hal/: hal.c, pic.c, pit.c, idt.c): *)
(* the start of the kernel up to the installation of its drivers, and then *)
(* HAL_Sleep and the wait for the floppy disk, while the timer, the        *)
(* keyboard and the floppy controller interrupt.                           *)
(*                                                                         *)
(* The processor runs one context, main or a handler, and keeps the ones   *)
(* it has interrupted on the stack.  It looks for a request that it may    *)
(* take before each instruction, so a step of a context waits for that.    *)
(***************************************************************************)
EXTENDS Integers, Sequences

CONSTANTS
    TickValues,         \* the values of _pit_ticks, a power of two
    WaitTicks,          \* the argument of HAL_Sleep in the wait for the floppy
    MotorTicks,         \* the argument of HAL_Sleep when the motor is switched
    MaxKeys             \* bound: the keys pressed, and the bytes on their way

ASSUME InterruptsAssumption ==
    /\ TickValues \in Nat \ {0} /\ MaxKeys \in Nat
    /\ WaitTicks \in Nat /\ WaitTicks < TickValues
    /\ MotorTicks \in Nat /\ MotorTicks < TickValues

VARIABLES
    pc,                 \* where main is
    asked, target, back,    \* HAL_Sleep: tickCount, ticks, the return address
    IFlag,              \* the processor's interrupt flag
    running, stack,     \* the context that runs, the ones interrupted
    idt,                \* _idt: the handler of each vector
    base,               \* the vector of line 0
    irr, isr,           \* PIC: the lines that request, the lines in service
    ticks,              \* _pit_ticks
    floppyDiskIRQ,      \* _FloppyDiskIRQ
    command,            \* the floppy controller has a command
    bytes, outputFull,  \* keyboard: bytes to send, one is in the output buffer
    keys,               \* the keys pressed
    earlyKey,           \* a key was pressed before its handler was installed:
                        \* what the properties look back at
    slept               \* the ticks since HAL_Sleep was called: the same

mainVars == <<pc, asked, target, back>>
processor == <<IFlag, running, stack>>
pic == <<base, irr, isr>>
floppy == <<floppyDiskIRQ, command>>
keyboard == <<bytes, outputFull, keys, earlyKey>>
vars == <<mainVars, processor, idt, pic, ticks, floppy, keyboard, slept>>

TimerLine == 0
KeyboardLine == 1
FloppyLine == 6
Lines == {TimerLine, KeyboardLine, FloppyLine}

\* The vectors of the processor and of the two PICs.
Vectors == 0 .. 47

MainContext == [handler |-> "main", line |-> -1, at |-> "main"]

-----------------------------------------------------------------------------
(* The interrupt controller.                                               *)

\* A request is passed on unless a line of the same or a higher priority is in
\* service; no line is masked.
Requested(line) == line \in irr /\ \A l \in isr : line < l

Deliverable == IFlag /\ \E line \in Lines : Requested(line)

\* The non-specific end of interrupt, for the line of the highest priority in
\* service.
EndOfInterrupt == isr' = {l \in isr : \E k \in isr : k < l}

\* HAL_InterruptDone: nothing for a number above 16; PIC 2, with no line in use,
\* has nothing in service.
HAL_InterruptDone(intno) == IF intno > 16 THEN UNCHANGED isr ELSE EndOfInterrupt

\* I86_PIC_Initialise: the first control word forgets requests and services, and
\* an input that is high already does not request again.
I86_PIC_Initialise(base0) == base' = base0 /\ irr' = {} /\ isr' = {}

-----------------------------------------------------------------------------
(* The processor takes an interrupt: the gate clears IF.                   *)

TakeInterrupt ==
    \E line \in Lines :
        /\ IFlag /\ Requested(line)
        /\ \A l \in Lines : Requested(l) => line <= l
        /\ irr' = irr \ {line}
        /\ isr' = isr \cup {line}
        /\ stack' = Append(stack, running)
        /\ running' = [handler |-> idt[base + line], line |-> line, at |-> "body"]
        /\ IFlag' = FALSE
        /\ UNCHANGED <<mainVars, idt, base, ticks, floppy, keyboard, slept>>

\* A context goes on from one point to the next.
RunsTo(from, to) ==
    /\ running.at = from /\ ~Deliverable
    /\ running' = [running EXCEPT !.at = to]
    /\ UNCHANGED <<mainVars, stack, idt, base, irr>>

\* What each handler does, from cli to the end of interrupt.
I86_PIT_TimerInterruptHandler ==
    /\ running.handler = "timer" /\ RunsTo("body", "done")
    /\ ticks' = (ticks + 1) % TickValues
    /\ slept' = IF slept < asked THEN slept + 1 ELSE slept
    /\ UNCHANGED <<IFlag, isr, floppy, keyboard>>

I86KeyboardInterruptHandler ==
    /\ running.handler = "keyboard" /\ RunsTo("body", "done")
    /\ outputFull' = FALSE
    /\ UNCHANGED <<IFlag, isr, ticks, floppy, bytes, keys, earlyKey, slept>>

I86_FloppyDriveInterruptHandler ==
    /\ running.handler = "floppy" /\ RunsTo("body", "done")
    /\ floppyDiskIRQ' = TRUE
    /\ UNCHANGED <<IFlag, isr, ticks, command, keyboard, slept>>

\* A faulty argument: the vector.
DoneVector(handler) ==
    CASE handler = "floppy" -> 38 [] handler = "keyboard" -> 33 [] OTHER -> 0

\* The argument each handler passes: the keyboard's passes the timer's line.
DoneArgument(handler) == IF handler = "floppy" THEN 6 ELSE 0

Done ==
    /\ RunsTo("done", "sti")
    /\ HAL_InterruptDone(DoneArgument(running.handler))
    /\ UNCHANGED <<IFlag, ticks, floppy, keyboard, slept>>

Sti ==
    /\ RunsTo("sti", "iret")
    /\ IFlag' = TRUE
    /\ UNCHANGED <<isr, ticks, floppy, keyboard, slept>>

\* What was interrupted goes on, with its flags: IF was set, or it would not have
\* been interrupted.
Iret ==
    /\ running.at = "iret" /\ ~Deliverable
    /\ running' = stack[Len(stack)]
    /\ stack' = SubSeq(stack, 1, Len(stack) - 1)
    /\ IFlag' = TRUE
    /\ UNCHANGED <<mainVars, idt, pic, ticks, floppy, keyboard, slept>>

\* I86_DefaultInterruptHandler and the exceptions print and loop for ever.
Hung == running.handler \in {"none", "default", "fault"}

Loop == Hung /\ ~Deliverable /\ UNCHANGED vars

Handlers ==
    \/ TakeInterrupt
    \/ I86_PIT_TimerInterruptHandler \/ I86KeyboardInterruptHandler
    \/ I86_FloppyDriveInterruptHandler
    \/ Done \/ Sti \/ Iret

-----------------------------------------------------------------------------
(* main: Initialise, and what Run asks of the drivers.                     *)

MainRuns(from) == pc = from /\ running = MainContext /\ ~Deliverable /\ UNCHANGED <<running, stack>>

MainGoes(from, to) == MainRuns(from) /\ pc' = to /\ UNCHANGED <<asked, target, back>>

\* I86_IDT_Initialise: the default handler for every vector.
I86_CPU_Initialise ==
    /\ MainGoes("cpu", "pic")
    /\ idt' = [v \in Vectors |-> "default"]
    /\ UNCHANGED <<IFlag, pic, ticks, floppy, keyboard, slept>>

\* A faulty PIC set-up, which keeps the vectors of the BIOS.
InitialisePicAtBios ==
    /\ MainGoes("pic", "pit")
    /\ IFlag' = FALSE
    /\ I86_PIC_Initialise(8)
    /\ UNCHANGED <<idt, ticks, floppy, keyboard, slept>>

InitialisePic ==
    /\ MainGoes("pic", "pit")
    /\ IFlag' = FALSE
    /\ I86_PIC_Initialise(32)
    /\ UNCHANGED <<idt, ticks, floppy, keyboard, slept>>

\* HAL_SetInterruptVector.
SetVector(intno, handler) == idt' = [idt EXCEPT ![intno] = handler]

I86_PIT_Initialise ==
    /\ MainGoes("pit", "counter")
    /\ SetVector(32, "timer")
    /\ UNCHANGED <<IFlag, pic, ticks, floppy, keyboard, slept>>

I86_PIT_StartCounter ==
    /\ MainGoes("counter", "enable")
    /\ ticks' = 0
    /\ UNCHANGED <<IFlag, idt, pic, floppy, keyboard, slept>>

HAL_EnableInterrupts ==
    /\ MainGoes("enable", "exceptions")
    /\ IFlag' = TRUE
    /\ UNCHANGED <<idt, pic, ticks, floppy, keyboard, slept>>

InitialiseInterrupts ==
    /\ MainGoes("exceptions", "keyboard")
    /\ IFlag' = TRUE
    /\ idt' = [v \in Vectors |-> IF v \in (0 .. 19) \ {9, 15} THEN "fault" ELSE idt[v]]
    /\ UNCHANGED <<pic, ticks, floppy, keyboard, slept>>

\* KeyboardInstall: the vector first, and then the lights, ...
KeyboardInstall ==
    /\ MainGoes("keyboard", "leds")
    /\ SetVector(33, "keyboard")
    /\ UNCHANGED <<IFlag, pic, ticks, floppy, keyboard, slept>>

\* ... whose two bytes the keyboard acknowledges, each with a byte of its own.
SetLeds(from, to) ==
    /\ MainGoes(from, to)
    /\ bytes' = bytes + 2
    /\ UNCHANGED <<IFlag, idt, pic, ticks, floppy, outputFull, keys, earlyKey, slept>>

InstallLeds == SetLeds("leds", "install")

\* A faulty installation of the floppy driver: the vector of another line.
FloppyDriveInstallElsewhere ==
    /\ MainGoes("install", "command")
    /\ SetVector(36, "floppy")
    /\ UNCHANGED <<IFlag, pic, ticks, floppy, keyboard, slept>>

\* FloppyDriveInstall: the vector first, and then the reset, ...
FloppyDriveInstall ==
    /\ MainGoes("install", "command")
    /\ SetVector(38, "floppy")
    /\ UNCHANGED <<IFlag, pic, ticks, floppy, keyboard, slept>>

\* ... which is a command that ends with an interrupt, as later ones are.
FloppyDriveSendCommand ==
    /\ MainGoes("command", "wait")
    /\ command' = TRUE
    /\ UNCHANGED <<IFlag, idt, pic, ticks, floppyDiskIRQ, keyboard, slept>>

\* HAL_Sleep is called, and returns to a label.
Sleep(from, tickCount, label) ==
    /\ MainRuns(from)
    /\ pc' = "sleep" /\ asked' = tickCount /\ back' = label
    /\ UNCHANGED <<target, IFlag, idt, pic, ticks, floppy, keyboard, slept>>

\* A faulty wait, which clears the flag as soon as it has slept.
WaitOnce ==
    /\ ~floppyDiskIRQ /\ Sleep("wait", WaitTicks, "clear")

FloppyDriveWaitForInterrupt ==
    \/ ~floppyDiskIRQ /\ Sleep("wait", WaitTicks, "wait")
    \/ /\ floppyDiskIRQ
       /\ MainGoes("wait", "clear")
       /\ UNCHANGED <<IFlag, idt, pic, ticks, floppy, keyboard, slept>>

ClearFlag ==
    /\ MainGoes("clear", "motor")
    /\ floppyDiskIRQ' = FALSE
    /\ UNCHANGED <<IFlag, idt, pic, ticks, command, keyboard, slept>>

FloppyDriveControlMotor == Sleep("motor", MotorTicks, "run")

\* A faulty HAL_Sleep, which compares the count with the argument.
HAL_SleepAbsolute ==
    /\ MainRuns("sleep") /\ pc' = "sleeping"
    /\ target' = asked
    /\ slept' = 0
    /\ UNCHANGED <<asked, back, IFlag, idt, pic, ticks, floppy, keyboard>>

\* HAL_Sleep: the tick to wait for, ...
HAL_Sleep ==
    /\ MainRuns("sleep") /\ pc' = "sleeping"
    /\ target' = (asked + ticks) % TickValues
    /\ slept' = 0
    /\ UNCHANGED <<asked, back, IFlag, idt, pic, ticks, floppy, keyboard>>

\* ... and the loop, which ends when the count is seen to have reached it; the
\* variables of the call are gone.
WakeUp ==
    /\ target <= ticks
    /\ MainRuns("sleeping") /\ pc' = back
    /\ asked' = 0 /\ target' = 0 /\ back' = "run" /\ slept' = 0
    /\ UNCHANGED <<IFlag, idt, pic, ticks, floppy, keyboard>>

Starts ==
    \/ I86_CPU_Initialise \/ InitialisePic \/ I86_PIT_Initialise
    \/ I86_PIT_StartCounter \/ HAL_EnableInterrupts \/ InitialiseInterrupts
    \/ KeyboardInstall \/ InstallLeds \/ FloppyDriveInstall

MainStep ==
    \/ Starts
    \/ FloppyDriveSendCommand \/ FloppyDriveWaitForInterrupt \/ ClearFlag
    \/ FloppyDriveControlMotor \/ HAL_Sleep

\* Run uses the floppy disk again, or sets the lights after a key.
Run ==
    \/ /\ MainGoes("run", "command")
       /\ UNCHANGED <<IFlag, idt, pic, ticks, floppy, keyboard, slept>>
    \/ /\ keys > 0 /\ bytes + 2 <= MaxKeys
       /\ SetLeds("run", "run")

-----------------------------------------------------------------------------
(* The devices.                                                            *)

Requests(line) ==
    /\ irr' = irr \cup {line}
    /\ UNCHANGED <<mainVars, processor, idt, base, isr, ticks, slept>>

\* The counter runs out every 10 ms: a handler takes less time than that, so
\* that the request of the last tick has been served.
Tick ==
    /\ pc \notin {"cpu", "pic", "pit", "counter"}
    /\ TimerLine \notin irr /\ running.handler # "timer"
    /\ \A i \in 1 .. Len(stack) : stack[i].handler # "timer"
    /\ Requests(TimerLine)
    /\ UNCHANGED <<floppy, keyboard>>

CommandEnds ==
    /\ command
    /\ command' = FALSE
    /\ Requests(FloppyLine)
    /\ UNCHANGED <<floppyDiskIRQ, keyboard>>

PressKey ==
    /\ keys < MaxKeys /\ bytes < MaxKeys
    /\ keys' = keys + 1 /\ bytes' = bytes + 1
    /\ earlyKey' = (earlyKey \/ pc \in {"cpu", "pic", "pit", "counter", "enable",
                                        "exceptions", "keyboard"})
    /\ UNCHANGED <<mainVars, processor, idt, pic, ticks, floppy, outputFull, slept>>

\* The next byte goes into the output buffer when the last one has been read.
KeyboardSends ==
    /\ bytes > 0 /\ ~outputFull
    /\ bytes' = bytes - 1 /\ outputFull' = TRUE
    /\ Requests(KeyboardLine)
    /\ UNCHANGED <<floppy, keys, earlyKey>>

-----------------------------------------------------------------------------

\* The boot loader has disabled interrupts; the PIC is as the BIOS left it.
Init ==
    /\ pc = "cpu" /\ asked = 0 /\ target = 0 /\ back = "run"
    /\ IFlag = FALSE /\ running = MainContext /\ stack = <<>>
    /\ idt = [v \in Vectors |-> "none"]
    /\ base = 8 /\ irr \in {{}, {TimerLine}} /\ isr = {}
    /\ ticks = 0 /\ floppyDiskIRQ = FALSE /\ command = FALSE
    /\ bytes = 0 /\ outputFull = FALSE /\ keys = 0 /\ earlyKey = FALSE
    /\ slept = 0

Next ==
    \/ Handlers \/ Loop
    \/ MainStep \/ WakeUp \/ Run
    \/ Tick \/ CommandEnds \/ PressKey \/ KeyboardSends

\* Handlers are shorter than a tick, so those that the timer interrupts end, main
\* goes on between them, and the loop of HAL_Sleep looks at the count before it
\* changes again.
Fairness ==
    /\ WF_vars(Handlers) /\ SF_vars(running.handler # "timer" /\ Iret)
    /\ SF_vars(MainStep) /\ SF_vars(WakeUp)
    /\ WF_vars(Tick) /\ WF_vars(CommandEnds) /\ WF_vars(KeyboardSends)

Spec == Init /\ [][Next]_vars /\ Fairness

-----------------------------------------------------------------------------
(* Properties.                                                             *)

Contexts ==
    [handler : {"main", "none", "default", "fault", "timer", "keyboard", "floppy"},
     line : Lines \cup {-1}, at : {"main", "body", "done", "sti", "iret"}]

\* Every variable has its type.
TypeOK ==
    /\ pc \in {"cpu", "pic", "pit", "counter", "enable", "exceptions", "keyboard", "leds",
               "install", "command", "wait", "clear", "motor", "run", "sleep", "sleeping"}
    /\ back \in {"wait", "run"}
    /\ asked \in {0, WaitTicks, MotorTicks} /\ target \in 0 .. (TickValues - 1) /\ slept \in Nat
    /\ IFlag \in BOOLEAN /\ running \in Contexts /\ stack \in Seq(Contexts)
    /\ idt \in [Vectors -> {"none", "default", "fault", "timer", "keyboard", "floppy"}]
    /\ base \in {8, 32} /\ irr \subseteq Lines /\ isr \subseteq Lines
    /\ ticks \in 0 .. (TickValues - 1) /\ floppyDiskIRQ \in BOOLEAN /\ command \in BOOLEAN
    /\ bytes \in Nat /\ outputFull \in BOOLEAN /\ keys \in Nat /\ earlyKey \in BOOLEAN

\* HAL_EnableInterrupts comes before the drivers are installed (hal.c:28): the
\* only request that can meet the default handler, or an exception's, and so stop
\* the kernel for ever, is that of a key pressed before KeyboardInstall.
OnlyEarlyKeysHang == Hung => earlyKey

\* The PIC and the stack of contexts agree: a line is in service exactly while
\* its handler has not told the PIC that it is done, with interrupts disabled, so
\* that no request is kept back while they are enabled.
InServiceMatchesHandlers ==
    /\ isr = (IF running.at \in {"body", "done"} THEN {running.line} ELSE {})
    /\ IFlag => isr = {}
    /\ \A i \in 1 .. Len(stack) : stack[i].at \in {"main", "iret"}

\* "Sleep for specified number of clock ticks" (hal.c:148), whatever interrupts
\* meanwhile, unless the tick to wait for is past the wrap of the counter.
SleepIsLongEnough ==
    [][pc = "sleeping" /\ pc' # "sleeping" => slept >= asked \/ target < asked]_vars

\* The flag that ends a wait was set by a command that has ended: when it is
\* cleared no command and no interrupt of the floppy controller are outstanding.
WaitsMatchCommands ==
    pc = "clear" => floppyDiskIRQ /\ ~command /\ FloppyLine \notin irr \cup isr

\* The kernel gets to its shell, and every use of the floppy disk ends, unless
\* an early key has stopped the kernel.
CommandsEnd == (pc # "run") ~> (pc = "run" \/ Hung)

\* Every byte of the keyboard is read, unless a key was pressed before there was
\* a handler: such a byte may stay in the output buffer for ever, because the PIC
\* has forgotten its request.
BytesAreRead == outputFull ~> (~outputFull \/ earlyKey)

=============================================================================
