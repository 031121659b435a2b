-------------------------- MODULE InterruptsProofs --------------------------
(***************************************************************************)
(* Theorems about Interrupts for every width of the counter of ticks, every *)
(* length of the sleeps and any number of keys.                            *)
(***************************************************************************)
EXTENDS Interrupts, SequenceTheorems, TLAPS

-----------------------------------------------------------------------------
(* The inductive invariant.                                                *)

Installed == {"timer", "keyboard", "floppy"}

\* A context is main's or a handler's; only a handler that returns gets past its
\* body.
Good(context) ==
    /\ context.at = "main" => context = MainContext
    /\ context.at \in {"done", "sti", "iret"} => context.handler \in Installed
    /\ context.at # "main" => context.line \in Lines

\* Main is at the bottom of the stack, and what has been interrupted had
\* interrupts enabled.
Shape ==
    /\ running.at = "main" <=> stack = <<>>
    /\ Good(running)
    /\ \A i \in 1 .. Len(stack) :
           /\ Good(stack[i]) /\ stack[i].at \in {"main", "iret"}
           /\ stack[i].at = "main" <=> i = 1

\* A line is in service until its handler tells the PIC.
Service ==
    /\ IFlag => running.at \in {"main", "iret"}
    /\ isr = (IF running.at \in {"body", "done"} THEN {running.line} ELSE {})

BeforePic == {"cpu", "pic"}
BeforeEnable == BeforePic \cup {"pit", "counter", "enable"}
BeforeKeyboard == BeforeEnable \cup {"exceptions", "keyboard"}
BeforeFloppy == BeforeKeyboard \cup {"leds", "install"}

\* What has been set up at each point of the start.
Started ==
    /\ pc \in BeforeEnable => ~IFlag /\ running = MainContext
    /\ pc \notin BeforePic => base = 32
    /\ pc \notin BeforePic \cup {"pit"} => idt[32] = "timer"
    /\ pc \notin BeforeKeyboard => idt[33] = "keyboard"
    /\ idt[33] # "floppy"
    /\ pc \notin BeforeFloppy => idt[38] = "floppy"

\* Nothing requests before its handler is there, but the keyboard.
Requesters ==
    /\ FloppyLine \in irr \/ command => pc \notin BeforeFloppy
    /\ KeyboardLine \in irr \/ bytes > 0 => pc \notin BeforeKeyboard \/ earlyKey
    /\ Hung => earlyKey

FloppyRuns == running.handler = "floppy" /\ running.at = "body"

\* Between a command and the end of its wait exactly one thing stands for it.
Waiting == pc = "wait" \/ (pc \in {"sleep", "sleeping"} /\ back = "wait")

Matched ==
    /\ command \/ FloppyLine \in irr \/ FloppyRuns => Waiting /\ ~floppyDiskIRQ
    /\ FloppyLine \in irr \/ FloppyRuns => ~command
    /\ FloppyLine \in irr => ~FloppyRuns
    /\ floppyDiskIRQ => Waiting \/ pc = "clear"
    /\ pc = "clear" =>
           /\ floppyDiskIRQ /\ running.line # FloppyLine
           /\ \A i \in 1 .. Len(stack) : stack[i].line # FloppyLine
    /\ running.handler = "floppy" => running.line = FloppyLine
    /\ \A i \in 1 .. Len(stack) : stack[i].handler = "floppy" => stack[i].line = FloppyLine

\* While the counter has not wrapped it tells how long the sleep has been.
Counting ==
    pc = "sleeping" /\ asked <= target /\ slept < asked => ticks = target - asked + slept

IInv == TypeOK /\ Shape /\ Service /\ Started /\ Requesters /\ Matched /\ Counting

-----------------------------------------------------------------------------
(* Stacks.                                                                 *)

\* What Append does to a stack.
LEMMA Pushed ==
    ASSUME NEW S, NEW s \in Seq(S), NEW e \in S
    PROVE  /\ Append(s, e) \in Seq(S) /\ Append(s, e) # <<>>
           /\ Len(Append(s, e)) = Len(s) + 1
           /\ \A i \in 1 .. Len(s) : Append(s, e)[i] = s[i]
           /\ Append(s, e)[Len(s) + 1] = e
OBVIOUS

\* A stack is empty when its length is 0.
LEMMA EmptyStack ==
    ASSUME NEW S, NEW s \in Seq(S)
    PROVE  Len(s) \in Nat /\ (s = <<>> <=> Len(s) = 0)
BY EmptySeq

\* What removing its last element does to a stack.
LEMMA Popped ==
    ASSUME NEW S, NEW s \in Seq(S), s # <<>>
    PROVE  /\ Len(s) \in Nat \ {0} /\ s[Len(s)] \in S
           /\ SubSeq(s, 1, Len(s) - 1) \in Seq(S)
           /\ Len(SubSeq(s, 1, Len(s) - 1)) = Len(s) - 1
           /\ \A i \in 1 .. (Len(s) - 1) : SubSeq(s, 1, Len(s) - 1)[i] = s[i]
           /\ SubSeq(s, 1, Len(s) - 1) = <<>> <=> Len(s) = 1
<1>1. Len(s) \in Nat /\ Len(s) # 0 /\ s \in [1 .. Len(s) -> S]
  OBVIOUS
<1>2. s[Len(s)] \in S
  BY <1>1
<1>3. SubSeq(s, 1, Len(s) - 1) \in Seq(S)
  BY <1>1
<1>4. Len(SubSeq(s, 1, Len(s) - 1)) = Len(s) - 1
  BY <1>1
<1>5. \A i \in 1 .. (Len(s) - 1) : SubSeq(s, 1, Len(s) - 1)[i] = s[i]
  BY <1>1
<1>6. SubSeq(s, 1, Len(s) - 1) = <<>> <=> Len(s) = 1
  BY <1>1, <1>3, <1>4, EmptyStack
<1>. QED
  BY <1>1, <1>2, <1>3, <1>4, <1>5, <1>6

-----------------------------------------------------------------------------
(* Each part of the invariant is preserved.                                *)

\* Types are kept.
LEMMA TypePreserved ==
    ASSUME IInv, Next
    PROVE  TypeOK'
<1>. USE DEF IInv, TypeOK, vars, mainVars, processor, pic, floppy, keyboard
<1>1. CASE TakeInterrupt
  <2>1. PICK line \in Lines :
           /\ irr' = irr \ {line} /\ isr' = isr \cup {line}
           /\ stack' = Append(stack, running) /\ IFlag' = FALSE
           /\ running' = [handler |-> idt[base + line], line |-> line, at |-> "body"]
           /\ UNCHANGED <<mainVars, idt, base, ticks, floppy, keyboard, slept>>
    BY <1>1 DEF TakeInterrupt
  <2>2. base + line \in Vectors
    BY DEF Vectors, Lines, TimerLine, KeyboardLine, FloppyLine
  <2>3. running' \in Contexts
    BY <2>1, <2>2 DEF Contexts
  <2>4. stack' \in Seq(Contexts)
    BY <2>1, Pushed
  <2>5. IFlag' \in BOOLEAN /\ irr' \subseteq Lines /\ isr' \subseteq Lines
    BY <2>1, Zenon
  <2>6. UNCHANGED <<mainVars, idt, base, ticks, floppy, keyboard, slept>>
    BY <2>1
  <2>. QED
    BY <2>3, <2>4, <2>5, <2>6
<1>2. CASE I86_PIT_TimerInterruptHandler
  <2>1. running' \in Contexts
    BY <1>2 DEF I86_PIT_TimerInterruptHandler, RunsTo, Contexts
  <2>. QED
    BY <1>2, <2>1, InterruptsAssumption DEF I86_PIT_TimerInterruptHandler, RunsTo
<1>3. CASE I86KeyboardInterruptHandler
  <2>1. running' \in Contexts
    BY <1>3 DEF I86KeyboardInterruptHandler, RunsTo, Contexts
  <2>2. outputFull' \in BOOLEAN
    BY <1>3, Zenon DEF I86KeyboardInterruptHandler
  <2>3. UNCHANGED <<mainVars, stack, idt, pic, IFlag, ticks, floppy, bytes, keys, earlyKey, slept>>
    BY <1>3 DEF I86KeyboardInterruptHandler, RunsTo
  <2>. QED
    BY <2>1, <2>2, <2>3
<1>4. CASE I86_FloppyDriveInterruptHandler
  <2>1. running' \in Contexts
    BY <1>4 DEF I86_FloppyDriveInterruptHandler, RunsTo, Contexts
  <2>. QED
    BY <1>4, <2>1, InterruptsAssumption DEF I86_FloppyDriveInterruptHandler, RunsTo
<1>5. CASE Done
  <2>1. running' \in Contexts
    BY <1>5 DEF Done, RunsTo, HAL_InterruptDone, DoneArgument, EndOfInterrupt, Contexts
  <2>. QED
    BY <1>5, <2>1, InterruptsAssumption DEF Done, RunsTo, HAL_InterruptDone,
       DoneArgument, EndOfInterrupt
<1>6. CASE Sti
  <2>1. running' \in Contexts
    BY <1>6 DEF Sti, RunsTo, Contexts
  <2>. QED
    BY <1>6, <2>1, InterruptsAssumption DEF Sti, RunsTo
<1>7. CASE Iret
  <2>1. stack # <<>>
    BY <1>7 DEF Iret, Shape
  <2>2. running' \in Contexts /\ stack' \in Seq(Contexts)
    BY <1>7, <2>1, Popped DEF Iret
  <2>. QED
    BY <1>7, <2>2 DEF Iret
<1>8. CASE Loop
  BY <1>8 DEF Loop
<1>9. CASE I86_CPU_Initialise
  BY <1>9 DEF I86_CPU_Initialise, MainGoes, MainRuns
<1>10. CASE InitialisePic
  BY <1>10 DEF InitialisePic, I86_PIC_Initialise, MainGoes, MainRuns
<1>11. CASE I86_PIT_Initialise
  BY <1>11 DEF I86_PIT_Initialise, SetVector, MainGoes, MainRuns
<1>12. CASE I86_PIT_StartCounter
  BY <1>12, InterruptsAssumption DEF I86_PIT_StartCounter, MainGoes, MainRuns
<1>13. CASE HAL_EnableInterrupts
  BY <1>13 DEF HAL_EnableInterrupts, MainGoes, MainRuns
<1>14. CASE InitialiseInterrupts
  BY <1>14 DEF InitialiseInterrupts, MainGoes, MainRuns
<1>15. CASE KeyboardInstall
  BY <1>15 DEF KeyboardInstall, SetVector, MainGoes, MainRuns
<1>16. CASE InstallLeds
  BY <1>16 DEF InstallLeds, SetLeds, MainGoes, MainRuns
<1>17. CASE FloppyDriveInstall
  BY <1>17 DEF FloppyDriveInstall, SetVector, MainGoes, MainRuns
<1>18. CASE FloppyDriveSendCommand
  BY <1>18 DEF FloppyDriveSendCommand, MainGoes, MainRuns
<1>19. CASE FloppyDriveWaitForInterrupt
  BY <1>19 DEF FloppyDriveWaitForInterrupt, Sleep, MainGoes, MainRuns
<1>20. CASE ClearFlag
  BY <1>20 DEF ClearFlag, MainGoes, MainRuns
<1>21. CASE FloppyDriveControlMotor
  BY <1>21 DEF FloppyDriveControlMotor, Sleep, MainRuns
<1>22. CASE HAL_Sleep
  BY <1>22, InterruptsAssumption DEF HAL_Sleep, MainRuns
<1>23. CASE WakeUp
  BY <1>23, InterruptsAssumption DEF WakeUp, MainRuns
<1>24. CASE Run
  BY <1>24 DEF Run, SetLeds, MainGoes, MainRuns
<1>25. CASE Tick
  BY <1>25 DEF Tick, Requests, Lines, TimerLine, KeyboardLine, FloppyLine
<1>26. CASE CommandEnds
  <2>1. command' \in BOOLEAN
    BY <1>26, Zenon DEF CommandEnds
  <2>2. irr' \subseteq Lines
    BY <1>26 DEF CommandEnds, Requests, Lines, TimerLine, KeyboardLine, FloppyLine
  <2>3. UNCHANGED <<mainVars, processor, idt, base, isr, ticks, floppyDiskIRQ, keyboard, slept>>
    BY <1>26 DEF CommandEnds, Requests
  <2>. QED
    BY <2>1, <2>2, <2>3
<1>27. CASE PressKey
  BY <1>27 DEF PressKey
<1>28. CASE KeyboardSends
  BY <1>28 DEF KeyboardSends, Requests, Lines, TimerLine, KeyboardLine, FloppyLine
<1>. QED
  BY <1>1, <1>2, <1>3, <1>4, <1>5, <1>6, <1>7, <1>8, <1>9, <1>10, <1>11, <1>12, <1>13,
     <1>14, <1>15, <1>16, <1>17, <1>18, <1>19, <1>20, <1>21, <1>22, <1>23, <1>24,
     <1>25, <1>26, <1>27, <1>28 DEF Next, Handlers, MainStep, Starts

\* What the stack and the line are when an interrupt is taken, and after iret.
LEMMA Taken ==
    ASSUME TypeOK, TakeInterrupt
    PROVE  \E line \in Lines :
               /\ IFlag /\ ~IFlag' /\ line \in irr
               /\ irr' = irr \ {line} /\ isr' = isr \cup {line}
               /\ running' = [handler |-> idt[base + line], line |-> line, at |-> "body"]
               /\ Len(stack') = Len(stack) + 1 /\ stack' # <<>>
               /\ \A i \in 1 .. Len(stack) : stack'[i] = stack[i]
               /\ stack'[Len(stack) + 1] = running
               /\ UNCHANGED <<mainVars, idt, base, ticks, floppy, keyboard, slept>>
<1>1. PICK line \in Lines :
          /\ IFlag /\ Requested(line) /\ irr' = irr \ {line} /\ isr' = isr \cup {line}
          /\ running' = [handler |-> idt[base + line], line |-> line, at |-> "body"]
          /\ stack' = Append(stack, running) /\ IFlag' = FALSE
          /\ UNCHANGED <<mainVars, idt, base, ticks, floppy, keyboard, slept>>
  BY DEF TakeInterrupt
<1>2. /\ Len(stack') = Len(stack) + 1 /\ stack' # <<>>
      /\ \A i \in 1 .. Len(stack) : stack'[i] = stack[i]
      /\ stack'[Len(stack) + 1] = running
  BY <1>1, Pushed DEF TypeOK
<1>3. line \in irr
  BY <1>1 DEF Requested
<1>. QED
  BY <1>1, <1>2, <1>3

\* What iret does to the stack.
LEMMA Returned ==
    ASSUME TypeOK, Shape, Iret
    PROVE  /\ running.at = "iret" /\ IFlag' /\ running' = stack[Len(stack)]
           /\ Len(stack) \in Nat \ {0} /\ Len(stack') = Len(stack) - 1
           /\ stack' = <<>> <=> Len(stack) = 1
           /\ \A i \in 1 .. (Len(stack) - 1) : stack'[i] = stack[i]
           /\ UNCHANGED <<mainVars, idt, pic, ticks, floppy, keyboard, slept>>
<1>1. stack \in Seq(Contexts) /\ stack # <<>>
  BY DEF TypeOK, Shape, Iret
<1>2. stack' = SubSeq(stack, 1, Len(stack) - 1)
  BY DEF Iret
<1>3. /\ Len(stack) \in Nat \ {0} /\ Len(stack') = Len(stack) - 1
      /\ stack' = <<>> <=> Len(stack) = 1
      /\ \A i \in 1 .. (Len(stack) - 1) : stack'[i] = stack[i]
  BY <1>1, <1>2, Popped
<1>. QED
  BY <1>3 DEF Iret

\* An interrupted context goes on top of the stack.
LEMMA ShapeTake ==
    ASSUME IInv, TakeInterrupt
    PROVE  Shape'
<1>1. PICK line \in Lines :
          /\ IFlag
          /\ running' = [handler |-> idt[base + line], line |-> line, at |-> "body"]
          /\ Len(stack') = Len(stack) + 1 /\ stack' # <<>>
          /\ \A i \in 1 .. Len(stack) : stack'[i] = stack[i]
          /\ stack'[Len(stack) + 1] = running
  BY Taken DEF IInv
<1>2. running'.at = "body" /\ Good(running')
  BY <1>1 DEF Good
<1>3. Len(stack) \in Nat /\ (stack = <<>> <=> Len(stack) = 0)
  BY EmptyStack DEF IInv, TypeOK
<1>4. /\ Good(running) /\ running.at \in {"main", "iret"}
      /\ running.at = "main" <=> Len(stack) + 1 = 1
  BY <1>1, <1>3 DEF IInv, Shape, Service
<1>5. ASSUME NEW i \in 1 .. Len(stack')
      PROVE  /\ Good(stack'[i]) /\ stack'[i].at \in {"main", "iret"}
             /\ stack'[i].at = "main" <=> i = 1
  <2>1. i \in 1 .. Len(stack) \/ i = Len(stack) + 1
    BY <1>1, <1>3
  <2>2. CASE i \in 1 .. Len(stack)
    BY <1>1, <2>2 DEF IInv, Shape
  <2>3. CASE i = Len(stack) + 1
    BY <1>1, <1>4, <2>3
  <2>. QED
    BY <2>1, <2>2, <2>3
<1>. QED
  BY <1>1, <1>2, <1>5 DEF Shape, Good

\* The context on top of the stack goes on.
LEMMA ShapeIret ==
    ASSUME IInv, Iret
    PROVE  Shape'
<1>1. /\ running' = stack[Len(stack)]
      /\ Len(stack) \in Nat \ {0} /\ Len(stack') = Len(stack) - 1
      /\ stack' = <<>> <=> Len(stack) = 1
      /\ \A i \in 1 .. (Len(stack) - 1) : stack'[i] = stack[i]
  BY Returned DEF IInv
<1>2. Good(running') /\ (running'.at = "main" <=> stack' = <<>>)
  BY <1>1 DEF IInv, Shape
<1>3. ASSUME NEW i \in 1 .. Len(stack')
      PROVE  /\ Good(stack'[i]) /\ stack'[i].at \in {"main", "iret"}
             /\ stack'[i].at = "main" <=> i = 1
  BY <1>1 DEF IInv, Shape
<1>. QED
  BY <1>2, <1>3 DEF Shape, Good

\* The stack keeps its shape.
LEMMA ShapePreserved ==
    ASSUME IInv, Next
    PROVE  Shape'
<1>. USE DEF IInv, TypeOK, Contexts, Shape, Good, Installed, MainContext, Service,
   Lines, TimerLine, KeyboardLine, FloppyLine, vars, mainVars, processor, pic, floppy, keyboard
<1>1. CASE TakeInterrupt
  BY <1>1, ShapeTake
<1>2. CASE I86_PIT_TimerInterruptHandler
  BY <1>2 DEF I86_PIT_TimerInterruptHandler, RunsTo
<1>3. CASE I86KeyboardInterruptHandler
  BY <1>3 DEF I86KeyboardInterruptHandler, RunsTo
<1>4. CASE I86_FloppyDriveInterruptHandler
  BY <1>4 DEF I86_FloppyDriveInterruptHandler, RunsTo
<1>5. CASE Done
  BY <1>5 DEF Done, RunsTo, HAL_InterruptDone, DoneArgument, EndOfInterrupt
<1>6. CASE Sti
  BY <1>6 DEF Sti, RunsTo
<1>7. CASE Iret
  BY <1>7, ShapeIret
<1>8. CASE Loop
  BY <1>8 DEF Loop
<1>9. CASE I86_CPU_Initialise
  BY <1>9 DEF I86_CPU_Initialise, MainGoes, MainRuns
<1>10. CASE InitialisePic
  BY <1>10 DEF InitialisePic, I86_PIC_Initialise, MainGoes, MainRuns
<1>11. CASE I86_PIT_Initialise
  BY <1>11 DEF I86_PIT_Initialise, SetVector, MainGoes, MainRuns
<1>12. CASE I86_PIT_StartCounter
  BY <1>12 DEF I86_PIT_StartCounter, MainGoes, MainRuns
<1>13. CASE HAL_EnableInterrupts
  BY <1>13 DEF HAL_EnableInterrupts, MainGoes, MainRuns
<1>14. CASE InitialiseInterrupts
  BY <1>14 DEF InitialiseInterrupts, MainGoes, MainRuns
<1>15. CASE KeyboardInstall
  BY <1>15 DEF KeyboardInstall, SetVector, MainGoes, MainRuns
<1>16. CASE InstallLeds
  BY <1>16 DEF InstallLeds, SetLeds, MainGoes, MainRuns
<1>17. CASE FloppyDriveInstall
  BY <1>17 DEF FloppyDriveInstall, SetVector, MainGoes, MainRuns
<1>18. CASE FloppyDriveSendCommand
  BY <1>18 DEF FloppyDriveSendCommand, MainGoes, MainRuns
<1>19. CASE FloppyDriveWaitForInterrupt
  BY <1>19 DEF FloppyDriveWaitForInterrupt, Sleep, MainGoes, MainRuns
<1>20. CASE ClearFlag
  BY <1>20 DEF ClearFlag, MainGoes, MainRuns
<1>21. CASE FloppyDriveControlMotor
  BY <1>21 DEF FloppyDriveControlMotor, Sleep, MainRuns
<1>22. CASE HAL_Sleep
  BY <1>22 DEF HAL_Sleep, MainRuns
<1>23. CASE WakeUp
  BY <1>23 DEF WakeUp, MainRuns
<1>24. CASE Run
  BY <1>24 DEF Run, SetLeds, MainGoes, MainRuns
<1>25. CASE Tick
  BY <1>25 DEF Tick, Requests
<1>26. CASE CommandEnds
  BY <1>26 DEF CommandEnds, Requests
<1>27. CASE PressKey
  BY <1>27 DEF PressKey
<1>28. CASE KeyboardSends
  BY <1>28 DEF KeyboardSends, Requests
<1>. QED
  BY <1>1, <1>2, <1>3, <1>4, <1>5, <1>6, <1>7, <1>8, <1>9, <1>10, <1>11, <1>12, <1>13,
     <1>14, <1>15, <1>16, <1>17, <1>18, <1>19, <1>20, <1>21, <1>22, <1>23, <1>24,
     <1>25, <1>26, <1>27, <1>28 DEF Next, Handlers, MainStep, Starts

\* The PIC and the running context agree.
LEMMA ServicePreserved ==
    ASSUME IInv, Next
    PROVE  Service'
<1>. USE DEF IInv, TypeOK, Contexts, Shape, Good, Installed, MainContext, Service,
   Lines, TimerLine, KeyboardLine, FloppyLine, vars, mainVars, processor, pic, floppy, keyboard
<1>1. CASE TakeInterrupt
  BY <1>1 DEF TakeInterrupt, Requested
<1>2. CASE I86_PIT_TimerInterruptHandler
  BY <1>2 DEF I86_PIT_TimerInterruptHandler, RunsTo
<1>3. CASE I86KeyboardInterruptHandler
  BY <1>3 DEF I86KeyboardInterruptHandler, RunsTo
<1>4. CASE I86_FloppyDriveInterruptHandler
  BY <1>4 DEF I86_FloppyDriveInterruptHandler, RunsTo
<1>5. CASE Done
  BY <1>5 DEF Done, RunsTo, HAL_InterruptDone, DoneArgument, EndOfInterrupt
<1>6. CASE Sti
  BY <1>6 DEF Sti, RunsTo
<1>7. CASE Iret
  BY <1>7 DEF Iret
<1>8. CASE Loop
  BY <1>8 DEF Loop
<1>9. CASE I86_CPU_Initialise
  BY <1>9 DEF I86_CPU_Initialise, MainGoes, MainRuns
<1>10. CASE InitialisePic
  BY <1>10 DEF InitialisePic, I86_PIC_Initialise, MainGoes, MainRuns
<1>11. CASE I86_PIT_Initialise
  BY <1>11 DEF I86_PIT_Initialise, SetVector, MainGoes, MainRuns
<1>12. CASE I86_PIT_StartCounter
  BY <1>12 DEF I86_PIT_StartCounter, MainGoes, MainRuns
<1>13. CASE HAL_EnableInterrupts
  BY <1>13 DEF HAL_EnableInterrupts, MainGoes, MainRuns
<1>14. CASE InitialiseInterrupts
  BY <1>14 DEF InitialiseInterrupts, MainGoes, MainRuns
<1>15. CASE KeyboardInstall
  BY <1>15 DEF KeyboardInstall, SetVector, MainGoes, MainRuns
<1>16. CASE InstallLeds
  BY <1>16 DEF InstallLeds, SetLeds, MainGoes, MainRuns
<1>17. CASE FloppyDriveInstall
  BY <1>17 DEF FloppyDriveInstall, SetVector, MainGoes, MainRuns
<1>18. CASE FloppyDriveSendCommand
  BY <1>18 DEF FloppyDriveSendCommand, MainGoes, MainRuns
<1>19. CASE FloppyDriveWaitForInterrupt
  BY <1>19 DEF FloppyDriveWaitForInterrupt, Sleep, MainGoes, MainRuns
<1>20. CASE ClearFlag
  BY <1>20 DEF ClearFlag, MainGoes, MainRuns
<1>21. CASE FloppyDriveControlMotor
  BY <1>21 DEF FloppyDriveControlMotor, Sleep, MainRuns
<1>22. CASE HAL_Sleep
  BY <1>22 DEF HAL_Sleep, MainRuns
<1>23. CASE WakeUp
  BY <1>23 DEF WakeUp, MainRuns
<1>24. CASE Run
  BY <1>24 DEF Run, SetLeds, MainGoes, MainRuns
<1>25. CASE Tick
  BY <1>25 DEF Tick, Requests
<1>26. CASE CommandEnds
  BY <1>26 DEF CommandEnds, Requests
<1>27. CASE PressKey
  BY <1>27 DEF PressKey
<1>28. CASE KeyboardSends
  BY <1>28 DEF KeyboardSends, Requests
<1>. QED
  BY <1>1, <1>2, <1>3, <1>4, <1>5, <1>6, <1>7, <1>8, <1>9, <1>10, <1>11, <1>12, <1>13,
     <1>14, <1>15, <1>16, <1>17, <1>18, <1>19, <1>20, <1>21, <1>22, <1>23, <1>24,
     <1>25, <1>26, <1>27, <1>28 DEF Next, Handlers, MainStep, Starts

\* What has been set up stays.
LEMMA StartedPreserved ==
    ASSUME IInv, Next
    PROVE  Started'
<1>. USE DEF IInv, TypeOK, Contexts, Shape, Good, MainContext, Started, BeforePic,
   BeforeEnable, BeforeKeyboard, BeforeFloppy, Vectors, vars, mainVars, processor, pic,
   floppy, keyboard
<1>1. CASE TakeInterrupt
  BY <1>1 DEF TakeInterrupt, Requested
<1>2. CASE I86_PIT_TimerInterruptHandler
  BY <1>2 DEF I86_PIT_TimerInterruptHandler, RunsTo
<1>3. CASE I86KeyboardInterruptHandler
  BY <1>3 DEF I86KeyboardInterruptHandler, RunsTo
<1>4. CASE I86_FloppyDriveInterruptHandler
  BY <1>4 DEF I86_FloppyDriveInterruptHandler, RunsTo
<1>5. CASE Done
  BY <1>5 DEF Done, RunsTo, HAL_InterruptDone, DoneArgument, EndOfInterrupt
<1>6. CASE Sti
  BY <1>6 DEF Sti, RunsTo
<1>7. CASE Iret
  BY <1>7 DEF Iret
<1>8. CASE Loop
  BY <1>8 DEF Loop
<1>9. CASE I86_CPU_Initialise
  BY <1>9 DEF I86_CPU_Initialise, MainGoes, MainRuns
<1>10. CASE InitialisePic
  BY <1>10 DEF InitialisePic, I86_PIC_Initialise, MainGoes, MainRuns
<1>11. CASE I86_PIT_Initialise
  BY <1>11 DEF I86_PIT_Initialise, SetVector, MainGoes, MainRuns
<1>12. CASE I86_PIT_StartCounter
  BY <1>12 DEF I86_PIT_StartCounter, MainGoes, MainRuns
<1>13. CASE HAL_EnableInterrupts
  BY <1>13 DEF HAL_EnableInterrupts, MainGoes, MainRuns
<1>14. CASE InitialiseInterrupts
  BY <1>14 DEF InitialiseInterrupts, MainGoes, MainRuns
<1>15. CASE KeyboardInstall
  BY <1>15 DEF KeyboardInstall, SetVector, MainGoes, MainRuns
<1>16. CASE InstallLeds
  BY <1>16 DEF InstallLeds, SetLeds, MainGoes, MainRuns
<1>17. CASE FloppyDriveInstall
  BY <1>17 DEF FloppyDriveInstall, SetVector, MainGoes, MainRuns
<1>18. CASE FloppyDriveSendCommand
  BY <1>18 DEF FloppyDriveSendCommand, MainGoes, MainRuns
<1>19. CASE FloppyDriveWaitForInterrupt
  BY <1>19 DEF FloppyDriveWaitForInterrupt, Sleep, MainGoes, MainRuns
<1>20. CASE ClearFlag
  BY <1>20 DEF ClearFlag, MainGoes, MainRuns
<1>21. CASE FloppyDriveControlMotor
  BY <1>21 DEF FloppyDriveControlMotor, Sleep, MainRuns
<1>22. CASE HAL_Sleep
  BY <1>22 DEF HAL_Sleep, MainRuns
<1>23. CASE WakeUp
  BY <1>23 DEF WakeUp, MainRuns
<1>24. CASE Run
  BY <1>24 DEF Run, SetLeds, MainGoes, MainRuns
<1>25. CASE Tick
  BY <1>25 DEF Tick, Requests
<1>26. CASE CommandEnds
  BY <1>26 DEF CommandEnds, Requests
<1>27. CASE PressKey
  BY <1>27 DEF PressKey
<1>28. CASE KeyboardSends
  BY <1>28 DEF KeyboardSends, Requests
<1>. QED
  BY <1>1, <1>2, <1>3, <1>4, <1>5, <1>6, <1>7, <1>8, <1>9, <1>10, <1>11, <1>12, <1>13,
     <1>14, <1>15, <1>16, <1>17, <1>18, <1>19, <1>20, <1>21, <1>22, <1>23, <1>24,
     <1>25, <1>26, <1>27, <1>28 DEF Next, Handlers, MainStep, Starts

\* The handler that an interrupt is given to.
LEMMA HandlerTaken ==
    ASSUME IInv, NEW line \in Lines, IFlag, line \in irr
    PROVE  /\ line = TimerLine => idt[base + line] = "timer"
           /\ line = KeyboardLine => idt[base + line] = "keyboard" \/ earlyKey
           /\ line = FloppyLine => idt[base + line] = "floppy" /\ pc \notin BeforeFloppy
<1>1. pc \notin BeforeEnable
  BY DEF IInv, Started
<1>2. base = 32 /\ idt[32] = "timer"
  BY <1>1 DEF IInv, Started, BeforeEnable, BeforePic
<1>3. line = KeyboardLine => idt[33] = "keyboard" \/ earlyKey
  BY DEF IInv, Requesters, Started
<1>4. line = FloppyLine => idt[38] = "floppy" /\ pc \notin BeforeFloppy
  BY DEF IInv, Requesters, Started
<1>. QED
  BY <1>2, <1>3, <1>4 DEF TimerLine, KeyboardLine, FloppyLine

\* No interrupt is given to a handler that stops the kernel without an early key.
LEMMA RequestersTake ==
    ASSUME IInv, TakeInterrupt
    PROVE  Requesters'
<1>1. PICK line \in Lines :
          /\ IFlag /\ line \in irr /\ irr' = irr \ {line}
          /\ running' = [handler |-> idt[base + line], line |-> line, at |-> "body"]
          /\ UNCHANGED <<pc, command, bytes, earlyKey>>
  BY Taken DEF IInv, mainVars, floppy, keyboard
<1>2. running'.handler \in Installed \/ earlyKey
  BY <1>1, HandlerTaken DEF Lines, Installed
<1>3. Hung' => earlyKey'
  BY <1>1, <1>2 DEF Hung, Installed
<1>. QED
  BY <1>1, <1>3 DEF IInv, Requesters, BeforeFloppy, BeforeKeyboard

\* No context that is on the stack has stopped.
LEMMA RequestersIret ==
    ASSUME IInv, Iret
    PROVE  Requesters'
<1>1. running' = stack[Len(stack)] /\ UNCHANGED <<pc, irr, command, bytes, earlyKey>>
  BY Returned DEF IInv, mainVars, floppy, keyboard, pic
<1>2. Good(running') /\ running'.at \in {"main", "iret"}
  BY <1>1, Returned DEF IInv, Shape
<1>3. ~Hung'
  BY <1>2 DEF Good, Hung, Installed, MainContext
<1>. QED
  BY <1>1, <1>3 DEF IInv, Requesters, BeforeFloppy, BeforeKeyboard

\* Requests meet their handlers.
LEMMA RequestersPreserved ==
    ASSUME IInv, Next
    PROVE  Requesters'
<1>. USE DEF IInv, TypeOK, Contexts, Shape, Good, Installed, MainContext, Started,
   Requesters, Hung, BeforePic, BeforeEnable, BeforeKeyboard, BeforeFloppy, Vectors,
   Lines, TimerLine, KeyboardLine, FloppyLine, vars, mainVars, processor, pic, floppy, keyboard
<1>1. CASE TakeInterrupt
  BY <1>1, RequestersTake
<1>2. CASE I86_PIT_TimerInterruptHandler
  BY <1>2 DEF I86_PIT_TimerInterruptHandler, RunsTo
<1>3. CASE I86KeyboardInterruptHandler
  BY <1>3 DEF I86KeyboardInterruptHandler, RunsTo
<1>4. CASE I86_FloppyDriveInterruptHandler
  BY <1>4 DEF I86_FloppyDriveInterruptHandler, RunsTo
<1>5. CASE Done
  BY <1>5 DEF Done, RunsTo, HAL_InterruptDone, DoneArgument, EndOfInterrupt
<1>6. CASE Sti
  BY <1>6 DEF Sti, RunsTo
<1>7. CASE Iret
  BY <1>7, RequestersIret
<1>8. CASE Loop
  BY <1>8 DEF Loop
<1>9. CASE I86_CPU_Initialise
  BY <1>9 DEF I86_CPU_Initialise, MainGoes, MainRuns
<1>10. CASE InitialisePic
  BY <1>10 DEF InitialisePic, I86_PIC_Initialise, MainGoes, MainRuns
<1>11. CASE I86_PIT_Initialise
  BY <1>11 DEF I86_PIT_Initialise, SetVector, MainGoes, MainRuns
<1>12. CASE I86_PIT_StartCounter
  BY <1>12 DEF I86_PIT_StartCounter, MainGoes, MainRuns
<1>13. CASE HAL_EnableInterrupts
  BY <1>13 DEF HAL_EnableInterrupts, MainGoes, MainRuns
<1>14. CASE InitialiseInterrupts
  BY <1>14 DEF InitialiseInterrupts, MainGoes, MainRuns
<1>15. CASE KeyboardInstall
  BY <1>15 DEF KeyboardInstall, SetVector, MainGoes, MainRuns
<1>16. CASE InstallLeds
  BY <1>16 DEF InstallLeds, SetLeds, MainGoes, MainRuns
<1>17. CASE FloppyDriveInstall
  BY <1>17 DEF FloppyDriveInstall, SetVector, MainGoes, MainRuns
<1>18. CASE FloppyDriveSendCommand
  BY <1>18 DEF FloppyDriveSendCommand, MainGoes, MainRuns
<1>19. CASE FloppyDriveWaitForInterrupt
  BY <1>19 DEF FloppyDriveWaitForInterrupt, Sleep, MainGoes, MainRuns
<1>20. CASE ClearFlag
  BY <1>20 DEF ClearFlag, MainGoes, MainRuns
<1>21. CASE FloppyDriveControlMotor
  BY <1>21 DEF FloppyDriveControlMotor, Sleep, MainRuns
<1>22. CASE HAL_Sleep
  BY <1>22 DEF HAL_Sleep, MainRuns
<1>23. CASE WakeUp
  BY <1>23 DEF WakeUp, MainRuns
<1>24. CASE Run
  BY <1>24 DEF Run, SetLeds, MainGoes, MainRuns
<1>25. CASE Tick
  BY <1>25 DEF Tick, Requests
<1>26. CASE CommandEnds
  BY <1>26 DEF CommandEnds, Requests
<1>27. CASE PressKey
  BY <1>27 DEF PressKey
<1>28. CASE KeyboardSends
  BY <1>28 DEF KeyboardSends, Requests
<1>. QED
  BY <1>1, <1>2, <1>3, <1>4, <1>5, <1>6, <1>7, <1>8, <1>9, <1>10, <1>11, <1>12, <1>13,
     <1>14, <1>15, <1>16, <1>17, <1>18, <1>19, <1>20, <1>21, <1>22, <1>23, <1>24,
     <1>25, <1>26, <1>27, <1>28 DEF Next, Handlers, MainStep, Starts

\* An interrupt of the floppy controller becomes a run of its handler.
LEMMA MatchedTake ==
    ASSUME IInv, TakeInterrupt
    PROVE  Matched'
<1>1. PICK line \in Lines :
          /\ IFlag /\ line \in irr /\ irr' = irr \ {line}
          /\ running' = [handler |-> idt[base + line], line |-> line, at |-> "body"]
          /\ Len(stack') = Len(stack) + 1
          /\ \A i \in 1 .. Len(stack) : stack'[i] = stack[i]
          /\ stack'[Len(stack) + 1] = running
          /\ UNCHANGED <<pc, back, command, floppyDiskIRQ>>
  BY Taken DEF IInv, mainVars, floppy
<1>2. running'.handler = "floppy" <=> line = FloppyLine
  <2>1. pc \notin BeforeEnable /\ idt[33] # "floppy" /\ base = 32
    BY <1>1 DEF IInv, Started, BeforeEnable, BeforePic
  <2>. QED
    BY <1>1, <2>1, HandlerTaken DEF Lines, TimerLine, KeyboardLine, FloppyLine
<1>3. running.at \in {"main", "iret"}
  BY <1>1 DEF IInv, Service
<1>4. FloppyRuns' <=> line = FloppyLine
  BY <1>1, <1>2 DEF FloppyRuns
<1>5. Waiting' <=> Waiting
  BY <1>1 DEF Waiting
<1>6. FloppyLine \in irr' => FloppyLine \in irr /\ line # FloppyLine
  BY <1>1
<1>7. ASSUME pc' = "clear"
      PROVE  /\ floppyDiskIRQ' /\ running'.line # FloppyLine
             /\ \A i \in 1 .. Len(stack') : stack'[i].line # FloppyLine
  <2>1. pc = "clear" /\ ~Waiting
    BY <1>1, <1>7 DEF Waiting
  <2>2. line # FloppyLine /\ running.line # FloppyLine /\ floppyDiskIRQ
        /\ \A i \in 1 .. Len(stack) : stack[i].line # FloppyLine
    BY <1>1, <2>1 DEF IInv, Matched
  <2>3. Len(stack) \in Nat
    BY DEF IInv, TypeOK
  <2>. QED
    BY <1>1, <2>2, <2>3
<1>8. command \/ FloppyLine \in irr => Waiting /\ ~floppyDiskIRQ
  BY DEF IInv, Matched
<1>9. FloppyLine \in irr => ~command
  BY DEF IInv, Matched
<1>10. floppyDiskIRQ => Waiting \/ pc = "clear"
  BY DEF IInv, Matched
<1>11. ASSUME NEW i \in 1 .. Len(stack'), stack'[i].handler = "floppy"
       PROVE  stack'[i].line = FloppyLine
  <2>1. Len(stack) \in Nat
    BY DEF IInv, TypeOK
  <2>2. CASE i \in 1 .. Len(stack)
    BY <1>1, <1>11, <2>2 DEF IInv, Matched
  <2>3. CASE i = Len(stack) + 1
    BY <1>1, <1>11, <2>3 DEF IInv, Matched
  <2>. QED
    BY <1>1, <2>1, <2>2, <2>3
<1>12. running'.handler = "floppy" => running'.line = FloppyLine
  BY <1>1, <1>2
<1>13. command' \/ FloppyLine \in irr' \/ FloppyRuns' => Waiting' /\ ~floppyDiskIRQ'
  BY <1>1, <1>4, <1>5, <1>6, <1>8
<1>14. /\ FloppyLine \in irr' \/ FloppyRuns' => ~command'
       /\ FloppyLine \in irr' => ~FloppyRuns'
       /\ floppyDiskIRQ' => Waiting' \/ pc' = "clear"
  BY <1>1, <1>4, <1>5, <1>6, <1>9, <1>10
<1>. QED
  BY <1>7, <1>11, <1>12, <1>13, <1>14 DEF Matched

\* A return from a handler leaves the wait alone.
LEMMA MatchedIret ==
    ASSUME IInv, Iret
    PROVE  Matched'
<1>1. /\ running.at = "iret" /\ running' = stack[Len(stack)]
      /\ Len(stack) \in Nat \ {0} /\ Len(stack') = Len(stack) - 1
      /\ \A i \in 1 .. (Len(stack) - 1) : stack'[i] = stack[i]
      /\ UNCHANGED <<pc, back, irr, command, floppyDiskIRQ>>
  BY Returned DEF IInv, mainVars, floppy, pic
<1>2. running'.at \in {"main", "iret"} /\ ~FloppyRuns' /\ ~FloppyRuns
  BY <1>1 DEF IInv, Shape, FloppyRuns
<1>3. Waiting' <=> Waiting
  BY <1>1 DEF Waiting
<1>4. ASSUME pc' = "clear"
      PROVE  /\ floppyDiskIRQ' /\ running'.line # FloppyLine
             /\ \A i \in 1 .. Len(stack') : stack'[i].line # FloppyLine
  BY <1>1, <1>4 DEF IInv, Matched
<1>5. running'.handler = "floppy" => running'.line = FloppyLine
  BY <1>1 DEF IInv, Matched
<1>. QED
  BY <1>1, <1>2, <1>3, <1>4, <1>5 DEF IInv, Matched

\* A step of main that starts or ends no wait and does not touch the floppy
\* controller keeps it quiet.
LEMMA MatchedMain ==
    ASSUME IInv, MainRuns(pc), pc' \notin {"clear"},
           UNCHANGED <<irr, command, floppyDiskIRQ>>,
           floppyDiskIRQ \/ command \/ FloppyLine \in irr => Waiting'
    PROVE  Matched'
<1>1. running = MainContext /\ running' = running /\ stack' = stack
  BY DEF MainRuns
<1>2. ~FloppyRuns /\ ~FloppyRuns' /\ running.handler # "floppy"
  BY <1>1 DEF FloppyRuns, MainContext
<1>. QED
  BY <1>1, <1>2 DEF IInv, Matched

\* Commands and interrupts of the floppy controller match.
LEMMA MatchedPreserved ==
    ASSUME IInv, Next
    PROVE  Matched'
<1>. USE DEF IInv, TypeOK, Contexts, Shape, Good, Installed, MainContext, Started,
   Requesters, Matched, FloppyRuns, Waiting, BeforePic, BeforeEnable, BeforeKeyboard,
   BeforeFloppy, Vectors, Lines, TimerLine, KeyboardLine, FloppyLine, vars, mainVars, processor, pic, floppy, keyboard
<1>1. CASE TakeInterrupt
  BY <1>1, MatchedTake
<1>2. CASE I86_PIT_TimerInterruptHandler
  BY <1>2 DEF I86_PIT_TimerInterruptHandler, RunsTo
<1>3. CASE I86KeyboardInterruptHandler
  BY <1>3 DEF I86KeyboardInterruptHandler, RunsTo
<1>4. CASE I86_FloppyDriveInterruptHandler
  BY <1>4 DEF I86_FloppyDriveInterruptHandler, RunsTo
<1>5. CASE Done
  BY <1>5 DEF Done, RunsTo, HAL_InterruptDone, DoneArgument, EndOfInterrupt
<1>6. CASE Sti
  BY <1>6 DEF Sti, RunsTo
<1>7. CASE Iret
  BY <1>7, MatchedIret
<1>8. CASE Loop
  BY <1>8 DEF Loop
<1>9. CASE I86_CPU_Initialise
  BY <1>9 DEF I86_CPU_Initialise, MainGoes, MainRuns
<1>10. CASE InitialisePic
  BY <1>10 DEF InitialisePic, I86_PIC_Initialise, MainGoes, MainRuns
<1>11. CASE I86_PIT_Initialise
  BY <1>11 DEF I86_PIT_Initialise, SetVector, MainGoes, MainRuns
<1>12. CASE I86_PIT_StartCounter
  BY <1>12 DEF I86_PIT_StartCounter, MainGoes, MainRuns
<1>13. CASE HAL_EnableInterrupts
  BY <1>13 DEF HAL_EnableInterrupts, MainGoes, MainRuns
<1>14. CASE InitialiseInterrupts
  BY <1>14 DEF InitialiseInterrupts, MainGoes, MainRuns
<1>15. CASE KeyboardInstall
  BY <1>15 DEF KeyboardInstall, SetVector, MainGoes, MainRuns
<1>16. CASE InstallLeds
  BY <1>16 DEF InstallLeds, SetLeds, MainGoes, MainRuns
<1>17. CASE FloppyDriveInstall
  BY <1>17 DEF FloppyDriveInstall, SetVector, MainGoes, MainRuns
<1>18. CASE FloppyDriveSendCommand
  BY <1>18 DEF FloppyDriveSendCommand, MainGoes, MainRuns
<1>19. CASE FloppyDriveWaitForInterrupt
  <2>1. CASE ~floppyDiskIRQ /\ Sleep("wait", WaitTicks, "wait")
    <3>1. MainRuns(pc) /\ pc' = "sleep" /\ back' = "wait" /\ UNCHANGED <<irr, command, floppyDiskIRQ>>
      BY <2>1 DEF Sleep, MainRuns
    <3>. QED
      BY <3>1, MatchedMain
  <2>2. CASE floppyDiskIRQ /\ MainGoes("wait", "clear") /\ UNCHANGED <<pic, floppy>>
    <3>1. running = MainContext /\ stack = <<>> /\ running' = running /\ stack' = stack
      BY <2>2 DEF MainGoes, MainRuns
    <3>. QED
      BY <2>2, <3>1 DEF MainGoes
  <2>. QED
    BY <1>19, <2>1, <2>2 DEF FloppyDriveWaitForInterrupt
<1>20. CASE ClearFlag
  BY <1>20 DEF ClearFlag, MainGoes, MainRuns
<1>21. CASE FloppyDriveControlMotor
  BY <1>21 DEF FloppyDriveControlMotor, Sleep, MainRuns
<1>22. CASE HAL_Sleep
  BY <1>22 DEF HAL_Sleep, MainRuns
<1>23. CASE WakeUp
  BY <1>23 DEF WakeUp, MainRuns
<1>24. CASE Run
  <2>1. /\ MainRuns(pc) /\ pc = "run" /\ pc' \in {"run", "command"}
        /\ UNCHANGED <<irr, command, floppyDiskIRQ>>
    BY <1>24 DEF Run, SetLeds, MainGoes, MainRuns
  <2>2. ~(floppyDiskIRQ \/ command \/ FloppyLine \in irr)
    BY <2>1
  <2>. QED
    BY <2>1, <2>2, MatchedMain
<1>25. CASE Tick
  BY <1>25 DEF Tick, Requests
<1>26. CASE CommandEnds
  BY <1>26 DEF CommandEnds, Requests
<1>27. CASE PressKey
  BY <1>27 DEF PressKey
<1>28. CASE KeyboardSends
  BY <1>28 DEF KeyboardSends, Requests
<1>. QED
  BY <1>1, <1>2, <1>3, <1>4, <1>5, <1>6, <1>7, <1>8, <1>9, <1>10, <1>11, <1>12, <1>13,
     <1>14, <1>15, <1>16, <1>17, <1>18, <1>19, <1>20, <1>21, <1>22, <1>23, <1>24,
     <1>25, <1>26, <1>27, <1>28 DEF Next, Handlers, MainStep, Starts

\* The counter tells how long the sleep has been.
LEMMA CountingPreserved ==
    ASSUME IInv, Next
    PROVE  Counting'
<1>. USE DEF IInv, TypeOK, Counting, vars, mainVars, processor, pic, floppy, keyboard
<1>1. CASE TakeInterrupt
  BY <1>1, InterruptsAssumption DEF TakeInterrupt, Requested
<1>2. CASE I86_PIT_TimerInterruptHandler
  <2>1. /\ ticks' = (ticks + 1) % TickValues /\ UNCHANGED <<pc, asked, target>>
        /\ slept' = IF slept < asked THEN slept + 1 ELSE slept
    BY <1>2 DEF I86_PIT_TimerInterruptHandler, RunsTo
  <2>2. SUFFICES ASSUME pc = "sleeping", asked <= target, slept' < asked
                 PROVE  ticks' = target - asked + slept'
    BY <2>1
  <2>3. /\ asked \in Nat /\ target \in Nat /\ slept \in Nat /\ ticks \in Nat
        /\ TickValues \in Nat \ {0} /\ target < TickValues
    BY InterruptsAssumption
  <2>4. slept < asked /\ slept' = slept + 1 /\ ticks = target - asked + slept
    BY <2>1, <2>2, <2>3
  <2>5. ticks + 1 < TickValues
    BY <2>2, <2>3, <2>4
  <2>6. (ticks + 1) % TickValues = ticks + 1
    BY <2>3, <2>5
  <2>. QED
    BY <2>1, <2>3, <2>4, <2>6
<1>3. CASE I86KeyboardInterruptHandler
  BY <1>3, InterruptsAssumption DEF I86KeyboardInterruptHandler, RunsTo
<1>4. CASE I86_FloppyDriveInterruptHandler
  BY <1>4, InterruptsAssumption DEF I86_FloppyDriveInterruptHandler, RunsTo
<1>5. CASE Done
  BY <1>5, InterruptsAssumption DEF Done, RunsTo, HAL_InterruptDone, DoneArgument,
     EndOfInterrupt
<1>6. CASE Sti
  BY <1>6, InterruptsAssumption DEF Sti, RunsTo
<1>7. CASE Iret
  BY <1>7, InterruptsAssumption DEF Iret
<1>8. CASE Loop
  BY <1>8, InterruptsAssumption DEF Loop
<1>9. CASE I86_CPU_Initialise
  BY <1>9, InterruptsAssumption DEF I86_CPU_Initialise, MainGoes, MainRuns
<1>10. CASE InitialisePic
  BY <1>10, InterruptsAssumption DEF InitialisePic, I86_PIC_Initialise, MainGoes,
     MainRuns
<1>11. CASE I86_PIT_Initialise
  BY <1>11, InterruptsAssumption DEF I86_PIT_Initialise, SetVector, MainGoes, MainRuns
<1>12. CASE I86_PIT_StartCounter
  BY <1>12, InterruptsAssumption DEF I86_PIT_StartCounter, MainGoes, MainRuns
<1>13. CASE HAL_EnableInterrupts
  BY <1>13, InterruptsAssumption DEF HAL_EnableInterrupts, MainGoes, MainRuns
<1>14. CASE InitialiseInterrupts
  BY <1>14, InterruptsAssumption DEF InitialiseInterrupts, MainGoes, MainRuns
<1>15. CASE KeyboardInstall
  BY <1>15, InterruptsAssumption DEF KeyboardInstall, SetVector, MainGoes, MainRuns
<1>16. CASE InstallLeds
  BY <1>16, InterruptsAssumption DEF InstallLeds, SetLeds, MainGoes, MainRuns
<1>17. CASE FloppyDriveInstall
  BY <1>17, InterruptsAssumption DEF FloppyDriveInstall, SetVector, MainGoes, MainRuns
<1>18. CASE FloppyDriveSendCommand
  BY <1>18, InterruptsAssumption DEF FloppyDriveSendCommand, MainGoes, MainRuns
<1>19. CASE FloppyDriveWaitForInterrupt
  BY <1>19, InterruptsAssumption DEF FloppyDriveWaitForInterrupt, Sleep, MainGoes,
     MainRuns
<1>20. CASE ClearFlag
  BY <1>20, InterruptsAssumption DEF ClearFlag, MainGoes, MainRuns
<1>21. CASE FloppyDriveControlMotor
  BY <1>21, InterruptsAssumption DEF FloppyDriveControlMotor, Sleep, MainRuns
<1>22. CASE HAL_Sleep
  BY <1>22, InterruptsAssumption DEF HAL_Sleep, MainRuns
<1>23. CASE WakeUp
  BY <1>23, InterruptsAssumption DEF WakeUp, MainRuns
<1>24. CASE Run
  BY <1>24, InterruptsAssumption DEF Run, SetLeds, MainGoes, MainRuns
<1>25. CASE Tick
  BY <1>25, InterruptsAssumption DEF Tick, Requests
<1>26. CASE CommandEnds
  BY <1>26, InterruptsAssumption DEF CommandEnds, Requests
<1>27. CASE PressKey
  BY <1>27, InterruptsAssumption DEF PressKey
<1>28. CASE KeyboardSends
  BY <1>28, InterruptsAssumption DEF KeyboardSends, Requests
<1>. QED
  BY <1>1, <1>2, <1>3, <1>4, <1>5, <1>6, <1>7, <1>8, <1>9, <1>10, <1>11, <1>12, <1>13,
     <1>14, <1>15, <1>16, <1>17, <1>18, <1>19, <1>20, <1>21, <1>22, <1>23, <1>24,
     <1>25, <1>26, <1>27, <1>28 DEF Next, Handlers, MainStep, Starts

-----------------------------------------------------------------------------
(* The invariant, and the theorems.                                        *)

\* The initial states satisfy the invariant.
LEMMA InitInvariant == Init => IInv
<1>. SUFFICES ASSUME Init PROVE IInv
  OBVIOUS
<1>1. TypeOK
  <2>1. running \in Contexts /\ stack \in Seq(Contexts)
    BY DEF Init, Contexts, MainContext
  <2>2. irr \subseteq Lines /\ isr \subseteq Lines
    BY DEF Init, Lines
  <2>3. idt \in [Vectors -> {"none", "default", "fault", "timer", "keyboard", "floppy"}]
    BY DEF Init
  <2>4. /\ IFlag \in BOOLEAN /\ floppyDiskIRQ \in BOOLEAN /\ command \in BOOLEAN
        /\ outputFull \in BOOLEAN /\ earlyKey \in BOOLEAN
    BY Zenon DEF Init
  <2>5. /\ pc = "cpu" /\ back = "run" /\ asked = 0 /\ target = 0 /\ slept = 0 /\ base = 8
        /\ ticks = 0 /\ bytes = 0 /\ keys = 0
    BY DEF Init
  <2>6. 0 \in 0 .. (TickValues - 1)
    BY InterruptsAssumption
  <2>. QED
    BY <2>1, <2>2, <2>3, <2>4, <2>5, <2>6 DEF TypeOK
<1>2. Shape /\ Service
  BY DEF Init, Shape, Service, Good, MainContext
<1>3. Started
  BY DEF Init, Started, BeforeFloppy, BeforeKeyboard, BeforeEnable, BeforePic, Vectors
<1>4. Requesters
  BY DEF Init, Requesters, Hung, MainContext, FloppyLine, KeyboardLine, TimerLine
<1>5. Matched
  BY DEF Init, Matched, FloppyRuns, Waiting, MainContext, FloppyLine, TimerLine
<1>6. Counting
  BY DEF Init, Counting
<1>. QED
  BY <1>1, <1>2, <1>3, <1>4, <1>5, <1>6 DEF IInv

\* Every step keeps the invariant.
LEMMA NextInvariant == IInv /\ [Next]_vars => IInv'
<1>1. ASSUME IInv, Next PROVE IInv'
  BY <1>1, TypePreserved, ShapePreserved, ServicePreserved, StartedPreserved,
     RequestersPreserved, MatchedPreserved, CountingPreserved DEF IInv
<1>2. ASSUME IInv, UNCHANGED vars PROVE IInv'
  BY <1>2 DEF IInv, TypeOK, Shape, Service, Started, Requesters, Matched, Counting,
     Hung,
     FloppyRuns, Waiting, vars, mainVars, processor, pic, floppy, keyboard
<1>. QED
  BY <1>1, <1>2

\* The invariant holds always.
LEMMA Invariance == Spec => []IInv
BY InitInvariant, NextInvariant, PTL DEF Spec

\* The variables keep their types, and with them the registers of the PIC.
THEOREM TypeCorrect == Spec => []TypeOK
<1>1. IInv => TypeOK
  BY DEF IInv
<1>. QED
  BY <1>1, Invariance, PTL

\* Only the request of a key pressed before KeyboardInstall can reach a handler that
\* stops the kernel.
THEOREM HangNeedsEarlyKey == Spec => []OnlyEarlyKeysHang
<1>1. IInv => OnlyEarlyKeysHang
  BY DEF IInv, Requesters, OnlyEarlyKeysHang
<1>. QED
  BY <1>1, Invariance, PTL

\* The lines in service are those of handlers that have not told the PIC, however
\* deep the handlers are nested.
THEOREM ServiceMatches == Spec => []InServiceMatchesHandlers
<1>1. IInv => InServiceMatchesHandlers
  <2>. SUFFICES ASSUME IInv PROVE InServiceMatchesHandlers
    OBVIOUS
  <2>1. isr = (IF running.at \in {"body", "done"} THEN {running.line} ELSE {})
    BY DEF IInv, Service
  <2>2. IFlag => isr = {}
    BY <2>1 DEF IInv, Service
  <2>3. \A i \in 1 .. Len(stack) : stack[i].at \in {"main", "iret"}
    BY DEF IInv, Shape
  <2>. QED
    BY <2>1, <2>2, <2>3 DEF InServiceMatchesHandlers
<1>. QED
  BY <1>1, Invariance, PTL

\* A wait for the floppy controller ends for its own command.
THEOREM WaitsMatched == Spec => []WaitsMatchCommands
<1>1. IInv => WaitsMatchCommands
  <2>. SUFFICES ASSUME IInv, pc = "clear" PROVE WaitsMatchCommands
    BY DEF WaitsMatchCommands
  <2>1. ~Waiting
    BY DEF Waiting
  <2>2. floppyDiskIRQ /\ ~command /\ FloppyLine \notin irr /\ running.line # FloppyLine
    BY <2>1 DEF IInv, Matched
  <2>3. FloppyLine \notin isr
    BY <2>2 DEF IInv, Service
  <2>. QED
    BY <2>2, <2>3 DEF WaitsMatchCommands
<1>. QED
  BY <1>1, Invariance, PTL

\* HAL_Sleep does not return before its time, unless the tick to wait for lies past
\* the wrap of the counter.
THEOREM SleepsLongEnough == Spec => SleepIsLongEnough
<1>1. ASSUME IInv, [Next]_vars
      PROVE  [pc = "sleeping" /\ pc' # "sleeping" => slept >= asked \/ target < asked]_vars
  <2>1. SUFFICES ASSUME Next, pc = "sleeping", pc' # "sleeping", asked <= target
                 PROVE  slept >= asked
    <3>1. asked \in Nat /\ target \in Nat
      BY <1>1, InterruptsAssumption DEF IInv, TypeOK
    <3>. QED
      BY <1>1, <3>1
  <2>2. WakeUp
    <3>1. CASE Handlers \/ Loop
      BY <2>1, <3>1 DEF Handlers, Loop, TakeInterrupt, Iret,
         I86_PIT_TimerInterruptHandler,
         I86KeyboardInterruptHandler, I86_FloppyDriveInterruptHandler, Done, Sti,
         RunsTo,
         vars, mainVars
    <3>2. CASE Starts
      BY <2>1, <3>2 DEF Starts, I86_CPU_Initialise, InitialisePic, I86_PIT_Initialise,
         I86_PIT_StartCounter, HAL_EnableInterrupts, InitialiseInterrupts,
         KeyboardInstall,
         InstallLeds, SetLeds, FloppyDriveInstall, MainGoes, MainRuns
    <3>3. CASE MainStep \/ Run
      BY <2>1, <3>2, <3>3 DEF MainStep, Run, SetLeds, FloppyDriveSendCommand, ClearFlag,
         FloppyDriveWaitForInterrupt, FloppyDriveControlMotor, HAL_Sleep, Sleep,
         MainGoes,
         MainRuns
    <3>4. CASE Tick \/ CommandEnds \/ PressKey \/ KeyboardSends
      BY <2>1, <3>4 DEF Tick, CommandEnds, PressKey, KeyboardSends, Requests, mainVars
    <3>. QED
      BY <2>1, <3>1, <3>3, <3>4 DEF Next
  <2>3. target <= ticks
    BY <2>2 DEF WakeUp
  <2>4. /\ asked \in Nat /\ target \in Nat /\ ticks \in Nat /\ slept \in Nat
        /\ slept < asked => ticks = target - asked + slept
    BY <1>1, <2>1, InterruptsAssumption DEF IInv, TypeOK, Counting
  <2>. QED
    BY <2>3, <2>4
<1>. QED
  BY <1>1, Invariance, PTL DEF Spec, SleepIsLongEnough

=============================================================================
