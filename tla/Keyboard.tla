------------------------------ MODULE Keyboard ------------------------------
(***************************************************************************)
(* The keyboard driver (src/kernel/keyboard.c): the interrupt handler of   *)
(* IRQ 1 and the kernel's thread share one scan code and a few flags,      *)
(* without any lock.  The thread is the line editor (userinterface.c): it  *)
(* gets a key and converts it twice, to test and to store the character.   *)
(* The keyboard and its controller are the environment: a queue of bytes,  *)
(* one interrupt for each.                                                 *)
(*                                                                         *)
(* Key presses are numbered, so that the properties can tell two presses   *)
(* of the same key apart; the code has no such numbers.                    *)
(***************************************************************************)
EXTENDS Integers, Sequences, Functions, FiniteSetsExt

CONSTANTS
    Keys,               \* the keys the user types (not Return or Backspace, which
                        \* the editor serves apart), each a sequence of bytes:
                        \* its make code, after 224 (E0) for an extended key
    KeyOf,              \* _keyboardScancode, on the make codes of Keys
    BeyondTable,        \* what a read past the end of the table may find
    MaxPresses,         \* bound: the make codes the user causes
    MaxQueue            \* bound: the bytes waiting in the controller

TableSize == 89         \* the entries of _keyboardScancode

MakeCode(k) == k[Len(k)]

\* Keys that have an entry in the table; the keyboards that send others are not used.
ASSUME KeyboardAssumption ==
    /\ Keys \subseteq Seq(Nat) \ {<<>>}
    /\ \A k \in Keys : /\ MakeCode(k) \in 1 .. (TableSize - 1) /\ MakeCode(k) \in DOMAIN KeyOf
                       /\ \A i \in 1 .. (Len(k) - 1) : k[i] = 224
    /\ \A code \in DOMAIN KeyOf : KeyOf[code] \in Nat
    /\ BeyondTable \subseteq Nat /\ BeyondTable # {}
    /\ MaxPresses \in Nat /\ MaxQueue \in Nat \ {0, 1}

VARIABLES
    pc,                 \* where KeyboardGetCharacter or the editor is
    scancode,           \* _scancode
    press,              \* the number of the press scancode comes from
    handled,            \* the number of the press whose key
                        \* KeyboardGetCharacter has read last
    modifiers,          \* the flags _shift, _ctrl, _alt that are true
    locks,              \* the flags _capslock, _numlock, _scrolllock
    misread,            \* the modifiers cleared by a byte that is no key's, of
                        \* which no key has come since (not in the code)
    errors,             \* the errors noticed: _keyboardBATResult,
                        \* _keyboardDiagResult, _keyboardResendResult
    lastKey,            \* the editor's: the key returned
    character,          \* the editor's: the character stored last
    leds,               \* the lights of the keyboard
    queue,              \* bytes waiting: [byte, press]
    held,               \* the keys held down
    presses,            \* the number of make codes so far
    batFailed,          \* the keyboard has reported a failed self test
    dropped             \* the last discard threw away a press not handled

driverVars == <<scancode, press, modifiers, locks, misread, errors>>
userVars == <<held, presses, batFailed>>
callerVars == <<handled, lastKey, character, dropped>>
vars == <<pc, callerVars, driverVars, userVars, leds, queue>>

Ack == 250              \* KYBRD_ERR_ACK
BatFailed == 252        \* KYBRD_ERR_BAT_FAILED
DiagFailed == 253       \* KYBRD_ERR_DIAG_FAILED
Resend == 254           \* KYBRD_ERR_RESEND_CMD
NoPress == 0

KEY_UNKNOWN == 16402
Modifier ==
    [key \in {16386, 16390, 16387, 16391, 16388, 16392} |->
        CASE key \in {16386, 16390} -> "shift"
          [] key \in {16387, 16391} -> "ctrl"
          [] key \in {16388, 16392} -> "alt"]
LockKey ==
    [key \in {16385, 12303, 16400} |->
        CASE key = 16385 -> "caps" [] key = 12303 -> "num" [] key = 16400 -> "scroll"]

\* The value of f at key, as a set that is empty for another key.
At(f, key) == IF key \in DOMAIN f THEN {f[key]} ELSE {}

Lookup(code) == IF code \in DOMAIN KeyOf THEN KeyOf[code] ELSE KEY_UNKNOWN

\* What the code may find at an index, which it does not compare with the table's size.
Found(code) == IF code < TableSize THEN {Lookup(code)} ELSE BeyondTable

-----------------------------------------------------------------------------
(* KeyboardConvertKeyToASCII.                                              *)

\* The character on the same key with shift, without caps lock.
ShiftedCharacter ==
    LET plain == <<48, 49, 50, 51, 52, 53, 54, 55, 56, 57,
                   44, 46, 47, 59, 39, 91, 93, 96, 45, 61, 92, 35>>
        shifted == <<41, 33, 34, 163, 36, 37, 94, 38, 42, 40,
                     60, 62, 63, 58, 64, 123, 125, 172, 95, 43, 124, 126>>
    IN  [c \in Range(plain) |-> shifted[CHOOSE i \in DOMAIN plain : plain[i] = c]]

\* Keys that are not ASCII have no character, whatever the flags.
KeyboardConvertKeyToASCII(key, shift, caps) ==
    IF key \notin 0 .. 127 THEN 0
    ELSE IF key \in 97 .. 122 THEN IF shift \/ caps THEN key - 32 ELSE key
    ELSE IF shift /\ ~caps /\ key \in DOMAIN ShiftedCharacter THEN ShiftedCharacter[key]
    ELSE key

\* With the flags as they are.
Convert(key) == KeyboardConvertKeyToASCII(key, "shift" \in modifiers, "caps" \in locks)

-----------------------------------------------------------------------------
(* The state KeyboardInstall leaves.                                       *)

Init ==
    /\ pc = "test" /\ handled = NoPress
    /\ scancode = 0 /\ press = NoPress
    /\ modifiers = {} /\ locks = {} /\ misread = {} /\ errors = {}
    /\ lastKey = 0 /\ character = 0
    /\ leds = {} /\ queue = <<[byte |-> Ack, press |-> NoPress],
                              [byte |-> Ack, press |-> NoPress]>>
    /\ held = {} /\ presses = 0 /\ batFailed = FALSE /\ dropped = FALSE

-----------------------------------------------------------------------------
(* The user and the keyboard.                                              *)

Bytes(k, number, last) ==
    [i \in DOMAIN k |-> [byte |-> IF i = Len(k) THEN last ELSE k[i], press |-> number]]

\* A key goes down, or repeats because it is held.
Press(k) ==
    /\ presses < MaxPresses
    /\ Len(queue) + Len(k) <= MaxQueue
    /\ presses' = presses + 1
    /\ held' = held \cup {k}
    /\ queue' = queue \o Bytes(k, presses + 1, MakeCode(k))
    /\ UNCHANGED <<pc, callerVars, driverVars, leds, batFailed>>

Release(k) ==
    /\ k \in held
    /\ Len(queue) + Len(k) <= MaxQueue
    /\ held' = held \ {k}
    /\ queue' = queue \o Bytes(k, NoPress, MakeCode(k) + 128)
    /\ UNCHANGED <<pc, callerVars, driverVars, leds, presses, batFailed>>

\* The keyboard's self test fails; it reports it once.
SelfTestFails ==
    /\ ~batFailed
    /\ Len(queue) < MaxQueue
    /\ batFailed' = TRUE
    /\ queue' = Append(queue, [byte |-> BatFailed, press |-> NoPress])
    /\ UNCHANGED <<pc, callerVars, driverVars, leds, held, presses>>

-----------------------------------------------------------------------------
(* The interrupt handler.                                                  *)

\* A faulty release: the flag stays.
BreakKeyForgets(key) == UNCHANGED <<scancode, press, modifiers, locks>>

\* What a released key does to the flags, and a pressed one.
BreakKey(key) ==
    /\ modifiers' = modifiers \ At(Modifier, key)
    /\ UNCHANGED <<scancode, press, locks>>

MakeKey(code, key, number) ==
    /\ scancode' = code
    /\ press' = number
    /\ modifiers' = modifiers \cup At(Modifier, key)
    /\ locks' = SymDiff(locks, At(LockKey, key))

\* The modifiers that key clears, although code is no key's, or that a key decides.
Misread(code, key) ==
    IF code < TableSize THEN misread \ At(Modifier, key)
    ELSE misread \cup (At(Modifier, key) \cap modifiers)

\* One byte is read.  A prefix changes nothing but _extended, which is never
\* looked at (and not modelled).  A break code is turned into its make code
\* before the table is read and before the errors are looked for; so are the
\* keyboard's answers, whose codes are then past the end of the table.
I86KeyboardInterruptHandler ==
    /\ queue # <<>>
    /\ queue' = Tail(queue)
    /\ LET byte == Head(queue).byte
           isPrefix == byte \in {224, 225}
           isBreak == ~isPrefix /\ byte >= 128
           code == IF isBreak THEN byte - 128 ELSE byte
       IN  /\ \/ isPrefix /\ UNCHANGED <<scancode, press, modifiers, locks, misread>>
              \/ /\ ~isPrefix
                 /\ \E key \in Found(code) :
                        /\ \/ isBreak /\ BreakKey(key)
                           \/ ~isBreak /\ MakeKey(code, key, Head(queue).press)
                        /\ misread' = Misread(code, key)
           /\ errors' = errors \cup ({code} \cap {BatFailed, DiagFailed, Resend})
    /\ UNCHANGED <<pc, callerVars, userVars, leds>>

-----------------------------------------------------------------------------
(* The editor's loop.  KeyboardGetLastKey reads _scancode twice.           *)

TestScancode ==
    /\ pc = "test"
    /\ scancode # 0
    /\ pc' = "lookup"
    /\ UNCHANGED <<callerVars, driverVars, userVars, leds, queue>>

LookupScancode ==
    /\ pc = "lookup"
    /\ \E key \in Found(scancode) :
           \/ /\ key = KEY_UNKNOWN
              /\ pc' = "test"
              /\ UNCHANGED <<handled, lastKey>>
           \/ /\ key # KEY_UNKNOWN
              /\ handled' = press /\ lastKey' = key
              /\ pc' = "leds"
    /\ UNCHANGED <<character, dropped, driverVars, userVars, leds, queue>>

\* A faulty one, which sends the byte of the old lights.
SetLedsStale ==
    /\ pc = "leds"
    /\ Len(queue) + 2 <= MaxQueue
    /\ queue' = queue \o <<[byte |-> Ack, press |-> NoPress],
                           [byte |-> Ack, press |-> NoPress]>>
    /\ pc' = "discard"
    /\ UNCHANGED <<callerVars, leds, driverVars, userVars>>

\* Two bytes to the encoder, each acknowledged by one byte.
KeyboardSetLeds ==
    /\ pc = "leds"
    /\ Len(queue) + 2 <= MaxQueue
    /\ leds' = locks
    /\ queue' = queue \o <<[byte |-> Ack, press |-> NoPress],
                           [byte |-> Ack, press |-> NoPress]>>
    /\ pc' = "discard"
    /\ UNCHANGED <<callerVars, driverVars, userVars>>

\* A faulty discard, which keeps the scan code.
DiscardForgets ==
    /\ pc = "discard"
    /\ dropped' = (press # handled)
    /\ pc' = "convert"
    /\ UNCHANGED <<handled, lastKey, character, driverVars, userVars, leds, queue>>

KeyboardDiscardLastKey ==
    /\ pc = "discard"
    /\ scancode' = 0
    /\ press' = NoPress
    /\ dropped' = (press # handled)
    /\ pc' = "convert"
    /\ UNCHANGED <<handled, lastKey, character, modifiers, locks, misread, errors,
                   userVars, leds, queue>>

\* A faulty one, which discards a key that is no character once more.
ConvertKeyDiscards ==
    /\ pc = "convert"
    /\ pc' = IF Convert(lastKey) # 0 THEN "store" ELSE "test"
    /\ scancode' = IF Convert(lastKey) # 0 THEN scancode ELSE 0
    /\ press' = IF Convert(lastKey) # 0 THEN press ELSE NoPress
    /\ UNCHANGED <<callerVars, modifiers, locks, misread, errors, userVars, leds, queue>>

\* ReadStringFromKeyboard converts the key to see whether it is a character, ...
ConvertKey ==
    /\ pc = "convert"
    /\ pc' = IF Convert(lastKey) # 0 THEN "store" ELSE "test"
    /\ UNCHANGED <<callerVars, driverVars, userVars, leds, queue>>

\* A faulty one, which takes the key pressed last.
StoreLastKey ==
    /\ pc = "store"
    /\ character' = Convert(Lookup(scancode))
    /\ pc' = "test"
    /\ UNCHANGED <<handled, lastKey, dropped, driverVars, userVars, leds, queue>>

\* ... and converts it again to store it: the flags may have changed.
StoreCharacter ==
    /\ pc = "store"
    /\ character' = Convert(lastKey)
    /\ pc' = "test"
    /\ UNCHANGED <<handled, lastKey, dropped, driverVars, userVars, leds, queue>>

KeyboardGetCharacter ==
    TestScancode \/ LookupScancode \/ KeyboardSetLeds \/ KeyboardDiscardLastKey

Editor == KeyboardGetCharacter \/ ConvertKey \/ StoreCharacter

Next ==
    \/ \E k \in Keys : Press(k) \/ Release(k)
    \/ SelfTestFails
    \/ I86KeyboardInterruptHandler
    \/ Editor

\* Interrupts are enabled and the shell always asks for the next character.
Spec ==
    /\ Init /\ [][Next]_vars
    /\ WF_vars(I86KeyboardInterruptHandler)
    /\ WF_vars(Editor)

-----------------------------------------------------------------------------
(* Properties.                                                             *)

Flags == {"shift", "ctrl", "alt"}
Locks == {"caps", "num", "scroll"}

\* Every variable has its type.
TypeOK ==
    /\ pc \in {"test", "lookup", "leds", "discard", "convert", "store"}
    /\ scancode \in 0 .. (TableSize - 1)
    /\ press \in 0 .. presses /\ handled \in 0 .. presses
    /\ modifiers \subseteq Flags /\ misread \subseteq Flags
    /\ locks \subseteq Locks /\ leds \subseteq Locks
    /\ errors \subseteq {BatFailed, DiagFailed, Resend} /\ dropped \in BOOLEAN
    /\ lastKey \in Nat /\ character \in 0 .. 255
    /\ held \subseteq Keys /\ presses \in 0 .. MaxPresses
    /\ Len(queue) <= MaxQueue

\* The presses that KeyboardGetCharacter returns come in the order they were made
\* and none of them twice, although the handler may replace the scan code between
\* its two reads and before the discard.
PressesReturnedInOrder == [][pc = "lookup" /\ pc' = "leds" => handled' > handled]_vars

\* A key that passed the editor's test is stored as one of its characters and never
\* as 0, which would end the line, although keys and flags change between the two
\* conversions.
CharactersComeFromKeys ==
    [][pc = "store" /\ pc' = "test" =>
           /\ character' # 0
           /\ \E shift, caps \in BOOLEAN :
                  character' = KeyboardConvertKeyToASCII(lastKey, shift, caps)]_vars

\* The keys whose make code stands for a flag.
KeysOf(flag) == {k \in Keys : At(Modifier, KeyOf[MakeCode(k)]) = {flag}}

\* "Test if user is holding down any special keys" (287): once the handler has
\* served every interrupt, a flag is set when all its keys are held, and set only
\* when one of them is.  Two keys share a flag, and the release of one clears it.
\* The keyboard's answers, which the handler looks up past the end of the table, may
\* clear a flag until its key comes again (misread), but set none, nor keep one set.
FlagsMatchKeys ==
    queue = <<>> =>
        \A flag \in Flags :
            /\ KeysOf(flag) # {} /\ KeysOf(flag) \subseteq held =>
                   flag \in modifiers \/ flag \in misread
            /\ flag \in modifiers \cup misread => KeysOf(flag) \cap held # {}

\* The lights agree with the lock flags whenever the driver waits for a key,
\* unless a press was thrown away with the one before it.
LedsMatchLocks == pc = "test" /\ scancode = 0 /\ ~dropped => leds = locks

\* "Discard last keypress (we handled it)" (619): the scan code that
\* KeyboardGetCharacter discards is the one it returns.
DiscardsHandledPress == pc = "discard" => press = handled

\* The last press is not lost: the press of a known key that is in _scancode is
\* returned, or a later one takes its place.  What comes to _scancode between the
\* lookup and the discard is left out: it is thrown away, which DiscardsHandledPress
\* is about; but nothing else is.
KeysReachCaller ==
    \A n \in 1 .. MaxPresses :
        (press = n /\ Lookup(scancode) # KEY_UNKNOWN /\ pc \notin {"leds", "discard"})
            ~> (handled = n \/ press > n)

=============================================================================
