--------------------------- MODULE KeyboardProofs ---------------------------
(***************************************************************************)
(* Theorems about Keyboard for every set of keys and table, and any number *)
(* of presses.                                                             *)
(***************************************************************************)
EXTENDS Keyboard, TLAPS

-----------------------------------------------------------------------------
(* Keys and characters.                                                    *)

\* What a key does to the flags.
LEMMA FlagKeys ==
    ASSUME NEW key
    PROVE  At(Modifier, key) \subseteq Flags /\ At(LockKey, key) \subseteq Locks
<1>1. \A k \in DOMAIN Modifier : Modifier[k] \in Flags
    BY DEF Modifier, Flags
<1>2. \A k \in DOMAIN LockKey : LockKey[k] \in Locks
    BY DEF LockKey, Locks
<1> QED
    BY <1>1, <1>2 DEF At

Plain == <<48, 49, 50, 51, 52, 53, 54, 55, 56, 57,
           44, 46, 47, 59, 39, 91, 93, 96, 45, 61, 92, 35>>
Shifted == <<41, 33, 34, 163, 36, 37, 94, 38, 42, 40,
             60, 62, 63, 58, 64, 123, 125, 172, 95, 43, 124, 126>>

LEMMA ShiftedCharacters ==
    ASSUME NEW c \in DOMAIN ShiftedCharacter
    PROVE  ShiftedCharacter[c] \in 1 .. 255
<1> DEFINE place == CHOOSE i \in DOMAIN Plain : Plain[i] = c
<1>1. DOMAIN Plain = 1 .. 22 /\ DOMAIN Shifted = 1 .. 22
    BY DEF Plain, Shifted
<1>2. c \in Range(Plain) /\ ShiftedCharacter[c] = Shifted[place]
    BY DEF ShiftedCharacter, Plain, Shifted
<1>3. place \in DOMAIN Plain
    BY <1>2 DEF Range
<1>4. \A i \in 1 .. 22 : Shifted[i] \in 1 .. 255
    BY DEF Shifted
<1> QED
    BY <1>1, <1>2, <1>3, <1>4

LEMMA Zero == 0 \notin DOMAIN ShiftedCharacter
<1>1. DOMAIN ShiftedCharacter = Range(Plain)
    BY DEF ShiftedCharacter, Plain
<1>2. \A i \in DOMAIN Plain : Plain[i] # 0
    BY DEF Plain
<1> QED
    BY <1>1, <1>2 DEF Range

\* Whether a key has a character does not depend on the flags.
LEMMA Characters ==
    ASSUME NEW key \in Nat, NEW shift \in BOOLEAN, NEW caps \in BOOLEAN
    PROVE  /\ KeyboardConvertKeyToASCII(key, shift, caps) \in 0 .. 255
           /\ KeyboardConvertKeyToASCII(key, shift, caps) # 0 <=> key \in 1 .. 127
<1>1. CASE key \notin 0 .. 127
    BY <1>1 DEF KeyboardConvertKeyToASCII
<1>2. CASE key \in 97 .. 122
    BY <1>2 DEF KeyboardConvertKeyToASCII
<1>3. CASE key \in 0 .. 127 /\ key \notin 97 .. 122 /\ shift /\ ~caps /\ key \in DOMAIN ShiftedCharacter
    BY <1>3, ShiftedCharacters, Zero DEF KeyboardConvertKeyToASCII
<1>4. CASE /\ key \in 0 .. 127 /\ key \notin 97 .. 122
           /\ ~(shift /\ ~caps /\ key \in DOMAIN ShiftedCharacter)
    BY <1>4 DEF KeyboardConvertKeyToASCII
<1> QED
    BY <1>1, <1>2, <1>3, <1>4

LEMMA LookupType ==
    ASSUME NEW code
    PROVE  Lookup(code) \in Nat /\ \A key \in Found(code) : key \in Nat
<1>1. Lookup(code) \in Nat
    BY KeyboardAssumption DEF Lookup, KEY_UNKNOWN
<1>2. BeyondTable \subseteq Nat
    BY KeyboardAssumption
<1> QED
    BY <1>1, <1>2 DEF Found

-----------------------------------------------------------------------------
(* The bytes in the controller.                                            *)

Entries == [byte : Nat, press : Nat]

\* The make codes are in the order of their presses.
InOrder(q) ==
    \A i \in 1 .. Len(q) : q[i].byte < 128 =>
        /\ q[i].byte \in 1 .. (TableSize - 1)
        /\ \A j \in 1 .. Len(q) : j < i /\ q[j].byte < 128 => q[j].press < q[i].press

\* They are later than low, and none is later than high.
Between(q, low, high) ==
    \A i \in 1 .. Len(q) : q[i].byte < 128 => low < q[i].press /\ q[i].press <= high

LEMMA EntryFields ==
    ASSUME NEW q \in Seq(Entries), NEW i \in 1 .. Len(q)
    PROVE  q[i].byte \in Nat /\ q[i].press \in Nat
<1>1. q[i] \in Entries
    OBVIOUS
<1> QED
    BY <1>1 DEF Entries

LEMMA AppendedEntries ==
    ASSUME NEW q \in Seq(Entries), NEW new \in Seq(Entries)
    PROVE  /\ q \o new \in Seq(Entries) /\ Len(q \o new) = Len(q) + Len(new)
           /\ \A j \in 1 .. Len(q) : (q \o new)[j] = q[j]
           /\ \A j \in 1 .. Len(new) : (q \o new)[Len(q) + j] = new[j]
    BY SMT

\* What follows may be other bytes, and a make code of the next press at the end.
LEMMA Appended ==
    ASSUME NEW q \in Seq(Entries), NEW new \in Seq(Entries), NEW high \in Nat, InOrder(q),
           \A i \in 1 .. Len(q) : q[i].byte < 128 => q[i].press <= high,
           \A i \in 1 .. Len(new) : new[i].byte < 128 =>
               i = Len(new) /\ new[i].byte \in 1 .. (TableSize - 1) /\ new[i].press = high + 1
    PROVE  InOrder(q \o new)
<1> DEFINE r == q \o new
<1>1. /\ Len(r) = Len(q) + Len(new) /\ Len(q) \in Nat /\ Len(new) \in Nat
      /\ \A j \in 1 .. Len(q) : r[j] = q[j]
      /\ \A j \in 1 .. Len(new) : r[Len(q) + j] = new[j]
    BY AppendedEntries
<1> HIDE DEF r
<1>2. ASSUME NEW i \in 1 .. Len(r), ~(i <= Len(q)), r[i].byte < 128
      PROVE  i = Len(r) /\ r[i].byte \in 1 .. (TableSize - 1) /\ r[i].press = high + 1
  <2> DEFINE k == i - Len(q)
  <2>1. k \in 1 .. Len(new) /\ i = Len(q) + k
      BY <1>1, <1>2
  <2> HIDE DEF k
  <2>2. r[i] = new[k]
      BY <1>1, <2>1
  <2>3. k = Len(new) /\ new[k].byte \in 1 .. (TableSize - 1) /\ new[k].press = high + 1
      BY <1>2, <2>1, <2>2
  <2> QED
      BY <1>1, <2>1, <2>2, <2>3
<1>3. ASSUME NEW i \in 1 .. Len(r), i <= Len(q), r[i].byte < 128
      PROVE  /\ i \in 1 .. Len(q) /\ r[i] = q[i] /\ r[i].byte \in 1 .. (TableSize - 1)
             /\ r[i].press <= high
    BY <1>1, <1>3 DEF InOrder
<1>4. \A i \in 1 .. Len(q) : q[i].press \in Nat
    BY EntryFields
<1>5. ASSUME NEW i \in 1 .. Len(r), r[i].byte < 128, NEW j \in 1 .. Len(r), j < i, r[j].byte < 128
      PROVE  r[j].press < r[i].press
  <2>1. CASE i <= Len(q)
    <3>1. j <= Len(q)
        BY <1>1, <1>5, <2>1
    <3>2. i \in 1 .. Len(q) /\ j \in 1 .. Len(q) /\ r[i] = q[i] /\ r[j] = q[j]
        BY <1>3, <1>5, <2>1, <3>1
    <3> QED
        BY <1>5, <3>2 DEF InOrder
  <2>2. CASE ~(i <= Len(q))
    <3>1. i = Len(r) /\ r[i].press = high + 1
        BY <1>2, <1>5, <2>2
    <3>2. j <= Len(q)
      <4>1. ~(j <= Len(q)) => j = Len(r)
          BY <1>2, <1>5
      <4> QED
          BY <1>1, <1>5, <3>1, <4>1
    <3>3. j \in 1 .. Len(q) /\ r[j] = q[j] /\ r[j].press <= high
        BY <1>3, <1>5, <3>2
    <3> QED
        BY <1>4, <3>1, <3>3
  <2> QED
      BY <2>1, <2>2
<1>6. ASSUME NEW i \in 1 .. Len(r), r[i].byte < 128
      PROVE  r[i].byte \in 1 .. (TableSize - 1)
    BY <1>2, <1>3, <1>6
<1> QED
    BY <1>5, <1>6 DEF InOrder, r

LEMMA AppendedBetween ==
    ASSUME NEW q \in Seq(Entries), NEW new \in Seq(Entries), NEW low \in Nat, NEW high \in Nat,
           NEW top \in Nat, high <= top, Between(q, low, high),
           \A i \in 1 .. Len(new) : new[i].byte < 128 => low < new[i].press /\ new[i].press <= top
    PROVE  Between(q \o new, low, top)
<1> DEFINE r == q \o new
<1>1. /\ Len(r) = Len(q) + Len(new) /\ Len(q) \in Nat /\ Len(new) \in Nat
      /\ \A j \in 1 .. Len(q) : r[j] = q[j]
      /\ \A j \in 1 .. Len(new) : r[Len(q) + j] = new[j]
    BY AppendedEntries
<1> HIDE DEF r
<1>2. ASSUME NEW i \in 1 .. Len(r), r[i].byte < 128
      PROVE  low < r[i].press /\ r[i].press <= top
  <2>1. CASE i <= Len(q)
    <3>1. i \in 1 .. Len(q) /\ r[i] = q[i]
        BY <1>1, <2>1
    <3>2. q[i].press \in Nat
        BY <3>1, EntryFields
    <3> QED
        BY <1>2, <3>1, <3>2 DEF Between
  <2>2. CASE ~(i <= Len(q))
    <3> DEFINE k == i - Len(q)
    <3>1. k \in 1 .. Len(new) /\ i = Len(q) + k
        BY <1>1, <2>2
    <3> HIDE DEF k
    <3> QED
        BY <1>1, <1>2, <3>1
  <2> QED
      BY <2>1, <2>2
<1> QED
    BY <1>2 DEF Between, r

\* The handler takes the first byte.
LEMMA Taken ==
    ASSUME NEW q \in Seq(Entries), q # <<>>, InOrder(q), NEW low \in Nat, NEW high \in Nat,
           Between(q, low, high)
    PROVE  /\ Tail(q) \in Seq(Entries) /\ Head(q) \in Entries /\ InOrder(Tail(q))
           /\ Between(Tail(q), low, high)
           /\ Head(q).byte < 128 => /\ Head(q).byte \in 1 .. (TableSize - 1)
                                    /\ low < Head(q).press /\ Head(q).press <= high
                                    /\ Between(Tail(q), Head(q).press, high)
<1> DEFINE r == Tail(q)
<1>1. /\ r \in Seq(Entries) /\ Len(r) = Len(q) - 1 /\ Len(q) \in Nat \ {0}
      /\ \A i \in 1 .. Len(r) : r[i] = q[i + 1]
      /\ Head(q) = q[1] /\ Head(q) \in Entries
    OBVIOUS
<1> HIDE DEF r
<1>2. 1 \in 1 .. Len(q) /\ \A i \in 1 .. Len(r) : i + 1 \in 1 .. Len(q)
    BY <1>1
<1>3. InOrder(r)
  <2>1. ASSUME NEW i \in 1 .. Len(r), r[i].byte < 128
        PROVE  /\ r[i].byte \in 1 .. (TableSize - 1)
               /\ \A j \in 1 .. Len(r) : j < i /\ r[j].byte < 128 => r[j].press < r[i].press
    <3>1. r[i] = q[i + 1] /\ i + 1 \in 1 .. Len(q)
        BY <1>1, <1>2
    <3>2. ASSUME NEW j \in 1 .. Len(r), j < i, r[j].byte < 128
          PROVE  r[j].press < r[i].press
      <4>1. r[j] = q[j + 1] /\ j + 1 \in 1 .. Len(q)
          BY <1>1, <1>2
      <4>2. j + 1 < i + 1
          BY <3>2
      <4> QED
          BY <2>1, <3>1, <3>2, <4>1, <4>2 DEF InOrder
    <3> QED
        BY <2>1, <3>1, <3>2 DEF InOrder
  <2> QED
      BY <2>1 DEF InOrder
<1>4. Between(r, low, high)
    BY <1>1, <1>2 DEF Between
<1>5. ASSUME Head(q).byte < 128
      PROVE  /\ Head(q).byte \in 1 .. (TableSize - 1)
             /\ low < Head(q).press /\ Head(q).press <= high
             /\ Between(r, Head(q).press, high)
  <2>1. Head(q).byte \in 1 .. (TableSize - 1) /\ low < Head(q).press /\ Head(q).press <= high
      BY <1>1, <1>2, <1>5 DEF InOrder, Between
  <2>2. ASSUME NEW i \in 1 .. Len(r), r[i].byte < 128
        PROVE  Head(q).press < r[i].press
    <3>1. r[i] = q[i + 1] /\ i + 1 \in 1 .. Len(q) /\ 1 < i + 1
        BY <1>1, <1>2
    <3> QED
        BY <1>1, <1>2, <1>5, <2>2, <3>1 DEF InOrder
  <2> QED
      BY <1>4, <2>1, <2>2 DEF Between
<1> QED
    BY <1>1, <1>3, <1>4, <1>5 DEF r

\* The bytes of a key.
LEMMA KeyBytes ==
    ASSUME NEW k \in Keys, NEW number \in Nat, NEW last \in Nat
    PROVE  /\ Bytes(k, number, last) \in Seq(Entries) /\ Len(k) \in Nat \ {0}
           /\ Len(Bytes(k, number, last)) = Len(k)
           /\ \A i \in 1 .. Len(k) :
                  /\ Bytes(k, number, last)[i].press = number
                  /\ Bytes(k, number, last)[i].byte = IF i = Len(k) THEN last ELSE 224
           /\ MakeCode(k) \in 1 .. (TableSize - 1)
<1> DEFINE entry(i) == [byte |-> IF i = Len(k) THEN last ELSE k[i], press |-> number]
<1>1. k \in Seq(Nat) /\ k # <<>>
    BY KeyboardAssumption
<1>2. Len(k) \in Nat \ {0} /\ DOMAIN k = 1 .. Len(k)
    BY <1>1
<1>3. \A i \in 1 .. Len(k) : k[i] \in Nat
    BY <1>1
<1>4. \A i \in 1 .. Len(k) : i # Len(k) => k[i] = 224
  <2>1. \A i \in 1 .. (Len(k) - 1) : k[i] = 224
      BY KeyboardAssumption
  <2> TAKE i \in 1 .. Len(k)
  <2>2. i # Len(k) => i \in 1 .. (Len(k) - 1)
    <3>1. Len(k) \in Nat /\ i \in Nat /\ 1 <= i /\ i <= Len(k)
        BY <1>2
    <3> QED
        BY <3>1
  <2> QED
      BY <2>1, <2>2
<1>5. \A i \in 1 .. Len(k) : entry(i) \in Entries
    BY <1>3 DEF Entries
<1>6. \A i \in 1 .. Len(k) :
          entry(i).press = number /\ entry(i).byte = IF i = Len(k) THEN last ELSE 224
    BY <1>4
<1>7. Bytes(k, number, last) = [i \in 1 .. Len(k) |-> entry(i)]
    BY <1>2 DEF Bytes
<1> HIDE DEF entry
<1>8. /\ Bytes(k, number, last) \in Seq(Entries) /\ Len(Bytes(k, number, last)) = Len(k)
      /\ \A i \in 1 .. Len(k) : Bytes(k, number, last)[i] = entry(i)
    BY <1>2, <1>5, <1>7
<1>9. MakeCode(k) \in 1 .. (TableSize - 1)
    BY KeyboardAssumption
<1>10. \A i \in 1 .. Len(k) :
           /\ Bytes(k, number, last)[i].press = number
           /\ Bytes(k, number, last)[i].byte = IF i = Len(k) THEN last ELSE 224
    BY <1>6, <1>8
<1> QED
    BY <1>2, <1>8, <1>9, <1>10

-----------------------------------------------------------------------------
(* The inductive invariant.                                                *)

\* The bytes that wait are of presses after the one in _scancode and after the one
\* whose key has been returned.
Pending ==
    /\ queue \in Seq(Entries) /\ InOrder(queue)
    /\ Between(queue, press, presses) /\ Between(queue, handled, presses)

\* _scancode is of a press that has not been returned, except from the return of its
\* key to the discard.
Reader ==
    /\ pc \in {"lookup", "leds", "discard"} => scancode # 0
    /\ scancode # 0 => /\ press >= handled
                       /\ pc \in {"test", "lookup", "convert", "store"} => press > handled

\* The lights have been set after the press that is discarded.
Lights ==
    /\ pc = "discard" /\ press = handled => leds = locks
    /\ pc \in {"test", "convert", "store"} /\ scancode = 0 /\ ~dropped => leds = locks

Editing == pc = "store" => lastKey \in 1 .. 127

IInv == TypeOK /\ Pending /\ Reader /\ Lights /\ Editing

\* Bytes of no press are put into the queue.
LEMMA OtherBytes ==
    ASSUME TypeOK, Pending, NEW new \in Seq(Entries), \A i \in 1 .. Len(new) : new[i].byte >= 128,
           queue' = queue \o new, press' = press, handled' = handled, presses' = presses
    PROVE  Pending'
<1>1. press \in Nat /\ handled \in Nat /\ presses \in Nat
    BY KeyboardAssumption DEF TypeOK
<1>2. \A i \in 1 .. Len(new) : ~(new[i].byte < 128)
    BY EntryFields
<1>3. \A i \in 1 .. Len(queue) : queue[i].byte < 128 => queue[i].press <= presses
    BY DEF Pending, Between
<1>4. InOrder(queue')
    BY <1>1, <1>2, <1>3, Appended DEF Pending
<1>5. ASSUME NEW low \in Nat, Between(queue, low, presses)
      PROVE  Between(queue', low, presses)
  <2>1. queue \in Seq(Entries) /\ presses <= presses
      BY <1>1 DEF Pending
  <2>2. \A i \in 1 .. Len(new) :
            new[i].byte < 128 => low < new[i].press /\ new[i].press <= presses
      BY <1>2
  <2> QED
      BY <1>1, <1>5, <2>1, <2>2, AppendedBetween
<1>6. queue' \in Seq(Entries)
    BY AppendedEntries DEF Pending
<1> QED
    BY <1>1, <1>4, <1>5, <1>6 DEF Pending

Acks == <<[byte |-> Ack, press |-> NoPress], [byte |-> Ack, press |-> NoPress]>>

LEMMA AcksAreOther ==
    Acks \in Seq(Entries) /\ Len(Acks) = 2 /\ \A i \in 1 .. Len(Acks) : Acks[i].byte >= 128
<1>1. [byte |-> Ack, press |-> NoPress] \in Entries
    BY DEF Entries, Ack, NoPress
<1>2. Acks \in Seq(Entries) /\ Len(Acks) = 2
    BY <1>1 DEF Acks
<1>3. Acks[1].byte = 250 /\ Acks[2].byte = 250
    BY DEF Acks, Ack
<1> QED
    BY <1>2, <1>3

\* What the handler does to the variables it shares.
LEMMA Handled ==
    ASSUME TypeOK, Pending, I86KeyboardInterruptHandler
    PROVE  /\ queue # <<>> /\ queue' = Tail(queue)
           /\ UNCHANGED <<pc, callerVars, userVars, leds>>
           /\ modifiers' \subseteq Flags /\ misread' \subseteq Flags /\ locks' \subseteq Locks
           /\ errors' \subseteq {BatFailed, DiagFailed, Resend}
           /\ \/ /\ Head(queue).byte < 128
                 /\ scancode' = Head(queue).byte /\ press' = Head(queue).press
              \/ Head(queue).byte >= 128 /\ UNCHANGED <<scancode, press, locks>>
<1> DEFINE byte == Head(queue).byte
           isPrefix == byte \in {224, 225}
           isBreak == ~isPrefix /\ byte >= 128
           code == IF isBreak THEN byte - 128 ELSE byte
<1>1. queue # <<>> /\ queue' = Tail(queue) /\ UNCHANGED <<pc, callerVars, userVars, leds>>
    BY DEF I86KeyboardInterruptHandler
<1>2. byte \in Nat
  <2>1. Head(queue) \in Entries
      BY <1>1, Taken DEF Pending, TypeOK
  <2> QED
      BY <2>1 DEF Entries
<1>3. \/ isPrefix /\ UNCHANGED <<scancode, press, modifiers, locks, misread>>
      \/ \E key \in Found(code) : isBreak /\ BreakKey(key) /\ misread' = Misread(code, key)
      \/ \E key \in Found(code) : /\ ~isPrefix /\ ~isBreak /\ misread' = Misread(code, key)
                                 /\ MakeKey(code, key, Head(queue).press)
    BY DEF I86KeyboardInterruptHandler
<1>4. errors' = errors \cup ({code} \cap {BatFailed, DiagFailed, Resend})
    BY DEF I86KeyboardInterruptHandler
<1>5. /\ errors \subseteq {BatFailed, DiagFailed, Resend}
      /\ modifiers \subseteq Flags /\ misread \subseteq Flags /\ locks \subseteq Locks
    BY DEF TypeOK
<1>6. errors' \subseteq {BatFailed, DiagFailed, Resend}
    BY <1>4, <1>5
<1>7. CASE isPrefix /\ UNCHANGED <<scancode, press, modifiers, locks, misread>>
    BY <1>1, <1>2, <1>5, <1>6, <1>7
<1>10. ASSUME NEW key
       PROVE  Misread(code, key) \subseteq Flags
    BY <1>5 DEF Misread
<1> HIDE DEF code
<1>8. ASSUME NEW key \in Found(code), isBreak, BreakKey(key), misread' = Misread(code, key)
      PROVE  /\ byte >= 128 /\ UNCHANGED <<scancode, press, locks>>
             /\ modifiers' \subseteq Flags /\ misread' \subseteq Flags /\ locks' \subseteq Locks
    BY <1>2, <1>5, <1>8, <1>10 DEF BreakKey
<1>9. ASSUME NEW key \in Found(code), ~isPrefix, ~isBreak, misread' = Misread(code, key),
             MakeKey(code, key, Head(queue).press)
      PROVE  /\ byte < 128 /\ scancode' = byte /\ press' = Head(queue).press
             /\ modifiers' \subseteq Flags /\ misread' \subseteq Flags /\ locks' \subseteq Locks
  <2>1. byte < 128 /\ code = byte
      BY <1>2, <1>9 DEF code
  <2>2. /\ scancode' = byte /\ press' = Head(queue).press
        /\ modifiers' = modifiers \cup At(Modifier, key)
        /\ locks' = SymDiff(locks, At(LockKey, key))
      BY <1>9, <2>1 DEF MakeKey
  <2>3. modifiers' \subseteq Flags /\ locks' \subseteq Locks
      BY <1>5, <2>2, FlagKeys DEF SymDiff
  <2> QED
      BY <1>9, <1>10, <2>1, <2>2, <2>3
<1> QED
    BY <1>1, <1>3, <1>6, <1>7, <1>8, <1>9

LEMMA Converted ==
    ASSUME NEW key \in Nat
    PROVE  Convert(key) \in 0 .. 255 /\ (Convert(key) # 0 <=> key \in 1 .. 127)
<1>1. ("shift" \in modifiers) \in BOOLEAN /\ ("caps" \in locks) \in BOOLEAN
    OBVIOUS
<1>2. \A shift, caps \in BOOLEAN : KeyboardConvertKeyToASCII(key, shift, caps) \in 0 .. 255
    BY Characters
<1>3. \A shift, caps \in BOOLEAN :
          KeyboardConvertKeyToASCII(key, shift, caps) # 0 <=> key \in 1 .. 127
    BY Characters
<1>4. Convert(key) \in 0 .. 255
    BY <1>1, <1>2, Zenon DEF Convert
<1>5. Convert(key) # 0 <=> key \in 1 .. 127
    BY <1>1, <1>3, Zenon DEF Convert
<1> QED
    BY <1>4, <1>5

LEMMA TypesKept ==
    ASSUME TypeOK, Pending, [Next]_vars
    PROVE  TypeOK'
<1> USE DEF driverVars, userVars, callerVars
<1>1. /\ presses \in Nat /\ press \in Nat /\ handled \in Nat /\ MaxPresses \in Nat
      /\ MaxQueue \in Nat /\ 0 \in 0 .. (TableSize - 1) /\ Len(queue) \in Nat
    BY KeyboardAssumption DEF TypeOK, Pending, TableSize
<1>2. ASSUME NEW k \in Keys, Press(k)
      PROVE  TypeOK'
  <2>1. /\ presses' = presses + 1 /\ presses < MaxPresses /\ held' = held \cup {k}
        /\ Len(queue) + Len(k) <= MaxQueue
        /\ queue' = queue \o Bytes(k, presses + 1, MakeCode(k))
        /\ UNCHANGED <<pc, callerVars, driverVars, leds, batFailed>>
      BY <1>2 DEF Press
  <2>2. Len(queue') <= MaxQueue
    <3>1. /\ Bytes(k, presses + 1, MakeCode(k)) \in Seq(Entries)
          /\ Len(Bytes(k, presses + 1, MakeCode(k))) = Len(k)
        BY <1>1, KeyBytes
    <3> QED
        BY <2>1, <3>1, AppendedEntries DEF Pending
  <2>3. press' \in 0 .. presses' /\ handled' \in 0 .. presses' /\ presses' \in 0 .. MaxPresses
      BY <1>1, <2>1 DEF TypeOK
  <2> QED
      BY <2>1, <2>2, <2>3 DEF TypeOK
<1>3. ASSUME NEW k \in Keys, Release(k)
      PROVE  TypeOK'
  <2>1. /\ held' = held \ {k} /\ Len(queue) + Len(k) <= MaxQueue
        /\ queue' = queue \o Bytes(k, NoPress, MakeCode(k) + 128)
        /\ UNCHANGED <<pc, callerVars, driverVars, leds, presses, batFailed>>
      BY <1>3 DEF Release
  <2>2. Len(queue') <= MaxQueue
    <3>1. MakeCode(k) + 128 \in Nat
        BY KeyBytes, <1>1
    <3>2. /\ Bytes(k, NoPress, MakeCode(k) + 128) \in Seq(Entries)
          /\ Len(Bytes(k, NoPress, MakeCode(k) + 128)) = Len(k)
        BY <3>1, KeyBytes DEF NoPress
    <3> QED
        BY <2>1, <3>2, AppendedEntries DEF Pending
  <2> QED
      BY <2>1, <2>2 DEF TypeOK
<1>4. CASE SelfTestFails
  <2>1. /\ Len(queue) < MaxQueue
        /\ queue' = Append(queue, [byte |-> BatFailed, press |-> NoPress])
        /\ UNCHANGED <<pc, callerVars, driverVars, leds, held, presses>>
      BY <1>4 DEF SelfTestFails
  <2>2. Len(queue') = Len(queue) + 1
      BY <2>1 DEF Pending
  <2>3. Len(queue') <= MaxQueue
      BY <1>1, <2>1, <2>2
  <2> QED
      BY <2>1, <2>3 DEF TypeOK
<1>5. CASE I86KeyboardInterruptHandler
  <2>1. /\ queue # <<>> /\ queue' = Tail(queue) /\ UNCHANGED <<pc, callerVars, userVars, leds>>
        /\ modifiers' \subseteq Flags /\ misread' \subseteq Flags /\ locks' \subseteq Locks
        /\ errors' \subseteq {BatFailed, DiagFailed, Resend}
        /\ \/ /\ Head(queue).byte < 128
              /\ scancode' = Head(queue).byte /\ press' = Head(queue).press
           \/ Head(queue).byte >= 128 /\ UNCHANGED <<scancode, press, locks>>
      BY <1>5, Handled
  <2>2. Len(queue') <= MaxQueue
    <3>1. Len(queue') = Len(queue) - 1
        BY <2>1 DEF Pending
    <3> QED
        BY <1>1, <3>1 DEF TypeOK
  <2>3. scancode' \in 0 .. (TableSize - 1) /\ press' \in 0 .. presses
    <3>1. CASE Head(queue).byte < 128 /\ scancode' = Head(queue).byte /\ press' = Head(queue).press
      <4>1. /\ Head(queue).byte \in 1 .. (TableSize - 1)
            /\ press < Head(queue).press /\ Head(queue).press <= presses
            /\ Head(queue) \in Entries
          BY <1>1, <2>1, <3>1, Taken DEF Pending
      <4>2. Head(queue).press \in Nat
          BY <4>1 DEF Entries
      <4> QED
          BY <1>1, <3>1, <4>1, <4>2 DEF TableSize
    <3>2. CASE UNCHANGED <<scancode, press, locks>>
        BY <3>2 DEF TypeOK
    <3> QED
        BY <2>1, <3>1, <3>2
  <2> QED
      BY <2>1, <2>2, <2>3 DEF TypeOK
<1>6. CASE TestScancode
    BY <1>6 DEF TypeOK, TestScancode
<1>7. CASE LookupScancode
  <2>1. \A key \in Found(scancode) : key \in Nat
      BY LookupType
  <2> QED
      BY <1>7, <2>1 DEF TypeOK, LookupScancode
<1>8. CASE KeyboardSetLeds
  <2>1. /\ pc' = "discard" /\ leds' = locks /\ Len(queue) + 2 <= MaxQueue /\ queue' = queue \o Acks
        /\ UNCHANGED <<callerVars, driverVars, userVars>>
      BY <1>8 DEF KeyboardSetLeds, Acks
  <2>2. Len(queue') <= MaxQueue
    <3>1. Len(queue \o Acks) = Len(queue) + Len(Acks)
        BY AcksAreOther, AppendedEntries DEF Pending
    <3> QED
        BY <1>1, <2>1, <3>1, AcksAreOther
  <2> QED
      BY <2>1, <2>2 DEF TypeOK
<1>9. CASE KeyboardDiscardLastKey
  <2>1. 0 \in 0 .. presses
      BY <1>1
  <2> QED
      BY <1>1, <1>9, <2>1 DEF TypeOK, KeyboardDiscardLastKey, NoPress
<1>10. CASE ConvertKey
    BY <1>10 DEF TypeOK, ConvertKey
<1>11. CASE StoreCharacter
  <2>1. Convert(lastKey) \in 0 .. 255
      BY Converted DEF TypeOK
  <2> QED
      BY <1>11, <2>1 DEF TypeOK, StoreCharacter
<1>12. CASE UNCHANGED vars
    BY <1>12 DEF TypeOK, vars
<1> QED
    BY <1>2, <1>3, <1>4, <1>5, <1>6, <1>7, <1>8, <1>9, <1>10, <1>11, <1>12
       DEF Next, Editor, KeyboardGetCharacter

LEMMA PendingKept ==
    ASSUME TypeOK, Pending, [Next]_vars
    PROVE  Pending'
<1> USE DEF driverVars, userVars, callerVars
<1>1. presses \in Nat /\ press \in Nat /\ handled \in Nat
    BY KeyboardAssumption DEF TypeOK
<1>2. ASSUME NEW k \in Keys, Press(k)
      PROVE  Pending'
  <2> DEFINE new == Bytes(k, presses + 1, MakeCode(k))
  <2>1. /\ presses' = presses + 1 /\ queue' = queue \o new /\ press' = press /\ handled' = handled
      BY <1>2 DEF Press
  <2>2. presses + 1 \in Nat /\ MakeCode(k) \in Nat /\ MakeCode(k) \in 1 .. (TableSize - 1)
      BY <1>1, KeyBytes
  <2>3. /\ new \in Seq(Entries) /\ Len(new) = Len(k)
        /\ \A i \in 1 .. Len(k) : /\ new[i].press = presses + 1
                                  /\ new[i].byte = IF i = Len(k) THEN MakeCode(k) ELSE 224
      BY <2>2, KeyBytes
  <2> HIDE DEF new
  <2>4. \A i \in 1 .. Len(new) : new[i].byte < 128 =>
            i = Len(new) /\ new[i].byte \in 1 .. (TableSize - 1) /\ new[i].press = presses + 1
      BY <2>2, <2>3
  <2>5. \A i \in 1 .. Len(queue) : queue[i].byte < 128 => queue[i].press <= presses
      BY DEF Pending, Between
  <2>6. InOrder(queue')
      BY <1>1, <2>1, <2>3, <2>4, <2>5, Appended DEF Pending
  <2>7. ASSUME NEW low \in 0 .. presses, Between(queue, low, presses)
        PROVE  Between(queue', low, presses')
    <3>1. low \in Nat /\ presses + 1 \in Nat /\ presses <= presses + 1 /\ queue \in Seq(Entries)
        BY <1>1 DEF Pending
    <3>2. \A i \in 1 .. Len(new) :
              new[i].byte < 128 => low < new[i].press /\ new[i].press <= presses + 1
      <4> TAKE i \in 1 .. Len(new)
      <4>1. new[i].press = presses + 1
          BY <2>3
      <4> QED
          BY <1>1, <2>7, <4>1
    <3>3. Between(queue \o new, low, presses + 1)
        BY <1>1, <2>3, <2>7, <3>1, <3>2, AppendedBetween
    <3> QED
        BY <2>1, <3>3
  <2>8. press \in 0 .. presses /\ handled \in 0 .. presses
      BY DEF TypeOK
  <2>9. queue' \in Seq(Entries)
      BY <2>1, <2>3, AppendedEntries DEF Pending
  <2> QED
      BY <2>1, <2>6, <2>7, <2>8, <2>9 DEF Pending
<1>3. ASSUME NEW k \in Keys, Release(k)
      PROVE  Pending'
  <2> DEFINE new == Bytes(k, NoPress, MakeCode(k) + 128)
  <2>1. queue' = queue \o new /\ UNCHANGED <<press, handled, presses>>
      BY <1>3 DEF Release
  <2>2. MakeCode(k) + 128 \in Nat /\ NoPress \in Nat /\ MakeCode(k) \in Nat
      BY <1>1, KeyBytes DEF NoPress
  <2>3. /\ new \in Seq(Entries) /\ Len(new) = Len(k)
        /\ \A i \in 1 .. Len(k) : new[i].byte = IF i = Len(k) THEN MakeCode(k) + 128 ELSE 224
      BY <2>2, KeyBytes
  <2> HIDE DEF new
  <2>4. \A i \in 1 .. Len(new) : new[i].byte >= 128
      BY <2>2, <2>3
  <2> QED
      BY <2>1, <2>3, <2>4, OtherBytes
<1>4. CASE SelfTestFails
  <2> DEFINE new == <<[byte |-> BatFailed, press |-> NoPress]>>
  <2>1. UNCHANGED <<press, handled, presses>>
      BY <1>4 DEF SelfTestFails
  <2>2. [byte |-> BatFailed, press |-> NoPress] \in Entries
      BY DEF Entries, BatFailed, NoPress
  <2>3. queue' = queue \o new
      BY <1>4, <2>2 DEF SelfTestFails, Pending
  <2>4. new \in Seq(Entries) /\ Len(new) = 1 /\ new[1].byte = 252
      BY <2>2 DEF BatFailed
  <2> HIDE DEF new
  <2>5. \A i \in 1 .. Len(new) : new[i].byte >= 128
      BY <2>4
  <2> QED
      BY <2>1, <2>3, <2>4, <2>5, OtherBytes
<1>5. CASE I86KeyboardInterruptHandler
  <2>1. /\ queue # <<>> /\ queue' = Tail(queue) /\ UNCHANGED <<handled, presses>>
        /\ \/ Head(queue).byte < 128 /\ press' = Head(queue).press
           \/ press' = press
      BY <1>5, Handled
  <2>2. /\ queue' \in Seq(Entries) /\ InOrder(queue')
        /\ Between(queue', press, presses) /\ Between(queue', handled, presses)
        /\ Head(queue).byte < 128 => Between(queue', Head(queue).press, presses)
      BY <1>1, <2>1, Taken DEF Pending
  <2>3. Between(queue', press', presses)
      BY <2>1, <2>2
  <2> QED
      BY <2>1, <2>2, <2>3 DEF Pending
<1>6. CASE KeyboardSetLeds
  <2>1. queue' = queue \o Acks /\ UNCHANGED <<press, handled, presses>>
      BY <1>6 DEF KeyboardSetLeds, Acks
  <2> QED
      BY <2>1, AcksAreOther, OtherBytes
<1>7. CASE LookupScancode
  <2>1. UNCHANGED <<queue, press, presses>> /\ handled' \in {handled, press}
      BY <1>7 DEF LookupScancode
  <2> QED
      BY <2>1 DEF Pending
<1>8. CASE KeyboardDiscardLastKey
  <2>1. UNCHANGED <<queue, handled, presses>> /\ press' = 0
      BY <1>8 DEF KeyboardDiscardLastKey, NoPress
  <2>2. ASSUME NEW i \in 1 .. Len(queue), queue[i].byte < 128
        PROVE  0 < queue[i].press /\ queue[i].press <= presses
    <3>1. queue[i].press \in Nat /\ handled < queue[i].press /\ queue[i].press <= presses
        BY <2>2, EntryFields DEF Pending, Between
    <3> QED
        BY <1>1, <3>1
  <2>3. Between(queue, 0, presses)
      BY <2>2 DEF Between
  <2> QED
      BY <2>1, <2>3 DEF Pending
<1>9. CASE TestScancode \/ ConvertKey \/ StoreCharacter \/ UNCHANGED vars
  <2>1. UNCHANGED <<queue, press, handled, presses>>
      BY <1>9 DEF TestScancode, ConvertKey, StoreCharacter, vars
  <2> QED
      BY <2>1 DEF Pending
<1> QED
    BY <1>2, <1>3, <1>4, <1>5, <1>6, <1>7, <1>8, <1>9
       DEF Next, Editor, KeyboardGetCharacter

\* The thread's side: its place, the scan code and the lights.
LEMMA ReaderKept ==
    ASSUME TypeOK, Pending, Reader, Lights, Editing, [Next]_vars
    PROVE  Reader' /\ Lights' /\ Editing'
<1> USE DEF driverVars, userVars, callerVars
<1>1. /\ presses \in Nat /\ press \in Nat /\ handled \in Nat /\ lastKey \in Nat
      /\ pc \in {"test", "lookup", "leds", "discard", "convert", "store"}
    BY KeyboardAssumption DEF TypeOK
<1>2. CASE I86KeyboardInterruptHandler
  <2>1. /\ queue # <<>> /\ UNCHANGED <<pc, handled, lastKey, dropped, leds>>
        /\ \/ /\ Head(queue).byte < 128
              /\ scancode' = Head(queue).byte /\ press' = Head(queue).press
           \/ Head(queue).byte >= 128 /\ UNCHANGED <<scancode, press, locks>>
      BY <1>2, Handled
  <2>2. CASE Head(queue).byte < 128 /\ scancode' = Head(queue).byte /\ press' = Head(queue).press
    <3>1. /\ Head(queue).byte \in 1 .. (TableSize - 1) /\ handled < Head(queue).press
          /\ Head(queue) \in Entries
        BY <1>1, <2>1, <2>2, Taken DEF Pending
    <3>2. scancode' # 0 /\ press' \in Nat /\ handled < press'
        BY <2>2, <3>1 DEF Entries, TableSize
    <3> QED
        BY <1>1, <2>1, <3>2 DEF Reader, Lights, Editing
  <2>3. CASE UNCHANGED <<scancode, press, locks>>
      BY <2>1, <2>3 DEF Reader, Lights, Editing
  <2> QED
      BY <2>1, <2>2, <2>3
<1>3. CASE TestScancode
    BY <1>3 DEF TestScancode, Reader, Lights, Editing
<1>4. CASE LookupScancode
  <2>1. /\ pc = "lookup" /\ UNCHANGED <<scancode, press, leds, locks, dropped>>
        /\ \/ pc' = "test" /\ handled' = handled
           \/ pc' = "leds" /\ handled' = press
      BY <1>4 DEF LookupScancode
  <2> QED
      BY <1>1, <2>1 DEF Reader, Lights, Editing
<1>5. CASE KeyboardSetLeds
    BY <1>5 DEF KeyboardSetLeds, Reader, Lights, Editing
<1>6. CASE KeyboardDiscardLastKey
    BY <1>6 DEF KeyboardDiscardLastKey, Reader, Lights, Editing
<1>7. CASE ConvertKey
  <2>1. /\ pc = "convert" /\ pc' \in {"store", "test"}
        /\ pc' = "store" => Convert(lastKey) # 0
        /\ UNCHANGED <<scancode, press, handled, leds, locks, dropped, lastKey>>
      BY <1>7 DEF ConvertKey
  <2>2. pc' = "store" => lastKey' \in 1 .. 127
      BY <1>1, <2>1, Converted
  <2> QED
      BY <2>1, <2>2 DEF Reader, Lights, Editing
<1>8. CASE StoreCharacter
    BY <1>8 DEF StoreCharacter, Reader, Lights, Editing
<1>9. CASE (\E k \in Keys : Press(k) \/ Release(k)) \/ SelfTestFails \/ UNCHANGED vars
  <2>1. UNCHANGED <<pc, scancode, press, handled, leds, locks, dropped, lastKey>>
      BY <1>9 DEF Press, Release, SelfTestFails, vars
  <2> QED
      BY <2>1 DEF Reader, Lights, Editing
<1> QED
    BY <1>2, <1>3, <1>4, <1>5, <1>6, <1>7, <1>8, <1>9
       DEF Next, Editor, KeyboardGetCharacter

-----------------------------------------------------------------------------
(* The theorems.                                                           *)

LEMMA InitInv == Init => IInv
<1> SUFFICES ASSUME Init PROVE IInv
    OBVIOUS
<1>1. queue = Acks
    BY DEF Init, Acks
<1>2. TypeOK
  <2>1. Len(queue) <= MaxQueue
    <3>1. MaxQueue \in Nat \ {0, 1} /\ Len(queue) = 2
        BY <1>1, AcksAreOther, KeyboardAssumption
    <3> QED
        BY <3>1
  <2>2. 0 \in 0 .. MaxPresses /\ 0 \in 0 .. (TableSize - 1) /\ 0 \in 0 .. 0 /\ 0 \in 0 .. 255
      BY KeyboardAssumption DEF TableSize
  <2> QED
      BY <2>1, <2>2 DEF Init, TypeOK, NoPress
<1>3. Pending
  <2>1. queue \in Seq(Entries) /\ \A i \in 1 .. Len(queue) : ~(queue[i].byte < 128)
      BY <1>1, AcksAreOther, EntryFields
  <2> QED
      BY <2>1 DEF Pending, InOrder, Between
<1>4. Reader /\ Lights /\ Editing
    BY DEF Init, Reader, Lights, Editing
<1> QED
    BY <1>2, <1>3, <1>4 DEF IInv

LEMMA NextInv == IInv /\ [Next]_vars => IInv'
<1> SUFFICES ASSUME IInv, [Next]_vars PROVE IInv'
    OBVIOUS
<1>1. TypeOK /\ Pending /\ Reader /\ Lights /\ Editing
    BY DEF IInv
<1> QED
    BY <1>1, TypesKept, PendingKept, ReaderKept DEF IInv

LEMMA Invariance == Spec => []IInv
    BY InitInv, NextInv, PTL DEF Spec

\* Every variable keeps its type; in particular the scan code stays in the table, for
\* keys that have an entry there.
THEOREM TypeCorrect == Spec => []TypeOK
<1>1. IInv => TypeOK
    BY DEF IInv
<1> QED
    BY <1>1, Invariance, PTL

\* KeyboardGetCharacter returns presses in the order they were made and none twice, with
\* an interrupt between any two of its accesses to _scancode.
THEOREM PressesInOrder == Spec => PressesReturnedInOrder
<1>1. IInv /\ [Next]_vars => [pc = "lookup" /\ pc' = "leds" => handled' > handled]_vars
  <2> SUFFICES ASSUME IInv, [Next]_vars, pc = "lookup", pc' = "leds"
               PROVE  handled' > handled
      OBVIOUS
  <2>1. LookupScancode
      BY Handled DEF IInv, Next, Press, Release, SelfTestFails, Editor, KeyboardGetCharacter,
         TestScancode, KeyboardSetLeds, KeyboardDiscardLastKey, ConvertKey, StoreCharacter, vars
  <2>2. handled' = press
      BY <2>1 DEF LookupScancode
  <2> QED
      BY <2>2 DEF IInv, Reader
<1> QED
    BY <1>1, Invariance, PTL DEF Spec, PressesReturnedInOrder

\* The lights agree with the lock flags whenever the driver waits for a key, unless a
\* press was thrown away (KeyboardSetLeds comes before KeyboardDiscardLastKey).
THEOREM LightsAgree == Spec => []LedsMatchLocks
<1>1. IInv => LedsMatchLocks
    BY DEF IInv, Lights, LedsMatchLocks
<1> QED
    BY <1>1, Invariance, PTL

\* Whatever changes between the two conversions, the line editor stores a character of
\* the key it tested (ReadStringFromKeyboard).
THEOREM CharactersStored == Spec => CharactersComeFromKeys
<1>1. IInv /\ [Next]_vars =>
          [pc = "store" /\ pc' = "test" =>
               /\ character' # 0
               /\ \E shift, caps \in BOOLEAN :
                      character' = KeyboardConvertKeyToASCII(lastKey, shift, caps)]_vars
  <2> SUFFICES ASSUME IInv, [Next]_vars, pc = "store", pc' = "test"
               PROVE  /\ character' # 0
                      /\ \E shift, caps \in BOOLEAN :
                             character' = KeyboardConvertKeyToASCII(lastKey, shift, caps)
      OBVIOUS
  <2>1. StoreCharacter
      BY Handled DEF IInv, Next, Press, Release, SelfTestFails, Editor, KeyboardGetCharacter,
         TestScancode, LookupScancode, KeyboardSetLeds, KeyboardDiscardLastKey, ConvertKey, vars
  <2>2. character' = Convert(lastKey) /\ lastKey \in Nat /\ lastKey \in 1 .. 127
      BY <2>1 DEF StoreCharacter, IInv, TypeOK, Editing
  <2>3. Convert(lastKey) # 0
      BY <2>2, Converted
  <2>4. ("shift" \in modifiers) \in BOOLEAN /\ ("caps" \in locks) \in BOOLEAN
      OBVIOUS
  <2>5. \E shift, caps \in BOOLEAN :
            Convert(lastKey) = KeyboardConvertKeyToASCII(lastKey, shift, caps)
      BY <2>4, Zenon DEF Convert
  <2> QED
      BY <2>2, <2>3, <2>5
<1> QED
    BY <1>1, Invariance, PTL DEF Spec, CharactersComeFromKeys

-----------------------------------------------------------------------------
(* The flags of the modifier keys.                                         *)

\* The flags that the keys have set and not cleared.
KeyFlagsNow == modifiers \cup misread

\* What the keys' bytes in the controller are going to do to a flag.
Sets(e, flag) == e.byte < 128 /\ flag \in At(Modifier, Lookup(e.byte))
Clears(e, flag) ==
    /\ e.byte >= 128 /\ e.byte \notin {224, 225}
    /\ e.byte - 128 < TableSize /\ flag \in At(Modifier, Lookup(e.byte - 128))

\* Whether the flag is going to be set once the handler has served them all.
SetAfter(q, flag, flags) ==
    \/ \E i \in 1 .. Len(q) :
           Sets(q[i], flag) /\ \A j \in 1 .. Len(q) : i < j => ~Clears(q[j], flag)
    \/ flag \in flags /\ \A i \in 1 .. Len(q) : ~Clears(q[i], flag)

FlagsFollow ==
    \A flag \in Flags :
        /\ KeysOf(flag) # {} /\ KeysOf(flag) \subseteq held =>
               SetAfter(queue, flag, KeyFlagsNow)
        /\ SetAfter(queue, flag, KeyFlagsNow) => KeysOf(flag) \cap held # {}

LEMMA OthersLeaveFlag ==
    ASSUME NEW q \in Seq(Entries), NEW new \in Seq(Entries), NEW flag, NEW now,
           \A i \in 1 .. Len(new) : ~Sets(new[i], flag) /\ ~Clears(new[i], flag)
    PROVE  SetAfter(q \o new, flag, now) <=> SetAfter(q, flag, now)
<1> DEFINE r == q \o new
<1>1. /\ Len(r) = Len(q) + Len(new) /\ Len(q) \in Nat /\ Len(new) \in Nat
      /\ \A j \in 1 .. Len(q) : r[j] = q[j]
      /\ \A j \in 1 .. Len(new) : r[Len(q) + j] = new[j]
    BY AppendedEntries
<1> HIDE DEF r
<1>2. ASSUME NEW i \in 1 .. Len(r), ~(i <= Len(q))
      PROVE  ~Sets(r[i], flag) /\ ~Clears(r[i], flag)
  <2> DEFINE k == i - Len(q)
  <2>1. k \in 1 .. Len(new) /\ i = Len(q) + k
      BY <1>1, <1>2
  <2> HIDE DEF k
  <2>2. r[i] = new[k]
      BY <1>1, <2>1
  <2> QED
      BY <2>1, <2>2
<1>3. \A i \in 1 .. Len(q) : i \in 1 .. Len(r) /\ r[i] = q[i]
    BY <1>1
<1>4. \A i \in 1 .. Len(r) : i <= Len(q) => i \in 1 .. Len(q)
    BY <1>1
<1>5. (\A i \in 1 .. Len(r) : ~Clears(r[i], flag)) <=> (\A i \in 1 .. Len(q) : ~Clears(q[i], flag))
    BY <1>2, <1>3, <1>4
<1>6. ASSUME NEW i \in 1 .. Len(q)
      PROVE  (\A j \in 1 .. Len(r) : i < j => ~Clears(r[j], flag))
                 <=> (\A j \in 1 .. Len(q) : i < j => ~Clears(q[j], flag))
    BY <1>2, <1>3, <1>4
<1>7. \A i \in 1 .. Len(r) : Sets(r[i], flag) => i \in 1 .. Len(q)
    BY <1>2, <1>4
<1>8. (\E i \in 1 .. Len(r) : Sets(r[i], flag) /\ \A j \in 1 .. Len(r) : i < j => ~Clears(r[j], flag))
          <=> (\E i \in 1 .. Len(q) :
                   Sets(q[i], flag) /\ \A j \in 1 .. Len(q) : i < j => ~Clears(q[j], flag))
    BY <1>3, <1>6, <1>7
<1> QED
    BY <1>5, <1>8 DEF SetAfter, r

\* The last byte of a key decides.
LEMMA KeyDecidesFlag ==
    ASSUME NEW q \in Seq(Entries), NEW new \in Seq(Entries), Len(new) # 0, NEW flag,
           NEW now, \A i \in 1 .. Len(new) : i # Len(new) => ~Sets(new[i], flag)
    PROVE  /\ Sets(new[Len(new)], flag) => SetAfter(q \o new, flag, now)
           /\ Clears(new[Len(new)], flag) => ~SetAfter(q \o new, flag, now)
<1> DEFINE r == q \o new
<1>1. /\ Len(r) = Len(q) + Len(new) /\ Len(q) \in Nat /\ Len(new) \in Nat
      /\ \A j \in 1 .. Len(new) : r[Len(q) + j] = new[j]
    BY AppendedEntries
<1> HIDE DEF r
<1>2. Len(r) \in 1 .. Len(r) /\ r[Len(r)] = new[Len(new)]
    BY <1>1
<1>3. ASSUME Sets(new[Len(new)], flag)
      PROVE  SetAfter(r, flag, now)
  <2>1. Sets(r[Len(r)], flag) /\ \A j \in 1 .. Len(r) : ~(Len(r) < j)
      BY <1>1, <1>2, <1>3
  <2> QED
      BY <1>2, <2>1 DEF SetAfter
<1>4. ASSUME Clears(new[Len(new)], flag)
      PROVE  ~SetAfter(r, flag, now)
  <2>1. Clears(r[Len(r)], flag)
      BY <1>2, <1>4
  <2>2. ~Sets(r[Len(r)], flag)
    <3>1. new[Len(new)].byte \in Nat
        BY <1>1, EntryFields
    <3> QED
        BY <1>2, <1>4, <3>1 DEF Sets, Clears
  <2>3. \A i \in 1 .. Len(r) : i # Len(r) => i < Len(r)
      BY <1>1
  <2> QED
      BY <1>2, <2>1, <2>2, <2>3 DEF SetAfter
<1> QED
    BY <1>3, <1>4 DEF r

\* Serving the first byte changes the flag, not what it is going to be.
LEMMA ServingKeepsFlag ==
    ASSUME NEW q \in Seq(Entries), q # <<>>, NEW flag, NEW now, NEW next,
           flag \in next <=> (Sets(Head(q), flag) \/ (flag \in now /\ ~Clears(Head(q), flag)))
    PROVE  SetAfter(Tail(q), flag, next) <=> SetAfter(q, flag, now)
<1> DEFINE r == Tail(q)
<1>1. /\ r \in Seq(Entries) /\ Len(r) = Len(q) - 1 /\ Len(q) \in Nat \ {0}
      /\ \A i \in 1 .. Len(r) : r[i] = q[i + 1]
      /\ Head(q) = q[1]
    OBVIOUS
<1> HIDE DEF r
<1>2. 1 \in 1 .. Len(q) /\ \A i \in 1 .. Len(r) : i + 1 \in 1 .. Len(q) /\ 1 < i + 1
    BY <1>1
<1>3. ASSUME NEW i \in 1 .. Len(q), i # 1
      PROVE  i - 1 \in 1 .. Len(r) /\ q[i] = r[i - 1]
  <2>1. i - 1 \in 1 .. Len(r) /\ (i - 1) + 1 = i
      BY <1>1, <1>3
  <2> QED
      BY <1>1, <2>1
<1>4. (\A i \in 1 .. Len(r) : ~Clears(r[i], flag))
          <=> (\A i \in 1 .. Len(q) : 1 < i => ~Clears(q[i], flag))
  <2>1. \A i \in 1 .. Len(q) : 1 < i => i # 1
      BY <1>1
  <2> QED
      BY <1>1, <1>2, <1>3, <2>1
<1>5. (\A i \in 1 .. Len(q) : ~Clears(q[i], flag))
          <=> ~Clears(q[1], flag) /\ \A i \in 1 .. Len(r) : ~Clears(r[i], flag)
  <2>1. \A i \in 1 .. Len(q) : i = 1 \/ 1 < i
      BY <1>1
  <2> QED
      BY <1>2, <1>4, <2>1
<1>6. ASSUME NEW i \in 1 .. Len(r)
      PROVE  (\A j \in 1 .. Len(r) : i < j => ~Clears(r[j], flag))
                 <=> (\A j \in 1 .. Len(q) : i + 1 < j => ~Clears(q[j], flag))
  <2>1. ASSUME \A j \in 1 .. Len(r) : i < j => ~Clears(r[j], flag),
               NEW j \in 1 .. Len(q), i + 1 < j
        PROVE  ~Clears(q[j], flag)
    <3>1. j # 1 /\ i < j - 1
        BY <1>1, <2>1
    <3> QED
        BY <1>3, <2>1, <3>1
  <2>2. ASSUME \A j \in 1 .. Len(q) : i + 1 < j => ~Clears(q[j], flag),
               NEW j \in 1 .. Len(r), i < j
        PROVE  ~Clears(r[j], flag)
    <3>1. i + 1 < j + 1
        BY <1>1, <2>2
    <3> QED
        BY <1>1, <1>2, <2>2, <3>1
  <2> QED
      BY <2>1, <2>2
<1> DEFINE later(s) == \E i \in 1 .. Len(s) :
                           Sets(s[i], flag) /\ \A j \in 1 .. Len(s) : i < j => ~Clears(s[j], flag)
<1>7. later(q) <=> \/ Sets(q[1], flag) /\ \A i \in 1 .. Len(r) : ~Clears(r[i], flag)
                   \/ later(r)
  <2>1. ASSUME later(q)
        PROVE  (Sets(q[1], flag) /\ \A i \in 1 .. Len(r) : ~Clears(r[i], flag)) \/ later(r)
    <3>1. PICK i \in 1 .. Len(q) :
              Sets(q[i], flag) /\ \A j \in 1 .. Len(q) : i < j => ~Clears(q[j], flag)
        BY <2>1
    <3>2. CASE i = 1
        BY <1>4, <3>1, <3>2
    <3>3. CASE i # 1
      <4>1. i - 1 \in 1 .. Len(r) /\ q[i] = r[i - 1] /\ (i - 1) + 1 = i
          BY <1>1, <1>3, <3>3
      <4> QED
          BY <1>6, <3>1, <4>1
    <3> QED
        BY <3>2, <3>3
  <2>2. ASSUME Sets(q[1], flag) /\ \A i \in 1 .. Len(r) : ~Clears(r[i], flag)
        PROVE  later(q)
      BY <1>2, <1>4, <2>2
  <2>3. ASSUME later(r)
        PROVE  later(q)
    <3>1. PICK i \in 1 .. Len(r) :
              Sets(r[i], flag) /\ \A j \in 1 .. Len(r) : i < j => ~Clears(r[j], flag)
        BY <2>3
    <3>2. i + 1 \in 1 .. Len(q) /\ q[i + 1] = r[i]
        BY <1>1, <1>2
    <3>3. \A j \in 1 .. Len(q) : i + 1 < j => ~Clears(q[j], flag)
        BY <1>6, <3>1
    <3> QED
        BY <3>1, <3>2, <3>3
  <2> HIDE DEF later
  <2> QED
      BY <2>1, <2>2, <2>3
<1>8. /\ SetAfter(q, flag, now) <=> later(q) \/ (flag \in now /\ \A i \in 1 .. Len(q) : ~Clears(q[i], flag))
      /\ SetAfter(r, flag, next) <=> later(r) \/ (flag \in next /\ \A i \in 1 .. Len(r) : ~Clears(r[i], flag))
    BY DEF SetAfter
<1> HIDE DEF later
<1>9. flag \in next <=> (Sets(q[1], flag) \/ (flag \in now /\ ~Clears(q[1], flag)))
    BY <1>1
<1>10. SetAfter(r, flag, next) <=> SetAfter(q, flag, now)
    BY <1>5, <1>7, <1>8, <1>9
<1> QED
    BY <1>10 DEF r

\* The handler's part in it.
LEMMA FlagServed ==
    ASSUME TypeOK, Pending, I86KeyboardInterruptHandler, NEW flag
    PROVE  flag \in KeyFlagsNow' <=> \/ Sets(Head(queue), flag)
                                     \/ flag \in KeyFlagsNow /\ ~Clears(Head(queue), flag)
<1> DEFINE byte == Head(queue).byte
           isPrefix == byte \in {224, 225}
           isBreak == ~isPrefix /\ byte >= 128
           code == IF isBreak THEN byte - 128 ELSE byte
<1>1. byte \in Nat /\ (byte < 128 => byte < TableSize)
  <2>1. /\ queue # <<>> /\ Head(queue) \in Entries
        /\ Head(queue).byte < 128 => Head(queue).byte \in 1 .. (TableSize - 1)
    <3>1. queue # <<>> /\ press \in Nat /\ presses \in Nat
        BY KeyboardAssumption DEF I86KeyboardInterruptHandler, TypeOK
    <3> QED
        BY <3>1, Taken DEF Pending
  <2>2. byte \in Nat /\ TableSize = 89
      BY <2>1 DEF Entries, TableSize
  <2>3. byte \in 1 .. (TableSize - 1) => byte < TableSize
      BY <2>2
  <2> QED
      BY <2>1, <2>2, <2>3
<1>2. \/ isPrefix /\ UNCHANGED <<scancode, press, modifiers, locks, misread>>
      \/ \E key \in Found(code) : isBreak /\ BreakKey(key) /\ misread' = Misread(code, key)
      \/ \E key \in Found(code) : /\ ~isPrefix /\ ~isBreak /\ misread' = Misread(code, key)
                                 /\ MakeKey(code, key, Head(queue).press)
    BY DEF I86KeyboardInterruptHandler
<1>3. CASE isPrefix /\ UNCHANGED <<scancode, press, modifiers, locks, misread>>
    BY <1>1, <1>3 DEF Sets, Clears, KeyFlagsNow
<1>4. ASSUME NEW key \in Found(code), isBreak, BreakKey(key), misread' = Misread(code, key)
      PROVE  flag \in KeyFlagsNow' <=> \/ Sets(Head(queue), flag)
                                       \/ flag \in KeyFlagsNow /\ ~Clears(Head(queue), flag)
  <2>1. byte >= 128 /\ ~(byte < 128) /\ byte \notin {224, 225} /\ code = byte - 128
      BY <1>1, <1>4
  <2> HIDE DEF code
  <2>2. modifiers' = modifiers \ At(Modifier, key)
      BY <1>4 DEF BreakKey
  <2>3. ~Sets(Head(queue), flag)
      BY <2>1 DEF Sets
  <2>4. CASE code < TableSize
    <3>1. key = Lookup(code) /\ misread' = misread \ At(Modifier, key)
        BY <1>4, <2>4 DEF Found, Misread
    <3>2. Clears(Head(queue), flag) <=> flag \in At(Modifier, key)
        BY <2>1, <2>4, <3>1 DEF Clears
    <3> QED
        BY <2>2, <2>3, <3>1, <3>2 DEF KeyFlagsNow
  <2>5. CASE ~(code < TableSize)
    <3>1. misread' = misread \cup (At(Modifier, key) \cap modifiers)
        BY <1>4, <2>5 DEF Misread
    <3>2. ~Clears(Head(queue), flag)
        BY <2>1, <2>5 DEF Clears
    <3> QED
        BY <2>2, <2>3, <3>1, <3>2 DEF KeyFlagsNow
  <2> QED
      BY <2>4, <2>5
<1>5. ASSUME NEW key \in Found(code), ~isPrefix, ~isBreak, misread' = Misread(code, key),
             MakeKey(code, key, Head(queue).press)
      PROVE  flag \in KeyFlagsNow' <=> \/ Sets(Head(queue), flag)
                                       \/ flag \in KeyFlagsNow /\ ~Clears(Head(queue), flag)
  <2>1. byte < 128 /\ ~(byte >= 128) /\ code = byte /\ code < TableSize
      BY <1>1, <1>5
  <2> HIDE DEF code
  <2>2. /\ modifiers' = modifiers \cup At(Modifier, key) /\ key = Lookup(code)
        /\ misread' = misread \ At(Modifier, key)
      BY <1>5, <2>1 DEF MakeKey, Found, Misread
  <2>3. Sets(Head(queue), flag) <=> flag \in At(Modifier, key)
      BY <2>1, <2>2 DEF Sets
  <2>4. ~Clears(Head(queue), flag)
      BY <2>1 DEF Clears
  <2> QED
      BY <2>2, <2>3, <2>4 DEF KeyFlagsNow
<1> HIDE DEF code
<1> QED
    BY <1>2, <1>3, <1>4, <1>5

\* The code of a key stands for what the table has for the key.
LEMMA KeyFlags ==
    ASSUME NEW k \in Keys, NEW flag
    PROVE  flag \in At(Modifier, Lookup(MakeCode(k))) <=> k \in KeysOf(flag)
<1>1. Lookup(MakeCode(k)) = KeyOf[MakeCode(k)]
  <2>1. MakeCode(k) \in 1 .. (TableSize - 1) /\ MakeCode(k) \in DOMAIN KeyOf
      BY KeyboardAssumption
  <2>2. ~(MakeCode(k) >= TableSize)
      BY <2>1 DEF TableSize
  <2> QED
      BY <2>1, <2>2 DEF Lookup
<1>2. At(Modifier, KeyOf[MakeCode(k)]) = {flag} <=> flag \in At(Modifier, KeyOf[MakeCode(k)])
    BY DEF At
<1> QED
    BY <1>1, <1>2 DEF KeysOf

\* What the keyboard sends by itself is past the end of the table.
LEMMA AnswersAreNoKeys ==
    ASSUME NEW e, e.byte \in {Ack, BatFailed}, NEW flag
    PROVE  ~Sets(e, flag) /\ ~Clears(e, flag)
<1>1. e.byte = 250 \/ e.byte = 252
    BY DEF Ack, BatFailed
<1> QED
    BY <1>1 DEF Sets, Clears, TableSize

LEMMA FlagsFollowKept ==
    ASSUME TypeOK, Pending, FlagsFollow, [Next]_vars
    PROVE  FlagsFollow'
<1> USE DEF driverVars, userVars, callerVars
<1>1. queue \in Seq(Entries) /\ presses \in Nat /\ held \subseteq Keys
    BY KeyboardAssumption DEF TypeOK, Pending
<1>2. SUFFICES ASSUME NEW flag \in Flags
      PROVE  (/\ KeysOf(flag) # {} /\ KeysOf(flag) \subseteq held =>
                     SetAfter(queue, flag, KeyFlagsNow)
              /\ SetAfter(queue, flag, KeyFlagsNow) => KeysOf(flag) \cap held # {})'
    BY DEF FlagsFollow
<1>3. /\ KeysOf(flag) # {} /\ KeysOf(flag) \subseteq held =>
             SetAfter(queue, flag, KeyFlagsNow)
      /\ SetAfter(queue, flag, KeyFlagsNow) => KeysOf(flag) \cap held # {}
      /\ KeysOf(flag) \subseteq Keys
    BY DEF FlagsFollow, KeysOf
<1>4. ASSUME NEW k \in Keys, Press(k)
      PROVE  /\ KeysOf(flag) # {} /\ KeysOf(flag) \subseteq held' =>
                    SetAfter(queue', flag, KeyFlagsNow')
             /\ SetAfter(queue', flag, KeyFlagsNow') => KeysOf(flag) \cap held' # {}
  <2> DEFINE new == Bytes(k, presses + 1, MakeCode(k))
  <2>1. queue' = queue \o new /\ KeyFlagsNow' = KeyFlagsNow /\ held' = held \cup {k}
      BY <1>4 DEF Press, KeyFlagsNow
  <2>9. MakeCode(k) \in 1 .. 88
      BY KeyboardAssumption DEF TableSize
  <2>2. presses + 1 \in Nat /\ MakeCode(k) \in Nat /\ MakeCode(k) < 128
    <3>1. presses + 1 \in Nat
        BY <1>1
    <3>2. MakeCode(k) \in Nat /\ MakeCode(k) < 128
        BY <2>9
    <3> QED
        BY <3>1, <3>2
  <2>3. /\ new \in Seq(Entries) /\ Len(new) = Len(k) /\ Len(k) \in Nat \ {0}
        /\ \A i \in 1 .. Len(k) : new[i].byte = IF i = Len(k) THEN MakeCode(k) ELSE 224
      BY <2>2, KeyBytes
  <2> HIDE DEF new
  <2>4. Len(new) \in 1 .. Len(new) /\ new[Len(new)].byte = MakeCode(k)
      BY <2>3
  <2>5. \A i \in 1 .. Len(new) : i # Len(new) => ~Sets(new[i], flag) /\ ~Clears(new[i], flag)
      BY <2>3 DEF Sets, Clears
  <2>6. CASE k \in KeysOf(flag)
    <3>1. Sets(new[Len(new)], flag)
        BY <2>2, <2>4, <2>6, KeyFlags DEF Sets
    <3>2. SetAfter(queue \o new, flag, KeyFlagsNow)
        BY <1>1, <1>3, <2>3, <2>5, <3>1, KeyDecidesFlag
    <3> QED
        BY <2>1, <2>6, <3>2
  <2>7. CASE k \notin KeysOf(flag)
    <3>1. ~Sets(new[Len(new)], flag) /\ ~Clears(new[Len(new)], flag)
        BY <2>2, <2>4, <2>7, KeyFlags DEF Sets, Clears
    <3>2. SetAfter(queue \o new, flag, KeyFlagsNow)
              <=> SetAfter(queue, flag, KeyFlagsNow)
      <4>1. \A i \in 1 .. Len(new) : ~Sets(new[i], flag) /\ ~Clears(new[i], flag)
          BY <2>5, <3>1
      <4> QED
          BY <1>1, <1>3, <2>3, <4>1, OthersLeaveFlag
    <3>3. KeysOf(flag) \cap held' = KeysOf(flag) \cap held
          /\ (KeysOf(flag) \subseteq held' => KeysOf(flag) \subseteq held)
        BY <2>1, <2>7
    <3> QED
        BY <1>3, <2>1, <3>2, <3>3
  <2> QED
      BY <2>6, <2>7
<1>5. ASSUME NEW k \in Keys, Release(k)
      PROVE  /\ KeysOf(flag) # {} /\ KeysOf(flag) \subseteq held' =>
                    SetAfter(queue', flag, KeyFlagsNow')
             /\ SetAfter(queue', flag, KeyFlagsNow') => KeysOf(flag) \cap held' # {}
  <2> DEFINE new == Bytes(k, NoPress, MakeCode(k) + 128)
  <2>1. queue' = queue \o new /\ KeyFlagsNow' = KeyFlagsNow /\ held' = held \ {k}
      BY <1>5 DEF Release, KeyFlagsNow
  <2>9. MakeCode(k) \in 1 .. 88
      BY KeyboardAssumption DEF TableSize
  <2>2. MakeCode(k) + 128 \in Nat /\ NoPress \in Nat /\ MakeCode(k) \in Nat /\ MakeCode(k) <= 88
      BY <2>9 DEF NoPress
  <2>3. /\ new \in Seq(Entries) /\ Len(new) = Len(k) /\ Len(k) \in Nat \ {0}
        /\ \A i \in 1 .. Len(k) : new[i].byte = IF i = Len(k) THEN MakeCode(k) + 128 ELSE 224
    <3> DEFINE last == MakeCode(k) + 128
    <3>1. last \in Nat
        BY <2>2
    <3> HIDE DEF last
    <3>2. /\ Bytes(k, NoPress, last) \in Seq(Entries) /\ Len(Bytes(k, NoPress, last)) = Len(k)
          /\ Len(k) \in Nat \ {0}
          /\ \A i \in 1 .. Len(k) :
                 Bytes(k, NoPress, last)[i].byte = IF i = Len(k) THEN last ELSE 224
        BY <2>2, <3>1, KeyBytes
    <3> QED
        BY <3>2 DEF last
  <2> HIDE DEF new
  <2>4. Len(new) \in 1 .. Len(new) /\ new[Len(new)].byte = MakeCode(k) + 128
      BY <2>3
  <2>5. \A i \in 1 .. Len(new) : i # Len(new) => ~Sets(new[i], flag) /\ ~Clears(new[i], flag)
      BY <2>3 DEF Sets, Clears
  <2>6. /\ MakeCode(k) + 128 >= 128 /\ ~(MakeCode(k) + 128 < 128)
        /\ MakeCode(k) + 128 \notin {224, 225} /\ (MakeCode(k) + 128) - 128 = MakeCode(k)
        /\ MakeCode(k) < TableSize
      BY <2>2 DEF TableSize
  <2>7. CASE k \in KeysOf(flag)
    <3>1. Clears(new[Len(new)], flag)
        BY <2>4, <2>6, <2>7, KeyFlags DEF Clears
    <3>2. ~SetAfter(queue \o new, flag, KeyFlagsNow)
        BY <1>1, <1>3, <2>3, <2>5, <3>1, KeyDecidesFlag
    <3> QED
        BY <2>1, <2>7, <3>2
  <2>8. CASE k \notin KeysOf(flag)
    <3>1. ~Sets(new[Len(new)], flag) /\ ~Clears(new[Len(new)], flag)
        BY <2>4, <2>6, <2>8, KeyFlags DEF Sets, Clears
    <3>2. SetAfter(queue \o new, flag, KeyFlagsNow)
              <=> SetAfter(queue, flag, KeyFlagsNow)
      <4>1. \A i \in 1 .. Len(new) : ~Sets(new[i], flag) /\ ~Clears(new[i], flag)
          BY <2>5, <3>1
      <4> QED
          BY <1>1, <1>3, <2>3, <4>1, OthersLeaveFlag
    <3>3. KeysOf(flag) \cap held' = KeysOf(flag) \cap held
          /\ (KeysOf(flag) \subseteq held' => KeysOf(flag) \subseteq held)
        BY <2>1, <2>8
    <3> QED
        BY <1>3, <2>1, <3>2, <3>3
  <2> QED
      BY <2>7, <2>8
<1>6. ASSUME NEW new \in Seq(Entries), \A i \in 1 .. Len(new) : new[i].byte \in {Ack, BatFailed},
             queue' = queue \o new, KeyFlagsNow' = KeyFlagsNow, held' = held
      PROVE  /\ KeysOf(flag) # {} /\ KeysOf(flag) \subseteq held' =>
                    SetAfter(queue', flag, KeyFlagsNow')
             /\ SetAfter(queue', flag, KeyFlagsNow') => KeysOf(flag) \cap held' # {}
  <2>1. \A i \in 1 .. Len(new) : ~Sets(new[i], flag) /\ ~Clears(new[i], flag)
    <3> TAKE i \in 1 .. Len(new)
    <3> DEFINE e == new[i]
    <3>1. e.byte \in {Ack, BatFailed}
        BY <1>6
    <3> HIDE DEF e
    <3>2. ~Sets(e, flag) /\ ~Clears(e, flag)
        BY <3>1, AnswersAreNoKeys
    <3> QED
        BY <3>2 DEF e
  <2>2. SetAfter(queue \o new, flag, KeyFlagsNow)
            <=> SetAfter(queue, flag, KeyFlagsNow)
      BY <1>1, <1>3, <2>1, OthersLeaveFlag
  <2> QED
      BY <1>3, <1>6, <2>2
<1>7. CASE SelfTestFails
  <2> DEFINE new == <<[byte |-> BatFailed, press |-> NoPress]>>
  <2>1. [byte |-> BatFailed, press |-> NoPress] \in Entries
      BY DEF Entries, BatFailed, NoPress
  <2>2. queue' = queue \o new /\ KeyFlagsNow' = KeyFlagsNow /\ held' = held
      BY <1>1, <1>7, <2>1 DEF SelfTestFails, KeyFlagsNow
  <2>3. new \in Seq(Entries) /\ Len(new) = 1 /\ new[1].byte = BatFailed
      BY <2>1
  <2> HIDE DEF new
  <2>4. \A i \in 1 .. Len(new) : new[i].byte \in {Ack, BatFailed}
      BY <2>3
  <2> QED
      BY <1>6, <2>2, <2>3, <2>4
<1>8. CASE KeyboardSetLeds
  <2>1. queue' = queue \o Acks /\ KeyFlagsNow' = KeyFlagsNow /\ held' = held
      BY <1>8 DEF KeyboardSetLeds, Acks, KeyFlagsNow
  <2>2. Acks[1].byte = Ack /\ Acks[2].byte = Ack
      BY DEF Acks
  <2>3. Acks \in Seq(Entries) /\ \A i \in 1 .. Len(Acks) : Acks[i].byte \in {Ack, BatFailed}
      BY <2>2, AcksAreOther
  <2> HIDE DEF Acks
  <2> QED
      BY <1>6, <2>1, <2>3
<1>9. CASE I86KeyboardInterruptHandler
  <2>1. queue # <<>> /\ queue' = Tail(queue) /\ held' = held
      BY <1>9, Handled
  <2>2. flag \in KeyFlagsNow' <=> \/ Sets(Head(queue), flag)
                                  \/ flag \in KeyFlagsNow /\ ~Clears(Head(queue), flag)
      BY <1>9, FlagServed
  <2>3. SetAfter(Tail(queue), flag, KeyFlagsNow')
            <=> SetAfter(queue, flag, KeyFlagsNow)
      BY <1>1, <1>3, <2>1, <2>2, ServingKeepsFlag
  <2> QED
      BY <1>3, <2>1, <2>3
<1>10. CASE \/ TestScancode \/ LookupScancode \/ KeyboardDiscardLastKey
            \/ ConvertKey \/ StoreCharacter \/ UNCHANGED vars
  <2>1. queue' = queue /\ KeyFlagsNow' = KeyFlagsNow /\ held' = held
      BY <1>10 DEF TestScancode, LookupScancode, KeyboardDiscardLastKey, ConvertKey,
                   StoreCharacter, vars, KeyFlagsNow
  <2> QED
      BY <1>3, <2>1
<1>11. /\ KeysOf(flag) # {} /\ KeysOf(flag) \subseteq held' =>
              SetAfter(queue', flag, KeyFlagsNow')
       /\ SetAfter(queue', flag, KeyFlagsNow') => KeysOf(flag) \cap held' # {}
    BY <1>4, <1>5, <1>7, <1>8, <1>9, <1>10 DEF Next, Editor, KeyboardGetCharacter
<1> QED
    BY <1>11

\* The flags are those of the keys that are held, once the handler has served every byte,
\* whatever it finds past the end of the table at each of the keyboard's answers: a flag is
\* set when all its keys are held, unless an answer has cleared it since, and only when one
\* of them is (I86KeyboardInterruptHandler).
THEOREM FlagsFollowKeys == Spec => []FlagsMatchKeys
<1>1. Init => FlagsFollow
  <2> SUFFICES ASSUME Init, NEW flag \in Flags
               PROVE  /\ KeysOf(flag) # {} /\ KeysOf(flag) \subseteq held =>
                             SetAfter(queue, flag, KeyFlagsNow)
                      /\ SetAfter(queue, flag, KeyFlagsNow) => KeysOf(flag) \cap held # {}
      BY DEF FlagsFollow
  <2>1. queue = Acks /\ KeyFlagsNow = {} /\ held = {}
      BY DEF Init, Acks, KeyFlagsNow
  <2>2. Acks[1].byte = Ack /\ Acks[2].byte = Ack
      BY DEF Acks
  <2>3. \A i \in 1 .. Len(queue) : ~Sets(queue[i], flag)
    <3>1. \A i \in 1 .. Len(Acks) : Acks[i].byte \in {Ack, BatFailed}
        BY <2>2, AcksAreOther
    <3> QED
        BY <2>1, <3>1, AnswersAreNoKeys
  <2>4. ~SetAfter(queue, flag, KeyFlagsNow)
      BY <2>1, <2>3 DEF SetAfter
  <2> QED
      BY <2>1, <2>4
<1>2. IInv /\ FlagsFollow /\ [Next]_vars => FlagsFollow'
    BY FlagsFollowKept DEF IInv
<1>3. FlagsFollow => FlagsMatchKeys
  <2> SUFFICES ASSUME FlagsFollow, queue = <<>>, NEW flag \in Flags
               PROVE  /\ KeysOf(flag) # {} /\ KeysOf(flag) \subseteq held => flag \in KeyFlagsNow
                      /\ flag \in KeyFlagsNow => KeysOf(flag) \cap held # {}
      BY DEF FlagsMatchKeys, KeyFlagsNow
  <2>1. SetAfter(queue, flag, KeyFlagsNow) <=> flag \in KeyFlagsNow
      BY DEF SetAfter
  <2> QED
      BY <2>1 DEF FlagsFollow
<1> QED
    BY <1>1, <1>2, <1>3, Invariance, PTL DEF Spec

=============================================================================
