----------------------------- MODULE MCKeyboard -----------------------------
(* Instances of Keyboard, with scan codes of the original XT set.          *)
EXTENDS Keyboard, TLC

KeyA == <<30>>
LeftCtrl == <<29>>
RightCtrl == <<224, 29>>
CapsLock == <<58>>
KeypadMinus == <<74>>       \* KEY_UNKNOWN in the table

MCKeyOf == (30 :> 97) @@ (29 :> 16387) @@ (58 :> 16385) @@ (74 :> KEY_UNKNOWN)

OneKeyEach == {KeyA, RightCtrl, CapsLock, KeypadMinus}
TwoCtrls == {KeyA, LeftCtrl, RightCtrl, CapsLock, KeypadMinus}
=============================================================================
