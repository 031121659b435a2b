---------------------------- MODULE MCInterrupts ----------------------------
(* A counter of two bits, sleeps of one and two ticks, two keys. *)
EXTENDS Interrupts
=============================================================================
