---------------------------- MODULE SectorReader ----------------------------
(***************************************************************************)
(* What the floppy driver promises its callers (FsFat12, readdisk): one    *)
(* request at a time, answered with the contents of the requested sector   *)
(* or with a null pointer; only after the disk has failed, and until a     *)
(* sector has been transferred again, the contents may be any others.  The *)
(* contents of a sector are named by the sector's number.                  *)
(***************************************************************************)
EXTENDS Integers

CONSTANT Sectors        \* the sectors callers ask for

VARIABLES
    request,            \* the sector asked for last
    reply,              \* what the caller got: contents, Null or Pending
    failed              \* the last attempt to read the disk has failed

Junk == -1
Null == -2
Pending == -3

vars == <<request, reply, failed>>

Init == request \in Sectors \cup {Junk} /\ reply = Null /\ failed = FALSE

Request(lba) ==
    /\ reply # Pending
    /\ request' = lba
    /\ reply' = Pending
    /\ UNCHANGED failed

\* The disk is read, which works or fails.
Transfer ==
    /\ reply = Pending
    /\ failed' \in BOOLEAN
    /\ UNCHANGED <<request, reply>>

Deliver ==
    /\ reply = Pending
    /\ reply' \in IF failed THEN Sectors \cup {Junk} ELSE {request}
    /\ UNCHANGED <<request, failed>>

Refuse ==
    /\ reply = Pending
    /\ reply' = Null
    /\ failed' = TRUE
    /\ UNCHANGED request

Answer == Deliver \/ Refuse

Next == (\E lba \in Sectors : Request(lba)) \/ Transfer \/ Answer

\* Every request is answered.
Spec == Init /\ [][Next]_vars /\ WF_vars(Answer)

=============================================================================
