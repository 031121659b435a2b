---------------------------- MODULE MCFloppyDisk ----------------------------
(* Instances of FloppyDisk: the sectors on both sides of a change of head, *)
(* the first ones of two more tracks.                                      *)
EXTENDS FloppyDisk

\* The BIOS has loaded the kernel through channel 2, to some other address, and
\* may have stopped with the flip-flop in either position.
MCBootDma ==
    {[flipflop |-> [c \in 0 .. 1 |-> f], masked |-> m, addr |-> [c \in Channels |-> <<52, 18>>],
      count |-> [c \in Channels |-> <<255, 3>>], mode |-> [c \in Channels |-> 72],
      page |-> [c \in Channels |-> 1]] : f \in {0, 1}, m \in {{}, {2}}}

MCSectors == {0, 17, 18, 36}

=============================================================================
