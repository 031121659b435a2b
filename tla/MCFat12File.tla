----------------------------- MODULE MCFat12File -----------------------------
(* Instances of Fat12File: sectors of 4 bytes, so that the entries of clusters *)
(* 2 and 5 lie across two sectors of the table and those of 3 and 6 do not.    *)
EXTENDS Fat12File

\* Every chain of up to three of these clusters.
MCChains ==
    {s \in UNION {[1 .. n -> {2, 3, 5, 6}] : n \in 1 .. 3} : IsInjective(s)}

=============================================================================
