---------------------------- MODULE MCBootLoader ----------------------------
(* Instances of BootLoader: the disk and the addresses of the repository.     *)
EXTENDS BootLoader

MCMemory == 0 .. 1279

\* One cluster; consecutive, backwards and scattered ones; the entry of cluster
\* 341 lies across two sectors of the table.
MCChains == {<<2>>, <<2, 3, 4>>, <<7, 6, 5>>, <<340, 341, 2, 342>>, <<2846, 341, 1000>>}

MCRootEntries == {-1, 0, 17, 223}

=============================================================================
