---------------------------- MODULE MCDiskCache ----------------------------
(* Model-checking instance of DiskCache: two items of 1 and 2 bytes, two   *)
(* concurrent opens, two handle slots.                                      *)
EXTENDS DiskCache, TLC

CONSTANTS i1, i2, t1, t2, s1, s2

MCItems == {i1, i2}
MCItemSize == (i1 :> 1) @@ (i2 :> 2)
MCTasks == {t1, t2}
MCSlots == {s1, s2}

\* Handle slots and open tasks are interchangeable.
MCSymmetry == Permutations(MCTasks) \cup Permutations(MCSlots)

=============================================================================
