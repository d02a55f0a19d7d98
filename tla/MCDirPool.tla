----------------------------- MODULE MCDirPool -----------------------------
EXTENDS DirPool, TLC

CONSTANTS d1, d2, t1, t2

MCInos == {d1, d2}
MCOneIno == {d1}
MCTasks == {t1, t2}
MCSymmetry == Permutations(MCTasks)
=============================================================================
