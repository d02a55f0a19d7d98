---------------------------- MODULE MCFileCache ----------------------------
(* Model-checking instance of FileCache: two handle tasks on one cached    *)
(* file of two chunks.                                                      *)
EXTENDS FileCache, TLC

CONSTANTS h1, h2

MCHandles == {h1, h2}

=============================================================================
