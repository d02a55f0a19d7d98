\* Two callers opening two directories through a one-entry LRU, a two-tick
\* TTL reached and passed on a four-tick clock, and two server changes.
CONSTANTS
    d1 = d1
    d2 = d2
    t1 = t1
    t2 = t2
    Inos <- MCInos
    Tasks <- MCTasks
    LruSize = 1
    CacheTtl = 2
    MaxTime = 4
    MaxChanges = 2
SPECIFICATION Spec
SYMMETRY MCSymmetry
INVARIANT TypeOK
