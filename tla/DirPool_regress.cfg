\* One directory, two callers: both miss and fetch; the 200 answered before a
\* change is still in its touch awaits when the 200 carrying the change is
\* installed, and then installs its older snapshot over it.
CONSTANTS
    d1 = d1
    d2 = d2
    t1 = t1
    t2 = t2
    Inos <- MCOneIno
    Tasks <- MCTasks
    LruSize = 1
    CacheTtl = 2
    MaxTime = 4
    MaxChanges = 2
SPECIFICATION Spec
PROPERTY SnapshotNeverRegresses
