\* A two-byte file streamed in chunks of one or two bytes through a
\* one-chunk channel to two concurrent readers; a failed request is retried
\* once, and the item may shrink or grow on the server once after fetch_meta.
CONSTANTS
    r1 = r1
    r2 = r2
    Readers <- MCReaders
    FileSize = 2
    Cap = 1
    MaxRetry = 1
    MaxChunk = 2
    MaxRead = 2
    MaxDrops = 0
    MaxResizes = 1
SPECIFICATION Spec
INVARIANT TypeOK
PROPERTY AbstractStreamSpec
PROPERTY ReadCompletes
