\* A server that may cut every response body short: download_thread
\* resets its retry counter for each 206 and never gives up.
CONSTANTS
    r1 = r1
    r2 = r2
    Readers <- MCOneReader
    FileSize = 2
    Cap = 1
    MaxRetry = 1
    MaxChunk = 2
    MaxRead = 2
    MaxDrops <- MCUnboundedDrops
    MaxResizes = 0
SPECIFICATION Spec
PROPERTY ReadCompletes
