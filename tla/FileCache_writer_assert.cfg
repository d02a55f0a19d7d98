\* Remote change during download fails the writer task's assert!.
CONSTANTS
    h1 = h1
    h2 = h2
    Handles <- MCHandles
    InitSize = 1
    UploadMaxSize = 2
    MaxWrites = 0
    MaxUploadFailures = 0
    MaxDownloadFailures = 0
    MaxExtChanges = 1
SPECIFICATION Spec
INVARIANT WriterAssertHolds
