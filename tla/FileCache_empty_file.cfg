\* Writing a cached zero-byte file reaches unreachable!().
CONSTANTS
    h1 = h1
    h2 = h2
    Handles <- MCHandles
    InitSize = 0
    UploadMaxSize = 2
    MaxWrites = 1
    MaxUploadFailures = 0
    MaxDownloadFailures = 0
    MaxExtChanges = 0
SPECIFICATION Spec
INVARIANT WriteNeverSeesDownloading
