\* A write during a slow upload spawns a second uploader that uploads concurrently.
CONSTANTS
    h1 = h1
    h2 = h2
    Handles <- MCHandles
    InitSize = 1
    UploadMaxSize = 2
    MaxWrites = 2
    MaxUploadFailures = 0
    MaxDownloadFailures = 0
    MaxExtChanges = 0
SPECIFICATION Spec
INVARIANT AtMostOneUploadInFlight
