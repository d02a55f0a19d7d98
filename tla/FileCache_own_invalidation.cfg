\* sync_items sees the cache's own upload before upload_thread stores the new c_tag.
CONSTANTS
    h1 = h1
    h2 = h2
    Handles <- MCHandles
    InitSize = 1
    UploadMaxSize = 2
    MaxWrites = 1
    MaxUploadFailures = 0
    MaxDownloadFailures = 0
    MaxExtChanges = 0
SPECIFICATION Spec
INVARIANT InvalidatedOnlyByRemoteChange
