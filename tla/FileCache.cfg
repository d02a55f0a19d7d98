\* Core run: two handles reading and writing a 2-chunk cached file while it
\* downloads, uploads retry once, the download may give up, the item may be
\* changed remotely once. upload.max_size equals the file size, so a write
\* that would grow the file is refused (growing writes appear in the 1-chunk
\* FileCache runs and in DiskCache).
CONSTANTS
    h1 = h1
    h2 = h2
    Handles <- MCHandles
    InitSize = 2
    UploadMaxSize = 2
    MaxWrites = 2
    MaxUploadFailures = 1
    MaxDownloadFailures = 1
    MaxExtChanges = 1
SPECIFICATION Spec
INVARIANT TypeOK
INVARIANT DirtyHasUploader
PROPERTY ReadOnlyFilledBytes
PROPERTY NoSuccessAfterInvalidation
PROPERTY DirtySettles
PROPERTY OpsReturn
