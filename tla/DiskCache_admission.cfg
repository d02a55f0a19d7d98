\* max_cached_file_size 2 < max_total_size 3: the eviction loop compares
\* against the wrong bound and refuses files that fit.
CONSTANTS
    i1 = i1
    i2 = i2
    t1 = t1
    t2 = t2
    s1 = s1
    s2 = s2
    Items <- MCItems
    ItemSize <- MCItemSize
    Tasks <- MCTasks
    Slots <- MCSlots
    CacheEnabled = TRUE
    MaxCachedFileSize = 2
    MaxTotalSize = 3
    MaxFiles = 2
    UploadMaxSize = 3
    MaxAdmissions = 4
SPECIFICATION Spec





PROPERTY AdmissionRefusedOnlyWhenFull
