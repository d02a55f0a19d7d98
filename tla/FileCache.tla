----------------------------- MODULE FileCache -----------------------------
(***************************************************************************)
(* One disk-cached file of src/vfs/file.rs: the FileCache created by        *)
(* DiskCache::try_alloc_and_fetch, its download producer (download_thread), *)
(* its writer task (write_to_cache_thread), the reads and writes of the     *)
(* handles that hold it (FileCache::read / write, wait_bytes_available),    *)
(* the uploader tasks that writes spawn (upload_thread), the remote item    *)
(* they upload to, and DiskCache::sync_items invalidating it.               *)
(*                                                                          *)
(* Every section the code runs under the async `state` mutex is one atomic *)
(* action; an await outside the lock splits a handler into several actions.*)
(* File bytes are abstracted to a version number of the whole content and  *)
(* a size in chunks (one chunk per byte).                                   *)
(***************************************************************************)
EXTENDS Integers, Sequences, FiniteSets

CONSTANTS
    Handles,             \* tasks issuing reads/writes on handles of the cache
    InitSize,            \* file_size returned by fetch_meta at admission
    UploadMaxSize,       \* config.upload.max_size
    MaxWrites,           \* bound: writes issued (each spawns an uploader)
    MaxUploadFailures,   \* bound: failed upload_small calls
    MaxDownloadFailures, \* bound: download_thread giving up (0 or 1)
    MaxExtChanges        \* bound: changes of the item by other clients

ASSUME /\ InitSize \in Nat /\ UploadMaxSize \in Nat
       /\ MaxDownloadFailures \in {0, 1}

VARIABLES
    status,      \* FileCacheState.status (the variant)
    mtime,       \* the Instant inside Dirty(_): the number of the write
    fileSize,    \* FileCacheState.file_size
    avail,       \* value of the available_size watch (writer's `pos`)
    localVer,    \* content of the backing file (version)
    cTag,        \* FileCache.c_tag
    inLru,       \* the cache is in DiskCache.cache
    remote,      \* the item on OneDrive: [data, tag]
    nextTag,     \* next fresh CTag the server hands out
    extChanges,  \* changes made by other clients so far
    dlPos,       \* download_thread `pos`
    dlRunning,   \* download_thread alive (holds chunk_tx)
    dlFailures,  \* times download_thread gave up
    chan,        \* chunks buffered in the mpsc channel
    writerAlive, \* write_to_cache_thread alive (holds pos_tx)
    writerPanic, \* the writer task's assert! failed
    up,          \* uploader tasks, in spawn order
    upFailures,  \* failed uploads so far
    ops,         \* per handle task: the read/write in progress
    writes,      \* writes issued so far
    syncPending, \* sync_items removed the cache and will invalidate it
    events       \* UpdateEvent::UpdateFile tags sent, in order

vars == <<status, mtime, fileSize, avail, localVer, cTag, inLru, remote,
          nextTag, extChanges, dlPos, dlRunning, dlFailures, chan,
          writerAlive, writerPanic, up, upFailures, ops, writes,
          syncPending, events>>

Status == {"Downloading", "Available", "Dirty", "Invalidated"}
UpPc == {"sleep", "sending", "applied", "finish", "retry", "done"}
OpPc == {"idle", "wait", "watch", "relock"}
OpRes == {"none", "ok", "empty", "Invalidated", "UnexpectedEndOfDownload",
          "FileTooLarge", "panic"}
Idle == [pc |-> "idle", kind |-> "read", off |-> 0, len |-> 0, end |-> 0,
         res |-> "none"]

MaxOf(a, b) == IF a >= b THEN a ELSE b
MinOf(a, b) == IF a <= b THEN a ELSE b

\* Guard of the match arms of wait_bytes_available that return the guard.
Usable == status \in {"Available", "Dirty"}

TypeOK ==
    /\ status \in Status /\ mtime \in 0..MaxWrites
    /\ fileSize \in 0..MaxOf(InitSize, UploadMaxSize)
    /\ avail \in 0..InitSize /\ dlPos \in 0..InitSize
    /\ chan \in 0..InitSize /\ localVer \in 0..MaxWrites
    /\ cTag \in Nat /\ remote \in [data : Int, tag : Nat]
    /\ \A i \in DOMAIN up : up[i].pc \in UpPc /\ up[i].token \in 1..MaxWrites
    /\ \A h \in Handles : ops[h].pc \in OpPc /\ ops[h].res \in OpRes
    /\ {inLru, dlRunning, writerAlive, writerPanic, syncPending}
           \subseteq BOOLEAN

-----------------------------------------------------------------------------
(* try_alloc_and_fetch + FileCache::new: the backing file has file_size    *)
(* bytes, status Downloading, the producer and writer are spawned, c_tag   *)
(* is the tag fetch_meta returned, and the cache is in the LRU.             *)
Init ==
    /\ status = "Downloading" /\ mtime = 0
    /\ fileSize = InitSize /\ avail = 0 /\ localVer = 0
    /\ remote = [data |-> 0, tag |-> 0] /\ cTag = 0 /\ nextTag = 1
    /\ inLru = TRUE /\ extChanges = 0
    /\ dlPos = 0 /\ dlRunning = TRUE /\ dlFailures = 0 /\ chan = 0
    /\ writerAlive = TRUE /\ writerPanic = FALSE
    /\ up = << >> /\ upFailures = 0
    /\ ops = [h \in Handles |-> Idle] /\ writes = 0
    /\ syncPending = FALSE /\ events = << >>

CacheVars == <<status, mtime, fileSize, avail, localVer, cTag, inLru>>
DownloadVars == <<dlPos, dlRunning, dlFailures, chan, writerAlive,
                  writerPanic>>
RemoteVars == <<remote, nextTag, extChanges>>

-----------------------------------------------------------------------------
\* Mutant: a response longer than file_size is sent on (no pos < file_size).
DownloadChunkUnbounded ==
    /\ dlRunning
    /\ dlPos' = dlPos + 1 /\ chan' = chan + 1
    /\ UNCHANGED <<CacheVars, RemoteVars, dlRunning, dlFailures, writerAlive,
                   writerPanic, up, upFailures, ops, writes, syncPending,
                   events>>

(* download_thread: one ranged response delivers one chunk that is sent    *)
(* into the channel (capacity 64 > InitSize, so send never blocks here).   *)
DownloadChunk ==
    /\ dlRunning /\ dlPos < InitSize
    /\ dlPos' = dlPos + 1 /\ chan' = chan + 1
    /\ UNCHANGED <<CacheVars, RemoteVars, dlRunning, dlFailures, writerAlive,
                   writerPanic, up, upFailures, ops, writes, syncPending,
                   events>>

\* Retries exhausted (`config.max_retry < tries`): return, dropping chunk_tx.
DownloadGiveUp ==
    /\ dlRunning /\ dlPos < InitSize /\ dlFailures < MaxDownloadFailures
    /\ dlRunning' = FALSE /\ dlFailures' = dlFailures + 1
    /\ UNCHANGED <<CacheVars, RemoteVars, dlPos, chan, writerAlive,
                   writerPanic, up, upFailures, ops, writes, syncPending,
                   events>>

\* `while pos < file_size` exits; the task ends and chunk_tx is dropped.
DownloadFinish ==
    /\ dlRunning /\ dlPos = InitSize
    /\ dlRunning' = FALSE
    /\ UNCHANGED <<CacheVars, RemoteVars, dlPos, dlFailures, chan,
                   writerAlive, writerPanic, up, upFailures, ops, writes,
                   syncPending, events>>

(* write_to_cache_thread, one loop iteration under the state lock: write   *)
(* the chunk at `pos`, publish pos, and on pos == file_size assert the     *)
(* status is still Downloading, set Available and return.                  *)
WriterRecv ==
    /\ writerAlive /\ chan > 0
    /\ chan' = chan - 1 /\ avail' = avail + 1
    /\ IF avail + 1 = fileSize
       THEN /\ writerAlive' = FALSE
            /\ IF status = "Downloading"
               THEN status' = "Available" /\ writerPanic' = FALSE
               ELSE UNCHANGED status /\ writerPanic' = TRUE
       ELSE UNCHANGED <<writerAlive, status, writerPanic>>
    /\ UNCHANGED <<mtime, fileSize, localVer, cTag, inLru, RemoteVars, dlPos,
                   dlRunning, dlFailures, up, upFailures, ops, writes,
                   syncPending, events>>

\* chunk_rx.recv() returns None: the producer is gone and the buffer empty.
WriterClosed ==
    /\ writerAlive /\ chan = 0 /\ ~dlRunning
    /\ writerAlive' = FALSE
    /\ UNCHANGED <<CacheVars, RemoteVars, dlPos, dlRunning, dlFailures, chan,
                   writerPanic, up, upFailures, ops, writes, syncPending,
                   events>>

-----------------------------------------------------------------------------
(* The body a read or write runs while still holding the guard returned by *)
(* wait_bytes_available. A read copies [off, end). A write matches the     *)
(* status (Downloading/Invalidated is unreachable!()), sets Dirty(now) and  *)
(* spawns an uploader, writes the data and grows file_size.               *)
ReadBody(h) ==
    /\ ops' = [ops EXCEPT ![h] = [Idle EXCEPT !.res = "ok"]]
    /\ UNCHANGED <<CacheVars, up, writes>>

\* Mutant: the write spawns an uploader only on Available -> Dirty.
WriteBodySpawnOnce(h) ==
    IF status \in {"Downloading", "Invalidated"}
    THEN /\ ops' = [ops EXCEPT ![h] = [Idle EXCEPT !.res = "panic"]]
         /\ UNCHANGED <<CacheVars, up, writes>>
    ELSE /\ status' = "Dirty" /\ mtime' = Len(up) + 1
         /\ up' = IF status = "Available"
                  THEN Append(up, [token |-> Len(up) + 1, pc |-> "sleep",
                                   snap |-> 0, tag |-> 0])
                  ELSE up
         /\ localVer' = localVer + 1
         /\ fileSize' = MaxOf(fileSize, ops[h].off + ops[h].len)
         /\ ops' = [ops EXCEPT ![h] = [Idle EXCEPT !.res = "ok"]]
         /\ UNCHANGED <<avail, cTag, inLru, writes>>

WriteBody(h) ==
    LET o == ops[h] IN
    IF status \in {"Downloading", "Invalidated"}
    THEN /\ ops' = [ops EXCEPT ![h] = [Idle EXCEPT !.res = "panic"]]
         /\ UNCHANGED <<CacheVars, up, writes>>
    ELSE /\ status' = "Dirty" /\ mtime' = Len(up) + 1
         /\ up' = Append(up, [token |-> Len(up) + 1, pc |-> "sleep",
                              snap |-> 0, tag |-> 0])
         /\ localVer' = localVer + 1
         /\ fileSize' = MaxOf(fileSize, o.off + o.len)
         /\ ops' = [ops EXCEPT ![h] = [Idle EXCEPT !.res = "ok"]]
         /\ UNCHANGED <<avail, cTag, inLru, writes>>

OpBody(h) == IF ops[h].kind = "read" THEN ReadBody(h) ELSE WriteBody(h)

OpFail(h, err) ==
    /\ ops' = [ops EXCEPT ![h] = [Idle EXCEPT !.res = err]]
    /\ UNCHANGED <<CacheVars, up, writes>>

OpUnchanged == UNCHANGED <<RemoteVars, DownloadVars, upFailures, syncPending,
                           events>>

(* FileCache::read, first lock: clamp end to file_size; an empty range     *)
(* returns at once without looking at the status.                          *)
ReadBegin(h, off) ==
    /\ ops[h].pc = "idle"
    /\ IF fileSize <= off
       THEN ops' = [ops EXCEPT ![h] = [Idle EXCEPT !.res = "empty"]]
       ELSE ops' = [ops EXCEPT ![h] = [pc |-> "wait", kind |-> "read",
                        off |-> off, len |-> 1, end |-> MinOf(fileSize, off + 1),
                        res |-> "none"]]
    /\ UNCHANGED <<CacheVars, up, writes>> /\ OpUnchanged

(* FileCache::write, first lock: read file_size, release, then check       *)
(* offset + len against upload.max_size. The file_size read here is what  *)
(* wait_bytes_available is asked for.                                       *)
WriteBegin(h, off) ==
    /\ ops[h].pc = "idle" /\ writes < MaxWrites
    /\ writes' = writes + 1
    /\ IF UploadMaxSize < off + 1
       THEN ops' = [ops EXCEPT ![h] = [Idle EXCEPT !.res = "FileTooLarge"]]
       ELSE ops' = [ops EXCEPT ![h] = [pc |-> "wait", kind |-> "write",
                        off |-> off, len |-> 1, end |-> fileSize,
                        res |-> "none"]]
    /\ UNCHANGED <<CacheVars, up>> /\ OpUnchanged

\* Mutant: the first lock lets an Invalidated cache through.
WaitFirstNoInvalidated(h) ==
    /\ ops[h].pc = "wait"
    /\ CASE status # "Downloading" -> OpBody(h)
         [] ops[h].end <= avail -> OpBody(h)
         [] OTHER -> /\ ops' = [ops EXCEPT ![h].pc = "watch"]
                     /\ UNCHANGED <<CacheVars, up, writes>>
    /\ OpUnchanged

(* wait_bytes_available, first lock.                                        *)
WaitFirst(h) ==
    /\ ops[h].pc = "wait"
    /\ CASE Usable -> OpBody(h)
         [] status = "Invalidated" -> OpFail(h, "Invalidated")
         [] ops[h].end <= avail -> OpBody(h)
         [] OTHER -> /\ ops' = [ops EXCEPT ![h].pc = "watch"]
                     /\ UNCHANGED <<CacheVars, up, writes>>
    /\ OpUnchanged

\* Mutant: the wait loop ignores the watch closing and waits for the size.
WatchWakeNoClose(h) ==
    /\ ops[h].pc = "watch"
    /\ ops[h].end <= avail
    /\ ops' = [ops EXCEPT ![h].pc = "relock"]
    /\ UNCHANGED <<CacheVars, up, writes>> /\ OpUnchanged

(* `while rx.changed().await.is_ok() && *rx.borrow() < end {}` ends when    *)
(* the watched size reaches end or the writer task dropped pos_tx.         *)
WatchWake(h) ==
    /\ ops[h].pc = "watch"
    /\ ops[h].end <= avail \/ ~writerAlive
    /\ ops' = [ops EXCEPT ![h].pc = "relock"]
    /\ UNCHANGED <<CacheVars, up, writes>> /\ OpUnchanged

\* Mutant: the second lock does not re-check the available size.
RelockNoSizeCheck(h) ==
    /\ ops[h].pc = "relock"
    /\ CASE Usable -> OpBody(h)
         [] status = "Invalidated" -> OpFail(h, "Invalidated")
         [] OTHER -> OpBody(h)
    /\ OpUnchanged

(* wait_bytes_available, second lock.                                       *)
Relock(h) ==
    /\ ops[h].pc = "relock"
    /\ CASE Usable -> OpBody(h)
         [] status = "Invalidated" -> OpFail(h, "Invalidated")
         [] avail < ops[h].end -> OpFail(h, "UnexpectedEndOfDownload")
         [] OTHER -> OpBody(h)
    /\ OpUnchanged

-----------------------------------------------------------------------------
(* upload_thread. After flush_delay (or retry_delay) it locks the state:   *)
(* still Dirty(lock_mtime) -> read the whole file; otherwise return.        *)
UpCheck(i) ==
    /\ up[i].pc \in {"sleep", "retry"}
    /\ up' = [up EXCEPT ![i] =
                IF status = "Dirty" /\ mtime = up[i].token
                THEN [@ EXCEPT !.pc = "sending", !.snap = localVer]
                ELSE [@ EXCEPT !.pc = "done"]]
    /\ UNCHANGED <<CacheVars, RemoteVars, DownloadVars, upFailures, ops,
                   writes, syncPending, events>>

\* The server applies upload_small: new content, new CTag.
UpApply(i) ==
    /\ up[i].pc = "sending"
    /\ remote' = [data |-> up[i].snap, tag |-> nextTag]
    /\ nextTag' = nextTag + 1
    /\ up' = [up EXCEPT ![i] = [@ EXCEPT !.pc = "applied", !.tag = nextTag]]
    /\ UNCHANGED <<CacheVars, extChanges, DownloadVars, upFailures, ops,
                   writes, syncPending, events>>

\* Mutant: a failed upload is not retried.
UpFailGiveUp(i) ==
    /\ up[i].pc \in {"sending", "applied"} /\ upFailures < MaxUploadFailures
    /\ up' = [up EXCEPT ![i].pc = "done"]
    /\ upFailures' = upFailures + 1
    /\ UNCHANGED <<CacheVars, RemoteVars, DownloadVars, ops, writes,
                   syncPending, events>>

\* upload_small returns Err (before or after the server applied it):
\* sleep retry_delay and loop back to the check.
UpFail(i) ==
    /\ up[i].pc \in {"sending", "applied"} /\ upFailures < MaxUploadFailures
    /\ up' = [up EXCEPT ![i].pc = "retry"]
    /\ upFailures' = upFailures + 1
    /\ UNCHANGED <<CacheVars, RemoteVars, DownloadVars, ops, writes,
                   syncPending, events>>

\* Ok(item): store its c_tag and send UpdateFile with it.
UpRespond(i) ==
    /\ up[i].pc = "applied"
    /\ cTag' = up[i].tag
    /\ events' = Append(events, up[i].tag)
    /\ up' = [up EXCEPT ![i].pc = "finish"]
    /\ UNCHANGED <<status, mtime, fileSize, avail, localVer, inLru,
                   RemoteVars, DownloadVars, upFailures, ops, writes,
                   syncPending>>

\* Final lock: Dirty(lock_mtime) becomes Available; anything else is kept.
UpFinish(i) ==
    /\ up[i].pc = "finish"
    /\ IF status = "Dirty" /\ mtime = up[i].token
       THEN status' = "Available" ELSE UNCHANGED status
    /\ up' = [up EXCEPT ![i].pc = "done"]
    /\ UNCHANGED <<mtime, fileSize, avail, localVer, cTag, inLru, RemoteVars,
                   DownloadVars, upFailures, ops, writes, syncPending, events>>

-----------------------------------------------------------------------------
\* Another client changes the item: new content, new CTag.
ExtChange ==
    /\ extChanges < MaxExtChanges
    /\ extChanges' = extChanges + 1
    /\ remote' = [data |-> -extChanges', tag |-> nextTag]
    /\ nextTag' = nextTag + 1
    /\ UNCHANGED <<CacheVars, DownloadVars, up, upFailures, ops, writes,
                   syncPending, events>>

(* DiskCache::sync_items under the LRU lock: the batch carries the item's  *)
(* current CTag; a cached file whose c_tag differs is removed from the LRU.*)
SyncItems ==
    /\ inLru /\ cTag # remote.tag
    /\ inLru' = FALSE /\ syncPending' = TRUE
    /\ UNCHANGED <<status, mtime, fileSize, avail, localVer, cTag, RemoteVars,
                   DownloadVars, up, upFailures, ops, writes, events>>

\* ...then, after the LRU lock is released, under the state lock.
SyncInvalidate ==
    /\ syncPending
    /\ status' = "Invalidated" /\ syncPending' = FALSE
    /\ UNCHANGED <<mtime, fileSize, avail, localVer, cTag, inLru, RemoteVars,
                   DownloadVars, up, upFailures, ops, writes, events>>

-----------------------------------------------------------------------------
Offsets == 0..UploadMaxSize

Producer == DownloadChunk \/ DownloadFinish \/ WriterRecv \/ WriterClosed
Uploader(i) == UpCheck(i) \/ UpApply(i) \/ UpRespond(i) \/ UpFinish(i)
OpStep(h) == WaitFirst(h) \/ WatchWake(h) \/ Relock(h)

Next ==
    \/ Producer \/ DownloadGiveUp
    \/ \E i \in DOMAIN up : Uploader(i) \/ UpFail(i)
    \/ \E h \in Handles : \/ OpStep(h)
                          \/ \E off \in Offsets : ReadBegin(h, off)
                                                  \/ WriteBegin(h, off)
    \/ ExtChange \/ SyncItems \/ SyncInvalidate

(* Tokio runs every spawned task that can make progress: the producer, the *)
(* writer, each uploader, each handle operation already started and the     *)
(* second half of sync_items are weakly fair. Starting operations, remote   *)
(* changes, failures and sync batches are not.                              *)
Fairness ==
    /\ WF_vars(Producer)
    /\ \A i \in 1..MaxWrites : WF_vars(i \in DOMAIN up /\ Uploader(i))
    /\ \A h \in Handles : WF_vars(OpStep(h))
    /\ WF_vars(SyncInvalidate)

Spec == Init /\ [][Next]_vars /\ Fairness

-----------------------------------------------------------------------------
(***************************************************************************)
(* Properties.                                                             *)
(***************************************************************************)

(* Uploader-spawn rule of FileCache::write and upload_thread: while the    *)
(* cache is Dirty(t), an uploader spawned with lock_mtime = t has not yet   *)
(* returned, so the dirty data is still going to be uploaded. Broken if a  *)
(* write that finds Dirty(_) does not spawn, or an uploader returns while   *)
(* its own token is still current.                                          *)
DirtyHasUploader ==
    status = "Dirty" =>
        \E i \in DOMAIN up : up[i].token = mtime /\ up[i].pc # "done"

(* A successful FileCache::read of [off, end) only returns bytes that are  *)
(* in the backing file: bytes the writer task has written (below the       *)
(* available_size watch), or, once the download is complete, any byte      *)
(* below file_size. This is what wait_bytes_available guarantees.          *)
ReadOnlyFilledBytes ==
    [][\A h \in Handles :
          (/\ ops[h].pc # "idle" /\ ops'[h].pc = "idle"
           /\ ops[h].kind = "read" /\ ops'[h].res = "ok")
          => \/ ops[h].end <= avail
             \/ avail = InitSize /\ ops[h].end <= fileSize]_vars

(* Once sync_items has marked the cache Invalidated, no read or write that *)
(* goes through wait_bytes_available succeeds on it any more.              *)
NoSuccessAfterInvalidation ==
    [][\A h \in Handles :
          (status = "Invalidated" /\ ops[h].pc # "idle" /\ ops'[h].pc = "idle")
          => ops'[h].res # "ok"]_vars

(* A Dirty cache is eventually uploaded (Available) or invalidated: the    *)
(* upload retry loop of upload_thread does not leave it Dirty for ever.    *)
DirtySettles == status = "Dirty" ~> status \in {"Available", "Invalidated"}

(* Every read or write on the cache that has started returns, with data or *)
(* an error: a wait_bytes_available waiter is woken by the writer task's   *)
(* publish of the size it needs, or by the watch closing when the writer   *)
(* task ends (download given up, assert! failed, or complete).              *)
OpsReturn == \A h \in Handles : ops[h].pc # "idle" ~> ops[h].pc = "idle"

(* Spec property 7: at most one uploader of the cache is doing upload I/O  *)
(* at a time (between reading the file and getting the response).          *)
AtMostOneUploadInFlight ==
    \A i, j \in DOMAIN up :
        i # j => ~(up[i].pc \in {"sending", "applied"} /\
                   up[j].pc \in {"sending", "applied"})

(* A cache that upload_thread has marked Available, and whose stored c_tag *)
(* is the item's current CTag, holds the same content as the server: no    *)
(* local write is silently lost.                                            *)
CleanCacheMatchesRemote ==
    (status = "Available" /\ cTag = remote.tag) => remote.data = localVer

(* FileCache::write never reaches its unreachable!() arm: after            *)
(* wait_bytes_available(file_size) returns the guard, the status is        *)
(* Available or Dirty.                                                      *)
WriteNeverSeesDownloading == \A h \in Handles : ops[h].res # "panic"

(* The assert! of write_to_cache_thread holds: when the last chunk is      *)
(* written the status is still Downloading.                                 *)
WriterAssertHolds == ~writerPanic

(* The cache is only invalidated because another client changed the item, *)
(* never because of the cache's own uploads.                               *)
InvalidatedOnlyByRemoteChange == status = "Invalidated" => extChanges > 0

=============================================================================
