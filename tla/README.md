# TLA+ models of the onedrive-fuse VFS cache layer

This directory holds TLA+ models of the core of onedrive-fuse: the directory
pool (`src/src/vfs/dir.rs`) and the file pool with its disk cache
(`src/src/vfs/file.rs`). TLC checks the models. Each module is translated
from the Rust source. `PROJECT.json` maps every definition to the lines it
models. It also lists the runs, the mutants that show each property can fail,
the findings, and the hazards the properties are aimed at.

## 1. Inventory of the system

### Components and their state

| Component | Code | State |
|---|---|---|
| DirPool | `dir.rs` `DirPool` | `opened_handles` slab of `Arc<DirSnapshot>`; `lru_cache` inode -> (snapshot, last-checked `Instant`), capacity `lru_cache_size` |
| DirSnapshot | `dir.rs` | `c_tag`, `entries`, `name_map`. It is immutable and shared by the LRU and the handles. |
| FilePool | `file.rs` `FilePool` | `handles` slab of `File` (Streaming or Cached), optional `DiskCache`, `event_tx` |
| FileStreamState | `file.rs` | `current_pos`, the leftover `buffer` chunk, and the chunk receiver `rx` (capacity `stream_buffer_chunks`) |
| download_thread | `file.rs` | `pos` and the retry counter `tries`. It sends chunks into a bounded mpsc channel. |
| DiskCache | `file.rs` | `cache`: an LRU of ItemId -> `Arc<FileCache>` with capacity `max_files`; `total_size`, an `AtomicU64` |
| FileCache | `file.rs` | `state` behind an async mutex: `status` (Downloading / Available / Dirty(Instant) / Invalidated), `file_size`, an `available_size` watch, the backing file. Outside the mutex: `c_tag` (sync mutex) and a Weak ref to `total_size`. |
| write_to_cache_thread | `file.rs` | its own `pos`, the chunk receiver, and the watch sender |
| upload_thread | `file.rs` | `lock_mtime`. It holds an `Arc<FileCache>`. |

These collaborators sit outside `src/`, so they are not modelled: InodePool,
login/`ManagedOnedrive`, config loading, and the FUSE adapter. They appear
only as inputs: who calls `open`, `read`, `write` and `sync_items`, and when.

### Operations

* DirPool: `open` (LRU hit, or a conditional fetch with `if-none-match`; a 304 refreshes the timestamp, a 200 builds a new snapshot), `read`, `lookup` (returns miss, not-found, or found with a TTL), `free`.
* FilePool: `open`/`open_inner` (cache hit, then `fetch_meta` (an await), then admission, then `FileTooLarge` / `WriteWithoutCache` / Streaming), `close`, `read` (stream or cache), `write` (cache only), `sync_items`.
* DiskCache: `get`, `try_alloc_and_fetch` (size check, a re-check under the LRU lock, the eviction loop, the new FileCache, the LRU insert), `sync_items` (a `get_mut` that refreshes recency; for a changed CTag, LRU removal, then invalidation under the state lock).
* FileCache: `wait_bytes_available`, `read`, `write`, the writer task, the uploader task, and `Drop` (subtracts `file_size` from `total_size`).

### How the components interact

* **Channels.** `download_thread` feeds chunks to the writer task (capacity 64) or to a streaming handle (capacity `stream_buffer_chunks`). Dropping the sender is how the producer says the stream has ended.
* **Watch.** The writer task publishes `available_size`. Readers wait on it with the state lock released.
* **Shared state.** The LRU maps use short sync mutexes. FileCache state uses an async mutex that is held across file I/O. `c_tag` has its own sync mutex. `total_size` is a relaxed atomic.
* **Arc lifetimes.** A FileCache lives while the LRU, a handle, or an uploader holds it. Its `Drop` updates `total_size`. The writer task holds only a Weak ref.
* **Callbacks from outside.** An external synchronizer calls `sync_items` with the current remote CTags. Each successful upload sends `UpdateEvent::UpdateFile` on `event_tx`.

### What is hard

* Concurrency. Tokio tasks interleave at every await. These include handle operations on several handles, the producer and writer tasks, any number of uploader tasks, and `sync_items`.
* Remote effects. An upload is applied on the server before its response arrives. Overlapping uploads can be applied and answered in any order. Another client can change the item at any time.
* Failures. A download gives up after `max_retry` attempts. A failed upload is retried forever.
* Ordering. The two halves of `sync_items` are separated by an await. A reader that waits on the watch re-locks and re-checks the status.
* Admission and Drop. Eviction only drops an entry from the LRU. The bytes are freed when the last Arc goes.
* Time. The DirPool TTL uses `<` in `open` but `checked_sub` in `lookup`. The two disagree only at `elapsed == cache_ttl`, where `lookup` answers with ttl 0, so its answer expires at once.

### What makes each component correct

* FileCache:
  * Dirty data always has a live uploader, and eventually it is uploaded or the cache is invalidated.
  * At most one upload is in flight (spec property 7).
  * A clean cache matches the server.
  * Reads return only bytes that have been filled.
  * After invalidation, nothing succeeds (spec property 8).
  * No `assert!` or `unreachable!()` is reachable.
* DiskCache:
  * `total_size` equals the sum of the live caches' sizes (spec property 6).
  * Admission respects `max_total_size` and refuses only when the cache is full (spec 4.3).
  * Opens that race share one cache.
* Streaming:
  * Reads are sequential.
  * Concatenated reads give the file (spec property 4).
  * The download eventually ends.
* DirPool:
  * At most one fetch per TTL (spec property 1).
  * A 304 keeps the entries (spec property 2).
  * Lookup has three correct outcomes (spec property 3).
  * A stale revalidation never replaces a newer snapshot ("stale revalidations never corrupt state").

## 2. Modules

### FileCache.tla: one cached file (the core)

This module models one FileCache from admission on. It includes its
`download_thread`, the writer task, the reads and writes of handle tasks
(`Handles`), every uploader that writes spawn, the remote item, and
`sync_items` for this item.

Each critical section under the async `state` mutex is one atomic action.
An await with the lock released splits a handler:

| Code | Actions |
|---|---|
| `FileCache::read` | `ReadBegin` (first lock: clamp `end`), then `WaitFirst` / `WatchWake` / `Relock` (`wait_bytes_available`), with the copy (`ReadBody`) inside the guard |
| `FileCache::write` | `WriteBegin` (reads `file_size`, checks `upload.max_size`), then the same wait, then `WriteBody`: the status match with its `unreachable!()`, Dirty(now), spawning an uploader, the write, and growing `file_size` |
| `download_thread` | `DownloadChunk`, `DownloadGiveUp` (retries exhausted), `DownloadFinish` |
| `write_to_cache_thread` | `WriterRecv` (write the chunk, publish `pos`, complete with the `assert!`), `WriterClosed` |
| `upload_thread` | `UpCheck` (token check and file snapshot), `UpApply` (the server applies the upload), `UpFail` (error, then retry), `UpRespond` (store `c_tag`, send UpdateFile), `UpFinish` (final reconcile) |
| `sync_items` | `SyncItems` (LRU lock: the CTag differs, so remove the entry), `SyncInvalidate` (state lock) |
| another client | `ExtChange` |

Data abstraction: the file's bytes are a content version (`localVer`,
`remote.data`) plus a size counted in chunks of one byte. Mtime tokens are
the write's sequence number; `Instant::now()` is monotonic.

### DiskCache.tla: the pool of cached files

This module models `FilePool::open`/`close`/`write` and `sync_items` over the
DiskCache LRU. It includes `try_alloc_and_fetch` with the eviction loop, which
is modelled as the RECURSIVE operator `EvictLoop`. It also models the LRU
capacity, `total_size`, and `FileCache::drop`.

A FileCache is an item and a size. It is live while the LRU, a handle slot,
or a running uploader holds it (`Pinned`). `Release` runs every Drop that a
step causes. `OpenBegin` is the part before the `fetch_meta` await, so opens
by concurrent `Tasks` interleave there. `SpecCanAdmit` is the spec's
admission rule written as a reference definition; `EvictLoop` is checked
against it. `tempfile_in` or `set_len` may fail after the eviction loop;
the open then ends with the io error, and the evictions stay in effect.

A handle slot records whether its open was in write mode. `OpenFallback` is
the tail of `open_inner` after the disk cache refused the file or was
disabled: a write-mode open fails with FileTooLarge, and a read-mode open gets
a Streaming handle. `WriteTarget` is the dispatch of `FilePool::write`. The
FUSE layer writes only through write-mode handles. A Cached handle goes to
`FileCache::write`, and a Streaming handle would hit `panic!("Cannot stream in
write mode")`. Read dispatch changes no pool state. Its targets are modelled
in FileCache.tla (cached reads) and StreamState.tla (streaming reads).

### DirPool.tla: the directory pool

This module models `DirPool::open`, `free` and `lookup` over the LRU of
snapshots, on a discrete clock. A snapshot is immutable and named by its
c_tag, so it is abstracted to the version of the remote directory it was
built from. Each of `Tasks` opens a directory, holds the handle, and frees it.
`open` is split at its awaits:

| Code | Actions |
|---|---|
| first LRU lock, `dir.rs:79-94` | `OpenBegin`: a fresh entry (`elapsed < cache_ttl`) gives the handle at once; otherwise the snapshot becomes `prev_snapshot` and a fetch is sent |
| the server answering `get_item_with_option` | `Serve` (304 when `if-none-match` matches, else the current children), `FetchFail` (the `?` on a transport error) |
| `fetch_time = Instant::now()` and the 304 path | `Receive`: on a 304 it re-inserts `prev_snapshot` with `fetch_time` and allocates the handle |
| the 200 path after the `InodePool::touch` awaits | `Install`: insert the new snapshot with `fetch_time` and allocate the handle |
| `free`, `lookup` | `Free`, `Lookup` (its `get_mut` refreshes recency even for a stale entry) |
| time, other clients | `Tick`, `ExtChange` |

`read` changes no state: it returns the handle's snapshot. `Insert` and
`Touch` model the `lru_cache` crate's `insert` (replace, most recent, drop
the least recent beyond capacity) and `get_mut`.

### StreamState.tla and AbstractStream.tla: a streaming handle

`StreamState` models one streaming handle. That covers `FilePool::read` and
`close` on it, `FileStreamState::read` behind the handle's tokio `Mutex`, the
mpsc channel of capacity `stream_buffer_chunks`, and the whole
`download_thread`. The file's byte at offset i is the value i, so a chunk is
the sequence of offsets it carries. A read's result can therefore be compared
with the file.

| Code | Actions |
|---|---|
| `download_thread`, the ranged GET and its retry loop | `Request`: a 206 (only while `pos` is inside the server's copy), or a failure that counts a try; after `max_retry` tries the task returns |
| `resp.chunk()` | `BodyChunk` (the next bytes; past `file_size` the `assert!` panics and the task ends), `BodyEnd` (the body is complete or cut short; the outer loop starts again with `tries = 0`) |
| another client | `Resize`: the item's size on the server (`srv`) becomes one byte smaller or larger than the `file_size` that `fetch_meta` returned |
| `tx.send(chunk).await` | `Send`: waits for room, fails once the Receiver is dropped |
| `FilePool::read` | `ReadBegin` (`InvalidHandle` after close), then `Acquire` (the Mutex and the offset check) |
| the read loop | `ReadChunk` (`buffer.take()` or `recv`; `Consume` splits a chunk and keeps its rest in `buffer`), `ReadEnd` (`recv` returns None) |
| the read's end | `Finish`: `current_pos` advances, then Ok or UnexpectedEndOfDownload |
| `FilePool::close` | `Close`; reads in progress keep their clone of the Arc |

The Receiver is dropped when the handle is closed and no read holds the state
(`ReceiverAlive`). The Sender is dropped when the task returns (`SenderAlive`).

`AbstractStream` states what a streaming handle promises (spec section 4.5 and
property 4):
* a single position;
* a read is one atomic step;
* a read at another offset fails;
* a read at the position returns exactly the next bytes, or fails after
  advancing over a prefix.

`StreamState` instantiates it as
`Abs == INSTANCE AbstractStream WITH apos <- cur, ares <- res, aopen <- open`
and checks `Abs!ASpec` as a property. That is the refinement: every step of
the implementation is a step of the abstract stream, or leaves its variables
unchanged.

### Planned modules, in order

1. **FilePoolAbstract.tla plus a refinement.** This is an abstract specification of a cached file: a write is eventually on the server, unless a remote change invalidates it. It would be implemented by FileCache under a refinement mapping. The current code does not refine it because of the lost-update finding, so the refinement would be checked on a variant of the uploader that has an in-flight guard. The alternative is to record the failing refinement as a violation run.
2. **DiskCache content versions.** A write, a close, an eviction while the upload waits out `flush_delay`, and a reopen read back the old content until `sync_items` reports the upload's CTag (hazard at `file.rs:419`). The spec allows it (an evicted cache stays valid for its holders, and strong consistency is a non-goal), so this would document the window, not a defect.
3. **A versioned server for streams.** The content of a stream changing between its ranged GETs at equal size (hazard at `file.rs:357`). Size changes are already in `StreamState`.

## 3. Runs

| Run | Config | Expect | What it shows |
|---|---|---|---|
| `filecache_core` | `FileCache.cfg` | pass | See below. |
| `filecache_overlap` | `FileCache_overlap.cfg` | violation | A write during an in-flight upload starts a second concurrent upload (spec property 7). Overlapping uploads also let responses arrive in the other order than the server applied them. `c_tag` and the last UpdateFile event then name the older version. |
| `filecache_lost_update` | `FileCache_lost_update.cfg` | violation | The two uploads are applied out of order. The cache is Available under the server's CTag, but the server holds the older content, so the last write is lost. |
| `filecache_empty_file` | `FileCache_empty_file.cfg` | violation | Writing to a cached zero-byte file reaches `unreachable!()`, because the status never leaves Downloading. |
| `filecache_writer_assert` | `FileCache_writer_assert.cfg` | violation | An invalidation during the download makes the writer task's `assert!` fail. |
| `filecache_own_invalidation` | `FileCache_own_invalidation.cfg` | violation | With no other client, `sync_items` sees the cache's own upload before `c_tag` is stored and invalidates the cache. |
| `diskcache_core` | `DiskCache.cfg` | pass | See below. |
| `diskcache_admission` | `DiskCache_admission.cfg` | violation | The eviction loop uses `max_cached_file_size` as its bound. While a 1-byte file is open, a 2-byte file is refused although 3 bytes fit `max_total_size`: the loop removes the pinned 1-byte entry, which frees nothing, empties the LRU and gives up. An open that fails with the io error of `tempfile_in`/`set_len` is not counted as a refusal. |
| `dirpool_core` | `DirPool.cfg` | pass | See below. |
| `dirpool_regress` | `DirPool_regress.cfg` | violation | Two overlapping opens of one directory: the one answered before a server change inserts its older snapshot last, and it is served as fresh for a whole TTL. |
| `stream_refines` | `StreamState.cfg` | pass | See below. |
| `stream_livelock` | `StreamState_livelock.cfg` | violation | The server answers 206 and cuts the body before any byte, again and again. `download_thread` resets `tries` for each response, so it never gives up, and the read waits forever instead of failing with UnexpectedEndOfDownload. |

`filecache_core` checks five properties:
* `DirtyHasUploader`: every dirty state has an uploader holding the current token.
* `DirtySettles`: Dirty always ends in Available or Invalidated.
* `ReadOnlyFilledBytes`: a read returns only filled bytes.
* `NoSuccessAfterInvalidation`: nothing succeeds after an invalidation.
* `OpsReturn`: every started read or write returns, with data or an error. A
  waiter in `wait_bytes_available` is woken either by the writer task
  publishing the size it needs or by the watch closing when that task ends.

The run covers downloads that complete or give up, one failed upload, one
remote change, and two handles doing reads and up to two writes.

`diskcache_core` checks three properties:
* `TotalIsLiveSum`: `total_size` equals the sum of the live sizes.
* `ConcurrentOpensShareCache`: opens that race share one cache.
* `WriteHandlesAreCached`: every write-mode handle is Cached. It holds through the cache hit, the re-check, admission after eviction, and refusal, so `FilePool::write` never reaches its panic.

The run covers two tasks racing opens of two items, two handle slots, growing
writes, uploads that pin a cache, closes, and invalidation.

`dirpool_core` checks only `TypeOK`. It explores every step of `open`,
`free` and `lookup` for two callers, two directories, a one-entry LRU, a
four-tick clock around a two-tick TTL, transport errors, and two server
changes. The safety claim the spec makes of this pool, "stale revalidations
never corrupt state", does not hold (`dirpool_regress`). Its other claims
either hold by the server's behaviour alone (a 304 is only sent for the
current c_tag, so a re-installed snapshot is current) or fail for reasons
outside the code's control (spec property 1 fails whenever two opens miss at
once). None of them is a passing property worth checking.

`stream_refines` checks `AbstractStreamSpec`: the handle implements
`AbstractStream`. Every read is NonsequentialRead or returns exactly the
file's next bytes, under every interleaving of two readers with the producer.
The producer's requests fail and retry, and its chunks are split across
reads. The item may shrink on the server (the ranged GET past its end is
refused, and the task gives up) or grow (the body runs past `file_size`, and
`assert!(pos <= file_size)` panics in the task). The run also checks `TypeOK`,
which bounds the channel at its capacity, and `ReadCompletes`: with finitely
many failures, every started read returns, also when the task panics.

Each property of a passing run has a mutant in `PROJECT.json` that TLC
catches under the run's own configuration. The mutants are:
* an uploader spawned only on Available;
* no re-check of the available size after waiting;
* the Invalidated arm dropped;
* failed uploads not retried;
* a wait loop that ignores the watch closing and waits only for the size;
* no `total_size` update on a growing write;
* no re-check under the LRU lock;
* an `open_inner` that streams a write-mode open the cache refused;
* a producer that ignores `file_size`;
* a write that skips `upload.max_size`;
* an LRU insert that does not evict beyond capacity;
* a send that ignores the channel's capacity;
* a leftover slice that starts one byte late;
* a `tries` counter declared inside the retry loop, so it never gives up.

### Bounds and why they are enough

* **FileCache.** In `filecache_core` the file is 2 chunks and `upload.max_size` is 2. So a read can find the first chunk landed and the second not, and wait for it while the download gives up. A write at offset 2 is FileTooLarge. Growing writes are left to the other FileCache runs and to DiskCache; `upload.max_size` 3 made the liveness checks too slow. The other FileCache runs use a 1-chunk file (0 chunks for the empty file) with `upload.max_size` 2, which is all their traces need. There are two handles, at most 2 writes, 1 upload failure, 1 download give-up, and 1 remote change. Every violation needs at most two writes and two uploaders, which these bounds allow.
* **FileCache, empty file.** `FileCache_empty_file.cfg` uses a 0-byte file, which is the numeric edge itself.
* **DiskCache.** The item sizes are 1 and 2, `max_cached_file_size` is 2, and `max_total_size` is 3. These sizes make "fits the total but not the loop's bound" possible. `max_files` is 2, so the LRU-capacity eviction happens. Two handle slots let a handle pin a cache. At most 4 FileCaches are alive at once, and the id of a dropped cache is reused.
* **DiskCache symmetry.** The config uses symmetry over tasks and slots. This is sound because both are interchangeable and the run has no liveness property.
* **DirPool.** A one-entry LRU with two directories makes capacity eviction happen. A TTL of 2 on a clock of 4 lets an entry be fresh, exactly at the TTL, and stale. Two callers and two changes are enough for the overlap of two fetches around a change. Symmetry over callers is sound, and the run has no liveness property.

* **StreamState.** The file has 2 bytes, chunks are 1 or 2 bytes, and reads are 0 to 2 bytes. A chunk can be larger than a read's room (the `buffer` path), a read can span two chunks, and a read can end at EOF. The channel holds one chunk, so the producer waits on a full channel. `max_retry` is 1, so a request is retried once and a second failure ends the task. Bodies are not cut short in this run (a cut body, like a shrunk item, leads back to a request from `pos`). The item changes size once, to 1 or 3 bytes. Two readers contend for the Mutex. The livelock run has one reader, no size change, and no bound on early body ends.

### Fairness

Tokio keeps polling every task that can make progress. So the producer, the
writer, each uploader, each handle operation already started, and the second
half of `sync_items` are weakly fair in `FileCache!Spec`. Starting new
operations, remote changes, failures, and sync batches are not fair: the
environment may never do them. `DirtySettles` holds only because upload
failures are bounded. With unbounded failures, `upload_thread` retries
forever, as the code does. `OpsReturn` needs the same fairness: each
started operation, and the writer task that wakes it.

In `StreamState`, the download task and every started read are weakly fair.
Waiting for the handle's `Mutex` is strongly fair, because tokio's Mutex
hands the lock to waiters in FIFO order. The server's choices are not fair:
it may fail a request, cut a body short, send any chunk size, or change the
item's size. `stream_refines` allows no early body ends and one size change.
`stream_livelock` lifts the bound on early ends (`MaxDrops = -1`) and shows
the read never returning.

## 4. Not modelled, and why

* **Byte contents, formatting, and logging.** Contents are abstracted to versions and sizes. The HTTP range header, the JSON parsing, and the logs change no control flow.
* **InodePool, ManagedOnedrive token refresh, the FUSE layer, and config loading.** They are not in `src/`; the spec calls them collaborators.
* **Slab exhaustion (`"Pool is full"`).** The slab is a model bound (`Slots`), not a behaviour.
* **Equal `Instant` mtime tokens.** Tokens are distinct counters; the hazard is listed in `PROJECT.json`.
* **`Vec::with_capacity` giving more than asked.** The read loop measures the room by `ret_buf.capacity()`. The model takes the capacity to be the read size, which is what the standard allocator gives for `Vec<u8>`.
* **A remote change of content during a stream.** `StreamState` models the server's size changing, but bytes are offsets, so a change of content at equal size is invisible. What `download_url` serves after a change is up to the server. The hazard at `file.rs:357` is listed in `PROJECT.json`.
* **`panic = "abort"`.** The `assert!` in `download_thread` is modelled with Rust's default unwinding: the task ends and drops its Sender. A build that aborts on panic would stop the process instead.
