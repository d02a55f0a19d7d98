----------------------------- MODULE DiskCache -----------------------------
(***************************************************************************)
(* The file side of the pool in src/vfs/file.rs: FilePool::open / close /  *)
(* write / sync_items over the DiskCache LRU of FileCaches, with admission *)
(* (try_alloc_and_fetch and its eviction loop), the aggregate total_size   *)
(* counter, and FileCache's Drop. A FileCache lives while the LRU, an open *)
(* handle or a running uploader holds an Arc to it; its Drop subtracts its *)
(* file_size from total_size. Download progress, statuses and upload I/O   *)
(* are FileCache.tla's concern; here a cache is an item and a size.        *)
(***************************************************************************)
EXTENDS Integers, SequencesExt, FiniteSetsExt

CONSTANTS
    Items,             \* remote item ids
    ItemSize,          \* size fetch_meta reports for each item
    Tasks,             \* tasks running FilePool::open concurrently
    Slots,             \* slots of the `handles` slab (model bound)
    CacheEnabled,      \* config.disk_cache.enable
    MaxCachedFileSize, \* config.disk_cache.max_cached_file_size
    MaxTotalSize,      \* config.disk_cache.max_total_size
    MaxFiles,          \* config.disk_cache.max_files (LRU capacity)
    UploadMaxSize,     \* config.upload.max_size
    MaxAdmissions      \* bound: FileCaches alive at once

\* DiskCache::new asserts max_cached_file_size <= max_total_size.
ASSUME /\ ItemSize \in [Items -> Nat] /\ CacheEnabled \in BOOLEAN
       /\ MaxCachedFileSize <= MaxTotalSize /\ MaxFiles \in Nat \ {0}

VARIABLES
    lru,       \* DiskCache.cache: FileCache ids, least recently used first
    objs,      \* live (not yet dropped) FileCache id -> [item, size]
    total,     \* DiskCache.total_size
    handles,   \* FilePool.handles: slot -> [kind, obj]
    uploading, \* FileCaches an upload_thread task holds
    invalid,   \* FileCaches whose status sync_items set to Invalidated
    removed,   \* FileCaches taken out of the LRU by eviction or sync_items
    tasks      \* per open task: [pc, item, wmode, res]

vars == <<lru, objs, total, handles, uploading, invalid, removed, tasks>>

\* FileCache ids; the id of a dropped FileCache is reused.
Obj == 1..MaxAdmissions
NoHandle == [kind |-> "none", obj |-> 0, wmode |-> FALSE]
StreamOf(w) == [kind |-> "stream", obj |-> 0, wmode |-> w]
Results == {"none", "cached", "stream", "FileTooLarge", "WriteWithoutCache",
            "IoError"}
live == DOMAIN objs

TypeOK ==
    /\ lru \in Seq(Obj) /\ Len(lru) <= MaxFiles /\ live \subseteq Obj
    /\ \A o \in live : objs[o] \in [item : Items, size : 0..UploadMaxSize]
    /\ total \in Nat
    /\ handles \in [Slots -> [kind : {"none", "stream", "cached"},
                              obj : {0} \cup live, wmode : BOOLEAN]]
    /\ uploading \cup invalid \cup removed \subseteq live
    /\ tasks \in [Tasks -> [pc : {"idle", "fetched"}, item : Items,
                            wmode : BOOLEAN, res : Results]]

Init ==
    /\ lru = << >> /\ objs = << >> /\ total = 0
    /\ handles = [s \in Slots |-> NoHandle]
    /\ uploading = {} /\ invalid = {} /\ removed = {}
    /\ tasks = [t \in Tasks |-> [pc |-> "idle", item |-> CHOOSE i \in Items :
                                   TRUE, wmode |-> FALSE, res |-> "none"]]

-----------------------------------------------------------------------------
\* Mutant: try_alloc_and_fetch does not look for an entry inserted by an
\* open that raced it through fetch_meta.
RecheckSkipped(i) == FALSE

InLru(i) == \E o \in ToSet(lru) : objs[o].item = i
LruObj(i) == CHOOSE o \in ToSet(lru) : objs[o].item = i
\* LruCache::get_mut / insert make the key the most recently used.
Touch(l, o) == Append(Remove(l, o), o)

\* An Arc held outside the LRU: an open handle or a running uploader.
Pinned(o, hs, ups) == (\E s \in Slots : hs[s].obj = o) \/ o \in ups

SizeOf(S) == MapThenSumSet(LAMBDA o : objs[o].size, S)

(* Dropping every Arc a step released: FileCaches (among `lv`) no longer   *)
(* in the LRU and not pinned run Drop, which subtracts their file_size     *)
(* from total_size; `tot` is total_size before the drops.                  *)
Release(lv, tot, l, hs, ups, rm, inv) ==
    LET dead == {o \in lv : o \notin ToSet(l) /\ ~Pinned(o, hs, ups)} IN
    /\ objs' = Restrict(objs, lv \ dead)
    /\ total' = tot - SizeOf(dead)
    /\ removed' = rm \ dead /\ invalid' = inv \ dead

FreeSlot == {s \in Slots : handles[s].kind = "none"}

\* try_alloc_and_fetch's `cache.get_mut(&item_id)` under the LRU lock.
Recheck(i) == InLru(i)

(* The `while max_cached_file_size < total_size + file_size` loop of       *)
(* try_alloc_and_fetch: remove_lru() drops the least recent entry (Drop    *)
(* runs at once when nothing else holds it); an empty LRU gives up.        *)
RECURSIVE EvictLoop(_, _, _, _)
EvictLoop(l, lv, tot, fsize) ==
    IF ~(MaxCachedFileSize < tot + fsize)
    THEN [ok |-> TRUE, lru |-> l, live |-> lv, total |-> tot]
    ELSE IF l = << >>
    THEN [ok |-> FALSE, lru |-> l, live |-> lv, total |-> tot]
    ELSE LET o == Head(l) IN
         IF Pinned(o, handles, uploading)
         THEN EvictLoop(Tail(l), lv, tot, fsize)
         ELSE EvictLoop(Tail(l), lv \ {o}, tot - objs[o].size, fsize)

-----------------------------------------------------------------------------
(* FilePool::open_inner up to the fetch_meta await. With the disk cache,   *)
(* DiskCache::get (a hit refreshes the LRU) returns a Cached handle that   *)
(* FilePool::open puts in the slab. Without it, write mode fails.           *)
OpenBegin(t, i, w) ==
    /\ tasks[t].pc = "idle"
    /\ IF CacheEnabled /\ InLru(i)
       THEN \E s \in FreeSlot :
              /\ lru' = Touch(lru, LruObj(i))
              /\ handles' = [handles EXCEPT ![s] = [kind |-> "cached",
                                             obj |-> LruObj(i), wmode |-> w]]
              /\ tasks' = [tasks EXCEPT ![t].res = "cached"]
       ELSE IF ~CacheEnabled /\ w
       THEN /\ tasks' = [tasks EXCEPT ![t].res = "WriteWithoutCache"]
            /\ UNCHANGED <<lru, handles>>
       ELSE /\ tasks' = [tasks EXCEPT ![t] = [pc |-> "fetched", item |-> i,
                                              wmode |-> w, res |-> "none"]]
            /\ UNCHANGED <<lru, handles>>
    /\ UNCHANGED <<objs, total, uploading, invalid, removed>>

\* Handle of an open that ends with `file`, or no handle on error.
Finish(t, res, file) ==
    \/ /\ res \in {"cached", "stream"}
       /\ \E s \in FreeSlot :
            /\ handles' = [handles EXCEPT ![s] = file]
            /\ tasks' = [tasks EXCEPT ![t] = [@ EXCEPT !.pc = "idle",
                                                       !.res = res]]
    \/ /\ res \notin {"cached", "stream"}
       /\ tasks' = [tasks EXCEPT ![t] = [@ EXCEPT !.pc = "idle", !.res = res]]
       /\ UNCHANGED handles

\* Mutant: a write-mode open that was not admitted streams.
OpenFallbackStream(w) == [res |-> "stream", file |-> StreamOf(w)]

(* The tail of FilePool::open_inner once the disk cache did not admit the  *)
(* file (too large, LRU emptied) or is disabled: FileTooLarge in write     *)
(* mode, otherwise a Streaming handle over a new FileStreamState.          *)
OpenFallback(w) ==
    IF w THEN [res |-> "FileTooLarge", file |-> NoHandle]
         ELSE [res |-> "stream", file |-> StreamOf(w)]

(* After fetch_meta: try_alloc_and_fetch under the LRU lock (size check,   *)
(* re-check for an entry another open inserted meanwhile, eviction loop,   *)
(* new FileCache adding its file_size to total_size, LRU insert that drops *)
(* the least recent entry beyond max_files); then Cached, FileTooLarge in  *)
(* write mode, or a Streaming handle.  tempfile_in or set_len may fail     *)
(* after the loop has evicted: the `?` ends the open with the io error.    *)
TryAllocAndFetch(t) ==
    LET i == tasks[t].item
        fsize == ItemSize[i]
        ev == EvictLoop(lru, live, total, fsize)
        o == CHOOSE x \in Obj : x \notin ev.live
        ins == Append(ev.lru, o)
        l2 == IF Len(ins) > MaxFiles THEN Tail(ins) ELSE ins
        dead == {x \in ev.live : x \notin ToSet(l2) /\
                                 ~Pinned(x, handles, uploading)}
        w == tasks[t].wmode
        fb == OpenFallback(w)
        \* The open ends after the loop's evictions took effect.
        EndAfterEviction(res, file) ==
            /\ lru' = ev.lru
            /\ Release(live, total, ev.lru, handles, uploading,
                       removed \cup (ToSet(lru) \ ToSet(ev.lru)), invalid)
            /\ Finish(t, res, file)
    IN
    /\ tasks[t].pc = "fetched"
    /\ CASE ~CacheEnabled \/ MaxCachedFileSize < fsize ->
              /\ Finish(t, fb.res, fb.file)
              /\ UNCHANGED <<lru, objs, total, removed, invalid>>
         [] Recheck(i) ->
              /\ lru' = Touch(lru, LruObj(i))
              /\ Finish(t, "cached", [kind |-> "cached", obj |-> LruObj(i),
                                      wmode |-> w])
              /\ UNCHANGED <<objs, total, removed, invalid>>
         [] ~ev.ok ->
              EndAfterEviction(fb.res, fb.file)
         [] OTHER ->
              \/ EndAfterEviction("IoError", NoHandle)
              \/ /\ ev.live # Obj
                 /\ lru' = l2
                 /\ objs' = [x \in (ev.live \ dead) \cup {o} |->
                               IF x = o THEN [item |-> i, size |-> fsize]
                                        ELSE objs[x]]
                 /\ total' = ev.total + fsize - SizeOf(dead)
                 /\ removed' = (removed \cup (ToSet(lru) \ ToSet(l2)))
                                  \intersect (ev.live \ dead)
                 /\ invalid' = invalid \intersect (ev.live \ dead)
                 /\ Finish(t, "cached", [kind |-> "cached", obj |-> o, wmode |-> w])
    /\ UNCHANGED uploading

\* FilePool::close: remove the slot; the handle's Arc is dropped.
Close(s) ==
    /\ handles[s].kind # "none"
    /\ handles' = [handles EXCEPT ![s] = NoHandle]
    /\ Release(live, total, lru, handles', uploading, removed, invalid)
    /\ UNCHANGED <<lru, uploading, tasks>>

(* FilePool::write: the FUSE layer writes only through handles opened in   *)
(* write mode; a Cached one goes to FileCache::write, a Streaming one hits *)
(* panic!("Cannot stream in write mode").                                   *)
WriteTarget(s) == handles[s].wmode /\ handles[s].kind = "cached"

\* Mutant: the write grows file_size without the total_size fetch_add.
WriteNoTotal(s) ==
    LET o == handles[s].obj IN
    /\ WriteTarget(s) /\ o \notin invalid
    /\ objs[o].size + 1 <= UploadMaxSize
    /\ objs' = [objs EXCEPT ![o].size = @ + 1]
    /\ uploading' = uploading \cup {o}
    /\ UNCHANGED <<total, lru, handles, invalid, removed, tasks>>

\* Mutant: the write skips the upload.max_size check.
WriteNoMaxSize(s) ==
    LET o == handles[s].obj IN
    /\ WriteTarget(s) /\ o \notin invalid
    /\ objs[o].size <= UploadMaxSize
    /\ objs' = [objs EXCEPT ![o].size = @ + 1]
    /\ total' = total + 1
    /\ uploading' = uploading \cup {o}
    /\ UNCHANGED <<lru, handles, invalid, removed, tasks>>

(* FilePool::write appending one byte to a Cached handle: FileTooLarge     *)
(* past upload.max_size, Invalidated on an invalidated cache; otherwise    *)
(* the file grows, total_size grows by the delta and an uploader holding   *)
(* the Arc is spawned.                                                      *)
Write(s) ==
    LET o == handles[s].obj IN
    /\ WriteTarget(s) /\ o \notin invalid
    /\ objs[o].size + 1 <= UploadMaxSize
    /\ objs' = [objs EXCEPT ![o].size = @ + 1]
    /\ total' = total + 1
    /\ uploading' = uploading \cup {o}
    /\ UNCHANGED <<lru, handles, invalid, removed, tasks>>

\* The last upload_thread of a cache returns and drops its Arc.
UploadDone(o) ==
    /\ o \in uploading
    /\ uploading' = uploading \ {o}
    /\ Release(live, total, lru, handles, uploading', removed, invalid)
    /\ UNCHANGED <<lru, handles, tasks>>

(* DiskCache::sync_items for a cached item of the batch: get_mut makes it *)
(* the most recently used; if its c_tag is unchanged nothing else happens, *)
(* otherwise it is removed from the LRU, set Invalidated, and the          *)
(* `outdated` Arcs are dropped.                                             *)
SyncItems(i) ==
    /\ CacheEnabled /\ InLru(i)
    /\ LET o == LruObj(i) IN
       \/ /\ lru' = Touch(lru, o)
          /\ UNCHANGED <<objs, total, removed, invalid>>
       \/ /\ lru' = Remove(lru, o)
          /\ Release(live, total, lru', handles, uploading, removed \cup {o},
                     invalid \cup {o})
    /\ UNCHANGED <<handles, uploading, tasks>>

-----------------------------------------------------------------------------
Next ==
    \/ \E t \in Tasks, i \in Items, w \in BOOLEAN : OpenBegin(t, i, w)
    \/ \E t \in Tasks : TryAllocAndFetch(t)
    \/ \E s \in Slots : Close(s) \/ Write(s)
    \/ \E o \in uploading : UploadDone(o)
    \/ \E i \in Items : SyncItems(i)

Spec == Init /\ [][Next]_vars

-----------------------------------------------------------------------------
(***************************************************************************)
(* Properties.                                                             *)
(***************************************************************************)

(* Spec property 6: total_size equals the sum of file_size over the        *)
(* FileCaches not yet dropped, through admissions, growing writes,         *)
(* evictions, invalidations and the Drops of handles and uploaders.         *)
TotalIsLiveSum == total = SizeOf(live)

(* Two open handles on different FileCaches of one item only happen when   *)
(* one of them was taken out of the LRU (evicted or invalidated): opens    *)
(* that race through fetch_meta end up sharing one cache.                   *)
ConcurrentOpensShareCache ==
    \A s1, s2 \in Slots :
        LET o1 == handles[s1].obj  o2 == handles[s2].obj IN
        (/\ handles[s1].kind = "cached" /\ handles[s2].kind = "cached"
         /\ o1 # o2 /\ objs[o1].item = objs[o2].item)
        => o1 \in removed \/ o2 \in removed

(* Spec 4.2: a streaming handle in write mode is a precondition violation.  *)
(* Every handle opened in write mode is Cached, through the cache hit, the *)
(* re-check, admission after eviction, and its refusal; so FilePool::write *)
(* never reaches its panic on a Streaming handle.                           *)
WriteHandlesAreCached ==
    \A s \in Slots : handles[s].wmode => handles[s].kind = "cached"

(* Section 4.3 of the spec, as a reference: the file can be admitted iff   *)
(* evicting every LRU entry nothing else holds would bring total_size +    *)
(* file_size within max_total_size.                                         *)
SpecCanAdmit(fsize) ==
    total - SizeOf({o \in ToSet(lru) : ~Pinned(o, handles, uploading)}) + fsize
        <= MaxTotalSize

(* try_alloc_and_fetch refuses a file no larger than max_cached_file_size  *)
(* (the open ends streaming or FileTooLarge) only when the spec's          *)
(* admission rule refuses it too. An open that fails with the io error of  *)
(* tempfile_in/set_len was not refused, and is not counted.                 *)
AdmissionRefusedOnlyWhenFull ==
    [][\A t \in Tasks :
          (/\ tasks[t].pc = "fetched" /\ tasks'[t].pc = "idle"
           /\ CacheEnabled /\ ~InLru(tasks[t].item)
           /\ ItemSize[tasks[t].item] <= MaxCachedFileSize
           /\ tasks'[t].res \in {"stream", "FileTooLarge"})
          => ~SpecCanAdmit(ItemSize[tasks[t].item])]_vars

=============================================================================
