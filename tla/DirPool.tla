------------------------------ MODULE DirPool ------------------------------
(***************************************************************************)
(* The directory pool of src/vfs/dir.rs: DirPool::open with its           *)
(* conditional revalidation, lookup, free, and the LRU of snapshots keyed *)
(* by inode with their last-checked Instant.                              *)
(*                                                                         *)
(* A DirSnapshot is immutable and its c_tag names the directory content,  *)
(* so a snapshot is abstracted to the version of the remote directory it  *)
(* was built from.  Time is a discrete clock; Instant::elapsed() is       *)
(* now - at.  Each FUSE caller (Tasks) opens a directory, holds the       *)
(* handle, and frees it; open is split at its awaits: the request, the    *)
(* server answering it, the response arriving (fetch_time), and, on a 200,*)
(* the InodePool::touch awaits before the LRU insert.                     *)
(***************************************************************************)
EXTENDS Integers, Sequences, SequencesExt

CONSTANTS
    Inos,          \* directory inodes that are opened
    Tasks,         \* concurrent callers of open/lookup/free
    LruSize,       \* config.lru_cache_size
    CacheTtl,      \* config.cache_ttl, in clock ticks
    MaxTime,       \* bound on the clock
    MaxChanges     \* bound on changes made to the remote directories

ASSUME LruSize \in Nat /\ CacheTtl \in Nat \ {0}

VARIABLES
    now,      \* the clock Instant::now() reads
    remote,   \* remote[i]: version (c_tag) of directory i on the server
    changes,  \* remote changes made so far
    lru,      \* lru_cache: Seq of [ino, ver, at], least recent first
    tasks     \* the callers and where each is in open

vars == <<now, remote, changes, lru, tasks>>

\* "none" stands for prev_snapshot = None; "304" for get_item returning None.
None == -1
NotModified == -2
Versions == 0..MaxChanges
TaskPc == {"idle", "fetch", "reply", "touch", "open"}

Entry == [ino : Inos, ver : Versions, at : 0..MaxTime]
Task == [pc : TaskPc, ino : Inos, prev : Versions \cup {None},
         rep : Versions \cup {NotModified}, at : 0..MaxTime, fh : Versions]

TypeOK ==
    /\ now \in 0..MaxTime
    /\ remote \in [Inos -> Versions]
    /\ changes \in 0..MaxChanges
    /\ lru \in Seq(Entry)
    /\ Len(lru) <= LruSize
    /\ \A a, b \in 1..Len(lru) : lru[a].ino = lru[b].ino => a = b
    /\ tasks \in [Tasks -> Task]

IdleTask == [pc |-> "idle", ino |-> CHOOSE i \in Inos : TRUE, prev |-> None,
             rep |-> 0, at |-> 0, fh |-> 0]

Init ==
    /\ now = 0
    /\ remote = [i \in Inos |-> 0]
    /\ changes = 0
    /\ lru = <<>>
    /\ tasks = [t \in Tasks |-> IdleTask]

(***************************************************************************)
(* LruCache of the lru_cache crate.                                       *)
(***************************************************************************)
InLru(i) == \E k \in 1..Len(lru) : lru[k].ino = i
LruEntry(i) == lru[CHOOSE k \in 1..Len(lru) : lru[k].ino = i]
Others(l, i) == SelectSeq(l, LAMBDA e : e.ino # i)

\* get_mut: a present entry becomes the most recently used.
Touch(l, i) ==
    IF \E k \in 1..Len(l) : l[k].ino = i
    THEN Others(l, i) \o SelectSeq(l, LAMBDA e : e.ino = i)
    ELSE l

\* insert: replace the entry of the key, make it most recent, and drop the
\* least recent entry beyond capacity.
InsertNoEvict(l, e) == Others(l, e.ino) \o <<e>>
Insert(l, e) ==
    LET l1 == Others(l, e.ino) \o <<e>>
    IN IF Len(l1) > LruSize THEN Tail(l1) ELSE l1

\* open's freshness test: `last_checked.elapsed() < cache_ttl`.
OpenHits(i) == InLru(i) /\ now - LruEntry(i).at < CacheTtl

(***************************************************************************)
(* DirPool::open.  First lock of the LRU: a fresh entry gives a handle at *)
(* once; otherwise the (possibly stale) snapshot becomes prev_snapshot    *)
(* and a fetch, conditional on its c_tag, is sent.                        *)
(***************************************************************************)
OpenBegin(t, i) ==
    /\ tasks[t].pc = "idle"
    /\ lru' = Touch(lru, i)
    /\ tasks' = [tasks EXCEPT ![t] =
                   IF OpenHits(i)
                   THEN [IdleTask EXCEPT !.pc = "open", !.ino = i,
                                         !.fh = LruEntry(i).ver]
                   ELSE [IdleTask EXCEPT !.pc = "fetch", !.ino = i,
                                         !.prev = IF InLru(i)
                                                  THEN LruEntry(i).ver
                                                  ELSE None]]
    /\ UNCHANGED <<now, remote, changes>>

\* The server evaluates get_item_with_option: with if-none-match on an
\* unchanged c_tag it answers 304, otherwise the current children.
Serve(t) ==
    /\ tasks[t].pc = "fetch"
    /\ LET i == tasks[t].ino IN
       tasks' = [tasks EXCEPT ![t].pc = "reply",
                   ![t].rep = IF tasks[t].prev = remote[i]
                              THEN NotModified ELSE remote[i]]
    /\ UNCHANGED <<now, remote, changes, lru>>

\* The `?` on get_item_with_option: a request or response lost to a
\* transport error ends the open with the error and changes nothing.
FetchFail(t) ==
    /\ tasks[t].pc \in {"fetch", "reply"}
    /\ tasks' = [tasks EXCEPT ![t] = IdleTask]
    /\ UNCHANGED <<now, remote, changes, lru>>

\* The response arrives: fetch_time = Instant::now().  A 304 re-inserts
\* prev_snapshot with fetch_time and allocates the handle in the same step;
\* a 200 goes on to touch every child in the InodePool.
Receive(t) ==
    /\ tasks[t].pc = "reply"
    /\ LET tk == tasks[t] IN
       IF tk.rep = NotModified
       THEN /\ lru' = Insert(lru, [ino |-> tk.ino, ver |-> tk.prev,
                                   at |-> now])
            /\ tasks' = [tasks EXCEPT ![t].pc = "open", ![t].fh = tk.prev]
       ELSE /\ tasks' = [tasks EXCEPT ![t].pc = "touch", ![t].at = now]
            /\ UNCHANGED lru
    /\ UNCHANGED <<now, remote, changes>>

\* After the touch awaits: the new snapshot is inserted with fetch_time.
Install(t) ==
    /\ tasks[t].pc = "touch"
    /\ LET tk == tasks[t] IN
       /\ lru' = Insert(lru, [ino |-> tk.ino, ver |-> tk.rep,
                              at |-> tk.at])
       /\ tasks' = [tasks EXCEPT ![t].pc = "open", ![t].fh = tk.rep]
    /\ UNCHANGED <<now, remote, changes>>

\* DirPool::free of the caller's own handle.
Free(t) ==
    /\ tasks[t].pc = "open"
    /\ tasks' = [tasks EXCEPT ![t] = IdleTask]
    /\ UNCHANGED <<now, remote, changes, lru>>

\* DirPool::lookup: get_mut refreshes the entry's recency whether or not
\* it is still fresh; the answer itself changes no state.
Lookup(i) ==
    /\ InLru(i)
    /\ lru' = Touch(lru, i)
    /\ UNCHANGED <<now, remote, changes, tasks>>

\* The environment: time passes and other clients change directories.
Tick ==
    /\ now < MaxTime
    /\ now' = now + 1
    /\ UNCHANGED <<remote, changes, lru, tasks>>

ExtChange(i) ==
    /\ changes < MaxChanges
    /\ remote' = [remote EXCEPT ![i] = @ + 1]
    /\ changes' = changes + 1
    /\ UNCHANGED <<now, lru, tasks>>

Next ==
    \/ \E t \in Tasks :
          \/ \E i \in Inos : OpenBegin(t, i)
          \/ Serve(t) \/ FetchFail(t) \/ Receive(t) \/ Install(t) \/ Free(t)
    \/ \E i \in Inos : Lookup(i) \/ ExtChange(i)
    \/ Tick

Spec == Init /\ [][Next]_vars

(***************************************************************************)
(* Properties.                                                            *)
(***************************************************************************)

\* "Stale revalidations never corrupt state": the snapshot the LRU holds for
\* a directory never goes back to an older version.  The 304 path of open
\* (dir.rs:131) and the 200 path (dir.rs:165) insert unconditionally.
SnapshotNeverRegresses ==
    [][\A i \in Inos :
          InLru(i) /\ InLru(i)' => LruEntry(i)'.ver >= LruEntry(i).ver]_vars

=============================================================================
