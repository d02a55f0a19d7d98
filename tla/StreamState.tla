---------------------------- MODULE StreamState ----------------------------
(***************************************************************************)
(* A streaming file handle of src/vfs/file.rs: FileStreamState::read      *)
(* behind the handle's async Mutex, FilePool::read/close for it, and the  *)
(* download_thread that feeds it through an mpsc channel of capacity      *)
(* stream_buffer_chunks.  The server answers each ranged GET with an      *)
(* error, or with a 206 whose body arrives in chunks and may end early.   *)
(*                                                                         *)
(* The byte at offset i of the file is the value i; a chunk is the        *)
(* sequence of the offsets it carries.                                    *)
(***************************************************************************)
EXTENDS Integers, Sequences, FiniteSetsExt

CONSTANTS
    Readers,     \* FUSE requests reading the handle concurrently
    FileSize,    \* file_size
    Cap,         \* config.stream_buffer_chunks
    MaxRetry,    \* config.max_retry
    MaxChunk,    \* largest body chunk the server sends
    MaxRead,     \* largest read size
    MaxDrops,    \* bodies the server may end early; -1 for no bound
    MaxResizes   \* changes of the item's size on the server after fetch_meta

ASSUME FileSize \in Nat \ {0} /\ Cap \in Nat \ {0} /\ MaxRetry \in Nat

NoReader == "none"

VARIABLES
    prod,     \* download_thread: pc, pos, tries, the chunk being sent
    drops,    \* bodies ended early so far (environment bound)
    srv,      \* the item's size on the server now (file_size at fetch_meta)
    resizes,  \* changes of that size so far (environment bound)
    chan,     \* chunks in the mpsc channel
    cur,      \* FileStreamState.current_pos
    buffer,   \* FileStreamState.buffer; <<>> is None
    owner,    \* holder of the handle's tokio Mutex
    rd,       \* each reader: pc, offset, size, ret_buf
    res,      \* the result of each reader's last read
    open      \* the handle is still in FilePool.handles

vars == <<prod, drops, srv, resizes, chan, cur, buffer, owner, rd, res, open>>

Abs == INSTANCE AbstractStream WITH apos <- cur, ares <- res, aopen <- open

Chunk == Seq(0..FileSize)
ProdPc == {"req", "body", "send", "exit"}

TypeOK ==
    /\ prod \in [pc : ProdPc, pos : 0..FileSize, tries : 0..MaxRetry + 1,
                 chunk : Chunk]
    /\ srv \in {FileSize - 1, FileSize, FileSize + 1} /\ srv >= 0
    /\ chan \in Seq(Chunk) /\ Len(chan) <= Cap
    /\ cur \in 0..FileSize
    /\ buffer \in Chunk
    /\ owner \in Readers \cup {NoReader}
    /\ rd \in [Readers -> [pc : {"idle", "lock", "loop"}, off : 0..FileSize,
                           n : 0..MaxRead, buf : Chunk]]
    /\ res \in [Readers -> Abs!Result]
    /\ open \in BOOLEAN

IdleReader == [pc |-> "idle", off |-> 0, n |-> 0, buf |-> <<>>]

Init ==
    /\ prod = [pc |-> "req", pos |-> 0, tries |-> 0, chunk |-> <<>>]
    /\ drops = 0
    /\ srv = FileSize
    /\ resizes = 0
    /\ chan = <<>>
    /\ cur = 0
    /\ buffer = <<>>
    /\ owner = NoReader
    /\ rd = [r \in Readers |-> IdleReader]
    /\ res = [r \in Readers |-> Abs!NoResult]
    /\ open = TRUE

\* The Sender lives until download_thread returns; the Receiver until the
\* FileStreamState is dropped: the handle is closed and no read holds a
\* clone of its Arc.
SenderAlive == prod.pc # "exit"
ReceiverAlive == open \/ \E r \in Readers : rd[r].pc # "idle"

(***************************************************************************)
(* download_thread                                                        *)
(***************************************************************************)

\* Mutant: `tries` declared inside the retry loop, so it never passes 1.
RequestTriesInner ==
    /\ prod.pc = "req"
    /\ \/ prod.pos < srv /\ prod' = [prod EXCEPT !.pc = "body"]
       \/ prod' = [prod EXCEPT !.tries = 1,
                               !.pc = IF MaxRetry < 1 THEN "exit" ELSE "req"]
    /\ UNCHANGED <<drops, srv, resizes, chan, cur, buffer, owner, rd, res, open>>

\* The ranged GET `bytes=pos-`: a 206 starts the body (only while pos is
\* inside the server's copy; past its end the answer is 416); an error or
\* another status counts a try, and after max_retry tries the task returns.
Request ==
    /\ prod.pc = "req"
    /\ \/ prod.pos < srv /\ prod' = [prod EXCEPT !.pc = "body"]
       \/ prod' = [prod EXCEPT !.tries = @ + 1,
                               !.pc = IF MaxRetry < prod.tries + 1
                                      THEN "exit" ELSE "req"]
    /\ UNCHANGED <<drops, srv, resizes, chan, cur, buffer, owner, rd, res, open>>

\* resp.chunk() yields the next bytes of the server's copy, and pos grows
\* by its length.  Past file_size, `assert!(pos <= file_size)` panics: the
\* task unwinds (the default panic strategy) and drops the Sender.
BodyChunk ==
    /\ prod.pc = "body"
    /\ \E k \in 1..Min({MaxChunk, srv - prod.pos}) :
          prod' = IF prod.pos + k > FileSize
                  THEN [prod EXCEPT !.pc = "exit"]
                  ELSE [prod EXCEPT !.pc = "send", !.pos = @ + k,
                                    !.chunk = [i \in 1..k |-> prod.pos + i - 1]]
    /\ UNCHANGED <<drops, srv, resizes, chan, cur, buffer, owner, rd, res, open>>

DropAllowed == MaxDrops < 0 \/ drops < MaxDrops

\* The body ends, complete (at the end of the server's copy) or cut short
\* (chunk() gives an error or None early):
\* the outer loop requests again from pos with `tries` back at 0, or the
\* download is finished.
BodyEnd ==
    /\ prod.pc = "body"
    /\ prod.pos < srv => DropAllowed
    /\ drops' = IF prod.pos < srv /\ MaxDrops >= 0 THEN drops + 1 ELSE drops
    /\ prod' = IF prod.pos < FileSize
               THEN [prod EXCEPT !.pc = "req", !.tries = 0]
               ELSE [prod EXCEPT !.pc = "exit"]
    /\ UNCHANGED <<srv, resizes, chan, cur, buffer, owner, rd, res, open>>

\* tx.send(chunk).await: waits for room; fails once the Receiver is gone,
\* and the task returns.
SendNoCapacity ==
    /\ prod.pc = "send"
    /\ \/ /\ ReceiverAlive
          /\ chan' = Append(chan, prod.chunk)
          /\ prod' = [prod EXCEPT !.pc = "body", !.chunk = <<>>]
       \/ /\ ~ReceiverAlive
          /\ prod' = [prod EXCEPT !.pc = "exit", !.chunk = <<>>]
          /\ UNCHANGED chan
    /\ UNCHANGED <<drops, srv, resizes, cur, buffer, owner, rd, res, open>>
Send ==
    /\ prod.pc = "send"
    /\ \/ /\ ReceiverAlive
          /\ Len(chan) < Cap
          /\ chan' = Append(chan, prod.chunk)
          /\ prod' = [prod EXCEPT !.pc = "body", !.chunk = <<>>]
       \/ /\ ~ReceiverAlive
          /\ prod' = [prod EXCEPT !.pc = "exit", !.chunk = <<>>]
          /\ UNCHANGED chan
    /\ UNCHANGED <<drops, srv, resizes, cur, buffer, owner, rd, res, open>>

Producer == Request \/ BodyChunk \/ BodyEnd \/ Send

\* Another client replaces the item with a shorter or a longer version.
Resize ==
    /\ resizes < MaxResizes
    /\ srv' \in {FileSize - 1, FileSize + 1}
    /\ resizes' = resizes + 1
    /\ UNCHANGED <<prod, drops, chan, cur, buffer, owner, rd, res, open>>

(***************************************************************************)
(* FilePool::read on the handle and FileStreamState::read                 *)
(***************************************************************************)

\* handles.get(fh).clone(): a closed handle is InvalidHandle.  The offset
\* and size arrive clamped to the file.
ReadBegin(r, o, n) ==
    /\ rd[r].pc = "idle"
    /\ o + n <= FileSize
    /\ IF open
       THEN /\ rd' = [rd EXCEPT ![r] = [IdleReader EXCEPT !.pc = "lock",
                                                          !.off = o, !.n = n]]
            /\ UNCHANGED res
       ELSE /\ res' = [res EXCEPT ![r] = Abs!Fail("invalid")]
            /\ UNCHANGED rd
    /\ UNCHANGED <<prod, drops, srv, resizes, chan, cur, buffer, owner, open>>

\* state.lock().await, then the offset check.
Acquire(r) ==
    /\ rd[r].pc = "lock"
    /\ owner = NoReader
    /\ IF rd[r].off # cur
       THEN /\ res' = [res EXCEPT ![r] = Abs!Fail("nonseq")]
            /\ rd' = [rd EXCEPT ![r] = IdleReader]
            /\ UNCHANGED owner
       ELSE /\ owner' = r
            /\ rd' = [rd EXCEPT ![r].pc = "loop"]
            /\ UNCHANGED res
    /\ UNCHANGED <<prod, drops, srv, resizes, chan, cur, buffer, open>>

\* The end of the read: current_pos advances over what was gathered, the
\* result is Ok only for a full buffer, and the Mutex is released.
Finish(r, b) ==
    /\ cur' = cur + Len(b)
    /\ res' = [res EXCEPT ![r] = IF Len(b) = rd[r].n
                                 THEN [kind |-> "ok", data |-> b]
                                 ELSE Abs!Fail("eof")]
    /\ owner' = NoReader
    /\ rd' = [rd EXCEPT ![r] = IdleReader]

\* One iteration of the loop on chunk c, with q the channel after taking
\* it: a chunk longer than the room left is split and its rest kept in
\* `buffer`; a buffer filled to capacity ends the read.
ConsumeOffByOne(r, c, q) ==
    LET room == rd[r].n - Len(rd[r].buf)
        b    == rd[r].buf \o c
    IN /\ chan' = q
       /\ IF room < Len(c)
          THEN /\ buffer' = SubSeq(c, room + 2, Len(c))
               /\ Finish(r, rd[r].buf \o SubSeq(c, 1, room))
          ELSE /\ buffer' = <<>>
               /\ IF Len(b) = rd[r].n
                  THEN Finish(r, b)
                  ELSE /\ rd' = [rd EXCEPT ![r].buf = b]
                       /\ UNCHANGED <<cur, res, owner>>
Consume(r, c, q) ==
    LET room == rd[r].n - Len(rd[r].buf)
        b    == rd[r].buf \o c
    IN /\ chan' = q
       /\ IF room < Len(c)
          THEN /\ buffer' = SubSeq(c, room + 1, Len(c))
               /\ Finish(r, rd[r].buf \o SubSeq(c, 1, room))
          ELSE /\ buffer' = <<>>
               /\ IF Len(b) = rd[r].n
                  THEN Finish(r, b)
                  ELSE /\ rd' = [rd EXCEPT ![r].buf = b]
                       /\ UNCHANGED <<cur, res, owner>>

\* The next chunk: buffer.take(), else rx.recv().await.
ReadChunk(r) ==
    /\ owner = r
    /\ \/ buffer # <<>> /\ Consume(r, buffer, chan)
       \/ buffer = <<>> /\ chan # <<>> /\ Consume(r, Head(chan), Tail(chan))
    /\ UNCHANGED <<prod, drops, srv, resizes, open>>

\* rx.recv() returns None: the Sender is gone and the channel is empty.
ReadEnd(r) ==
    /\ owner = r
    /\ buffer = <<>> /\ chan = <<>> /\ ~SenderAlive
    /\ Finish(r, rd[r].buf)
    /\ UNCHANGED <<prod, drops, srv, resizes, chan, buffer, open>>

\* FilePool::close removes the handle; reads in progress keep their clone.
Close ==
    /\ open
    /\ open' = FALSE
    /\ UNCHANGED <<prod, drops, srv, resizes, chan, cur, buffer, owner, rd, res>>

Next ==
    \/ Producer
    \/ \E r \in Readers :
          \/ \E o \in 0..FileSize, n \in 0..MaxRead : ReadBegin(r, o, n)
          \/ Acquire(r) \/ ReadChunk(r) \/ ReadEnd(r)
    \/ Close
    \/ Resize

\* Tokio runs the download task and every started read; its Mutex queues
\* waiters in FIFO order, so a reader waiting for it gets it eventually.
Fairness ==
    /\ WF_vars(Producer)
    /\ \A r \in Readers :
          /\ SF_vars(Acquire(r))
          /\ WF_vars(ReadChunk(r))
          /\ WF_vars(ReadEnd(r))

Spec == Init /\ [][Next]_vars /\ Fairness

(***************************************************************************)
(* Properties                                                             *)
(***************************************************************************)

\* The handle implements the abstract stream: under every interleaving of
\* download_thread (retries, early body ends, a full channel) with reads
\* split across the leftover `buffer`, each read is NonsequentialRead or
\* returns exactly the file's next bytes, and current_pos moves only by
\* what a read returned (spec property 4).
AbstractStreamSpec == Abs!ASpec

\* Every read that has started returns: download_thread delivers the bytes
\* or gives up and drops the Sender, which ends rx.recv().
ReadCompletes == \A r \in Readers : rd[r].pc # "idle" ~> rd[r].pc = "idle"

=============================================================================
