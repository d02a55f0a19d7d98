--------------------------- MODULE AbstractStream ---------------------------
(***************************************************************************)
(* What a streaming file handle promises (spec 4.5 and testable property  *)
(* 4): one position per handle; a read at another offset fails with       *)
(* NonsequentialRead and changes nothing; a read at the position returns  *)
(* exactly the next bytes of the file and advances the position, or, when *)
(* the download has failed, fails with UnexpectedEndOfDownload after      *)
(* advancing over the bytes it did get.  Reads happen one at a time and   *)
(* each is one atomic step.  After close, new reads fail.                 *)
(*                                                                         *)
(* The file's byte at offset i is the value i, so a result that equals    *)
(* Bytes(o, n) is the file's content from o on.                           *)
(***************************************************************************)
EXTENDS Integers, Sequences

CONSTANTS Readers, FileSize, MaxRead

VARIABLES apos, ares, aopen

Bytes(o, n) == [k \in 1..n |-> o + k - 1]

Result == [kind : {"none", "ok", "nonseq", "eof", "invalid"},
           data : Seq(0..FileSize)]
NoResult == [kind |-> "none", data |-> <<>>]
Fail(kind) == [kind |-> kind, data |-> <<>>]

AInit ==
    /\ apos = 0
    /\ ares = [r \in Readers |-> NoResult]
    /\ aopen = TRUE

\* A read of n bytes at offset o, clamped to the file.
ARead(r, o, n) ==
    /\ o + n <= FileSize
    /\ n <= MaxRead
    /\ IF o # apos
       THEN /\ ares' = [ares EXCEPT ![r] = Fail("nonseq")]
            /\ UNCHANGED apos
       ELSE \E k \in 0..n :
              /\ apos' = apos + k
              /\ ares' = [ares EXCEPT ![r] = IF k = n
                                             THEN [kind |-> "ok", data |-> Bytes(o, n)]
                                             ELSE Fail("eof")]
    /\ UNCHANGED aopen

AInvalid(r) ==
    /\ ~aopen
    /\ ares' = [ares EXCEPT ![r] = Fail("invalid")]
    /\ UNCHANGED <<apos, aopen>>

AClose ==
    /\ aopen
    /\ aopen' = FALSE
    /\ UNCHANGED <<apos, ares>>

ANext ==
    \/ \E r \in Readers :
          \/ \E o \in 0..FileSize, n \in 0..MaxRead : ARead(r, o, n)
          \/ AInvalid(r)
    \/ AClose

ASpec == AInit /\ [][ANext]_<<apos, ares, aopen>>

=============================================================================
