----------------------------- MODULE BufferedWR -----------------------------
(***************************************************************************)
(* BufferedWR: a buffer that one goroutine writes and one reads.  The      *)
(* writer puts a token into the channel update when it finds the buffer    *)
(* empty; the reader takes a token when it finds the buffer empty, without *)
(* holding the mutex.  The bytes are numbered in the order of the writes.  *)
(***************************************************************************)
EXTENDS Integers, Sequences

CONSTANT MaxBytes   \* bound on the bytes that are written

ASSUME BufferAssumption == MaxBytes \in Nat

VARIABLES
  buffer,    \* the bytes in the buffer
  off,       \* bytes.Buffer still has bytes that were read before these
  token,     \* tokens in update, which has room for one
  done,      \* the buffer is closed, and so is update
  mu,        \* the writer holds the mutex between two steps
  wpc,       \* where Write is
  rpc,       \* where Read is
  written,   \* number of bytes written
  got,       \* the bytes that were read
  torn,      \* history: Read has seen a length that the buffer never had
  eof        \* what the last Read returned was io.EOF

bufState == <<buffer, off, token, done, mu, wpc, rpc, written, got, torn, eof>>

BufInit ==
  /\ buffer = << >>
  /\ off = FALSE
  /\ token = 0
  /\ done = FALSE
  /\ mu = FALSE
  /\ wpc = "idle"
  /\ rpc = "idle"
  /\ written = 0
  /\ got = << >>
  /\ torn = FALSE
  /\ eof = FALSE

Close ==
  /\ ~mu
  /\ done' = TRUE
  /\ UNCHANGED <<buffer, off, token, mu, wpc, rpc, written, got, torn, eof>>

\* Mutant of WriteNext: Write leaves no token.
WriteNextSilent == "store"

\* Write leaves a token when it finds the buffer empty.
WriteNext == IF buffer = << >> THEN "notify" ELSE "store"

\* Write takes the mutex, and returns if the buffer is closed.
Write ==
  /\ wpc = "idle"
  /\ ~mu
  /\ ~done
  /\ written < MaxBytes
  /\ mu' = TRUE
  /\ wpc' = WriteNext
  /\ UNCHANGED <<buffer, off, token, done, rpc, written, got, torn, eof>>

\* The token for an empty buffer; the mutex is held while update is full.
Notify ==
  /\ wpc = "notify"
  /\ token = 0
  /\ token' = 1
  /\ wpc' = "store"
  /\ UNCHANGED <<buffer, off, done, mu, rpc, written, got, torn, eof>>

\* Mutant of Stored: the buffer is overwritten.
StoredAnew(b, n) == <<n>>

\* The buffer after byte n is written to it.
Stored(b, n) == Append(b, n)

\* buffer.Write, which begins anew in an empty buffer, and moves the bytes to
\* the front when it has to grow.
Store ==
  /\ wpc = "store"
  /\ wpc' = "idle"
  /\ mu' = FALSE
  /\ written' = written + 1
  /\ buffer' = Stored(buffer, written')
  /\ off' \in {FALSE, off /\ buffer # << >>}
  /\ UNCHANGED <<token, done, rpc, got, torn, eof>>

\* Read looks at the buffer without the mutex.  The length is the difference
\* of two words; while buffer.Write moves the bytes to the front, the new
\* length and the old offset may be the same number.
Look ==
  /\ rpc = "idle"
  /\ \/ rpc' = (IF buffer = << >> THEN "wait" ELSE "lock") /\ UNCHANGED torn
     \/ /\ wpc = "store" /\ off /\ buffer # << >>
        /\ rpc' = "wait"
        /\ torn' = TRUE
  /\ UNCHANGED <<buffer, off, token, done, mu, wpc, written, got, eof>>

\* It takes a token, or returns when update is closed and empty.
Wait ==
  /\ rpc = "wait"
  /\ token > 0 \/ done
  /\ token' = 0
  /\ rpc' = IF token > 0 THEN "lock" ELSE "idle"
  /\ eof' = (token = 0)
  /\ UNCHANGED <<buffer, off, done, mu, wpc, written, got, torn>>

\* Read takes up to n bytes; bytes.Buffer says EOF when it is empty.
Read(n) ==
  /\ rpc = "lock"
  /\ ~mu
  /\ rpc' = "idle"
  /\ eof' = (done \/ buffer = << >>)
  /\ IF eof' THEN UNCHANGED <<buffer, off, got>>
     ELSE /\ n <= Len(buffer)
          /\ off' = TRUE
          /\ got' = got \o SubSeq(buffer, 1, n)
          /\ buffer' = SubSeq(buffer, n + 1, Len(buffer))
  /\ UNCHANGED <<token, done, mu, wpc, written, torn>>

WriterStep == Write \/ Notify \/ Store
ReaderStep == Look \/ Wait \/ \E n \in 1 .. MaxBytes : Read(n)

BufNext == Close \/ WriterStep \/ ReaderStep

BufSpec == BufInit /\ [][BufNext]_bufState

\* A Write that has begun goes on, and the reader goes on reading.
BufFairSpec == BufSpec /\ WF_bufState(Notify \/ Store) /\ WF_bufState(ReaderStep)

-----------------------------------------------------------------------------
BufTypeOK ==
  /\ buffer \in Seq(1 .. MaxBytes)
  /\ off \in BOOLEAN
  /\ token \in 0 .. 1
  /\ done \in BOOLEAN
  /\ mu \in BOOLEAN
  /\ wpc \in {"idle", "notify", "store"}
  /\ rpc \in {"idle", "wait", "lock"}
  /\ written \in 0 .. MaxBytes
  /\ got \in Seq(1 .. MaxBytes)
  /\ torn \in BOOLEAN
  /\ eof \in BOOLEAN

(***************************************************************************)
(* What Read returned and what is in the buffer is what was written, in    *)
(* order; and Read says io.EOF for an open buffer only if it took a stale  *)
(* token: then an earlier Read has found the bytes of that Write without   *)
(* it, so that no reader ends before its first byte.                       *)
(***************************************************************************)
NothingLost ==
  /\ got \o buffer = [i \in 1 .. written |-> i]
  /\ eof /\ ~done => Len(got) > 0

(***************************************************************************)
(* Write comes back although it holds the mutex while it waits for room in *)
(* update, as a reader that goes on takes the token that is there; and a   *)
(* written byte is read, unless the buffer is closed: no token is lost,    *)
(* and the reader does not wait while there is data in the buffer.  A torn *)
(* length breaks this: Read then waits for a token that Write does not     *)
(* leave for a buffer with data.                                           *)
(***************************************************************************)
WrittenIsRead ==
  /\ (wpc # "idle") ~> (wpc = "idle")
  /\ \A n \in 1 .. MaxBytes : (written >= n) ~> (Len(got) >= n \/ done \/ torn)
=============================================================================
