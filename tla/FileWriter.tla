----------------------------- MODULE FileWriter -----------------------------
(***************************************************************************)
(* The Go runtime pieces every file of the log is written through: an      *)
(* *os.File opened with O_APPEND behind a bufio.Writer (external code,     *)
(* modelled from how segment.go and index.go use it).  Only lengths are    *)
(* kept; what the bytes are is recorded by the modules that use a writer.  *)
(*   disk  bytes the operating system has, the length Stat reports         *)
(*   sync  bytes an fsync has made durable                                 *)
(*   buf   bytes still in the bufio buffer                                 *)
(*   err   bufio's sticky error: once set every Write and Flush fails      *)
(***************************************************************************)
EXTENDS Integers

Writer == [disk: Nat, sync: Nat, buf: Nat, err: BOOLEAN]

NewFile == [disk |-> 0, sync |-> 0, buf |-> 0, err |-> FALSE]

(* What a Write of n bytes leaves in a buffer of cap bytes that held b: it *)
(* fits, or the buffer is filled and flushed and the rest is buffered, or  *)
(* what is left is larger than the buffer and goes straight to the file.   *)
Kept(b, n, cap) ==
    IF n <= cap - b THEN b + n
    ELSE IF b > 0 /\ n - (cap - b) <= cap THEN n - (cap - b)
    ELSE 0

Put(w, n, cap) ==
    LET kept == Kept(w.buf, n, cap)
    IN  [disk |-> w.disk + w.buf + n - kept, sync |-> w.sync,
         buf |-> kept, err |-> w.err]

Drain(w) == [disk |-> w.disk + w.buf, sync |-> w.sync, buf |-> 0, err |-> w.err]

Fsync(w) == [disk |-> w.disk, sync |-> w.disk, buf |-> w.buf, err |-> w.err]

(* A write(2) that came up short after k more bytes: what is still in the  *)
(* buffer can never reach the file through this writer again.              *)
Fail(w, k) == [disk |-> w.disk + k, sync |-> w.sync, buf |-> 0, err |-> TRUE]

(* The writer a new open of the same file starts with. *)
Reopen(w) == [disk |-> w.disk, sync |-> w.sync, buf |-> 0, err |-> FALSE]

(* What a power loss that keeps the first k bytes leaves of a file. *)
Truncated(k) == [disk |-> k, sync |-> k, buf |-> 0, err |-> FALSE]
=============================================================================
