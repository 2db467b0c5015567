------------------------------ MODULE Segment -------------------------------
(***************************************************************************)
(* One log segment with its sparse index (internal/storage/segment.go and  *)
(* index.go): the .log file, the .index file, the Segment object that      *)
(* writes them, and what a failed write, a killed process and a power loss *)
(* leave behind.  Every method runs under Segment.mu, so each is one step. *)
(***************************************************************************)
EXTENDS Sequences, FiniteSets, FileWriter

CONSTANTS
    HdrSize,     \* recordHeaderSize
    Payloads,    \* payload lengths offered to Append
    MaxSize,     \* SegmentConfig.MaxSize
    BufCap,      \* writeBufferSize
    Interval,    \* IndexIntervalBytes
    EntrySize,   \* indexEntrySize
    IdxBufCap,   \* indexWriteBufferSize
    PosMod,      \* 2^32: an index position is a uint32
    Windows,     \* the offsets and lengths that Read is called with
    Junk,        \* entries that a misaligned index read may decode
    Faults,      \* subset of {"kill", "power", "log", "idx"}
    MaxAppends,  \* bound on the records appended
    MaxViews     \* bound on the readers outstanding

ASSUME SegmentAssumption ==
    /\ HdrSize \in Nat \ {0} /\ Payloads \subseteq Nat /\ MaxSize \in Nat
    /\ BufCap \in Nat /\ Interval \in Nat /\ IdxBufCap \in Nat
    /\ EntrySize \in Nat \ {0} /\ PosMod \in Nat \ {0} /\ MaxAppends \in Nat /\ MaxViews \in Nat
    /\ Windows \subseteq Nat \X Nat
    /\ Junk \subseteq [off: Nat, pos: Nat]

VARIABLES
    open,     \* a Segment object has the files open
    log,      \* the .log file and its writer
    size,     \* Segment.size, the write cursor
    recs,     \* the whole records in the file and the buffer
    next,     \* id of the next record
    idx,      \* the .index file and its writer
    ifile,    \* the whole entries in the index file and its buffer
    entries,  \* Index.entries, the entries held in memory
    since,    \* Index.bytesWrittenSinceLastEntry
    loaded,   \* history: how many of entries loadEntries has read
    faulted,  \* history: a write has failed or a process has been killed
    views,    \* readers handed out by Read
    flushed   \* records present when the last Flush returned nil

logVars == <<log, size, recs, next>>
idxVars == <<idx, ifile, entries, since, loaded>>
vars == <<open, logVars, idxVars, faulted, views, flushed>>

(* pos is where the record's header is, off what Append returned, ok        *)
(* whether Append returned nil.                                             *)
Record == [id: Nat, pos: Nat, off: Nat, len: Nat, ok: BOOLEAN]
Placed == [at: Nat, off: Nat, pos: Nat]
Entry == [off: Nat, pos: Nat]

TypeOK ==
    /\ open \in BOOLEAN
    /\ log \in Writer /\ size \in Nat /\ next \in Nat
    /\ recs \subseteq Record
    /\ idx \in Writer /\ since \in Nat
    /\ ifile \subseteq Placed /\ entries \in Seq(Entry)
    /\ loaded \in Nat /\ faulted \in BOOLEAN
    /\ views \subseteq [off: Nat, len: Nat]
    /\ flushed \subseteq Nat

Init ==
    /\ open = FALSE
    /\ log = NewFile /\ size = 0 /\ recs = {} /\ next = 0
    /\ idx = NewFile /\ ifile = {} /\ entries = <<>> /\ since = 0
    /\ loaded = 0 /\ faulted = FALSE
    /\ views = {} /\ flushed = {}

(* The records, and the index entries, that lie within the first k bytes. *)
WholeRecs(k) == {r \in recs : r.pos + r.len <= k}
WholeEntries(k) == {e \in ifile : e.at + EntrySize <= k}

-----------------------------------------------------------------------------
(* loadEntries: the file is cut in chunks of EntrySize bytes and a partial *)
(* tail is dropped.  A chunk that no entry starts at decodes to junk.      *)
EntriesAt(c) == {e \in ifile : e.at = (c - 1) * EntrySize}
Chunks == 1..(idx.disk \div EntrySize)
Misaligned == {c \in Chunks : EntriesAt(c) = {}}

loadEntries(junk) ==
    [c \in Chunks |->
        IF c \in Misaligned THEN junk[c]
        ELSE LET e == CHOOSE e \in EntriesAt(c) : TRUE
             IN  [off |-> e.off, pos |-> e.pos]]

(* Mutant: the file is opened without O_APPEND. *)
OpenSegmentNoAppend ==
    /\ ~open
    /\ open' = TRUE
    /\ log' = NewFile /\ size' = 0
    /\ idx' = Reopen(idx) /\ since' = 0
    /\ \E junk \in [Misaligned -> Junk] : entries' = loadEntries(junk)
    /\ loaded' = idx.disk \div EntrySize
    /\ UNCHANGED <<recs, next, ifile, faulted, views, flushed>>

(* OpenSegment: the cursor resumes at the length of the file. *)
OpenSegment ==
    /\ ~open
    /\ open' = TRUE
    /\ log' = Reopen(log) /\ size' = log.disk
    /\ idx' = Reopen(idx) /\ since' = 0
    /\ \E junk \in [Misaligned -> Junk] : entries' = loadEntries(junk)
    /\ loaded' = idx.disk \div EntrySize
    /\ UNCHANGED <<recs, next, ifile, faulted, views, flushed>>

-----------------------------------------------------------------------------
(* The header and the payload go to the bufio.Writer in two Writes. *)
WriteRecord(n) == Put(Put(log, HdrSize, BufCap), n, BufCap)

(* Mutant: the offset returned is the payload's. *)
NewRecordPayload(n, ok) ==
    [id |-> next, pos |-> log.disk + log.buf, off |-> size + HdrSize,
     len |-> HdrSize + n, ok |-> ok]

NewRecord(n, ok) ==
    [id |-> next, pos |-> log.disk + log.buf, off |-> size,
     len |-> HdrSize + n, ok |-> ok]

(* Segment.Append's log part: the guard is the ErrSegmentFull check. *)
AppendRecord(n, ok) ==
    /\ open /\ ~log.err
    /\ next < MaxAppends
    /\ size + HdrSize + n <= MaxSize
    /\ log' = WriteRecord(n)
    /\ size' = size + HdrSize + n
    /\ recs' = recs \cup {NewRecord(n, ok)}
    /\ next' = next + 1
    /\ UNCHANGED <<open, views, flushed>>

(* Index.maybeAppend counts the record's bytes, then writes an entry when  *)
(* the interval is reached.                                                *)
EntryDue(n) == since + HdrSize + n >= Interval

(* Mutants: the entry's position is short of the record, or past its header. *)
NewEntryBefore == [off |-> size, pos |-> size - HdrSize]
NewEntryPast == [off |-> size, pos |-> (size + HdrSize) % PosMod]

NewEntry == [off |-> size, pos |-> size % PosMod]

AppendNoEntry(n) ==
    /\ AppendRecord(n, TRUE)
    /\ ~EntryDue(n)
    /\ since' = since + HdrSize + n
    /\ UNCHANGED <<idx, ifile, entries, loaded, faulted>>

AppendWithEntry(n) ==
    /\ AppendRecord(n, TRUE)
    /\ EntryDue(n) /\ ~idx.err
    /\ idx' = Put(idx, EntrySize, IdxBufCap)
    /\ ifile' = ifile \cup {[at |-> idx.disk + idx.buf, off |-> NewEntry.off,
                             pos |-> NewEntry.pos]}
    /\ entries' = Append(entries, NewEntry)
    /\ since' = 0
    /\ UNCHANGED <<loaded, faulted>>

(* The index write fails after the record is in the log: Append returns an *)
(* error but the record stays, and the counter is not reset.               *)
AppendEntryFails(n) ==
    /\ AppendRecord(n, FALSE)
    /\ EntryDue(n)
    /\ \/ idx.err /\ UNCHANGED <<idx, ifile>>
       \/ /\ ~idx.err /\ "idx" \in Faults
          /\ \E k \in 0..(Put(idx, EntrySize, IdxBufCap).disk - idx.disk - 1) :
               /\ idx' = Fail(idx, k)
               /\ ifile' = WholeEntries(idx.disk + k)
    /\ since' = since + HdrSize + n
    /\ faulted' = TRUE
    /\ UNCHANGED <<entries, loaded>>

(* A write of the log file fails: k bytes reached the file, Append returns *)
(* before it moves the cursor, and the writer is dead.                     *)
LogFails(k) ==
    /\ open /\ ~log.err /\ "log" \in Faults
    /\ log' = Fail(log, k)
    /\ recs' = WholeRecs(log.disk + k) /\ faulted' = TRUE
    /\ UNCHANGED <<open, size, next, idxVars, views, flushed>>

AppendFails(n) ==
    /\ size + HdrSize + n <= MaxSize
    /\ next < MaxAppends
    /\ \E k \in 0..(WriteRecord(n).disk - log.disk - 1) : LogFails(k)

(* Flush of the buffer, by Flush, Read, ReadAt or Close, fails half way. *)
DrainFails == \E k \in 0..(log.buf - 1) : LogFails(k)
-----------------------------------------------------------------------------
(* Mutants: no fsync; fsync before the buffer is written. *)
FlushNoSync ==
    /\ open /\ ~log.err /\ ~idx.err
    /\ log' = Drain(log) /\ idx' = Fsync(Drain(idx))
    /\ flushed' = {r.id : r \in recs}
    /\ UNCHANGED <<open, size, recs, next, ifile, entries, since, loaded, faulted, views>>
FlushSyncFirst ==
    /\ open /\ ~log.err /\ ~idx.err
    /\ log' = Drain(Fsync(log)) /\ idx' = Fsync(Drain(idx))
    /\ flushed' = {r.id : r \in recs}
    /\ UNCHANGED <<open, size, recs, next, ifile, entries, since, loaded, faulted, views>>

(* Flush: log buffer, log fsync, index buffer, index fsync; the first that *)
(* fails ends it with an error.                                            *)
Flush ==
    /\ open /\ ~log.err /\ ~idx.err
    /\ log' = Fsync(Drain(log)) /\ idx' = Fsync(Drain(idx))
    /\ flushed' = {r.id : r \in recs}
    /\ UNCHANGED <<open, size, recs, next, ifile, entries, since, loaded, faulted, views>>

(* The log's fsync fails, or the index cannot be flushed or synced after it. *)
FlushFails ==
    /\ open /\ ~log.err
    /\ \/ "log" \in Faults /\ log' = Drain(log) /\ UNCHANGED <<idx, ifile>>
       \/ idx.err /\ log' = Fsync(Drain(log)) /\ UNCHANGED <<idx, ifile>>
       \/ /\ ~idx.err /\ "idx" \in Faults /\ log' = Fsync(Drain(log))
          /\ \/ idx' = Drain(idx) /\ UNCHANGED ifile
             \/ \E k \in 0..(idx.buf - 1) :
                  idx' = Fail(idx, k) /\ ifile' = WholeEntries(idx.disk + k)
    /\ faulted' = TRUE
    /\ UNCHANGED <<open, size, recs, next, entries, since, loaded, views, flushed>>

(* Mutant: the buffer is not drained. *)
ReadBuffered(off, len) ==
    /\ open /\ ~log.err
    /\ len > 0 /\ off < size /\ off + len <= size
    /\ Cardinality(views) < MaxViews
    /\ views' = views \cup {[off |-> off, len |-> len]}
    /\ UNCHANGED <<open, log, size, recs, next, idxVars, faulted, flushed>>

(* Read: the window must lie within what was appended; the buffer is       *)
(* drained so that the reader, used after the lock is released, sees it.   *)
Read(off, len) ==
    /\ open /\ ~log.err
    /\ len > 0 /\ off < size /\ off + len <= size
    /\ Cardinality(views) < MaxViews
    /\ log' = Drain(log)
    /\ views' = views \cup {[off |-> off, len |-> len]}
    /\ UNCHANGED <<open, size, recs, next, idxVars, faulted, flushed>>

(* ReadAt drains the buffer and reads the record at an offset; what it     *)
(* finds there is stated by AppendOffsetExact.                             *)
ReadAt ==
    /\ open /\ ~log.err /\ log.buf > 0
    /\ log' = Drain(log)
    /\ UNCHANGED <<open, size, recs, next, idxVars, faulted, views, flushed>>

(* The Segment object, its readers and its memory are gone. *)
Gone ==
    /\ open' = FALSE /\ size' = 0 /\ views' = {}
    /\ entries' = <<>> /\ since' = 0 /\ loaded' = 0

(* Close: the log is drained and closed, then the index.  When the index   *)
(* cannot be flushed Close returns an error with the log already closed.   *)
Close ==
    /\ open /\ ~log.err
    /\ log' = Drain(log)
    /\ \/ ~idx.err /\ idx' = Drain(idx) /\ UNCHANGED <<ifile, faulted>>
       \/ idx.err /\ UNCHANGED <<idx, ifile, faulted>>
       \/ /\ ~idx.err /\ "idx" \in Faults
          /\ \E k \in 0..(idx.buf - 1) :
               idx' = Fail(idx, k) /\ ifile' = WholeEntries(idx.disk + k)
          /\ faulted' = TRUE
    /\ Gone
    /\ UNCHANGED <<recs, next, flushed>>
-----------------------------------------------------------------------------
(* The process is killed: what the operating system had stays. *)
Kill ==
    /\ "kill" \in Faults /\ open
    /\ log' = Reopen(log) /\ recs' = WholeRecs(log.disk)
    /\ idx' = Reopen(idx) /\ ifile' = WholeEntries(idx.disk)
    /\ Gone /\ faulted' = TRUE
    /\ UNCHANGED <<next, flushed>>

(* The machine loses power: of each file any prefix that holds at least    *)
(* what was fsynced stays.                                                 *)
PowerLoss ==
    /\ "power" \in Faults
    /\ \E k \in log.sync..log.disk :
         log' = Truncated(k) /\ recs' = WholeRecs(k)
    /\ \E k \in idx.sync..idx.disk :
         idx' = Truncated(k) /\ ifile' = WholeEntries(k)
    /\ Gone /\ faulted' = TRUE
    /\ UNCHANGED <<next, flushed>>

Next ==
    \/ OpenSegment
    \/ \E n \in Payloads :
         AppendNoEntry(n) \/ AppendWithEntry(n) \/ AppendEntryFails(n) \/ AppendFails(n)
    \/ DrainFails
    \/ Flush \/ FlushFails
    \/ \E w \in Windows : Read(w[1], w[2])
    \/ ReadAt
    \/ Close
    \/ Kill \/ PowerLoss

Spec == Init /\ [][Next]_vars
-----------------------------------------------------------------------------
(* While the Segment is usable its cursor is the length of the file plus   *)
(* what is buffered, through every crash, resume and failed index write.   *)
CursorExact == open /\ ~log.err => size = log.disk + log.buf

(* The offset Append returned is where the record's length field is, for   *)
(* every record that a crash has not taken, whichever process wrote it     *)
(* ("so readers can seek directly to any previously appended record").     *)
AppendOffsetExact == \A r \in recs : r.off = r.pos

(* No append, of this process or of one that resumed a torn file, writes   *)
(* over a record that is still whole, and records lie in append order.     *)
RecordsApart ==
    \A r, s \in recs : r.id < s.id => r.pos + r.len <= s.pos

(* Neither a torn write nor a resumed file makes the file outgrow MaxSize. *)
WithinMaxSize == log.disk + log.buf <= MaxSize

(* A record that was there when Flush returned nil survives every crash,   *)
(* power loss and failed write that follows.                               *)
FlushedSurvive == flushed \subseteq {r.id : r \in recs}

(* The window of a reader that Read handed out is in the file, and stays   *)
(* there while later appends, flushes and failures go on.                  *)
ViewsReadable == \A v \in views : v.off + v.len <= log.disk

(* The segment implements the abstract log: crashes, torn writes and a     *)
(* failing index included.                                                 *)
Abstract ==
    INSTANCE AbstractLog
    WITH Ids <- 0..MaxAppends,
         present <- {r.id : r \in recs},
         acked <- {r.id : r \in {s \in recs : s.ok}},
         durable <- flushed

RefinesAbstractLog == Abstract!Spec
-----------------------------------------------------------------------------
(* Mutant: the target's own entry is passed over. *)
LookupBelow(target) ==
    LET n == Len(entries)
        search[v \in [lo: 1..(n + 1), hi: 0..n, result: 0..n]] ==
            IF v.lo > v.hi THEN v.result
            ELSE LET mid == (v.lo + v.hi) \div 2
                 IN  IF entries[mid].off < target
                     THEN search[[lo |-> mid + 1, hi |-> v.hi, result |-> mid]]
                     ELSE search[[lo |-> v.lo, hi |-> mid - 1, result |-> v.result]]
    IN  search[[lo |-> 1, hi |-> n, result |-> 0]]

(* Index.Lookup's binary search; 0 stands for ErrOffsetNotFound. *)
Lookup(target) ==
    LET n == Len(entries)
        search[v \in [lo: 1..(n + 1), hi: 0..n, result: 0..n]] ==
            IF v.lo > v.hi THEN v.result
            ELSE LET mid == (v.lo + v.hi) \div 2
                 IN  IF entries[mid].off <= target
                     THEN search[[lo |-> mid + 1, hi |-> v.hi, result |-> mid]]
                     ELSE search[[lo |-> v.lo, hi |-> mid - 1, result |-> v.result]]
    IN  search[[lo |-> 1, hi |-> n, result |-> 0]]

(* The entries of the index that the log is known to back: those that this *)
(* process made, and the ones it loaded too while nothing has failed yet.  *)
Sure == {i \in 1..Len(entries) : faulted => i > loaded}

(* A sure entry gives the offset and the position of a record that is in   *)
(* the log, and sure entries lie in increasing order.                      *)
IndexSound ==
    open /\ ~log.err =>
      /\ \A i \in Sure : \E r \in recs : entries[i] = [off |-> r.off, pos |-> r.pos]
      /\ \A i, j \in Sure : i < j => entries[i].off < entries[j].off

(* The same of every entry, those of earlier processes included. *)
IndexBacked ==
    open => \A i \in 1..Len(entries) :
              \E r \in recs : entries[i] = [off |-> r.off, pos |-> r.pos]

(* Over sure entries Lookup finds the largest indexed offset that is not   *)
(* beyond the target, and so never sends the caller past the record it     *)
(* wants.                                                                  *)
LookupIsFloor ==
    open /\ Sure = 1..Len(entries) =>
      \A t \in 0..MaxSize :
        LET below == {i \in 1..Len(entries) : entries[i].off <= t}
        IN  IF below = {} THEN Lookup(t) = 0
            ELSE /\ Lookup(t) \in below
                 /\ \A i \in below : entries[i].off <= entries[Lookup(t)].off
=============================================================================
