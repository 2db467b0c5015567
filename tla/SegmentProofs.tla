--------------------------- MODULE SegmentProofs ----------------------------
(***************************************************************************)
(* Proofs about Segment for every record size, buffer size, segment size   *)
(* and combination of faults.                                              *)
(***************************************************************************)
EXTENDS Segment, TLAPS

(* The part of the inductive invariant that is about one record: where it  *)
(* is, and that its bytes lie within what was written.                     *)
RecordInv ==
    \A r \in recs : /\ r.off = r.pos
                    /\ r.id < next
                    /\ r.pos + r.len <= log.disk + log.buf

(* Ids name records. *)
IdsUnique == \A r, s \in recs : r.id = s.id => r = s

(* What Flush reported durable lies within the fsynced prefix. *)
FlushedSynced ==
    \A i \in flushed : \E r \in recs : r.id = i /\ r.pos + r.len <= log.sync

WriterInv ==
    /\ log.sync <= log.disk
    /\ log.err => log.buf = 0
    /\ ~open => log.buf = 0

LogType ==
    /\ open \in BOOLEAN
    /\ log \in Writer /\ size \in Nat /\ next \in Nat
    /\ recs \subseteq Record
    /\ views \subseteq [off: Nat, len: Nat]
    /\ flushed \subseteq Nat

IdxType ==
    /\ idx \in Writer /\ since \in Nat
    /\ ifile \subseteq Placed /\ entries \in Seq(Entry)
    /\ loaded \in Nat

LogInv ==
    /\ LogType
    /\ WriterInv
    /\ CursorExact
    /\ RecordInv
    /\ IdsUnique
    /\ RecordsApart
    /\ FlushedSynced
    /\ WithinMaxSize
    /\ ViewsReadable

IInv == IdxType /\ LogInv /\ faulted \in BOOLEAN
-----------------------------------------------------------------------------
(* bufio never keeps more than it was given. *)
LEMMA KeptBounds ==
    ASSUME NEW b \in Nat, NEW n \in Nat, NEW cap \in Nat
    PROVE  Kept(b, n, cap) \in Nat /\ Kept(b, n, cap) <= b + n
BY DEF Kept

(* A Write moves bytes from the buffer to the file and loses none. *)
LEMMA PutWriter ==
    ASSUME NEW w \in Writer, NEW n \in Nat, NEW cap \in Nat
    PROVE  /\ Put(w, n, cap) \in Writer
           /\ Put(w, n, cap).disk + Put(w, n, cap).buf = w.disk + w.buf + n
           /\ w.disk <= Put(w, n, cap).disk
           /\ Put(w, n, cap).sync = w.sync
           /\ Put(w, n, cap).err = w.err
<1>1. w.buf \in Nat /\ w.disk \in Nat
  BY DEF Writer
<1>2. Kept(w.buf, n, cap) \in Nat /\ Kept(w.buf, n, cap) <= w.buf + n
  BY <1>1, KeptBounds
<1> DEFINE k == Kept(w.buf, n, cap)
<1> HIDE DEF k
<1>3. Put(w, n, cap) = [disk |-> w.disk + w.buf + n - k, sync |-> w.sync,
                        buf |-> k, err |-> w.err]
  BY DEF Put, k
<1>4. w.sync \in Nat /\ w.err \in BOOLEAN /\ k \in Nat /\ k <= w.buf + n
  BY <1>2 DEF Writer, k
<1>5. QED
  BY <1>1, <1>3, <1>4 DEF Writer

(* The same of the two Writes of a record. *)
LEMMA WriteRecordWriter ==
    ASSUME log \in Writer, NEW n \in Nat
    PROVE  /\ WriteRecord(n) \in Writer
           /\ WriteRecord(n).disk + WriteRecord(n).buf = log.disk + log.buf + HdrSize + n
           /\ log.disk <= WriteRecord(n).disk
           /\ WriteRecord(n).sync = log.sync
           /\ WriteRecord(n).err = log.err
<1> DEFINE h == Put(log, HdrSize, BufCap)
<1>0. HdrSize \in Nat /\ BufCap \in Nat
  BY SegmentAssumption
<1>1. /\ h \in Writer /\ h.disk + h.buf = log.disk + log.buf + HdrSize
      /\ log.disk <= h.disk /\ h.sync = log.sync /\ h.err = log.err
  BY <1>0, PutWriter
<1> HIDE DEF h
<1>2. /\ Put(h, n, BufCap) \in Writer
      /\ Put(h, n, BufCap).disk + Put(h, n, BufCap).buf = h.disk + h.buf + n
      /\ h.disk <= Put(h, n, BufCap).disk
      /\ Put(h, n, BufCap).sync = h.sync /\ Put(h, n, BufCap).err = h.err
  BY <1>0, <1>1, PutWriter
<1>3. WriteRecord(n) = Put(h, n, BufCap)
  BY DEF WriteRecord, h
<1>4. /\ h.disk \in Nat /\ h.buf \in Nat /\ log.disk \in Nat /\ log.buf \in Nat
      /\ Put(h, n, BufCap).disk \in Nat /\ Put(h, n, BufCap).buf \in Nat
  BY <1>1, <1>2 DEF Writer
<1>5. QED
  BY <1>0, <1>1, <1>2, <1>3, <1>4
-----------------------------------------------------------------------------
(* A step that drains the log buffer, with or without an fsync, and leaves  *)
(* the records alone keeps the invariant.                                   *)
LEMMA DrainStep ==
    ASSUME LogInv, open, ~log.err, UNCHANGED <<open, size, recs, next, flushed>>,
           log' = Drain(log) \/ log' = Fsync(Drain(log)),
           views' \subseteq [off: Nat, len: Nat],
           \A v \in views' : v.off + v.len <= log.disk + log.buf
    PROVE  LogInv'
<1>1. /\ log.disk \in Nat /\ log.buf \in Nat /\ log.sync \in Nat
      /\ log.err \in BOOLEAN /\ log.sync <= log.disk
  BY DEF LogInv, LogType, Writer, WriterInv
<1>2. /\ log'.disk = log.disk + log.buf /\ log'.buf = 0 /\ log'.err = log.err
      /\ log'.sync \in Nat /\ log.sync <= log'.sync /\ log'.sync <= log'.disk
      /\ log' \in Writer
  BY <1>1 DEF Drain, Fsync, Writer
<1>3. LogType' /\ WriterInv' /\ CursorExact'
  BY <1>1, <1>2 DEF LogInv, LogType, WriterInv, CursorExact
<1>4. RecordInv' /\ IdsUnique' /\ RecordsApart' /\ WithinMaxSize'
  BY <1>1, <1>2 DEF LogInv, RecordInv, IdsUnique, RecordsApart, WithinMaxSize
<1>5. FlushedSynced'
  BY <1>1, <1>2 DEF LogInv, LogType, Record, FlushedSynced
<1>6. ViewsReadable'
  BY <1>2 DEF ViewsReadable
<1>7. QED
  BY <1>3, <1>4, <1>5, <1>6 DEF LogInv

(* A step that leaves k more bytes of the log, at least the fsynced ones,  *)
(* keeps the invariant: a failed write, a kill or a power loss.            *)
LEMMA CutStep ==
    ASSUME LogInv, NEW k \in Nat, log.sync <= k, k <= MaxSize,
           log' \in Writer, log'.disk = k, log'.buf = 0,
           log'.sync <= k, log.sync <= log'.sync,
           recs' = WholeRecs(k),
           open' \in BOOLEAN, size' \in Nat, open' => log'.err,
           views' \subseteq views, views' # {} => log.disk <= k,
           UNCHANGED <<next, flushed>>
    PROVE  LogInv'
<1>1. log.disk \in Nat /\ log.buf \in Nat /\ log.sync \in Nat /\ log'.sync \in Nat
  BY DEF LogInv, LogType, Writer
<1>2. recs' \subseteq recs /\ \A r \in recs' : r.pos + r.len <= k
  BY DEF WholeRecs
<1>3. LogType' /\ WriterInv' /\ CursorExact'
  BY <1>1, <1>2 DEF LogInv, LogType, WriterInv, CursorExact
<1>4. RecordInv' /\ IdsUnique' /\ RecordsApart' /\ WithinMaxSize'
  BY <1>1, <1>2 DEF LogInv, RecordInv, IdsUnique, RecordsApart, WithinMaxSize
<1>5. FlushedSynced'
  BY <1>1 DEF LogInv, LogType, Record, FlushedSynced, WholeRecs
<1>6. ViewsReadable'
  BY <1>1 DEF LogInv, LogType, ViewsReadable
<1>7. QED
  BY <1>3, <1>4, <1>5, <1>6 DEF LogInv

(* An Append that reaches the log keeps the invariant, whatever becomes of *)
(* the index entry.                                                        *)
LEMMA AppendStep ==
    ASSUME LogInv, NEW n \in Nat, NEW ok \in BOOLEAN, AppendRecord(n, ok)
    PROVE  LogInv'
<1> DEFINE new == NewRecord(n, ok)
<1>1. /\ log.disk \in Nat /\ log.buf \in Nat /\ log.sync \in Nat /\ size \in Nat
      /\ HdrSize \in Nat /\ next \in Nat /\ log \in Writer /\ MaxSize \in Nat
      /\ log.sync <= log.disk
  BY SegmentAssumption DEF LogInv, LogType, Writer, WriterInv
<1>2. size = log.disk + log.buf
  BY DEF LogInv, CursorExact, AppendRecord
<1>3. /\ log' \in Writer /\ log'.disk + log'.buf = size + HdrSize + n
      /\ log.disk <= log'.disk /\ log'.sync = log.sync /\ log'.err = log.err
  BY <1>1, <1>2, WriteRecordWriter DEF AppendRecord
<1>3a. log'.disk \in Nat /\ log'.buf \in Nat
  BY <1>3 DEF Writer
<1>4. /\ new \in Record /\ new.id = next /\ new.off = size /\ new.pos = size
      /\ new.len = HdrSize + n
  BY <1>1, <1>2 DEF NewRecord, Record
<1>5. recs' = recs \cup {new} /\ next' = next + 1 /\ size' = size + HdrSize + n
      /\ open /\ ~log.err /\ open' = open /\ views' = views /\ flushed' = flushed
      /\ size + HdrSize + n <= MaxSize
  BY DEF AppendRecord
<1> HIDE DEF new
<1>6. LogType'
  BY <1>1, <1>3, <1>4, <1>5 DEF LogInv, LogType
<1>7. WriterInv' /\ CursorExact' /\ WithinMaxSize'
  BY <1>1, <1>3, <1>3a, <1>5 DEF LogInv, WriterInv, CursorExact, WithinMaxSize
<1>8. \A r \in recs : r.pos \in Nat /\ r.len \in Nat /\ r.id \in Nat /\ r.off = r.pos
                      /\ r.id < next /\ r.pos + r.len <= size
  BY <1>2 DEF LogInv, LogType, Record, RecordInv
<1>9. RecordInv'
  BY <1>1, <1>3, <1>4, <1>5, <1>8 DEF RecordInv
<1>10. IdsUnique'
  BY <1>1, <1>4, <1>5, <1>8 DEF LogInv, IdsUnique
<1>11. RecordsApart'
  BY <1>1, <1>4, <1>5, <1>8 DEF LogInv, RecordsApart
<1>12. FlushedSynced'
  BY <1>3, <1>5 DEF LogInv, FlushedSynced
<1>13. ViewsReadable'
  BY <1>1, <1>3, <1>3a, <1>5 DEF LogInv, LogType, ViewsReadable
<1>14. QED
  BY <1>6, <1>7, <1>9, <1>10, <1>11, <1>12, <1>13 DEF LogInv

(* A failed write of the log keeps the invariant: at most the bytes it was *)
(* given reach the file.                                                   *)
LEMMA FailStep ==
    ASSUME LogInv, NEW k \in Nat, LogFails(k), log.disk + k <= MaxSize
    PROVE  LogInv'
<1>1. log.disk \in Nat /\ log.sync \in Nat /\ log.sync <= log.disk /\ size \in Nat
  BY DEF LogInv, LogType, Writer, WriterInv
<1>2. /\ log' \in Writer /\ log'.disk = log.disk + k /\ log'.buf = 0
      /\ log'.sync = log.sync /\ log'.err
  BY <1>1 DEF LogFails, Fail, Writer
<1>3. recs' = WholeRecs(log.disk + k) /\ UNCHANGED <<open, size, next, views, flushed>>
  BY DEF LogFails
<1>4. QED
  BY <1>1, <1>2, <1>3, CutStep DEF LogInv, LogType

(* OpenSegment resumes at the end of the file, and keeps the invariant. *)
LEMMA OpenStep ==
    ASSUME LogInv, OpenSegment
    PROVE  LogInv'
<1>1. /\ log.disk \in Nat /\ log.sync \in Nat /\ log.sync <= log.disk
      /\ log.buf = 0
  BY DEF LogInv, LogType, Writer, WriterInv, OpenSegment
<1>2. /\ log' \in Writer /\ log'.disk = log.disk /\ log'.buf = 0
      /\ log'.sync = log.sync /\ log'.err = FALSE
  BY <1>1 DEF OpenSegment, Reopen, Writer
<1>3. open' = TRUE /\ size' = log.disk /\ UNCHANGED <<recs, next, views, flushed>>
  BY DEF OpenSegment
<1>4. QED
  BY <1>1, <1>2, <1>3 DEF LogInv, LogType, WriterInv, CursorExact, RecordInv,
     IdsUnique, RecordsApart, FlushedSynced, WithinMaxSize, ViewsReadable

(* Flush, which fsyncs what it has drained, keeps the invariant. *)
LEMMA FlushStep ==
    ASSUME LogInv, Flush
    PROVE  LogInv'
<1>1. /\ log.disk \in Nat /\ log.buf \in Nat /\ log.sync \in Nat
      /\ log.err \in BOOLEAN
  BY DEF LogInv, LogType, Writer
<1>2. /\ log' \in Writer /\ log'.disk = log.disk + log.buf /\ log'.buf = 0
      /\ log'.sync = log'.disk /\ log'.err = log.err
  BY <1>1 DEF Flush, Drain, Fsync, Writer
<1>3. /\ flushed' = {r.id : r \in recs} /\ open /\ ~log.err
      /\ UNCHANGED <<open, size, recs, next, views>>
  BY DEF Flush
<1>4. LogType' /\ WriterInv' /\ CursorExact'
  BY <1>1, <1>2, <1>3 DEF LogInv, LogType, Record, WriterInv, CursorExact
<1>5. RecordInv' /\ IdsUnique' /\ RecordsApart' /\ WithinMaxSize'
  BY <1>1, <1>2, <1>3 DEF LogInv, RecordInv, IdsUnique, RecordsApart, WithinMaxSize
<1>6. FlushedSynced'
  BY <1>1, <1>2, <1>3 DEF LogInv, RecordInv, FlushedSynced
<1>7. ViewsReadable'
  BY <1>1, <1>2, <1>3 DEF LogInv, LogType, ViewsReadable
<1>8. QED
  BY <1>4, <1>5, <1>6, <1>7 DEF LogInv

(* Close drains the log and drops the object, and keeps the invariant. *)
LEMMA CloseStep ==
    ASSUME LogInv, Close
    PROVE  LogInv'
<1>1. /\ log.disk \in Nat /\ log.buf \in Nat /\ log.sync \in Nat
      /\ log.err \in BOOLEAN /\ log.sync <= log.disk
  BY DEF LogInv, LogType, Writer, WriterInv
<1>2. /\ log' \in Writer /\ log'.disk = log.disk + log.buf /\ log'.buf = 0
      /\ log'.sync = log.sync
  BY <1>1 DEF Close, Drain, Writer
<1>3. /\ open' = FALSE /\ size' = 0 /\ views' = {}
      /\ UNCHANGED <<recs, next, flushed>>
  BY DEF Close, Gone
<1>4. LogType' /\ CursorExact' /\ ViewsReadable'
  BY <1>2, <1>3 DEF LogInv, LogType, CursorExact, ViewsReadable
<1>4a. WriterInv'
  BY <1>1, <1>2 DEF WriterInv
<1>5. RecordInv' /\ IdsUnique' /\ RecordsApart' /\ WithinMaxSize' /\ FlushedSynced'
  BY <1>1, <1>2, <1>3 DEF LogInv, RecordInv, IdsUnique, RecordsApart,
     WithinMaxSize, FlushedSynced
<1>6. QED
  BY <1>4, <1>4a, <1>5 DEF LogInv

(* A killed process leaves the invariant true of what is in the file. *)
LEMMA KillStep ==
    ASSUME LogInv, Kill
    PROVE  LogInv'
<1>1. /\ log.disk \in Nat /\ log.sync \in Nat /\ log.sync <= log.disk
      /\ log.buf \in Nat /\ log.disk + log.buf <= MaxSize /\ MaxSize \in Nat
  BY SegmentAssumption DEF LogInv, LogType, Writer, WriterInv, WithinMaxSize
<1>2. /\ log' \in Writer /\ log'.disk = log.disk /\ log'.buf = 0
      /\ log'.sync = log.sync
  BY <1>1 DEF Kill, Reopen, Writer
<1>3. /\ recs' = WholeRecs(log.disk) /\ open' = FALSE /\ size' = 0 /\ views' = {}
      /\ UNCHANGED <<next, flushed>>
  BY DEF Kill, Gone
<1>4. log.disk <= MaxSize
  BY <1>1
<1>5. open' \in BOOLEAN /\ size' \in Nat /\ ~open' /\ views' \subseteq views
  BY <1>3
<1>6. QED
  BY <1>1, <1>2, <1>3, <1>4, <1>5, CutStep

(* So does a power loss, which keeps at least what was fsynced. *)
LEMMA PowerLossStep ==
    ASSUME LogInv, PowerLoss
    PROVE  LogInv'
<1>1. /\ log.disk \in Nat /\ log.sync \in Nat /\ log.sync <= log.disk
      /\ log.buf \in Nat /\ log.disk + log.buf <= MaxSize /\ MaxSize \in Nat
  BY SegmentAssumption DEF LogInv, LogType, Writer, WriterInv, WithinMaxSize
<1>2. PICK k \in log.sync..log.disk : log' = Truncated(k) /\ recs' = WholeRecs(k)
  BY DEF PowerLoss
<1>3. k \in Nat /\ log.sync <= k /\ k <= log.disk /\ k <= MaxSize
  BY <1>1, <1>2
<1>4. log' \in Writer /\ log'.disk = k /\ log'.buf = 0 /\ log'.sync = k
  BY <1>2, <1>3 DEF Truncated, Writer
<1>5. /\ open' = FALSE /\ size' = 0 /\ views' = {}
      /\ UNCHANGED <<next, flushed>>
  BY DEF PowerLoss, Gone
<1>6. open' \in BOOLEAN /\ size' \in Nat /\ ~open' /\ views' \subseteq views
  BY <1>5
<1>7. log.sync <= log'.sync /\ log'.sync <= k
  BY <1>3, <1>4
<1>8. QED
  BY <1>2, <1>3, <1>4, <1>5, <1>6, <1>7, CutStep
-----------------------------------------------------------------------------
(* A write of the index that fails, or a crash, leaves a typed index. *)
LEMMA FailedIndexTyped ==
    ASSUME IdxType, NEW k \in Nat
    PROVE  /\ Fail(idx, k) \in Writer /\ Reopen(idx) \in Writer
           /\ Drain(idx) \in Writer /\ Fsync(Drain(idx)) \in Writer
           /\ Truncated(k) \in Writer
           /\ \A m : WholeEntries(m) \subseteq Placed
           /\ <<>> \in Seq(Entry)
<1>1. idx.disk \in Nat /\ idx.sync \in Nat /\ idx.buf \in Nat /\ idx.err \in BOOLEAN
  BY DEF IdxType, Writer
<1>2. QED
  BY <1>1 DEF IdxType, Writer, Fail, Reopen, Drain, Fsync, Truncated, WholeEntries

(* What loadEntries reads is a sequence of entries. *)
LEMMA LoadedTyped ==
    ASSUME IdxType, NEW junk \in [Misaligned -> Junk]
    PROVE  loadEntries(junk) \in Seq(Entry)
<1>1. idx.disk \in Nat /\ EntrySize \in Nat \ {0} /\ Junk \subseteq Entry
  BY SegmentAssumption DEF IdxType, Writer, Entry
<1>2. idx.disk \div EntrySize \in Nat
  BY <1>1
<1> DEFINE Load(c) == IF c \in Misaligned THEN junk[c]
                      ELSE LET e == CHOOSE e \in EntriesAt(c) : TRUE
                           IN  [off |-> e.off, pos |-> e.pos]
<1>3. ASSUME NEW c \in Chunks PROVE Load(c) \in Entry
  <2>1. CASE c \in Misaligned
    BY <2>1, <1>1
  <2>2. CASE c \notin Misaligned
    <3> DEFINE e == CHOOSE e \in EntriesAt(c) : TRUE
    <3>1. EntriesAt(c) # {}
      BY <2>2 DEF Misaligned
    <3>2. e \in EntriesAt(c)
      BY <3>1
    <3>3. e \in Placed
      BY <3>2 DEF EntriesAt, IdxType
    <3>4. QED
      BY <2>2, <3>3 DEF Placed, Entry
  <2>3. QED
    BY <2>1, <2>2
<1>4. loadEntries(junk) = [c \in 1..(idx.disk \div EntrySize) |-> Load(c)]
  BY DEF loadEntries, Chunks
<1>5. \A c \in 1..(idx.disk \div EntrySize) : Load(c) \in Entry
  BY <1>3 DEF Chunks
<1> HIDE DEF Load
<1>6. QED
  BY <1>2, <1>4, <1>5

(* A new index entry keeps the index typed. *)
LEMMA EntryTyped ==
    ASSUME IdxType, LogType, NEW n \in Nat, AppendWithEntry(n)
    PROVE  IdxType'
<1>1. /\ idx.disk \in Nat /\ idx.buf \in Nat /\ size \in Nat
      /\ EntrySize \in Nat /\ IdxBufCap \in Nat /\ PosMod \in Nat \ {0}
  BY SegmentAssumption DEF IdxType, LogType, Writer
<1>2. idx' \in Writer
  BY <1>1, PutWriter DEF AppendWithEntry, IdxType
<1>3. size % PosMod \in Nat
  BY <1>1
<1>4. NewEntry \in Entry
  BY <1>1, <1>3 DEF NewEntry, Entry
<1>5. entries' \in Seq(Entry)
  BY <1>4 DEF AppendWithEntry, IdxType
<1>6. ifile' \subseteq Placed
  <2>1. [at |-> idx.disk + idx.buf, off |-> NewEntry.off, pos |-> NewEntry.pos] \in Placed
    BY <1>1, <1>4 DEF Entry, Placed
  <2>2. QED
    BY <2>1 DEF AppendWithEntry, IdxType
<1>7. since' \in Nat /\ loaded' \in Nat
  BY DEF AppendWithEntry, IdxType
<1>8. QED
  BY <1>2, <1>5, <1>6, <1>7 DEF IdxType

(* A failed index write leaves the index well typed. *)
LEMMA EntryFailsTyped ==
    ASSUME IdxType, NEW n \in Nat, AppendEntryFails(n)
    PROVE  IdxType'
<1>1. since' \in Nat /\ loaded' \in Nat
  BY SegmentAssumption DEF AppendEntryFails, IdxType
<1>2. idx.disk \in Nat /\ Put(idx, EntrySize, IdxBufCap).disk \in Nat
  BY SegmentAssumption, PutWriter DEF IdxType, Writer
<1>3. idx' \in Writer /\ ifile' \subseteq Placed
  <2>1. CASE UNCHANGED <<idx, ifile>>
    BY <2>1 DEF IdxType
  <2>2. CASE \E k \in 0..(Put(idx, EntrySize, IdxBufCap).disk - idx.disk - 1) :
                 idx' = Fail(idx, k) /\ ifile' = WholeEntries(idx.disk + k)
    <3>1. PICK k \in Nat : idx' = Fail(idx, k) /\ ifile' = WholeEntries(idx.disk + k)
      BY <2>2, <1>2
    <3>2. QED
      BY <3>1, FailedIndexTyped
  <2>3. QED
    BY <2>1, <2>2 DEF AppendEntryFails
<1>4. QED
  BY <1>1, <1>3 DEF AppendEntryFails, IdxType

(* The remaining operations leave the index typed. *)
LEMMA IndexStep ==
    ASSUME IInv, OpenSegment \/ Flush \/ FlushFails \/ Close \/ Kill \/ PowerLoss
    PROVE  IdxType'
<1>0. /\ IdxType /\ idx.disk \in Nat /\ idx.buf \in Nat /\ idx.sync \in Nat
      /\ since \in Nat /\ 0 \in Nat
  BY DEF IInv, IdxType, Writer
<1>f. ASSUME NEW k \in 0..(idx.buf - 1),
             idx' = Fail(idx, k) /\ ifile' = WholeEntries(idx.disk + k)
      PROVE  idx' \in Writer /\ ifile' \subseteq Placed
  <2>1. k \in Nat
    BY <1>0
  <2>2. QED
    BY <1>0, <1>f, <2>1, FailedIndexTyped
<1>1. CASE OpenSegment
  <2>1. PICK junk \in [Misaligned -> Junk] : entries' = loadEntries(junk)
    BY <1>1 DEF OpenSegment
  <2>2. entries' \in Seq(Entry)
    BY <1>0, <2>1, LoadedTyped
  <2>3. loaded' \in Nat
    <3>1. idx.disk \in Nat /\ EntrySize \in Nat \ {0}
      BY <1>0, SegmentAssumption
    <3>2. idx.disk \div EntrySize \in Nat
      BY <3>1
    <3>3. QED
      BY <1>1, <3>2 DEF OpenSegment
  <2>4. QED
    BY <1>0, <1>1, <2>2, <2>3, FailedIndexTyped DEF OpenSegment, IdxType
<1>2. CASE Flush
  BY <1>0, <1>2, FailedIndexTyped DEF Flush, IdxType
<1>3. CASE FlushFails
  <2>1. idx' \in Writer /\ ifile' \subseteq Placed
    BY <1>0, <1>3, <1>f, FailedIndexTyped DEF FlushFails, IdxType
  <2>2. QED
    BY <1>0, <1>3, <2>1 DEF FlushFails, IdxType
<1>4. CASE Close
  <2>1. idx' \in Writer /\ ifile' \subseteq Placed
    BY <1>0, <1>4, <1>f, FailedIndexTyped DEF Close, IdxType
  <2>2. QED
    BY <1>0, <1>4, <2>1, FailedIndexTyped DEF Close, Gone, IdxType
<1>5. CASE Kill
  BY <1>0, <1>5, FailedIndexTyped DEF Kill, Gone, IdxType
<1>6. CASE PowerLoss
  <2>1. PICK k \in idx.sync..idx.disk : idx' = Truncated(k) /\ ifile' = WholeEntries(k)
    BY <1>6 DEF PowerLoss
  <2>2. k \in Nat
    BY <1>0, <2>1
  <2>3. QED
    BY <1>0, <1>6, <2>1, <2>2, FailedIndexTyped DEF PowerLoss, Gone, IdxType
<1>7. QED
  BY <1>1, <1>2, <1>3, <1>4, <1>5, <1>6
-----------------------------------------------------------------------------
(* The invariant holds before the segment is first opened. *)
LEMMA InitInv == Init => IInv
<1> SUFFICES ASSUME Init PROVE IInv
  OBVIOUS
<1>1. /\ open = FALSE /\ size = 0 /\ recs = {} /\ next = 0 /\ views = {} /\ flushed = {}
      /\ log.disk = 0 /\ log.sync = 0 /\ log.buf = 0 /\ log.err = FALSE
      /\ log \in Writer /\ idx \in Writer /\ 0 \in Nat /\ MaxSize \in Nat
  BY SegmentAssumption DEF Init, NewFile, Writer
<1>2. IdxType
  BY <1>1 DEF Init, IdxType
<1>3. LogType /\ CursorExact
  BY <1>1 DEF LogType, CursorExact
<1>3a. WriterInv
  <2>1. log.sync <= log.disk
    BY <1>1
  <2>2. QED
    BY <1>1, <2>1 DEF WriterInv
<1>4. /\ RecordInv /\ IdsUnique /\ RecordsApart /\ FlushedSynced
      /\ WithinMaxSize /\ ViewsReadable
  BY <1>1 DEF RecordInv, IdsUnique, RecordsApart, FlushedSynced, WithinMaxSize,
     ViewsReadable
<1>5. faulted \in BOOLEAN
  BY DEF Init
<1>6. QED
  BY <1>2, <1>3, <1>3a, <1>4, <1>5 DEF IInv, LogInv

(* A fault is remembered. *)
LEMMA FaultedStep ==
    ASSUME faulted \in BOOLEAN, [Next]_vars
    PROVE  faulted' \in BOOLEAN /\ (faulted => faulted')
BY Zenon DEF Next, vars, OpenSegment, AppendNoEntry, AppendWithEntry, AppendEntryFails,
   AppendFails, DrainFails, LogFails, Flush, FlushFails, Read, ReadAt, Close, Kill, PowerLoss

(* Every operation and every fault keeps the invariant. *)
LEMMA NextInv == IInv /\ [Next]_vars => IInv'
<1> SUFFICES ASSUME IInv, [Next]_vars PROVE IInv'
  OBVIOUS
<1>0. /\ LogInv /\ IdxType /\ LogType
      /\ log.disk \in Nat /\ log.buf \in Nat /\ log \in Writer
      /\ size \in Nat /\ since \in Nat /\ MaxSize \in Nat
      /\ HdrSize \in Nat /\ Payloads \subseteq Nat
      /\ log.disk + log.buf <= MaxSize
  BY SegmentAssumption DEF IInv, LogInv, LogType, IdxType, Writer, WithinMaxSize
<1>f. faulted' \in BOOLEAN
  BY FaultedStep DEF IInv
<1>1. CASE OpenSegment
  BY <1>f, <1>0, <1>1, OpenStep, IndexStep DEF IInv
<1>2. ASSUME NEW n \in Payloads, AppendNoEntry(n) PROVE IInv'
  <2>1. LogInv'
    BY <1>0, <1>2, AppendStep DEF AppendNoEntry
  <2>2. IdxType'
    BY <1>0, <1>2 DEF AppendNoEntry, IdxType
  <2>3. QED
    BY <1>f, <2>1, <2>2 DEF IInv
<1>3. ASSUME NEW n \in Payloads, AppendWithEntry(n) PROVE IInv'
  <2>1. LogInv'
    BY <1>0, <1>3, AppendStep DEF AppendWithEntry
  <2>2. QED
    BY <1>f, <1>0, <1>3, <2>1, EntryTyped DEF IInv
<1>4. ASSUME NEW n \in Payloads, AppendEntryFails(n) PROVE IInv'
  <2>1. LogInv'
    BY <1>0, <1>4, AppendStep DEF AppendEntryFails
  <2>2. QED
    BY <1>f, <1>0, <1>4, <2>1, EntryFailsTyped DEF IInv
<1>5. ASSUME NEW n \in Payloads, AppendFails(n) PROVE IInv'
  <2>1. PICK k \in 0..(WriteRecord(n).disk - log.disk - 1) : LogFails(k)
    BY <1>5 DEF AppendFails
  <2>2. n \in Nat /\ size + HdrSize + n <= MaxSize /\ size = log.disk + log.buf
    BY <1>0, <1>5, <2>1 DEF AppendFails, LogFails, LogInv, CursorExact
  <2>3. /\ WriteRecord(n).disk \in Nat /\ WriteRecord(n).buf \in Nat
        /\ WriteRecord(n).disk + WriteRecord(n).buf = log.disk + log.buf + HdrSize + n
    BY <1>0, <2>2, WriteRecordWriter DEF Writer
  <2>4. k \in Nat /\ log.disk + k <= MaxSize
    BY <1>0, <2>1, <2>2, <2>3
  <2>5. QED
    BY <1>f, <1>0, <2>1, <2>4, FailStep DEF IInv, LogFails, idxVars, IdxType
<1>6. CASE DrainFails
  <2>1. PICK k \in 0..(log.buf - 1) : LogFails(k)
    BY <1>6 DEF DrainFails
  <2>2. k \in Nat /\ log.disk + k <= MaxSize
    BY <1>0
  <2>3. QED
    BY <1>f, <1>0, <2>1, <2>2, FailStep DEF IInv, LogFails, idxVars, IdxType
<1>7. CASE Flush
  BY <1>f, <1>0, <1>7, FlushStep, IndexStep DEF IInv
<1>v. \A v \in views : v.off + v.len <= log.disk + log.buf
  BY <1>0 DEF LogInv, LogType, ViewsReadable
<1>8. CASE FlushFails
  <2>1. LogInv'
    BY <1>0, <1>v, <1>8, DrainStep DEF FlushFails, LogType
  <2>2. QED
    BY <1>f, <1>8, <2>1, IndexStep DEF IInv
<1>9. ASSUME NEW off \in Nat, NEW len \in Nat, Read(off, len) PROVE IInv'
  <2>1. /\ size = log.disk + log.buf /\ open /\ ~log.err /\ off + len <= size
        /\ UNCHANGED <<open, size, recs, next, idxVars, flushed>>
        /\ views' = views \cup {[off |-> off, len |-> len]} /\ log' = Drain(log)
    BY <1>0, <1>9 DEF Read, LogInv, CursorExact
  <2>2. views' \subseteq [off: Nat, len: Nat]
    BY <1>0, <2>1 DEF LogType
  <2>3. \A v \in views' : v.off + v.len <= log.disk + log.buf
    BY <1>v, <2>1
  <2>4. LogInv'
    BY <1>0, <2>1, <2>2, <2>3, DrainStep
  <2>5. QED
    BY <1>f, <1>0, <2>1, <2>4 DEF IInv, idxVars, IdxType
<1>10. CASE ReadAt
  <2>1. LogInv'
    BY <1>0, <1>v, <1>10, DrainStep DEF ReadAt, LogType
  <2>2. QED
    BY <1>f, <1>0, <1>10, <2>1 DEF ReadAt, IInv, idxVars, IdxType
<1>11. CASE Close
  BY <1>f, <1>0, <1>11, CloseStep, IndexStep DEF IInv
<1>12. CASE Kill
  BY <1>f, <1>0, <1>12, KillStep, IndexStep DEF IInv
<1>13. CASE PowerLoss
  BY <1>f, <1>0, <1>13, PowerLossStep, IndexStep DEF IInv
<1>14. CASE UNCHANGED vars
  BY <1>f, <1>14 DEF vars, logVars, idxVars, IInv, IdxType, LogInv, LogType, WriterInv,
     CursorExact, RecordInv, IdsUnique, RecordsApart, FlushedSynced,
     WithinMaxSize, ViewsReadable
<1>15. ASSUME NEW w \in Windows, Read(w[1], w[2]) PROVE IInv'
  BY <1>9, <1>15, SegmentAssumption
<1>16. QED
  BY <1>1, <1>2, <1>3, <1>4, <1>5, <1>6, <1>7, <1>8, <1>10, <1>11, <1>12,
     <1>13, <1>14, <1>15 DEF Next

(* The inductive invariant holds in every state of a segment, whatever the
   sizes, the buffers and the faults. *)
THEOREM Invariance == Spec => []IInv
BY InitInv, NextInv, PTL DEF Spec

(* The module's type invariant. *)
THEOREM TypeCorrect == Spec => []TypeOK
<1>1. IInv => TypeOK
  BY DEF IInv, IdxType, LogInv, LogType, TypeOK
<1>2. QED
  BY <1>1, Invariance, PTL

(* Whatever has crashed, been torn or failed before, an Append returns the *)
(* place of its record.                                                    *)
THEOREM OffsetsAreExact == Spec => []AppendOffsetExact
<1>1. IInv => AppendOffsetExact
  BY DEF IInv, LogInv, RecordInv, AppendOffsetExact
<1>2. QED
  BY <1>1, Invariance, PTL

(* A resumed Segment's cursor is the end of the file. *)
THEOREM CursorIsExact == Spec => []CursorExact
<1>1. IInv => CursorExact
  BY DEF IInv, LogInv
<1>2. QED
  BY <1>1, Invariance, PTL

(* No record is ever written over. *)
THEOREM RecordsStayApart == Spec => []RecordsApart
<1>1. IInv => RecordsApart
  BY DEF IInv, LogInv
<1>2. QED
  BY <1>1, Invariance, PTL

(* The file never outgrows MaxSize. *)
THEOREM SizeIsBounded == Spec => []WithinMaxSize
<1>1. IInv => WithinMaxSize
  BY DEF IInv, LogInv
<1>2. QED
  BY <1>1, Invariance, PTL

(* What a successful Flush covered is there for good. *)
THEOREM FlushIsDurable == Spec => []FlushedSurvive
<1>1. IInv => FlushedSurvive
  BY DEF IInv, LogInv, FlushedSynced, FlushedSurvive
<1>2. QED
  BY <1>1, Invariance, PTL

(* A reader that Read handed out can read its whole window. *)
THEOREM ViewsStayReadable == Spec => []ViewsReadable
<1>1. IInv => ViewsReadable
  BY DEF IInv, LogInv
<1>2. QED
  BY <1>1, Invariance, PTL
-----------------------------------------------------------------------------
Present == {r.id : r \in recs}
Acked == {r.id : r \in {s \in recs : s.ok}}

(* Losing all records but those in the first k bytes is losing a tail. *)
LEMMA CutRefines ==
    ASSUME LogInv, NEW k \in Nat, log.sync <= k, recs' = WholeRecs(k),
           UNCHANGED flushed
    PROVE  Abstract!LoseTail
<1>1. \A r \in recs : r.id \in Nat /\ r.pos \in Nat /\ r.len \in Nat
  BY DEF LogInv, LogType, Record
<1>1a. log.sync \in Nat
  BY DEF LogInv, LogType, Writer
<1>2. recs' \subseteq recs
  BY DEF WholeRecs
<1> DEFINE kept == {r.id : r \in recs'}
<1>3. kept \subseteq Present
  BY <1>2 DEF Present
<1>4. flushed \subseteq kept
  <2> SUFFICES ASSUME NEW i \in flushed PROVE i \in kept
    OBVIOUS
  <2>1. PICK r \in recs : r.id = i /\ r.pos + r.len <= log.sync
    BY DEF LogInv, FlushedSynced
  <2>2. r \in recs'
    BY <1>1, <1>1a, <2>1 DEF WholeRecs
  <2>3. QED
    BY <2>1, <2>2
<1>5. \A i \in kept, j \in Present \ kept : i < j
  <2> SUFFICES ASSUME NEW i \in kept, NEW j \in Present \ kept PROVE i < j
    OBVIOUS
  <2>1. PICK r \in recs' : r.id = i
    OBVIOUS
  <2>2. PICK s \in recs : s.id = j
    BY DEF Present
  <2>3. s \notin recs'
    BY <2>2
  <2>4. r \in recs /\ r.pos + r.len <= k /\ ~(s.pos + s.len <= k)
    BY <2>3 DEF WholeRecs
  <2>5. s.id < r.id => s.pos + s.len <= r.pos
    BY <2>4 DEF LogInv, RecordsApart
  <2>6. s.id # r.id
    BY <2>3, <2>4 DEF LogInv, IdsUnique
  <2>7. QED
    BY <1>1, <2>1, <2>2, <2>4, <2>5, <2>6
<1>6. Acked' = Acked \cap kept
  <2>1. \A r, s \in recs : r.id = s.id => r = s
    BY DEF LogInv, IdsUnique
  <2>2. QED
    BY <1>2, <2>1 DEF Acked
<1>7. kept \in SUBSET Present /\ Present' = kept
  BY <1>3 DEF Present
<1>8. QED
  BY <1>4, <1>5, <1>6, <1>7 DEF Abstract!LoseTail, Present, Acked

(* Segment.Append is an append, or a stutter, of the abstract log. *)
LEMMA AppendRefines ==
    ASSUME LogInv, NEW n \in Nat, NEW ok \in BOOLEAN, AppendRecord(n, ok)
    PROVE  Abstract!AppendNew
<1> DEFINE new == NewRecord(n, ok)
<1>1. recs' = recs \cup {new} /\ new.id = next /\ new.ok = ok /\ flushed' = flushed
  BY DEF AppendRecord, NewRecord
<1>2. next \in 0..MaxAppends
  BY SegmentAssumption DEF AppendRecord, LogInv, LogType
<1>3. \A j \in Present : j < next
  BY DEF LogInv, RecordInv, Present
<1> HIDE DEF new
<1>4. Present' = Present \cup {next}
  BY <1>1 DEF Present
<1>5. Acked' = Acked \/ Acked' = Acked \cup {next}
  <2>1. CASE ok
    BY <1>1, <2>1 DEF Acked
  <2>2. CASE ~ok
    BY <1>1, <2>2 DEF Acked
  <2>3. QED
    BY <2>1, <2>2
<1>6. QED
  BY <1>1, <1>2, <1>3, <1>4, <1>5 DEF Abstract!AppendNew, Present, Acked

(* Each step of the segment is a step of the abstract log or changes       *)
(* nothing that the abstract log shows.                                    *)
LEMMA StepRefines == IInv /\ [Next]_vars => [Abstract!Next]_(Abstract!vars)
<1> SUFFICES ASSUME IInv, [Next]_vars PROVE [Abstract!Next]_(Abstract!vars)
  OBVIOUS
<1>0. /\ LogInv /\ Payloads \subseteq Nat
      /\ log.disk \in Nat /\ log.buf \in Nat /\ log.sync \in Nat
      /\ log.sync <= log.disk
  BY SegmentAssumption DEF IInv, LogInv, LogType, Writer, WriterInv
<1>s. ASSUME UNCHANGED <<recs, flushed>> PROVE UNCHANGED Abstract!vars
  BY <1>s DEF Abstract!vars
<1>1. CASE OpenSegment \/ FlushFails \/ ReadAt \/ Close \/ UNCHANGED vars
  BY <1>1, <1>s DEF OpenSegment, FlushFails, ReadAt, Close, vars, logVars
<1>2. ASSUME NEW off, NEW len, Read(off, len) PROVE UNCHANGED Abstract!vars
  BY <1>2, <1>s DEF Read
<1>3. ASSUME NEW n \in Payloads, AppendNoEntry(n) \/ AppendWithEntry(n)
      PROVE  Abstract!AppendNew
  BY <1>0, <1>3, AppendRefines DEF AppendNoEntry, AppendWithEntry
<1>4. ASSUME NEW n \in Payloads, AppendEntryFails(n)
      PROVE  Abstract!AppendNew
  BY <1>0, <1>4, AppendRefines DEF AppendEntryFails
<1>5. ASSUME NEW k \in Nat, LogFails(k) PROVE Abstract!LoseTail
  <2>1. log.disk + k \in Nat /\ log.sync <= log.disk + k
    BY <1>0
  <2>2. QED
    BY <1>0, <1>5, <2>1, CutRefines DEF LogFails
<1>6. ASSUME NEW n \in Payloads, AppendFails(n) PROVE Abstract!LoseTail
  <2>1. PICK k \in 0..(WriteRecord(n).disk - log.disk - 1) : LogFails(k)
    BY <1>6 DEF AppendFails
  <2>2. WriteRecord(n).disk \in Nat
    BY <1>0, WriteRecordWriter DEF LogInv, LogType, Writer
  <2>3. k \in Nat
    BY <1>0, <2>2
  <2>4. QED
    BY <1>5, <2>1, <2>3
<1>7. CASE DrainFails
  <2>1. PICK k \in 0..(log.buf - 1) : LogFails(k)
    BY <1>7 DEF DrainFails
  <2>2. k \in Nat
    BY <1>0
  <2>3. Abstract!LoseTail
    BY <1>5, <2>1, <2>2
  <2>4. QED
    BY <2>3 DEF Abstract!Next
<1>8. CASE Flush
  BY <1>8 DEF Flush, Abstract!Next, Abstract!Sync
<1>9. CASE Kill
  BY <1>0, <1>9, CutRefines DEF Kill, Abstract!Next
<1>10. CASE PowerLoss
  <2>1. PICK k \in log.sync..log.disk : recs' = WholeRecs(k)
    BY <1>10 DEF PowerLoss
  <2>2. k \in Nat /\ log.sync <= k
    BY <1>0, <2>1
  <2>3. QED
    BY <1>0, <1>10, <2>1, <2>2, CutRefines DEF PowerLoss, Abstract!Next
<1>11. QED
  BY <1>1, <1>2, <1>3, <1>4, <1>6, <1>7, <1>8, <1>9, <1>10 DEF Next, Abstract!Next

(* The segment, its crashes and failing files included, implements an      *)
(* append-only log that loses only its newest unflushed records.           *)
THEOREM SegmentImplementsLog == Spec => RefinesAbstractLog
<1>1. Init => Abstract!Init
  BY DEF Init, Abstract!Init
<1>2. QED
  BY <1>1, StepRefines, Invariance, PTL DEF Spec, RefinesAbstractLog, Abstract!Spec
=============================================================================
