---------------------------- MODULE IndexProofs -----------------------------
(***************************************************************************)
(* Proofs about the sparse index of Segment: what its entries point to,    *)
(* for every size, buffer, index interval and combination of faults, as    *)
(* long as a position fits the uint32 of an entry.                         *)
(***************************************************************************)
EXTENDS SegmentProofs, SumProofs

Backed(e) == \E r \in recs : e.off = r.off /\ e.pos = r.pos

(* Records are not empty: they have at least their length field. *)
NonEmpty == \A r \in recs : r.len > 0

(* Until something fails the index file and its buffer are a whole number  *)
(* of entries, one at every multiple of EntrySize, in the order of the     *)
(* records they name.                                                      *)
Whole == \E q \in Nat : /\ idx.disk + idx.buf = q * EntrySize
                        /\ \A c \in 1..q : EntriesAt(c) # {}

FileInv ==
    /\ ~log.err /\ ~idx.err /\ (~open => idx.buf = 0)
    /\ Whole
    /\ \A e \in ifile : Backed(e) /\ e.at < idx.disk + idx.buf
    /\ \A e, f \in ifile : e.at < f.at => e.off < f.off

IndexInv ==
    /\ NonEmpty
    /\ IndexSound
    /\ ~faulted => FileInv
-----------------------------------------------------------------------------
(* The arithmetic of chunks. *)
LEMMA ChunkCount ==
    ASSUME NEW q \in Nat, NEW e \in Nat \ {0}
    PROVE  (q * e) \div e = q
OBVIOUS

LEMMA ChunkOrder ==
    ASSUME NEW i \in Nat, NEW j \in Nat, i < j, NEW e \in Nat \ {0}
    PROVE  i * e < j * e /\ (i + 1) * e = i * e + e
OBVIOUS
-----------------------------------------------------------------------------
(* A step that leaves the records and the entries alone keeps the          *)
(* invariant, when it moves index bytes from the buffer to the file at     *)
(* most, or is a fault.                                                    *)
LEMMA QuietStep ==
    ASSUME IndexInv, UNCHANGED <<recs, entries, loaded, open>>, faulted => faulted',
           log'.err = log.err,
           ~faulted' => /\ ifile' = ifile /\ idx'.err = idx.err
                        /\ idx'.disk + idx'.buf = idx.disk + idx.buf
                        /\ ~open' => idx'.buf = 0
    PROVE  IndexInv'
<1>1. NonEmpty' /\ IndexSound'
  BY DEF IndexInv, NonEmpty, IndexSound, Sure
<1>2. ASSUME ~faulted' PROVE FileInv'
  BY <1>2 DEF IndexInv, FileInv, Whole, EntriesAt, Backed
<1>3. QED
  BY <1>1, <1>2 DEF IndexInv

(* A fault after which the segment is not usable keeps the invariant. *)
LEMMA DownStep ==
    ASSUME IndexInv, faulted', recs' \subseteq recs, ~open' \/ log'.err
    PROVE  IndexInv'
BY DEF IndexInv, NonEmpty, IndexSound

(* Close leaves a file of whole entries, unless it fails. *)
LEMMA CloseIndex ==
    ASSUME IInv, IndexInv, Close
    PROVE  IndexInv'
<1>1. /\ recs' = recs /\ ~open' /\ idx.disk \in Nat /\ idx.buf \in Nat
      /\ log'.err = log.err
  BY DEF Close, Gone, Drain, IInv, IdxType, Writer
<1>1a. faulted => faulted'
  BY DEF Close
<1>2. NonEmpty' /\ IndexSound'
  BY <1>1 DEF IndexInv, NonEmpty, IndexSound
<1>3. ASSUME ~faulted' PROVE FileInv'
  <2>1. FileInv
    BY <1>1a, <1>3 DEF IndexInv
  <2>2. idx' = Drain(idx) /\ ifile' = ifile
    BY <1>3, <2>1 DEF Close, FileInv
  <2>3. idx'.disk + idx'.buf = idx.disk + idx.buf /\ idx'.err = idx.err /\ idx'.buf = 0
    BY <1>1, <2>2 DEF Drain
  <2>4. QED
    BY <1>1, <2>1, <2>2, <2>3 DEF FileInv, Whole, EntriesAt, Backed
<1>4. QED
  BY <1>2, <1>3 DEF IndexInv

(* What loadEntries reads from a file of whole entries are these entries,  *)
(* in their order.                                                         *)
LEMMA LoadedSound ==
    ASSUME IInv, FileInv, ~open, NEW junk \in [Misaligned -> Junk]
    PROVE  /\ \A i \in 1..Len(loadEntries(junk)) :
                 \E r \in recs : loadEntries(junk)[i] = [off |-> r.off, pos |-> r.pos]
           /\ \A i, j \in 1..Len(loadEntries(junk)) :
                 i < j => loadEntries(junk)[i].off < loadEntries(junk)[j].off
<1>0. EntrySize \in Nat \ {0} /\ idx.disk \in Nat /\ idx.buf = 0
  BY SegmentAssumption DEF IInv, IdxType, Writer, FileInv
<1>1. PICK q \in Nat : idx.disk = q * EntrySize /\ \A c \in 1..q : EntriesAt(c) # {}
  <2>1. PICK p \in Nat : /\ idx.disk + idx.buf = p * EntrySize
                         /\ \A c \in 1..p : EntriesAt(c) # {}
    BY DEF FileInv, Whole
  <2>2. idx.disk = p * EntrySize
    BY <1>0, <2>1
  <2>3. QED
    BY <2>1, <2>2
<1>2. Chunks = 1..q
  BY <1>0, <1>1, ChunkCount DEF Chunks
<1>3. Misaligned = {}
  BY <1>1, <1>2 DEF Misaligned
<1> DEFINE at(c) == CHOOSE e \in EntriesAt(c) : TRUE
<1>4. \A c \in 1..q : at(c) \in EntriesAt(c)
  BY <1>1
<1>5. \A c \in 1..q : at(c) \in ifile /\ at(c).at = (c - 1) * EntrySize
  BY <1>4 DEF EntriesAt
<1>6. loadEntries(junk) = [c \in 1..q |-> [off |-> at(c).off, pos |-> at(c).pos]]
  BY <1>2, <1>3 DEF loadEntries
<1> HIDE DEF at
<1>7. Len(loadEntries(junk)) = q
  BY <1>6
<1>8. ASSUME NEW i \in 1..q
      PROVE  \E r \in recs : loadEntries(junk)[i] = [off |-> r.off, pos |-> r.pos]
  <2>1. PICK r \in recs : at(i).off = r.off /\ at(i).pos = r.pos
    BY <1>5 DEF FileInv, Backed
  <2>2. QED
    BY <1>6, <2>1
<1>9. ASSUME NEW i \in 1..q, NEW j \in 1..q, i < j
      PROVE  loadEntries(junk)[i].off < loadEntries(junk)[j].off
  <2>1. i - 1 \in Nat /\ j - 1 \in Nat /\ i - 1 < j - 1
    BY <1>9
  <2>2. (i - 1) * EntrySize < (j - 1) * EntrySize
    BY <1>0, <2>1, ChunkOrder
  <2>3. at(i).off < at(j).off
    BY <1>5, <2>2 DEF FileInv
  <2>4. QED
    BY <1>6, <2>3
<1>10. QED
  BY <1>7, <1>8, <1>9

(* OpenSegment *)
LEMMA OpenIndex ==
    ASSUME IInv, IndexInv, OpenSegment
    PROVE  IndexInv'
<1>1. PICK junk \in [Misaligned -> Junk] : entries' = loadEntries(junk)
  BY DEF OpenSegment
<1>2. /\ UNCHANGED <<recs, ifile, faulted>> /\ idx' = Reopen(idx) /\ ~open /\ open'
      /\ loaded' = idx.disk \div EntrySize /\ log' = Reopen(log)
      /\ idx.disk \in Nat /\ EntrySize \in Nat \ {0}
  BY SegmentAssumption DEF OpenSegment, IInv, IdxType, Writer
<1>3. loaded' \in Nat /\ Len(entries') = loaded'
  <2>1. idx.disk \div EntrySize \in Nat
    BY <1>2
  <2>2. Len(loadEntries(junk)) = idx.disk \div EntrySize
    BY <2>1 DEF loadEntries, Chunks
  <2>3. QED
    BY <1>1, <1>2, <2>1, <2>2
<1>4. NonEmpty'
  BY <1>2 DEF IndexInv, NonEmpty
<1>5. CASE faulted
  <2>1. Sure' = {}
    BY <1>2, <1>3, <1>5 DEF Sure
  <2>2. QED
    BY <1>2, <1>4, <1>5, <2>1 DEF IndexInv, IndexSound
<1>6. CASE ~faulted
  <2>1. FileInv
    BY <1>6 DEF IndexInv
  <2>2. IndexSound'
    BY <1>1, <1>2, <2>1, LoadedSound DEF IndexSound, Sure
  <2>3. idx'.disk = idx.disk /\ idx'.buf = 0 /\ idx'.err = FALSE /\ log'.err = FALSE
    BY <1>2 DEF Reopen
  <2>4. idx.buf = 0
    BY <1>2, <2>1 DEF FileInv
  <2>5. FileInv'
    BY <1>2, <2>1, <2>3, <2>4 DEF FileInv, Whole, EntriesAt, Backed
  <2>6. QED
    BY <1>4, <2>2, <2>5 DEF IndexInv
<1>7. QED
  BY <1>5, <1>6
-----------------------------------------------------------------------------
(* Append puts its record at the cursor, past every other. *)
LEMMA AppendFacts ==
    ASSUME IInv, IndexInv, NEW n \in Nat, NEW ok \in BOOLEAN, AppendRecord(n, ok)
    PROVE  /\ NonEmpty' /\ recs \subseteq recs' /\ open /\ open' /\ ~log.err /\ ~log'.err
           /\ \E r \in recs' : r.off = size /\ r.pos = size
           /\ \A r \in recs : r.off \in Nat /\ r.off < size
           /\ size \in Nat /\ size < MaxSize
<1>1. /\ log \in Writer /\ log.disk \in Nat /\ log.buf \in Nat /\ size \in Nat
      /\ HdrSize \in Nat \ {0} /\ MaxSize \in Nat /\ size = log.disk + log.buf
  BY SegmentAssumption DEF IInv, LogInv, LogType, Writer, CursorExact, AppendRecord
<1>2. /\ recs' = recs \cup {NewRecord(n, ok)} /\ open /\ open' /\ ~log.err
      /\ size + HdrSize + n <= MaxSize /\ log' = WriteRecord(n)
  BY DEF AppendRecord
<1>3. ~log'.err
  BY <1>1, <1>2, WriteRecordWriter
<1>4. /\ NewRecord(n, ok).off = size /\ NewRecord(n, ok).pos = size
      /\ NewRecord(n, ok).len = HdrSize + n
  BY <1>1 DEF NewRecord
<1>5. ASSUME NEW r \in recs PROVE r.off \in Nat /\ r.off < size
  <2>1. r.pos \in Nat /\ r.len \in Nat /\ r.len > 0 /\ r.off = r.pos
        /\ r.pos + r.len <= size
    BY <1>1 DEF IInv, LogInv, LogType, Record, RecordInv, IndexInv, NonEmpty
  <2>2. QED
    BY <1>1, <2>1
<1>6. NonEmpty'
  BY <1>1, <1>2, <1>4 DEF IndexInv, NonEmpty
<1>7. QED
  BY <1>1, <1>2, <1>3, <1>4, <1>5, <1>6

(* An Append that adds no entry, for none is due or its write failed. *)
LEMMA AppendOnly ==
    ASSUME IInv, IndexInv, NEW n \in Nat, AppendNoEntry(n) \/ AppendEntryFails(n)
    PROVE  IndexInv'
<1>1. /\ NonEmpty' /\ recs \subseteq recs' /\ open /\ open' /\ ~log.err /\ ~log'.err
      /\ UNCHANGED <<entries, loaded>>
  <2>1. CASE AppendNoEntry(n)
    BY <2>1, AppendFacts DEF AppendNoEntry
  <2>2. CASE AppendEntryFails(n)
    BY <2>2, AppendFacts DEF AppendEntryFails
  <2>3. QED
    BY <2>1, <2>2
<1>1a. faulted => faulted'
  BY DEF AppendNoEntry, AppendEntryFails
<1>2. IndexSound'
  BY <1>1, <1>1a DEF IndexInv, IndexSound, Sure
<1>3. ASSUME ~faulted' PROVE FileInv'
  <2>1. FileInv /\ UNCHANGED <<idx, ifile>>
    BY <1>1a, <1>3 DEF IndexInv, AppendNoEntry, AppendEntryFails
  <2>2. QED
    BY <1>1, <2>1 DEF FileInv, Whole, EntriesAt, Backed
<1>4. QED
  BY <1>1, <1>2, <1>3 DEF IndexInv

(* The position of a record fits the uint32 of an entry. *)
LEMMA PositionFits ==
    ASSUME NEW s \in Nat, NEW m \in Nat, s < m
    PROVE  s % m = s
OBVIOUS

(* An Append with an entry for its record. *)
LEMMA AppendEntry ==
    ASSUME MaxSize <= PosMod, IInv, IndexInv, NEW n \in Nat, AppendWithEntry(n)
    PROVE  IndexInv'
<1>1. /\ NonEmpty' /\ recs \subseteq recs' /\ open /\ open' /\ ~log.err /\ ~log'.err
      /\ \A r \in recs : r.off \in Nat /\ r.off < size
      /\ size \in Nat /\ size < MaxSize
  BY AppendFacts DEF AppendWithEntry
<1>2. PICK new \in recs' : new.off = size /\ new.pos = size
  BY AppendFacts DEF AppendWithEntry
<1>3. NewEntry = [off |-> size, pos |-> size]
  <2>1. PosMod \in Nat /\ MaxSize \in Nat /\ size < PosMod
    BY <1>1, SegmentAssumption
  <2>2. QED
    BY <1>1, <2>1, PositionFits DEF NewEntry
<1>4. /\ entries' = Append(entries, NewEntry) /\ UNCHANGED <<loaded, faulted>>
      /\ entries \in Seq(Entry) /\ loaded \in Nat
      /\ idx' = Put(idx, EntrySize, IdxBufCap)
      /\ ifile' = ifile \cup {[at |-> idx.disk + idx.buf, off |-> size, pos |-> size]}
  BY <1>3 DEF AppendWithEntry, IInv, IdxType
<1> DEFINE k == Len(entries)
<1>5. /\ k \in Nat /\ Len(entries') = k + 1 /\ entries'[k + 1] = [off |-> size, pos |-> size]
      /\ \A i \in 1..k : entries'[i] = entries[i]
  BY <1>3, <1>4
<1> HIDE DEF k
<1>6. \A i \in Sure' : i \in Sure \/ i = k + 1
  BY <1>4, <1>5 DEF Sure, k
<1>7. \A i \in Sure : i \in 1..k /\ \E r \in recs : entries[i] = [off |-> r.off, pos |-> r.pos]
  BY <1>1 DEF IndexInv, IndexSound, Sure, k
<1>8. IndexSound'
  <2>1. ASSUME NEW i \in Sure'
        PROVE  \E r \in recs' : entries'[i] = [off |-> r.off, pos |-> r.pos]
    <3>1. CASE i = k + 1
      BY <1>2, <1>5, <3>1
    <3>2. CASE i \in Sure
      BY <1>1, <1>5, <1>7, <3>2
    <3>3. QED
      BY <1>6, <3>1, <3>2
  <2>2. ASSUME NEW i \in Sure', NEW j \in Sure', i < j
        PROVE  entries'[i].off < entries'[j].off
    <3>1. j \in 1..(k + 1) /\ i \in 1..(k + 1)
      BY <1>5 DEF Sure
    <3>2. i \in Sure
      BY <1>5, <1>6, <2>2, <3>1
    <3>3. CASE j = k + 1
      <4>1. PICK r \in recs : entries[i] = [off |-> r.off, pos |-> r.pos]
        BY <1>7, <3>2
      <4>2. entries'[i] = entries[i] /\ entries'[j] = [off |-> size, pos |-> size]
        BY <1>5, <1>7, <3>2, <3>3
      <4>2a. entries'[i].off = r.off /\ entries'[j].off = size
        BY <4>1, <4>2
      <4>3. QED
        BY <1>1, <4>2a
    <3>4. CASE j \in Sure
      BY <1>1, <1>5, <1>7, <2>2, <3>2, <3>4 DEF IndexInv, IndexSound
    <3>5. QED
      BY <1>6, <3>3, <3>4
  <2>3. QED
    BY <2>1, <2>2 DEF IndexSound
<1>9. ASSUME ~faulted' PROVE FileInv'
  <2>0. FileInv
    BY <1>4, <1>9 DEF IndexInv
  <2>1. /\ idx.disk \in Nat /\ idx.buf \in Nat /\ EntrySize \in Nat \ {0}
        /\ idx'.disk + idx'.buf = idx.disk + idx.buf + EntrySize /\ idx'.err = idx.err
    <3>1. idx \in Writer /\ EntrySize \in Nat \ {0} /\ IdxBufCap \in Nat
      BY SegmentAssumption DEF IInv, IdxType
    <3>2. idx.disk \in Nat /\ idx.buf \in Nat
      BY <3>1 DEF Writer
    <3>a. EntrySize \in Nat /\ idx' = Put(idx, EntrySize, IdxBufCap)
      BY <1>4, <3>1
    <3>3. /\ idx'.disk + idx'.buf = idx.disk + idx.buf + EntrySize
          /\ idx'.err = idx.err
      BY <3>1, <3>a, PutWriter
    <3>4. QED
      BY <3>1, <3>2, <3>3
  <2>2. PICK q \in Nat : /\ idx.disk + idx.buf = q * EntrySize
                         /\ \A c \in 1..q : EntriesAt(c) # {}
    BY <2>0 DEF FileInv, Whole
  <2>3. (q + 1) * EntrySize = q * EntrySize + EntrySize /\ q + 1 \in Nat
    BY <2>1, ChunkOrder
  <2>4. ASSUME NEW c \in 1..(q + 1) PROVE EntriesAt(c)' # {}
    <3>1. CASE c \in 1..q
      BY <1>4, <2>2, <3>1 DEF EntriesAt
    <3>2. CASE c = q + 1
      <4>1. [at |-> idx.disk + idx.buf, off |-> size, pos |-> size].at = (c - 1) * EntrySize
        BY <2>2, <3>2
      <4>2. QED
        BY <1>4, <4>1 DEF EntriesAt
    <3>3. QED
      BY <3>1, <3>2
  <2>5. Whole'
    BY <2>1, <2>2, <2>3, <2>4 DEF Whole
  <2>6. \A e \in ifile : e.at \in Nat /\ Backed(e) /\ e.at < idx.disk + idx.buf
    BY <2>0 DEF FileInv, IInv, IdxType, Placed
  <2>7. \A e \in ifile' : Backed(e)' /\ e.at < idx'.disk + idx'.buf
    <3>1. ASSUME NEW e \in ifile PROVE Backed(e)'
      BY <1>1, <2>6 DEF Backed
    <3>2. ASSUME NEW e, e.off = size, e.pos = size PROVE Backed(e)'
      BY <1>2, <3>2 DEF Backed
    <3>3. PICK x \in Nat, y \in Nat :
            /\ x = idx.disk + idx.buf /\ y = idx'.disk + idx'.buf /\ x < y
      <4>1. PICK a \in Nat, b \in Nat, c \in Nat \ {0} :
              a = idx.disk /\ b = idx.buf /\ c = EntrySize
        BY <2>1
      <4>2. a + b \in Nat /\ a + b + c \in Nat /\ a + b < a + b + c
        OBVIOUS
      <4>3. a + b = idx.disk + idx.buf /\ a + b + c = idx'.disk + idx'.buf
        BY <2>1, <4>1
      <4>4. QED
        BY <4>2, <4>3
    <3>4. \A e \in ifile : e.at < y
      <4>1. \A e \in ifile : e.at \in Nat /\ e.at < x
        BY <2>6, <3>3
      <4>2. QED
        BY <3>3, <4>1
    <3>5. \A e \in ifile' : e \in ifile \/ (e.at = x /\ e.off = size /\ e.pos = size)
      BY <1>4, <3>3
    <3>6. ASSUME NEW e \in ifile' PROVE Backed(e)'
      BY <3>1, <3>2, <3>5
    <3>7. \A e \in ifile' : e.at < y
      BY <3>3, <3>4, <3>5
    <3>8. QED
      BY <3>3, <3>6, <3>7
  <2>8. \A e, f \in ifile' : e.at < f.at => e.off < f.off
    BY <1>1, <1>4, <2>0, <2>1, <2>6 DEF FileInv, Backed
  <2>9. QED
    BY <1>1, <2>0, <2>1, <2>5, <2>7, <2>8 DEF FileInv
<1>10. QED
  BY <1>1, <1>8, <1>9 DEF IndexInv
-----------------------------------------------------------------------------
(* Before the segment is first opened there is no entry and no record. *)
LEMMA InitIndex == Init => IndexInv
<1> SUFFICES ASSUME Init PROVE IndexInv
  OBVIOUS
<1>1. /\ recs = {} /\ ifile = {} /\ open = FALSE /\ log = NewFile /\ idx = NewFile
      /\ EntrySize \in Nat
  BY SegmentAssumption DEF Init
<1>2. /\ idx.disk = 0 /\ idx.buf = 0 /\ idx.err = FALSE /\ log.err = FALSE
  BY <1>1 DEF NewFile
<1>3. Whole
  <2>1. 0 \in Nat /\ idx.disk + idx.buf = 0 * EntrySize /\ \A c \in 1..0 : EntriesAt(c) # {}
    BY <1>1, <1>2
  <2>2. QED
    BY <2>1 DEF Whole
<1>4. QED
  BY <1>1, <1>2, <1>3 DEF IndexInv, NonEmpty, IndexSound, FileInv

(* Every operation and every fault keeps the invariant of the index. *)
LEMMA NextIndex ==
    ASSUME MaxSize <= PosMod, IInv, IndexInv, [Next]_vars
    PROVE  IndexInv'
<1>0. /\ Payloads \subseteq Nat /\ faulted \in BOOLEAN /\ idx.disk \in Nat /\ idx.buf \in Nat
  BY SegmentAssumption DEF IInv, IdxType, Writer
<1>f. faulted => faulted'
  BY <1>0, FaultedStep
<1>1. CASE OpenSegment
  BY <1>1, OpenIndex
<1>2. ASSUME NEW n \in Payloads, AppendNoEntry(n) \/ AppendEntryFails(n) PROVE IndexInv'
  BY <1>0, <1>2, AppendOnly
<1>3. ASSUME NEW n \in Payloads, AppendWithEntry(n) PROVE IndexInv'
  BY <1>0, <1>3, AppendEntry
<1>4. ASSUME NEW k, LogFails(k) PROVE IndexInv'
  <2>1. recs' \subseteq recs /\ log'.err /\ faulted'
    BY <1>4 DEF LogFails, WholeRecs, Fail
  <2>2. QED
    BY <2>1, DownStep
<1>5. CASE DrainFails \/ \E n \in Payloads : AppendFails(n)
  BY <1>4, <1>5 DEF DrainFails, AppendFails
<1>6. CASE Kill \/ PowerLoss
  <2>1. recs' \subseteq recs /\ ~open' /\ faulted'
    BY <1>6 DEF Kill, PowerLoss, Gone, WholeRecs
  <2>2. QED
    BY <2>1, DownStep
<1>7. CASE Close
  BY <1>7, CloseIndex
<1>8. CASE Flush
  <2>1. UNCHANGED <<recs, entries, loaded, open, ifile>> /\ open'
    BY <1>8 DEF Flush
  <2>2. /\ log'.err = log.err /\ idx'.err = idx.err
        /\ idx'.disk + idx'.buf = idx.disk + idx.buf
    BY <1>0, <1>8 DEF Flush, Drain, Fsync
  <2>3. QED
    BY <1>f, <2>1, <2>2, QuietStep
<1>9. CASE FlushFails
  <2>1. UNCHANGED <<recs, entries, loaded, open>> /\ faulted' /\ log'.err = log.err
    BY <1>9 DEF FlushFails, Drain, Fsync
  <2>2. QED
    BY <1>f, <2>1, QuietStep
<1>10. CASE ReadAt \/ \E w \in Windows : Read(w[1], w[2])
  <2>1. UNCHANGED <<recs, entries, loaded, open, idx, ifile>> /\ open' /\ log'.err = log.err
    BY <1>10 DEF ReadAt, Read, Drain, idxVars
  <2>2. QED
    BY <1>f, <2>1, QuietStep
<1>11. CASE UNCHANGED vars
  BY <1>11 DEF vars, logVars, idxVars, IndexInv, NonEmpty, IndexSound, Sure, FileInv,
     Whole, EntriesAt, Backed
<1>12. QED
  BY <1>1, <1>2, <1>3, <1>5, <1>6, <1>7, <1>8, <1>9, <1>10, <1>11 DEF Next

(* Whatever the sizes and the faults, an index entry that this process     *)
(* made, and while nothing has failed one that it loaded too, names a      *)
(* record that is in the log, and such entries lie in increasing order.    *)
THEOREM IndexIsSound == MaxSize <= PosMod /\ Spec => []IndexSound
<1> SUFFICES ASSUME MaxSize <= PosMod PROVE Spec => []IndexSound
  OBVIOUS
<1>1. IInv /\ IndexInv /\ [Next]_vars => IndexInv'
  BY NextIndex
<1>2. IndexInv => IndexSound
  BY DEF IndexInv
<1>3. QED
  BY <1>1, <1>2, InitIndex, Invariance, PTL DEF Spec
-----------------------------------------------------------------------------
(* Lookup's binary search over the entries es for the target t: the loop's *)
(* variables are a record, and Left is how many entries they enclose.      *)
LoopVars(es) == [lo: 1..(Len(es) + 1), hi: 0..Len(es), result: 0..Len(es)]

Mid(v) == (v.lo + v.hi) \div 2
Upper(v) == [lo |-> Mid(v) + 1, hi |-> v.hi, result |-> Mid(v)]
Lower(v) == [lo |-> v.lo, hi |-> Mid(v) - 1, result |-> v.result]

SearchStep(h, es, t, v) ==
    IF v.lo > v.hi THEN v.result
    ELSE IF es[Mid(v)].off <= t THEN h[Upper(v)] ELSE h[Lower(v)]

Searches(h, es, t) == h = [v \in LoopVars(es) |-> SearchStep(h, es, t, v)]

Left(v) == v.hi + 1 - v.lo

LEMMA LoopTyped ==
    ASSUME NEW es, Len(es) \in Nat, NEW v \in LoopVars(es)
    PROVE  /\ v.lo \in 1..(Len(es) + 1) /\ v.hi \in 0..Len(es) /\ v.result \in 0..Len(es)
           /\ Left(v) \in Int /\ Left(v) <= Len(es) /\ (v.lo > v.hi <=> Left(v) <= 0)
BY DEF LoopVars, Left

(* One turn of the loop encloses fewer entries. *)
LEMMA SearchTurn ==
    ASSUME NEW es, Len(es) \in Nat, NEW v \in LoopVars(es), ~(v.lo > v.hi)
    PROVE  /\ Mid(v) \in 1..Len(es) /\ v.lo <= Mid(v) /\ Mid(v) <= v.hi
           /\ Upper(v) \in LoopVars(es) /\ Left(Upper(v)) < Left(v)
           /\ Lower(v) \in LoopVars(es) /\ Left(Lower(v)) < Left(v)
<1>1. PICK l \in 1..(Len(es) + 1), u \in 0..Len(es) :
        l = v.lo /\ u = v.hi /\ v.result \in 0..Len(es)
  BY LoopTyped
<1>2. l <= u /\ l \in Nat /\ u \in Nat
  BY <1>1
<1>3. PICK m \in Nat : m = (l + u) \div 2
  BY <1>2
<1>4. l <= m /\ m <= u /\ Mid(v) = m
  BY <1>1, <1>2, <1>3 DEF Mid
<1>5. m \in 1..Len(es) /\ m + 1 \in 1..(Len(es) + 1) /\ m - 1 \in 0..Len(es)
  BY <1>1, <1>2, <1>4
<1>6. Upper(v) = [lo |-> m + 1, hi |-> u, result |-> m]
  BY <1>1, <1>4 DEF Upper
<1>7. Lower(v) = [lo |-> l, hi |-> m - 1, result |-> v.result]
  BY <1>1, <1>4 DEF Lower
<1>8. Upper(v) \in LoopVars(es) /\ Lower(v) \in LoopVars(es)
  BY <1>1, <1>5, <1>6, <1>7 DEF LoopVars
<1>9. Left(v) = u + 1 - l /\ Left(Upper(v)) = u + 1 - (m + 1)
  BY <1>1, <1>6 DEF Left
<1>10. Left(Lower(v)) = (m - 1) + 1 - l
  BY <1>7 DEF Left
<1>11. Left(Upper(v)) < Left(v) /\ Left(Lower(v)) < Left(v)
  BY <1>2, <1>4, <1>9, <1>10
<1>12. QED
  BY <1>1, <1>4, <1>5, <1>8, <1>11

(* The loop looks at h only where fewer entries are enclosed. *)
LEMMA SearchLocal ==
    ASSUME NEW es, NEW t, Len(es) \in Nat, NEW v \in LoopVars(es), NEW g, NEW h,
           \A w \in LoopVars(es) : Left(w) < Left(v) => g[w] = h[w]
    PROVE  SearchStep(g, es, t, v) = SearchStep(h, es, t, v)
<1>1. CASE v.lo > v.hi
  BY <1>1 DEF SearchStep
<1>2. CASE ~(v.lo > v.hi)
  <2>1. g[Upper(v)] = h[Upper(v)] /\ g[Lower(v)] = h[Lower(v)]
    BY <1>2, SearchTurn
  <2>2. QED
    BY <1>2, <2>1, Zenon DEF SearchStep
<1>3. QED
  BY <1>1, <1>2

LEMMA SearchesExist ==
    ASSUME NEW es, NEW t, Len(es) \in Nat
    PROVE  \E h : Searches(h, es, t)
<1> DEFINE Step(h, v) == SearchStep(h, es, t, v)
           Upto(h, m) == \A v \in LoopVars(es) : Left(v) <= m => h[v] = Step(h, v)
           T == {m \in Nat : \E h : Upto(h, m)}
<1>a. \A v \in LoopVars(es) : /\ Left(v) \in Int /\ Left(v) <= Len(es)
                             /\ (v.lo > v.hi <=> Left(v) <= 0)
  BY LoopTyped
<1>1. 0 \in T
  <2> DEFINE g == [v \in LoopVars(es) |-> v.result]
  <2>1. Upto(g, 0)
    BY <1>a DEF SearchStep
  <2> HIDE DEF Upto, g
  <2>2. QED
    BY <2>1
<1>2. ASSUME NEW m \in Nat, m \in T PROVE m + 1 \in T
  <2>1. PICK h : Upto(h, m)
    BY <1>2
  <2> DEFINE g == [v \in LoopVars(es) |-> IF Left(v) <= m THEN h[v] ELSE Step(h, v)]
  <2>2. ASSUME NEW v \in LoopVars(es), Left(v) <= m + 1 PROVE g[v] = Step(g, v)
    <3>1. g[v] = Step(h, v)
      BY <2>1
    <3>2. \A w \in LoopVars(es) : Left(w) < Left(v) => g[w] = h[w]
      BY <1>a, <2>2
    <3> HIDE DEF g
    <3>3. Step(g, v) = Step(h, v)
      BY <3>2, SearchLocal
    <3>4. QED
      BY <3>1, <3>3
  <2>3. Upto(g, m + 1)
    BY <2>2
  <2> HIDE DEF Upto, g
  <2>4. QED
    BY <2>3
<1>3. Len(es) \in T
  <2> HIDE DEF T
  <2>1. QED
    BY <1>1, <1>2, SetInduction
<1>4. PICK h : Upto(h, Len(es))
  BY <1>3
<1> DEFINE g == [v \in LoopVars(es) |-> h[v]]
<1>5. ASSUME NEW v \in LoopVars(es) PROVE g[v] = Step(g, v)
  <2>1. g[v] = Step(h, v)
    BY <1>a, <1>4
  <2>2. \A w \in LoopVars(es) : g[w] = h[w]
    OBVIOUS
  <2> HIDE DEF g
  <2>3. Step(g, v) = Step(h, v)
    BY <2>2, SearchLocal
  <2>4. QED
    BY <2>1, <2>3
<1>6. Searches(g, es, t)
  BY <1>5 DEF Searches
<1>7. QED
  BY <1>6

LEMMA LookupSearches ==
    ASSUME NEW t, Len(entries) \in Nat
    PROVE  \E h : /\ Searches(h, entries, t)
                 /\ Lookup(t) = h[[lo |-> 1, hi |-> Len(entries), result |-> 0]]
<1> DEFINE search == CHOOSE h : Searches(h, entries, t)
<1>1. Searches(search, entries, t)
  BY SearchesExist, Zenon
<1>2. Lookup(t) = search[[lo |-> 1, hi |-> Len(entries), result |-> 0]]
  BY Zenon DEF Lookup, Searches, SearchStep, Upper, Lower, Mid, LoopVars
<1>3. QED
  BY <1>1, <1>2, Zenon

(* The loop's invariant: what lies below lo is not beyond the target, what *)
(* lies above hi is, and result is the entry below lo.                     *)
Splits(es, t, v) ==
    /\ v.lo <= v.hi + 1 /\ v.result = v.lo - 1
    /\ \A i \in 1..Len(es) : (i < v.lo => es[i].off <= t) /\ (i > v.hi => es[i].off > t)

Cut(es, t, k) ==
    /\ k \in 0..Len(es)
    /\ \A i \in 1..Len(es) : (i <= k => es[i].off <= t) /\ (i > k => es[i].off > t)

Sorted(es) ==
    /\ Len(es) \in Nat /\ \A i \in 1..Len(es) : es[i].off \in Nat
    /\ \A i, j \in 1..Len(es) : i < j => es[i].off < es[j].off

(* In sorted entries the invariant is kept, and the loop ends where the    *)
(* entries beyond the target begin.                                        *)
LEMMA SearchKeeps ==
    ASSUME NEW es, Sorted(es), NEW t \in Nat, NEW v \in LoopVars(es), Splits(es, t, v),
           ~(v.lo > v.hi)
    PROVE  /\ es[Mid(v)].off <= t => Splits(es, t, Upper(v))
           /\ ~(es[Mid(v)].off <= t) => Splits(es, t, Lower(v))
<1>1. Len(es) \in Nat
  BY DEF Sorted
<1>2. PICK l \in 1..(Len(es) + 1), u \in 0..Len(es), m \in 1..Len(es) :
        l = v.lo /\ u = v.hi /\ m = Mid(v) /\ l <= m /\ m <= u
  BY <1>1, LoopTyped, SearchTurn
<1>3. PICK x \in Nat : x = es[m].off
  BY DEF Sorted
<1>4. \A i \in 1..Len(es) : es[i].off \in Nat /\ (i < m => es[i].off < x) /\ (i > m => es[i].off > x)
  BY <1>2, <1>3 DEF Sorted
<1>5. \A i \in 1..Len(es) : (i < l => es[i].off <= t) /\ (i > u => es[i].off > t)
  BY <1>2 DEF Splits
<1>6. v.result = l - 1
  BY <1>2 DEF Splits
<1>7. ASSUME x <= t PROVE Splits(es, t, Upper(v))
  <2>1. Upper(v).lo = m + 1 /\ Upper(v).hi = u /\ Upper(v).result = m
    BY <1>2 DEF Upper
  <2>2. ASSUME NEW i \in 1..Len(es), i < m + 1 PROVE es[i].off <= t
    <3>1. PICK y \in Nat : y = es[i].off
      BY <1>4
    <3>2. i < m \/ i = m
      BY <1>1, <2>2
    <3>3. y < x \/ y = x
      BY <1>3, <1>4, <3>1, <3>2, Zenon
    <3>4. y <= t
      BY <1>7, <3>3
    <3>5. QED
      BY <3>1, <3>4, Zenon
  <2>3. m + 1 <= u + 1 /\ m = (m + 1) - 1
    BY <1>2
  <2>4. QED
    BY <1>5, <2>1, <2>2, <2>3 DEF Splits
<1>8. ASSUME ~(x <= t) PROVE Splits(es, t, Lower(v))
  <2>1. Lower(v).lo = l /\ Lower(v).hi = m - 1 /\ Lower(v).result = l - 1
    BY <1>2, <1>6 DEF Lower
  <2>2. ASSUME NEW i \in 1..Len(es), i > m - 1 PROVE es[i].off > t
    <3>1. PICK y \in Nat : y = es[i].off
      BY <1>4
    <3>2. i > m \/ i = m
      BY <1>1, <2>2
    <3>3. y > x \/ y = x
      BY <1>3, <1>4, <3>1, <3>2, Zenon
    <3>4. y > t
      BY <1>8, <3>3
    <3>5. QED
      BY <3>1, <3>4, Zenon
  <2>3. l <= (m - 1) + 1
    BY <1>2
  <2>4. QED
    BY <1>5, <2>1, <2>2, <2>3 DEF Splits
<1>9. QED
  BY <1>2, <1>3, <1>7, <1>8

LEMMA SearchEnds ==
    ASSUME NEW es, Sorted(es), NEW t \in Nat, NEW v \in LoopVars(es), Splits(es, t, v),
           v.lo > v.hi
    PROVE  Cut(es, t, v.result)
<1>1. Len(es) \in Nat
  BY DEF Sorted
<1>2. PICK l \in 1..(Len(es) + 1), u \in 0..Len(es) : l = v.lo /\ u = v.hi
  BY <1>1, LoopTyped
<1>3. l = u + 1 /\ v.result = u
  <2>1. l > u /\ l <= u + 1 /\ v.result = l - 1
    BY <1>2, Zenon DEF Splits
  <2>2. l = u + 1 /\ l - 1 = u
    BY <1>1, <2>1
  <2>3. QED
    BY <2>1, <2>2, Zenon
<1>4. QED
  BY <1>2, <1>3 DEF Splits, Cut

LEMMA SearchCuts ==
    ASSUME NEW es, Sorted(es), NEW t \in Nat, NEW h, Searches(h, es, t)
    PROVE  \A v \in LoopVars(es) : Splits(es, t, v) => Cut(es, t, h[v])
<1> DEFINE T == {m \in Nat : \A v \in LoopVars(es) :
                   Left(v) <= m /\ Splits(es, t, v) => Cut(es, t, h[v])}
<1>1. Len(es) \in Nat /\ \A v \in LoopVars(es) : h[v] = SearchStep(h, es, t, v)
  BY DEF Sorted, Searches
<1>a. \A v \in LoopVars(es) : /\ Left(v) \in Int /\ Left(v) <= Len(es)
                             /\ (v.lo > v.hi <=> Left(v) <= 0)
  BY <1>1, LoopTyped
<1>2. ASSUME NEW v \in LoopVars(es), v.lo > v.hi, Splits(es, t, v) PROVE Cut(es, t, h[v])
  <2>1. h[v] = v.result
    BY <1>1, <1>2 DEF SearchStep
  <2>2. QED
    BY <1>2, <2>1, SearchEnds
<1>3. 0 \in T
  BY <1>a, <1>2
<1>4. ASSUME NEW m \in Nat, m \in T PROVE m + 1 \in T
  <2>1. ASSUME NEW v \in LoopVars(es), Left(v) <= m + 1, Splits(es, t, v), ~(v.lo > v.hi)
        PROVE  Cut(es, t, h[v])
    <3>1. /\ Upper(v) \in LoopVars(es) /\ Left(Upper(v)) < Left(v)
          /\ Lower(v) \in LoopVars(es) /\ Left(Lower(v)) < Left(v)
      BY <1>1, <2>1, SearchTurn
    <3>2. Left(Upper(v)) <= m /\ Left(Lower(v)) <= m
      BY <1>a, <2>1, <3>1
    <3>3. CASE es[Mid(v)].off <= t
      <4>1. h[v] = h[Upper(v)]
        BY <1>1, <2>1, <3>3 DEF SearchStep
      <4>2. Splits(es, t, Upper(v))
        BY <2>1, <3>3, SearchKeeps
      <4>3. QED
        BY <1>4, <3>1, <3>2, <4>1, <4>2
    <3>4. CASE ~(es[Mid(v)].off <= t)
      <4>1. h[v] = h[Lower(v)]
        BY <1>1, <2>1, <3>4 DEF SearchStep
      <4>2. Splits(es, t, Lower(v))
        BY <2>1, <3>4, SearchKeeps
      <4>3. QED
        BY <1>4, <3>1, <3>2, <4>1, <4>2
    <3>5. QED
      BY <3>3, <3>4
  <2>2. QED
    BY <1>2, <2>1
<1>5. Len(es) \in T
  <2> HIDE DEF T
  <2>1. QED
    BY <1>1, <1>3, <1>4, SetInduction
<1>6. QED
  BY <1>a, <1>5

(* Over sorted entries Lookup returns the last one not beyond the target. *)
LEMMA LookupCuts ==
    ASSUME Sorted(entries), NEW t \in Nat
    PROVE  Cut(entries, t, Lookup(t))
<1> DEFINE v == [lo |-> 1, hi |-> Len(entries), result |-> 0]
<1>1. Len(entries) \in Nat
  BY DEF Sorted
<1>2. PICK h : Searches(h, entries, t) /\ Lookup(t) = h[v]
  BY <1>1, LookupSearches
<1>3. v \in LoopVars(entries)
  BY <1>1 DEF LoopVars
<1>4. Splits(entries, t, v)
  BY <1>1 DEF Splits
<1> HIDE DEF v
<1>5. QED
  BY <1>2, <1>3, <1>4, SearchCuts

LEMMA SortedFloor ==
    ASSUME Sorted(entries), NEW t \in Nat
    PROVE  LET below == {i \in 1..Len(entries) : entries[i].off <= t}
           IN  IF below = {} THEN Lookup(t) = 0
               ELSE /\ Lookup(t) \in below
                    /\ \A i \in below : entries[i].off <= entries[Lookup(t)].off
<1>a. Cut(entries, t, Lookup(t))
  BY LookupCuts
<1>b. Lookup(t) \in 0..Len(entries)
  BY <1>a DEF Cut
<1>1. PICK k \in 0..Len(entries) : k = Lookup(t) /\ Cut(entries, t, k)
  BY <1>a, <1>b
<1>2. Len(entries) \in Nat /\ \A i \in 1..Len(entries) : entries[i].off \in Nat
  BY DEF Sorted
<1> DEFINE below == {i \in 1..Len(entries) : entries[i].off <= t}
<1>3. below = 1..k
  <2>1. \A i \in 1..Len(entries) : entries[i].off <= t <=> i <= k
    BY <1>1, <1>2 DEF Cut
  <2>2. QED
    BY <1>1, <1>2, <2>1
<1>4. CASE k = 0
  <2>1. below = {}
    BY <1>3, <1>4
  <2>2. QED
    BY <1>1, <1>4, <2>1
<1>5. CASE k > 0
  <2>1. k \in below
    BY <1>1, <1>2, <1>3, <1>5
  <2>2. ASSUME NEW i \in below PROVE entries[i].off <= entries[k].off
    <3>1. i \in 1..Len(entries) /\ k \in 1..Len(entries) /\ (i = k \/ i < k)
      BY <1>1, <1>2, <1>3, <2>1
    <3>2. QED
      BY <1>2, <3>1 DEF Sorted
  <2>3. QED
    BY <1>1, <2>1, <2>2
<1>6. QED
  BY <1>1, <1>2, <1>4, <1>5

(* Sure entries are in order also when the log's writer has failed, after  *)
(* which there are no new ones.                                            *)
InOrderInv == open => \A i, j \in Sure : i < j => entries[i].off < entries[j].off

LEMMA InOrderStep ==
    ASSUME IInv, InOrderInv, [Next]_vars, IndexSound'
    PROVE  InOrderInv'
<1>1. SUFFICES ASSUME open' PROVE \A i, j \in Sure' : i < j => entries'[i].off < entries'[j].off
  BY DEF InOrderInv
<1>2. CASE ~log'.err
  BY <1>1, <1>2 DEF IndexSound
<1>3. CASE log'.err
  <2>1. faulted => faulted'
    BY FaultedStep DEF IInv
  <2>2. open /\ UNCHANGED <<entries, loaded>>
    <3>1. CASE OpenSegment
      <4>1. ~log'.err
        BY <3>1 DEF OpenSegment, Reopen
      <4>2. QED
        BY <1>3, <4>1
    <3>2. ASSUME NEW n \in Payloads, AppendNoEntry(n) \/ AppendWithEntry(n) \/ AppendEntryFails(n)
          PROVE  FALSE
      <4>1. n \in Nat /\ log \in Writer
        BY SegmentAssumption DEF IInv, LogInv, LogType
      <4>2. ~log.err /\ log' = WriteRecord(n)
        <5>1. \E ok \in BOOLEAN : AppendRecord(n, ok)
          BY <3>2, Zenon DEF AppendNoEntry, AppendWithEntry, AppendEntryFails
        <5>2. QED
          BY <5>1 DEF AppendRecord
      <4>3. QED
        BY <1>3, <4>1, <4>2, WriteRecordWriter
    <3>3. CASE DrainFails \/ \E n \in Payloads : AppendFails(n)
      BY <3>3 DEF DrainFails, AppendFails, LogFails, idxVars
    <3>4. CASE Flush \/ FlushFails \/ ReadAt \/ \E w \in Windows : Read(w[1], w[2])
      BY <3>4 DEF Flush, FlushFails, ReadAt, Read, idxVars
    <3>5. CASE Close \/ Kill \/ PowerLoss
      BY <1>1, <3>5 DEF Close, Kill, PowerLoss, Gone
    <3>6. CASE UNCHANGED vars
      BY <1>1, <3>6 DEF vars, idxVars
    <3>7. QED
      BY <3>1, <3>2, <3>3, <3>4, <3>5, <3>6 DEF Next
  <2>3. Sure' \subseteq Sure
    BY <2>1, <2>2 DEF Sure
  <2>4. QED
    BY <2>2, <2>3 DEF InOrderInv
<1>4. QED
  BY <1>2, <1>3

(* Whatever the sizes and the faults, Index.Lookup over entries that are   *)
(* sure returns the largest offset that is not beyond its target.          *)
THEOREM LookupFindsFloor == MaxSize <= PosMod /\ Spec => []LookupIsFloor
<1> SUFFICES ASSUME MaxSize <= PosMod PROVE Spec => []LookupIsFloor
  OBVIOUS
<1>1. Init => InOrderInv
  BY DEF Init, InOrderInv
<1>2. IInv /\ IndexInv /\ [Next]_vars => IndexInv'
  BY NextIndex
<1>3. IInv /\ InOrderInv /\ [Next]_vars /\ IndexInv' => InOrderInv'
  BY InOrderStep DEF IndexInv
<1>4. IInv /\ InOrderInv => LookupIsFloor
  <2>1. SUFFICES ASSUME IInv, InOrderInv, open, Sure = 1..Len(entries), NEW t \in 0..MaxSize
                 PROVE  LET below == {i \in 1..Len(entries) : entries[i].off <= t}
                        IN  IF below = {} THEN Lookup(t) = 0
                            ELSE /\ Lookup(t) \in below
                                 /\ \A i \in below : entries[i].off <= entries[Lookup(t)].off
    BY Zenon DEF LookupIsFloor
  <2>2. entries \in Seq(Entry) /\ t \in Nat
    BY <2>1, SegmentAssumption DEF IInv, IdxType
  <2>3. Len(entries) \in Nat /\ \A i \in 1..Len(entries) : entries[i].off \in Nat
    <3>1. Len(entries) \in Nat /\ \A i \in 1..Len(entries) : entries[i] \in Entry
      BY <2>2
    <3>2. QED
      BY <3>1 DEF Entry
  <2>4. \A i, j \in 1..Len(entries) : i < j => entries[i].off < entries[j].off
    BY <2>1 DEF InOrderInv
  <2>5. Sorted(entries)
    BY <2>3, <2>4 DEF Sorted
  <2>6. QED
    BY <2>2, <2>5, SortedFloor
<1>5. QED
  BY <1>1, <1>2, <1>3, <1>4, InitIndex, Invariance, PTL DEF Spec
=============================================================================
