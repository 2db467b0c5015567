--------------------------- MODULE PartitionProofs --------------------------
(***************************************************************************)
(* Proofs about PartitionStore, for records, segments and buffers of every *)
(* size, every retention time and any number of appends and restarts:      *)
(* where the records are, and what the cleaner leaves alone in the first   *)
(* run of the process.                                                     *)
(***************************************************************************)
EXTENDS PartitionStore, TLAPS

File == [disk: Nat, mtime: Nat]
Files == Seq(File)
Record == [id: Nat, ino: Nat, pos: Nat, off: Nat, len: Nat]
Sweeps == [pc: {"idle", "snapped", "scan", "log", "index"}, skip: Bases,
           cutoff: Int, todo: SUBSET Bases, victim: Bases]

LEMMA BasesFacts == 0 \in Bases /\ Bases \subseteq Nat
<1>1. MaxAppends * MaxSize \in Nat
  BY PartitionStoreAssumption
<1>2. QED
  BY <1>1 DEF Bases

(* bufio keeps no more than it had and was given. *)
LEMMA KeptBound ==
    ASSUME NEW b \in Nat, NEW n \in Nat, NEW cap \in Nat
    PROVE  Kept(b, n, cap) \in Nat /\ Kept(b, n, cap) <= b + n
  BY DEF Kept

LEMMA KeptOfBound ==
    ASSUME NEW b \in Nat, NEW n \in RecSizes
    PROVE  /\ KeptOf(b, n) \in Nat /\ Spilled(b, n) \in Nat /\ n \in Nat
           /\ Spilled(b, n) = b + n - KeptOf(b, n)
<1>1. /\ HdrSize \in Nat /\ BufCap \in Nat /\ n \in Nat /\ n - HdrSize \in Nat
  BY PartitionStoreAssumption
<1> DEFINE h == Kept(b, HdrSize, BufCap)
<1>2. h \in Nat /\ h <= b + HdrSize
  BY <1>1, KeptBound
<1>h. HIDE DEF h
<1>3. Kept(h, n - HdrSize, BufCap) \in Nat /\ Kept(h, n - HdrSize, BufCap) <= h + (n - HdrSize)
  BY <1>1, <1>2, KeptBound
<1>4. KeptOf(b, n) = Kept(h, n - HdrSize, BufCap)
  BY DEF KeptOf, h
<1>5. QED
  BY <1>1, <1>2, <1>3, <1>4 DEF Spilled

LEMMA WriteToFacts ==
    ASSUME NEW f \in Files, NEW i \in 1..Len(f), NEW k \in Nat, now \in Nat
    PROVE  /\ WriteTo(f, i, k) \in Files /\ Len(WriteTo(f, i, k)) = Len(f)
           /\ WriteTo(f, i, k)[i].disk = f[i].disk + k
           /\ WriteTo(f, i, k)[i].mtime \in {f[i].mtime, now}
           /\ \A j \in 1..Len(f) : j # i => WriteTo(f, i, k)[j] = f[j]
           /\ k = 0 => WriteTo(f, i, k) = f
<1>a. f[i] \in File
  BY DEF Files
<1>1. f[i].disk \in Nat /\ f[i].mtime \in Nat
  BY <1>a DEF File
<1>2. CASE k = 0
  BY <1>1, <1>2 DEF WriteTo
<1>3. CASE k # 0
  <2> DEFINE e == [disk |-> f[i].disk + k, mtime |-> now]
  <2>1. e \in File /\ e.disk = f[i].disk + k /\ e.mtime = now
    BY <1>1 DEF File
  <2>2. WriteTo(f, i, k) = [f EXCEPT ![i] = e]
    BY <1>3 DEF WriteTo
  <2>h. HIDE DEF e
  <2>3. QED
    BY <1>3, <2>1, <2>2 DEF Files
<1>4. QED
  BY <1>2, <1>3

(* What OpenSegment makes of the directory d and the files f. *)
Opened(d, f, b, o) ==
    /\ o.files \in Files /\ o.seg \in SegmentObject
    /\ Len(f) <= Len(o.files) /\ \A j \in 1..Len(f) : o.files[j] = f[j]
    /\ o.dir \in [Bases -> 0..Len(o.files)] /\ o.index \in [Bases -> 0..Len(o.files)]
    /\ o.dir = [d EXCEPT ![b] = o.seg.ino]
    /\ o.seg.ino \in 1..Len(o.files) /\ o.seg.base = b /\ o.seg.buf = 0
    /\ o.seg.size = o.files[o.seg.ino].disk
    /\ o.seg.fd = TRUE /\ o.seg.err = FALSE
    /\ d[b] # 0 => o.seg.ino = d[b] /\ o.files = f
    /\ d[b] = 0 => /\ o.seg.ino = Len(f) + 1 /\ Len(o.files) = Len(f) + 1
                   /\ o.files[Len(f) + 1] = [disk |-> 0, mtime |-> now]

LEMMA OpenFacts ==
    ASSUME NEW f \in Files, NEW d \in [Bases -> 0..Len(f)], NEW x \in [Bases -> 0..Len(f)],
           NEW b \in Bases, now \in Nat, NEW o, o = OpenSegment(d, x, f, b)
    PROVE  Opened(d, f, b, o)
<1> DEFINE g == IF d[b] = 0 THEN Append(f, [disk |-> 0, mtime |-> now]) ELSE f
           i == IF d[b] = 0 THEN Len(g) ELSE d[b]
           y == IF x[b] = 0 THEN [x EXCEPT ![b] = i] ELSE x
           s == [base |-> b, ino |-> i, size |-> g[i].disk, buf |-> 0,
                 fd |-> TRUE, err |-> FALSE]
<1>1. o = [dir |-> [d EXCEPT ![b] = i], index |-> y, files |-> g, seg |-> s]
  BY DEF OpenSegment
<1>2. PICK e \in File : e = [disk |-> 0, mtime |-> now]
  BY DEF File
<1>a. Len(f) \in Nat /\ Append(f, e) \in Files /\ Len(Append(f, e)) = Len(f) + 1
      /\ Append(f, e)[Len(f) + 1] = e /\ \A j \in 1..Len(f) : Append(f, e)[j] = f[j]
  BY DEF Files
<1>3. /\ g \in Files /\ Len(f) <= Len(g) /\ Len(g) \in Nat
      /\ \A j \in 1..Len(f) : g[j] = f[j] /\ (d[b] # 0 => g = f)
      /\ d[b] = 0 => Len(g) = Len(f) + 1 /\ g[Len(f) + 1] = [disk |-> 0, mtime |-> now]
  BY <1>2, <1>a
<1>4. d[b] \in 0..Len(f)
  OBVIOUS
<1>h. HIDE DEF g
<1>5. i \in 1..Len(g) /\ (d[b] = 0 => i = Len(f) + 1) /\ (d[b] # 0 => i = d[b])
  BY <1>a, <1>3, <1>4
<1>6. g[i] \in File
  BY <1>3, <1>5 DEF Files
<1>i. HIDE DEF i
<1>7. [d EXCEPT ![b] = i] \in [Bases -> 0..Len(g)] /\ y \in [Bases -> 0..Len(g)]
  BY <1>a, <1>3, <1>5
<1>j. HIDE DEF y
<1>8. s \in SegmentObject
  <2>1. b \in Nat /\ i \in Nat /\ g[i].disk \in Nat
    <3>1. b \in Nat
      BY BasesFacts
    <3>2. i \in Nat
      BY <1>3, <1>5
    <3>3. g[i].disk \in Nat
      BY <1>6 DEF File
    <3>4. QED
      BY <3>1, <3>2, <3>3
  <2>2. QED
    BY <2>1 DEF SegmentObject
<1>9. /\ s.base = b /\ s.ino = i /\ s.size = g[i].disk /\ s.buf = 0 /\ s.fd = TRUE
      /\ s.err = FALSE
  OBVIOUS
<1>k. HIDE DEF s
<1>10. o.dir = [d EXCEPT ![b] = i] /\ o.index = y /\ o.files = g /\ o.seg = s
  BY <1>1
<1>11. /\ o.files \in Files /\ o.seg \in SegmentObject
       /\ o.dir \in [Bases -> 0..Len(o.files)] /\ o.index \in [Bases -> 0..Len(o.files)]
       /\ o.dir = [d EXCEPT ![b] = o.seg.ino]
       /\ o.seg.base = b /\ o.seg.fd = TRUE /\ o.seg.err = FALSE
  BY <1>3, <1>7, <1>8, <1>9, <1>10
<1>12. /\ Len(f) <= Len(o.files) /\ \A j \in 1..Len(f) : o.files[j] = f[j]
       /\ o.seg.ino \in 1..Len(o.files) /\ o.seg.buf = 0
       /\ o.seg.size = o.files[o.seg.ino].disk
       /\ d[b] # 0 => o.seg.ino = d[b]
       /\ d[b] = 0 => /\ o.seg.ino = Len(f) + 1 /\ Len(o.files) = Len(f) + 1
                      /\ o.files[Len(f) + 1] = [disk |-> 0, mtime |-> now]
  BY <1>3, <1>5, <1>9, <1>10
<1>13. d[b] # 0 => o.files = f
  BY <1>10 DEF g
<1>14. QED
  BY <1>11, <1>12, <1>13 DEF Opened
-----------------------------------------------------------------------------
Scalars ==
    /\ up \in BOOLEAN /\ reader \in {"none", "live", "dead"} /\ sweep \in Sweeps
    /\ now \in 0..MaxTime /\ restarts \in 0..MaxRestarts /\ nextBase \in Nat

Disk ==
    /\ files \in Files
    /\ dir \in [Bases -> 0..Len(files)] /\ index \in [Bases -> 0..Len(files)]
    /\ active \in SegmentObject /\ active.base \in Bases /\ active.ino \in 1..Len(files)
    /\ sealed \subseteq 1..Len(files)

(* The records end before the end of the file f, or in the b bytes that    *)
(* will be written to inode i.                                             *)
Covers(f, i, b) ==
    \A r \in recs : /\ r.ino \in 1..Len(f)
                    /\ \/ r.pos + r.len <= f[r.ino].disk
                       \/ r.ino = i /\ r.pos + r.len <= f[i].disk + b

Ordered ==
    /\ next \in Nat /\ recs \subseteq Record
    /\ \A r \in recs : r.id < next /\ r.off = r.pos
    /\ \A r, s \in recs : r.ino = s.ino /\ r.id < s.id => r.pos + r.len <= s.pos

(* The cursor is at the end of what the file and the buffer hold. *)
Cursor ==
    /\ up => active.size = files[active.ino].disk + active.buf
    /\ ~up => active.buf = 0

RecInv == Ordered /\ Cursor /\ Covers(files, active.ino, active.buf)

Inv == Scalars /\ Disk /\ RecInv

LEMMA NowIsNat == Scalars => now \in Nat
  BY PartitionStoreAssumption DEF Scalars

LEMMA ActiveFacts ==
    ASSUME Disk
    PROVE  /\ active.base \in Nat /\ active.ino \in Nat /\ active.size \in Nat
           /\ active.buf \in Nat /\ active.fd \in BOOLEAN /\ active.err \in BOOLEAN
  BY DEF Disk, SegmentObject

LEMMA DiskNat ==
    ASSUME NEW f \in Files, NEW i \in 1..Len(f)
    PROVE  f[i].disk \in Nat /\ f[i].mtime \in Nat
<1>1. f[i] \in File
  BY DEF Files
<1>2. QED
  BY <1>1 DEF File

(* Flushing the buffer of the active segment. *)
LEMMA ClosedFacts ==
    ASSUME Scalars, Disk, RecInv
    PROVE  /\ Closed \in Files /\ Len(Closed) = Len(files)
           /\ Closed[active.ino].disk = files[active.ino].disk + active.buf
           /\ Closed[active.ino].mtime \in {files[active.ino].mtime, now}
           /\ \A j \in 1..Len(files) : j # active.ino => Closed[j] = files[j]
           /\ \A i : Covers(Closed, i, 0)
<1>1. active.ino \in 1..Len(files) /\ active.buf \in Nat /\ files \in Files /\ now \in Nat
  BY ActiveFacts, NowIsNat DEF Disk
<1>2. /\ Closed \in Files /\ Len(Closed) = Len(files)
      /\ Closed[active.ino].disk = files[active.ino].disk + active.buf
      /\ Closed[active.ino].mtime \in {files[active.ino].mtime, now}
      /\ \A j \in 1..Len(files) : j # active.ino => Closed[j] = files[j]
  BY <1>1, WriteToFacts DEF Closed
<1>3. ASSUME NEW r \in recs
      PROVE  r.ino \in 1..Len(Closed) /\ r.pos + r.len <= Closed[r.ino].disk
  <2>1. /\ r.ino \in 1..Len(files)
        /\ \/ r.pos + r.len <= files[r.ino].disk
           \/ r.ino = active.ino /\ r.pos + r.len <= files[active.ino].disk + active.buf
    BY DEF RecInv, Covers
  <2>2. r.pos \in Nat /\ r.len \in Nat
    BY DEF RecInv, Ordered, Record
  <2>3. files[r.ino].disk \in Nat
    BY <1>1, <2>1, DiskNat
  <2>4. CASE r.ino = active.ino
    BY <1>1, <1>2, <2>1, <2>2, <2>3, <2>4
  <2>5. CASE r.ino # active.ino
    BY <1>2, <2>1, <2>5
  <2>6. QED
    BY <2>4, <2>5
<1>4. QED
  BY <1>2, <1>3 DEF Covers

(* A directory with more files in it, and the same ones. *)
LEMMA CoversMore ==
    ASSUME NEW f \in Files, NEW g \in Files, NEW i, NEW j,
           Len(f) <= Len(g), \A k \in 1..Len(f) : g[k] = f[k], Covers(f, i, 0), Ordered,
           i \in 1..Len(f)
    PROVE  Covers(g, j, 0)
<1>1. ASSUME NEW r \in recs PROVE r.ino \in 1..Len(g) /\ r.pos + r.len <= g[r.ino].disk
  <2>1. /\ r.ino \in 1..Len(f)
        /\ \/ r.pos + r.len <= f[r.ino].disk
           \/ r.ino = i /\ r.pos + r.len <= f[i].disk + 0
    BY DEF Covers
  <2>2. f[i].disk \in Nat /\ Len(f) \in Nat /\ Len(g) \in Nat
    BY DiskNat DEF Files
  <2>3. QED
    BY <2>1, <2>2
<1>2. QED
  BY <1>1 DEF Covers

LEMMA RolledFacts ==
    ASSUME Scalars, Disk, RecInv, nextBase + active.size \in Bases
    PROVE  /\ Opened(dir, Closed, nextBase + active.size, Rolled)
           /\ Covers(Rolled.files, Rolled.seg.ino, 0)
<1>1. /\ Closed \in Files /\ Len(Closed) = Len(files)
      /\ Covers(Closed, active.ino, 0) /\ active.ino \in 1..Len(Closed)
  BY ClosedFacts DEF Disk
<1>2. dir \in [Bases -> 0..Len(Closed)] /\ index \in [Bases -> 0..Len(Closed)] /\ now \in Nat
  BY <1>1, NowIsNat DEF Disk
<1>3. PICK f \in Files : f = Closed
  BY <1>1
<1>4. PICK d \in [Bases -> 0..Len(f)], x \in [Bases -> 0..Len(f)] : d = dir /\ x = index
  BY <1>2, <1>3
<1>5. PICK b \in Bases : b = nextBase + active.size
  OBVIOUS
<1>6. PICK o : o = OpenSegment(d, x, f, b)
  OBVIOUS
<1>7. Rolled = o
  BY <1>3, <1>4, <1>5, <1>6 DEF Rolled
<1>8. Opened(d, f, b, o)
  BY <1>2, <1>6, OpenFacts
<1>9. Covers(o.files, o.seg.ino, 0)
  <2>1. Covers(f, active.ino, 0) /\ active.ino \in 1..Len(f) /\ Ordered
    BY <1>1, <1>3 DEF RecInv
  <2>2. QED
    BY <1>8, <2>1, CoversMore DEF Opened
<1>10. QED
  BY <1>3, <1>4, <1>5, <1>7, <1>8, <1>9
-----------------------------------------------------------------------------
(* Segment.Append of a record to a segment at the end of its file. *)
LEMMA StoreKeeps ==
    ASSUME Scalars, Ordered, NEW f \in Files, NEW seg \in SegmentObject,
           seg.ino \in 1..Len(f), seg.size = f[seg.ino].disk + seg.buf,
           Covers(f, seg.ino, seg.buf), NEW n \in RecSizes, Store(f, seg, n)
    PROVE  /\ files' \in Files /\ Len(files') = Len(f) /\ active' \in SegmentObject
           /\ active'.ino = seg.ino /\ active'.base = seg.base
           /\ active'.fd = seg.fd /\ active'.err = seg.err
           /\ active'.size = files'[active'.ino].disk + active'.buf
           /\ Ordered' /\ Covers(files, active.ino, active.buf)'
           /\ files'[seg.ino].mtime \in {f[seg.ino].mtime, now}
           /\ \A j \in 1..Len(f) : j # seg.ino => files'[j] = f[j]
           /\ Spilled(seg.buf, n) = 0 => files' = f
           /\ \A r \in recs' : r \in recs \/ r.ino = seg.ino
<1> DEFINE i == seg.ino
           k == KeptOf(seg.buf, n)
           w == Spilled(seg.buf, n)
           x == [id |-> next, ino |-> i, off |-> seg.size, pos |-> f[i].disk + seg.buf,
                 len |-> n]
<1>1. seg.ino \in Nat /\ seg.base \in Nat /\ seg.size \in Nat /\ seg.buf \in Nat
  BY DEF SegmentObject
<1>2. k \in Nat /\ w \in Nat /\ n \in Nat /\ w = seg.buf + n - k
  BY <1>1, KeptOfBound
<1>3. now \in Nat /\ f[i].disk \in Nat
  BY NowIsNat, DiskNat
<1>4. /\ files' = WriteTo(f, i, w) /\ next' = next + 1 /\ recs' = recs \cup {x}
      /\ active' = [seg EXCEPT !.size = seg.size + n, !.buf = k]
  BY DEF Store
<1>h. HIDE DEF k, w
<1>5. /\ files' \in Files /\ Len(files') = Len(f) /\ files'[i].disk = f[i].disk + w
      /\ files'[i].mtime \in {f[i].mtime, now}
      /\ \A j \in 1..Len(f) : j # i => files'[j] = f[j]
      /\ w = 0 => files' = f
  <2>1. w \in Nat /\ now \in Nat /\ files' = WriteTo(f, i, w)
    BY <1>2, <1>3, <1>4
  <2>2. QED
    BY <2>1, WriteToFacts
<1>6. /\ active' \in SegmentObject /\ active'.ino = i /\ active'.base = seg.base
      /\ active'.fd = seg.fd /\ active'.err = seg.err
      /\ active'.size = seg.size + n /\ active'.buf = k
  <2>1. seg.size + n \in Nat
    BY <1>1, <1>2
  <2>2. QED
    BY <1>2, <1>4, <2>1 DEF SegmentObject
<1>a. files'[i].disk + k = f[i].disk + seg.buf + n /\ files'[i].disk \in Nat
      /\ f[i].disk <= files'[i].disk
  <2>1. files'[i].disk = f[i].disk + w
    BY <1>5
  <2>2. PICK a \in Nat, b \in Nat, m \in Nat, l \in Nat, v \in Nat :
          a = f[i].disk /\ b = seg.buf /\ m = n /\ l = k /\ v = w
    BY <1>1, <1>2, <1>3
  <2>3. v = b + m - l /\ files'[i].disk = a + v
    BY <1>2, <2>1, <2>2
  <2>4. (a + v) + l = a + b + m /\ a + v \in Nat /\ a <= a + v
    BY <2>3
  <2>5. QED
    BY <2>2, <2>3, <2>4
<1>7. active'.size = files'[active'.ino].disk + active'.buf
  <2>1. seg.size + n = files'[i].disk + k
    BY <1>1, <1>2, <1>3, <1>a
  <2>2. QED
    BY <1>6, <2>1
<1>8. /\ x \in Record /\ x.id = next /\ x.ino = i /\ x.off = x.pos /\ x.len = n
      /\ x.pos = f[i].disk + seg.buf
  BY <1>1, <1>2, <1>3 DEF Ordered, Record
<1>i. HIDE DEF x
<1>9. ASSUME NEW r \in recs
      PROVE  /\ r.pos \in Nat /\ r.len \in Nat /\ r.id \in Nat /\ r.id < next
             /\ r.ino \in 1..Len(f)
             /\ r.ino = i => r.pos + r.len <= x.pos
             /\ r.ino # i => r.pos + r.len <= f[r.ino].disk
  <2>1. r.pos \in Nat /\ r.len \in Nat /\ r.id \in Nat /\ r.id < next
    BY DEF Ordered, Record
  <2>2. /\ r.ino \in 1..Len(f)
        /\ \/ r.pos + r.len <= f[r.ino].disk
           \/ r.ino = i /\ r.pos + r.len <= f[i].disk + seg.buf
    BY DEF Covers
  <2>3. r.ino = i => r.pos + r.len <= f[i].disk + seg.buf
    <3>1. PICK p \in Nat, a \in Nat, b \in Nat :
            p = r.pos + r.len /\ a = f[i].disk /\ b = seg.buf
      <4>1. r.pos + r.len \in Nat
        BY <2>1
      <4>2. QED
        BY <1>1, <1>3, <4>1, Zenon
    <3>2. p <= a => p <= a + b
      OBVIOUS
    <3>3. r.ino = i => p <= a \/ p <= a + b
      BY <2>2, <3>1
    <3>4. QED
      BY <3>1, <3>2, <3>3
  <2>4. r.ino # i => r.pos + r.len <= f[r.ino].disk
    BY <2>2
  <2>5. QED
    BY <1>8, <2>1, <2>2, <2>3, <2>4
<1>10. Ordered'
  <2>1. next' \in Nat /\ recs' \subseteq Record /\ next \in Nat
    BY <1>4, <1>8 DEF Ordered
  <2>2. \A r \in recs' : r.id < next' /\ r.off = r.pos
    BY <1>4, <1>8, <2>1 DEF Ordered, Record
  <2>3. ASSUME NEW r \in recs', NEW s \in recs', r.ino = s.ino, r.id < s.id
        PROVE  r.pos + r.len <= s.pos
    <3>1. CASE r \in recs /\ s \in recs
      BY <2>3, <3>1 DEF Ordered
    <3>2. CASE r \in recs /\ s = x
      BY <1>8, <1>9, <2>3, <3>2
    <3>3. CASE r = x
      BY <1>4, <1>8, <1>9, <2>1, <2>3, <3>3
    <3>4. QED
      BY <1>4, <3>1, <3>2, <3>3
  <2>4. QED
    BY <2>1, <2>2, <2>3 DEF Ordered
<1>11. ASSUME NEW r \in recs'
       PROVE  /\ r.ino \in 1..Len(files')
              /\ \/ r.pos + r.len <= files'[r.ino].disk
                 \/ r.ino = active'.ino /\ r.pos + r.len <= files'[active'.ino].disk + active'.buf
  <2>1. active'.ino = i /\ active'.buf = k /\ i \in 1..Len(files') /\ x.pos \in Nat
    BY <1>1, <1>3, <1>5, <1>6, <1>8
  <2>2. CASE r = x
    <3>1. x.pos + x.len = files'[i].disk + k /\ x.ino = i
      BY <1>8, <1>a
    <3>2. x.pos + x.len <= files'[i].disk + k
      BY <1>2, <1>a, <3>1
    <3>3. QED
      BY <2>1, <2>2, <3>1, <3>2
  <2>3. CASE r \in recs /\ r.ino = i
    <3>1. r.pos + r.len <= x.pos /\ r.pos + r.len \in Nat
      BY <1>9, <2>3
    <3>2. x.pos <= files'[i].disk + k
      BY <1>1, <1>2, <1>3, <1>8, <1>a
    <3>3. r.pos + r.len <= files'[i].disk + k
      BY <1>2, <1>a, <2>1, <3>1, <3>2
    <3>4. QED
      BY <2>1, <2>3, <3>3
  <2>4. CASE r \in recs /\ r.ino # i
    BY <1>5, <1>9, <2>4
  <2>5. QED
    BY <1>4, <2>2, <2>3, <2>4
<1>12. Covers(files, active.ino, active.buf)'
  BY <1>11 DEF Covers
<1>13. \A r \in recs' : r \in recs \/ r.ino = i
  BY <1>4, <1>8
<1>14. QED
  BY <1>5, <1>6, <1>7, <1>10, <1>12, <1>13 DEF w
-----------------------------------------------------------------------------
(* Steps that change nothing of the segment but its error. *)
LEMMA ErrStep ==
    ASSUME Inv, NEW e \in BOOLEAN, active' = [active EXCEPT !.err = e],
           UNCHANGED <<up, dir, index, files, recs, next, sealed>>
    PROVE  Disk' /\ RecInv'
<1>1. /\ active' \in SegmentObject /\ active'.base = active.base /\ active'.ino = active.ino
      /\ active'.size = active.size /\ active'.buf = active.buf
  BY DEF Inv, Disk, SegmentObject
<1>2. Disk'
  BY <1>1 DEF Inv, Disk
<1>3. Ordered' /\ Cursor'
  BY <1>1 DEF Inv, RecInv, Ordered, Cursor
<1>4. Covers(files, active.ino, active.buf)'
  BY <1>1 DEF Inv, RecInv, Covers
<1>5. QED
  BY <1>2, <1>3, <1>4 DEF RecInv

(* Steps that drain the buffer. *)
LEMMA DrainStep ==
    ASSUME Inv, files' = Closed, UNCHANGED <<up, dir, index, recs, next>>,
           active' \in SegmentObject, active'.base = active.base, active'.ino = active.ino,
           active'.size = active.size, active'.buf = 0,
           sealed' \subseteq sealed \cup {active.ino}
    PROVE  Disk' /\ RecInv'
<1>1. /\ Closed \in Files /\ Len(Closed) = Len(files)
      /\ Closed[active.ino].disk = files[active.ino].disk + active.buf
      /\ \A i : Covers(Closed, i, 0)
  BY ClosedFacts DEF Inv
<1>2. Disk'
  BY <1>1 DEF Inv, Disk
<1>3. Ordered'
  BY DEF Inv, RecInv, Ordered
<1>4. Cursor'
  <2>1. files[active.ino].disk \in Nat /\ active.buf \in Nat
    BY ActiveFacts, DiskNat DEF Inv, Disk
  <2>2. files'[active'.ino].disk + active'.buf = files[active.ino].disk + active.buf
    BY <1>1, <2>1
  <2>3. QED
    BY <2>2 DEF Inv, RecInv, Cursor
<1>5. Covers(files, active.ino, active.buf)'
  <2>1. Covers(Closed, active.ino, 0)
    BY <1>1
  <2>2. QED
    BY <2>1 DEF Covers
<1>6. QED
  BY <1>2, <1>3, <1>4, <1>5 DEF RecInv

(* The directory has been opened at b. *)
LEMMA OpenStep ==
    ASSUME Inv, NEW f, NEW b \in Bases, NEW o, Opened(dir, f, b, o), Len(f) = Len(files),
           Covers(o.files, o.seg.ino, 0), dir' = o.dir, index' = o.index,
           files' = o.files, active' = o.seg, UNCHANGED <<recs, next>>,
           sealed' \subseteq sealed \cup {active.ino}
    PROVE  Disk' /\ RecInv'
<1>1. Disk'
  BY DEF Inv, Disk, Opened
<1>2. Ordered'
  BY DEF Inv, RecInv, Ordered
<1>3. o.seg.size = o.files[o.seg.ino].disk /\ o.seg.buf = 0 /\ o.files[o.seg.ino].disk \in Nat
  BY DiskNat DEF Opened
<1>4. Cursor'
  BY <1>3 DEF Cursor
<1>5. Covers(files, active.ino, active.buf)'
  BY <1>3 DEF Covers
<1>6. QED
  BY <1>1, <1>2, <1>4, <1>5 DEF RecInv

(* A rollover has closed the active segment and opened the next in vain.   *)
LEMMA LeftStep ==
    ASSUME Inv, nextBase + active.size \in Bases, files' = Rolled.files,
           dir' = Rolled.dir, index' \in {index, Rolled.index},
           UNCHANGED <<up, recs, next>>, active' \in SegmentObject,
           active'.base = active.base, active'.ino = active.ino,
           active'.size = active.size, active'.buf = 0,
           sealed' \subseteq sealed \cup {active.ino}
    PROVE  Disk' /\ RecInv'
<1>1. Opened(dir, Closed, nextBase + active.size, Rolled)
  BY RolledFacts DEF Inv
<1>2. /\ Closed \in Files /\ Len(Closed) = Len(files)
      /\ Closed[active.ino].disk = files[active.ino].disk + active.buf
      /\ Covers(Closed, active.ino, 0)
  BY ClosedFacts DEF Inv
<1>3. PICK f \in Files, g \in Files : f = Closed /\ g = Rolled.files
  BY <1>1, <1>2 DEF Opened
<1>4. /\ Len(f) <= Len(g) /\ \A j \in 1..Len(f) : g[j] = f[j]
      /\ dir' \in [Bases -> 0..Len(g)] /\ Rolled.index \in [Bases -> 0..Len(g)]
  BY <1>1, <1>3 DEF Opened
<1>5. /\ active.ino \in 1..Len(f) /\ Len(f) = Len(files) /\ Len(f) \in Nat /\ Len(g) \in Nat
      /\ index \in [Bases -> 0..Len(f)] /\ active.base \in Bases /\ sealed \subseteq 1..Len(f)
  BY <1>2, <1>3 DEF Inv, Disk, Files
<1>6. 0..Len(f) \subseteq 0..Len(g) /\ 1..Len(f) \subseteq 1..Len(g)
  BY <1>4, <1>5
<1>7. index' \in [Bases -> 0..Len(g)]
  BY <1>4, <1>5, <1>6
<1>8. Disk'
  BY <1>3, <1>4, <1>5, <1>6, <1>7 DEF Disk
<1>9. Ordered'
  BY DEF Inv, RecInv, Ordered
<1>10. Cursor'
  <2>1. files[active.ino].disk \in Nat /\ active.buf \in Nat
    BY ActiveFacts, DiskNat DEF Inv, Disk
  <2>2. g[active.ino].disk = files[active.ino].disk + active.buf
    BY <1>2, <1>3, <1>4, <1>5
  <2>3. files'[active'.ino].disk + active'.buf = files[active.ino].disk + active.buf
    BY <1>3, <2>1, <2>2
  <2>4. QED
    BY <2>3 DEF Inv, RecInv, Cursor
<1>11. Covers(g, active.ino, 0)
  <2>1. Covers(f, active.ino, 0) /\ Ordered
    BY <1>2, <1>3 DEF Inv, RecInv
  <2>2. QED
    BY <1>4, <1>5, <2>1, CoversMore
<1>12. Covers(files, active.ino, active.buf)'
  BY <1>3, <1>11 DEF Covers
<1>13. QED
  BY <1>8, <1>9, <1>10, <1>12 DEF RecInv

LEMMA AppendFitsStep ==
    ASSUME Inv, NEW n \in RecSizes, AppendFits(n)
    PROVE  Disk' /\ RecInv'
<1>1. /\ Store(files, active, n) /\ up
      /\ UNCHANGED <<up, dir, index, sealed>>
  BY DEF AppendFits, Append0
<1>2. /\ files \in Files /\ active \in SegmentObject /\ active.ino \in 1..Len(files)
      /\ active.size = files[active.ino].disk + active.buf
      /\ Covers(files, active.ino, active.buf) /\ Scalars /\ Ordered
  BY <1>1 DEF Inv, Disk, RecInv, Cursor
<1>3. PICK f \in Files, g \in SegmentObject : f = files /\ g = active
  BY <1>2
<1>4. /\ g.ino \in 1..Len(f) /\ g.size = f[g.ino].disk + g.buf /\ Store(f, g, n)
      /\ Covers(f, g.ino, g.buf)
  BY <1>1, <1>2, <1>3
<1>5. /\ files' \in Files /\ Len(files') = Len(f) /\ active' \in SegmentObject
      /\ active'.ino = g.ino /\ active'.base = g.base
      /\ active'.size = files'[active'.ino].disk + active'.buf
      /\ Ordered' /\ Covers(files, active.ino, active.buf)'
  BY <1>2, <1>4, StoreKeeps
<1>6. Disk'
  BY <1>1, <1>3, <1>5 DEF Inv, Disk
<1>7. QED
  BY <1>1, <1>5, <1>6 DEF RecInv, Cursor

LEMMA AppendRollsStep ==
    ASSUME Inv, NEW n \in RecSizes, AppendRolls(n)
    PROVE  Disk' /\ RecInv'
<1>1. /\ nextBase + active.size \in Bases /\ Store(Rolled.files, Rolled.seg, n)
      /\ dir' = Rolled.dir /\ index' = Rolled.index /\ Seal /\ up'
  BY DEF AppendRolls, CanClose, Append0
<1>2. Opened(dir, Closed, nextBase + active.size, Rolled) /\ Covers(Rolled.files, Rolled.seg.ino, 0)
      /\ Len(Closed) = Len(files)
  BY <1>1, RolledFacts, ClosedFacts DEF Inv
<1>3. PICK f \in Files, g \in SegmentObject : f = Rolled.files /\ g = Rolled.seg
  BY <1>2 DEF Opened
<1>4. g.ino \in 1..Len(f) /\ g.size = f[g.ino].disk /\ g.buf = 0 /\ g.base \in Bases
  BY <1>1, <1>2, <1>3 DEF Opened
<1>5. f[g.ino].disk \in Nat
  BY <1>4, DiskNat
<1>6. /\ g.size = f[g.ino].disk + g.buf /\ Store(f, g, n) /\ Covers(f, g.ino, g.buf)
  <2>1. PICK a \in Nat : a = f[g.ino].disk /\ a + 0 = a
    BY <1>5
  <2>2. g.size = f[g.ino].disk + g.buf
    BY <1>4, <2>1
  <2>3. Store(f, g, n) /\ Covers(f, g.ino, 0)
    BY <1>1, <1>2, <1>3
  <2>4. QED
    BY <1>4, <2>2, <2>3
<1>7. Scalars /\ Ordered
  BY DEF Inv, RecInv
<1>8. /\ files' \in Files /\ Len(files') = Len(f) /\ active' \in SegmentObject
      /\ active'.ino = g.ino /\ active'.base = g.base
      /\ active'.size = files'[active'.ino].disk + active'.buf
      /\ Ordered' /\ Covers(files, active.ino, active.buf)'
  BY <1>4, <1>6, <1>7, StoreKeeps
<1>9. dir' \in [Bases -> 0..Len(f)] /\ index' \in [Bases -> 0..Len(f)] /\ Len(files) <= Len(f)
  BY <1>1, <1>2, <1>3 DEF Opened
<1>10. sealed' \subseteq 1..Len(f)
  <2>1. sealed \subseteq 1..Len(files) /\ active.ino \in 1..Len(files) /\ Len(files) \in Nat
        /\ Len(f) \in Nat
    BY DEF Inv, Disk, Files
  <2>2. sealed' \subseteq sealed \cup {active.ino}
    BY <1>1 DEF Seal
  <2>3. 1..Len(files) \subseteq 1..Len(f)
    BY <1>9, <2>1
  <2>4. QED
    BY <2>1, <2>2, <2>3
<1>11. Disk'
  BY <1>4, <1>8, <1>9, <1>10 DEF Disk
<1>12. QED
  BY <1>1, <1>8, <1>11 DEF RecInv, Cursor
-----------------------------------------------------------------------------
(* The process goes down with the files f. *)
LEMMA DownStep ==
    ASSUME Inv, NEW f \in Files, Len(f) = Len(files), Down(f)
    PROVE  Disk' /\ RecInv'
<1>1. /\ up' = FALSE /\ files' = f /\ UNCHANGED <<dir, index, next, sealed>>
      /\ recs' = {r \in recs : r.pos + r.len <= f[r.ino].disk}
      /\ active' = [active EXCEPT !.size = 0, !.buf = 0, !.fd = FALSE, !.err = FALSE]
  BY DEF Down
<1>2. active' \in SegmentObject /\ active'.base = active.base /\ active'.ino = active.ino
  BY <1>1 DEF Inv, Disk, SegmentObject
<1>3. Disk'
  BY <1>1, <1>2 DEF Inv, Disk
<1>4. Ordered'
  BY <1>1 DEF Inv, RecInv, Ordered
<1>5. ASSUME NEW r \in recs' PROVE r.ino \in 1..Len(f) /\ r.pos + r.len <= f[r.ino].disk
  BY <1>1 DEF Inv, RecInv, Covers
<1>6. Covers(files, active.ino, active.buf)'
  BY <1>1, <1>5 DEF Covers
<1>7. QED
  BY <1>1, <1>3, <1>4, <1>6 DEF RecInv, Cursor

LEMMA AppendStep ==
    ASSUME Inv, NEW n \in RecSizes, AppendCall(n)
    PROVE  Disk' /\ RecInv'
<1>1. CASE AppendWriteFails(n)
  BY <1>1, ErrStep DEF AppendWriteFails
<1>2. CASE AppendCloseFails(n)
  BY <1>2, ErrStep DEF AppendCloseFails
<1>3. CASE AppendRollsInVain(n)
  <2>1. /\ nextBase + active.size \in Bases
        /\ files' = Rolled.files /\ active' = Rolled.seg
        /\ dir' = Rolled.dir /\ index' = Rolled.index /\ UNCHANGED <<recs, next>>
    BY <1>3 DEF AppendRollsInVain, CanClose
  <2>2. Opened(dir, Closed, nextBase + active.size, Rolled)
        /\ Covers(Rolled.files, Rolled.seg.ino, 0) /\ Len(Closed) = Len(files)
    BY <2>1, RolledFacts, ClosedFacts DEF Inv
  <2>3. sealed' \subseteq sealed \cup {active.ino}
    BY <1>3 DEF AppendRollsInVain, Seal
  <2>a. PICK b \in Bases : b = nextBase + active.size
    BY <2>1
  <2>4. PICK f, o : f = Closed /\ o = Rolled
    OBVIOUS
  <2>5. Opened(dir, f, b, o) /\ Covers(o.files, o.seg.ino, 0) /\ Len(f) = Len(files)
    BY <2>2, <2>a, <2>4
  <2>6. /\ dir' = o.dir /\ index' = o.index /\ files' = o.files /\ active' = o.seg
        /\ UNCHANGED <<recs, next>>
    BY <2>1, <2>4
  <2>7. QED
    BY <2>3, <2>5, <2>6, OpenStep
<1>4. CASE AppendOpenFails(n)
  <2>1. /\ active' = [active EXCEPT !.buf = 0, !.fd = FALSE]
        /\ nextBase + active.size \in Bases /\ UNCHANGED <<up, recs, next>>
        /\ \/ files' = Closed /\ UNCHANGED <<dir, index>>
           \/ /\ files' = Rolled.files /\ dir' = Rolled.dir
              /\ index' \in {index, Rolled.index}
    BY <1>4 DEF AppendOpenFails, CanClose
  <2>2. sealed' \subseteq sealed \cup {active.ino}
    BY <1>4 DEF AppendOpenFails, Seal
  <2>3. /\ active' \in SegmentObject /\ active'.base = active.base /\ active'.ino = active.ino
        /\ active'.size = active.size /\ active'.buf = 0
    BY <2>1 DEF Inv, Disk, SegmentObject
  <2>4. QED
    BY <2>1, <2>2, <2>3, DrainStep, LeftStep
<1>5. QED
  BY <1>1, <1>2, <1>3, <1>4, AppendFitsStep, AppendRollsStep DEF AppendCall

LEMMA LogStep ==
    ASSUME Inv, [Next]_vars
    PROVE  Disk' /\ RecInv'
<1>1. CASE UNCHANGED <<up, storeVars, recs, next, sealed>>
  BY <1>1 DEF Inv, Disk, RecInv, Ordered, Cursor, Covers, storeVars
<1>2. CASE Read \/ Flush
  <2>1. /\ files' = Closed /\ active' = [active EXCEPT !.buf = 0]
        /\ UNCHANGED <<up, dir, index, recs, next, sealed>>
    BY <1>2 DEF Read, Flush
  <2>2. /\ active' \in SegmentObject /\ active'.base = active.base /\ active'.ino = active.ino
        /\ active'.size = active.size /\ active'.buf = 0
    BY <2>1 DEF Inv, Disk, SegmentObject
  <2>3. QED
    BY <2>1, <2>2, DrainStep
<1>3. CASE ReadClosed
  <2>1. PICK e \in BOOLEAN : active' = [active EXCEPT !.err = e]
    <3>1. active' = [active EXCEPT !.err = active.buf > 0] /\ (active.buf > 0) \in BOOLEAN
      BY <1>3 DEF ReadClosed
    <3>2. QED
      BY <3>1, Zenon
  <2>2. UNCHANGED <<up, dir, index, files, recs, next, sealed>>
    BY <1>3 DEF ReadClosed
  <2>3. QED
    BY <2>1, <2>2, ErrStep
<1>4. CASE FlushFails
  BY <1>4, ErrStep DEF FlushFails
<1>5. CASE SweepRemoveLog \/ SweepRemoveIndex
  <2>1. /\ dir' \in [Bases -> 0..Len(files)] /\ index' \in [Bases -> 0..Len(files)]
        /\ UNCHANGED <<up, files, active, recs, next, sealed>>
    <3>1. 0 \in 0..Len(files)
      BY DEF Inv, Disk, Files
    <3>2. CASE SweepRemoveLog
      BY <3>1, <3>2 DEF SweepRemoveLog, Inv, Disk
    <3>3. CASE SweepRemoveIndex
      BY <3>1, <3>3 DEF SweepRemoveIndex, Inv, Disk
    <3>4. QED
      BY <1>5, <3>2, <3>3
  <2>2. QED
    BY <2>1 DEF Inv, Disk, RecInv, Ordered, Cursor, Covers
<1>6. CASE \/ ReadDone \/ SweepStart \/ SweepList \/ SweepStat \/ SweepRemoveFails
           \/ Tick \/ UNCHANGED vars
  BY <1>1, <1>6 DEF ReadDone, SweepStart, SweepList, SweepStat, SweepRemoveFails, Tick, vars
<1>7. CASE Close \/ Kill
  <2>1. files \in Files /\ Closed \in Files /\ Len(Closed) = Len(files)
    BY ClosedFacts DEF Inv, Disk
  <2>2. PICK f \in Files : Len(f) = Len(files) /\ Down(f)
    BY <1>7, <2>1 DEF Close, Kill
  <2>3. QED
    BY <2>2, DownStep
<1>8. CASE OpenPartitionStore
  <2>1. PICK o : o = OpenSegment(dir, index, files, 0)
    OBVIOUS
  <2>2. /\ dir' = o.dir /\ index' = o.index /\ files' = o.files /\ active' = o.seg
        /\ UNCHANGED <<recs, next, sealed>> /\ ~up
    BY <1>8, <2>1 DEF OpenPartitionStore
  <2>3. Opened(dir, files, 0, o)
    <3>1. PICK f \in Files : f = files
      BY DEF Inv, Disk
    <3>2. PICK d \in [Bases -> 0..Len(f)], x \in [Bases -> 0..Len(f)] : d = dir /\ x = index
      BY <3>1 DEF Inv, Disk
    <3>3. PICK b \in Bases : b = 0
      BY BasesFacts
    <3>4. now \in Nat /\ o = OpenSegment(d, x, f, b)
      BY <2>1, <3>1, <3>2, <3>3, NowIsNat DEF Inv
    <3>5. Opened(d, f, b, o)
      BY <3>4, OpenFacts
    <3>6. QED
      BY <3>1, <3>2, <3>3, <3>5
  <2>4. Covers(o.files, o.seg.ino, 0)
    <3>1. PICK f \in Files : f = files
      BY DEF Inv, Disk
    <3>2. Opened(dir, f, 0, o)
      BY <2>3, <3>1
    <3>3. /\ o.files \in Files /\ Len(f) <= Len(o.files)
          /\ \A k \in 1..Len(f) : o.files[k] = f[k]
      BY <3>2 DEF Opened
    <3>4. Covers(f, active.ino, 0) /\ Ordered /\ active.ino \in 1..Len(f)
      BY <2>2, <3>1 DEF Inv, RecInv, Cursor, Disk
    <3>5. QED
      BY <3>3, <3>4, CoversMore
  <2>a. PICK b \in Bases : b = 0
    BY BasesFacts
  <2>5. PICK f : f = files
    OBVIOUS
  <2>6. sealed' \subseteq sealed \cup {active.ino} /\ Len(f) = Len(files)
        /\ Opened(dir, f, b, o)
    BY <2>2, <2>3, <2>a, <2>5
  <2>7. /\ dir' = o.dir /\ index' = o.index /\ files' = o.files /\ active' = o.seg
        /\ UNCHANGED <<recs, next>>
    BY <2>2
  <2>8. QED
    BY <2>4, <2>6, <2>7, OpenStep
<1>9. QED
  BY <1>2, <1>3, <1>4, <1>5, <1>6, <1>7, <1>8, AppendStep DEF Next, Sweep
-----------------------------------------------------------------------------
LEMMA SweepStep ==
    ASSUME Inv, Sweep
    PROVE  sweep' \in Sweeps /\ UNCHANGED <<up, reader, now, restarts, nextBase>>
<1>1. sweep \in Sweeps /\ active.base \in Bases /\ now - Retention \in Int
  BY PartitionStoreAssumption, NowIsNat DEF Inv, Scalars, Disk
<1>2. Idle \in Sweeps
  BY BasesFacts DEF Idle, Sweeps
<1>3. CASE SweepStart
  BY <1>1, <1>2, <1>3 DEF SweepStart, Sweeps, storeVars
<1>4. CASE SweepList
  BY <1>1, <1>4 DEF SweepList, Sweeps, storeVars
<1>5. CASE SweepStat
  <2>1. CASE sweep' = Idle
    BY <1>2, <1>5, <2>1 DEF SweepStat, storeVars
  <2>2. ASSUME NEW b \in sweep.todo, NEW c \in {"log", "scan"},
               sweep' = [sweep EXCEPT !.todo = sweep.todo \ {b}, !.victim = b, !.pc = c]
        PROVE  sweep' \in Sweeps
    BY <1>1, <2>2 DEF Sweeps
  <2>3. sweep' = Idle \/ \E b \in sweep.todo : \E c \in {"log", "scan"} :
          sweep' = [sweep EXCEPT !.todo = sweep.todo \ {b}, !.victim = b, !.pc = c]
    BY <1>5 DEF SweepStat
  <2>4. QED
    BY <1>5, <2>1, <2>2, <2>3 DEF SweepStat, storeVars
<1>6. CASE SweepRemoveLog
  BY <1>1, <1>6 DEF SweepRemoveLog, Sweeps
<1>7. CASE SweepRemoveIndex
  BY <1>1, <1>7, BasesFacts DEF SweepRemoveIndex, Sweeps
<1>8. CASE SweepRemoveFails
  BY <1>1, <1>8, BasesFacts DEF SweepRemoveFails, Sweeps, storeVars
<1>9. QED
  BY <1>3, <1>4, <1>5, <1>6, <1>7, <1>8 DEF Sweep

LEMMA ScalarsStep ==
    ASSUME Inv, [Next]_vars
    PROVE  Scalars'
<1>1. CASE UNCHANGED <<up, reader, sweep, now, restarts, nextBase>>
  BY <1>1 DEF Inv, Scalars
<1>2. ASSUME NEW n \in RecSizes, AppendCall(n) PROVE Scalars'
  <2>1. CASE AppendFits(n) \/ AppendWriteFails(n) \/ AppendCloseFails(n)
    BY <1>1, <2>1 DEF AppendFits, AppendWriteFails, AppendCloseFails
  <2>2. CASE AppendRolls(n) \/ AppendRollsInVain(n) \/ AppendOpenFails(n)
    <3>1. /\ UNCHANGED <<up, sweep, now, restarts>> /\ nextBase' = nextBase + active.size
          /\ DropReader
      BY <2>2 DEF AppendRolls, AppendRollsInVain, AppendOpenFails
    <3>2. nextBase' \in Nat
      BY <3>1, ActiveFacts DEF Inv, Scalars
    <3>3. reader' \in {"none", "live", "dead"}
      BY <3>1 DEF DropReader, Inv, Scalars
    <3>4. QED
      BY <3>1, <3>2, <3>3 DEF Inv, Scalars
  <2>3. QED
    BY <1>2, <2>1, <2>2 DEF AppendCall
<1>3. CASE Read \/ ReadClosed \/ ReadDone \/ Flush \/ FlushFails
  BY <1>3 DEF Read, ReadClosed, ReadDone, Flush, FlushFails, storeVars, Inv, Scalars
<1>4. CASE Sweep
  BY <1>4, SweepStep DEF Inv, Scalars
<1>5. CASE Tick
  BY <1>5, PartitionStoreAssumption DEF Tick, storeVars, Inv, Scalars
<1>6. ASSUME NEW f, Down(f) PROVE Scalars'
  <2>1. /\ up' = FALSE /\ sweep' = Idle /\ reader' = "none" /\ restarts' = restarts + 1
        /\ restarts < MaxRestarts /\ UNCHANGED <<nextBase, now>>
    BY <1>6 DEF Down
  <2>2. Idle \in Sweeps
    BY BasesFacts DEF Idle, Sweeps
  <2>3. restarts' \in 0..MaxRestarts
    BY <2>1, PartitionStoreAssumption DEF Inv, Scalars
  <2>4. QED
    BY <2>1, <2>2, <2>3 DEF Inv, Scalars
<1>7. CASE Close \/ Kill
  BY <1>6, <1>7 DEF Close, Kill
<1>8. CASE OpenPartitionStore
  BY <1>8 DEF OpenPartitionStore, Inv, Scalars
<1>9. CASE UNCHANGED vars
  BY <1>1, <1>9 DEF vars, storeVars
<1>10. QED
  BY <1>2, <1>3, <1>4, <1>5, <1>7, <1>8, <1>9 DEF Next

LEMMA InitHolds == Init => Inv
<1> SUFFICES ASSUME Init PROVE Inv
  OBVIOUS
<1> USE PartitionStoreAssumption
<1>1. PICK e \in File : e = [disk |-> 0, mtime |-> 0]
  BY DEF File
<1>2. files = <<e>> /\ e.disk = 0
  BY <1>1 DEF Init
<1>3. files \in Files /\ Len(files) = 1 /\ files[1] = e
  BY <1>2 DEF Files
<1>4. Idle \in Sweeps
  BY BasesFacts DEF Idle, Sweeps
<1>5. Scalars
  BY <1>4 DEF Init, Scalars
<1>6. /\ active \in SegmentObject /\ active.base = 0 /\ active.ino = 1 /\ active.size = 0
      /\ active.buf = 0
  BY DEF Init, SegmentObject
<1>7. Disk
  BY <1>3, <1>6, BasesFacts DEF Init, Disk
<1>8. Ordered /\ Covers(files, active.ino, active.buf)
  BY DEF Init, Ordered, Covers
<1>9. Cursor
  BY <1>2, <1>3, <1>6 DEF Init, Cursor
<1>10. QED
  BY <1>5, <1>7, <1>8, <1>9 DEF Inv, RecInv

LEMMA Inductive == Spec => []Inv
<1>1. ASSUME Inv, [Next]_vars PROVE Inv'
  BY <1>1, LogStep, ScalarsStep DEF Inv
<1>2. QED
  BY <1>1, InitHolds, PTL DEF Spec

(* Every variable keeps its type: the cursor, the base and the inode of    *)
(* the active segment name a file that was created.                        *)
THEOREM TypeCorrect == Spec => []TypeOK
<1>1. Inv => TypeOK
  BY DEF Inv, Scalars, Disk, RecInv, Ordered, TypeOK, Files, File, Record, Sweeps
<1>2. QED
  BY <1>1, Inductive, PTL

(* Append puts every record after the ones before it in the same file, and *)
(* returns its place there: through rollovers, failed ones included, kills *)
(* and restarts that open old segments again.                              *)
THEOREM RecordsStayApart == Spec => []RecordsApart
<1>1. Inv => RecordsApart
  BY DEF Inv, RecInv, Ordered, RecordsApart
<1>2. QED
  BY <1>1, Inductive, PTL
-----------------------------------------------------------------------------
(* Only a segment that a failed rollover has closed has a failing buffer. *)
Healthy == up => (active.fd = TRUE => active.err = FALSE)

LEMMA HealthyStep ==
    ASSUME Inv, Healthy, [Next]_vars
    PROVE  Healthy'
<1>1. CASE UNCHANGED <<up, active>>
  BY <1>1 DEF Healthy
<1>2. ASSUME up, active'.fd = active.fd, active'.err = active.err PROVE Healthy'
  BY <1>2 DEF Healthy
<1>3. ASSUME active'.fd = FALSE PROVE Healthy'
  BY <1>3 DEF Healthy
<1>4. ASSUME active'.err = FALSE PROVE Healthy'
  BY <1>4 DEF Healthy
<1>5. active \in SegmentObject /\ active.fd \in BOOLEAN
  BY ActiveFacts DEF Inv, Disk
<1>6. ASSUME NEW n \in RecSizes, AppendCall(n) PROVE Healthy'
  <2>1. CASE AppendFits(n)
    BY <1>2, <1>5, <2>1 DEF AppendFits, Append0, Store, SegmentObject
  <2>2. CASE AppendRolls(n) \/ AppendRollsInVain(n)
    <3>1. nextBase + active.size \in Bases
      BY <2>2 DEF AppendRolls, AppendRollsInVain, CanClose
    <3>2. Rolled.seg \in SegmentObject /\ Rolled.seg.err = FALSE
      BY <3>1, RolledFacts DEF Inv, Opened
    <3>3. active'.err = FALSE
      BY <2>2, <3>2 DEF AppendRolls, AppendRollsInVain, Store, SegmentObject
    <3>4. QED
      BY <1>4, <3>3
  <2>3. CASE AppendOpenFails(n)
    BY <1>3, <1>5, <2>3 DEF AppendOpenFails, SegmentObject
  <2>4. CASE AppendWriteFails(n) \/ AppendCloseFails(n)
    BY <1>3, <1>5, <2>4 DEF AppendWriteFails, AppendCloseFails, Writable, SegmentObject
  <2>5. QED
    BY <1>6, <2>1, <2>2, <2>3, <2>4 DEF AppendCall
<1>7. CASE Read \/ Flush
  BY <1>2, <1>5, <1>7 DEF Read, Flush, SegmentObject
<1>8. CASE ReadClosed \/ FlushFails
  BY <1>3, <1>5, <1>8 DEF ReadClosed, FlushFails, SegmentObject
<1>9. CASE ReadDone \/ Sweep \/ Tick \/ UNCHANGED vars
  BY <1>1, <1>9 DEF ReadDone, Sweep, SweepStart, SweepList, SweepStat, SweepRemoveLog,
                    SweepRemoveIndex, SweepRemoveFails, Tick, vars, storeVars
<1>10. CASE Close \/ Kill
  BY <1>10 DEF Close, Kill, Down, Healthy
<1>11. CASE OpenPartitionStore
  BY <1>11 DEF OpenPartitionStore, OpenSegment, Healthy
<1>12. QED
  BY <1>6, <1>7, <1>8, <1>9, <1>10, <1>11 DEF Next

(* An acknowledged record is in its file or in the buffer of a segment     *)
(* that can be flushed, whatever segments a restart opens again; only a    *)
(* segment that a failed rollover left closed acknowledges others.         *)
THEOREM AckedStayWritable == Spec => []AckedWritableUnlessClosed
<1>1. Init => Healthy
  BY DEF Init, Healthy
<1>2. Inv /\ Healthy /\ [Next]_vars => Healthy'
  BY HealthyStep
<1>3. Inv /\ Healthy => AckedWritableUnlessClosed
  <2> SUFFICES ASSUME Inv, Healthy, NEW r \in recs
               PROVE  \/ r.pos + r.len <= files[r.ino].disk
                      \/ up /\ r.ino = active.ino /\ (active.fd => ~active.err)
    BY DEF AckedWritableUnlessClosed
  <2>1. \/ r.pos + r.len <= files[r.ino].disk
        \/ r.ino = active.ino /\ r.pos + r.len <= files[active.ino].disk + active.buf
    BY DEF Inv, RecInv, Covers
  <2>2. files[active.ino].disk \in Nat
    BY DiskNat DEF Inv, Disk
  <2>3. ~up /\ r.ino = active.ino /\ r.pos + r.len <= files[active.ino].disk + active.buf
          => r.pos + r.len <= files[r.ino].disk
    BY <2>2 DEF Inv, RecInv, Cursor
  <2>4. up => (active.fd => ~active.err)
    BY ActiveFacts DEF Inv, Healthy
  <2>5. up \in BOOLEAN
    BY DEF Inv, Scalars
  <2>6. QED
    BY <2>1, <2>3, <2>4, <2>5
<1>4. QED
  BY <1>1, <1>2, <1>3, Inductive, PTL DEF Spec
-----------------------------------------------------------------------------
(* In one run of the process the segments follow one another, and the      *)
(* active one has the greatest base; once a failed rollover has left it    *)
(* closed, the file that rollover made may be beyond it.                   *)
Chained ==
    /\ up = TRUE /\ dir[active.base] = active.ino
    /\ active.fd = TRUE => /\ nextBase = active.base /\ active.ino \notin sealed
                           /\ \A b \in Bases : dir[b] # 0 => b <= active.base
    /\ \A b, c \in Bases :
         b < c /\ dir[b] # 0 /\ dir[c] # 0 => /\ dir[b] # dir[c]
                                              /\ b + files[dir[b]].disk <= c

(* What a sweep will look at: the active segment is the one that it skips, *)
(* or was created after the snapshot and is too young to be removed.       *)
Spares ==
    /\ sweep.pc = "snapped" =>
         sweep.skip = active.base \/ files[active.ino].mtime = now
    /\ sweep.pc \in {"scan", "log", "index"} =>
         /\ sweep.cutoff <= now - Retention /\ sweep.skip \notin sweep.todo
         /\ active.fd = TRUE => \A b \in sweep.todo : b <= active.base
         /\ sweep.skip = active.base \/ files[active.ino].mtime > sweep.cutoff
    /\ sweep.pc \in {"log", "index"} =>
         /\ sweep.victim # active.base
         /\ active.fd = TRUE => sweep.victim < active.base
    /\ sweep.pc = "log" /\ dir[sweep.victim] # 0 =>
         files[dir[sweep.victim]].mtime <= sweep.cutoff

Honoured ==
    \A b \in Bases : dir[b] # 0 /\ dir'[b] = 0 => now - files[dir[b]].mtime >= Retention

RunInv == Inv /\ Chained /\ Spares

LEMMA RunFacts ==
    ASSUME RunInv
    PROVE  /\ active.base \in Bases /\ active.base \in Nat /\ active.ino \in 1..Len(files)
           /\ active.size \in Nat /\ active.buf \in Nat /\ Len(files) \in Nat
           /\ now \in Nat /\ Retention \in Nat \ {0} /\ Bases \subseteq Nat
           /\ \A b \in Bases : dir[b] \in 0..Len(files)
           /\ \A j \in 1..Len(files) : files[j].disk \in Nat /\ files[j].mtime \in Nat
           /\ sweep.cutoff \in Int /\ sweep.skip \in Bases /\ sweep.todo \subseteq Bases
           /\ sweep.victim \in Bases
           /\ active.size = files[active.ino].disk + active.buf
<1>1. Inv /\ Scalars /\ Disk /\ RecInv
  BY DEF RunInv, Inv
<1>2. /\ active.size \in Nat /\ active.buf \in Nat
  BY <1>1, ActiveFacts
<1>3. files \in Files /\ active.ino \in 1..Len(files) /\ active.base \in Bases
      /\ \A b \in Bases : dir[b] \in 0..Len(files)
  BY <1>1 DEF Disk
<1>4. Len(files) \in Nat
  BY <1>3 DEF Files
<1>5. \A j \in 1..Len(files) : files[j].disk \in Nat /\ files[j].mtime \in Nat
  BY <1>3, DiskNat
<1>6. /\ sweep.cutoff \in Int /\ sweep.skip \in Bases /\ sweep.todo \subseteq Bases
      /\ sweep.victim \in Bases
  BY <1>1 DEF Scalars, Sweeps
<1>7. active.size = files[active.ino].disk + active.buf
  BY <1>1 DEF RunInv, Chained, RecInv, Cursor
<1>8. now \in Nat /\ Retention \in Nat \ {0} /\ Bases \subseteq Nat
  BY <1>1, NowIsNat, BasesFacts, PartitionStoreAssumption
<1>9. QED
  BY <1>2, <1>3, <1>4, <1>5, <1>6, <1>7, <1>8

(* Steps that write at most to the active segment's file. *)
LEMMA SameSegment ==
    ASSUME RunInv, UNCHANGED <<up, dir, sweep, now>>, active'.base = active.base,
           active'.ino = active.ino, Len(files') = Len(files),
           files' = files \/ active.fd = TRUE,
           files'[active.ino].mtime \in {files[active.ino].mtime, now},
           \A j \in 1..Len(files) : j # active.ino => files'[j] = files[j],
           active'.fd = TRUE => /\ active.fd = TRUE /\ nextBase' = nextBase
                                /\ sealed' = sealed
    PROVE  Chained' /\ Spares' /\ SealedUntouched /\ Honoured
<1>a. /\ active.base \in Bases /\ active.ino \in 1..Len(files) /\ Len(files) \in Nat
      /\ Bases \subseteq Nat /\ \A b \in Bases : dir[b] \in 0..Len(files)
  BY RunFacts
<1>b. now \in Nat /\ Retention \in Nat \ {0} /\ sweep.cutoff \in Int /\ sweep.victim \in Bases
  BY RunFacts
<1>c. Chained /\ Spares
  BY DEF RunInv
<1>1. ASSUME NEW b \in Bases, b # active.base, dir[b] # 0
      PROVE  files'[dir[b]] = files[dir[b]]
  <2>1. dir[active.base] = active.ino /\ active.ino # 0
    BY <1>a, <1>c DEF Chained
  <2>2. \A c, d \in Bases : c < d /\ dir[c] # 0 /\ dir[d] # 0 => dir[c] # dir[d]
    BY <1>c DEF Chained
  <2>3. b < active.base \/ active.base < b
    <3>1. PICK x \in Nat, y \in Nat : x = b /\ y = active.base
      BY <1>a
    <3>2. x < y \/ y < x
      BY <1>1, <3>1
    <3>3. QED
      BY <3>1, <3>2
  <2>4. dir[b] # active.ino
    <3>1. active.base \in Bases
      BY <1>a
    <3>2. b < active.base => dir[b] # dir[active.base]
      BY <1>1, <2>1, <2>2, <3>1
    <3>3. active.base < b => dir[b] # dir[active.base]
      BY <1>1, <2>1, <2>2, <3>1
    <3>4. QED
      BY <2>1, <2>3, <3>2, <3>3
  <2>5. QED
    BY <1>1, <1>a, <2>4
<1>2. Chained'
  <2>1. ASSUME NEW b \in Bases, NEW c \in Bases, b < c, dir[b] # 0, dir[c] # 0
        PROVE  dir[b] # dir[c] /\ b + files'[dir[b]].disk <= c
    <3>1. CASE b = active.base
      <4>1. ~(c <= active.base)
        BY <1>a, <2>1, <3>1
      <4>2. active.fd # TRUE
        BY <1>c, <2>1, <4>1 DEF Chained
      <4>3. files' = files
        BY <4>2
      <4>4. QED
        BY <1>c, <2>1, <4>3 DEF Chained
    <3>2. CASE b # active.base
      <4>1. files'[dir[b]] = files[dir[b]]
        BY <1>1, <2>1, <3>2
      <4>2. QED
        BY <1>c, <2>1, <4>1 DEF Chained
    <3>3. QED
      BY <3>1, <3>2
  <2>2. QED
    BY <1>c, <2>1 DEF Chained
<1>3. Spares'
  <2>1. sweep.pc \in {"scan", "log", "index"} =>
          sweep.skip = active.base \/ files'[active.ino].mtime > sweep.cutoff
    <3>1. sweep.cutoff <= now - Retention => now > sweep.cutoff
      BY <1>b
    <3>2. QED
      BY <1>c, <3>1 DEF Spares
  <2>2. sweep.pc = "snapped" => sweep.skip = active.base \/ files'[active.ino].mtime = now
    BY DEF RunInv, Spares
  <2>3. sweep.pc = "log" /\ dir[sweep.victim] # 0 =>
          files'[dir[sweep.victim]].mtime <= sweep.cutoff
    BY <1>1, <1>b, <1>c DEF Spares
  <2>4. QED
    BY <2>1, <2>2, <2>3 DEF RunInv, Spares
<1>4. SealedUntouched
  <2>1. ASSUME NEW i \in sealed PROVE files'[i].disk = files[i].disk
    <3>1. CASE files' = files
      BY <3>1
    <3>2. CASE active.fd = TRUE
      <4>1. i # active.ino /\ i \in 1..Len(files)
        BY <3>2 DEF RunInv, Inv, Disk, Chained
      <4>2. QED
        BY <4>1
    <3>3. QED
      BY <3>1, <3>2
  <2>2. QED
    BY <2>1 DEF SealedUntouched
<1>5. Honoured
  BY DEF Honoured
<1>6. QED
  BY <1>2, <1>3, <1>4, <1>5
-----------------------------------------------------------------------------
(* A rollover makes the file of a segment that was not there. *)
NewLog(nb) ==
    /\ nb \in Bases /\ nb = active.base + active.size
    /\ active.fd = TRUE /\ active.size > 0 /\ sealed' = sealed \cup {active.ino}
    /\ dir' = [dir EXCEPT ![nb] = Len(files) + 1]
    /\ \A j \in 1..Len(files) : files'[j] = Closed[j]

LEMMA CreatedLog ==
    ASSUME RunInv, NEW nb, NewLog(nb)
    PROVE  /\ active.base \in Nat /\ nb \in Nat /\ active.base < nb
           /\ dir'[nb] = Len(files) + 1 /\ \A b \in Bases : b # nb => dir'[b] = dir[b]
           /\ \A b \in Bases : dir'[b] # 0 => b <= nb
           /\ \A b, c \in Bases :
                b < c /\ dir'[b] # 0 /\ dir'[c] # 0 => /\ dir'[b] # dir'[c]
                                                       /\ b + files'[dir'[b]].disk <= c
           /\ \A b \in Bases : b < active.base /\ dir[b] # 0
                                   => files'[dir[b]] = files[dir[b]]
           /\ SealedUntouched /\ Honoured
<1> USE DEF NewLog
<1>a. /\ active.base \in Bases /\ active.ino \in 1..Len(files) /\ Len(files) \in Nat
      /\ Bases \subseteq Nat /\ \A b \in Bases : dir[b] \in 0..Len(files)
      /\ active.size \in Nat /\ active.buf \in Nat
      /\ active.size = files[active.ino].disk + active.buf
  BY RunFacts
<1>b. /\ now \in Nat /\ Retention \in Nat \ {0} /\ sweep.cutoff \in Int
      /\ sweep.victim \in Bases /\ sweep.todo \subseteq Bases
  BY RunFacts
<1>c. Chained /\ Spares /\ Inv /\ dir \in [Bases -> 0..Len(files)]
  BY DEF RunInv, Inv, Disk
<1>d. /\ Closed[active.ino].disk = files[active.ino].disk + active.buf
      /\ \A j \in 1..Len(files) : j # active.ino => Closed[j] = files[j]
  BY <1>c, ClosedFacts DEF Inv
<1>e. active.base \in Nat /\ nb \in Nat /\ active.base < nb
  <2>1. active.base \in Nat /\ nb \in Nat
    BY <1>a
  <2>2. PICK x \in Nat, y \in Nat : x = active.base /\ y = active.size
    BY <1>a, <2>1
  <2>3. nb = x + y /\ y > 0
    BY <2>2
  <2>4. x < nb
    BY <2>3
  <2>5. QED
    BY <2>1, <2>2, <2>4
<1>f. \A b \in Bases : dir[b] # 0 => b <= active.base
  BY <1>c DEF Chained
<1>1. dir[nb] = 0
  BY <1>e, <1>f
<1>2. dir'[nb] = Len(files) + 1 /\ \A b \in Bases : b # nb => dir'[b] = dir[b]
  BY <1>c
<1>3. ASSUME NEW b \in Bases, b < active.base, dir[b] # 0
      PROVE  files'[dir[b]] = files[dir[b]]
  <2>1. dir[active.base] = active.ino /\ active.ino # 0
    BY <1>a, <1>c DEF Chained
  <2>2. \A c \in Bases : b < c /\ dir[b] # 0 /\ dir[c] # 0 => dir[b] # dir[c]
    BY <1>c DEF Chained
  <2>c. active.base \in Bases
    BY <1>a
  <2>a. dir[b] # active.ino
    BY <1>3, <2>1, <2>2, <2>c
  <2>b. dir[b] \in 0..Len(files) /\ Len(files) \in Nat
    BY <1>a
  <2>3. dir[b] # active.ino /\ dir[b] \in 1..Len(files)
    BY <1>3, <2>a, <2>b
  <2>4. QED
    BY <1>d, <2>3
<1>4. ASSUME NEW b \in Bases, dir'[b] # 0 PROVE b <= nb
  BY <1>2, <1>4, <1>a, <1>e, <1>f
<1>5. ASSUME NEW b \in Bases, NEW c \in Bases, b < c, dir'[b] # 0, dir'[c] # 0
      PROVE  dir'[b] # dir'[c] /\ b + files'[dir'[b]].disk <= c
  <2>1. b \in Nat /\ c \in Nat /\ c <= nb /\ b # nb
    BY <1>4, <1>5, <1>a
  <2>2. dir'[b] = dir[b] /\ b <= active.base
    BY <1>2, <1>5, <1>f, <2>1
  <2>3. CASE c # nb
    <3>1. dir'[c] = dir[c] /\ c <= active.base
      BY <1>2, <1>5, <1>f, <2>3
    <3>2. b < active.base /\ dir[b] # 0 /\ dir[c] # 0
      BY <1>5, <1>e, <2>1, <2>2, <3>1
    <3>3. files'[dir[b]] = files[dir[b]]
      BY <1>3, <3>2
    <3>4. dir[b] # dir[c] /\ b + files[dir[b]].disk <= c
      BY <1>c, <1>5, <3>2 DEF Chained
    <3>5. QED
      BY <2>2, <3>1, <3>3, <3>4
  <2>4. CASE c = nb
    <3>1. dir'[b] # dir'[c]
      <4>1. dir[b] \in 0..Len(files)
        BY <1>a
      <4>2. QED
        BY <1>2, <1>a, <2>2, <2>4, <4>1
    <3>2. CASE b = active.base
      <4>1. dir'[b] = active.ino /\ active.ino \in 1..Len(files)
        BY <1>a, <1>c, <2>2, <3>2 DEF Chained
      <4>2. files'[dir'[b]].disk = active.size
        BY <1>a, <1>d, <4>1
      <4>3. b + files'[dir'[b]].disk = nb
        BY <3>2, <4>2
      <4>4. QED
        BY <1>e, <2>4, <3>1, <4>3
    <3>3. CASE b # active.base
      <4>1. b < active.base /\ dir[b] # 0
        BY <1>5, <1>e, <2>1, <2>2, <3>3
      <4>2. files'[dir[b]] = files[dir[b]]
        BY <1>3, <4>1
      <4>a. dir[active.base] = active.ino /\ active.base \in Bases
        BY <1>a, <1>c DEF Chained
      <4>b. active.ino # 0
        BY <1>a
      <4>3. dir[active.base] # 0
        BY <4>a, <4>b
      <4>c. \A z \in Bases : b < z /\ dir[b] # 0 /\ dir[z] # 0
                              => b + files[dir[b]].disk <= z
        BY <1>c DEF Chained
      <4>4. b + files[dir[b]].disk <= active.base
        BY <4>1, <4>3, <4>a, <4>c
      <4>5. files[dir[b]].disk \in Nat
        <5>1. dir[b] \in 1..Len(files)
          BY <1>a, <4>1
        <5>2. \A j \in 1..Len(files) : files[j].disk \in Nat
          BY RunFacts
        <5>3. QED
          BY <5>1, <5>2
      <4>6. QED
        BY <1>e, <2>1, <2>2, <2>4, <3>1, <4>2, <4>4, <4>5
    <3>4. QED
      BY <3>2, <3>3
  <2>5. QED
    BY <2>3, <2>4
<1>8. SealedUntouched
  <2>1. ASSUME NEW i \in sealed PROVE files'[i].disk = files[i].disk
    <3>1. i \in 1..Len(files) /\ i # active.ino
      BY <1>c DEF Inv, Disk, Chained
    <3>2. QED
      BY <1>d, <3>1
  <2>2. QED
    BY <2>1 DEF SealedUntouched
<1>9. Honoured
  <2>1. ASSUME NEW b \in Bases, dir[b] # 0 PROVE dir'[b] # 0
    BY <1>2, <1>a, <2>1
  <2>2. QED
    BY <2>1 DEF Honoured
<1>10. QED
  BY <1>2, <1>3, <1>4, <1>5, <1>8, <1>9, <1>e

(* A rollover to a segment that was not there. *)
LEMMA NewSegment ==
    ASSUME RunInv, UNCHANGED <<up, sweep, now>>, NEW nb, NewLog(nb),
           active'.base = nb, active'.ino = Len(files) + 1, nextBase' = nb,
           files'[Len(files) + 1].mtime = now
    PROVE  Chained' /\ Spares' /\ SealedUntouched /\ Honoured
<1>a. /\ active.ino \in 1..Len(files) /\ Len(files) \in Nat
      /\ Bases \subseteq Nat /\ \A b \in Bases : dir[b] \in 0..Len(files)
  BY RunFacts
<1>b. /\ now \in Nat /\ Retention \in Nat \ {0} /\ sweep.cutoff \in Int
      /\ sweep.victim \in Bases /\ sweep.todo \subseteq Bases
  BY RunFacts
<1>c. Chained /\ Spares /\ Inv /\ active.fd = TRUE /\ nb \in Bases
      /\ sealed' = sealed \cup {active.ino}
  BY DEF RunInv, NewLog
<1>e. active.base \in Nat /\ nb \in Nat /\ active.base < nb
  BY CreatedLog
<1>2. dir'[nb] = Len(files) + 1 /\ \A b \in Bases : b # nb => dir'[b] = dir[b]
  BY CreatedLog
<1>3. \A b \in Bases : b < active.base /\ dir[b] # 0 => files'[dir[b]] = files[dir[b]]
  BY CreatedLog
<1>4. \A b \in Bases : dir'[b] # 0 => b <= nb
  BY CreatedLog
<1>5. \A b, c \in Bases :
        b < c /\ dir'[b] # 0 /\ dir'[c] # 0 => /\ dir'[b] # dir'[c]
                                               /\ b + files'[dir'[b]].disk <= c
  BY CreatedLog
<1>6. Chained'
  <2>1. active'.ino \notin sealed' /\ up'
    <3>1. sealed \subseteq 1..Len(files) /\ up = TRUE
      BY <1>c DEF Inv, Disk, Chained
    <3>2. Len(files) + 1 \notin 1..Len(files) /\ Len(files) + 1 # active.ino
      BY <1>a
    <3>3. QED
      BY <1>c, <3>1, <3>2
  <2>2. QED
    BY <1>2, <1>4, <1>5, <2>1 DEF Chained, RunInv
<1>7. Spares'
  <2>1. sweep.pc \in {"scan", "log", "index"} => now > sweep.cutoff
    BY <1>b, <1>c DEF Spares
  <2>2. \A b \in Bases : b <= active.base => b <= nb
    <3>1. PICK x \in Nat : x = active.base /\ x < nb
      BY <1>e
    <3>2. \A b \in Bases : b \in Nat
      BY <1>a
    <3>3. \A b \in Nat : b <= x => b <= nb
      BY <1>e, <3>1
    <3>4. QED
      BY <3>1, <3>2, <3>3
  <2>3. sweep.pc \in {"log", "index"} => /\ sweep.victim < nb /\ sweep.victim < active.base
                                        /\ sweep.victim # nb
    <3>1. sweep.pc \in {"log", "index"} => sweep.victim < active.base
      BY <1>c DEF Spares
    <3>2. sweep.victim \in Nat
      BY <1>a, <1>b
    <3>3. sweep.victim < active.base => sweep.victim < nb /\ sweep.victim # nb
      BY <1>e, <3>2
    <3>4. QED
      BY <3>1, <3>3
  <2>4. ASSUME sweep.pc = "log", dir'[sweep.victim] # 0
        PROVE  files'[dir'[sweep.victim]].mtime <= sweep.cutoff
    <3>1. sweep.victim # nb /\ sweep.victim < active.base
      BY <1>a, <1>b, <1>e, <2>3, <2>4
    <3>2. dir'[sweep.victim] = dir[sweep.victim]
      BY <1>2, <1>b, <3>1
    <3>3. files[dir[sweep.victim]].mtime <= sweep.cutoff
      BY <1>c, <2>4, <3>2 DEF Spares
    <3>4. files'[dir[sweep.victim]] = files[dir[sweep.victim]]
      BY <1>3, <1>b, <2>4, <3>1, <3>2
    <3>5. QED
      BY <3>2, <3>3, <3>4
  <2>5. \A b \in sweep.todo : sweep.pc \in {"scan", "log", "index"} => b <= nb
    BY <1>b, <1>c, <2>2 DEF Spares
  <2>6. QED
    BY <1>c, <2>1, <2>3, <2>4, <2>5 DEF Spares
<1>8. QED
  BY <1>6, <1>7, CreatedLog

(* The same file, left by a rollover that could not open the segment. *)
LEMMA LeftSegment ==
    ASSUME RunInv, UNCHANGED <<up, sweep, now>>, NEW nb, NewLog(nb),
           active'.base = active.base, active'.ino = active.ino, active'.fd = FALSE
    PROVE  Chained' /\ Spares' /\ SealedUntouched /\ Honoured
<1>a. active.ino \in 1..Len(files) /\ active.base \in Bases
  BY RunFacts
<1>b. /\ now \in Nat /\ Retention \in Nat \ {0} /\ sweep.cutoff \in Int
      /\ sweep.victim \in Bases
  BY RunFacts
<1>c. Chained /\ Spares /\ Inv /\ active.fd = TRUE
  BY DEF RunInv, NewLog
<1>d. files'[active.ino].mtime \in {files[active.ino].mtime, now}
  <2>1. Closed[active.ino].mtime \in {files[active.ino].mtime, now}
    BY <1>c, ClosedFacts DEF Inv
  <2>2. QED
    BY <1>a, <2>1 DEF NewLog
<1>e. active.base \in Nat /\ nb \in Nat /\ active.base < nb
  BY CreatedLog
<1>2. \A b \in Bases : b # nb => dir'[b] = dir[b]
  BY CreatedLog
<1>3. \A b \in Bases : b < active.base /\ dir[b] # 0 => files'[dir[b]] = files[dir[b]]
  BY CreatedLog
<1>4. \A b, c \in Bases :
        b < c /\ dir'[b] # 0 /\ dir'[c] # 0 => /\ dir'[b] # dir'[c]
                                               /\ b + files'[dir'[b]].disk <= c
  BY CreatedLog
<1>5. Chained'
  <2>1. dir'[active.base] = active.ino
    BY <1>2, <1>a, <1>c, <1>e DEF Chained
  <2>2. QED
    BY <1>4, <1>c, <2>1 DEF Chained
<1>6. Spares'
  <2>1. sweep.pc = "snapped" => sweep.skip = active.base \/ files'[active.ino].mtime = now
    BY <1>c, <1>d DEF Spares
  <2>2. sweep.pc \in {"scan", "log", "index"} =>
          sweep.skip = active.base \/ files'[active.ino].mtime > sweep.cutoff
    <3>1. sweep.cutoff <= now - Retention => now > sweep.cutoff
      BY <1>b
    <3>2. QED
      BY <1>c, <1>d, <3>1 DEF Spares
  <2>3. ASSUME sweep.pc = "log", dir'[sweep.victim] # 0
        PROVE  files'[dir'[sweep.victim]].mtime <= sweep.cutoff
    <3>1. sweep.victim < active.base
      BY <1>c, <2>3 DEF Spares
    <3>2. sweep.victim # nb
      <4>1. PICK v \in Nat, x \in Nat : v = sweep.victim /\ x = active.base
        BY <1>b, <1>e, BasesFacts
      <4>2. QED
        BY <1>e, <3>1, <4>1
    <3>3. dir'[sweep.victim] = dir[sweep.victim]
      BY <1>2, <1>b, <3>2
    <3>4. files[dir[sweep.victim]].mtime <= sweep.cutoff
      BY <1>c, <2>3, <3>3 DEF Spares
    <3>5. files'[dir[sweep.victim]] = files[dir[sweep.victim]]
      BY <1>3, <1>b, <2>3, <3>1, <3>3
    <3>6. QED
      BY <3>3, <3>4, <3>5
  <2>4. QED
    BY <1>c, <2>1, <2>2, <2>3 DEF Spares
<1>7. QED
  BY <1>5, <1>6, CreatedLog
-----------------------------------------------------------------------------
(* A rollover of an empty segment opens the same one again. *)
LEMMA RollStep ==
    ASSUME RunInv, NEW n \in RecSizes, AppendRolls(n) \/ AppendRollsInVain(n)
    PROVE  Chained' /\ Spares' /\ SealedUntouched /\ Honoured
<1>1. /\ nextBase + active.size \in Bases /\ active.fd = TRUE /\ nextBase = active.base
      /\ dir' = Rolled.dir /\ nextBase' = nextBase + active.size /\ Seal
      /\ UNCHANGED <<up, sweep, now>>
  <2>1. active.fd = TRUE
    BY ActiveFacts DEF AppendRolls, AppendRollsInVain, CanClose, RunInv, Inv
  <2>2. QED
    BY <2>1 DEF AppendRolls, AppendRollsInVain, CanClose, RunInv, Chained
<1>2. PICK nb \in Bases : nb = active.base + active.size
  BY <1>1
<1>3. Opened(dir, Closed, nb, Rolled) /\ Covers(Rolled.files, Rolled.seg.ino, 0)
      /\ Len(Closed) = Len(files)
  BY <1>1, <1>2, RolledFacts, ClosedFacts DEF RunInv, Inv
<1>4. PICK f \in Files, g \in SegmentObject : f = Rolled.files /\ g = Rolled.seg
  BY <1>3 DEF Opened
<1>5. /\ g.ino \in 1..Len(f) /\ g.size = f[g.ino].disk /\ g.buf = 0 /\ g.base = nb
      /\ g.fd = TRUE
      /\ dir' = [dir EXCEPT ![nb] = g.ino]
      /\ dir[nb] # 0 => g.ino = dir[nb] /\ f = Closed
      /\ dir[nb] = 0 => /\ g.ino = Len(files) + 1 /\ Len(f) = Len(files) + 1
                        /\ f[Len(files) + 1] = [disk |-> 0, mtime |-> now]
      /\ \A j \in 1..Len(files) : f[j] = Closed[j]
  BY <1>1, <1>3, <1>4 DEF Opened
<1>6. /\ Len(files') = Len(f) /\ active'.ino = g.ino /\ active'.base = g.base
      /\ active'.fd = g.fd /\ files'[g.ino].mtime \in {f[g.ino].mtime, now}
      /\ \A j \in 1..Len(f) : j # g.ino => files'[j] = f[j]
  <2>1. CASE AppendRollsInVain(n)
    BY <1>4, <2>1 DEF AppendRollsInVain
  <2>2. CASE AppendRolls(n)
    <3>1. f[g.ino].disk \in Nat
      BY <1>5, DiskNat
    <3>2. g.size = f[g.ino].disk + g.buf /\ Store(f, g, n) /\ Covers(f, g.ino, g.buf)
          /\ g.ino \in 1..Len(f)
      <4>1. PICK a \in Nat : a = f[g.ino].disk /\ a + 0 = a
        <5>1. \A x \in Nat : x + 0 = x
          OBVIOUS
        <5>2. QED
          BY <3>1, <5>1, Zenon
      <4>a. g.size = f[g.ino].disk /\ g.buf = 0
        BY <1>5, Zenon
      <4>2. g.size = a /\ g.buf = 0 /\ a + 0 = a
        BY <4>1, <4>a
      <4>3. g.size = f[g.ino].disk + g.buf
        BY <4>1, <4>2
      <4>4. Store(f, g, n)
        BY <1>4, <2>2 DEF AppendRolls
      <4>5. Covers(f, g.ino, g.buf)
        BY <1>3, <1>4, <4>2
      <4>6. QED
        BY <1>5, <4>3, <4>4, <4>5
    <3>3. Scalars /\ Ordered
      BY DEF RunInv, Inv, RecInv
    <3>4. QED
      BY <3>2, <3>3, StoreKeeps
  <2>3. QED
    BY <2>1, <2>2
<1>7. /\ active.base \in Nat /\ active.size \in Nat /\ active.ino \in 1..Len(files)
      /\ Len(files) \in Nat /\ active.base \in Bases /\ Bases \subseteq Nat
  BY RunFacts
<1>8. CASE active.size = 0
  <2>1. nb = active.base /\ dir[nb] = active.ino /\ dir[nb] # 0
    BY <1>2, <1>7, <1>8 DEF RunInv, Chained
  <2>2. g.ino = active.ino /\ f = Closed
    BY <1>5, <2>1
  <2>3. dir' = dir
    BY <1>5, <2>1, <2>2 DEF RunInv, Inv, Disk
  <2>4. sealed' = sealed /\ nextBase' = nextBase
    BY <1>1, <1>2, <1>7, <1>8 DEF Seal
  <2>5. /\ Closed[active.ino].mtime \in {files[active.ino].mtime, now}
        /\ \A j \in 1..Len(files) : j # active.ino => Closed[j] = files[j]
    BY ClosedFacts DEF RunInv, Inv
  <2>6. /\ files'[active.ino].mtime \in {files[active.ino].mtime, now}
        /\ \A j \in 1..Len(files) : j # active.ino => files'[j] = files[j]
        /\ Len(files') = Len(files)
    BY <1>3, <1>6, <2>2, <2>5
  <2>7. active'.base = active.base /\ active'.ino = active.ino
    BY <1>5, <1>6, <2>1, <2>2
  <2>8. UNCHANGED <<up, dir, sweep, now>>
    BY <1>1, <2>3
  <2>9. QED
    BY <1>1, <2>4, <2>6, <2>7, <2>8, SameSegment
<1>9. CASE active.size > 0
  <2>1. nb \in Nat /\ active.base < nb
    <3>1. PICK x \in Nat, y \in Nat : x = active.base /\ y = active.size
      BY <1>7
    <3>2. nb = x + y /\ y > 0
      BY <1>2, <1>9, <3>1
    <3>3. QED
      BY <1>7, <3>1, <3>2
  <2>2. dir[nb] = 0
    <3>1. \A b \in Bases : dir[b] # 0 => b <= active.base
      BY <1>1 DEF RunInv, Chained
    <3>2. ~(nb <= active.base)
      BY <1>7, <2>1
    <3>3. QED
      BY <3>1, <3>2
  <2>3. /\ g.ino = Len(files) + 1 /\ Len(f) = Len(files) + 1
        /\ f[g.ino].mtime = now
    <3>1. /\ g.ino = Len(files) + 1 /\ Len(f) = Len(files) + 1
          /\ f[Len(files) + 1] = [disk |-> 0, mtime |-> now]
      BY <1>5, <2>2, Zenon
    <3>2. f[g.ino] = [disk |-> 0, mtime |-> now]
      BY <3>1
    <3>3. [disk |-> 0, mtime |-> now].mtime = now
      OBVIOUS
    <3>4. f[g.ino].mtime = now
      BY <3>2, <3>3, Zenon
    <3>5. QED
      BY <3>1, <3>4, Zenon
  <2>4. /\ active'.base = nb /\ active'.ino = Len(files) + 1
        /\ dir' = [dir EXCEPT ![nb] = Len(files) + 1]
    BY <1>5, <1>6, <2>3
  <2>5. \A j \in 1..Len(files) : files'[j] = Closed[j]
    <3>1. \A j \in 1..Len(files) : j \in 1..Len(f) /\ j # g.ino
      BY <1>7, <2>3
    <3>2. QED
      BY <1>5, <1>6, <3>1
  <2>6. files'[Len(files) + 1].mtime = now
    BY <1>6, <2>3
  <2>7. sealed' = sealed \cup {active.ino} /\ nextBase' = nb
    BY <1>1, <1>2, <1>9 DEF Seal
  <2>8. NewLog(nb)
    BY <1>1, <1>2, <1>9, <2>4, <2>5, <2>7 DEF NewLog
  <2>9. QED
    BY <1>1, <2>4, <2>6, <2>7, <2>8, NewSegment
<1>10. QED
  BY <1>7, <1>8, <1>9

(* A rollover that cannot open the next segment. *)
LEMMA OpenFailsStep ==
    ASSUME RunInv, NEW n, AppendOpenFails(n)
    PROVE  Chained' /\ Spares' /\ SealedUntouched /\ Honoured
<1>1. /\ nextBase + active.size \in Bases /\ active.fd = TRUE /\ nextBase = active.base
      /\ Seal /\ UNCHANGED <<up, sweep, now>>
  <2>1. active.fd = TRUE
    BY ActiveFacts DEF AppendOpenFails, CanClose, RunInv, Inv
  <2>2. QED
    BY <2>1 DEF AppendOpenFails, CanClose, RunInv, Chained
<1>2. active'.ino = active.ino /\ active'.base = active.base /\ active'.fd = FALSE
  BY DEF AppendOpenFails, RunInv, Inv, Disk, SegmentObject
<1>3. /\ Len(Closed) = Len(files)
      /\ Closed[active.ino].mtime \in {files[active.ino].mtime, now}
      /\ \A j \in 1..Len(files) : j # active.ino => Closed[j] = files[j]
  BY ClosedFacts DEF RunInv, Inv
<1>4. CASE files' = Closed /\ dir' = dir
  BY <1>1, <1>2, <1>3, <1>4, SameSegment
<1>5. CASE files' = Rolled.files /\ dir' = Rolled.dir
  <2>1. PICK nb \in Bases : nb = active.base + active.size
    BY <1>1
  <2>2. Opened(dir, Closed, nb, Rolled)
    BY <1>1, <2>1, RolledFacts DEF RunInv, Inv
  <2>3. /\ dir' = [dir EXCEPT ![nb] = Rolled.seg.ino]
        /\ dir[nb] # 0 => Rolled.seg.ino = dir[nb] /\ files' = Closed
        /\ dir[nb] = 0 => Rolled.seg.ino = Len(files) + 1
        /\ \A j \in 1..Len(files) : files'[j] = Closed[j]
    BY <1>3, <1>5, <2>2 DEF Opened
  <2>4. CASE dir[nb] # 0
    <3>1. dir' = dir
      BY <2>3, <2>4 DEF RunInv, Inv, Disk
    <3>2. QED
      BY <1>4, <2>3, <2>4, <3>1
  <2>5. CASE dir[nb] = 0
    <3>1. /\ active.base \in Nat /\ active.size \in Nat /\ active.ino \in 1..Len(files)
          /\ dir[active.base] = active.ino
      BY RunFacts DEF RunInv, Chained
    <3>2. active.size > 0
      BY <2>1, <2>5, <3>1
    <3>3. NewLog(nb)
      BY <1>1, <2>1, <2>3, <2>5, <3>2 DEF NewLog, Seal
    <3>4. QED
      BY <1>1, <1>2, <3>3, LeftSegment
  <2>6. QED
    BY <2>4, <2>5
<1>6. QED
  BY <1>4, <1>5 DEF AppendOpenFails

LEMMA WriteStep ==
    ASSUME RunInv, NEW n,
           \/ n \in RecSizes /\ AppendFits(n)
           \/ AppendWriteFails(n) \/ AppendCloseFails(n)
           \/ Read \/ ReadClosed \/ Flush \/ FlushFails \/ ReadDone
    PROVE  Chained' /\ Spares' /\ SealedUntouched /\ Honoured
<1>1. Scalars /\ Disk /\ RecInv /\ active \in SegmentObject /\ active.fd \in BOOLEAN
      /\ Ordered /\ files \in Files /\ active.ino \in 1..Len(files)
      /\ Covers(files, active.ino, active.buf)
  BY ActiveFacts DEF RunInv, Inv, Disk, RecInv
<1>2. CASE n \in RecSizes /\ AppendFits(n)
  <2>1. active.size = files[active.ino].disk + active.buf
    BY RunFacts
  <2>2. Store(files, active, n) /\ UNCHANGED <<up, dir, nextBase, sealed, sweep, now>>
        /\ Writable(active, n) /\ n \in RecSizes
    BY <1>2 DEF AppendFits
  <2>3. /\ Len(files') = Len(files) /\ active'.ino = active.ino
        /\ active'.base = active.base /\ active'.fd = active.fd
        /\ files'[active.ino].mtime \in {files[active.ino].mtime, now}
        /\ \A j \in 1..Len(files) : j # active.ino => files'[j] = files[j]
        /\ Spilled(active.buf, n) = 0 => files' = files
    BY <1>1, <2>1, <2>2, StoreKeeps
  <2>4. files' = files \/ active.fd = TRUE
    BY <1>1, <2>2, <2>3 DEF Writable
  <2>5. QED
    BY <2>2, <2>3, <2>4, SameSegment
<1>3. CASE AppendWriteFails(n) \/ AppendCloseFails(n) \/ ReadClosed \/ FlushFails \/ ReadDone
  <2>1. UNCHANGED <<up, dir, files, nextBase, sealed, sweep, now>>
    BY <1>3 DEF AppendWriteFails, AppendCloseFails, ReadClosed, FlushFails, ReadDone, storeVars
  <2>2. active' = active \/ \E e : active' = [active EXCEPT !.err = e]
    BY <1>3 DEF AppendWriteFails, AppendCloseFails, ReadClosed, FlushFails, ReadDone, storeVars
  <2>3. active'.ino = active.ino /\ active'.base = active.base /\ active'.fd = active.fd
    BY <1>1, <2>2 DEF SegmentObject
  <2>4. QED
    BY <2>1, <2>3, SameSegment
<1>4. CASE Read \/ Flush
  <2>1. files' = Closed /\ UNCHANGED <<up, dir, sweep, now>> /\ active.fd = TRUE
    BY <1>1, <1>4 DEF Read, Flush
  <2>2. /\ active'.ino = active.ino /\ active'.base = active.base
        /\ nextBase' = nextBase /\ sealed' = sealed
    BY <1>1, <1>4 DEF Read, Flush, SegmentObject
  <2>3. /\ Len(Closed) = Len(files)
        /\ Closed[active.ino].mtime \in {files[active.ino].mtime, now}
        /\ \A j \in 1..Len(files) : j # active.ino => Closed[j] = files[j]
    BY <1>1, ClosedFacts
  <2>4. QED
    BY <2>1, <2>2, <2>3, SameSegment
<1>5. QED
  BY <1>2, <1>3, <1>4
-----------------------------------------------------------------------------
(* The cleaner's own steps: what it removes is below the active segment's  *)
(* base and older than the cutoff.                                         *)
LEMMA CleanerStep ==
    ASSUME RunInv, Sweep
    PROVE  Chained' /\ Spares' /\ SealedUntouched /\ Honoured
<1>a. /\ active.base \in Bases /\ active.ino \in 1..Len(files) /\ Len(files) \in Nat
      /\ Bases \subseteq Nat /\ \A b \in Bases : dir[b] \in 0..Len(files)
  BY RunFacts
<1>b. /\ now \in Nat /\ Retention \in Nat \ {0} /\ sweep.cutoff \in Int
      /\ sweep.todo \subseteq Bases /\ sweep.victim \in Bases
      /\ \A j \in 1..Len(files) : files[j].mtime \in Nat
  BY RunFacts
<1>c. Chained /\ Spares /\ sweep \in Sweeps /\ dir \in [Bases -> 0..Len(files)]
  BY DEF RunInv, Inv, Scalars, Disk
<1>1. CASE SweepStart
  <2>1. UNCHANGED <<up, dir, files, active, nextBase, sealed, now>>
    BY <1>1 DEF SweepStart, storeVars
  <2>2. sweep'.pc = "snapped" /\ sweep'.skip = active.base
    BY <1>1 DEF SweepStart, Idle
  <2>3. Spares'
    BY <2>1, <2>2 DEF Spares
  <2>4. QED
    BY <1>c, <2>1, <2>3 DEF Chained, SealedUntouched, Honoured
<1>2. CASE SweepList
  <2>1. UNCHANGED <<up, dir, files, active, nextBase, sealed, now>>
    BY <1>2 DEF SweepList, storeVars
  <2>2. /\ sweep.pc = "snapped" /\ sweep'.pc = "scan" /\ sweep'.skip = sweep.skip
        /\ sweep'.cutoff = now - Retention
        /\ sweep'.todo = {b \in Bases : dir[b] # 0} \ {sweep.skip}
    BY <1>2, <1>c DEF SweepList, Sweeps
  <2>3. active.fd = TRUE => \A b \in sweep'.todo : b <= active.base
    BY <1>c, <2>2 DEF Chained
  <2>4. sweep.skip = active.base \/ files[active.ino].mtime > now - Retention
    <3>1. sweep.skip = active.base \/ files[active.ino].mtime = now
      BY <1>c, <2>2 DEF Spares
    <3>2. now > now - Retention
      BY <1>b
    <3>3. QED
      BY <3>1, <3>2
  <2>5. sweep'.cutoff <= now - Retention
    BY <1>b, <2>2
  <2>6. Spares'
    BY <2>1, <2>2, <2>3, <2>4, <2>5 DEF Spares
  <2>7. QED
    BY <1>c, <2>1, <2>6 DEF Chained, SealedUntouched, Honoured
<1>3. CASE SweepStat
  <2>1. UNCHANGED <<up, dir, files, active, nextBase, sealed, now>> /\ sweep.pc = "scan"
    BY <1>3 DEF SweepStat, storeVars
  <2>2. CASE sweep' = Idle
    BY <1>c, <2>1, <2>2 DEF Spares, Idle, Chained, SealedUntouched, Honoured
  <2>3. ASSUME NEW b \in sweep.todo,
               sweep' = [sweep EXCEPT !.todo = sweep.todo \ {b}, !.victim = b,
                           !.pc = IF Expired(b) THEN "log" ELSE "scan"]
        PROVE  Spares'
    <3>1. PICK q \in {"log", "scan"} : q = IF Expired(b) THEN "log" ELSE "scan"
      OBVIOUS
    <3>2. sweep' = [sweep EXCEPT !.todo = sweep.todo \ {b}, !.victim = b, !.pc = q]
      BY <2>3, <3>1
    <3>3. /\ sweep'.pc = q /\ sweep'.skip = sweep.skip /\ sweep'.cutoff = sweep.cutoff
          /\ sweep'.todo = sweep.todo \ {b} /\ sweep'.victim = b
      BY <1>c, <3>2 DEF Sweeps
    <3>4. q = "log" => dir[b] # 0 /\ files[dir[b]].mtime <= sweep.cutoff
      BY <3>1 DEF Expired
    <3>5. /\ sweep.cutoff <= now - Retention /\ sweep.skip \notin sweep.todo
          /\ active.fd = TRUE => \A c \in sweep.todo : c <= active.base
          /\ sweep.skip = active.base \/ files[active.ino].mtime > sweep.cutoff
      BY <1>c, <2>1 DEF Spares
    <3>6. ASSUME q = "log" PROVE b # active.base /\ (active.fd = TRUE => b < active.base)
      <4>1. ASSUME b = active.base PROVE FALSE
        <5>1. files[active.ino].mtime > sweep.cutoff
          BY <3>5, <4>1
        <5>2. files[active.ino].mtime <= sweep.cutoff
          BY <1>c, <3>4, <3>6, <4>1 DEF Chained
        <5>3. files[active.ino].mtime \in Nat
          BY <1>a, <1>b
        <5>4. QED
          BY <1>b, <5>1, <5>2, <5>3
      <4>2. b \in Nat /\ active.base \in Nat /\ (active.fd = TRUE => b <= active.base)
        BY <1>a, <1>b, <3>5
      <4>3. QED
        BY <4>1, <4>2
    <3>7. /\ sweep'.cutoff <= now - Retention /\ sweep'.skip \notin sweep'.todo
          /\ active.fd = TRUE => \A c \in sweep'.todo : c <= active.base
          /\ sweep'.skip = active.base \/ files[active.ino].mtime > sweep'.cutoff
      BY <3>3, <3>5
    <3>8. /\ sweep'.pc = "log" => /\ sweep'.victim # active.base
                                  /\ active.fd = TRUE => sweep'.victim < active.base
          /\ sweep'.pc = "log" => files[dir[sweep'.victim]].mtime <= sweep'.cutoff
          /\ sweep'.pc # "snapped" /\ sweep'.pc # "index"
      BY <3>3, <3>4, <3>6
    <3>9. active' = active /\ dir' = dir /\ files' = files /\ now' = now
      BY <2>1
    <3>10. /\ sweep'.cutoff <= now' - Retention /\ sweep'.skip \notin sweep'.todo
           /\ active'.fd = TRUE => \A c \in sweep'.todo : c <= active'.base
           /\ sweep'.skip = active'.base \/ files'[active'.ino].mtime > sweep'.cutoff
      BY <3>7, <3>9
    <3>11. /\ sweep'.pc = "log" => /\ sweep'.victim # active'.base
                                   /\ active'.fd = TRUE => sweep'.victim < active'.base
           /\ sweep'.pc = "log" => files'[dir'[sweep'.victim]].mtime <= sweep'.cutoff
           /\ sweep'.pc # "snapped" /\ sweep'.pc # "index"
      BY <3>8, <3>9
    <3>12. sweep'.pc \in {"log", "index"} =>
             /\ sweep'.victim # active'.base
             /\ active'.fd = TRUE => sweep'.victim < active'.base
      BY <3>11
    <3>13. /\ sweep'.pc = "snapped" =>
                sweep'.skip = active'.base \/ files'[active'.ino].mtime = now'
           /\ sweep'.pc = "log" /\ dir'[sweep'.victim] # 0 =>
                files'[dir'[sweep'.victim]].mtime <= sweep'.cutoff
      BY <3>11, Zenon
    <3>14. QED
      BY <3>10, <3>12, <3>13, Zenon DEF Spares
  <2>4. QED
    BY <1>3, <1>c, <2>1, <2>2, <2>3 DEF SweepStat, Chained, SealedUntouched, Honoured
<1>4. CASE SweepRemoveLog
  <2>1. UNCHANGED <<up, files, active, nextBase, sealed, now>> /\ sweep.pc = "log"
        /\ dir' = [dir EXCEPT ![sweep.victim] = 0]
    BY <1>4 DEF SweepRemoveLog
  <2>2. /\ sweep'.pc = "index" /\ sweep'.skip = sweep.skip /\ sweep'.cutoff = sweep.cutoff
        /\ sweep'.todo = sweep.todo /\ sweep'.victim = sweep.victim
    BY <1>4, <1>c DEF SweepRemoveLog, Sweeps
  <2>3. Spares'
    BY <1>c, <2>1, <2>2 DEF Spares
  <2>4. sweep.victim # active.base
    BY <1>c, <2>1 DEF Spares
  <2>5. \A b \in Bases : dir'[b] = IF b = sweep.victim THEN 0 ELSE dir[b]
    BY <1>c, <2>1
  <2>6. dir'[active.base] = active.ino
    BY <1>a, <1>c, <2>4, <2>5 DEF Chained
  <2>a. \A b \in Bases : dir'[b] # 0 => dir[b] # 0 /\ dir'[b] = dir[b]
    BY <2>5
  <2>7. Chained'
    BY <1>c, <2>1, <2>6, <2>a DEF Chained
  <2>8. Honoured
    <3>1. ASSUME NEW b \in Bases, dir[b] # 0, dir'[b] = 0
          PROVE  now - files[dir[b]].mtime >= Retention
      <4>1. b = sweep.victim
        BY <2>5, <3>1
      <4>2. files[dir[b]].mtime <= sweep.cutoff /\ sweep.cutoff <= now - Retention
        BY <1>c, <2>1, <3>1, <4>1 DEF Spares
      <4>3. dir[b] \in 1..Len(files)
        BY <1>a, <3>1
      <4>4. PICK m \in Nat : m = files[dir[b]].mtime
        BY <1>b, <4>3
      <4>5. QED
        BY <1>b, <4>2, <4>4
    <3>2. QED
      BY <3>1 DEF Honoured
  <2>9. QED
    BY <2>1, <2>3, <2>7, <2>8 DEF SealedUntouched
<1>5. CASE SweepRemoveIndex \/ SweepRemoveFails
  <2>1. /\ UNCHANGED <<up, dir, files, active, nextBase, sealed, now>>
        /\ sweep.pc \in {"log", "index"}
    BY <1>5 DEF SweepRemoveIndex, SweepRemoveFails, storeVars
  <2>2. /\ sweep'.pc = "scan" /\ sweep'.skip = sweep.skip /\ sweep'.cutoff = sweep.cutoff
        /\ sweep'.todo = sweep.todo
    BY <1>5, <1>c DEF SweepRemoveIndex, SweepRemoveFails, Sweeps
  <2>3. Spares'
    BY <1>c, <2>1, <2>2 DEF Spares
  <2>4. QED
    BY <1>c, <2>1, <2>3 DEF Chained, SealedUntouched, Honoured
<1>6. QED
  BY <1>1, <1>2, <1>3, <1>4, <1>5 DEF Sweep
-----------------------------------------------------------------------------
LEMMA TickStep ==
    ASSUME RunInv, Tick
    PROVE  Chained' /\ Spares' /\ SealedUntouched /\ Honoured
<1>1. UNCHANGED <<up, dir, files, active, nextBase, sealed, sweep>> /\ now' = now + 1
      /\ sweep.pc # "snapped"
  BY DEF Tick, storeVars
<1>2. Chained /\ Spares
  BY DEF RunInv
<1>3. sweep.cutoff <= now - Retention => sweep.cutoff <= now' - Retention
  <2>1. now \in Nat /\ Retention \in Nat /\ sweep.cutoff \in Int
    BY RunFacts
  <2>2. QED
    BY <1>1, <2>1
<1>4. Spares'
  BY <1>1, <1>2, <1>3 DEF Spares
<1>5. QED
  BY <1>1, <1>2, <1>4 DEF Chained, SealedUntouched, Honoured

(* The process goes down: at most the open active segment is written. *)
LEMMA StopStep ==
    ASSUME RunInv, Close \/ Kill
    PROVE  SealedUntouched /\ Honoured
<1>1. dir' = dir /\ (files' = files \/ (files' = Closed /\ active.fd = TRUE))
  BY ActiveFacts DEF Close, Kill, Down, RunInv, Inv
<1>2. CASE files' = files
  BY <1>1, <1>2 DEF SealedUntouched, Honoured
<1>3. CASE files' = Closed /\ active.fd = TRUE
  <2>1. \A i \in sealed : i \in 1..Len(files) /\ i # active.ino
    BY <1>3 DEF RunInv, Inv, Disk, Chained
  <2>2. \A i \in sealed : Closed[i] = files[i]
    BY <2>1, ClosedFacts DEF RunInv, Inv
  <2>3. QED
    BY <1>1, <1>3, <2>2 DEF SealedUntouched, Honoured
<1>4. QED
  BY <1>1, <1>2, <1>3

(* Only the end of the process counts as a restart. *)
LEMMA RestartsStep ==
    ASSUME [Next]_vars
    PROVE  restarts' = restarts \/ ((Close \/ Kill) /\ restarts' = restarts + 1)
  BY DEF Next, vars, storeVars, AppendCall, AppendFits, AppendWriteFails, AppendRolls,
         AppendRollsInVain, AppendOpenFails, AppendCloseFails, Read, ReadClosed, ReadDone,
         Flush, FlushFails, Sweep, SweepStart, SweepList, SweepStat, SweepRemoveLog,
         SweepRemoveIndex, SweepRemoveFails, Tick, Close, Kill, Down, OpenPartitionStore

LEMMA RunStep ==
    ASSUME RunInv, [Next]_vars
    PROVE  /\ SealedUntouched /\ Honoured
           /\ restarts' = restarts => Chained' /\ Spares'
<1>1. up = TRUE /\ restarts \in Nat
  BY PartitionStoreAssumption DEF RunInv, Chained, Inv, Scalars
<1>2. CASE UNCHANGED vars
  <2>1. UNCHANGED <<up, dir, files, active, nextBase, sealed, sweep, now>>
    BY <1>2 DEF vars, storeVars
  <2>2. QED
    BY <2>1 DEF RunInv, Chained, Spares, SealedUntouched, Honoured
<1>3. ASSUME NEW n \in RecSizes, AppendCall(n)
      PROVE  Chained' /\ Spares' /\ SealedUntouched /\ Honoured
  BY <1>3, WriteStep, RollStep, OpenFailsStep DEF AppendCall
<1>4. CASE Read \/ ReadClosed \/ ReadDone \/ Flush \/ FlushFails
  BY <1>4, WriteStep
<1>5. CASE Sweep
  BY <1>5, CleanerStep
<1>6. CASE Tick
  BY <1>6, TickStep
<1>7. CASE Close \/ Kill
  <2>1. restarts' = restarts + 1
    BY <1>7 DEF Close, Kill, Down
  <2>2. restarts' # restarts
    BY <1>1, <2>1
  <2>3. QED
    BY <1>7, <2>2, StopStep
<1>8. ~OpenPartitionStore
  BY <1>1 DEF OpenPartitionStore
<1>9. QED
  BY <1>2, <1>3, <1>4, <1>5, <1>6, <1>7, <1>8 DEF Next
-----------------------------------------------------------------------------
LEMMA RunInit == Init => Chained /\ Spares
<1> SUFFICES ASSUME Init PROVE Chained /\ Spares
  OBVIOUS
<1>1. /\ up = TRUE /\ nextBase = 0 /\ sealed = {} /\ sweep.pc = "idle"
      /\ active.base = 0 /\ active.ino = 1 /\ active.fd = TRUE
      /\ dir = [b \in Bases |-> IF b = 0 THEN 1 ELSE 0]
  BY DEF Init, Idle
<1>2. 0 \in Bases /\ \A b \in Bases : dir[b] # 0 => b = 0
  BY <1>1, BasesFacts
<1>3. \A b, c \in Bases : ~(b < c /\ dir[b] # 0 /\ dir[c] # 0)
  BY <1>2
<1>a. dir[0] = 1 /\ \A b \in Bases : dir[b] # 0 => b <= 0
  BY <1>1, <1>2
<1>4. Chained
  BY <1>1, <1>3, <1>a DEF Chained
<1>5. QED
  BY <1>1, <1>4 DEF Spares

(* RunInv holds until the process restarts. *)
FirstRun == Inv /\ (restarts = 0 => RunInv)

LEMMA FirstRunInductive ==
    Spec => []FirstRun /\ [][restarts = 0 => SealedUntouched /\ Honoured]_vars
<1>1. ASSUME FirstRun, Inv', [Next]_vars
      PROVE  FirstRun' /\ [restarts = 0 => SealedUntouched /\ Honoured]_vars
  <2>1. restarts = 0 => /\ SealedUntouched /\ Honoured
                        /\ restarts' = restarts => Chained' /\ Spares'
    BY <1>1, RunStep DEF FirstRun
  <2>2. restarts' = 0 => restarts = 0 /\ restarts' = restarts
    <3>1. restarts \in Nat
      BY <1>1, PartitionStoreAssumption DEF FirstRun, Inv, Scalars
    <3>2. restarts' = restarts \/ restarts' = restarts + 1
      BY <1>1, RestartsStep
    <3>3. QED
      BY <3>1, <3>2
  <2>3. QED
    BY <1>1, <2>1, <2>2 DEF FirstRun, RunInv
<1>2. Init /\ Inv => FirstRun
  BY RunInit DEF FirstRun, RunInv
<1>3. QED
  BY <1>1, <1>2, Inductive, PTL DEF Spec

(* Until the process restarts, whatever the sizes, the retention time and  *)
(* the number of appends, rollovers and sweeps: CleanOldSegments, which    *)
(* lists and unlinks without ps.mu, never unlinks the file that Append     *)
(* writes to, even if a rollover replaced the segment it was told to skip. *)
THEOREM CleanerNeverTouchesActive == Spec => []FirstRunSparesActive
<1>1. FirstRun => FirstRunSparesActive
  BY DEF FirstRun, RunInv, Chained, FirstRunSparesActive, CleanerSparesActive
<1>2. QED
  BY <1>1, FirstRunInductive, PTL

(* Until the process restarts, rollover's nextBase += size keeps the       *)
(* ranges of the segments apart, also when a rollover failed to open a     *)
(* segment and left the file of one behind.                                *)
THEOREM RangesStayApart == Spec => []FirstRunRangesApart
<1>1. ASSUME RunInv PROVE RangesApart
  <2>1. ASSUME NEW b \in Bases, NEW c \in Bases, b < c, dir[b] # 0, dir[c] # 0
        PROVE  /\ b + files[dir[b]].disk <= c
               /\ active.fd = TRUE => dir[b] # active.ino
    <3>1. b + files[dir[b]].disk <= c
      BY <1>1, <2>1 DEF RunInv, Chained
    <3>2. ASSUME active.fd = TRUE PROVE dir[b] # active.ino
      <4>1. c <= active.base /\ dir[active.base] = active.ino
        BY <1>1, <2>1, <3>2 DEF RunInv, Chained
      <4>2. b \in Nat /\ c \in Nat /\ active.base \in Nat /\ active.base \in Bases
            /\ active.ino # 0
        BY <1>1, RunFacts, BasesFacts
      <4>3. b < active.base
        BY <2>1, <4>1, <4>2
      <4>4. \A e \in Bases : b < e /\ dir[e] # 0 => dir[b] # dir[e]
        BY <1>1, <2>1 DEF RunInv, Chained
      <4>5. QED
        BY <4>1, <4>2, <4>3, <4>4
    <3>3. QED
      BY <3>1, <3>2
  <2>2. active.fd \in BOOLEAN
    BY <1>1, ActiveFacts DEF RunInv, Inv
  <2>3. QED
    BY <2>1, <2>2 DEF RangesApart
<1>2. FirstRun => FirstRunRangesApart
  BY <1>1 DEF FirstRun, FirstRunRangesApart
<1>3. QED
  BY <1>2, FirstRunInductive, PTL

(* Until the process restarts, a file that the cleaner unlinks has not     *)
(* been written to for the whole retention time.                           *)
THEOREM RetentionIsHonoured == Spec => FirstRunRetentionHonoured
<1>1. [restarts = 0 => SealedUntouched /\ Honoured]_vars =>
        [restarts = 0 => \A b \in Bases : dir[b] # 0 /\ dir'[b] = 0 =>
                            now - files[dir[b]].mtime >= Retention]_vars
  BY DEF Honoured
<1>2. QED
  BY <1>1, FirstRunInductive, PTL DEF FirstRunRetentionHonoured

(* Until the process restarts, a segment that a rollover has closed never  *)
(* changes length again.                                                   *)
THEOREM SealedStayImmutable == Spec => FirstRunSealedImmutable
<1>1. [restarts = 0 => SealedUntouched /\ Honoured]_vars => [restarts = 0 => SealedUntouched]_vars
  OBVIOUS
<1>2. QED
  BY <1>1, FirstRunInductive, PTL DEF FirstRunSealedImmutable
=============================================================================
