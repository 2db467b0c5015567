--------------------------- MODULE PartitionStore ---------------------------
(***************************************************************************)
(* One topic-partition (internal/storage/store.go): the directory of       *)
(* segment files, the active segment, rollover, readers, the retention     *)
(* cleaner, and the process that is killed or closed and opens the         *)
(* directory again.  Append, Read and Close hold ps.mu from start to end,  *)
(* so each is one step; the cleaner holds it only for its first statement. *)
(***************************************************************************)
EXTENDS Sequences, FiniteSets, FileWriter

CONSTANTS
    HdrSize,      \* recordHeaderSize
    RecSizes,     \* sizes, header included, of the records offered to Append
    MaxSize,      \* SegmentConfig.MaxSize
    BufCap,       \* writeBufferSize
    Retention,    \* SegmentConfig.Retention, in ticks
    MaxTime,      \* bound on the clock
    MaxAppends,   \* bound on the records appended
    MaxRestarts,  \* bound on the times the process goes down
    OpenMayFail   \* OpenSegment may fail in a rollover

ASSUME PartitionStoreAssumption ==
    /\ HdrSize \in Nat /\ MaxSize \in Nat /\ BufCap \in Nat
    /\ RecSizes \subseteq Nat /\ \A n \in RecSizes : n >= HdrSize
    /\ Retention \in Nat \ {0} /\ MaxTime \in Nat
    /\ MaxAppends \in Nat /\ MaxRestarts \in Nat /\ OpenMayFail \in BOOLEAN

(* The bases of segments.  Every rollover moves nextBase by bytes that are *)
(* in some file, so no base goes beyond the bytes that can be appended.    *)
Bases == 0..(MaxAppends * MaxSize)

VARIABLES
    up,        \* the process runs and has the store open
    dir,       \* base -> inode of <base>.log, 0 when there is no such file
    index,     \* base -> inode whose records <base>.index describes, or 0
    files,     \* inode -> its length and modification time
    active,    \* ps.active
    nextBase,  \* ps.nextBase
    recs,      \* acknowledged records that no crash has taken
    next,      \* id of the next record
    sealed,    \* inodes of the segments that a rollover has closed
    reader,    \* a reader that Read returned: "none", "live" or "dead"
    sweep,     \* CleanOldSegments in progress
    now,       \* the clock
    restarts

storeVars == <<dir, index, files, active, nextBase>>
vars == <<up, storeVars, recs, next, sealed, reader, sweep, now, restarts>>

(* A Segment object: fd says that its file is open, err is bufio's error.  *)
SegmentObject ==
    [base: Nat, ino: Nat, size: Nat, buf: Nat, fd: BOOLEAN, err: BOOLEAN]

Idle == [pc |-> "idle", skip |-> 0, cutoff |-> 0, todo |-> {}, victim |-> 0]

TypeOK ==
    /\ up \in BOOLEAN /\ nextBase \in Nat /\ next \in Nat
    /\ files \in Seq([disk: Nat, mtime: Nat])
    /\ dir \in [Bases -> 0..Len(files)] /\ index \in [Bases -> 0..Len(files)]
    /\ active \in SegmentObject
    /\ recs \subseteq [id: Nat, ino: Nat, pos: Nat, off: Nat, len: Nat]
    /\ sealed \subseteq 1..Len(files)
    /\ reader \in {"none", "live", "dead"}
    /\ sweep \in [pc: {"idle", "snapped", "scan", "log", "index"}, skip: Bases,
                  cutoff: Int, todo: SUBSET Bases, victim: Bases]
    /\ now \in 0..MaxTime /\ restarts \in 0..MaxRestarts
-----------------------------------------------------------------------------
(* k bytes reach the file of inode i. *)
WriteTo(f, i, k) ==
    IF k = 0 THEN f
    ELSE [f EXCEPT ![i] = [disk |-> f[i].disk + k, mtime |-> now]]

(* Mutant: the resumed segment starts at size 0. *)
OpenSegmentAtZero(d, x, f, b) ==
    LET g == IF d[b] = 0 THEN Append(f, [disk |-> 0, mtime |-> now]) ELSE f
        i == IF d[b] = 0 THEN Len(g) ELSE d[b]
    IN  [dir   |-> [d EXCEPT ![b] = i],
         index |-> IF x[b] = 0 THEN [x EXCEPT ![b] = i] ELSE x,
         files |-> g,
         seg   |-> [base |-> b, ino |-> i, size |-> 0, buf |-> 0,
                    fd |-> TRUE, err |-> FALSE]]

(* Mutant: the cursor resumes a header short of the end. *)
OpenSegmentBeforeEnd(d, x, f, b) ==
    LET g == IF d[b] = 0 THEN Append(f, [disk |-> 0, mtime |-> now]) ELSE f
        i == IF d[b] = 0 THEN Len(g) ELSE d[b]
    IN  [dir   |-> [d EXCEPT ![b] = i],
         index |-> IF x[b] = 0 THEN [x EXCEPT ![b] = i] ELSE x,
         files |-> g,
         seg   |-> [base |-> b, ino |-> i, size |-> g[i].disk - HdrSize,
                    buf |-> 0, fd |-> TRUE, err |-> FALSE]]

(* OpenSegment: creates the files that are missing and resumes at the end  *)
(* of the ones that exist.                                                 *)
OpenSegment(d, x, f, b) ==
    LET g == IF d[b] = 0 THEN Append(f, [disk |-> 0, mtime |-> now]) ELSE f
        i == IF d[b] = 0 THEN Len(g) ELSE d[b]
    IN  [dir   |-> [d EXCEPT ![b] = i],
         index |-> IF x[b] = 0 THEN [x EXCEPT ![b] = i] ELSE x,
         files |-> g,
         seg   |-> [base |-> b, ino |-> i, size |-> g[i].disk, buf |-> 0,
                    fd |-> TRUE, err |-> FALSE]]

(* Segment.Append's two Writes leave this much in the buffer. *)
KeptOf(b, n) == Kept(Kept(b, HdrSize, BufCap), n - HdrSize, BufCap)
Spilled(b, n) == b + n - KeptOf(b, n)

Fits(seg, n) == seg.size + n <= MaxSize

(* The write reaches an open file, or stays in the buffer of a closed one. *)
Writable(seg, n) == ~seg.err /\ (seg.fd \/ Spilled(seg.buf, n) = 0)

(* Segment.Append on seg over the files f, acknowledged. *)
Store(f, seg, n) ==
    /\ files' = WriteTo(f, seg.ino, Spilled(seg.buf, n))
    /\ active' = [seg EXCEPT !.size = seg.size + n, !.buf = KeptOf(seg.buf, n)]
    /\ recs' = recs \cup {[id |-> next, ino |-> seg.ino, off |-> seg.size,
                           pos |-> f[seg.ino].disk + seg.buf, len |-> n]}
    /\ next' = next + 1

(* Mutants: Close does not flush; nextBase is set where it should be added *)
(* to.                                                                     *)
ClosedUnflushed == files
RolledFromSize ==
    OpenSegment(dir, index, WriteTo(files, active.ino, active.buf), active.size)

(* The directory once rollover has closed the active segment and opened    *)
(* the next one.                                                           *)
Closed == WriteTo(files, active.ino, active.buf)
Rolled == OpenSegment(dir, index, Closed, nextBase + active.size)

Seal == sealed' = IF active.size > 0 THEN sealed \cup {active.ino} ELSE sealed
DropReader == reader' = IF reader = "live" THEN "dead" ELSE reader

-----------------------------------------------------------------------------
Append0(n) == up /\ next < MaxAppends /\ n \in RecSizes

(* Append, the record fits in the active segment. *)
AppendFits(n) ==
    /\ Append0(n) /\ Fits(active, n) /\ Writable(active, n)
    /\ Store(files, active, n)
    /\ UNCHANGED <<up, dir, index, nextBase, sealed, reader, sweep, now, restarts>>

(* Append, the write fails: the file is closed under the buffer. *)
AppendWriteFails(n) ==
    /\ Append0(n) /\ Fits(active, n) /\ ~Writable(active, n) /\ ~active.err
    /\ active' = [active EXCEPT !.err = TRUE]
    /\ UNCHANGED <<up, dir, index, files, nextBase, recs, next, sealed, reader,
                   sweep, now, restarts>>

(* The active segment is full and rollover can close it; Bases bounds the  *)
(* base of the next one.                                                   *)
CanClose(n) ==
    /\ Append0(n) /\ ~Fits(active, n) /\ active.fd /\ ~active.err
    /\ nextBase + active.size \in Bases

(* Append, rollover, and the record goes to the segment just opened. *)
AppendRolls(n) ==
    /\ CanClose(n) /\ Fits(Rolled.seg, n)
    /\ Store(Rolled.files, Rolled.seg, n)
    /\ dir' = Rolled.dir /\ index' = Rolled.index
    /\ nextBase' = nextBase + active.size
    /\ Seal /\ DropReader
    /\ UNCHANGED <<up, sweep, now, restarts>>

(* Mutant: nextBase moves only when the record was stored. *)
AppendRollsInVainStay(n) ==
    /\ CanClose(n) /\ ~Fits(Rolled.seg, n)
    /\ files' = Rolled.files /\ active' = Rolled.seg
    /\ dir' = Rolled.dir /\ index' = Rolled.index
    /\ Seal /\ DropReader
    /\ UNCHANGED <<up, nextBase, recs, next, sweep, now, restarts>>

(* Append, rollover, and the segment just opened is full as well (it was   *)
(* there before, or no segment can hold the record): ErrSegmentFull.       *)
AppendRollsInVain(n) ==
    /\ CanClose(n) /\ ~Fits(Rolled.seg, n)
    /\ files' = Rolled.files /\ active' = Rolled.seg
    /\ dir' = Rolled.dir /\ index' = Rolled.index
    /\ nextBase' = nextBase + active.size
    /\ Seal /\ DropReader
    /\ UNCHANGED <<up, recs, next, sweep, now, restarts>>

(* Mutant: the old segment stays in use when the next cannot be opened. *)
AppendOpenFailsInUse(n) ==
    /\ CanClose(n) /\ OpenMayFail
    /\ files' = Closed
    /\ active' = [active EXCEPT !.buf = 0, !.size = 0]
    /\ nextBase' = nextBase + active.size
    /\ Seal /\ DropReader
    /\ UNCHANGED <<up, dir, index, recs, next, sweep, now, restarts>>

(* Append, rollover closes the active segment and cannot open the next:    *)
(* nextBase has moved and ps.active is still the closed segment.  The next *)
(* one's log file is there all the same unless opening that file was what  *)
(* failed, and its index if reading the index was.                         *)
AppendOpenFails(n) ==
    /\ CanClose(n) /\ OpenMayFail
    /\ \/ files' = Closed /\ UNCHANGED <<dir, index>>
       \/ /\ files' = Rolled.files /\ dir' = Rolled.dir
          /\ index' \in {index, Rolled.index}
    /\ active' = [active EXCEPT !.buf = 0, !.fd = FALSE]
    /\ nextBase' = nextBase + active.size
    /\ Seal /\ DropReader
    /\ UNCHANGED <<up, recs, next, sweep, now, restarts>>

(* Append, rollover cannot close the active segment: its file was closed   *)
(* before.  Data in the buffer makes the error sticky.                     *)
AppendCloseFails(n) ==
    /\ Append0(n) /\ ~Fits(active, n) /\ ~active.fd /\ ~active.err
    /\ active.buf > 0
    /\ active' = [active EXCEPT !.err = TRUE]
    /\ UNCHANGED <<up, dir, index, files, nextBase, recs, next, sealed, reader,
                   sweep, now, restarts>>

(* Read: the buffer is drained and a reader over the file is returned, to  *)
(* be used after ps.mu is released.                                        *)
Read ==
    /\ up /\ reader = "none" /\ active.size > 0 /\ active.fd /\ ~active.err
    /\ files' = Closed /\ active' = [active EXCEPT !.buf = 0]
    /\ reader' = "live"
    /\ UNCHANGED <<up, dir, index, nextBase, recs, next, sealed, sweep, now, restarts>>

(* Read on a segment that a failed rollover left closed: draining fails,   *)
(* or the reader is over a closed file.                                    *)
ReadClosed ==
    /\ up /\ reader = "none" /\ active.size > 0 /\ ~active.fd /\ ~active.err
    /\ active' = [active EXCEPT !.err = active.buf > 0]
    /\ reader' = IF active.buf > 0 THEN "none" ELSE "dead"
    /\ UNCHANGED <<up, dir, index, files, nextBase, recs, next, sealed, sweep, now,
                   restarts>>

(* Flush drains the buffer too; on a closed file that fails. *)
Flush ==
    /\ up /\ active.fd /\ ~active.err /\ active.buf > 0
    /\ files' = Closed /\ active' = [active EXCEPT !.buf = 0]
    /\ UNCHANGED <<up, dir, index, nextBase, recs, next, sealed, reader, sweep, now,
                   restarts>>

FlushFails ==
    /\ up /\ ~active.fd /\ ~active.err /\ active.buf > 0
    /\ active' = [active EXCEPT !.err = TRUE]
    /\ UNCHANGED <<up, dir, index, files, nextBase, recs, next, sealed, reader, sweep,
                   now, restarts>>

ReadDone ==
    /\ up /\ reader # "none" /\ reader' = "none"
    /\ UNCHANGED <<up, storeVars, recs, next, sealed, sweep, now, restarts>>
-----------------------------------------------------------------------------
(* CleanOldSegments.  The base of the active segment is read under ps.mu;  *)
(* everything after that runs without the lock.                            *)
SweepStart ==
    /\ up /\ sweep.pc = "idle"
    /\ sweep' = [Idle EXCEPT !.pc = "snapped", !.skip = active.base]
    /\ UNCHANGED <<up, storeVars, recs, next, sealed, reader, now, restarts>>

(* Mutant: the active segment is not skipped. *)
SweepListAll ==
    /\ up /\ sweep.pc = "snapped"
    /\ sweep' = [sweep EXCEPT !.pc = "scan", !.cutoff = now - Retention,
                   !.todo = {b \in Bases : dir[b] # 0}]
    /\ UNCHANGED <<up, storeVars, recs, next, sealed, reader, now, restarts>>

(* The cutoff is taken from the clock and the directory is listed. *)
SweepList ==
    /\ up /\ sweep.pc = "snapped"
    /\ sweep' = [sweep EXCEPT !.pc = "scan", !.cutoff = now - Retention,
                   !.todo = {b \in Bases : dir[b] # 0} \ {sweep.skip}]
    /\ UNCHANGED <<up, storeVars, recs, next, sealed, reader, now, restarts>>

(* Mutant: the age of the file is not looked at. *)
ExpiredAnyAge(b) == dir[b] # 0

Expired(b) == dir[b] # 0 /\ files[dir[b]].mtime <= sweep.cutoff

(* Info is called on the next entry, in the order of the names. *)
SweepStat ==
    /\ up /\ sweep.pc = "scan"
    /\ IF sweep.todo = {} THEN sweep' = Idle
       ELSE \E b \in sweep.todo :
              /\ \A c \in sweep.todo : b <= c
              /\ sweep' = [sweep EXCEPT !.todo = sweep.todo \ {b}, !.victim = b,
                             !.pc = IF Expired(b) THEN "log" ELSE "scan"]
    /\ UNCHANGED <<up, storeVars, recs, next, sealed, reader, now, restarts>>

SweepRemoveLog ==
    /\ up /\ sweep.pc = "log"
    /\ dir' = [dir EXCEPT ![sweep.victim] = 0]
    /\ sweep' = [sweep EXCEPT !.pc = "index"]
    /\ UNCHANGED <<up, index, files, active, nextBase, recs, next, sealed, reader,
                   now, restarts>>

SweepRemoveIndex ==
    /\ up /\ sweep.pc = "index"
    /\ index' = [index EXCEPT ![sweep.victim] = 0]
    /\ sweep' = [sweep EXCEPT !.pc = "scan", !.victim = 0]
    /\ UNCHANGED <<up, dir, files, active, nextBase, recs, next, sealed, reader,
                   now, restarts>>

(* A removal fails: the rest of this entry is left to a later sweep. *)
SweepRemoveFails ==
    /\ up /\ sweep.pc \in {"log", "index"}
    /\ sweep' = [sweep EXCEPT !.pc = "scan", !.victim = 0]
    /\ UNCHANGED <<up, storeVars, recs, next, sealed, reader, now, restarts>>

(* A tick is a large part of the retention time (a week by default), and   *)
(* the cleaner reads the base and the clock in adjacent statements: it is  *)
(* assumed not to be suspended for a tick between them.                    *)
Tick ==
    /\ now < MaxTime /\ sweep.pc # "snapped"
    /\ now' = now + 1
    /\ UNCHANGED <<up, storeVars, recs, next, sealed, reader, sweep, restarts>>
-----------------------------------------------------------------------------
(* The process ends with the files f: records not in them are lost. *)
Down(f) ==
    /\ up /\ restarts < MaxRestarts
    /\ up' = FALSE /\ restarts' = restarts + 1
    /\ files' = f
    /\ recs' = {r \in recs : r.pos + r.len <= f[r.ino].disk}
    /\ active' = [active EXCEPT !.size = 0, !.buf = 0, !.fd = FALSE, !.err = FALSE]
    /\ sweep' = Idle /\ reader' = "none"
    /\ UNCHANGED <<dir, index, nextBase, next, sealed, now>>

(* PartitionStore.Close: the buffer is drained, unless its file is dead. *)
Close == Down(IF active.fd /\ ~active.err THEN Closed ELSE files)

Kill == Down(files)

(* OpenPartitionStore: base 0, whatever segments are there. *)
OpenPartitionStore ==
    LET o == OpenSegment(dir, index, files, 0)
    IN  /\ ~up /\ up' = TRUE
        /\ dir' = o.dir /\ index' = o.index /\ files' = o.files /\ active' = o.seg
        /\ nextBase' = 0
        /\ UNCHANGED <<recs, next, sealed, reader, sweep, now, restarts>>

Init ==
    /\ up = TRUE /\ nextBase = 0 /\ recs = {} /\ next = 0 /\ sealed = {}
    /\ files = <<[disk |-> 0, mtime |-> 0]>>
    /\ dir = [b \in Bases |-> IF b = 0 THEN 1 ELSE 0] /\ index = dir
    /\ active = [base |-> 0, ino |-> 1, size |-> 0, buf |-> 0, fd |-> TRUE, err |-> FALSE]
    /\ reader = "none" /\ sweep = Idle /\ now = 0 /\ restarts = 0

AppendCall(n) ==
    \/ AppendFits(n) \/ AppendWriteFails(n)
    \/ AppendRolls(n) \/ AppendRollsInVain(n)
    \/ AppendOpenFails(n) \/ AppendCloseFails(n)

Sweep ==
    \/ SweepStart \/ SweepList \/ SweepStat
    \/ SweepRemoveLog \/ SweepRemoveIndex \/ SweepRemoveFails

Next ==
    \/ \E n \in RecSizes : AppendCall(n)
    \/ Read \/ ReadClosed \/ ReadDone \/ Flush \/ FlushFails
    \/ Sweep \/ Tick
    \/ Close \/ Kill \/ OpenPartitionStore

Spec == Init /\ [][Next]_vars

(* A producer that keeps calling Append with records a segment can hold. *)
LiveSpec == Spec /\ WF_vars(\E n \in RecSizes : n <= MaxSize /\ AppendCall(n))
-----------------------------------------------------------------------------
(* Two acknowledged records never share bytes of a file, and a record's    *)
(* offset is its place in its own segment: across rollovers, restarts and  *)
(* segments opened again.                                                  *)
RecordsApart ==
    \A r, s \in recs :
        /\ r.off = r.pos
        /\ r.ino = s.ino /\ r.id < s.id => r.pos + r.len <= s.pos

(* A segment that a rollover has closed never changes length again ("data  *)
(* is persisted in immutable segments").                                   *)
SealedUntouched == \A i \in sealed : files'[i].disk = files[i].disk
SealedImmutable == [][SealedUntouched]_vars

(* The active segment's file is never unlinked ("The active segment is     *)
(* never touched").                                                        *)
CleanerSparesActive == up => dir[active.base] = active.ino

(* The index beside a log file describes that log file, not one that the   *)
(* cleaner removed.                                                        *)
IndexOfSameFile ==
    \A b \in Bases : dir[b] # 0 /\ index[b] # 0 => index[b] = dir[b]

(* The ranges that segments cover do not overlap: a segment ends before    *)
(* the base of the next one ("first logical offset this segment covers").  *)
(* The open segment ends at its cursor, any other with its file.  One that *)
(* a failed rollover left closed goes on counting records that reach no    *)
(* file; its cursor may pass the base of the next file.                    *)
RangesApart ==
    \A b, c \in Bases :
        b < c /\ dir[b] # 0 /\ dir[c] # 0 =>
            b + (IF up /\ active.fd /\ dir[b] = active.ino THEN active.size
                 ELSE files[dir[b]].disk) <= c

(* Until the process restarts, the ranges stay apart, whatever rollovers   *)
(* fail and whatever files they leave.                                     *)
FirstRunRangesApart == restarts = 0 => RangesApart

(* Until the process restarts, the cleaner, which works without ps.mu on a *)
(* snapshot of the active base, does not unlink the active file.           *)
FirstRunSparesActive == restarts = 0 => CleanerSparesActive

(* Until the process restarts, a closed segment's file is never written.   *)
FirstRunSealedImmutable == [][restarts = 0 => SealedUntouched]_vars

(* Until the process restarts, a file the cleaner unlinks has not been     *)
(* written to, nor created, during the retention time before.              *)
FirstRunRetentionHonoured ==
    [][restarts = 0 => \A b \in Bases :
          dir[b] # 0 /\ dir'[b] = 0 => now - files[dir[b]].mtime >= Retention]_vars

(* An acknowledged record is in its file or in a buffer that can still be  *)
(* written to it.                                                          *)
AckedWritable ==
    \A r \in recs : \/ r.pos + r.len <= files[r.ino].disk
                    \/ up /\ r.ino = active.ino /\ active.fd /\ ~active.err

(* The same, up to the records that a segment which a failed rollover left *)
(* closed has acknowledged since: across kills, restarts and segments      *)
(* opened again, no other acknowledged record is out of the log's reach.   *)
AckedWritableUnlessClosed ==
    \A r \in recs : \/ r.pos + r.len <= files[r.ino].disk
                    \/ up /\ r.ino = active.ino /\ (active.fd => ~active.err)

(* "Returns the absolute byte offset of the record": no two records of the *)
(* partition have the same offset.                                         *)
OffsetsUnique == \A r, s \in recs : r.off = s.off => r = s

(* "The caller must not use the returned reader after the Segment is       *)
(* closed".                                                                *)
NoReadAfterClose == reader # "dead"

(* One Append tries one rollover only, and after a restart the segments it *)
(* reaches may all be full; a producer that retries is still served, for   *)
(* each call has moved on by one segment.  Only a rollover that failed to  *)
(* open a segment, or the end of the process, stops it.                    *)
RetrySucceeds ==
    \A k \in 0..(MaxAppends - 1) :
        up /\ next = k ~> ~up \/ ~active.fd \/ next > k
=============================================================================
