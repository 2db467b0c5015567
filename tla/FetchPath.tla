----------------------------- MODULE FetchPath ------------------------------
(***************************************************************************)
(* A consumer's fetch loop against handleFetch (internal/server/handler.go) *)
(* while producers append.  handleFetch takes ps.mu once in Size and once  *)
(* in Read, and uses the reader after that; between the three a producer   *)
(* may append or roll the segment over.  The file of a partition is a      *)
(* sequence of on-disk records, each one a length field and the batches of *)
(* one Produce; bytes are counted, in units that keep the order of the     *)
(* sizes in the code.                                                      *)
(***************************************************************************)
EXTENDS Integers, Sequences, FiniteSets, Functions

CONSTANTS
    NumParts,   \* partitions of the FetchRequest, visited in order
    Records,    \* the records producers append: sequences of batch sizes
    RecHdr,     \* recHdr, the on-disk length field
    Prefix,     \* BaseOffset and Length: what a client reads of a batch first
    MaxBytes,   \* FetchRequest.MaxBytes
    PartMax,    \* PartitionMaxBytes
    IntMax,     \* the largest int32
    MaxRecords, \* bound on the records appended
    MayRoll,    \* a producer may find the segment full
    Broken      \* the partitions whose files cannot be opened

ASSUME FetchAssumption ==
    /\ NumParts \in Nat \ {0} /\ MaxRecords \in Nat /\ MayRoll \in BOOLEAN
    /\ \A r \in Records : r \in Seq(Nat)
    /\ Broken \subseteq 1..NumParts
    /\ RecHdr \in Nat /\ Prefix \in Nat /\ 0 < RecHdr /\ RecHdr < Prefix
    /\ IntMax \in Nat
    /\ MaxBytes \in 0..IntMax /\ PartMax \in 0..IntMax

Parts == 1..NumParts

VARIABLES
    log,      \* the records of each partition's active segment
    rolled,   \* the segment that Read used has been closed since
    whole,    \* history: the partitions whose segment was never rolled over
    count,    \* records appended so far
    pc,       \* the handler: "idle", "size", "read", "body"
    cur,      \* the partition it is at
    left,     \* remaining
    n,        \* the bytes Read promised
    resp,     \* the response so far
    pos       \* the consumer's fetch offsets

vars == <<log, rolled, whole, count, pc, cur, left, n, resp, pos>>

Blank == [err |-> "none", off |-> 0, hwm |-> 0, bytes |-> 0, next |-> 0,
          misframed |-> FALSE]

TypeOK ==
    /\ log \in [Parts -> Seq(Records)] /\ rolled \in BOOLEAN
    /\ whole \subseteq Parts
    /\ count \in 0..MaxRecords
    /\ pc \in {"idle", "size", "read", "body"} /\ cur \in 1..(NumParts + 1)
    /\ left \in 0..MaxBytes /\ n \in 0..IntMax
    /\ resp \in [Parts -> [err: {"none", "range"}, off: Nat, hwm: Nat, bytes: Nat,
                           next: Nat, misframed: BOOLEAN]]
    /\ pos \in [Parts -> Nat]

Init ==
    /\ log = [p \in Parts |-> <<>>] /\ rolled = FALSE /\ whole = Parts /\ count = 0
    /\ pc = "idle" /\ cur = 1 /\ left = 0 /\ n = 0
    /\ resp = [p \in Parts |-> Blank] /\ pos = [p \in Parts |-> 0]
-----------------------------------------------------------------------------
(* Where the i-th record of a file starts; the file ends where the record  *)
(* after its last would start.                                             *)
StartOf(file, i) ==
    SumFunction([j \in 1..(i - 1) |-> RecHdr + SumFunction(file[j])])
Size(p) == StartOf(log[p], Len(log[p]) + 1)
Starts(p) == {StartOf(log[p], i) : i \in 1..Len(log[p])}

(* int32 arithmetic *)
Int32(x) == ((x + IntMax + 1) % (2 * (IntMax + 1))) - (IntMax + 1)

Smaller(x, y) == IF x < y THEN x ELSE y

(* Mutant: the record's length field is not counted. *)
PatchedNoHeader(off, batches, len) ==
    LET patch[k \in 0..Len(batches)] ==
            IF k = 0 THEN [cur |-> off, at |-> 0, next |-> off]
            ELSE LET done == patch[k - 1]
                     end == done.cur + batches[k]
                 IN  IF SumFunction(SubSeq(batches, 1, k)) > len THEN done
                     ELSE [cur |-> end, at |-> done.at + batches[k], next |-> end]
    IN  patch[Len(batches)]

(* Mutant: a batch that ends where the payload ends counts as truncated. *)
PatchedShort(off, batches, len) ==
    LET patch[k \in 0..Len(batches)] ==
            IF k = 0 THEN [cur |-> off, at |-> 0, next |-> off]
            ELSE LET done == patch[k - 1]
                     nextPhysical == done.cur + RecHdr + batches[k]
                 IN  IF SumFunction(SubSeq(batches, 1, k)) >= len THEN done
                     ELSE [cur |-> nextPhysical - RecHdr,
                           at |-> done.at + batches[k], next |-> nextPhysical]
    IN  patch[Len(batches)]

(* The patch loop over the batches of one record, of which len bytes are   *)
(* in the payload: cur is currentPos, at is pos, and next is the offset    *)
(* that the client will compute from the last batch patched.  A whole      *)
(* batch is longer than the rbMinPatchBytes that the loop asks for.        *)
Patched(off, batches, len) ==
    LET patch[k \in 0..Len(batches)] ==
            IF k = 0 THEN [cur |-> off, at |-> 0, next |-> off]
            ELSE LET done == patch[k - 1]
                     nextPhysical == done.cur + RecHdr + batches[k]
                 IN  IF SumFunction(SubSeq(batches, 1, k)) > len THEN done
                     ELSE [cur |-> nextPhysical - RecHdr,
                           at |-> done.at + batches[k], next |-> nextPhysical]
    IN  patch[Len(batches)]

(* The response for a window of the file at off, its first RecHdr bytes    *)
(* stripped.  Bytes of another record in it are not stripped of their      *)
(* length field: with enough of them for a batch header the client sees a  *)
(* batch that is none.  A window that does not start at a record is all    *)
(* of that kind.                                                           *)
Served(p, off, len) ==
    LET i == CHOOSE k \in 1..Len(log[p]) : StartOf(log[p], k) = off
        patched == Patched(off, log[p][i], len)
    IN  IF off \in Starts(p)
        THEN [next |-> patched.next,
              misframed |-> len - SumFunction(log[p][i]) >= Prefix]
        ELSE [next |-> off, misframed |-> len >= Prefix]
-----------------------------------------------------------------------------
(* A producer appends to a segment with room. *)
Produce(p, r) ==
    /\ p \notin Broken /\ count < MaxRecords /\ count' = count + 1
    /\ log' = [log EXCEPT ![p] = Append(@, r)]
    /\ UNCHANGED <<rolled, whole, pc, cur, left, n, resp, pos>>

(* The segment is full: it is closed and the record starts a new one.      *)
ProduceRolls(p, r) ==
    /\ MayRoll /\ Len(log[p]) > 0
    /\ count < MaxRecords /\ count' = count + 1
    /\ log' = [log EXCEPT ![p] = <<r>>]
    /\ rolled' = (rolled \/ (pc = "body" /\ p = cur)) /\ whole' = whole \ {p}
    /\ UNCHANGED <<pc, cur, left, n, resp, pos>>
-----------------------------------------------------------------------------
(* The consumer sends a FetchRequest for all partitions. *)
Request ==
    /\ pc = "idle"
    /\ pc' = "size" /\ cur' = 1 /\ left' = MaxBytes
    /\ resp' = [p \in Parts |-> Blank]
    /\ UNCHANGED <<log, rolled, whole, count, n, pos>>

Cap == Smaller(PartMax, left)

(* The answer for the current partition is complete. *)
Answer(a) ==
    /\ resp' = [resp EXCEPT ![cur] = a]
    /\ cur' = cur + 1 /\ pc' = "size" /\ n' = 0

(* GetOrCreatePartition fails. *)
OpenFails ==
    /\ pc = "size" /\ cur \in Broken
    /\ Answer([Blank EXCEPT !.err = "range", !.off = pos[cur], !.next = pos[cur]])
    /\ UNCHANGED <<log, rolled, whole, count, left, pos>>

(* Mutant: a caught-up consumer is out of range. *)
ReadSizeStrict ==
    /\ pc = "size" /\ cur \in Parts \ Broken
    /\ LET a == [Blank EXCEPT !.off = pos[cur], !.hwm = Size(cur), !.next = pos[cur]]
       IN  \/ pos[cur] >= Size(cur) /\ Answer([a EXCEPT !.err = "range"])
           \/ pos[cur] < Size(cur) /\ Cap <= 0 /\ Answer(a)
           \/ /\ pos[cur] < Size(cur) /\ Cap > 0
              /\ pc' = "read" /\ resp' = [resp EXCEPT ![cur] = a]
              /\ UNCHANGED <<cur, n>>
    /\ UNCHANGED <<log, rolled, whole, count, left, pos>>

(* ps.Size() and the cases it decides. *)
ReadSize ==
    /\ pc = "size" /\ cur \in Parts \ Broken
    /\ LET a == [Blank EXCEPT !.off = pos[cur], !.hwm = Size(cur), !.next = pos[cur]]
       IN  \/ pos[cur] = Size(cur) /\ Answer(a)
           \/ pos[cur] > Size(cur) /\ Answer([a EXCEPT !.err = "range"])
           \/ pos[cur] < Size(cur) /\ Cap <= 0 /\ Answer(a)
           \/ /\ pos[cur] < Size(cur) /\ Cap > 0
              /\ pc' = "read" /\ resp' = [resp EXCEPT ![cur] = a]
              /\ UNCHANGED <<cur, n>>
    /\ UNCHANGED <<log, rolled, whole, count, left, pos>>

(* ps.Read with cap + recHdr. *)
Read ==
    LET max == Int32(Cap + RecHdr)
    IN  /\ pc = "read" /\ pos[cur] < Size(cur) /\ max > 0
        /\ n' = Smaller(max, Size(cur) - pos[cur])
        /\ pc' = "body" /\ rolled' = FALSE
        /\ UNCHANGED <<log, whole, count, cur, left, resp, pos>>

(* ps.Read fails: the segment was rolled over and is shorter now, or the   *)
(* number of bytes is not positive.                                        *)
ReadFails ==
    /\ pc = "read" /\ (pos[cur] >= Size(cur) \/ Int32(Cap + RecHdr) <= 0)
    /\ Answer([resp[cur] EXCEPT !.err = "range"])
    /\ UNCHANGED <<log, rolled, whole, count, left, pos>>

(* Mutant: the bytes are not taken off the request's budget. *)
BodyNoBudget ==
    /\ pc = "body" /\ ~rolled /\ n >= RecHdr
    /\ LET s == Served(cur, pos[cur], n - RecHdr)
       IN  Answer([resp[cur] EXCEPT !.bytes = n - RecHdr, !.next = s.next,
                     !.misframed = s.misframed])
    /\ UNCHANGED <<log, rolled, whole, count, left, pos>>

(* Mutant: the length field is charged to the client's budget. *)
BodyWithHeader ==
    /\ pc = "body" /\ ~rolled /\ n >= RecHdr
    /\ LET s == Served(cur, pos[cur], n - RecHdr)
       IN  Answer([resp[cur] EXCEPT !.bytes = n - RecHdr, !.next = s.next,
                     !.misframed = s.misframed])
    /\ left' = left - n
    /\ UNCHANGED <<log, rolled, whole, count, pos>>

(* The bytes are read, stripped and patched. *)
Body ==
    /\ pc = "body" /\ ~rolled /\ n >= RecHdr
    /\ LET s == Served(cur, pos[cur], n - RecHdr)
       IN  Answer([resp[cur] EXCEPT !.bytes = n - RecHdr, !.next = s.next,
                     !.misframed = s.misframed])
    /\ left' = left - (n - RecHdr)
    /\ UNCHANGED <<log, rolled, whole, count, pos>>

(* ReadFull fails, for a rollover closed the file, or there is not even a  *)
(* length field.                                                           *)
BodyFails ==
    /\ pc = "body" /\ (rolled \/ n < RecHdr)
    /\ Answer([resp[cur] EXCEPT !.err = "range"])
    /\ UNCHANGED <<log, rolled, whole, count, left, pos>>

(* handleListOffsets.  An error leaves the client where it is. *)
ListOffsets(p, timestamp) ==
    CASE timestamp = "earliest" -> 0
      [] timestamp = "latest" /\ p \notin Broken -> Size(p)
      [] timestamp = "latest" /\ p \in Broken -> pos[p]

(* The response is written.  The client moves on past the last whole batch; *)
(* out of range makes it ask ListOffsets for the earliest or the latest     *)
(* offset; a batch that is none makes it throw the partition's data away.   *)
Respond ==
    /\ pc = "size" /\ cur = NumParts + 1
    /\ pc' = "idle" /\ cur' = 1
    /\ \E reset \in [Parts -> {"earliest", "latest"}] :
         pos' = [p \in Parts |->
                   IF resp[p].err = "range"
                   THEN ListOffsets(p, reset[p])
                   ELSE IF resp[p].misframed THEN pos[p]
                   ELSE resp[p].next]
    /\ UNCHANGED <<log, rolled, whole, count, left, n, resp>>

Handler == OpenFails \/ ReadSize \/ Read \/ ReadFails \/ Body \/ BodyFails \/ Respond

Next ==
    \/ \E p \in Parts, r \in Records : Produce(p, r) \/ ProduceRolls(p, r)
    \/ Request \/ Handler

Spec == Init /\ [][Next]_vars

(* The consumer polls and its connection's goroutine is scheduled. *)
FairSpec == Spec /\ WF_vars(Request \/ Handler)
-----------------------------------------------------------------------------
(* "We want NextFetchOffset to equal the physical byte offset of the next  *)
(* batch on disk so subsequent Fetch requests land correctly": a consumer  *)
(* of a partition in its first segment only ever fetches from the start of *)
(* a record or from the end, whatever the other partitions go through.     *)
NextFetchLands == \A p \in whole : pos[p] \in Starts(p) \cup {Size(p)}

(* The partitions of a response together carry no more than MaxBytes. *)
BudgetKept == SumFunction([p \in Parts |-> resp[p].bytes]) <= MaxBytes

(* Out of range is answered only to an offset that is beyond the high      *)
(* watermark of the same response ("FetchOffset > HighWatermark: return    *)
(* ErrCodeOffsetOutOfRange", "FetchOffset < HighWatermark: ... stream      *)
(* back"), in a partition that opens and is in its first segment.          *)
OutOfRangeIsBeyond ==
    \A p \in whole \ Broken : resp[p].err = "range" => resp[p].off > resp[p].hwm

(* The same of every partition that opens. *)
OutOfRangeRolled ==
    \A p \in Parts \ Broken : resp[p].err = "range" => resp[p].off > resp[p].hwm

(* Every batch that the client sees in a response is one ("Patch           *)
(* BaseOffset in each RecordBatch").                                       *)
WellFramed == \A p \in Parts : ~resp[p].misframed

(* The consumer of p does not get past its offset, even with the budget of *)
(* the request to itself: the record there is empty, or is larger than     *)
(* what the consumer takes at once, or the window reaches so far into the  *)
(* record after it that the client sees a batch where the length field of  *)
(* that record is.  Such a window is fetched again and again, at the       *)
(* expense of the partitions that come after p in the request.             *)
Stuck(p) ==
    LET limit == Smaller(PartMax, MaxBytes)
    IN  \E i \in DOMAIN log[p] :
          /\ StartOf(log[p], i) = pos[p]
          /\ \/ log[p][i] = <<>>
             \/ SumFunction(log[p][i]) > limit
             \/ Smaller(limit, Size(p) - pos[p] - RecHdr)
                  - SumFunction(log[p][i]) >= Prefix

(* When producers stop, a consumer that polls reaches the end of every     *)
(* partition and stays there, unless it stays stuck in that partition or   *)
(* in one before it in the request, or one of these has been rolled over.  *)
(* A partition that cannot be opened holds up none.                        *)
CatchesUp ==
    <>[](count = MaxRecords =>
           \A p \in Parts \ Broken :
              pos[p] = Size(p) \/ \E q \in 1..p : Stuck(q) \/ q \notin whole)
=============================================================================
