# A TLA+ verification of Kage

Kage is a Kafka-compatible broker in Go. This directory holds TLA+ models of its
storage engine, request handlers, wire protocol and start, the TLC configurations
that check them, and TLAPS proofs about all of them but the wire protocol.

Run everything from this directory:

    tlc -workers 2 -config SegmentFaults.cfg MCSegment
    tlapm SegmentProofs.tla

## The system

| Part | Source | State and operations | Modules |
|---|---|---|---|
| Segment | `internal/storage/segment.go` | `size`, a buffered writer on `<base>.log`; Open, Append, Flush, Read, ReadAt, Close | `Segment`, `FileWriter`, `AbstractLog`, `SegmentProofs` |
| Index | `internal/storage/index.go` | `entries`, bytes since the last entry, a buffered writer on `<base>.index`; maybeAppend, Lookup, load | `Segment` (its mutex guards the index), `IndexProofs` |
| PartitionStore | `internal/storage/store.go` | `active`, `nextBase`; Append with rollover, Read, Flush, Close, CleanOldSegments | `PartitionStore`, `PartitionProofs` |
| BrokerStore | `internal/storage/broker_store.go` | map of partitions; open, GetOrCreatePartition, Topics, Close, the cleaner's loop | `Broker`, `BrokerProofs`, `Startup`, `PartitionNames`, `StartupProofs` |
| Process | `cmd/kaged/main.go` | start, accept loop, worker pool, WaitGroup, shutdown | `Startup`, `Broker` |
| Configuration | `internal/config/config.go` | `Config`; Load, parseYAML, applyEnv, validate | `Config`, `Startup`, `StartupProofs` |
| Connection, Produce | `internal/server/handler.go` | per-connection loop | `Connection`, `Broker` |
| Fetch, ListOffsets | `internal/server/handler.go` | the response, the byte budget | `FetchPath`, `FetchProofs`, `Connection` |
| Consumer offsets | `internal/server/handler.go` | `offsetCache` and the log behind it | `OffsetCoordinator`, `OffsetProofs`, `Connection` |
| Group stubs, Metadata, ApiVersions | `internal/server/handler.go` | none of their own | `Connection`, `Startup` |
| Wire protocol | `internal/protocol` | the position in the stream | `Wire`, `Messages`, `KafkaClient` |
| Metrics | `internal/metrics` | counters | not modelled |

A connection's goroutine decodes a request and calls a handler. Produce and
OffsetCommit append to a `PartitionStore`, which appends to its active `Segment`.
A Segment writes through two buffers, so bytes reach the file later than Append
returns. Fetch takes the partition's lock once for the high watermark, once for
a reader, and reads the bytes holding neither. The cleaner runs on a timer and
holds the lock only to read the active segment's base.

## Modules

- **FileWriter**: a file behind a `bufio.Writer`: bytes on disk, bytes synced,
  bytes buffered, and bufio's sticky error.
- **Segment**: one segment and its index. Append is four actions: without an
  index entry, with one, with the index write failing after the record went in,
  and with the log write failing. `Kill` keeps what the file had; `PowerLoss`
  keeps any prefix that holds what was fsynced. A record has an id, its place,
  the offset Append returned, its length, and whether Append returned nil;
  payload bytes are not represented.
- **AbstractLog**: what a segment promises: ids appended, acknowledged and made
  durable; a failure loses only the newest records, and never durable ones.
- **PartitionStore**: the directory as a map from base offsets to inodes, so that
  an unlinked file can still be written through an open descriptor. A rollover
  whose open fails leaves the old segment closed and active, and the next one's
  files as far as OpenSegment had created them. The cleaner
  is one action per step: the snapshot of the base, the clock and the listing,
  then for each file its stat, the removal of the log, the removal of the index,
  or a removal that fails. The clock is assumed not to tick between the cleaner's
  reading the base and its reading the clock.
- **Broker**: main from the accept loop to the exit, the pool, the goroutines of
  connections and the double-checked creation of partitions.
- **Config**, **PartitionNames**: parsing as operators. A configuration text is
  its kind (integer, duration, word, quoted) and its number. A directory name is
  a sequence of characters, since `^(.+)-(\d+)$` splits it by characters.
- **Startup**: main from `config.Load` to the accept loop, over the directories
  that earlier runs of the process left: the file and the environment (one
  variable per step, in any order, as Go ranges over the map), the scan of the
  log directory, hydration, partitions made on demand, Metadata in its separate
  lock sections, and the cleaner's loop over the partitions. Topic names are not
  empty and hold no path separator, and partitions are not negative.
- **Wire**: the bytes of a connection as cells, each an integer with its width or
  a payload with its length. A Parse function is a layout, the sequence of reads
  it makes, and `Read` interprets it; a read that does not meet a cell of its own
  width has taken bytes of two fields as one.
- **Messages**: the layout of every Parse function and the cells of every Encode
  function. **KafkaClient**: the layouts a client uses, version by version, taken
  from the comments of `messages.go`.
- **Connection**: `Handle`, `dispatch` and one action per handler for a client
  that pipelines requests and may hang up inside one. Whether a partition can be
  opened or read, and whether Append returns an error, is a choice of the
  handler's action; what Append does to the log is in the modules above.
- **FetchPath**: handleFetch one lock section at a time, with the loop that strips
  the length field and patches base offsets, partitions that cannot be opened,
  and a client that advances by the offsets it gets.
- **OffsetCoordinator**: OffsetCommit appends and updates the cache in two steps;
  LoadOffsetsCache replays what one Read of the first segment serves: whole
  records, records a kill has torn, or a last one that the limit of 2^31 - 1 bytes
  (`LoadCap`) has cut. Records have equal size, so a segment is `SegCap` of them.
  `Expire` is the cleaner, which treats `__consumer_offsets` like any topic. What
  was acknowledged before a kill is not expected back: the code buffers without
  fsync. A clean shutdown is the drained path only.

The modules named `MC...` give constants their values. Definitions that follow
the comment on a plausible mistake (`FlushNoSync`, `LookupBelow`, ...) are
variants of the definition after them; each makes one property fail, which shows
that the property depends on that code.

The modules above the segment do not instantiate `Segment`; each keeps what its
properties tell apart. `PartitionStore` keeps the lengths of file and buffer and
shares the buffer's arithmetic (`Kept` of `FileWriter`); write errors of a healthy
file are left to `Segment`. `FetchPath` keeps the sequence of records, each at the
sum of the lengths before it, which is what `OffsetsAreExact` proves of a segment.
`Broker` keeps the set of batches in each store's buffer and file.

## Runs

Times are for two workers.

| Run | Shows | Size |
|---|---|---|
| SegmentFaults | Under kills, power loss and failed writes of either file: the returned offsets are exact, records do not overlap, flushed records survive, readers stay in the file, index entries made since the open are on records, Lookup is the floor, and the segment refines AbstractLog | 55 s, 576 000 states |
| PartitionStore | Failing rollovers, failing removals, the cleaner at every step, kills and a restart, also between the cleaner's removals: records apart, acknowledged records writable, a retrying producer gets through; and in the first run of the process: active file spared, ranges disjoint, closed files immutable, retention honoured | 95 s, 279 000 states |
| OffsetsKilled | Kills, torn loads, rollovers, expired segments and a load cut by the read limit: every cached offset is or was in the log, and commits survive under the conditions `CommitsSurvive` names | 75 s, 1 189 000 states |
| BrokerServe | One store per partition, acknowledged batches kept, the pool's bound, and shutdown ends, accept errors included | 130 s, 951 000 states |
| FetchLoop | Three partitions, one broken, with rollovers between the lock sections: fetches land on records, the budget is kept, out of range is answered only beyond the watermark, and the consumer catches up wherever its window moves it on | 90 s, 311 000 states |
| ConnectionPipeline | All APIs, pipelined and cut off: the stream stays aligned though no frame size is read, responses come in order and parse by the client's layout, a Produce is answered by what Append returned, and the goroutine ends when the client is gone | 125 s, 108 000 states |
| Startup | The configuration does not depend on map order, the partitions of earlier runs are found under their names, Metadata is complete, and the cleaner comes back to every partition though one fails | 120 s, 291 000 states |

Five runs end in a violation. Each states a sentence of the repository that the
code does not keep:

| Run | The sentence | What happens |
|---|---|---|
| PartitionCleanerRestart | `store.go:158` "The active segment is never touched" | After a restart a rollover reopens an old segment that the cleaner, working on an earlier snapshot, then unlinks |
| OffsetsRace | `handler.go:625` "so that committed offsets survive broker restarts" | Two commits of one key append in one order and update the cache in the other |
| BrokerCleanStop | `main.go:134` "all connections drained, Kage stopped cleanly" | An accepted connection is counted after the wait has returned |
| FetchTwoRecords | `handler.go:351` "Patch BaseOffset in each RecordBatch" | Only the first record's length field is stripped; the patch loop then writes over the second's |
| StartupPriority | `config.go:3-6` "Priority (highest to lowest): 1. kage.yaml ... 2. Environment variables", again at `config.go:61-64` | `Load` applies the environment after the file, so a variable replaces a line; its own comment (`config.go:79`) and the tests say so |

Further configurations are kept for reference and are not among the runs above.
Each violates its one property:

| Configuration (module) | Behaviour it exhibits |
|---|---|
| SegmentIndexKilled (MCSegment) | a torn index entry shifts the entries after it |
| SegmentIndexWide (MCSegment) | an index position beyond 32 bits wraps |
| PartitionAbsoluteOffset (MCPartitionStore) | offsets restart at 0 in each segment, though Append's comment calls them absolute |
| PartitionReader | a reader is used after a rollover closed its file |
| PartitionRanges, PartitionImmutable | after a restart segment 0 grows again: ranges overlap, a closed file changes |
| PartitionStaleIndex | a kill or a failure between the removal of `.log` and `.index` leaves an index for a later file of the same name |
| PartitionRolloverFails | a rollover that cannot open leaves a closed segment active; a record small enough for its buffer is acknowledged and never written |
| OffsetsRollover (MCOffsetCoordinator) | commits beyond the first segment are not loaded at start |
| OffsetsReadLimit | a last record that the read limit has cut stops the broker from starting |
| FetchRolled, FetchWide (MCFetchPath) | out of range below the watermark, after a rollover or an int32 overflow |
| FetchTwoBatches | a record of two batches leads the next fetch into its middle |
| ConnectionAdvertised (MCConnection) | ApiVersions offers versions whose responses the code does not lay out |
| ConnectionAllTopics | a Metadata request for all topics, a null array from version 1 on, is not parsed |
| ConnectionFrameWraps | the size of a Fetch response wraps in its int32 sum |

Two constants of the code are worth knowing beside these: Metadata and
FindCoordinator answer with port 9092 whatever `port` is configured, and the
metrics listener takes `port + 1`.

### Bounds

Sizes are scaled down with their order kept: records are smaller and larger than
the buffer (`BufCap`), fill a segment to its last byte (SegmentFaults) or fit in
none (PartitionStore has one larger than `MaxSize`), and reach the index interval
alone or together. `MaxAppends` allows two rollovers, before or after the restart;
`MaxTime` lets a file reach the age of `Retention`. `Bases` bounds the bases of
segments by the bytes that can be appended; `CanClose` repeats the bound in its
guard for the proofs, and TLC finds that it never holds a rollover back in
PartitionStore.

FetchLoop has windows of 7 bytes and records of 0, 4, 7 and 9: a window ends inside
a record, fits it, or reaches into the next one, and the request's budget of 10
leaves the later partition part of a window.

OffsetsKilled has segments of three commits, loads of two and seven commits: the
first segment outgrows one Read, and after a restart a rollover can meet a full
segment and refuse a commit. Three connections on two workers give a refused one;
two partitions give one that fails to close beside one that holds data.

ConnectionPipeline has two requests per connection, the second behind the first
without waiting for it if it is a Heartbeat: misalignment shows in the request
after the one that caused it. Clients use the layouts that the comments of
`messages.go` give. ApiVersions (`messages.go:972-985`) offers more versions than
those: the parsers, which have one layout each, do not fit Fetch 0 to 3,
ListOffsets 0, OffsetCommit 0 and 1, JoinGroup 0 and Metadata 7 to 9, nor null
arrays, and Aligned says nothing of such requests. Arrays have up to two or three
elements, beyond `MaxCount`, and batches are empty, valid or with a wrong checksum.
No run sends a batch whose Length field is below 9, on which `ValidateRecordBatch`
panics (`record_batch.go:77`; the model has the outcome, `panicked`), so
ProduceAnswered and ConnectionEnds are not about that case. `IntMax` stands for the
largest int32. Startup has a topic whose name ends like a partition's
directory, a two-digit partition, three foreign directories, files of two lines,
and a restart that may load another configuration and so another log directory.

The properties of PartitionStore named `FirstRun...` speak of the states before the
first restart; PartitionRanges, PartitionImmutable and PartitionCleanerRestart show
that restarts break them. A segment that a failed rollover closed takes further
records into its buffer and never writes them. AckedWritableUnlessClosed excepts
these, RangesApart counts the bytes in that segment's file and not its cursor, which
passes the base of the next file, and RetrySucceeds promises nothing while it is
active: PartitionRolloverFails shows why. CatchesUp excepts a partition that has
rolled over or that a fetch cannot move past (`Stuck`): an empty record, a record
larger than the window, or a window that reaches two bytes (a batch's first fields,
in the model's units) beyond the record, where the client meets the second record's
length field. The code promises no progress in the first two cases; the third is
FetchTwoRecords. ProduceAnswered compares a response with what Append returned, not
with the log: an Append that fails on the index leaves its record (SegmentFaults),
and a closed segment accepts what it never writes (PartitionRolloverFails).
NextFetchLands and OutOfRangeIsBeyond are about partitions in their first segment
and limits away from the largest int32.

Deadlock is not checked in Broker and Startup (the process exits), in Connection
(it closes), and in OffsetsKilled (the bounds on commits and restarts run out).

### Fairness

- ShutdownEnds: weak fairness of main alone. main is always runnable or waiting
  for a timer that fires. Nothing is assumed of clients or their goroutines.
- RetrySucceeds: weak fairness of the Append calls that change something, a
  producer that keeps trying with records that fit a segment. A segment closed by a
  rollover that failed to open is excepted.
- CatchesUp: weak fairness of the consumer's poll and its handler's goroutine.
- ConnectionEnds: weak fairness of the connection's goroutine, which the Go
  scheduler gives; a read returns once the client has gone.
- SweptAgain: weak fairness of the cleaner's goroutine and its ticker. That one
  round visits every partition is what makes weak fairness enough.

## Proofs

The theorems hold for all values of the constants that satisfy the named
assumptions of the modules (sizes, buffers, numbers of connections, partitions,
keys and restarts, sets of faults, configurations, topic names and records).

| Module | Theorems (property) |
|---|---|
| SegmentProofs | TypeCorrect, OffsetsAreExact (AppendOffsetExact), CursorIsExact, RecordsStayApart, SizeIsBounded (WithinMaxSize), FlushIsDurable (FlushedSurvive), ViewsStayReadable, SegmentImplementsLog (RefinesAbstractLog) |
| IndexProofs | IndexIsSound (IndexSound) and LookupFindsFloor (LookupIsFloor), if `MaxSize <= PosMod` |
| PartitionProofs | TypeCorrect, RecordsStayApart, AckedStayWritable (AckedWritableUnlessClosed), and of the first run of the process CleanerNeverTouchesActive (FirstRunSparesActive), RangesStayApart (FirstRunRangesApart), RetentionIsHonoured (FirstRunRetentionHonoured), SealedStayImmutable (FirstRunSealedImmutable) |
| BrokerProofs | TypeCorrect, PoolIsBounded, OneStore, KeptIsStored |
| OffsetProofs | TypeCorrect, CacheIsBacked, CommitsDoSurvive |
| FetchProofs | TypeCorrect, BudgetIsKept; NextFetchDoesLand (NextFetchLands) if no record has two batches (`SingleBatch`); OutOfRangeOnlyBeyond (OutOfRangeIsBeyond) if, besides, a fetch's limit stays a length field below the largest int32 (`Narrow`) |
| StartupProofs | NameReadsBack, TypeCorrect, ConfigIsResolved, TopicsAreExact, MetadataIsComplete |
| SumProofs | lemmas: induction over the natural numbers, sums over finite sets |

The extra hypotheses and the conditions in the properties are not conveniences:
SegmentIndexWide, PartitionRolloverFails, PartitionRanges, PartitionImmutable,
PartitionCleanerRestart, FetchTwoBatches and FetchWide show the properties failing
without them.

**Induction.** The provers cannot apply an induction theorem whose parameter is an
operator. `SetInduction` (SumProofs) takes a set instead: one that holds 0 and,
with every number, the next. It follows from the least element of a set of
natural numbers. A recursive function is a CHOOSE of a function that satisfies its
equation, so each is first shown to exist, by induction on how far it is defined;
this is done for sums over finite sets, for Lookup's loop, for the decimal digits
of a number and their reading, and for the lines of a configuration file.

**Segment.** The inductive invariant is `IInv == IdxType /\ LogInv` (and the type
of `faulted`). The properties alone are not inductive. That records do not overlap
after an append needs every record to end at or below the cursor; that a crash
spares flushed records needs them to end at or below the synced length; and both
need synced <= disk and the cursor equal to disk plus buffer while the segment is
open and its writer has no error. The refinement also needs ids to be unique and
below `next`. `LogInv` does not mention the index, so the two halves are proved
apart.

**Index.** `IndexInv` adds that records are not empty and, as long as nothing has
failed (`FileInv`), that the index file and its buffer are a whole number of
entries, each naming a record, in the order of the records: what a clean reopen
loads is then sound again. For Lookup, `InOrderInv` says that the offsets of the
entries increase. The loop's variables are a record; `Splits` is the loop's
invariant (what is below `lo` is not beyond the target, what is above `hi` is, and
`result` is the entry below `lo`), and each turn encloses fewer entries.

**Partition.** `Inv == Scalars /\ Disk /\ RecInv`: every record of a file ends
within the file, or within the bytes that the active segment will still write to
it (`Covers`), and records of one file are ordered. A rollover or a restart may
open a file with records in it; `Opened` says what OpenSegment returns then, and
the cursor starts at the end of the file, which `Covers` puts behind them. For the
cleaner, `FirstRun` adds `RunInv` until the first restart: `Chained` (the active base
is the greatest while its file is open, a failed rollover may have left an empty
file at `nextBase`, and the segments below follow one another) and `Spares`: from the snapshot on, the active
segment is the one to be skipped, or it was created after the snapshot and is
younger than the cutoff. The second half is what a reader of `CleanOldSegments`
has to see, since the skipped name may be stale by the time it is compared. It
rests on the assumption on the clock above and on `Retention > 0`.

**Broker.** `IInv` counts: the semaphore is the number of goroutines that hold a
token, one more between the take and the start; the WaitGroup's counter is the
number of goroutines started and not done. `Mapped` says that each store object is
the map's for its partition, and `Kept` that an acknowledged batch is in a file or
in a buffer that Close has yet to write.

**Offsets.** `StoreInv` says that every cached, promised and pending offset has its
record in some segment or expired. CommitsSurvive needs `Tracked`: under its
conditions the cache is what a load of the first segment would give, except for a
key whose committer is between its append and its cache update.

**Fetch.** `SafeInv == TypeOK /\ AtPart /\ Budget`: what the response carries and
what is left of the budget are at most MaxBytes together, nothing is served yet of
the partitions to come, and a read is cut to what is left and a length field.
`LandsInv` puts the consumer's position, and the one its answer will give it, at
the start of a record or the end of the file. Appending moves no record
(`StartAppend`), so that stays true while producers run between the lock sections.
For OutOfRangeIsBeyond, `ReadInv` carries over the lock sections what Size and Read
found: the position is still below the size, the reader's file is still the first
segment, and its window holds a length field at least.

**Startup.** NameReadsBack is the fact about `^(.+)-(\d+)$`: the name made for a
partition is taken apart into that partition and no other, because the digits that
%d writes hold no hyphen and are read back as the same number. `ConfigInv` follows
the load: the file's lines, under the variables applied so far (`Overlaid`); each
field then holds an accepted value or its default, which is why `validate` refuses
nothing more. `DiskInv` says that a partition once opened has its directory, and
`StoresInv` that each store belongs to a partition whose opening was begun, and
that of the partitions ever opened each is open or still to be scanned. `MetaInv`
says that what a Metadata request has seen or made is in Topics until it is
answered: the map only grows while a process lives.

Only model-checked: all liveness (beyond the prover), and Connection with Wire,
Messages and KafkaClient. Their decoder and encoder are mutually recursive over
nested layouts, and the proof system has no SMT backend in a module that reaches a
recursive operator. Aligned, InOrder, FramesExact and ProduceAnswered all rest on
what that decoder returns.

## Not modelled

- Metrics and their HTTP listener: no broker state depends on them.
- Bytes of payloads, checksums and the field encoding of an offset record. Their
  lengths and what a torn or cut one is read as are modelled.
- Logging, and the wording of errors.
- Write errors of a healthy file above the segment: `Segment` has them, and
  `PartitionStore` only those that follow from a closed file.
- The time of the cleaner between its first two statements, as said above.
