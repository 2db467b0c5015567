------------------------- MODULE OffsetCoordinator --------------------------
(***************************************************************************)
(* Consumer offsets (internal/server/handler.go: handleOffsetCommit,       *)
(* handleOffsetFetch, LoadOffsetsCache): connection goroutines append      *)
(* commits to partition 0 of __consumer_offsets and then put them in the   *)
(* cache that OffsetFetch answers from; a starting broker fills the cache  *)
(* from what PartitionStore.Read serves, the segment with base 0.          *)
(* A segment is a sequence of items: whole commits and the torn pieces     *)
(* that a killed process left.  The records are taken to be of one size,   *)
(* so that the segment after a full one has the same base in every run of  *)
(* the broker.                                                             *)
(***************************************************************************)
EXTENDS Integers, Sequences, FiniteSets

CONSTANTS
    Workers,      \* connection goroutines
    Keys,         \* (group, topic, partition) triples
    Owns,         \* worker -> the keys its client commits
    SegCap,       \* commits that fit in one segment
    LoadCap,      \* commits in the 2^31 - 1 bytes that one Read may ask for
    MaxCommits,   \* bound on the commits appended
    MaxRestarts,  \* bound on the times the process goes down
    MayKill,      \* the process may be killed, not only shut down
    MayExpire     \* closed segments may become older than the retention time

ASSUME OffsetAssumption ==
    /\ Owns \in [Workers -> SUBSET Keys]
    /\ SegCap \in Nat \ {0} /\ MaxCommits \in Nat /\ MaxRestarts \in Nat
    /\ LoadCap \in Nat \ {0} /\ MayKill \in BOOLEAN /\ MayExpire \in BOOLEAN

OffsetUnknown == -1
Offsets == 0..(MaxCommits - 1)
Segs == 1..(MaxCommits + 1)

VARIABLES
    state,     \* "up", "down", or "failed": os.Exit(1) in main
    segs,      \* the segment files and what is buffered for them
    active,    \* which one PartitionStore appends to
    ondisk,    \* whole items of the active segment that are in the file
    part,      \* how much of the next one is: "none", "head" or "body"
    cache,     \* Handler.offsetCache
    job,       \* what each goroutine has appended and not yet cached
    next,      \* the next offset to commit
    promised,  \* the last acknowledged commit of each key
    expired,   \* the commits whose segment the cleaner has removed
    restarts

logVars == <<segs, active, ondisk, part>>
vars == <<state, logVars, cache, job, next, promised, expired, restarts>>

NoJob == [key |-> "none", off |-> OffsetUnknown]
Commit == [key: Keys, off: Offsets]
Torn == [key: {"torn head", "torn body"}, off: {OffsetUnknown}]
TornPiece(p) == [key |-> IF p = "head" THEN "torn head" ELSE "torn body",
                 off |-> OffsetUnknown]
Unknown == [k \in Keys |-> OffsetUnknown]

TypeOK ==
    /\ state \in {"up", "down", "failed"}
    /\ segs \in [Segs -> Seq(Commit \cup Torn)]
    /\ active \in Segs /\ ondisk \in 0..Len(segs[active])
    /\ part \in {"none", "head", "body"}
    /\ cache \in [Keys -> Offsets \cup {OffsetUnknown}]
    /\ promised \in [Keys -> Offsets \cup {OffsetUnknown}]
    /\ job \in [Workers -> Commit \cup {NoJob}]
    /\ expired \subseteq Commit
    /\ next \in 0..MaxCommits /\ restarts \in 0..MaxRestarts

Init ==
    /\ state = "up"
    /\ segs = [i \in Segs |-> <<>>] /\ active = 1 /\ ondisk = 0 /\ part = "none"
    /\ cache = Unknown /\ promised = Unknown
    /\ job = [w \in Workers |-> NoJob] /\ next = 0 /\ expired = {} /\ restarts = 0
-----------------------------------------------------------------------------
(* The active segment, or the one a rollover opens, can take a commit. *)
Target == IF Len(segs[active]) < SegCap THEN active ELSE active + 1
Full == Len(segs[Target]) >= SegCap

(* Mutant: the cache is updated before the record is appended. *)
CommitRefusedCached(w) ==
    /\ state = "up" /\ job[w] = NoJob /\ next < MaxCommits /\ Full
    /\ active' = Target /\ ondisk' = Len(segs[Target]) /\ part' = "none"
    /\ \E k \in Owns[w] : cache' = [cache EXCEPT ![k] = next]
    /\ UNCHANGED <<state, segs, job, next, promised, expired, restarts>>

(* PartitionStore.Append of the record that encodeOffsetRecord builds: it  *)
(* stays in the buffer, or it fills the buffer, whose flush leaves it      *)
(* whole or cut in its header or its body.                                 *)
AppendCommit(w, k) ==
    LET c == [key |-> k, off |-> next]
    IN  /\ state = "up" /\ job[w] = NoJob /\ next < MaxCommits
        /\ k \in Owns[w] /\ ~Full
        /\ segs' = [segs EXCEPT ![Target] = Append(segs[Target], c)]
        /\ active' = Target
        /\ \/ IF Target = active THEN UNCHANGED <<ondisk, part>>
              ELSE ondisk' = Len(segs[Target]) /\ part' = "none"
           \/ /\ ondisk' = Len(segs[Target])
              /\ part' \in {"head", "body"}
           \/ ondisk' = Len(segs[Target]) + 1 /\ part' = "none"
        /\ job' = [job EXCEPT ![w] = c]
        /\ next' = next + 1
        /\ UNCHANGED <<state, cache, promised, expired, restarts>>

(* Append rolls over and the segment it finds is full: the commit is       *)
(* answered with an error and neither stored nor cached.                   *)
CommitRefused(w) ==
    /\ state = "up" /\ job[w] = NoJob /\ next < MaxCommits /\ Full
    /\ active' = Target /\ ondisk' = Len(segs[Target]) /\ part' = "none"
    /\ UNCHANGED <<state, segs, cache, job, next, promised, expired, restarts>>

(* Mutant: the cached commit is acknowledged with the offset after it. *)
CacheCommitPlusOne(w) ==
    /\ state = "up" /\ job[w] # NoJob
    /\ cache' = [cache EXCEPT ![job[w].key] = job[w].off + 1]
    /\ promised' = [promised EXCEPT ![job[w].key] = job[w].off]
    /\ job' = [job EXCEPT ![w] = NoJob]
    /\ UNCHANGED <<state, logVars, next, expired, restarts>>

(* The cache is updated under offsetMu; the commit will be acknowledged.   *)
CacheCommit(w) ==
    /\ state = "up" /\ job[w] # NoJob
    /\ cache' = [cache EXCEPT ![job[w].key] = job[w].off]
    /\ promised' = [promised EXCEPT ![job[w].key] = job[w].off]
    /\ job' = [job EXCEPT ![w] = NoJob]
    /\ UNCHANGED <<state, logVars, next, expired, restarts>>

(* handleOffsetFetch answers from the cache alone. *)
OffsetFetch(k) == cache[k]

(* CleanOldSegments of the partition: a closed segment of any age is       *)
(* removed with the commits in it.                                         *)
Expire(s) ==
    /\ MayExpire /\ state = "up" /\ s # active /\ segs[s] # <<>>
    /\ segs' = [segs EXCEPT ![s] = <<>>]
    /\ expired' = expired \cup {c \in Commit : \E i \in 1..Len(segs[s]) : segs[s][i] = c}
    /\ UNCHANGED <<state, active, ondisk, part, cache, job, next, promised, restarts>>

(* A Fetch of __consumer_offsets drains the buffer. *)
Drain ==
    /\ state = "up" /\ ondisk < Len(segs[active])
    /\ ondisk' = Len(segs[active]) /\ part' = "none"
    /\ UNCHANGED <<state, segs, active, cache, job, next, promised, expired, restarts>>
-----------------------------------------------------------------------------
Down ==
    /\ state = "up" /\ restarts < MaxRestarts
    /\ state' = "down" /\ restarts' = restarts + 1
    /\ cache' = Unknown
    /\ job' = [w \in Workers |-> NoJob]
    /\ active' = 1 /\ part' = "none"
    /\ UNCHANGED <<next, expired>>

(* The connections are drained and the store is closed. *)
Shutdown ==
    /\ Down /\ \A w \in Workers : job[w] = NoJob
    /\ ondisk' = Len(segs[1])
    /\ UNCHANGED <<segs, promised>>

(* The process is killed: what is not in the file is gone, and so is the   *)
(* promise for it; a part of a record may stay.                            *)
Kill ==
    /\ Down /\ MayKill
    /\ segs' = [segs EXCEPT ![active] =
                  SubSeq(segs[active], 1, ondisk)
                  \o IF part = "none" THEN <<>> ELSE <<TornPiece(part)>>]
    /\ ondisk' = Len(segs'[1])
    /\ promised' = Unknown

-----------------------------------------------------------------------------
(* What Read(0, maxBytes) serves: the segment, or as much of it as maxBytes *)
(* can ask for, which may end inside a record.                             *)
Served ==
    IF Len(segs[1]) <= LoadCap THEN {segs[1]}
    ELSE {SubSeq(segs[1], 1, LoadCap) \o t :
            t \in {<<>>, <<TornPiece("head")>>, <<TornPiece("body")>>}}

(* Mutant: the first commit of a key wins. *)
ReplayFirst(log, S) ==
    [k \in Keys |->
        LET mine == {i \in S : log[i].key = k}
        IN  IF mine = {} THEN OffsetUnknown
            ELSE log[CHOOSE i \in mine : \A j \in mine : i <= j].off]

(* LoadOffsetsCache, when it has decoded the items at the places S of what *)
(* it read: the last commit of a key wins.                                 *)
Replay(log, S) ==
    [k \in Keys |->
        LET mine == {i \in S : log[i].key = k}
        IN  IF mine = {} THEN OffsetUnknown
            ELSE log[CHOOSE i \in mine : \A j \in mine : j <= i].off]

FirstTorn(log) ==
    {i \in 1..Len(log) :
        log[i] \in Torn /\ \A j \in 1..(i - 1) : log[j] \notin Torn}

Start(loaded) ==
    /\ state = "down" /\ state' = "up"
    /\ cache' = loaded
    /\ promised' = IF promised = Unknown THEN loaded ELSE promised
    /\ UNCHANGED <<logVars, job, next, expired, restarts>>

(* Every record that was read is whole. *)
LoadAll ==
    \E log \in Served : FirstTorn(log) = {} /\ Start(Replay(log, 1..Len(log)))

(* A header cut short: at the end of what was read the loop breaks.        *)
(* Before other records it makes the loop read lengths at the wrong        *)
(* places: the record that follows is lost, and what comes after is        *)
(* skipped as malformed until, perhaps, a length ends where a record       *)
(* begins; or the load fails.                                              *)
LoadTornHead ==
    \E log \in Served : \E i \in FirstTorn(log) :
        /\ log[i] = TornPiece("head")
        /\ \E j \in (i + 1)..(Len(log) + 1) :
              /\ j = i + 1 => i = Len(log)
              /\ \A m \in j..Len(log) : log[m] # TornPiece("body")
              /\ Start(Replay(log, (1..(i - 1)) \cup (j..Len(log))))

(* A record body that ends early fails the load, and main exits. *)
LoadFails ==
    /\ state = "down"
    /\ \E log \in Served : \E i \in FirstTorn(log) :
          log[i] = TornPiece("body") \/ i < Len(log)
    /\ state' = "failed"
    /\ UNCHANGED <<logVars, cache, job, next, promised, expired, restarts>>

LoadOffsetsCache == LoadAll \/ LoadTornHead \/ LoadFails

Next ==
    \/ \E w \in Workers, k \in Keys : AppendCommit(w, k)
    \/ \E w \in Workers : CommitRefused(w) \/ CacheCommit(w)
    \/ \E s \in Segs : Expire(s)
    \/ Drain \/ Shutdown \/ Kill \/ LoadOffsetsCache

Spec == Init /\ [][Next]_vars
-----------------------------------------------------------------------------
(* What OffsetFetch serves is what was last acknowledged for the key, in   *)
(* this run of the broker or a run before it ("so that committed offsets   *)
(* survive broker restarts").                                              *)
AckedServed == state = "up" => \A k \in Keys : OffsetFetch(k) = promised[k]

(* As long as each key has one committer, every commit went to one segment *)
(* that Read can serve in full, and no kill has left a torn record in it,  *)
(* OffsetFetch serves what was last acknowledged, over any number of       *)
(* restarts.                                                               *)
CommitsSurvive ==
    /\ \A v, w \in Workers : v # w => Owns[v] \cap Owns[w] = {}
    /\ Len(segs[1]) <= LoadCap /\ FirstTorn(segs[1]) = {}
    /\ expired = {} /\ \A s \in Segs \ {1} : segs[s] = <<>>
    => AckedServed

(* An offset is cached only once its record is in the log, so that no      *)
(* offset is served that was not stored, whatever the load after a kill    *)
(* makes of a torn log; only the cleaner takes the record away under it.   *)
CacheBackedByLog ==
    \A k \in Keys :
        cache[k] # OffsetUnknown =>
            \/ [key |-> k, off |-> cache[k]] \in expired
            \/ \E s \in Segs : \E i \in 1..Len(segs[s]) :
                    segs[s][i] = [key |-> k, off |-> cache[k]]

(* A broker that was killed can be started again. *)
StartsAgain == state # "failed"
=============================================================================
