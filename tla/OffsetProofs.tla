---------------------------- MODULE OffsetProofs ----------------------------
(***************************************************************************)
(* Proofs about OffsetCoordinator, for any number of committers, keys,     *)
(* commits, restarts and kills, and every segment and load limit: nothing  *)
(* is served that was not stored, and what was acknowledged is served      *)
(* again as long as the log is one whole segment.                          *)
(***************************************************************************)
EXTENDS OffsetCoordinator, WellFoundedInduction, TLAPS

Log == Seq(Commit \cup Torn)
Values == Offsets \cup {OffsetUnknown}

(* Where the segments are: a segment that holds something has a number     *)
(* that is no greater than the count of commits.                           *)
Shape ==
    /\ segs \in [Segs -> Log] /\ active \in Segs /\ next \in 0..MaxCommits
    /\ \A s \in Segs : segs[s] # <<>> => s <= next
    /\ active = 1 \/ active <= next
    /\ ondisk \in 0..Len(segs[active]) /\ part \in {"none", "head", "body"}
    /\ part # "none" => ondisk < Len(segs[active])

Scalars ==
    /\ state \in {"up", "down", "failed"} /\ restarts \in 0..MaxRestarts
    /\ expired \subseteq Commit

(* The commit is in the log, or was removed with its segment. *)
Logged(c) == c \in expired \/ \E s \in Segs : \E i \in 1..Len(segs[s]) : segs[s][i] = c

Backed(f) == \A k \in Keys : f[k] # OffsetUnknown => Logged([key |-> k, off |-> f[k]])

Jobs ==
    /\ job \in [Workers -> Commit \cup {NoJob}]
    /\ \A w \in Workers : job[w] # NoJob => job[w].key \in Owns[w] /\ Logged(job[w])
    /\ state # "up" => \A w \in Workers : job[w] = NoJob

Promises ==
    /\ cache \in [Keys -> Values] /\ promised \in [Keys -> Values]
    /\ Backed(cache) /\ Backed(promised)

StoreInv == Shape /\ Scalars /\ Jobs /\ Promises
-----------------------------------------------------------------------------
LEMMA Greatest ==
    ASSUME NEW n \in Nat, NEW T \in SUBSET (1..n), T # {}
    PROVE  \E m \in T : \A j \in T : j <= m
<1> DEFINE U == {n - t : t \in T}
<1>1. U \in SUBSET Nat /\ U # {}
  <2>1. \A t \in T : n - t \in Nat
    OBVIOUS
  <2>2. PICK t \in T : TRUE
    OBVIOUS
  <2>3. n - t \in U
    OBVIOUS
  <2>4. QED
    BY <2>1, <2>3
<1>2. \E x \in U : \A y \in U : ~(<<y, x>> \in OpToRel(<, Nat))
  BY <1>1, NatLessThanWellFounded, WFMin
<1>3. PICK x \in U : \A y \in U : ~(y < x)
  BY <1>1, <1>2 DEF OpToRel
<1>4. PICK m \in T : x = n - m
  BY <1>3
<1>5. ASSUME NEW j \in T PROVE j <= m
  <2>1. ~(n - j < n - m) /\ j \in 1..n /\ m \in 1..n
    BY <1>3, <1>4
  <2>2. QED
    BY <2>1
<1>6. QED
  BY <1>5

(* What Replay gives for a key is the last of its items. *)
LEMMA ReplayLast ==
    ASSUME NEW log, NEW S, NEW k \in Keys, NEW m \in S, m \in Int, S \subseteq Int,
           log[m].key = k, \A j \in S : log[j].key = k => j <= m
    PROVE  Replay(log, S)[k] = log[m].off
<1> DEFINE mine == {i \in S : log[i].key = k}
           c == CHOOSE i \in mine : \A j \in mine : j <= i
<1>1. m \in mine /\ \A j \in mine : j <= m
  OBVIOUS
<1>2. c \in mine /\ \A j \in mine : j <= c
  BY <1>1
<1>3. c = m
  <2> HIDE DEF c
  <2>1. c \in Int /\ c <= m /\ m <= c
    BY <1>1, <1>2
  <2>2. QED
    BY <2>1
<1>4. Replay(log, S)[k] = log[c].off
  BY <1>1 DEF Replay
<1>5. QED
  BY <1>3, <1>4

LEMMA ReplayNone ==
    ASSUME NEW log, NEW S, NEW k \in Keys, \A j \in S : log[j].key # k
    PROVE  Replay(log, S)[k] = OffsetUnknown
<1>1. {i \in S : log[i].key = k} = {}
  OBVIOUS
<1>2. QED
  BY <1>1 DEF Replay

(* The cache that a load fills has only what it read. *)
LEMMA ReplayRead ==
    ASSUME NEW log \in Log, NEW S \in SUBSET (1..Len(log))
    PROVE  /\ Replay(log, S) \in [Keys -> Values]
           /\ \A k \in Keys : Replay(log, S)[k] # OffsetUnknown =>
                \E i \in 1..Len(log) : log[i] = [key |-> k, off |-> Replay(log, S)[k]]
<1>1. ASSUME NEW k \in Keys
      PROVE  /\ Replay(log, S)[k] \in Values
             /\ Replay(log, S)[k] # OffsetUnknown =>
                  \E i \in 1..Len(log) : log[i] = [key |-> k, off |-> Replay(log, S)[k]]
  <2> DEFINE mine == {i \in S : log[i].key = k}
  <2>1. CASE mine = {}
    BY <2>1, ReplayNone DEF Values
  <2>2. CASE mine # {}
    <3>1. mine \in SUBSET (1..Len(log)) /\ mine \subseteq S
      OBVIOUS
    <3>a. Len(log) \in Nat
      BY DEF Log
    <3>2. PICK m \in mine : \A j \in mine : j <= m
      BY <2>2, <3>1, <3>a, Greatest
    <3>3. Replay(log, S)[k] = log[m].off /\ m \in 1..Len(log) /\ log[m].key = k
      <4>1. m \in S /\ log[m].key = k /\ m \in 1..Len(log)
        BY <3>1
      <4>2. m \in Int /\ S \subseteq Int
        BY <4>1
      <4>3. \A j \in S : log[j].key = k => j <= m
        BY <3>2
      <4>4. QED
        BY <4>1, <4>2, <4>3, ReplayLast
    <3>4. log[m] \in Commit \cup Torn
      BY <3>3 DEF Log
    <3>5. CASE log[m] \in Commit
      <4>1. log[m].off \in Offsets /\ log[m] = [key |-> log[m].key, off |-> log[m].off]
        BY <3>5 DEF Commit
      <4>2. QED
        BY <3>3, <4>1 DEF Values
    <3>6. CASE log[m] \in Torn
      BY <3>3, <3>6 DEF Values, Torn
    <3>7. QED
      BY <3>4, <3>5, <3>6
  <2>3. QED
    BY <2>1, <2>2
<1>2. QED
  BY <1>1 DEF Replay

(* Of what Read serves, every commit is in the segment. *)
LEMMA ServedRead ==
    ASSUME Shape, NEW log \in Served
    PROVE  /\ log \in Log
           /\ \A i \in 1..Len(log) : log[i] \in Commit =>
                \E j \in 1..Len(segs[1]) : segs[1][j] = log[i]
<1>1. 1 \in Segs /\ segs[1] \in Log /\ LoadCap \in Nat
  BY OffsetAssumption DEF Shape, Segs
<1>2. CASE Len(segs[1]) <= LoadCap
  BY <1>1, <1>2 DEF Served
<1>3. CASE ~(Len(segs[1]) <= LoadCap)
  <2> DEFINE s == SubSeq(segs[1], 1, LoadCap)
  <2>1. PICK t \in {<<>>, <<TornPiece("head")>>, <<TornPiece("body")>>} : log = s \o t
    BY <1>3 DEF Served
  <2>2. TornPiece("head") \in Torn /\ TornPiece("body") \in Torn
    BY DEF TornPiece, Torn
  <2>3. \A x \in Torn : x \notin Commit
    <3>1. OffsetUnknown \notin Offsets
      BY OffsetAssumption DEF Offsets, OffsetUnknown
    <3>2. QED
      BY <3>1 DEF Torn, Commit
  <2>4. t \in Log /\ \A i \in 1..Len(t) : t[i] \notin Commit
    <3>1. \A x \in Torn : <<x>> \in Log /\ Len(<<x>>) = 1 /\ <<x>>[1] = x
      BY DEF Log
    <3>2. <<>> \in Log /\ Len(<<>>) = 0
      BY DEF Log
    <3>3. QED
      BY <2>1, <2>2, <2>3, <3>1, <3>2
  <2>5. s \in Log /\ Len(s) = LoadCap /\ \A i \in 1..LoadCap : s[i] = segs[1][i]
    BY <1>1, <1>3 DEF Log
  <2>6. log \in Log /\ Len(log) = LoadCap + Len(t) /\ Len(t) \in Nat
    BY <2>1, <2>4, <2>5 DEF Log
  <2>7. ASSUME NEW i \in 1..Len(log), log[i] \in Commit
        PROVE  \E j \in 1..Len(segs[1]) : segs[1][j] = log[i]
    <3>1. CASE i <= LoadCap
      BY <1>1, <1>3, <2>1, <2>4, <2>5, <3>1 DEF Log
    <3>2. CASE i > LoadCap
      <4>1. i - LoadCap \in 1..Len(t)
        BY <1>1, <2>6, <3>2
      <4>a. log[i] = t[i - LoadCap]
        BY <1>1, <2>1, <2>4, <2>5, <2>6, <3>2, <4>1 DEF Log
      <4>2. QED
        BY <2>4, <2>7, <4>1, <4>a
    <3>3. QED
      BY <1>1, <2>6, <3>1, <3>2
  <2>8. QED
    BY <2>6, <2>7
<1>4. QED
  BY <1>2, <1>3
-----------------------------------------------------------------------------
(* Appending keeps what is in the log, and the cleaner records what it     *)
(* removes.                                                                *)
LEMMA StaysLogged ==
    ASSUME Shape, NEW c \in Commit, Logged(c),
           \/ UNCHANGED <<segs, expired>>
           \/ \E w \in Workers, k \in Keys : AppendCommit(w, k)
           \/ \E s \in Segs : Expire(s)
    PROVE  Logged(c)'
<1>1. CASE c \in expired
  BY <1>1 DEF Logged, AppendCommit, Expire
<1>2. ASSUME NEW s \in Segs, NEW i \in 1..Len(segs[s]), segs[s][i] = c
      PROVE  Logged(c)'
  <2>1. CASE UNCHANGED <<segs, expired>>
    BY <1>2, <2>1 DEF Logged
  <2>2. ASSUME NEW w \in Workers, NEW k \in Keys, AppendCommit(w, k)
        PROVE  Logged(c)'
    <3>1. PICK x : segs' = [segs EXCEPT ![Target] = Append(segs[Target], x)]
      BY <2>2 DEF AppendCommit
    <3>2. CASE s = Target
      <4>1. segs'[s] = Append(segs[s], x) /\ segs[s] \in Log
        BY <3>1, <3>2 DEF Shape
      <4>2. i \in 1..Len(segs'[s]) /\ segs'[s][i] = c
        BY <1>2, <4>1 DEF Log
      <4>3. QED
        BY <4>2 DEF Logged
    <3>3. CASE s # Target
      BY <1>2, <3>1, <3>3 DEF Logged, Shape
    <3>4. QED
      BY <3>2, <3>3
  <2>3. ASSUME NEW t \in Segs, Expire(t)
        PROVE  Logged(c)'
    <3>1. CASE s = t
      BY <1>2, <2>3, <3>1 DEF Logged, Expire
    <3>2. CASE s # t
      BY <1>2, <2>3, <3>2 DEF Logged, Expire, Shape
    <3>3. QED
      BY <3>1, <3>2
  <2>4. QED
    BY <2>1, <2>2, <2>3
<1>3. QED
  BY <1>1, <1>2 DEF Logged

LEMMA StaysBacked ==
    ASSUME Shape, NEW f \in [Keys -> Values], Backed(f),
           \/ UNCHANGED <<segs, expired>>
           \/ \E w \in Workers, k \in Keys : AppendCommit(w, k)
           \/ \E s \in Segs : Expire(s)
    PROVE  Backed(f)'
<1> SUFFICES ASSUME NEW k \in Keys, f[k] # OffsetUnknown
             PROVE  Logged([key |-> k, off |-> f[k]])'
  BY DEF Backed
<1> DEFINE c == [key |-> k, off |-> f[k]]
<1>1. c \in Commit
  BY DEF Commit, Values
<1>2. Logged(c)
  BY DEF Backed
<1>3. QED
  BY <1>1, <1>2, StaysLogged

LEMMA UnknownBacked == Unknown \in [Keys -> Values] /\ Backed(Unknown)
  BY DEF Unknown, Values, Backed

(* The segment that Append goes to is one of Segs. *)
LEMMA TargetOf ==
    ASSUME Shape, next < MaxCommits
    PROVE  /\ Target \in Segs /\ Target <= next + 1 /\ segs[Target] \in Log
           /\ Full => Target <= next
           /\ Len(segs[Target]) \in Nat
<1>1. active \in Segs /\ segs[active] \in Log /\ Len(segs[active]) \in Nat
  BY DEF Shape, Log
<1>2. Len(segs[active]) >= SegCap => active <= next
  <2>1. Len(<<>>) = 0 /\ SegCap > 0
    BY OffsetAssumption
  <2>2. QED
    BY <1>1, <2>1, OffsetAssumption DEF Shape
<1>3. Target \in Segs /\ Target <= next + 1
  BY <1>1, <1>2, OffsetAssumption DEF Target, Shape, Segs
<1>4. segs[Target] \in Log /\ Len(segs[Target]) \in Nat
  BY <1>3 DEF Shape, Log
<1>5. Full => Target <= next
  <2>1. Len(<<>>) = 0 /\ SegCap > 0
    BY OffsetAssumption
  <2>2. QED
    BY <1>3, <1>4, <2>1, OffsetAssumption DEF Shape, Full
<1>6. QED
  BY <1>3, <1>4, <1>5

LEMMA ShapeStep ==
    ASSUME Shape, Jobs, [Next]_vars
    PROVE  Shape'
<1>1. CASE UNCHANGED <<logVars, next>>
  BY <1>1 DEF Shape, logVars
<1>2. ASSUME NEW w \in Workers, NEW k \in Keys, AppendCommit(w, k) PROVE Shape'
  <2> DEFINE c == [key |-> k, off |-> next]
  <2>1. /\ next < MaxCommits /\ next' = next + 1 /\ active' = Target
        /\ segs' = [segs EXCEPT ![Target] = Append(segs[Target], c)]
    BY <1>2 DEF AppendCommit
  <2>2. c \in Commit /\ next' \in 0..MaxCommits
    BY <2>1, OffsetAssumption DEF Commit, Offsets, Shape
  <2>3. Target \in Segs /\ Target <= next' /\ segs[Target] \in Log
    BY <2>1, TargetOf
  <2>4. segs'[Target] \in Log /\ Len(segs'[Target]) = Len(segs[Target]) + 1
        /\ Len(segs[Target]) \in Nat
    BY <2>1, <2>2, <2>3 DEF Log, Shape
  <2>5. \A s \in Segs : s # Target => segs'[s] = segs[s]
    BY <2>1 DEF Shape
  <2>6. segs' \in [Segs -> Log]
    BY <2>1, <2>2, <2>3, <2>4, <2>5 DEF Shape
  <2>7. \A s \in Segs : segs'[s] # <<>> => s <= next'
    BY <2>1, <2>2, <2>3, <2>5 DEF Shape, Segs
  <2>8. /\ ondisk' \in 0..Len(segs'[active']) /\ part' \in {"none", "head", "body"}
        /\ part' # "none" => ondisk' < Len(segs'[active'])
    <3>1. CASE Target = active /\ UNCHANGED <<ondisk, part>>
      BY <2>1, <2>4, <3>1 DEF Shape
    <3>2. CASE ondisk' = Len(segs[Target]) /\ part' \in {"none", "head", "body"}
      BY <2>1, <2>4, <3>2
    <3>3. CASE ondisk' = Len(segs[Target]) + 1 /\ part' = "none"
      BY <2>1, <2>4, <3>3
    <3>4. QED
      BY <1>2, <3>1, <3>2, <3>3 DEF AppendCommit
  <2>9. QED
    BY <2>1, <2>2, <2>3, <2>6, <2>7, <2>8 DEF Shape
<1>3. ASSUME NEW w \in Workers, CommitRefused(w) PROVE Shape'
  <2>1. /\ next < MaxCommits /\ Full /\ active' = Target /\ UNCHANGED <<segs, next>>
        /\ ondisk' = Len(segs[Target]) /\ part' = "none"
    BY <1>3 DEF CommitRefused
  <2>2. QED
    BY <2>1, TargetOf DEF Shape
<1>4. ASSUME NEW s \in Segs, Expire(s) PROVE Shape'
  <2>1. s # active /\ segs' = [segs EXCEPT ![s] = <<>>] /\ UNCHANGED <<active, ondisk, part, next>>
    BY <1>4 DEF Expire
  <2>2. <<>> \in Log
    BY DEF Log
  <2>3. QED
    BY <2>1, <2>2 DEF Shape
<1>5. CASE Drain
  BY <1>5 DEF Drain, Shape, Log
<1>6. 1 \in Segs /\ segs[1] \in Log
  BY OffsetAssumption DEF Shape, Segs
<1>7. CASE Shutdown
  BY <1>6, <1>7 DEF Shutdown, Down, Shape, Log
<1>8. CASE Kill
  <2> DEFINE t == IF part = "none" THEN <<>> ELSE <<TornPiece(part)>>
             u == SubSeq(segs[active], 1, ondisk) \o t
  <2>1. /\ segs' = [segs EXCEPT ![active] = u] /\ ondisk' = Len(segs'[1])
        /\ active' = 1 /\ part' = "none" /\ next' = next
    BY <1>8 DEF Kill, Down
  <2>2. t \in Log /\ (part # "none" => segs[active] # <<>>) /\ (part = "none" => t = <<>>)
    <3>1. TornPiece(part) \in Torn
      BY DEF TornPiece, Torn
    <3>2. <<>> \in Log /\ <<TornPiece(part)>> \in Log /\ Len(<<>>) = 0
      BY <3>1 DEF Log
    <3>3. part # "none" => segs[active] # <<>>
      BY <3>2 DEF Shape
    <3>4. QED
      BY <3>2, <3>3
  <2>3. segs[active] \in Log /\ ondisk \in 0..Len(segs[active])
    BY DEF Shape
  <2>4. u \in Log
    BY <2>2, <2>3 DEF Log
  <2>5. u # <<>> => segs[active] # <<>>
    <3>1. segs[active] = <<>> => ondisk = 0 /\ t = <<>>
      BY <2>2, <2>3 DEF Log
    <3>2. QED
      BY <3>1
  <2>6. segs' \in [Segs -> Log] /\ \A s \in Segs : segs'[s] # <<>> => segs[s] # <<>>
    BY <2>1, <2>4, <2>5 DEF Shape
  <2>7. segs'[1] \in Log
    BY <1>6, <2>6
  <2>8. Len(segs'[1]) \in Nat
    BY <2>7 DEF Log
  <2>9. QED
    BY <1>6, <2>1, <2>6, <2>8 DEF Shape
<1>9. CASE LoadOffsetsCache
  BY <1>1, <1>9 DEF LoadOffsetsCache, LoadAll, LoadTornHead, LoadFails, Start
<1>10. ASSUME NEW w \in Workers, CacheCommit(w) PROVE Shape'
  BY <1>1, <1>10 DEF CacheCommit
<1>11. QED
  BY <1>1, <1>2, <1>3, <1>4, <1>5, <1>7, <1>8, <1>9, <1>10 DEF Next, vars
-----------------------------------------------------------------------------
LEMMA ScalarsStep ==
    ASSUME Scalars, [Next]_vars
    PROVE  Scalars'
<1>1. CASE UNCHANGED <<state, restarts, expired>>
  BY <1>1 DEF Scalars
<1>2. ASSUME NEW w \in Workers, NEW k \in Keys, AppendCommit(w, k) PROVE Scalars'
  BY <1>1, <1>2 DEF AppendCommit
<1>3. ASSUME NEW w \in Workers, CommitRefused(w) \/ CacheCommit(w) PROVE Scalars'
  BY <1>1, <1>3 DEF CommitRefused, CacheCommit
<1>4. ASSUME NEW s \in Segs, Expire(s) PROVE Scalars'
  BY <1>4 DEF Expire, Scalars
<1>5. CASE Drain \/ UNCHANGED vars
  BY <1>1, <1>5 DEF Drain, vars
<1>6. CASE Shutdown \/ Kill
  BY <1>6, OffsetAssumption DEF Shutdown, Kill, Down, Scalars
<1>7. CASE LoadOffsetsCache
  BY <1>7 DEF LoadOffsetsCache, LoadAll, LoadTornHead, LoadFails, Start, Scalars
<1>8. QED
  BY <1>2, <1>3, <1>4, <1>5, <1>6, <1>7 DEF Next

LEMMA NoJobIsNone == NoJob \notin Commit
<1>1. OffsetUnknown \notin Offsets
  BY OffsetAssumption DEF Offsets, OffsetUnknown
<1>2. QED
  BY <1>1 DEF NoJob, Commit

LEMMA JobsStep ==
    ASSUME Shape, Scalars, Jobs, [Next]_vars
    PROVE  Jobs'
<1>1. ASSUME UNCHANGED <<state, job>>,
             \/ UNCHANGED <<segs, expired>>
             \/ \E s \in Segs : Expire(s)
      PROVE  Jobs'
  <2>1. ASSUME NEW w \in Workers, job[w] # NoJob PROVE Logged(job[w])'
    <3>1. PICK c \in Commit : c = job[w]
      BY <2>1 DEF Jobs
    <3>2. Logged(c)
      BY <2>1, <3>1 DEF Jobs
    <3>3. Logged(c)'
      BY <1>1, <3>1, <3>2, StaysLogged
    <3>4. QED
      BY <1>1, <3>1, <3>3
  <2>2. QED
    BY <1>1, <2>1 DEF Jobs
<1>2. ASSUME NEW w \in Workers, NEW k \in Keys, AppendCommit(w, k) PROVE Jobs'
  <2>1. /\ next < MaxCommits /\ k \in Owns[w] /\ state' = state /\ state = "up"
        /\ segs' = [segs EXCEPT ![Target] = Append(segs[Target], [key |-> k, off |-> next])]
        /\ job' = [job EXCEPT ![w] = [key |-> k, off |-> next]]
    BY <1>2 DEF AppendCommit
  <2>2. PICK c \in Commit : c = [key |-> k, off |-> next]
    BY <2>1, OffsetAssumption DEF Commit, Offsets, Shape
  <2>3. job' \in [Workers -> Commit \cup {NoJob}] /\ job'[w] = c
    BY <2>1, <2>2 DEF Jobs
  <2>4. Logged(c)'
    <3>1. Target \in Segs /\ segs[Target] \in Log /\ Len(segs[Target]) \in Nat
      BY <2>1, TargetOf
    <3>2. segs'[Target] = Append(segs[Target], c)
      BY <2>1, <2>2, <3>1 DEF Shape
    <3>3. Len(segs[Target]) + 1 \in 1..Len(segs'[Target])
          /\ segs'[Target][Len(segs[Target]) + 1] = c
      BY <3>1, <3>2 DEF Log
    <3>4. QED
      BY <3>1, <3>3 DEF Logged
  <2>5. ASSUME NEW v \in Workers, v # w, job'[v] # NoJob
        PROVE  job'[v].key \in Owns[v] /\ Logged(job[v])'
    <3>1. job'[v] = job[v]
      BY <2>1, <2>5 DEF Jobs
    <3>2. PICK d \in Commit : d = job[v]
      BY <2>5, <3>1 DEF Jobs
    <3>3. Logged(d) /\ d.key \in Owns[v]
      BY <2>5, <3>1, <3>2 DEF Jobs
    <3>4. Logged(d)'
      BY <1>2, <3>3, StaysLogged
    <3>5. QED
      BY <3>1, <3>2, <3>3, <3>4
  <2>6. job'[w].key = k /\ Logged(job[w])'
    BY <2>2, <2>3, <2>4
  <2>7. QED
    BY <2>1, <2>3, <2>5, <2>6 DEF Jobs
<1>3. ASSUME NEW w \in Workers, CommitRefused(w) PROVE Jobs'
  BY <1>1, <1>3 DEF CommitRefused
<1>4. ASSUME NEW w \in Workers, CacheCommit(w) PROVE Jobs'
  BY <1>4 DEF CacheCommit, Jobs, Logged, logVars
<1>5. ASSUME NEW s \in Segs, Expire(s) PROVE Jobs'
  BY <1>1, <1>5 DEF Expire
<1>6. CASE Drain \/ UNCHANGED vars
  BY <1>1, <1>6 DEF Drain, vars, logVars
<1>7. CASE Shutdown \/ Kill
  BY <1>7 DEF Shutdown, Kill, Down, Jobs
<1>8. CASE LoadOffsetsCache
  <2>1. state = "down" /\ job' = job
    BY <1>8 DEF LoadOffsetsCache, LoadAll, LoadTornHead, LoadFails, Start
  <2>2. QED
    BY <2>1 DEF Jobs
<1>9. QED
  BY <1>2, <1>3, <1>4, <1>5, <1>6, <1>7, <1>8 DEF Next

(* What a load puts in the cache is in the log. *)
LEMMA LoadBacked ==
    ASSUME Shape, NEW log \in Served, NEW S \in SUBSET (1..Len(log))
    PROVE  Replay(log, S) \in [Keys -> Values] /\ Backed(Replay(log, S))
<1>1. log \in Log
  BY ServedRead
<1>2. Replay(log, S) \in [Keys -> Values]
  BY <1>1, ReplayRead
<1>3. ASSUME NEW k \in Keys, Replay(log, S)[k] # OffsetUnknown
      PROVE  Logged([key |-> k, off |-> Replay(log, S)[k]])
  <2>1. PICK i \in 1..Len(log) : log[i] = [key |-> k, off |-> Replay(log, S)[k]]
    BY <1>1, <1>3, ReplayRead
  <2>2. log[i] \in Commit
    BY <1>2, <1>3, <2>1 DEF Commit, Values
  <2>3. PICK j \in 1..Len(segs[1]) : segs[1][j] = log[i]
    BY <2>2, ServedRead
  <2>4. 1 \in Segs
    BY OffsetAssumption DEF Segs
  <2>5. QED
    BY <2>1, <2>3, <2>4 DEF Logged
<1>4. QED
  BY <1>2, <1>3 DEF Backed

LEMMA PromisesStep ==
    ASSUME Shape, Scalars, Jobs, Promises, [Next]_vars
    PROVE  Promises'
<1>1. ASSUME UNCHANGED <<cache, promised>>,
             \/ UNCHANGED <<segs, expired>>
             \/ \E w \in Workers, k \in Keys : AppendCommit(w, k)
             \/ \E s \in Segs : Expire(s)
      PROVE  Promises'
  <2>1. PICK f \in [Keys -> Values], g \in [Keys -> Values] : f = cache /\ g = promised
    BY DEF Promises
  <2>2. Backed(f) /\ Backed(g)
    BY <2>1 DEF Promises
  <2>3. Backed(f)' /\ Backed(g)'
    BY <1>1, <2>2, StaysBacked
  <2>4. f = cache' /\ g = promised'
    BY <1>1, <2>1
  <2>5. Backed(cache)' /\ Backed(promised)'
    BY <2>3, <2>4
  <2>6. QED
    BY <2>4, <2>5 DEF Promises
<1>2. ASSUME NEW w \in Workers, NEW k \in Keys, AppendCommit(w, k) PROVE Promises'
  BY <1>1, <1>2 DEF AppendCommit
<1>3. ASSUME NEW w \in Workers, CommitRefused(w) PROVE Promises'
  BY <1>1, <1>3 DEF CommitRefused
<1>4. ASSUME NEW w \in Workers, CacheCommit(w) PROVE Promises'
  <2>1. PICK c \in Commit : c = job[w]
    BY <1>4 DEF CacheCommit, Jobs
  <2>2. /\ cache' = [cache EXCEPT ![c.key] = c.off]
        /\ promised' = [promised EXCEPT ![c.key] = c.off]
        /\ segs' = segs /\ expired' = expired /\ job[w] # NoJob
    BY <1>4, <2>1 DEF CacheCommit, logVars
  <2>3. Logged(c) /\ c.key \in Keys /\ c.off \in Offsets /\ c = [key |-> c.key, off |-> c.off]
    BY <2>1, <2>2 DEF Jobs, Commit
  <2>4. cache' \in [Keys -> Values] /\ promised' \in [Keys -> Values]
    BY <2>2, <2>3 DEF Promises, Values
  <2>5. ASSUME NEW k \in Keys PROVE
          /\ cache'[k] # OffsetUnknown => Logged([key |-> k, off |-> cache[k]])'
          /\ promised'[k] # OffsetUnknown => Logged([key |-> k, off |-> promised[k]])'
    <3>1. CASE k = c.key
      BY <2>2, <2>3, <3>1 DEF Promises, Logged
    <3>2. CASE k # c.key
      <4>1. cache'[k] = cache[k] /\ promised'[k] = promised[k]
        BY <2>2, <3>2 DEF Promises
      <4>2. QED
        BY <2>2, <4>1 DEF Promises, Backed, Logged
    <3>3. QED
      BY <3>1, <3>2
  <2>6. QED
    BY <2>4, <2>5 DEF Promises, Backed
<1>5. ASSUME NEW s \in Segs, Expire(s) PROVE Promises'
  BY <1>1, <1>5 DEF Expire
<1>6. CASE Drain \/ UNCHANGED vars
  BY <1>1, <1>6 DEF Drain, vars, logVars
<1>7. CASE Shutdown
  <2>1. cache' = Unknown /\ promised' = promised /\ UNCHANGED <<segs, expired>>
    BY <1>7 DEF Shutdown, Down
  <2>2. Backed(promised)' /\ Backed(Unknown)'
    BY <2>1, UnknownBacked DEF Promises, Backed, Logged
  <2>3. QED
    BY <2>1, <2>2, UnknownBacked DEF Promises, Backed
<1>8. CASE Kill
  <2>1. cache' = Unknown /\ promised' = Unknown
    BY <1>8 DEF Kill, Down
  <2>2. QED
    BY <2>1, UnknownBacked DEF Promises, Backed, Unknown
<1>9. ASSUME NEW log \in Served, NEW S \in SUBSET (1..Len(log)), Start(Replay(log, S))
      PROVE  Promises'
  <2>1. PICK f \in [Keys -> Values] : f = Replay(log, S)
    BY LoadBacked
  <2>2. /\ cache' = f /\ (promised' = f \/ promised' = promised)
        /\ segs' = segs /\ expired' = expired
    BY <1>9, <2>1 DEF Start, logVars
  <2>3. Backed(f)
    BY <2>1, LoadBacked
  <2>4. PICK g \in [Keys -> Values] : g = promised' /\ Backed(g)
    BY <2>2, <2>3 DEF Promises
  <2>5. Backed(f)' /\ Backed(g)'
    BY <2>2, <2>3, <2>4 DEF Backed, Logged
  <2>6. QED
    BY <2>2, <2>4, <2>5 DEF Promises, Backed
<1>10. CASE LoadOffsetsCache
  <2>1. CASE LoadFails
    BY <1>1, <2>1 DEF LoadFails, logVars
  <2>2. CASE LoadAll
    <3>1. PICK log \in Served : Start(Replay(log, 1..Len(log)))
      BY <2>2 DEF LoadAll
    <3>2. QED
      BY <1>9, <3>1
  <2>3. CASE LoadTornHead
    <3>0. PICK log \in Served : \E i \in FirstTorn(log) :
            \E j \in (i + 1)..(Len(log) + 1) :
              Start(Replay(log, (1..(i - 1)) \cup (j..Len(log))))
      BY <2>3 DEF LoadTornHead
    <3>a. PICK i \in FirstTorn(log) : \E j \in (i + 1)..(Len(log) + 1) :
            Start(Replay(log, (1..(i - 1)) \cup (j..Len(log))))
      BY <3>0
    <3>1. PICK j \in (i + 1)..(Len(log) + 1) :
            Start(Replay(log, (1..(i - 1)) \cup (j..Len(log))))
      BY <3>a
    <3>2. log \in Log /\ i \in 1..Len(log)
      BY ServedRead DEF FirstTorn
    <3>3. Len(log) \in Nat
      BY <3>2 DEF Log
    <3>4. (1..(i - 1)) \cup (j..Len(log)) \in SUBSET (1..Len(log))
      BY <3>2, <3>3
    <3>5. QED
      BY <1>9, <3>1, <3>4
  <2>4. QED
    BY <1>10, <2>1, <2>2, <2>3 DEF LoadOffsetsCache
<1>11. QED
  BY <1>2, <1>3, <1>4, <1>5, <1>6, <1>7, <1>8, <1>10 DEF Next
-----------------------------------------------------------------------------
(* The premise of CommitsSurvive, where a segment after the first may hold *)
(* torn pieces: then no step makes it true again without a kill, but for   *)
(* the removal of a log that has no commit at all.                         *)
Good ==
    /\ \A v, w \in Workers : v # w => Owns[v] \cap Owns[w] = {}
    /\ Len(segs[1]) <= LoadCap /\ FirstTorn(segs[1]) = {} /\ expired = {}
    /\ \A s \in Segs \ {1} : \A i \in 1..Len(segs[s]) : segs[s][i] \notin Commit

(* What a load of the whole first segment would give. *)
Last == Replay(segs[1], 1..Len(segs[1]))

Waiting(k) == \E w \in Workers : job[w] # NoJob /\ job[w].key = k /\ Last[k] = job[w].off
Settled(k) == (\A w \in Workers : job[w] # NoJob => job[w].key # k) /\ Last[k] = cache[k]

(* The cache is what the log says, but for the commits that are appended   *)
(* and not yet cached; while the broker is down, the promises are.         *)
Tracked ==
    Good => /\ state = "up" => promised = cache /\ \A k \in Keys : Waiting(k) \/ Settled(k)
            /\ state # "up" => promised = Unknown \/ promised = Last

LEMMA ReplayAppend ==
    ASSUME NEW log \in Log, NEW c \in Commit, NEW n \in Nat, n = Len(log)
    PROVE  /\ Replay(Append(log, c), 1..(n + 1))[c.key] = c.off
           /\ \A k \in Keys : k # c.key =>
                Replay(Append(log, c), 1..(n + 1))[k] = Replay(log, 1..n)[k]
<1> DEFINE new == Append(log, c)
<1>1. new[n + 1] = c /\ \A i \in 1..n : new[i] = log[i]
  BY DEF Log
<1>2. c.key \in Keys
  BY DEF Commit
<1>h. HIDE DEF new
<1>3. Replay(new, 1..(n + 1))[c.key] = new[n + 1].off
  <2>1. n + 1 \in 1..(n + 1) /\ 1..(n + 1) \subseteq Int /\ n + 1 \in Int
    OBVIOUS
  <2>2. \A j \in 1..(n + 1) : j <= n + 1
    OBVIOUS
  <2>3. new[n + 1].key = c.key
    BY <1>1
  <2>4. QED
    BY <1>2, <2>1, <2>2, <2>3, ReplayLast
<1>4. ASSUME NEW k \in Keys, k # c.key PROVE Replay(new, 1..(n + 1))[k] = Replay(log, 1..n)[k]
  <2>1. \A j \in 1..(n + 1) : new[j].key = k => j \in 1..n /\ log[j].key = k
    BY <1>1, <1>4
  <2>2. CASE \A j \in 1..n : log[j].key # k
    <3>1. \A j \in 1..(n + 1) : new[j].key # k
      BY <2>1, <2>2
    <3>2. Replay(new, 1..(n + 1))[k] = OffsetUnknown
      BY <3>1, ReplayNone
    <3>3. Replay(log, 1..n)[k] = OffsetUnknown
      BY <2>2, ReplayNone
    <3>4. QED
      BY <3>2, <3>3
  <2>3. CASE ~(\A j \in 1..n : log[j].key # k)
    <3> DEFINE mine == {j \in 1..n : log[j].key = k}
    <3>1. mine \in SUBSET (1..n) /\ mine # {}
      BY <2>3
    <3>2. PICK m \in mine : \A j \in mine : j <= m
      BY <3>1, Greatest
    <3>3. /\ m \in 1..n /\ log[m].key = k /\ m \in Int /\ m \in 1..(n + 1)
          /\ 1..n \subseteq Int /\ 1..(n + 1) \subseteq Int
          /\ new[m] = log[m]
      BY <1>1
    <3>4. \A j \in 1..n : log[j].key = k => j <= m
      BY <3>2
    <3>5. \A j \in 1..(n + 1) : new[j].key = k => j <= m
      BY <2>1, <3>4
    <3>6. Replay(log, 1..n)[k] = log[m].off
      BY <3>3, <3>4, ReplayLast
    <3>7. new[m].key = k
      BY <3>3
    <3>8. Replay(new, 1..(n + 1))[k] = new[m].off
      BY <3>3, <3>5, <3>7, ReplayLast
    <3>9. QED
      BY <3>3, <3>6, <3>8
  <2>4. QED
    BY <2>2, <2>3
<1>5. QED
  BY <1>1, <1>3, <1>4 DEF new

LEMMA LastType ==
    ASSUME Shape
    PROVE  /\ 1 \in Segs /\ segs[1] \in Log /\ Len(segs[1]) \in Nat
           /\ Last \in [Keys -> Values]
<1>1. 1 \in Segs /\ segs[1] \in Log
  BY OffsetAssumption DEF Shape, Segs
<1>2. QED
  BY <1>1, ReplayRead DEF Last, Log

LEMMA TrackedAppend ==
    ASSUME StoreInv, Tracked, NEW w \in Workers, NEW k \in Keys, AppendCommit(w, k)
    PROVE  Tracked'
<1> SUFFICES ASSUME Good' PROVE Good /\ promised' = cache'
                                /\ \A j \in Keys : (Waiting(j) \/ Settled(j))'
  BY DEF AppendCommit, Tracked
<1>1. /\ next < MaxCommits /\ k \in Owns[w] /\ state = "up" /\ job[w] = NoJob
      /\ UNCHANGED <<state, cache, promised, expired>>
      /\ segs' = [segs EXCEPT ![Target] = Append(segs[Target], [key |-> k, off |-> next])]
      /\ job' = [job EXCEPT ![w] = [key |-> k, off |-> next]]
  BY DEF AppendCommit
<1>2. PICK c \in Commit : c = [key |-> k, off |-> next]
  BY <1>1, OffsetAssumption DEF Commit, Offsets, StoreInv, Shape
<1>3. /\ Target \in Segs /\ segs[Target] \in Log /\ Len(segs[Target]) \in Nat
      /\ segs[1] \in Log /\ Len(segs[1]) \in Nat /\ 1 \in Segs
  BY <1>1, TargetOf, LastType DEF StoreInv
<1>4. segs'[Target] = Append(segs[Target], c)
  BY <1>1, <1>2, <1>3 DEF StoreInv, Shape
<1>5. Len(segs'[Target]) = Len(segs[Target]) + 1
      /\ segs'[Target][Len(segs[Target]) + 1] = c
      /\ \A i \in 1..Len(segs[Target]) : segs'[Target][i] = segs[Target][i]
  BY <1>3, <1>4 DEF Log
<1>6. Target = 1
  BY <1>3, <1>5 DEF Good
<1>7. Good
  <2>1. FirstTorn(segs[1]) = {}
    <3>1. FirstTorn(segs[1]) \subseteq FirstTorn(segs'[1])
      <4> SUFFICES ASSUME NEW i \in FirstTorn(segs[1]) PROVE i \in FirstTorn(segs'[1])
        OBVIOUS
      <4>1. /\ i \in 1..Len(segs[1]) /\ segs[1][i] \in Torn
            /\ \A j \in 1..(i - 1) : segs[1][j] \notin Torn
        BY DEF FirstTorn
      <4>2. Len(segs'[1]) = Len(segs[1]) + 1
            /\ \A j \in 1..Len(segs[1]) : segs'[1][j] = segs[1][j]
        BY <1>5, <1>6
      <4>3. /\ i \in 1..Len(segs'[1]) /\ segs'[1][i] \in Torn
            /\ \A j \in 1..(i - 1) : segs'[1][j] \notin Torn
        BY <1>3, <4>1, <4>2
      <4>4. QED
        BY <4>3 DEF FirstTorn
    <3>2. QED
      BY <3>1 DEF Good
  <2>2. \A s \in Segs \ {1} : segs'[s] = segs[s]
    BY <1>1, <1>6 DEF StoreInv, Shape
  <2>3. Len(segs[1]) <= LoadCap
    BY <1>3, <1>5, <1>6, OffsetAssumption DEF Good
  <2>4. QED
    BY <1>1, <2>1, <2>2, <2>3 DEF Good
<1>8. promised = cache /\ \A j \in Keys : Waiting(j) \/ Settled(j)
  BY <1>1, <1>7 DEF Tracked
<1>9. c.key = k /\ c.off = next
  BY <1>2
<1>10. Last'[k] = c.off /\ \A j \in Keys : j # k => Last'[j] = Last[j]
  <2>1. segs'[1] = Append(segs[1], c) /\ Len(segs'[1]) = Len(segs[1]) + 1
    BY <1>4, <1>5, <1>6
  <2>2. Last' = Replay(Append(segs[1], c), 1..(Len(segs[1]) + 1))
    BY <2>1 DEF Last
  <2>3. QED
    BY <1>3, <1>9, <2>2, ReplayAppend DEF Last
<1>11. job'[w] = c /\ c # NoJob /\ \A v \in Workers : v # w => job'[v] = job[v]
  BY <1>1, <1>2, NoJobIsNone DEF StoreInv, Jobs
<1>12. ASSUME NEW j \in Keys PROVE (Waiting(j) \/ Settled(j))'
  <2>1. CASE j = k
    BY <1>9, <1>10, <1>11, <2>1 DEF Waiting
  <2>2. CASE j # k
    <3>1. Last'[j] = Last[j]
      BY <1>10, <2>2
    <3>2. CASE Waiting(j)
      BY <1>1, <1>11, <3>1, <3>2 DEF Waiting
    <3>3. CASE Settled(j)
      BY <1>1, <1>9, <1>11, <2>2, <3>1, <3>3 DEF Settled
    <3>4. QED
      BY <1>8, <3>2, <3>3
  <2>3. QED
    BY <2>1, <2>2
<1>13. QED
  BY <1>1, <1>7, <1>8, <1>12
-----------------------------------------------------------------------------
LEMMA TrackedExpire ==
    ASSUME StoreInv, Tracked, NEW s \in Segs, Expire(s)
    PROVE  Tracked'
<1> SUFFICES ASSUME Good' PROVE promised' = cache' /\ \A k \in Keys : (Waiting(k) \/ Settled(k))'
  BY DEF Expire, Tracked
<1>1. /\ state = "up" /\ UNCHANGED <<state, cache, promised, job>>
      /\ segs' = [segs EXCEPT ![s] = <<>>]
      /\ expired' = expired \cup {c \in Commit : \E i \in 1..Len(segs[s]) : segs[s][i] = c}
  BY DEF Expire
<1>2. 1 \in Segs /\ segs[1] \in Log /\ Len(segs[1]) \in Nat
  BY LastType DEF StoreInv
<1>3. segs'[s] = <<>> /\ \A t \in Segs : t # s => segs'[t] = segs[t]
  BY <1>1 DEF StoreInv, Shape
<1>4. expired = {} /\ \A i \in 1..Len(segs[s]) : segs[s][i] \notin Commit
  BY <1>1 DEF Good
<1>5. CASE s # 1
  <2>1. segs'[1] = segs[1]
    BY <1>2, <1>3, <1>5
  <2>2. Good
    BY <1>3, <1>4, <1>5, <2>1 DEF Good
  <2>3. promised = cache /\ \A k \in Keys : Waiting(k) \/ Settled(k)
    BY <1>1, <2>2 DEF Tracked
  <2>4. Last' = Last
    BY <2>1 DEF Last
  <2>5. QED
    BY <1>1, <2>3, <2>4 DEF Waiting, Settled
<1>6. CASE s = 1
  <2>1. \A c \in Commit : ~Logged(c)
    <3>1. ASSUME NEW t \in Segs, NEW i \in 1..Len(segs[t]) PROVE segs[t][i] \notin Commit
      BY <1>3, <1>4, <1>6 DEF Good
    <3>2. QED
      BY <1>4, <3>1 DEF Logged
  <2>2. \A f \in [Keys -> Values] : Backed(f) => f = Unknown
    <3>1. SUFFICES ASSUME NEW f \in [Keys -> Values], Backed(f), NEW k \in Keys
                   PROVE  f[k] = OffsetUnknown
      BY DEF Unknown
    <3>2. f[k] # OffsetUnknown => [key |-> k, off |-> f[k]] \in Commit
      BY DEF Values, Commit
    <3>3. f[k] # OffsetUnknown => Logged([key |-> k, off |-> f[k]])
      BY <3>1 DEF Backed
    <3>4. QED
      BY <2>1, <3>2, <3>3
  <2>3. cache = Unknown /\ promised = Unknown
    BY <2>2 DEF StoreInv, Promises
  <2>4. \A w \in Workers : job[w] = NoJob
    BY <2>1 DEF StoreInv, Jobs
  <2>5. ASSUME NEW k \in Keys PROVE Last'[k] = OffsetUnknown
    <3>1. \A j \in 1..Len(segs'[1]) : FALSE
      BY <1>3, <1>6
    <3>2. Replay(segs'[1], 1..Len(segs'[1]))[k] = OffsetUnknown
      BY <3>1, ReplayNone
    <3>3. QED
      BY <3>2 DEF Last
  <2>6. QED
    BY <1>1, <2>3, <2>4, <2>5 DEF Settled, Unknown
<1>7. QED
  BY <1>5, <1>6

LEMMA TrackedLoad ==
    ASSUME StoreInv, Tracked, LoadOffsetsCache
    PROVE  Tracked'
<1> SUFFICES ASSUME Good' PROVE
      /\ state' = "up" => promised' = cache' /\ \A k \in Keys : (Waiting(k) \/ Settled(k))'
      /\ state' # "up" => promised' = Unknown \/ promised' = Last'
  BY DEF Tracked
<1>1. state = "down" /\ UNCHANGED <<segs, job, expired>>
  BY DEF LoadOffsetsCache, LoadAll, LoadTornHead, LoadFails, Start, logVars
<1>2. Good /\ Last' = Last
  BY <1>1 DEF Good, Last
<1>3. promised = Unknown \/ promised = Last
  BY <1>1, <1>2 DEF Tracked
<1>4. Served = {segs[1]} /\ FirstTorn(segs[1]) = {}
  BY <1>2 DEF Good, Served
<1>5. CASE LoadFails
  BY <1>2, <1>3, <1>5 DEF LoadFails
<1>6. CASE LoadTornHead
  BY <1>4, <1>6 DEF LoadTornHead
<1>7. CASE LoadAll
  <2>1. Start(Last)
    BY <1>4, <1>7 DEF LoadAll, Last
  <2>2. state' = "up" /\ cache' = Last /\ promised' = Last
    BY <1>3, <2>1 DEF Start
  <2>3. \A w \in Workers : job'[w] = NoJob
    BY <1>1 DEF StoreInv, Jobs
  <2>4. QED
    BY <1>2, <2>2, <2>3 DEF Settled
<1>8. QED
  BY <1>5, <1>6, <1>7 DEF LoadOffsetsCache

LEMMA TrackedStep ==
    ASSUME StoreInv, Tracked, [Next]_vars
    PROVE  Tracked'
<1>1. CASE UNCHANGED <<state, segs, cache, job, promised, expired>>
  <2>1. Good' = Good /\ Last' = Last
    BY <1>1 DEF Good, Last
  <2>2. QED
    BY <1>1, <2>1 DEF Tracked, Waiting, Settled
<1>2. ASSUME NEW w \in Workers, CommitRefused(w) PROVE Tracked'
  BY <1>1, <1>2 DEF CommitRefused
<1>3. ASSUME NEW w \in Workers, CacheCommit(w) PROVE Tracked'
  <2>1. PICK c \in Commit : c = job[w]
    BY <1>3 DEF CacheCommit, StoreInv, Jobs
  <2>2. /\ cache' = [cache EXCEPT ![c.key] = c.off] /\ job[w] # NoJob
        /\ promised' = [promised EXCEPT ![c.key] = c.off]
        /\ job' = [job EXCEPT ![w] = NoJob]
        /\ UNCHANGED <<segs, expired, state>> /\ state = "up"
    BY <1>3, <2>1 DEF CacheCommit, logVars
  <2>3. Good' = Good /\ Last' = Last
    BY <2>2 DEF Good, Last
  <2>4. SUFFICES ASSUME Good
                 PROVE  promised' = cache' /\ \A k \in Keys : (Waiting(k) \/ Settled(k))'
    BY <2>2, <2>3 DEF Tracked
  <2>5. promised = cache /\ \A k \in Keys : Waiting(k) \/ Settled(k)
    BY <2>2, <2>4 DEF Tracked
  <2>6. c.key \in Keys /\ c.key \in Owns[w]
    BY <2>1, <2>2 DEF Commit, StoreInv, Jobs
  <2>7. \A v \in Workers : v # w => job'[v] = job[v] /\ (job[v] # NoJob => job[v].key # c.key)
    BY <2>2, <2>4, <2>6 DEF Good, StoreInv, Jobs
  <2>8. job'[w] = NoJob
    BY <2>2 DEF StoreInv, Jobs
  <2>9. ASSUME NEW k \in Keys PROVE (Waiting(k) \/ Settled(k))'
    <3>1. CASE k = c.key
      <4>1. Last[k] = c.off
        BY <2>1, <2>2, <2>5, <2>7, <3>1 DEF Waiting, Settled
      <4>2. cache'[k] = c.off
        BY <2>2, <2>6, <3>1 DEF StoreInv, Promises
      <4>3. \A v \in Workers : job'[v] # NoJob => job'[v].key # k
        BY <2>7, <2>8, <3>1
      <4>4. QED
        BY <2>3, <4>1, <4>2, <4>3 DEF Settled
    <3>2. CASE k # c.key
      <4>1. cache'[k] = cache[k]
        BY <2>2, <3>2 DEF StoreInv, Promises
      <4>2. CASE Waiting(k)
        <5>1. PICK v \in Workers : job[v] # NoJob /\ job[v].key = k /\ Last[k] = job[v].off
          BY <4>2 DEF Waiting
        <5>2. job'[v] = job[v]
          BY <2>1, <2>7, <3>2, <5>1
        <5>3. QED
          BY <2>3, <5>1, <5>2 DEF Waiting
      <4>3. CASE Settled(k)
        BY <2>3, <2>7, <2>8, <4>1, <4>3 DEF Settled
      <4>4. QED
        BY <2>5, <4>2, <4>3
    <3>3. QED
      BY <3>1, <3>2
  <2>10. promised' = cache'
    BY <2>2, <2>5
  <2>11. QED
    BY <2>9, <2>10
<1>4. CASE Drain \/ UNCHANGED vars
  BY <1>1, <1>4 DEF Drain, vars, logVars
<1>5. CASE Shutdown
  <2>1. /\ state = "up" /\ state' = "down" /\ UNCHANGED <<segs, promised, expired>>
        /\ \A w \in Workers : job[w] = NoJob
    BY <1>5 DEF Shutdown, Down
  <2>2. Good' = Good /\ Last' = Last
    BY <2>1 DEF Good, Last
  <2>3. Good => promised = Last
    <3>1. Last \in [Keys -> Values] /\ cache \in [Keys -> Values]
      BY LastType DEF StoreInv, Promises
    <3>2. Good => promised = cache /\ \A k \in Keys : Last[k] = cache[k]
      BY <2>1 DEF Tracked, Waiting, Settled
    <3>3. QED
      BY <3>1, <3>2
  <2>4. QED
    BY <2>1, <2>2, <2>3 DEF Tracked
<1>6. CASE Kill
  BY <1>6 DEF Kill, Down, Tracked
<1>7. QED
  BY <1>2, <1>3, <1>4, <1>5, <1>6, TrackedAppend, TrackedExpire, TrackedLoad DEF Next

LEMMA Inductive == Spec => [](StoreInv /\ Tracked)
<1>1. Init => StoreInv /\ Tracked
  <2> SUFFICES ASSUME Init PROVE StoreInv /\ Tracked
    OBVIOUS
  <2> USE OffsetAssumption
  <2>1. 1 \in Segs /\ <<>> \in Log /\ Len(<<>>) = 0
    BY DEF Segs, Log
  <2>2. Shape
    BY <2>1 DEF Init, Shape
  <2>3. Scalars /\ Jobs
    BY DEF Init, Scalars, Jobs
  <2>4. Promises
    BY UnknownBacked DEF Init, Promises
  <2>5. ASSUME NEW k \in Keys PROVE Settled(k)
    <3>1. segs[1] = <<>> /\ cache[k] = OffsetUnknown /\ \A w \in Workers : job[w] = NoJob
      BY <2>1 DEF Init, Unknown
    <3>2. \A j \in 1..Len(segs[1]) : FALSE
      BY <2>1, <3>1
    <3>3. Last[k] = OffsetUnknown
      BY <3>2, ReplayNone DEF Last
    <3>4. QED
      BY <3>1, <3>3 DEF Settled
  <2>6. QED
    BY <2>2, <2>3, <2>4, <2>5 DEF StoreInv, Tracked, Init
<1>2. ASSUME StoreInv, Tracked, [Next]_vars PROVE (StoreInv /\ Tracked)'
  BY <1>2, ShapeStep, ScalarsStep, JobsStep, PromisesStep, TrackedStep DEF StoreInv
<1>3. QED
  BY <1>1, <1>2, PTL DEF Spec
-----------------------------------------------------------------------------
(* Every variable keeps its type: the log never needs more segments than   *)
(* there are commits, rollovers after restarts and kills included.         *)
THEOREM TypeCorrect == Spec => []TypeOK
<1>1. StoreInv => TypeOK
  BY DEF StoreInv, Shape, Scalars, Jobs, Promises, TypeOK, Log, Values
<1>2. QED
  BY <1>1, Inductive, PTL

(* handleOffsetCommit caches an offset after its record is appended, and   *)
(* LoadOffsetsCache caches only what it read, so that no offset is served  *)
(* that is not in the log or was not removed with its segment.             *)
THEOREM CacheIsBacked == Spec => []CacheBackedByLog
<1>1. StoreInv => CacheBackedByLog
  BY DEF StoreInv, Promises, Backed, Logged, CacheBackedByLog
<1>2. QED
  BY <1>1, Inductive, PTL

(* With one committer for each key and the log one whole segment within    *)
(* the limit of a Read, handleOffsetFetch answers what was last            *)
(* acknowledged, whatever restarts and kills there were.                   *)
THEOREM CommitsDoSurvive == Spec => []CommitsSurvive
<1>1. StoreInv /\ Tracked => CommitsSurvive
  <2> SUFFICES ASSUME StoreInv, Tracked,
                      \A v, w \in Workers : v # w => Owns[v] \cap Owns[w] = {},
                      Len(segs[1]) <= LoadCap, FirstTorn(segs[1]) = {}, expired = {},
                      \A s \in Segs \ {1} : segs[s] = <<>>, state = "up"
               PROVE  \A k \in Keys : cache[k] = promised[k]
    BY DEF CommitsSurvive, AckedServed, OffsetFetch
  <2>1. \A s \in Segs \ {1} : \A i \in 1..Len(segs[s]) : segs[s][i] \notin Commit
    OBVIOUS
  <2>2. Good
    BY <2>1 DEF Good
  <2>3. QED
    BY <2>2 DEF Tracked
<1>2. QED
  BY <1>1, Inductive, PTL
=============================================================================
