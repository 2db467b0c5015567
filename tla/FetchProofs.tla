---------------------------- MODULE FetchProofs -----------------------------
(***************************************************************************)
(* Proofs about FetchPath: a fetch stays within the bytes it was asked     *)
(* for, whatever producers do meanwhile; a consumer of records of one      *)
(* batch only fetches from where a record starts; and it is out of range   *)
(* only when it is beyond the high watermark.                              *)
(***************************************************************************)
EXTENDS FetchPath, SumProofs

(* The bytes of a record's batches. *)
LEMMA RecordBytes ==
    ASSUME NEW r \in Seq(Nat)
    PROVE  SumFunction(r) \in Nat
<1>1. DOMAIN r = 1..Len(r) /\ \A i \in 1..Len(r) : r[i] \in Nat /\ Len(r) \in Nat
  OBVIOUS
<1>2. IsFiniteSet(1..Len(r))
  BY FS_Interval
<1>3. QED
  BY <1>1, <1>2, SumNatural DEF SumFunction

(* The file of a partition, as the lemmas below take it. *)
File(file) == file \in Seq(Seq(Nat))

LEMMA RecordOf ==
    ASSUME NEW file, File(file), NEW i \in 1..Len(file)
    PROVE  file[i] \in Seq(Nat) /\ RecHdr + SumFunction(file[i]) \in Nat
<1>1. file[i] \in Seq(Nat)
  BY DEF File
<1>2. QED
  BY <1>1, RecordBytes, FetchAssumption

LEMMA StartIsSum ==
    ASSUME NEW file, File(file), NEW k \in Nat, NEW i \in 1..(k + 1), k <= Len(file)
    PROVE  StartOf(file, i)
             = SumFunctionOnSet([j \in 1..k |-> RecHdr + SumFunction(file[j])], 1..(i - 1))
<1> DEFINE f == [j \in 1..(i - 1) |-> RecHdr + SumFunction(file[j])]
           g == [j \in 1..k |-> RecHdr + SumFunction(file[j])]
<1>1. IsFiniteSet(1..(i - 1))
  BY FS_Interval
<1>2. \A j \in 1..(i - 1) : f[j] = g[j]
  OBVIOUS
<1>3. StartOf(file, i) = SumFunctionOnSet(f, 1..(i - 1))
  BY DEF StartOf, SumFunction
<1> HIDE DEF f, g
<1>4. SumFunctionOnSet(f, 1..(i - 1)) = SumFunctionOnSet(g, 1..(i - 1))
  BY <1>1, <1>2, SumAgrees
<1>5. QED
  BY <1>3, <1>4 DEF g

LEMMA StartFirst ==
    ASSUME NEW file, File(file)
    PROVE  StartOf(file, 1) = 0
<1>1. 1..(1 - 1) = {}
  OBVIOUS
<1>2. StartOf(file, 1)
        = SumFunctionOnSet([j \in {} |-> RecHdr + SumFunction(file[j])], {})
  BY <1>1 DEF StartOf, SumFunction
<1>3. QED
  BY <1>2, SumEmpty

LEMMA StartNext ==
    ASSUME NEW file, File(file), NEW i \in 1..Len(file)
    PROVE  /\ StartOf(file, i) \in Nat
           /\ StartOf(file, i + 1) \in Nat
           /\ StartOf(file, i + 1) = StartOf(file, i) + RecHdr + SumFunction(file[i])
<1> DEFINE g == [j \in 1..Len(file) |-> RecHdr + SumFunction(file[j])]
<1>1. Len(file) \in Nat /\ i - 1 \in Nat /\ i \in Nat
  BY DEF File
<1>2. StartOf(file, i) = SumFunctionOnSet(g, 1..(i - 1))
  BY <1>1, StartIsSum
<1>3. StartOf(file, i + 1) = SumFunctionOnSet(g, 1..i)
  BY <1>1, StartIsSum
<1>4. \A j \in 1..i : g[j] \in Nat
  BY <1>1, RecordOf
<1>5. g[i] = RecHdr + SumFunction(file[i])
  OBVIOUS
<1> HIDE DEF g
<1>6. SumFunctionOnSet(g, 1..i) = SumFunctionOnSet(g, 1..(i - 1)) + g[i]
  BY <1>1, <1>4, SumNext
<1>7. SumFunctionOnSet(g, 1..(i - 1)) \in Nat
  <2>1. IsFiniteSet(1..(i - 1))
    BY <1>1, FS_Interval
  <2>2. \A j \in 1..(i - 1) : g[j] \in Nat
    BY <1>1, <1>4
  <2>3. QED
    BY <2>1, <2>2, SumNatural
<1>8. SumFunction(file[i]) \in Nat
  BY RecordOf, RecordBytes
<1>9. QED
  BY <1>2, <1>3, <1>5, <1>6, <1>7, <1>8, FetchAssumption

(* Appending moves no record. *)
LEMMA StartAppend ==
    ASSUME NEW file, File(file), NEW r, NEW i \in 1..(Len(file) + 1)
    PROVE  StartOf(Append(file, r), i) = StartOf(file, i)
<1> DEFINE f == [j \in 1..(i - 1) |-> RecHdr + SumFunction(file[j])]
           g == [j \in 1..(i - 1) |-> RecHdr + SumFunction(Append(file, r)[j])]
<1>1. \A j \in 1..(i - 1) : Append(file, r)[j] = file[j]
  BY DEF File
<1>2. f = g
  BY <1>1
<1>3. QED
  BY <1>2 DEF StartOf

(* A record ends within the file, its length field included. *)
LEMMA StartBelow ==
    ASSUME NEW file, File(file), NEW i \in 1..Len(file)
    PROVE  /\ StartOf(file, Len(file) + 1) \in Nat
           /\ StartOf(file, i) + RecHdr <= StartOf(file, Len(file) + 1)
<1> DEFINE T == {k \in Nat : i + k <= Len(file) =>
                   /\ StartOf(file, i + k + 1) \in Nat
                   /\ StartOf(file, i) + RecHdr <= StartOf(file, i + k + 1)}
<1>1. Len(file) \in Nat
  BY DEF File
<1>2. 0 \in T
  <2>1. SumFunction(file[i]) \in Nat
    BY RecordOf, RecordBytes
  <2>2. QED
    BY <2>1, StartNext, FetchAssumption
<1>3. ASSUME NEW k \in Nat, k \in T PROVE k + 1 \in T
  <2>1. SUFFICES ASSUME i + k + 1 <= Len(file)
                 PROVE  /\ StartOf(file, i + k + 1 + 1) \in Nat
                        /\ StartOf(file, i) + RecHdr <= StartOf(file, i + k + 1 + 1)
    <3>1. i + (k + 1) = i + k + 1
      OBVIOUS
    <3>2. QED
      BY <2>1, <3>1
  <2>2. PICK j \in 1..Len(file) : j = i + k + 1
    BY <1>1, <2>1
  <2>3. PICK x \in Nat : x = StartOf(file, j)
    BY StartNext
  <2>4. StartOf(file, i) + RecHdr <= x
    BY <1>1, <1>3, <2>1, <2>2, <2>3
  <2>5. PICK y \in Nat : y = SumFunction(file[j])
    BY RecordOf, RecordBytes
  <2>6. StartOf(file, j + 1) = x + RecHdr + y
    BY <2>3, <2>5, StartNext
  <2>7. StartOf(file, i) \in Nat
    BY StartNext
  <2>8. QED
    BY <2>2, <2>4, <2>6, <2>7, FetchAssumption
<1>4. Len(file) - i \in T
  <2>1. Len(file) - i \in Nat
    BY <1>1
  <2> HIDE DEF T
  <2>2. QED
    BY <1>2, <1>3, <2>1, SetInduction
<1>5. i + (Len(file) - i) = Len(file)
  BY <1>1
<1>6. QED
  BY <1>1, <1>4, <1>5
-----------------------------------------------------------------------------
(* int32 arithmetic: a sum that fits is itself, one that does not is less. *)
LEMMA ModuloBelow ==
    ASSUME NEW a \in Nat, NEW b \in Nat \ {0}
    PROVE  a % b \in Nat /\ a % b < b /\ a % b <= a /\ (a < b => a % b = a)
<1>1. a % b \in Nat /\ a % b < b /\ a = b * (a \div b) + (a % b) /\ a \div b \in Int
  BY SMT
<1>2. PICK q \in Int : q = a \div b
  BY <1>1
<1>3. PICK m \in Nat : m = a % b
  BY <1>1
<1>4. a = b * q + m /\ m < b
  BY <1>1, <1>2, <1>3
<1>5. q >= 0
  <2>1. SUFFICES ASSUME q <= -1 PROVE FALSE
    BY SMT
  <2>2. b * q <= -b
    BY <2>1, SMT
  <2>3. QED
    BY <1>4, <2>2, SMT
<1>6. b * q >= 0
  BY <1>5, SMT
<1>7. m <= a
  BY <1>4, <1>6, SMT
<1>8. ASSUME a < b PROVE m = a
  <2>1. q = 0
    <3>1. SUFFICES ASSUME q >= 1 PROVE FALSE
      BY <1>5, SMT
    <3>2. b * q >= b
      BY <3>1, SMT
    <3>3. QED
      BY <1>4, <1>8, <3>2, SMT
  <2>2. QED
    BY <1>4, <2>1, SMT
<1>9. QED
  BY <1>1, <1>3, <1>7, <1>8

LEMMA Int32Bounds ==
    ASSUME NEW x \in Nat
    PROVE  /\ Int32(x) \in Int /\ Int32(x) <= x /\ Int32(x) <= IntMax
           /\ x <= IntMax => Int32(x) = x
<1>1. PICK a \in Nat : a = x + IntMax + 1
  BY FetchAssumption
<1>2. PICK b \in Nat \ {0} : b = 2 * (IntMax + 1)
  BY FetchAssumption
<1>3. a % b \in Nat /\ a % b < b /\ a % b <= a /\ (a < b => a % b = a)
  BY ModuloBelow
<1>4. Int32(x) = (a % b) - (IntMax + 1)
  BY <1>1, <1>2 DEF Int32
<1>5. QED
  BY <1>1, <1>2, <1>3, <1>4, FetchAssumption
-----------------------------------------------------------------------------
(* The patch loop: its recursion has a solution, whose values are offsets. *)
PatchStep(h, off, batches, len, k) ==
    IF k = 0 THEN [cur |-> off, at |-> 0, next |-> off]
    ELSE LET done == h[k - 1]
             nextPhysical == done.cur + RecHdr + batches[k]
         IN  IF SumFunction(SubSeq(batches, 1, k)) > len THEN done
             ELSE [cur |-> nextPhysical - RecHdr,
                   at |-> done.at + batches[k], next |-> nextPhysical]

Patches(h, off, batches, len) ==
    h = [k \in 0..Len(batches) |-> PatchStep(h, off, batches, len, k)]

LEMMA PatchOneMore ==
    ASSUME NEW h, NEW off, NEW batches, NEW len, NEW k \in Nat \ {0}
    PROVE  \/ PatchStep(h, off, batches, len, k) = h[k - 1]
           \/ PatchStep(h, off, batches, len, k)
                = [cur |-> (h[k - 1].cur + RecHdr + batches[k]) - RecHdr,
                   at |-> h[k - 1].at + batches[k],
                   next |-> h[k - 1].cur + RecHdr + batches[k]]
<1>1. CASE SumFunction(SubSeq(batches, 1, k)) > len
  BY <1>1 DEF PatchStep
<1>2. CASE ~(SumFunction(SubSeq(batches, 1, k)) > len)
  BY <1>2 DEF PatchStep
<1>3. QED
  BY <1>1, <1>2

LEMMA PatchesExist ==
    ASSUME NEW off, NEW batches, NEW len, Len(batches) \in Nat
    PROVE  \E h : Patches(h, off, batches, len)
<1> DEFINE Step(h, k) == PatchStep(h, off, batches, len, k)
           Upto(h, m) == \A k \in 0..m : h[k] = Step(h, k)
           T == {m \in Nat : \E h : Upto(h, m)}
<1>1. 0 \in T
  <2>1. Upto([k \in {0} |-> [cur |-> off, at |-> 0, next |-> off]], 0)
    BY DEF PatchStep
  <2> HIDE DEF Upto
  <2>2. QED
    BY <2>1
<1>2. ASSUME NEW m \in Nat, m \in T PROVE m + 1 \in T
  <2>1. PICK h : Upto(h, m)
    BY <1>2
  <2> DEFINE g == [k \in 0..(m + 1) |-> IF k <= m THEN h[k] ELSE Step(h, k)]
  <2>2. ASSUME NEW k \in 0..(m + 1) PROVE g[k] = Step(g, k)
    <3>1. g[k] = Step(h, k)
      BY <2>1
    <3>2. k # 0 => g[k - 1] = h[k - 1]
      OBVIOUS
    <3>3. Step(g, k) = Step(h, k)
      BY <3>2 DEF PatchStep
    <3>4. QED
      BY <3>1, <3>3
  <2>3. Upto(g, m + 1)
    BY <2>2
  <2> HIDE DEF Upto, g
  <2>4. QED
    BY <2>3
<1>3. Len(batches) \in T
  <2> HIDE DEF T
  <2>1. QED
    BY <1>1, <1>2, SetInduction
<1>4. PICK h : Upto(h, Len(batches))
  BY <1>3
<1> DEFINE g == [k \in 0..Len(batches) |-> h[k]]
<1>5. ASSUME NEW k \in 0..Len(batches) PROVE g[k] = Step(g, k)
  <2>1. k # 0 => g[k - 1] = h[k - 1]
    OBVIOUS
  <2>2. Step(g, k) = Step(h, k)
    BY <2>1 DEF PatchStep
  <2>3. QED
    BY <1>4, <2>2
<1>6. Patches(g, off, batches, len)
  BY <1>5 DEF Patches
<1>7. QED
  BY <1>6

LEMMA PatchedIsLast ==
    ASSUME NEW off, NEW batches, NEW len, Len(batches) \in Nat
    PROVE  \E h : Patches(h, off, batches, len) /\ Patched(off, batches, len) = h[Len(batches)]
<1> DEFINE patch == CHOOSE h : Patches(h, off, batches, len)
<1>1. Patches(patch, off, batches, len)
  BY PatchesExist, Zenon
<1>2. Patched(off, batches, len) = patch[Len(batches)]
  BY Zenon DEF Patched, Patches, PatchStep
<1>3. QED
  BY <1>1, <1>2
-----------------------------------------------------------------------------
(* What the theorems ask of the requests and of the producers: the limits  *)
(* of a fetch leave room in an int32 for a length field, and a record has  *)
(* at most one batch.                                                      *)
Narrow == Smaller(PartMax, MaxBytes) + RecHdr <= IntMax
SingleBatch == \A r \in Records : Len(r) <= 1

Lands(p) == Starts(p) \cup {Size(p)}

(* The handler is at a partition that it could open. *)
AtPart == pc \in {"read", "body"} => cur \in Parts \ Broken

(* What is served and what is left of the budget; nothing is served yet of *)
(* the partitions to come.                                                 *)
BytesServed == SumFunction([p \in Parts |-> resp[p].bytes])

Budget ==
    /\ BytesServed + left <= MaxBytes
    /\ pc # "idle" => \A p \in Parts : p >= cur => resp[p].bytes = 0
    /\ pc = "body" => n <= left + RecHdr

SafeInv == TypeOK /\ AtPart /\ Budget

(* The consumer's offset and the one it is about to take. *)
LandsInv == \A p \in whole : pos[p] \in Lands(p) /\ resp[p].next \in Lands(p)

(* What Size found still holds of a partition in its first segment. *)
ReadInv ==
    /\ pc = "read" => Cap > 0 /\ (cur \in whole => pos[cur] < Size(cur))
    /\ pc = "body" => (cur \in whole => ~rolled /\ n >= RecHdr)
-----------------------------------------------------------------------------
(* The positions of a partition's records. *)
LEMMA LogIsFile ==
    ASSUME TypeOK, NEW p \in Parts
    PROVE  File(log[p]) /\ Len(log[p]) \in Nat /\ DOMAIN log[p] = 1..Len(log[p])
<1>1. log[p] \in Seq(Records)
  BY DEF TypeOK
<1>2. Records \subseteq Seq(Nat)
  BY FetchAssumption
<1>3. log[p] \in Seq(Seq(Nat))
  BY <1>1, <1>2
<1>4. QED
  BY <1>3 DEF File

LEMMA StartNatural ==
    ASSUME NEW file, File(file), NEW i \in 1..(Len(file) + 1)
    PROVE  StartOf(file, i) \in Nat
<1>1. Len(file) \in Nat
  BY DEF File
<1>2. CASE i \in 1..Len(file)
  BY <1>2, StartNext
<1>3. CASE i = Len(file) + 1 /\ Len(file) > 0
  BY <1>1, <1>3, StartBelow
<1>4. CASE i = 1
  BY <1>4, StartFirst
<1>5. QED
  BY <1>1, <1>2, <1>3, <1>4

LEMMA LandsNatural ==
    ASSUME TypeOK, NEW p \in Parts
    PROVE  /\ Size(p) \in Nat /\ Lands(p) \subseteq Nat
           /\ \A x \in Starts(p) : x + RecHdr <= Size(p)
           /\ 0 \in Lands(p)
<1>1. File(log[p]) /\ Len(log[p]) \in Nat
  BY LogIsFile
<1>2. Len(log[p]) + 1 \in 1..(Len(log[p]) + 1)
  BY <1>1
<1>3. Size(p) \in Nat
  BY <1>1, <1>2, StartNatural DEF Size
<1>4. ASSUME NEW i \in 1..Len(log[p])
      PROVE  StartOf(log[p], i) \in Nat /\ StartOf(log[p], i) + RecHdr <= Size(p)
  BY <1>1, StartNext, StartBelow DEF Size
<1>5. 0 \in Lands(p)
  <2>1. StartOf(log[p], 1) = 0
    BY <1>1, StartFirst
  <2>2. CASE Len(log[p]) = 0
    BY <2>1, <2>2 DEF Lands, Size
  <2>3. CASE Len(log[p]) > 0
    <3>1. 1 \in 1..Len(log[p])
      BY <1>1, <2>3
    <3>2. QED
      BY <2>1, <3>1 DEF Lands, Starts
  <2>4. QED
    BY <1>1, <2>2, <2>3
<1>6. QED
  BY <1>3, <1>4, <1>5 DEF Lands, Starts

(* What the patch loop leaves as the client's next offset. *)
LEMMA PatchedNatural ==
    ASSUME NEW off \in Nat, NEW batches \in Seq(Nat), NEW len
    PROVE  Patched(off, batches, len).next \in Nat
<1> DEFINE Vals == [cur: Nat, at: Nat, next: Nat]
<1>1. PICK h : Patches(h, off, batches, len) /\ Patched(off, batches, len) = h[Len(batches)]
  BY PatchedIsLast
<1> DEFINE T == {k \in Nat : k <= Len(batches) => h[k] \in Vals}
<1>2. \A k \in 0..Len(batches) : h[k] = PatchStep(h, off, batches, len, k)
  BY <1>1 DEF Patches
<1>a. Len(batches) \in Nat /\ 0 \in 0..Len(batches)
  OBVIOUS
<1>3. 0 \in T
  <2>1. h[0] = [cur |-> off, at |-> 0, next |-> off]
    BY <1>2, <1>a DEF PatchStep
  <2>2. QED
    BY <2>1
<1>4. ASSUME NEW k \in Nat, k \in T PROVE k + 1 \in T
  <2>1. SUFFICES ASSUME k + 1 <= Len(batches) PROVE h[k + 1] \in Vals
    BY <2>1
  <2>2. h[k] \in Vals /\ batches[k + 1] \in Nat
    BY <1>4, <2>1
  <2>3. h[k + 1] = PatchStep(h, off, batches, len, k + 1) /\ (k + 1) - 1 = k
    BY <1>2, <2>1
  <2> HIDE DEF T
  <2>4. PICK c \in Nat, a \in Nat, b \in Nat :
          h[k].cur = c /\ h[k].at = a /\ batches[k + 1] = b
    BY <2>2
  <2>5. k + 1 # 0 /\ c + RecHdr + b \in Nat /\ (c + RecHdr + b) - RecHdr \in Nat /\ a + b \in Nat
    BY FetchAssumption
  <2>6. \/ h[k + 1] = h[k]
        \/ h[k + 1] = [cur |-> (c + RecHdr + b) - RecHdr, at |-> a + b, next |-> c + RecHdr + b]
    <3>1. \/ h[k + 1] = h[(k + 1) - 1]
          \/ h[k + 1] = [cur |-> (h[(k + 1) - 1].cur + RecHdr + batches[k + 1]) - RecHdr,
                          at |-> h[(k + 1) - 1].at + batches[k + 1],
                          next |-> h[(k + 1) - 1].cur + RecHdr + batches[k + 1]]
      <4>1. k + 1 \in Nat \ {0}
        OBVIOUS
      <4>2. QED
        BY <2>3, <4>1, PatchOneMore
    <3>2. QED
      BY <2>3, <2>4, <3>1, Zenon
  <2>7. QED
    BY <2>2, <2>5, <2>6
<1>5. Len(batches) \in T
  <2> HIDE DEF T
  <2>1. QED
    BY <1>3, <1>4, SetInduction
<1>6. QED
  BY <1>1, <1>5

LEMMA PatchedSingle ==
    ASSUME NEW off \in Nat, NEW batches \in Seq(Nat), NEW len, Len(batches) <= 1
    PROVE  Patched(off, batches, len).next \in {off, off + RecHdr + SumFunction(batches)}
<1>1. PICK h : Patches(h, off, batches, len) /\ Patched(off, batches, len) = h[Len(batches)]
  BY PatchedIsLast
<1>2. \A k \in 0..Len(batches) : h[k] = PatchStep(h, off, batches, len, k)
  BY <1>1 DEF Patches
<1>a. Len(batches) \in Nat /\ 0 \in 0..Len(batches)
  OBVIOUS
<1>3. h[0] = [cur |-> off, at |-> 0, next |-> off]
  BY <1>2, <1>a DEF PatchStep
<1>4. CASE Len(batches) = 0
  BY <1>1, <1>3, <1>4
<1>5. CASE Len(batches) = 1
  <2>1. SumFunction(batches) = batches[1]
    <3>1. DOMAIN batches = 1..(0 + 1) /\ \A i \in 1..(0 + 1) : batches[i] \in Nat
      <4>1. 0 + 1 = Len(batches)
        BY <1>5
      <4>2. QED
        BY <4>1
    <3>2. SumFunctionOnSet(batches, 1..(0 + 1))
            = SumFunctionOnSet(batches, 1..0) + batches[0 + 1]
      BY <3>1, SumNext
    <3>3. 1..0 = {}
      OBVIOUS
    <3>4. SumFunctionOnSet(batches, 1..0) = 0
      BY <3>3, SumEmpty
    <3>5. QED
      BY <3>1, <3>2, <3>4 DEF SumFunction
  <2>2. h[1] = PatchStep(h, off, batches, len, 1)
    BY <1>2, <1>5
  <2>3. h[1].next \in {off, off + RecHdr + batches[1]}
    BY <1>3, <2>2 DEF PatchStep
  <2>4. QED
    BY <1>1, <1>5, <2>1, <2>3
<1>6. Len(batches) = 0 \/ Len(batches) = 1
  <2>1. PICK m \in Nat : m = Len(batches)
    BY <1>a
  <2>2. m <= 1
    BY <2>1
  <2>3. m = 0 \/ m = 1
    BY <2>2
  <2>4. QED
    BY <2>1, <2>3
<1>7. QED
  BY <1>4, <1>5, <1>6

LEMMA ServedNatural ==
    ASSUME TypeOK, NEW p \in Parts, NEW off \in Nat, NEW len \in Int
    PROVE  Served(p, off, len).next \in Nat /\ Served(p, off, len).misframed \in BOOLEAN
<1>1. CASE off \in Starts(p)
  <2> DEFINE i == CHOOSE k \in 1..Len(log[p]) : StartOf(log[p], k) = off
  <2>1. i \in 1..Len(log[p])
    BY <1>1 DEF Starts
  <2> HIDE DEF i
  <2>2. log[p][i] \in Seq(Nat)
    BY <2>1, LogIsFile, RecordOf
  <2>3. Patched(off, log[p][i], len).next \in Nat
    BY <2>2, PatchedNatural
  <2>4. QED
    BY <1>1, <2>3 DEF Served, i
<1>2. CASE off \notin Starts(p)
  BY <1>2 DEF Served
<1>3. QED
  BY <1>1, <1>2

LEMMA ServedLands ==
    ASSUME TypeOK, SingleBatch, NEW p \in Parts, NEW off \in Lands(p), NEW len \in Int
    PROVE  Served(p, off, len).next \in Lands(p)
<1>1. CASE off \in Starts(p)
  <2> DEFINE i == CHOOSE k \in 1..Len(log[p]) : StartOf(log[p], k) = off
  <2>1. i \in 1..Len(log[p]) /\ StartOf(log[p], i) = off
    BY <1>1 DEF Starts
  <2> HIDE DEF i
  <2>2. log[p][i] \in Seq(Nat) /\ Len(log[p][i]) <= 1
    <3>1. log[p] \in Seq(Records)
      BY DEF TypeOK
    <3>2. log[p][i] \in Records
      BY <2>1, <3>1
    <3>3. QED
      BY <3>2, FetchAssumption DEF SingleBatch
  <2>3. off \in Nat
    BY LandsNatural
  <2>4. Patched(off, log[p][i], len).next \in {off, off + RecHdr + SumFunction(log[p][i])}
    BY <2>2, <2>3, PatchedSingle
  <2>5. StartOf(log[p], i + 1) = off + RecHdr + SumFunction(log[p][i])
    BY <2>1, LogIsFile, StartNext
  <2>6. StartOf(log[p], i + 1) \in Lands(p)
    BY <2>1, LogIsFile DEF Lands, Starts, Size
  <2>7. Served(p, off, len).next = Patched(off, log[p][i], len).next
    BY <1>1 DEF Served, i
  <2>8. QED
    BY <2>4, <2>5, <2>6, <2>7
<1>2. CASE off \notin Starts(p)
  BY <1>2 DEF Served
<1>3. QED
  BY <1>1, <1>2
-----------------------------------------------------------------------------
(* The answer for one partition. *)
Resp == [err: {"none", "range"}, off: Nat, hwm: Nat, bytes: Nat, next: Nat,
         misframed: BOOLEAN]

LEMMA AnswerTyped ==
    ASSUME TypeOK, cur \in Parts, NEW a \in Resp, Answer(a)
    PROVE  /\ resp' \in [Parts -> Resp] /\ cur' \in 1..(NumParts + 1)
           /\ resp'[cur] = a /\ \A p \in Parts \ {cur} : resp'[p] = resp[p]
           /\ pc' = "size" /\ n' = 0 /\ cur' = cur + 1
<1>1. resp \in [Parts -> Resp] /\ resp' = [resp EXCEPT ![cur] = a]
  BY DEF TypeOK, Answer, Resp
<1>2. cur' = cur + 1 /\ pc' = "size" /\ n' = 0 /\ cur \in 1..NumParts /\ NumParts \in Nat
  BY FetchAssumption DEF Answer, Parts
<1>3. cur' \in 1..(NumParts + 1)
  BY <1>2
<1>4. QED
  BY <1>1, <1>2, <1>3

(* An answer costs its bytes, which must come off what is left. *)
LEMMA AnswerCosts ==
    ASSUME SafeInv, cur \in Parts, pc # "idle", NEW a \in Resp, Answer(a),
           left' \in Nat, a.bytes + left' <= left
    PROVE  AtPart' /\ Budget'
<1> DEFINE f == [p \in Parts |-> resp[p].bytes]
           g == [p \in Parts |-> resp'[p].bytes]
<1>1. TypeOK /\ Budget /\ left \in Nat /\ MaxBytes \in Nat /\ NumParts \in Nat
  BY FetchAssumption DEF SafeInv, TypeOK
<1>2. /\ resp' \in [Parts -> Resp] /\ resp'[cur] = a
      /\ \A p \in Parts \ {cur} : resp'[p] = resp[p]
      /\ pc' = "size" /\ cur' = cur + 1
  BY <1>1, AnswerTyped
<1>3. IsFiniteSet(Parts)
  BY <1>1, FS_Interval DEF Parts
<1>4. \A p \in Parts : f[p] \in Nat /\ g[p] \in Nat
  BY <1>1, <1>2 DEF TypeOK, Resp
<1>5. \A p \in Parts \ {cur} : g[p] = f[p]
  BY <1>2
<1>6. cur \in Int /\ cur \in 1..NumParts
  BY DEF Parts
<1>7. f[cur] = 0 /\ g[cur] = a.bytes
  BY <1>1, <1>2, <1>6 DEF Budget
<1>8. BytesServed = SumFunctionOnSet(f, Parts) /\ BytesServed' = SumFunctionOnSet(g, Parts)
  BY DEF BytesServed, SumFunction
<1> HIDE DEF f, g
<1>9. SumFunctionOnSet(g, Parts) = SumFunctionOnSet(f, Parts) - f[cur] + g[cur]
  BY <1>3, <1>4, <1>5, SumChanged
<1>10. SumFunctionOnSet(f, Parts) \in Nat
  BY <1>3, <1>4, SumNatural
<1>11. a.bytes \in Nat
  BY DEF Resp
<1>12. SumFunctionOnSet(f, Parts) + left <= MaxBytes
  BY <1>1, <1>8 DEF Budget
<1>13. BytesServed' + left' <= MaxBytes
  <2>1. PICK b \in Nat : b = SumFunctionOnSet(f, Parts)
    BY <1>10
  <2>2. PICK y \in Nat : y = a.bytes
    BY <1>11
  <2>3. BytesServed' = b + y
    BY <1>7, <1>8, <1>9, <2>1, <2>2
  <2>4. QED
    BY <1>1, <1>12, <2>1, <2>2, <2>3
<1>14. ASSUME NEW p \in Parts, p >= cur' PROVE resp'[p].bytes = 0
  <2>1. p \in Int /\ p # cur /\ p >= cur
    BY <1>2, <1>6, <1>14 DEF Parts
  <2>2. QED
    BY <1>1, <1>2, <2>1 DEF Budget
<1>15. AtPart'
  BY <1>2 DEF AtPart
<1>16. QED
  BY <1>2, <1>13, <1>14, <1>15 DEF Budget

(* Steps that serve nothing keep the sums. *)
LEMMA ServesNothing ==
    ASSUME Budget, \A p \in Parts : resp'[p].bytes = resp[p].bytes
    PROVE  BytesServed' = BytesServed
<1>1. [p \in Parts |-> resp'[p].bytes] = [p \in Parts |-> resp[p].bytes]
  OBVIOUS
<1>2. QED
  BY <1>1 DEF BytesServed

LEMMA NothingServed ==
    ASSUME NEW r, r = [p \in Parts |-> Blank]
    PROVE  SumFunction([p \in Parts |-> r[p].bytes]) = 0
<1> DEFINE f == [p \in Parts |-> r[p].bytes]
<1>1. \A p \in Parts : f[p] = 0
  BY DEF Blank
<1>2. IsFiniteSet(Parts)
  BY FetchAssumption, FS_Interval DEF Parts
<1> HIDE DEF f
<1>3. SumFunctionOnSet(f, Parts) = 0
  BY <1>1, <1>2, SumZero
<1>4. QED
  BY <1>3 DEF SumFunction, f

LEMMA SafeInit == Init => SafeInv
<1> SUFFICES ASSUME Init PROVE SafeInv
  OBVIOUS
<1>1. Blank \in Resp
  BY DEF Blank, Resp
<1>2. log \in [Parts -> Seq(Records)] /\ resp \in [Parts -> Resp] /\ pos \in [Parts -> Nat]
  <2>1. <<>> \in Seq(Records)
    OBVIOUS
  <2>2. QED
    BY <1>1, <2>1 DEF Init
<1>3. TypeOK
  <2>1. rolled \in BOOLEAN /\ whole \subseteq Parts /\ pc = "idle"
    BY DEF Init
  <2>2. count \in 0..MaxRecords /\ cur \in 1..(NumParts + 1)
    BY FetchAssumption DEF Init
  <2>3. left \in 0..MaxBytes /\ n \in 0..IntMax
    BY FetchAssumption DEF Init
  <2>4. QED
    BY <1>2, <2>1, <2>2, <2>3 DEF TypeOK, Resp
<1>4. BytesServed = 0
  BY NothingServed DEF Init, BytesServed
<1>5. Budget
  BY <1>4, FetchAssumption DEF Budget, Init
<1>6. QED
  BY <1>3, <1>5 DEF SafeInv, AtPart, Init

(* The producers' steps change neither the budget nor the handler. *)
LEMMA SafeProduce ==
    ASSUME SafeInv, NEW p \in Parts, NEW r \in Records, Produce(p, r) \/ ProduceRolls(p, r)
    PROVE  SafeInv'
<1>1. TypeOK
  BY DEF SafeInv
<1>2. /\ UNCHANGED <<pc, cur, left, n, resp, pos>>
      /\ count < MaxRecords /\ count' = count + 1 /\ whole' \subseteq whole
      /\ rolled' = rolled \/ rolled' \in BOOLEAN
      /\ \/ log' = [log EXCEPT ![p] = Append(@, r)]
         \/ log' = [log EXCEPT ![p] = <<r>>]
  BY DEF Produce, ProduceRolls
<1>3. log \in [Parts -> Seq(Records)] /\ log[p] \in Seq(Records)
  BY <1>1 DEF TypeOK
<1>4. Append(log[p], r) \in Seq(Records) /\ <<r>> \in Seq(Records)
  BY <1>3
<1>5. log' \in [Parts -> Seq(Records)]
  BY <1>2, <1>3, <1>4
<1>6. count' \in 0..MaxRecords
  BY <1>1, <1>2, FetchAssumption DEF TypeOK
<1>7. TypeOK'
  BY <1>1, <1>2, <1>5, <1>6 DEF TypeOK
<1>8. AtPart'
  BY <1>2 DEF SafeInv, AtPart
<1>9. Budget'
  BY <1>2 DEF SafeInv, Budget, BytesServed
<1>10. QED
  BY <1>7, <1>8, <1>9 DEF SafeInv

LEMMA SafeRequest ==
    ASSUME SafeInv, Request
    PROVE  SafeInv'
<1>1. /\ pc' = "size" /\ cur' = 1 /\ left' = MaxBytes /\ resp' = [p \in Parts |-> Blank]
      /\ UNCHANGED <<log, rolled, whole, count, n, pos>>
  BY DEF Request
<1>2. Blank \in Resp
  BY DEF Blank, Resp
<1>3. resp' \in [Parts -> Resp]
  BY <1>1, <1>2
<1>4. cur' \in 1..(NumParts + 1) /\ left' \in 0..MaxBytes
  BY <1>1, FetchAssumption
<1>5. TypeOK'
  BY <1>1, <1>3, <1>4 DEF SafeInv, TypeOK, Resp
<1>6. BytesServed' = 0
  BY <1>1, NothingServed DEF BytesServed
<1>7. \A p \in Parts : resp'[p].bytes = 0
  BY <1>1 DEF Blank
<1>8. BytesServed' + left' <= MaxBytes
  BY <1>1, <1>6, FetchAssumption
<1>9. QED
  BY <1>1, <1>5, <1>7, <1>8 DEF SafeInv, AtPart, Budget

(* An answer that is of the right type and within what is left. *)
LEMMA SafeAnswer ==
    ASSUME SafeInv, cur \in Parts, pc # "idle", NEW a \in Resp, Answer(a),
           left' \in 0..left, a.bytes + left' <= left,
           UNCHANGED <<log, rolled, whole, count, pos>>
    PROVE  SafeInv'
<1>1. TypeOK /\ left \in Nat /\ left' \in Nat
  BY FetchAssumption DEF SafeInv, TypeOK
<1>2. resp' \in [Parts -> Resp] /\ cur' \in 1..(NumParts + 1) /\ pc' = "size" /\ n' = 0
  BY <1>1, AnswerTyped
<1>3. left' \in 0..MaxBytes
  BY <1>1, FetchAssumption DEF TypeOK
<1>4. n' \in 0..IntMax
  BY <1>2, FetchAssumption
<1>5. TypeOK'
  BY <1>1, <1>2, <1>3, <1>4 DEF TypeOK, Resp
<1>6. AtPart' /\ Budget'
  BY <1>1, AnswerCosts
<1>7. QED
  BY <1>5, <1>6 DEF SafeInv

LEMMA SafeFails ==
    ASSUME SafeInv, OpenFails \/ ReadFails \/ BodyFails
    PROVE  SafeInv'
<1>1. TypeOK /\ AtPart /\ Budget /\ left \in Nat
  BY FetchAssumption DEF SafeInv, TypeOK
<1>2. UNCHANGED <<log, rolled, whole, count, left, pos>> /\ pc # "idle"
  BY DEF OpenFails, ReadFails, BodyFails
<1>3. cur \in Parts
  BY <1>1, FetchAssumption DEF AtPart, OpenFails, ReadFails, BodyFails, Parts
<1>4. resp[cur] \in Resp /\ pos[cur] \in Nat /\ resp[cur].bytes = 0
  <2>1. cur \in Int
    BY <1>3 DEF Parts
  <2>2. QED
    BY <1>1, <1>2, <1>3, <2>1 DEF TypeOK, Resp, Budget
<1>5. PICK a \in Resp : Answer(a) /\ a.bytes = 0
  <2>1. CASE OpenFails
    <3> DEFINE a == [Blank EXCEPT !.err = "range", !.off = pos[cur], !.next = pos[cur]]
    <3>1. a \in Resp /\ a.bytes = 0
      BY <1>4 DEF Blank, Resp
    <3>2. QED
      BY <2>1, <3>1 DEF OpenFails
  <2>2. CASE ReadFails \/ BodyFails
    <3> DEFINE a == [resp[cur] EXCEPT !.err = "range"]
    <3>1. a \in Resp /\ a.bytes = 0
      BY <1>4 DEF Resp
    <3>2. QED
      BY <2>2, <3>1 DEF ReadFails, BodyFails
  <2>3. QED
    BY <2>1, <2>2
<1>6. left' \in 0..left /\ a.bytes + left' <= left
  BY <1>1, <1>2, <1>5
<1>7. QED
  BY <1>2, <1>3, <1>5, <1>6, SafeAnswer

(* What Size found, for the current partition. *)
Sized == [Blank EXCEPT !.off = pos[cur], !.hwm = Size(cur), !.next = pos[cur]]

LEMMA SizedTyped ==
    ASSUME TypeOK, cur \in Parts
    PROVE  /\ Sized \in Resp /\ Sized.bytes = 0 /\ Sized.err = "none"
           /\ Sized.off = pos[cur] /\ Sized.hwm = Size(cur) /\ Sized.next = pos[cur]
           /\ [Sized EXCEPT !.err = "range"] \in Resp
           /\ [Sized EXCEPT !.err = "range"].bytes = 0
           /\ [Sized EXCEPT !.err = "range"].off = pos[cur]
           /\ [Sized EXCEPT !.err = "range"].hwm = Size(cur)
           /\ [Sized EXCEPT !.err = "range"].next = pos[cur]
<1>1. pos[cur] \in Nat /\ Size(cur) \in Nat
  BY LandsNatural DEF TypeOK
<1>2. QED
  BY <1>1 DEF Sized, Blank, Resp

(* The cases of ReadSize. *)
LEMMA ReadSizeCases ==
    ASSUME ReadSize
    PROVE  /\ pc = "size" /\ cur \in Parts \ Broken
           /\ UNCHANGED <<log, rolled, whole, count, left, pos>>
           /\ \/ Answer(Sized)
              \/ pos[cur] > Size(cur) /\ Answer([Sized EXCEPT !.err = "range"])
              \/ /\ pos[cur] < Size(cur) /\ Cap > 0
                 /\ pc' = "read" /\ resp' = [resp EXCEPT ![cur] = Sized]
                 /\ UNCHANGED <<cur, n>>
BY Zenon DEF ReadSize, Sized

LEMMA SafeReadSize ==
    ASSUME SafeInv, ReadSize
    PROVE  SafeInv'
<1>1. TypeOK /\ Budget /\ left \in Nat
  BY FetchAssumption DEF SafeInv, TypeOK
<1>2. cur \in Parts /\ cur \notin Broken /\ pc # "idle" /\ cur \in Int
  BY ReadSizeCases DEF Parts
<1>3. UNCHANGED <<log, rolled, whole, count, left, pos>>
  BY ReadSizeCases
<1>4. /\ Sized \in Resp /\ Sized.bytes = 0
      /\ [Sized EXCEPT !.err = "range"] \in Resp /\ [Sized EXCEPT !.err = "range"].bytes = 0
  BY <1>1, <1>2, SizedTyped
<1>5. ASSUME NEW a \in Resp, a.bytes = 0, Answer(a) PROVE SafeInv'
  <2>1. left' \in 0..left /\ a.bytes + left' <= left
    BY <1>1, <1>3, <1>5
  <2>2. QED
    BY <1>2, <1>3, <1>5, <2>1, SafeAnswer
<1>6. ASSUME pc' = "read", resp' = [resp EXCEPT ![cur] = Sized], UNCHANGED <<cur, n>>
      PROVE  SafeInv'
  <2>1. resp \in [Parts -> Resp] /\ resp' \in [Parts -> Resp]
    BY <1>1, <1>4, <1>6 DEF TypeOK, Resp
  <2>2. TypeOK'
    BY <1>1, <1>3, <1>6, <2>1 DEF TypeOK, Resp
  <2>3. resp[cur].bytes = 0
    BY <1>1, <1>2 DEF Budget
  <2>4. \A p \in Parts : resp'[p].bytes = resp[p].bytes
    BY <1>4, <1>6, <2>1, <2>3
  <2>5. BytesServed' = BytesServed
    BY <1>1, <2>4, ServesNothing
  <2>6. Budget'
    BY <1>1, <1>2, <1>3, <1>6, <2>4, <2>5 DEF Budget
  <2>7. AtPart'
    BY <1>2, <1>6 DEF AtPart
  <2>8. QED
    BY <2>2, <2>6, <2>7 DEF SafeInv
<1>7. QED
  BY <1>4, <1>5, <1>6, ReadSizeCases

(* What Read promises is within the budget, but for the length field. *)
LEMMA ReadBounds ==
    ASSUME TypeOK, cur \in Parts, Read
    PROVE  /\ n' \in 0..IntMax /\ n' <= left + RecHdr /\ Cap \in Nat
           /\ n' = Smaller(Int32(Cap + RecHdr), Size(cur) - pos[cur])
           /\ pos[cur] < Size(cur) /\ pos[cur] \in Nat /\ Size(cur) \in Nat
<1>1. Cap \in Nat /\ Cap <= left /\ left \in Nat
  BY FetchAssumption DEF TypeOK, Cap, Smaller
<1>2. pos[cur] \in Nat /\ Size(cur) \in Nat
  BY LandsNatural DEF TypeOK
<1>3. PICK x \in Nat : x = Cap + RecHdr
  BY <1>1, FetchAssumption
<1>4. PICK y \in Int : y = Int32(x) /\ y <= x /\ y <= IntMax
  BY Int32Bounds
<1>5. /\ pos[cur] < Size(cur) /\ y > 0
      /\ n' = Smaller(y, Size(cur) - pos[cur])
  BY <1>3, <1>4 DEF Read
<1>6. PICK d \in Nat : d = Size(cur) - pos[cur] /\ d > 0
  BY <1>2, <1>5
<1>7. n' = Smaller(y, d)
  BY <1>5, <1>6
<1>8. n' \in 0..IntMax /\ n' <= x
  BY <1>4, <1>5, <1>6, <1>7, FetchAssumption DEF Smaller
<1>9. n' <= left + RecHdr
  BY <1>1, <1>3, <1>8, FetchAssumption
<1>10. QED
  BY <1>1, <1>2, <1>3, <1>4, <1>5, <1>8, <1>9

LEMMA SafeRead ==
    ASSUME SafeInv, Read
    PROVE  SafeInv'
<1>1. TypeOK /\ AtPart /\ Budget
  BY DEF SafeInv
<1>2. pc = "read" /\ pc' = "body" /\ rolled' = FALSE
  BY DEF Read
<1>3. UNCHANGED <<log, whole, count, cur, left, resp, pos>>
  BY DEF Read
<1>4. cur \in Parts \ Broken
  BY <1>1, <1>2 DEF AtPart
<1>5. n' \in 0..IntMax /\ n' <= left + RecHdr
  BY <1>1, <1>4, ReadBounds
<1>6. TypeOK'
  BY <1>1, <1>2, <1>3, <1>5 DEF TypeOK
<1>7. AtPart'
  BY <1>3, <1>4 DEF AtPart
<1>8. Budget'
  BY <1>1, <1>2, <1>3, <1>5 DEF Budget, BytesServed
<1>9. QED
  BY <1>6, <1>7, <1>8 DEF SafeInv

(* The answer with the bytes read. *)
Filled ==
    LET s == Served(cur, pos[cur], n - RecHdr)
    IN  [resp[cur] EXCEPT !.bytes = n - RecHdr, !.next = s.next, !.misframed = s.misframed]

LEMMA FilledTyped ==
    ASSUME TypeOK, cur \in Parts, n >= RecHdr
    PROVE  /\ Filled \in Resp /\ Filled.bytes = n - RecHdr /\ n - RecHdr \in Nat
           /\ Filled.next = Served(cur, pos[cur], n - RecHdr).next
           /\ Filled.err = resp[cur].err /\ Filled.off = resp[cur].off
           /\ Filled.hwm = resp[cur].hwm
<1>1. n \in Nat /\ n - RecHdr \in Nat
  BY FetchAssumption DEF TypeOK
<1>2. resp[cur] \in Resp /\ pos[cur] \in Nat
  BY DEF TypeOK, Resp
<1> DEFINE s == Served(cur, pos[cur], n - RecHdr)
<1>3. s.next \in Nat /\ s.misframed \in BOOLEAN
  BY <1>1, <1>2, ServedNatural
<1>4. Filled = [resp[cur] EXCEPT !.bytes = n - RecHdr, !.next = s.next,
                                 !.misframed = s.misframed]
  BY DEF Filled
<1> HIDE DEF s
<1>5. /\ Filled \in Resp /\ Filled.bytes = n - RecHdr /\ Filled.next = s.next
      /\ Filled.err = resp[cur].err /\ Filled.off = resp[cur].off
      /\ Filled.hwm = resp[cur].hwm
  BY <1>1, <1>2, <1>3, <1>4 DEF Resp
<1>6. QED
  BY <1>1, <1>5 DEF s

LEMMA BodyAnswers ==
    ASSUME Body
    PROVE  /\ pc = "body" /\ ~rolled /\ n >= RecHdr /\ Answer(Filled)
           /\ left' = left - (n - RecHdr) /\ UNCHANGED <<log, rolled, whole, count, pos>>
BY Zenon DEF Body, Filled

LEMMA SafeBody ==
    ASSUME SafeInv, Body
    PROVE  SafeInv'
<1>1. TypeOK /\ AtPart /\ Budget /\ left \in Nat /\ n \in Nat /\ RecHdr \in Nat
  BY FetchAssumption DEF SafeInv, TypeOK
<1>2. pc = "body" /\ n >= RecHdr /\ Answer(Filled) /\ left' = left - (n - RecHdr)
  BY BodyAnswers
<1>3. cur \in Parts
  BY <1>1, <1>2 DEF AtPart
<1>4. Filled \in Resp /\ Filled.bytes = n - RecHdr
  BY <1>1, <1>2, <1>3, FilledTyped
<1>5. n <= left + RecHdr
  BY <1>1, <1>2 DEF Budget
<1>6. left' \in 0..left /\ (n - RecHdr) + left' <= left
  BY <1>1, <1>2, <1>5
<1>7. UNCHANGED <<log, rolled, whole, count, pos>>
  BY BodyAnswers
<1>8. QED
  BY <1>2, <1>3, <1>4, <1>6, <1>7, SafeAnswer

(* Where the client goes from a response. *)
LEMMA RespondMoves ==
    ASSUME SafeInv, Respond, NEW p \in Parts
    PROVE  pos'[p] \in {0, Size(p), pos[p], resp[p].next}
<1>1. PICK reset \in [Parts -> {"earliest", "latest"}] :
        pos' = [q \in Parts |-> IF resp[q].err = "range" THEN ListOffsets(q, reset[q])
                               ELSE IF resp[q].misframed THEN pos[q]
                               ELSE resp[q].next]
  BY DEF Respond
<1>2. reset[p] = "earliest" \/ reset[p] = "latest"
  OBVIOUS
<1>3. ListOffsets(p, reset[p]) \in {0, Size(p), pos[p]}
  BY <1>2 DEF ListOffsets
<1>4. QED
  BY <1>1, <1>3

LEMMA SafeRespond ==
    ASSUME SafeInv, Respond
    PROVE  SafeInv'
<1>1. TypeOK /\ Budget
  BY DEF SafeInv
<1>2. pc' = "idle" /\ cur' = 1 /\ UNCHANGED <<log, rolled, whole, count, left, n, resp>>
  BY DEF Respond
<1>3. pos' \in [Parts -> Nat]
  <2>1. \A p \in Parts : pos'[p] \in Nat
    <3>1. ASSUME NEW p \in Parts PROVE pos'[p] \in Nat
      <4>1. pos[p] \in Nat /\ resp[p].next \in Nat /\ Size(p) \in Nat
        BY <1>1, LandsNatural DEF TypeOK
      <4>2. QED
        BY <4>1, RespondMoves
    <3>2. QED
      BY <3>1
  <2>2. pos' = [p \in Parts |-> pos'[p]]
    BY DEF Respond
  <2>3. QED
    BY <2>1, <2>2
<1>4. cur' \in 1..(NumParts + 1)
  BY <1>2, FetchAssumption
<1>5. TypeOK'
  BY <1>1, <1>2, <1>3, <1>4 DEF TypeOK
<1>6. Budget'
  BY <1>1, <1>2 DEF Budget, BytesServed
<1>7. QED
  BY <1>2, <1>5, <1>6 DEF SafeInv, AtPart

LEMMA SafeStep == SafeInv /\ [Next]_vars => SafeInv'
<1> SUFFICES ASSUME SafeInv, [Next]_vars PROVE SafeInv'
  OBVIOUS
<1>1. CASE UNCHANGED vars
  BY <1>1 DEF vars, SafeInv, TypeOK, AtPart, Budget, BytesServed
<1>2. ASSUME NEW p \in Parts, NEW r \in Records, Produce(p, r) \/ ProduceRolls(p, r)
      PROVE  SafeInv'
  BY <1>2, SafeProduce
<1>3. CASE Request
  BY <1>3, SafeRequest
<1>4. CASE OpenFails \/ ReadFails \/ BodyFails
  BY <1>4, SafeFails
<1>5. CASE ReadSize
  BY <1>5, SafeReadSize
<1>6. CASE Read
  BY <1>6, SafeRead
<1>7. CASE Body
  BY <1>7, SafeBody
<1>8. CASE Respond
  BY <1>8, SafeRespond
<1>9. QED
  BY <1>1, <1>2, <1>3, <1>4, <1>5, <1>6, <1>7, <1>8 DEF Next, Handler

(* The inductive invariant of the types and the byte budget. *)
THEOREM SafeInvariant == Spec => []SafeInv
BY SafeInit, SafeStep, PTL DEF Spec

(* The types of the fetch loop's state. *)
THEOREM TypeCorrect == Spec => []TypeOK
<1>1. SafeInv => TypeOK
  BY DEF SafeInv
<1>2. QED
  BY <1>1, SafeInvariant, PTL

(* Whatever is appended or rolled over between the steps of handleFetch,   *)
(* its response carries at most MaxBytes.                                  *)
THEOREM BudgetIsKept == Spec => []BudgetKept
<1>1. SafeInv => BudgetKept
  <2> SUFFICES ASSUME SafeInv PROVE BudgetKept
    OBVIOUS
  <2>2. left \in Nat /\ MaxBytes \in Nat /\ BytesServed + left <= MaxBytes
    BY FetchAssumption DEF SafeInv, TypeOK, Budget
  <2>3. BytesServed \in Nat
    <3> DEFINE f == [p \in Parts |-> resp[p].bytes]
    <3>1. \A p \in Parts : f[p] \in Nat
      BY DEF SafeInv, TypeOK
    <3>2. IsFiniteSet(Parts)
      BY FetchAssumption, FS_Interval DEF Parts
    <3> HIDE DEF f
    <3>3. SumFunctionOnSet(f, Parts) \in Nat
      BY <3>1, <3>2, SumNatural
    <3>4. QED
      BY <3>3 DEF BytesServed, SumFunction, f
  <2>4. BytesServed <= MaxBytes
    BY <2>2, <2>3
  <2>5. QED
    BY <2>4 DEF BudgetKept, BytesServed
<1>2. QED
  BY <1>1, SafeInvariant, PTL
-----------------------------------------------------------------------------
(* The places to land of a file: the starts of its records and its end. *)
LEMMA LandsAre ==
    ASSUME NEW file, File(file)
    PROVE  {StartOf(file, i) : i \in 1..Len(file)} \cup {StartOf(file, Len(file) + 1)}
             = {StartOf(file, i) : i \in 1..(Len(file) + 1)}
<1>1. Len(file) \in Nat
  BY DEF File
<1>2. 1..(Len(file) + 1) = (1..Len(file)) \cup {Len(file) + 1}
  BY <1>1
<1>3. QED
  BY <1>2

(* An append keeps them. *)
LEMMA LandsGrow ==
    ASSUME TypeOK, TypeOK', NEW p \in Parts, NEW r \in Records, Produce(p, r),
           NEW q \in Parts
    PROVE  Lands(q) \subseteq Lands(q)' /\ Size(q)' >= Size(q)
<1>1. log' = [log EXCEPT ![p] = Append(@, r)]
  BY DEF Produce
<1>2. CASE q # p
  <2>1. log'[q] = log[q]
    BY <1>1, <1>2 DEF TypeOK
  <2>2. Size(q) \in Nat
    BY LandsNatural
  <2>3. QED
    BY <2>1, <2>2 DEF Lands, Starts, Size
<1>3. CASE q = p
  <2>1. File(log[p]) /\ Len(log[p]) \in Nat
    BY LogIsFile
  <2>2. log'[p] = Append(log[p], r) /\ Len(log'[p]) = Len(log[p]) + 1
    BY <1>1, <2>1 DEF TypeOK, File
  <2>3. \A i \in 1..(Len(log[p]) + 1) : StartOf(log'[p], i) = StartOf(log[p], i)
    BY <2>1, <2>2, StartAppend
  <2>4. File(log'[p])
    <3>1. log'[p] \in Seq(Records)
      BY DEF TypeOK
    <3>2. Records \subseteq Seq(Nat)
      BY FetchAssumption
    <3>3. QED
      BY <3>1, <3>2 DEF File
  <2>5. Lands(p) \subseteq Lands(p)'
    <3>1. Lands(p) = {StartOf(log[p], i) : i \in 1..(Len(log[p]) + 1)}
      BY <2>1, LandsAre DEF Lands, Starts, Size
    <3>2. Lands(p)' = {StartOf(log'[p], i) : i \in 1..(Len(log'[p]) + 1)}
      BY <2>4, LandsAre DEF Lands, Starts, Size
    <3>3. QED
      BY <2>1, <2>2, <2>3, <3>1, <3>2
  <2>6. Len(log[p]) + 1 \in 1..Len(log'[p]) /\ Len(log[p]) + 1 \in 1..(Len(log[p]) + 1)
    BY <2>1, <2>2
  <2>7. Size(p) + RecHdr <= Size(p)' /\ Size(p)' \in Nat
    BY <2>3, <2>4, <2>6, StartBelow DEF Size
  <2>8. Size(p) \in Nat
    BY LandsNatural
  <2>9. Size(p)' >= Size(p)
    BY <2>7, <2>8, FetchAssumption
  <2>10. QED
    BY <1>3, <2>5, <2>9
<1>4. QED
  BY <1>2, <1>3

LEMMA LandsInit == Init => LandsInv
<1> SUFFICES ASSUME Init PROVE LandsInv
  OBVIOUS
<1>1. TypeOK
  BY SafeInit DEF SafeInv
<1>2. \A p \in Parts : 0 \in Lands(p)
  BY <1>1, LandsNatural
<1>3. \A p \in Parts : pos[p] = 0 /\ resp[p].next = 0
  BY DEF Init, Blank
<1>4. QED
  BY <1>1, <1>2, <1>3 DEF LandsInv, TypeOK

LEMMA LandsSame ==
    ASSUME log' = log
    PROVE  \A p : Lands(p)' = Lands(p) /\ Size(p)' = Size(p)
BY DEF Lands, Starts, Size

(* An answer that lands. *)
LEMMA LandsAnswer ==
    ASSUME TypeOK, LandsInv, cur \in Parts, NEW a \in Resp, Answer(a),
           UNCHANGED <<log, whole, pos>>, cur \in whole => a.next \in Lands(cur)
    PROVE  LandsInv'
<1>1. resp'[cur] = a /\ \A p \in Parts \ {cur} : resp'[p] = resp[p]
  BY AnswerTyped
<1>2. ASSUME NEW p \in whole PROVE pos'[p] \in Lands(p)' /\ resp'[p].next \in Lands(p)'
  <2>1. p \in Parts /\ Lands(p)' = Lands(p) /\ pos'[p] = pos[p]
    BY LandsSame DEF TypeOK
  <2>2. pos[p] \in Lands(p) /\ resp[p].next \in Lands(p)
    BY DEF LandsInv
  <2>3. CASE p = cur
    BY <1>1, <2>1, <2>2, <2>3
  <2>4. CASE p # cur
    BY <1>1, <2>1, <2>2, <2>4
  <2>5. QED
    BY <2>3, <2>4
<1>3. QED
  BY <1>2 DEF LandsInv

LEMMA LandsProduce ==
    ASSUME TypeOK, TypeOK', LandsInv, NEW p \in Parts, NEW r \in Records,
           Produce(p, r) \/ ProduceRolls(p, r)
    PROVE  LandsInv'
<1>1. UNCHANGED <<pos, resp>> /\ whole \subseteq Parts
  BY DEF Produce, ProduceRolls, TypeOK
<1>2. CASE Produce(p, r)
  <2>1. whole' = whole
    BY <1>2 DEF Produce
  <2>2. \A q \in Parts : Lands(q) \subseteq Lands(q)'
    BY <1>2, LandsGrow
  <2>3. QED
    BY <1>1, <2>1, <2>2 DEF LandsInv
<1>3. CASE ProduceRolls(p, r)
  <2>1. whole' = whole \ {p} /\ log' = [log EXCEPT ![p] = <<r>>]
    BY <1>3 DEF ProduceRolls
  <2>2. \A q \in Parts \ {p} : log'[q] = log[q]
    BY <2>1 DEF TypeOK
  <2>3. \A q \in Parts \ {p} : Lands(q)' = Lands(q)
    BY <2>2 DEF Lands, Starts, Size
  <2>4. QED
    BY <1>1, <2>1, <2>3 DEF LandsInv
<1>4. QED
  BY <1>2, <1>3

LEMMA LandsFails ==
    ASSUME SafeInv, LandsInv, OpenFails \/ ReadFails \/ BodyFails
    PROVE  LandsInv'
<1>1. TypeOK /\ AtPart
  BY DEF SafeInv
<1>2. UNCHANGED <<log, whole, pos>>
  BY DEF OpenFails, ReadFails, BodyFails
<1>3. cur \in Parts
  BY <1>1, FetchAssumption DEF AtPart, OpenFails, ReadFails, BodyFails, Parts
<1>4. resp[cur] \in Resp /\ pos[cur] \in Nat
  BY <1>1, <1>3 DEF TypeOK, Resp
<1>5. PICK a \in Resp : Answer(a) /\ a.next \in {pos[cur], resp[cur].next}
  <2>1. CASE OpenFails
    <3> DEFINE a == [Blank EXCEPT !.err = "range", !.off = pos[cur], !.next = pos[cur]]
    <3>1. a \in Resp /\ a.next = pos[cur]
      BY <1>4 DEF Blank, Resp
    <3>2. QED
      BY <2>1, <3>1 DEF OpenFails
  <2>2. CASE ReadFails \/ BodyFails
    <3> DEFINE a == [resp[cur] EXCEPT !.err = "range"]
    <3>1. a \in Resp /\ a.next = resp[cur].next
      BY <1>4 DEF Resp
    <3>2. QED
      BY <2>2, <3>1 DEF ReadFails, BodyFails
  <2>3. QED
    BY <2>1, <2>2
<1>6. cur \in whole => a.next \in Lands(cur)
  BY <1>5 DEF LandsInv
<1>7. QED
  BY <1>1, <1>2, <1>3, <1>5, <1>6, LandsAnswer

LEMMA LandsReadSize ==
    ASSUME SafeInv, LandsInv, ReadSize
    PROVE  LandsInv'
<1>1. TypeOK
  BY DEF SafeInv
<1>2. cur \in Parts /\ UNCHANGED <<log, whole, pos>>
  BY ReadSizeCases
<1>3. /\ Sized \in Resp /\ Sized.next = pos[cur]
      /\ [Sized EXCEPT !.err = "range"] \in Resp
      /\ [Sized EXCEPT !.err = "range"].next = pos[cur]
  BY <1>1, <1>2, SizedTyped
<1>4. cur \in whole => pos[cur] \in Lands(cur)
  BY DEF LandsInv
<1>5. ASSUME NEW a \in Resp, a.next = pos[cur], Answer(a) PROVE LandsInv'
  BY <1>1, <1>2, <1>4, <1>5, LandsAnswer
<1>6. ASSUME resp' = [resp EXCEPT ![cur] = Sized] PROVE LandsInv'
  <2>1. \A p \in Parts : resp'[p].next \in {pos[p], resp[p].next}
    BY <1>1, <1>2, <1>3, <1>6 DEF TypeOK
  <2>2. \A p \in Parts : Lands(p)' = Lands(p)
    BY <1>2, LandsSame
  <2>3. QED
    BY <1>1, <1>2, <2>1, <2>2 DEF LandsInv, TypeOK
<1>7. QED
  BY <1>3, <1>5, <1>6, ReadSizeCases

LEMMA LandsStep ==
    ASSUME SingleBatch, SafeInv, LandsInv, [Next]_vars, SafeInv'
    PROVE  LandsInv'
<1>1. TypeOK /\ TypeOK' /\ AtPart
  BY DEF SafeInv
<1>2. \A p \in whole : p \in Parts
  BY <1>1 DEF TypeOK
<1>3. ASSUME UNCHANGED <<log, whole, pos, resp>> PROVE LandsInv'
  BY <1>3, LandsSame DEF LandsInv
<1>4. ASSUME NEW p \in Parts, NEW r \in Records, Produce(p, r) \/ ProduceRolls(p, r)
      PROVE  LandsInv'
  BY <1>1, <1>4, LandsProduce
<1>5. CASE Request
  <2>1. UNCHANGED <<log, whole, pos>> /\ \A p \in Parts : resp'[p].next = 0
    BY <1>5 DEF Request, Blank
  <2>2. \A p \in Parts : 0 \in Lands(p) /\ Lands(p)' = Lands(p)
    BY <1>1, <2>1, LandsNatural, LandsSame
  <2>3. QED
    BY <1>2, <2>1, <2>2 DEF LandsInv
<1>6. CASE OpenFails \/ ReadFails \/ BodyFails
  BY <1>6, LandsFails
<1>7. CASE ReadSize
  BY <1>7, LandsReadSize
<1>8. CASE Read
  BY <1>3, <1>8 DEF Read
<1>9. CASE Body
  <2>1. pc = "body" /\ n >= RecHdr /\ Answer(Filled) /\ UNCHANGED <<log, whole, pos>>
    BY <1>9, BodyAnswers
  <2>2. cur \in Parts
    BY <1>1, <2>1 DEF AtPart
  <2>3. /\ Filled \in Resp /\ n - RecHdr \in Nat
        /\ Filled.next = Served(cur, pos[cur], n - RecHdr).next
    BY <1>1, <2>1, <2>2, FilledTyped
  <2>4. ASSUME cur \in whole PROVE Filled.next \in Lands(cur)
    <3>1. pos[cur] \in Lands(cur)
      BY <2>4 DEF LandsInv
    <3>2. QED
      BY <1>1, <2>2, <2>3, <3>1, ServedLands
  <2>5. QED
    BY <1>1, <2>1, <2>2, <2>3, <2>4, LandsAnswer
<1>10. CASE Respond
  <2>1. UNCHANGED <<log, whole, resp>>
    BY <1>10 DEF Respond
  <2>2. ASSUME NEW p \in whole PROVE pos'[p] \in Lands(p) /\ resp'[p].next \in Lands(p)
    <3>1. p \in Parts /\ pos[p] \in Lands(p) /\ resp[p].next \in Lands(p)
      BY <1>2 DEF LandsInv
    <3>2. 0 \in Lands(p) /\ Size(p) \in Lands(p)
      BY <1>1, <3>1, LandsNatural DEF Lands
    <3>3. pos'[p] \in {0, Size(p), pos[p], resp[p].next}
      BY <1>10, <3>1, RespondMoves
    <3>4. QED
      BY <2>1, <3>1, <3>2, <3>3
  <2>3. QED
    BY <2>1, <2>2, LandsSame DEF LandsInv
<1>11. CASE UNCHANGED vars
  BY <1>3, <1>11 DEF vars
<1>12. QED
  BY <1>4, <1>5, <1>6, <1>7, <1>8, <1>9, <1>10, <1>11 DEF Next, Handler

(* A consumer of a partition in its first segment always fetches from the  *)
(* start of a record or from the end of the file, if every record has at   *)
(* most one batch.                                                         *)
THEOREM NextFetchDoesLand ==
    ASSUME SingleBatch
    PROVE  Spec => []NextFetchLands
<1>1. Init => SafeInv /\ LandsInv
  BY SafeInit, LandsInit
<1>2. SafeInv /\ LandsInv /\ [Next]_vars => (SafeInv /\ LandsInv)'
  BY SafeStep, LandsStep
<1>3. LandsInv => NextFetchLands
  BY DEF LandsInv, NextFetchLands, Lands
<1>4. QED
  BY <1>1, <1>2, <1>3, PTL DEF Spec
-----------------------------------------------------------------------------
(* Between Size, Read and the reading of the bytes, appends and rollovers  *)
(* of other partitions take nothing back.                                  *)
LEMMA ReadProduce ==
    ASSUME SafeInv, TypeOK', ReadInv, NEW p \in Parts, NEW r \in Records,
           Produce(p, r) \/ ProduceRolls(p, r)
    PROVE  ReadInv'
<1>1. TypeOK /\ AtPart
  BY DEF SafeInv
<1>2. UNCHANGED <<pc, cur, left, n, pos>> /\ whole' \subseteq whole
  BY DEF Produce, ProduceRolls
<1>3. Cap' = Cap
  BY <1>2 DEF Cap
<1>4. ASSUME pc = "read", cur \in whole' PROVE pos'[cur] < Size(cur)'
  <2>1. cur \in Parts /\ cur \in whole /\ pos[cur] < Size(cur)
    BY <1>1, <1>2, <1>4 DEF AtPart, ReadInv
  <2>2. Size(cur) \in Nat /\ pos[cur] \in Nat
    BY <1>1, <2>1, LandsNatural DEF TypeOK
  <2>3. CASE Produce(p, r)
    <3>1. Size(cur)' >= Size(cur)
      <4>1. \A q \in Parts : Size(q)' >= Size(q)
        BY <1>1, <2>3, LandsGrow
      <4>2. \A q \in Parts : Size(q)' = StartOf(log'[q], Len(log'[q]) + 1)
        BY DEF Size
      <4>3. StartOf(log'[cur], Len(log'[cur]) + 1) >= Size(cur)
        BY <2>1, <4>1, <4>2
      <4>4. QED
        BY <1>2, <4>3 DEF Size
    <3>2. Size(cur)' \in Nat
      <4>1. \A q \in Parts : log'[q] \in Seq(Records)
        BY DEF TypeOK
      <4>2. Records \subseteq Seq(Nat)
        BY FetchAssumption
      <4>3. File(log'[cur]) /\ Len(log'[cur]) \in Nat
        BY <2>1, <4>1, <4>2 DEF File
      <4>4. StartOf(log'[cur], Len(log'[cur]) + 1) \in Nat
        BY <4>3, StartNatural
      <4>5. QED
        BY <1>2, <4>4 DEF Size
    <3>3. QED
      BY <1>2, <2>1, <2>2, <3>1, <3>2
  <2>4. CASE ProduceRolls(p, r)
    <3>1. cur # p /\ log' = [log EXCEPT ![p] = <<r>>]
      BY <1>2, <1>4, <2>4 DEF ProduceRolls
    <3>2. log'[cur] = log[cur]
      BY <1>1, <2>1, <3>1 DEF TypeOK
    <3>3. Size(cur)' = Size(cur)
      BY <1>2, <3>2 DEF Size
    <3>4. QED
      BY <1>2, <2>1, <3>3
  <2>5. QED
    BY <2>3, <2>4
<1>5. ASSUME pc = "body", cur \in whole' PROVE ~rolled' /\ n' >= RecHdr
  <2>1. cur \in whole /\ ~rolled /\ n >= RecHdr
    BY <1>2, <1>5 DEF ReadInv
  <2>2. CASE Produce(p, r)
    BY <1>2, <2>1, <2>2 DEF Produce
  <2>3. CASE ProduceRolls(p, r)
    BY <1>2, <1>5, <2>1, <2>3 DEF ProduceRolls
  <2>4. QED
    BY <2>2, <2>3
<1>6. QED
  BY <1>2, <1>3, <1>4, <1>5 DEF ReadInv

(* The limit on what is read does not wrap. *)
LEMMA CapFits ==
    ASSUME Narrow, TypeOK
    PROVE  Cap \in Nat /\ Int32(Cap + RecHdr) = Cap + RecHdr
<1>1. left \in 0..MaxBytes
  BY DEF TypeOK
<1>2. Cap \in Nat /\ Cap + RecHdr <= IntMax /\ Cap + RecHdr \in Nat
  BY <1>1, FetchAssumption DEF Narrow, Cap, Smaller
<1>3. QED
  BY <1>2, Int32Bounds

(* What Read promises of a partition in its first segment has a length     *)
(* field: the record that starts there ends in the file, and the limit is  *)
(* larger than a length field.                                             *)
LEMMA ReadPromises ==
    ASSUME Narrow, SafeInv, LandsInv, ReadInv, Read
    PROVE  ReadInv'
<1>1. TypeOK /\ AtPart /\ pc = "read" /\ pc' = "body" /\ rolled' = FALSE
  BY DEF SafeInv, Read
<1>2. cur \in Parts /\ Cap > 0
  BY <1>1 DEF AtPart, ReadInv
<1>3. UNCHANGED <<log, whole, cur, pos>>
  BY DEF Read
<1>4. /\ Cap \in Nat /\ n' = Smaller(Int32(Cap + RecHdr), Size(cur) - pos[cur])
      /\ pos[cur] < Size(cur) /\ pos[cur] \in Nat /\ Size(cur) \in Nat
  BY <1>1, <1>2, ReadBounds
<1>6. Int32(Cap + RecHdr) = Cap + RecHdr
  BY <1>1, CapFits
<1>7. ASSUME cur \in whole PROVE n' >= RecHdr
  <2>1. pos[cur] \in Starts(cur)
    BY <1>4, <1>7 DEF LandsInv, Lands
  <2>2. pos[cur] + RecHdr <= Size(cur)
    BY <1>1, <1>2, <2>1, LandsNatural
  <2>3. QED
    BY <1>4, <1>6, <2>2, FetchAssumption DEF Smaller
<1>8. QED
  BY <1>1, <1>3, <1>7 DEF ReadInv

LEMMA ReadStep ==
    ASSUME Narrow, SafeInv, LandsInv, ReadInv, [Next]_vars, TypeOK'
    PROVE  ReadInv'
<1>1. ASSUME pc' \in {"idle", "size"} PROVE ReadInv'
  BY <1>1 DEF ReadInv
<1>2. ASSUME NEW p \in Parts, NEW r \in Records, Produce(p, r) \/ ProduceRolls(p, r)
      PROVE  ReadInv'
  BY <1>2, ReadProduce
<1>3. CASE Request \/ OpenFails \/ ReadFails \/ Body \/ BodyFails \/ Respond
  <2>1. pc' \in {"idle", "size"}
    BY <1>3 DEF Request, OpenFails, ReadFails, Body, BodyFails, Respond, Answer
  <2>2. QED
    BY <1>1, <2>1
<1>4. CASE ReadSize
  <2>1. UNCHANGED <<log, whole, left, pos>>
    BY <1>4, ReadSizeCases
  <2>2. CASE Answer(Sized) \/ Answer([Sized EXCEPT !.err = "range"])
    <3>1. pc' = "size"
      BY <2>2 DEF Answer
    <3>2. QED
      BY <1>1, <3>1
  <2>3. CASE pos[cur] < Size(cur) /\ Cap > 0 /\ pc' = "read" /\ UNCHANGED <<cur, n>>
    <3>1. Cap' = Cap /\ Size(cur)' = Size(cur) /\ pos'[cur'] = pos[cur]
      BY <2>1, <2>3 DEF Cap, Size
    <3>2. QED
      BY <2>3, <3>1 DEF ReadInv
  <2>4. QED
    BY <1>4, <2>2, <2>3, ReadSizeCases
<1>5. CASE Read
  BY <1>5, ReadPromises
<1>6. CASE UNCHANGED vars
  BY <1>6 DEF vars, ReadInv, Cap, Size
<1>7. QED
  BY <1>2, <1>3, <1>4, <1>5, <1>6 DEF Next, Handler

(* An answer that is out of range only beyond the watermark. *)
LEMMA RangeAnswer ==
    ASSUME TypeOK, OutOfRangeIsBeyond, cur \in Parts, NEW a \in Resp, Answer(a),
           whole' = whole,
           cur \in whole \ Broken => (a.err = "range" => a.off > a.hwm)
    PROVE  OutOfRangeIsBeyond'
<1>1. resp'[cur] = a /\ \A p \in Parts \ {cur} : resp'[p] = resp[p]
  BY AnswerTyped
<1>2. whole \subseteq Parts
  BY DEF TypeOK
<1>3. QED
  BY <1>1, <1>2 DEF OutOfRangeIsBeyond

LEMMA RangeStep ==
    ASSUME Narrow, SafeInv, ReadInv, OutOfRangeIsBeyond, [Next]_vars
    PROVE  OutOfRangeIsBeyond'
<1>1. TypeOK /\ AtPart /\ whole \subseteq Parts
  BY DEF SafeInv, TypeOK
<1>2. ASSUME resp' = resp, whole' \subseteq whole PROVE OutOfRangeIsBeyond'
  BY <1>2 DEF OutOfRangeIsBeyond
<1>3. ASSUME NEW p \in Parts, NEW r \in Records, Produce(p, r) \/ ProduceRolls(p, r)
      PROVE  OutOfRangeIsBeyond'
  BY <1>2, <1>3 DEF Produce, ProduceRolls
<1>4. CASE Request
  <2>1. whole' = whole /\ \A p \in Parts : resp'[p].err = "none"
    BY <1>4 DEF Request, Blank
  <2>2. QED
    BY <1>1, <2>1 DEF OutOfRangeIsBeyond
<1>5. CASE OpenFails
  <2> DEFINE a == [Blank EXCEPT !.err = "range", !.off = pos[cur], !.next = pos[cur]]
  <2>1. cur \in Broken /\ cur \in Parts /\ whole' = whole /\ Answer(a)
    BY <1>5, FetchAssumption DEF OpenFails, Parts
  <2>2. pos[cur] \in Nat
    BY <1>1, <2>1 DEF TypeOK
  <2>3. a \in Resp
    BY <2>2 DEF Blank, Resp
  <2> HIDE DEF a
  <2>4. QED
    BY <1>1, <2>1, <2>3, RangeAnswer
<1>6. CASE ReadFails \/ BodyFails
  <2> DEFINE a == [resp[cur] EXCEPT !.err = "range"]
  <2>1. cur \in Parts
    BY <1>1, <1>6 DEF AtPart, ReadFails, BodyFails
  <2>2. a \in Resp /\ Answer(a) /\ whole' = whole
    BY <1>1, <1>6, <2>1 DEF TypeOK, Resp, ReadFails, BodyFails
  <2>3. cur \notin whole
    <3>1. SUFFICES ASSUME cur \in whole PROVE FALSE
      OBVIOUS
    <3>2. CASE ReadFails
      <4>1. /\ Cap > 0 /\ pos[cur] < Size(cur)
            /\ pos[cur] >= Size(cur) \/ Int32(Cap + RecHdr) <= 0
        BY <3>1, <3>2 DEF ReadFails, ReadInv
      <4>2. pos[cur] \in Nat /\ Size(cur) \in Nat
        BY <1>1, <2>1, LandsNatural DEF TypeOK
      <4>3. Cap \in Nat /\ Int32(Cap + RecHdr) = Cap + RecHdr
        BY <1>1, CapFits
      <4>4. QED
        BY <4>1, <4>2, <4>3, FetchAssumption
    <3>3. CASE BodyFails
      <4>1. ~rolled /\ n >= RecHdr /\ (rolled \/ n < RecHdr)
        BY <3>1, <3>3 DEF BodyFails, ReadInv
      <4>2. n \in Nat
        BY <1>1, FetchAssumption DEF TypeOK
      <4>3. QED
        BY <4>1, <4>2, FetchAssumption
    <3>4. QED
      BY <1>6, <3>2, <3>3
  <2> HIDE DEF a
  <2>4. QED
    BY <1>1, <2>1, <2>2, <2>3, RangeAnswer
<1>7. CASE ReadSize
  <2>1. cur \in Parts /\ whole' = whole
    BY <1>7, ReadSizeCases
  <2>2. /\ Sized \in Resp /\ Sized.err = "none"
        /\ [Sized EXCEPT !.err = "range"] \in Resp
        /\ [Sized EXCEPT !.err = "range"].off = pos[cur]
        /\ [Sized EXCEPT !.err = "range"].hwm = Size(cur)
    BY <1>1, <2>1, SizedTyped
  <2>3. CASE Answer(Sized)
    BY <1>1, <2>1, <2>2, <2>3, RangeAnswer
  <2>4. CASE pos[cur] > Size(cur) /\ Answer([Sized EXCEPT !.err = "range"])
    BY <1>1, <2>1, <2>2, <2>4, RangeAnswer
  <2>5. CASE resp' = [resp EXCEPT ![cur] = Sized]
    <3>1. resp'[cur].err = "none" /\ \A p \in Parts \ {cur} : resp'[p] = resp[p]
      BY <1>1, <2>1, <2>2, <2>5 DEF TypeOK
    <3>2. QED
      BY <1>1, <2>1, <3>1 DEF OutOfRangeIsBeyond
  <2>6. QED
    BY <1>7, <2>3, <2>4, <2>5, ReadSizeCases
<1>8. CASE Body
  <2>1. pc = "body" /\ n >= RecHdr /\ Answer(Filled) /\ whole' = whole
    BY <1>8, BodyAnswers
  <2>2. cur \in Parts
    BY <1>1, <2>1 DEF AtPart
  <2>3. /\ Filled \in Resp /\ Filled.err = resp[cur].err
        /\ Filled.off = resp[cur].off /\ Filled.hwm = resp[cur].hwm
    BY <1>1, <2>1, <2>2, FilledTyped
  <2>4. cur \in whole \ Broken => (Filled.err = "range" => Filled.off > Filled.hwm)
    BY <2>3 DEF OutOfRangeIsBeyond
  <2>5. QED
    BY <1>1, <2>1, <2>2, <2>3, <2>4, RangeAnswer
<1>9. CASE Read \/ Respond \/ UNCHANGED vars
  BY <1>2, <1>9 DEF Read, Respond, vars
<1>10. QED
  BY <1>3, <1>4, <1>5, <1>6, <1>7, <1>8, <1>9 DEF Next, Handler

(* A consumer of a partition in its first segment is told that it is out   *)
(* of range only beyond the high watermark, if every record has at most    *)
(* one batch and the limits of the request stay a length field below the   *)
(* largest int32: no append or rollover between Size, Read and the reading *)
(* of the bytes makes it so.                                               *)
THEOREM OutOfRangeOnlyBeyond ==
    ASSUME SingleBatch, Narrow
    PROVE  Spec => []OutOfRangeIsBeyond
<1> DEFINE I == SafeInv /\ LandsInv /\ ReadInv /\ OutOfRangeIsBeyond
<1>1. Init => I
  <2>1. Init => ReadInv
    BY DEF Init, ReadInv
  <2>2. Init => OutOfRangeIsBeyond
    BY DEF Init, OutOfRangeIsBeyond, Blank
  <2>3. QED
    BY <2>1, <2>2, SafeInit, LandsInit
<1>2. I /\ [Next]_vars => I'
  <2>1. SUFFICES ASSUME I, [Next]_vars PROVE I'
    OBVIOUS
  <2>2. SafeInv'
    BY <2>1, SafeStep
  <2>3. LandsInv'
    BY <2>1, <2>2, LandsStep
  <2>4. ReadInv'
    BY <2>1, <2>2, ReadStep DEF SafeInv
  <2>5. OutOfRangeIsBeyond'
    BY <2>1, RangeStep
  <2>6. QED
    BY <2>2, <2>3, <2>4, <2>5
<1>3. QED
  BY <1>1, <1>2, PTL DEF Spec
=============================================================================
