---------------------------- MODULE StartupProofs ----------------------------
(***************************************************************************)
(* Startup's safety properties, for any configuration files, variables,    *)
(* partitions and foreign directories: a name is taken apart into the      *)
(* partition it was made from, the configuration is the one that the order *)
(* of its sources says, and the partitions on disk, in BrokerStore.stores  *)
(* and in what Metadata answers agree.                                     *)
(***************************************************************************)
EXTENDS Startup, SumProofs

(***************************************************************************)
(* Numbers, written and read.                                              *)
(***************************************************************************)

LEMMA DigitFacts ==
    /\ "-" \notin DigitChars
    /\ \A d \in 0..9 : Digits[d + 1] \in DigitChars /\ DigitValue(Digits[d + 1]) = d
<1>1. \A i \in 1..10 : Digits[i] # "-"
  BY DEF Digits
<1>2. \A d \in 0..9 : Digits[d + 1] \in DigitChars
  BY DEF DigitChars
<1>3. \A d, e \in 0..9 : Digits[d + 1] = Digits[e + 1] => d = e
  BY DEF Digits
<1>4. ASSUME NEW d \in 0..9 PROVE DigitValue(Digits[d + 1]) = d
  BY <1>3 DEF DigitValue
<1>5. QED
  BY <1>1, <1>2, <1>4 DEF DigitChars

(* The numbers that ParseInt's loop has read, digit by digit. *)
ReadStep(v, s, i) == IF i = 0 THEN 0 ELSE 10 * v[i - 1] + DigitValue(s[i])
Reads(v, s, n) == v = [i \in 0..n |-> ReadStep(v, s, i)]

LEMMA ReadsExist ==
    ASSUME NEW s, NEW n \in Nat
    PROVE  \E v : Reads(v, s, n)
<1> DEFINE T == {m \in Nat : \E v : Reads(v, s, m)}
<1>1. 0 \in T
  <2> DEFINE v == [i \in 0..0 |-> 0]
  <2>1. Reads(v, s, 0)
    BY DEF Reads, ReadStep
  <2>2. QED
    BY <2>1
<1>2. ASSUME NEW m \in Nat, m \in T PROVE m + 1 \in T
  <2>1. PICK v : Reads(v, s, m)
    BY <1>2
  <2> DEFINE w == [i \in 0..(m + 1) |-> IF i <= m THEN v[i] ELSE ReadStep(v, s, m + 1)]
  <2>2. \A i \in 0..m : w[i] = v[i]
    OBVIOUS
  <2>3. \A i \in 0..m : v[i] = ReadStep(v, s, i)
    BY <2>1 DEF Reads
  <2>4. \A i \in 0..m : ReadStep(v, s, i) = ReadStep(w, s, i)
    BY <2>2 DEF ReadStep
  <2>5. ReadStep(v, s, m + 1) = ReadStep(w, s, m + 1)
    BY <2>2 DEF ReadStep
  <2> HIDE DEF ReadStep
  <2>6. w = [i \in 0..(m + 1) |-> ReadStep(w, s, i)]
    <3>1. ASSUME NEW i \in 0..(m + 1) PROVE w[i] = ReadStep(w, s, i)
      <4>1. CASE i \in 0..m
        BY <4>1, <2>2, <2>3, <2>4
      <4>2. CASE i = m + 1
        BY <4>2, <2>5
      <4>3. QED
        BY <4>1, <4>2
    <3>2. QED
      BY <3>1
  <2>7. Reads(w, s, m + 1)
    BY <2>6, Zenon DEF Reads
  <2> HIDE DEF w
  <2>8. QED
    BY <2>7
<1>3. n \in T
  <2> HIDE DEF T
  <2>1. QED
    BY <1>1, <1>2, SetInduction
<1>4. QED
  BY <1>3

(* They are determined by the digits read so far. *)
LEMMA ReadsUnique ==
    ASSUME NEW s, NEW t, NEW n \in Nat, NEW m \in Nat, n <= m,
           \A i \in 1..n : s[i] = t[i], NEW v, NEW w, Reads(v, s, n), Reads(w, t, m)
    PROVE  \A i \in 0..n : v[i] = w[i]
<1> DEFINE T == {k \in Nat : k <= n => v[k] = w[k]}
<1>1. 0 \in T
  BY DEF Reads, ReadStep
<1>2. ASSUME NEW k \in Nat, k \in T PROVE k + 1 \in T
  <2> SUFFICES ASSUME k + 1 <= n PROVE v[k + 1] = w[k + 1]
    OBVIOUS
  <2>1. v[k] = w[k] /\ s[k + 1] = t[k + 1]
    BY <1>2
  <2>2. v[k + 1] = 10 * v[k] + DigitValue(s[k + 1])
    BY DEF Reads, ReadStep
  <2>3. w[k + 1] = 10 * w[k] + DigitValue(t[k + 1])
    BY DEF Reads, ReadStep
  <2>4. QED
    BY <2>1, <2>2, <2>3, Zenon
<1>3. \A k \in Nat : k \in T
  <2> HIDE DEF T
  <2>1. QED
    BY <1>1, <1>2, SetInduction
<1>4. QED
  BY <1>3

LEMMA ParseIntReads ==
    ASSUME NEW s, Len(s) \in Nat
    PROVE  \E v : Reads(v, s, Len(s)) /\ ParseInt(s) = v[Len(s)]
<1> DEFINE v == CHOOSE g : Reads(g, s, Len(s))
<1>1. Reads(v, s, Len(s))
  BY ReadsExist, Zenon
<1>2. ParseInt(s) = v[Len(s)]
  BY Zenon DEF ParseInt, Reads, ReadStep
<1>3. QED
  BY <1>1, <1>2, Zenon

LEMMA ParseIntAppend ==
    ASSUME NEW s \in Seq(DigitChars), NEW c \in DigitChars
    PROVE  ParseInt(s \o <<c>>) = 10 * ParseInt(s) + DigitValue(c)
<1> DEFINE t == s \o <<c>>
           n == Len(s)
<1>1. n \in Nat /\ Len(t) = n + 1 /\ t[n + 1] = c /\ \A i \in 1..n : s[i] = t[i]
  OBVIOUS
<1>2. PICK v : Reads(v, s, n) /\ ParseInt(s) = v[n]
  BY <1>1, ParseIntReads
<1>3. PICK w : Reads(w, t, n + 1) /\ ParseInt(t) = w[n + 1]
  <2>1. Len(t) \in Nat
    BY <1>1
  <2>2. QED
    BY <2>1, <1>1, ParseIntReads
<1> HIDE DEF t, n
<1>4. v[n] = w[n]
  BY <1>1, <1>2, <1>3, ReadsUnique
<1>5. w[n + 1] = 10 * w[n] + DigitValue(t[n + 1])
  BY <1>1, <1>3 DEF Reads, ReadStep
<1>6. ParseInt(t) = 10 * ParseInt(s) + DigitValue(c)
  BY <1>1, <1>2, <1>3, <1>4, <1>5, Zenon
<1>7. QED
  BY <1>6 DEF t

LEMMA ParseIntOne ==
    ASSUME NEW d \in 0..9
    PROVE  ParseInt(<<Digits[d + 1]>>) = d
<1> DEFINE c == Digits[d + 1]
<1>a. Len(<<c>>) = 1 /\ 1 \in Nat
  OBVIOUS
<1>1. PICK v : Reads(v, <<c>>, 1) /\ ParseInt(<<c>>) = v[1]
  BY <1>a, ParseIntReads, Zenon
<1>2. v[0] = 0 /\ v[1] = 10 * v[0] + DigitValue(c)
  BY <1>1 DEF Reads, ReadStep
<1>3. QED
  BY <1>1, <1>2, DigitFacts

(* decimal is what its equation says. *)
DecimalStep(d, n) ==
    IF n < 10 THEN <<Digits[n + 1]>> ELSE d[n \div 10] \o <<Digits[(n % 10) + 1]>>
Writes(d, m) == d = [n \in 0..m |-> DecimalStep(d, n)]

LEMMA Tenth ==
    ASSUME NEW n \in Nat, n >= 10
    PROVE  /\ n \div 10 \in 0..(n - 1) /\ n % 10 \in 0..9
           /\ n = 10 * (n \div 10) + (n % 10)
OBVIOUS

LEMMA WritesExist ==
    ASSUME NEW m \in Nat
    PROVE  \E d : Writes(d, m)
<1> DEFINE T == {k \in Nat : \E d : Writes(d, k)}
<1>1. 0 \in T
  <2> DEFINE d == [n \in 0..0 |-> <<Digits[n + 1]>>]
  <2>1. Writes(d, 0)
    BY DEF Writes, DecimalStep
  <2> HIDE DEF d
  <2>2. QED
    BY <2>1
<1>2. ASSUME NEW k \in Nat, k \in T PROVE k + 1 \in T
  <2>1. PICK d : Writes(d, k)
    BY <1>2
  <2> DEFINE e == [n \in 0..(k + 1) |-> IF n <= k THEN d[n] ELSE DecimalStep(d, k + 1)]
  <2>2. \A n \in 0..k : e[n] = d[n]
    OBVIOUS
  <2>3. \A n \in 0..k : d[n] = DecimalStep(d, n)
    BY <2>1 DEF Writes
  <2>4. \A n \in 0..(k + 1) : DecimalStep(d, n) = DecimalStep(e, n)
    <3>1. ASSUME NEW n \in 0..(k + 1), n >= 10 PROVE e[n \div 10] = d[n \div 10]
      BY <3>1, <2>2, Tenth
    <3>2. QED
      BY <3>1 DEF DecimalStep
  <2>5. e = [n \in 0..(k + 1) |-> DecimalStep(e, n)]
    <3>1. ASSUME NEW n \in 0..(k + 1) PROVE e[n] = DecimalStep(e, n)
      <4>1. CASE n \in 0..k
        BY <4>1, <2>2, <2>3, <2>4
      <4>2. CASE n = k + 1
        BY <4>2, <2>4
      <4>3. QED
        BY <4>1, <4>2
    <3>2. QED
      BY <3>1
  <2>6. Writes(e, k + 1)
    BY <2>5, Zenon DEF Writes
  <2> HIDE DEF e
  <2>7. QED
    BY <2>6
<1>3. m \in T
  <2> HIDE DEF T
  <2>1. QED
    BY <1>1, <1>2, SetInduction
<1>4. QED
  BY <1>3

LEMMA DecimalWrites == Writes(decimal, MaxPartition)
<1>1. \E d : Writes(d, MaxPartition)
  BY WritesExist, NamesAssumption
<1>2. QED
  BY <1>1, Zenon DEF decimal, Writes, DecimalStep

(* ParseInt reads back what %d has written, which is digits. *)
LEMMA DecimalReads ==
    ASSUME NEW n \in 0..MaxPartition
    PROVE  /\ decimal[n] \in Seq(DigitChars) /\ decimal[n] # <<>>
           /\ ParseInt(decimal[n]) = n
<1> DEFINE P(k) == /\ decimal[k] \in Seq(DigitChars) /\ decimal[k] # <<>>
                   /\ ParseInt(decimal[k]) = k
           T == {m \in Nat : \A k \in 0..MaxPartition : k < m => P(k)}
<1>a. \A k \in 0..MaxPartition : decimal[k] = DecimalStep(decimal, k)
  BY DecimalWrites DEF Writes
<1>1. 0 \in T
  BY NamesAssumption
<1>2. ASSUME NEW m \in Nat, m \in T PROVE m + 1 \in T
  <2> SUFFICES ASSUME m <= MaxPartition PROVE P(m)
    BY <1>2, NamesAssumption
  <2>1. CASE m < 10
    <3>1. m \in 0..9 /\ m \in 0..MaxPartition
      BY <2>1, NamesAssumption
    <3>2. decimal[m] = <<Digits[m + 1]>>
      BY <1>a, <2>1, <3>1 DEF DecimalStep
    <3>3. Digits[m + 1] \in DigitChars
      BY <3>1, DigitFacts
    <3>4. <<Digits[m + 1]>> \in Seq(DigitChars) /\ <<Digits[m + 1]>> # <<>>
      BY <3>3
    <3>5. QED
      BY <3>1, <3>2, <3>4, ParseIntOne, Zenon
  <2>2. CASE m >= 10
    <3>1. PICK q \in 0..(m - 1), r \in 0..9 : q = m \div 10 /\ r = m % 10 /\ m = 10 * q + r
      BY <2>2, Tenth
    <3>2. q \in 0..MaxPartition /\ m \in 0..MaxPartition /\ q < m
      BY <3>1, NamesAssumption
    <3>3. P(q)
      BY <1>2, <3>2
    <3>4. decimal[m] = decimal[q] \o <<Digits[r + 1]>>
      <4>1. ~(m < 10)
        BY <2>2
      <4>2. decimal[m] = DecimalStep(decimal, m)
        BY <1>a, <3>2
      <4>3. QED
        BY <4>1, <4>2, <3>1, Zenon DEF DecimalStep
    <3>5. Digits[r + 1] \in DigitChars /\ DigitValue(Digits[r + 1]) = r
      BY DigitFacts
    <3>6. ParseInt(decimal[m]) = m
      BY <3>1, <3>3, <3>4, <3>5, ParseIntAppend
    <3>7. decimal[m] \in Seq(DigitChars) /\ decimal[m] # <<>>
      BY <3>3, <3>4, <3>5
    <3>8. QED
      BY <3>6, <3>7
  <2>3. QED
    BY <2>1, <2>2
<1>3. \A m \in Nat : m \in T
  <2> HIDE DEF T
  <2>1. QED
    BY <1>1, <1>2, SetInduction
<1>4. QED
  <2>1. n + 1 \in Nat /\ n < n + 1
    BY NamesAssumption
  <2>2. \A k \in 0..MaxPartition : k < n + 1 => P(k)
    BY <1>3, <2>1
  <2>3. QED
    BY <2>1, <2>2

(* A partition, as the requests and the directory names name one. *)
Names == [topic: Seq(Chars) \ {<<>>}, partition: 0..MaxPartition]

(* The name of a partition's directory stands for that partition alone,    *)
(* whatever hyphens and digits its topic holds (partitionKey and           *)
(* partitionDirRe).                                                        *)
THEOREM NameReadsBack ==
    ASSUME NEW tp \in Names
    PROVE  Parsed(partitionKey(tp)) = {tp}
<1> DEFINE t == tp.topic
           d == decimal[tp.partition]
           name == partitionKey(tp)
           k == Len(t) + 1
<1>1. /\ t \in Seq(Chars) /\ t # <<>> /\ tp.partition \in 0..MaxPartition
      /\ tp = TopicPartition(t, tp.partition)
  BY DEF Names, TopicPartition
<1>2. d \in Seq(DigitChars) /\ d # <<>> /\ ParseInt(d) = tp.partition
  BY <1>1, DecimalReads
<1>3. d \in Seq(Chars) /\ "-" \in Chars
  BY <1>2, NamesAssumption
<1>4. Len(t) \in Nat /\ Len(t) > 0 /\ Len(d) \in Nat /\ Len(d) > 0
  BY <1>1, <1>2
<1>5. name = (t \o <<"-">>) \o d
  BY DEF partitionKey
<1> HIDE DEF t, d, name
<1>6. /\ name \in Seq(Chars) /\ Len(name) = k + Len(d)
      /\ \A i \in 1..Len(t) : name[i] = t[i]
      /\ name[k] = "-"
      /\ \A i \in 1..Len(d) : name[k + i] = d[i]
  BY <1>1, <1>3, <1>4, <1>5
<1>7. \A j \in (k + 1)..Len(name) : name[j] \in DigitChars
  <2>1. ASSUME NEW j \in (k + 1)..Len(name) PROVE name[j] \in DigitChars
    <3>1. PICK i \in 1..Len(d) : j = k + i
      <4>1. j - k \in 1..Len(d) /\ j = k + (j - k)
        BY <1>4, <1>6
      <4>2. QED
        BY <4>1
    <3>2. d[i] \in DigitChars
      BY <1>2
    <3>3. QED
      BY <1>6, <3>1, <3>2
  <2>2. QED
    BY <2>1
<1>8. Splits(name) = {k}
  <2>1. k \in Splits(name)
    BY <1>4, <1>6, <1>7 DEF Splits
  <2>2. ASSUME NEW i \in Splits(name) PROVE i = k
    <3>1. i \in 2..(Len(name) - 1) /\ name[i] = "-"
      BY DEF Splits
    <3>2. ~(i > k)
      BY <1>4, <1>6, <1>7, <3>1, DigitFacts
    <3>3. ~(i < k)
      <4>1. SUFFICES ASSUME i < k PROVE FALSE
        OBVIOUS
      <4>2. k \in (i + 1)..Len(name)
        BY <1>4, <1>6, <3>1, <4>1
      <4>3. name[k] \in DigitChars
        BY <4>2 DEF Splits
      <4>4. QED
        BY <4>3, <1>6, DigitFacts
    <3>4. QED
      BY <1>4, <3>1, <3>2, <3>3
  <2>3. QED
    BY <2>1, <2>2
<1>9. SubSeq(name, 1, k - 1) = t
  BY <1>1, <1>4, <1>6
<1>10. SubSeq(name, k + 1, Len(name)) = d
  BY <1>2, <1>4, <1>6
<1>11. ParseInt(SubSeq(name, k + 1, Len(name))) <= MaxPartition
  <2>1. tp.partition <= MaxPartition
    BY <1>1, NamesAssumption
  <2>2. QED
    BY <2>1, <1>2, <1>10, Zenon
<1>12. Parsed(name) = {TopicPartition(t, tp.partition)}
  <2>1. {i \in Splits(name) : ParseInt(SubSeq(name, i + 1, Len(name))) <= MaxPartition} = {k}
    BY <1>8, <1>11
  <2>2. Parsed(name) = {TopicPartition(SubSeq(name, 1, k - 1),
                                       ParseInt(SubSeq(name, k + 1, Len(name))))}
    BY <2>1 DEF Parsed
  <2>3. QED
    BY <2>2, <1>2, <1>9, <1>10, Zenon
<1>13. QED
  BY <1>1, <1>12 DEF name

(***************************************************************************)
(* The configuration file.                                                 *)
(***************************************************************************)

LEMMA FieldsAre ==
    /\ Fields = {"port", "max_segment_size", "worker_pool_size", "shutdown_timeout",
                 "log_retention", "log_directory"}
    /\ DOMAIN IntFields = {"port", "max_segment_size", "worker_pool_size"}
BY DEF Fields, IntFields, DurationFields

LEMMA DefaultsTyped == defaults \in [Fields -> Text] /\ Empty \in Text
<1>1. Empty \in Text
  BY DEF Empty, Text
<1>2. DOMAIN defaults = Fields
  BY FieldsAre DEF defaults
<1>3. \A key \in Fields : defaults[key] \in Text
  BY FieldsAre DEF defaults, Text, Int10, Word, Duration
<1>4. defaults = [key \in Fields |-> defaults[key]]
  BY <1>2 DEF defaults
<1>5. QED
  BY <1>1, <1>3, <1>4

LEMMA ValueTyped ==
    ASSUME NEW l \in ConfigLine
    PROVE  Value(l) \in Text
BY DEF ConfigLine, Value, Stripped, Text

(* The configuration after each of parseYAML's lines. *)
ApplyStep(a, f, i) ==
    IF i = 0 THEN defaults ELSE applyField(a[i - 1], f[i].key, Value(f[i]))
Applies(a, f, n) == a = [i \in 0..n |-> ApplyStep(a, f, i)]

LEMMA AppliesExist ==
    ASSUME NEW f, NEW n \in Nat
    PROVE  \E a : Applies(a, f, n)
<1> DEFINE T == {m \in Nat : \E a : Applies(a, f, m)}
<1>1. 0 \in T
  <2> DEFINE a == [i \in 0..0 |-> defaults]
  <2>1. Applies(a, f, 0)
    BY DEF Applies, ApplyStep
  <2> HIDE DEF a
  <2>2. QED
    BY <2>1
<1>2. ASSUME NEW m \in Nat, m \in T PROVE m + 1 \in T
  <2>1. PICK a : Applies(a, f, m)
    BY <1>2
  <2> DEFINE b == [i \in 0..(m + 1) |-> IF i <= m THEN a[i] ELSE ApplyStep(a, f, m + 1)]
  <2>2. \A i \in 0..m : b[i] = a[i]
    OBVIOUS
  <2>3. \A i \in 0..m : a[i] = ApplyStep(a, f, i)
    BY <2>1 DEF Applies
  <2>4. \A i \in 0..(m + 1) : ApplyStep(a, f, i) = ApplyStep(b, f, i)
    <3>1. ASSUME NEW i \in 0..(m + 1), i # 0 PROVE b[i - 1] = a[i - 1]
      BY <3>1, <2>2
    <3>2. QED
      BY <3>1, Zenon DEF ApplyStep
  <2>5. b = [i \in 0..(m + 1) |-> ApplyStep(b, f, i)]
    <3>1. ASSUME NEW i \in 0..(m + 1) PROVE b[i] = ApplyStep(b, f, i)
      <4>1. CASE i \in 0..m
        BY <4>1, <2>2, <2>3, <2>4
      <4>2. CASE i = m + 1
        BY <4>2, <2>4
      <4>3. QED
        BY <4>1, <4>2
    <3>2. QED
      BY <3>1
  <2>6. Applies(b, f, m + 1)
    BY <2>5, Zenon DEF Applies
  <2> HIDE DEF b
  <2>7. QED
    BY <2>6
<1>3. n \in T
  <2> HIDE DEF T
  <2>1. QED
    BY <1>1, <1>2, SetInduction
<1>4. QED
  BY <1>3

(* What the first i lines of a file make of a field: the value of the last *)
(* line for it, or the default.                                            *)
From(f, i, key, v) ==
    \/ (\A k \in 1..i : f[k].key # key) /\ v = defaults[key]
    \/ \E k \in 1..i : /\ f[k].key = key /\ v = Value(f[k])
                       /\ \A j \in (k + 1)..i : f[j].key # key

LEMMA FromNext ==
    ASSUME NEW f, NEW i \in Nat, NEW c \in [Fields -> Text],
           \A key \in Fields : From(f, i, key, c[key]),
           NEW d, d = applyField(c, f[i + 1].key, Value(f[i + 1])), Value(f[i + 1]) \in Text
    PROVE  d \in [Fields -> Text] /\ \A key \in Fields : From(f, i + 1, key, d[key])
<1>1. d \in [Fields -> Text]
  BY DEF applyField
<1>2. ASSUME NEW key \in Fields PROVE From(f, i + 1, key, d[key])
  <2>1. CASE f[i + 1].key = key
    <3>1. d[key] = Value(f[i + 1])
      BY <2>1 DEF applyField
    <3>2. i + 1 \in 1..(i + 1) /\ ((i + 1) + 1)..(i + 1) = {}
      OBVIOUS
    <3>3. QED
      BY <2>1, <3>1, <3>2, Zenon DEF From
  <2>2. CASE f[i + 1].key # key
    <3>1. d[key] = c[key]
      BY <2>2 DEF applyField
    <3>2. From(f, i, key, c[key])
      OBVIOUS
    <3>3. CASE (\A k \in 1..i : f[k].key # key) /\ c[key] = defaults[key]
      <4>1. \A k \in 1..(i + 1) : k \in 1..i \/ k = i + 1
        OBVIOUS
      <4>2. QED
        BY <2>2, <3>1, <3>3, <4>1, Zenon DEF From
    <3>4. CASE \E k \in 1..i : /\ f[k].key = key /\ c[key] = Value(f[k])
                               /\ \A j \in (k + 1)..i : f[j].key # key
      <4>1. PICK k \in 1..i : /\ f[k].key = key /\ c[key] = Value(f[k])
                              /\ \A j \in (k + 1)..i : f[j].key # key
        BY <3>4
      <4>2. k \in 1..(i + 1) /\ \A j \in (k + 1)..(i + 1) : j \in (k + 1)..i \/ j = i + 1
        OBVIOUS
      <4>3. QED
        BY <2>2, <3>1, <4>1, <4>2, Zenon DEF From
    <3>5. QED
      BY <3>2, <3>3, <3>4, Zenon DEF From
  <2>3. QED
    BY <2>1, <2>2
<1>3. QED
  BY <1>1, <1>2

LEMMA FileConfigFrom ==
    ASSUME NEW f \in Seq(ConfigLine)
    PROVE  /\ FileConfig(f) \in [Fields -> Text]
           /\ \A key \in Fields : From(f, Len(f), key, FileConfig(f)[key])
<1> DEFINE a == CHOOSE g : Applies(g, f, Len(f))
           P(i) == a[i] \in [Fields -> Text] /\ \A key \in Fields : From(f, i, key, a[i][key])
           T == {i \in Nat : i <= Len(f) => P(i)}
<1>a. Len(f) \in Nat
  OBVIOUS
<1>1. Applies(a, f, Len(f))
  BY <1>a, AppliesExist, Zenon
<1>2. FileConfig(f) = a[Len(f)]
  BY Zenon DEF FileConfig, Applies, ApplyStep
<1> HIDE DEF a
<1>3. 0 \in T
  <2>1. a[0] = defaults
    BY <1>a, <1>1 DEF Applies, ApplyStep
  <2>2. 1..0 = {}
    OBVIOUS
  <2>3. \A key \in Fields : From(f, 0, key, defaults[key])
    BY <2>2, Zenon DEF From
  <2>4. QED
    BY <2>1, <2>3, DefaultsTyped
<1>4. ASSUME NEW i \in Nat, i \in T PROVE i + 1 \in T
  <2> SUFFICES ASSUME i + 1 <= Len(f) PROVE P(i + 1)
    OBVIOUS
  <2>1. P(i)
    BY <1>a, <1>4
  <2>2. a[i + 1] = applyField(a[i], f[i + 1].key, Value(f[i + 1]))
    BY <1>a, <1>1 DEF Applies, ApplyStep
  <2>3. Value(f[i + 1]) \in Text
    <3>1. f[i + 1] \in ConfigLine
      BY <1>a
    <3>2. QED
      BY <3>1, ValueTyped
  <2>4. QED
    BY <2>1, <2>2, <2>3, FromNext
<1>5. \A i \in Nat : i \in T
  <2> HIDE DEF T
  <2>1. QED
    BY <1>3, <1>4, SetInduction
<1>6. P(Len(f))
  BY <1>a, <1>5
<1>7. QED
  BY <1>2, <1>6

(***************************************************************************)
(* The sources of the configuration, one over the other.                   *)
(***************************************************************************)

(* The file has been applied, and of the variables all but those to do. *)
Overlaid(f, e, td, c) ==
    /\ f \in Files /\ e \in Envs /\ FileAccepted(f) /\ td \subseteq Set(e)
    /\ \A key \in Fields :
         IF key \in Set(e) \ td THEN c[key] = e[key] /\ Accepted(key, e[key])
         ELSE c[key] = FileConfig(f)[key]

RejectedBy(f, e) ==
    \/ \E i \in 1..Len(f) : ~Accepted(f[i].key, Value(f[i]))
    \/ \E key \in Fields : e[key] # Empty /\ ~Accepted(key, e[key])

(* The inductive invariant of the load. *)
ConfigOK(p, f, e, td, c) ==
    /\ c \in [Fields -> Text] /\ c["log_directory"] \in Roots
    /\ p \in {"env", "validate", "mkdir"} => Overlaid(f, e, td, c)
    /\ p \in {"validate", "mkdir"} => td = {}
    /\ p = "invalid" => RejectedBy(f, e)

LEMMA DefaultRoot == defaults["log_directory"] \in Roots
BY DEF Roots

LEMMA FileRoot ==
    ASSUME NEW f \in Files
    PROVE  /\ FileConfig(f) \in [Fields -> Text]
           /\ FileConfig(f)["log_directory"] \in Roots
<1>1. f \in Seq(ConfigLine)
  BY StartupAssumption
<1>2. FileConfig(f) \in [Fields -> Text]
  BY <1>1, FileConfigFrom
<1>3. From(f, Len(f), "log_directory", FileConfig(f)["log_directory"])
  BY <1>1, FileConfigFrom, FieldsAre
<1>4. CASE FileConfig(f)["log_directory"] = defaults["log_directory"]
  BY <1>2, <1>4, DefaultRoot
<1>5. ASSUME NEW k \in 1..Len(f), f[k].key = "log_directory",
             FileConfig(f)["log_directory"] = Value(f[k])
      PROVE  FileConfig(f)["log_directory"] \in Roots
  BY <1>5 DEF Roots
<1>6. QED
  BY <1>2, <1>3, <1>4, <1>5, Zenon DEF From

LEMMA LoadsFile ==
    ASSUME NEW f \in Files, NEW e \in Envs, FileAccepted(f)
    PROVE  ConfigOK("env", f, e, Set(e), FileConfig(f))
BY FileRoot DEF ConfigOK, Overlaid

LEMMA LoadFileFails ==
    ASSUME NEW f \in Files, NEW e, ~FileAccepted(f)
    PROVE  RejectedBy(f, e)
BY DEF FileAccepted, RejectedBy

LEMMA AppliesVariable ==
    ASSUME NEW f, NEW e, NEW td, NEW c, ConfigOK("env", f, e, td, c), NEW key \in td,
           Accepted(key, e[key])
    PROVE  ConfigOK("env", f, e, td \ {key}, applyField(c, key, e[key]))
<1> DEFINE d == applyField(c, key, e[key])
<1>1. c \in [Fields -> Text] /\ c["log_directory"] \in Roots /\ Overlaid(f, e, td, c)
  BY Zenon DEF ConfigOK
<1>2. key \in Fields /\ e \in Envs /\ e[key] # Empty /\ e[key] \in Text
  BY <1>1, StartupAssumption DEF Overlaid, Set
<1>3. d \in [Fields -> Text] /\ d[key] = e[key]
      /\ \A x \in Fields \ {key} : d[x] = c[x]
  BY <1>1, <1>2 DEF applyField
<1>4. d["log_directory"] \in Roots
  <2>1. CASE key = "log_directory"
    BY <2>1, <1>2, <1>3 DEF Roots
  <2>2. CASE key # "log_directory"
    BY <2>2, <1>1, <1>3, FieldsAre
  <2>3. QED
    BY <2>1, <2>2
<1> HIDE DEF d
<1>5. Overlaid(f, e, td \ {key}, d)
  <2>1. ASSUME NEW x \in Fields
        PROVE  IF x \in Set(e) \ (td \ {key}) THEN d[x] = e[x] /\ Accepted(x, e[x])
               ELSE d[x] = FileConfig(f)[x]
    <3>1. CASE x = key
      <4>1. x \in Set(e) \ (td \ {key})
        BY <3>1, <1>2 DEF Set
      <4>2. QED
        BY <3>1, <4>1, <1>3, Zenon
    <3>2. CASE x # key
      <4>1. x \in Set(e) \ (td \ {key}) <=> x \in Set(e) \ td
        BY <3>2
      <4>2. QED
        BY <3>2, <4>1, <1>1, <1>3, Zenon DEF Overlaid
    <3>3. QED
      BY <3>1, <3>2
  <2>2. td \ {key} \subseteq Set(e)
    BY <1>1 DEF Overlaid
  <2>3. QED
    BY <1>1, <2>1, <2>2, Zenon DEF Overlaid
<1>6. ConfigOK("env", f, e, td \ {key}, d)
  BY <1>3, <1>4, <1>5 DEF ConfigOK
<1>7. QED
  BY <1>6 DEF d

(* Each field holds a value that it accepts, or its default. *)
LEMMA OverlaidAccepted ==
    ASSUME NEW f, NEW e, NEW c, Overlaid(f, e, {}, c), NEW key \in Fields
    PROVE  Accepted(key, c[key]) \/ c[key] = defaults[key]
<1>1. f \in Seq(ConfigLine)
  BY StartupAssumption DEF Overlaid
<1>2. CASE key \in Set(e) \ {}
  BY <1>2 DEF Overlaid
<1>3. CASE key \notin Set(e) \ {}
  <2>1. From(f, Len(f), key, c[key])
    BY <1>1, <1>3, FileConfigFrom, Zenon DEF Overlaid
  <2>2. \A k \in 1..Len(f) : Accepted(f[k].key, Value(f[k]))
    BY DEF Overlaid, FileAccepted
  <2>3. QED
    BY <2>1, <2>2, Zenon DEF From
<1>4. QED
  BY <1>2, <1>3

(* validate finds nothing that applyField has let through. *)
LEMMA OverlaidValid ==
    ASSUME NEW f, NEW e, NEW c \in [Fields -> Text], Overlaid(f, e, {}, c)
    PROVE  validate(c)
<1> DEFINE Fine(key) == Accepted(key, c[key]) \/ c[key] = defaults[key]
<1>1. \A key \in Fields : Fine(key)
  BY OverlaidAccepted
<1>2. c["port"].n \in 1..MaxPort
  <2>1. Fine("port")
    BY <1>1, FieldsAre
  <2>2. QED
    BY <2>1, FieldsAre, ConfigAssumption DEF Accepted, parseInt, IntFields, defaults, Int10
<1>3. c["log_directory"] # Empty
  <2>1. Fine("log_directory")
    BY <1>1, FieldsAre
  <2>2. QED
    BY <2>1 DEF Accepted, defaults, Word, Empty
<1>4. c["max_segment_size"].n >= 1
  <2>1. Fine("max_segment_size")
    BY <1>1, FieldsAre
  <2>2. QED
    BY <2>1, FieldsAre, ConfigAssumption DEF Accepted, parseInt, IntFields, defaults, Int10
<1>5. c["worker_pool_size"].n >= 1
  <2>1. Fine("worker_pool_size")
    BY <1>1, FieldsAre
  <2>2. QED
    BY <2>1, FieldsAre, ConfigAssumption DEF Accepted, parseInt, IntFields, defaults, Int10
<1>6. c["shutdown_timeout"].n >= 0
  <2>1. Fine("shutdown_timeout")
    BY <1>1, FieldsAre
  <2>2. QED
    BY <2>1 DEF Accepted, DurationFields, defaults, Duration
<1>7. QED
  BY <1>2, <1>3, <1>4, <1>5, <1>6 DEF validate

(***************************************************************************)
(* The log directories and the map of open partitions.                     *)
(***************************************************************************)

Entry(tp) == [key |-> partitionKey(tp), dir |-> partitionKey(tp)]

(* A partition that was opened has its directory, and a directory is       *)
(* foreign or that of a partition whose opening was begun.                 *)
DiskOK(d, cr, tr) ==
    /\ cr \in [Roots -> SUBSET AllPartitions] /\ tr \in [Roots -> SUBSET AllPartitions]
    /\ DOMAIN d = Roots /\ d = [r \in Roots |-> d[r]]
    /\ \A r \in Roots :
         /\ cr[r] \subseteq tr[r]
         /\ d[r] \subseteq Foreign \cup {partitionKey(tp) : tp \in tr[r]}
         /\ \A tp \in cr[r] : partitionKey(tp) \in d[r]

(* The stores are those of partitions in the log directory; once it has    *)
(* been scanned, of all that were ever opened there.                       *)
StoresOK(p, td, d, cr, tr, st) ==
    /\ p \in {"load", "env", "validate", "mkdir", "invalid"} => st = {}
    /\ \A s \in st : \E tp \in tr : s = Entry(tp)
    /\ p = "scan" => /\ td \subseteq d
                     /\ \A tp \in cr : Entry(tp) \in st \/ partitionKey(tp) \in td
    /\ p \in {"listen", "hydrate", "serving"} => \A tp \in cr : Entry(tp) \in st

LEMMA NamesAre == AllPartitions \subseteq Names
BY StartupAssumption DEF Names

LEMMA EntryParsed ==
    ASSUME NEW tp \in AllPartitions
    PROVE  Parsed(partitionKey(tp)) = {tp}
BY NamesAre, NameReadsBack

LEMMA EntryInTopics ==
    ASSUME NEW st, NEW tp \in AllPartitions, Entry(tp) \in st
    PROVE  tp \in UNION {Parsed(s.dir) : s \in st}
<1>1. tp \in Parsed(Entry(tp).dir)
  BY EntryParsed DEF Entry
<1>2. QED
  BY <1>1

LEMMA TopicsTried ==
    ASSUME NEW st, NEW tr \in SUBSET AllPartitions, \A s \in st : \E tp \in tr : s = Entry(tp)
    PROVE  UNION {Parsed(s.dir) : s \in st} \subseteq tr
<1>1. ASSUME NEW s \in st PROVE Parsed(s.dir) \subseteq tr
  <2>1. PICK tp \in tr : s = Entry(tp)
    OBVIOUS
  <2>2. s.dir = partitionKey(tp)
    BY <2>1 DEF Entry
  <2>3. QED
    BY <2>2, EntryParsed
<1>2. QED
  BY <1>1

(* A directory name stands for at most the partition it was made from. *)
LEMMA ListedParsed ==
    ASSUME NEW tr \in SUBSET AllPartitions,
           NEW name \in Foreign \cup {partitionKey(tp) : tp \in tr}
    PROVE  \A tp \in Parsed(name) : tp \in tr /\ partitionKey(tp) = name
<1>1. CASE name \in Foreign
  BY <1>1, StartupAssumption
<1>2. ASSUME NEW tp \in tr, name = partitionKey(tp)
      PROVE  \A x \in Parsed(name) : x \in tr /\ partitionKey(x) = name
  BY <1>2, EntryParsed
<1>3. QED
  BY <1>1, <1>2

(* One entry of the scan. *)
EntryScanned(d, cr, tr, r, td, st, name) ==
    LET st2 == st \cup {[key |-> partitionKey(tp), dir |-> name] : tp \in Parsed(name)}
        cr2 == [cr EXCEPT ![r] = @ \cup Parsed(name)]
    IN  /\ DiskOK(d, cr2, tr)
        /\ StoresOK("scan", td \ {name}, d[r], cr2[r], tr[r], st2)

LEMMA ScansEntry ==
    ASSUME NEW d, NEW cr, NEW tr, DiskOK(d, cr, tr), NEW r \in Roots, NEW td, NEW st,
           StoresOK("scan", td, d[r], cr[r], tr[r], st), NEW name \in td
    PROVE  EntryScanned(d, cr, tr, r, td, st, name)
<1> DEFINE st2 == st \cup {[key |-> partitionKey(tp), dir |-> name] : tp \in Parsed(name)}
           cr2 == [cr EXCEPT ![r] = @ \cup Parsed(name)]
<1>1. tr[r] \in SUBSET AllPartitions /\ name \in d[r]
      /\ d[r] \subseteq Foreign \cup {partitionKey(tp) : tp \in tr[r]}
  BY DEF DiskOK, StoresOK
<1>2. \A tp \in Parsed(name) : tp \in tr[r] /\ partitionKey(tp) = name
  BY <1>1, ListedParsed
<1>3. st2 = st \cup {Entry(tp) : tp \in Parsed(name)}
  BY <1>2 DEF Entry
<1>4. /\ cr2[r] = cr[r] \cup Parsed(name) /\ \A q \in Roots \ {r} : cr2[q] = cr[q]
      /\ cr2 \in [Roots -> SUBSET AllPartitions]
  BY <1>1, <1>2 DEF DiskOK
<1> HIDE DEF st2, cr2
<1>5. DiskOK(d, cr2, tr)
  <2>1. ASSUME NEW q \in Roots
        PROVE  cr2[q] \subseteq tr[q] /\ \A tp \in cr2[q] : partitionKey(tp) \in d[q]
    <3>1. CASE q = r
      BY <3>1, <1>1, <1>2, <1>4 DEF DiskOK
    <3>2. CASE q # r
      BY <3>2, <1>4 DEF DiskOK
    <3>3. QED
      BY <3>1, <3>2
  <2>2. QED
    BY <2>1, <1>4 DEF DiskOK
<1>6. \A s \in st2 : \E tp \in tr[r] : s = Entry(tp)
  BY <1>2, <1>3 DEF StoresOK
<1>7. ASSUME NEW tp \in cr2[r] PROVE Entry(tp) \in st2 \/ partitionKey(tp) \in td \ {name}
  <2>1. CASE tp \in Parsed(name)
    BY <2>1, <1>3
  <2>2. CASE tp \in cr[r]
    <3>1. Entry(tp) \in st \/ partitionKey(tp) \in td
      BY <2>2 DEF StoresOK
    <3>2. CASE partitionKey(tp) = name
      <4>1. tp \in AllPartitions
        BY <2>2 DEF DiskOK
      <4>2. tp \in Parsed(name)
        BY <3>2, <4>1, EntryParsed
      <4>3. QED
        BY <4>2, <2>1
    <3>3. QED
      BY <3>1, <3>2, <1>3
  <2>3. QED
    BY <2>1, <2>2, <1>4
<1>8. StoresOK("scan", td \ {name}, d[r], cr2[r], tr[r], st2)
  BY <1>6, <1>7 DEF StoresOK
<1>9. QED
  BY <1>5, <1>8, Zenon DEF st2, cr2, EntryScanned

(* GetOrCreatePartition makes the directory, or fails to. *)
LEMMA MakesDirectory ==
    ASSUME NEW d, NEW cr, NEW tr, DiskOK(d, cr, tr), NEW r \in Roots, NEW tp \in AllPartitions
    PROVE  LET d2 == [d EXCEPT ![r] = @ \cup {partitionKey(tp)}]
               cr2 == [cr EXCEPT ![r] = @ \cup {tp}]
               tr2 == [tr EXCEPT ![r] = @ \cup {tp}]
           IN  DiskOK(d, cr, tr2) /\ DiskOK(d2, cr, tr2) /\ DiskOK(d2, cr2, tr2)
<1> DEFINE d2 == [d EXCEPT ![r] = @ \cup {partitionKey(tp)}]
           cr2 == [cr EXCEPT ![r] = @ \cup {tp}]
           tr2 == [tr EXCEPT ![r] = @ \cup {tp}]
<1>1. /\ cr2[r] = cr[r] \cup {tp} /\ \A q \in Roots \ {r} : cr2[q] = cr[q]
      /\ cr2 \in [Roots -> SUBSET AllPartitions]
  BY DEF DiskOK
<1>2. /\ tr2[r] = tr[r] \cup {tp} /\ \A q \in Roots \ {r} : tr2[q] = tr[q]
      /\ tr2 \in [Roots -> SUBSET AllPartitions]
  BY DEF DiskOK
<1>3. /\ d2[r] = d[r] \cup {partitionKey(tp)} /\ \A q \in Roots \ {r} : d2[q] = d[q]
      /\ DOMAIN d2 = Roots /\ d2 = [q \in Roots |-> d2[q]]
  BY DEF DiskOK
<1> HIDE DEF d2, cr2, tr2
<1>4. ASSUME NEW q \in Roots
      PROVE  /\ cr[q] \subseteq tr2[q] /\ cr2[q] \subseteq tr2[q]
             /\ d[q] \subseteq Foreign \cup {partitionKey(x) : x \in tr2[q]}
             /\ d2[q] \subseteq Foreign \cup {partitionKey(x) : x \in tr2[q]}
             /\ \A x \in cr[q] : partitionKey(x) \in d[q]
             /\ \A x \in cr[q] : partitionKey(x) \in d2[q]
             /\ \A x \in cr2[q] : partitionKey(x) \in d2[q]
  <2>1. CASE q = r
    BY <2>1, <1>1, <1>2, <1>3 DEF DiskOK
  <2>2. CASE q # r
    BY <2>2, <1>1, <1>2, <1>3 DEF DiskOK
  <2>3. QED
    BY <2>1, <2>2
<1>5. DiskOK(d, cr, tr2) /\ DiskOK(d2, cr, tr2) /\ DiskOK(d2, cr2, tr2)
  <2>1. cr \in [Roots -> SUBSET AllPartitions] /\ DOMAIN d = Roots /\ d = [q \in Roots |-> d[q]]
    BY DEF DiskOK
  <2>2. QED
    BY <2>1, <1>1, <1>2, <1>3, <1>4, Zenon DEF DiskOK
<1>6. QED
  BY <1>5 DEF d2, cr2, tr2

(***************************************************************************)
(* A Metadata request, and the inductive invariant.                        *)
(***************************************************************************)

TopicsOf(st) == UNION {Parsed(s.dir) : s \in st}

(* While its topics are created, a request knows no partition that Topics  *)
(* would leave out: the map of open partitions only grows.                 *)
MetaOK(m, st) ==
    /\ m \in [pc: {"none", "create", "answered"},
              topics: SUBSET {tp.topic : tp \in Partitions},
              before: SUBSET AllPartitions, made: SUBSET AllPartitions,
              answer: SUBSET AllPartitions]
    /\ m.pc = "create" => m.before \cup m.made \subseteq TopicsOf(st)
    /\ m.pc = "answered" => m.before \cup m.made \subseteq m.answer

LEMMA TopicsGrow ==
    ASSUME NEW st, NEW st2, st \subseteq st2
    PROVE  TopicsOf(st) \subseteq TopicsOf(st2)
BY DEF TopicsOf

LEMMA MetaGrows ==
    ASSUME NEW m, NEW st, NEW st2, MetaOK(m, st), st \subseteq st2
    PROVE  MetaOK(m, st2)
BY TopicsGrow DEF MetaOK

LEMMA NoMetaOK == \A st : MetaOK(NoMeta, st)
BY DEF MetaOK, NoMeta

ConfigInv == ConfigOK(pc, file, env, todo, cfg)
DiskInv == DiskOK(dirs, created, tried)
StoresInv == StoresOK(pc, todo, dirs[Root], created[Root], tried[Root], stores)
MetaInv == MetaOK(meta, stores)

Simple ==
    /\ pc \in {"load", "env", "validate", "mkdir", "scan", "listen", "hydrate",
               "serving", "exited", "invalid"}
    /\ signalled \in BOOLEAN /\ file \in Files \cup {<<>>} /\ env \in Envs \cup {NoEnv}
    /\ cleaner \in {"off", "tick", "sweep"} /\ left \subseteq AllPartitions
    /\ swept \in AllPartitions \cup {NoSweep}
    /\ requests \in 0..MaxRequests /\ restarts \in 0..MaxRestarts

Inv == Simple /\ ConfigInv /\ DiskInv /\ StoresInv /\ MetaInv

LEMMA RootKnown ==
    ASSUME Inv
    PROVE  /\ Root \in Roots /\ Root = cfg["log_directory"]
           /\ tried[Root] \in SUBSET AllPartitions /\ created[Root] \in SUBSET AllPartitions
BY DEF Inv, ConfigInv, ConfigOK, DiskInv, DiskOK, Root

LEMMA TopicsKnown ==
    ASSUME Inv
    PROVE  Topics = TopicsOf(stores) /\ Topics \subseteq tried[Root]
<1>1. Topics = TopicsOf(stores)
  BY Zenon DEF Topics, TopicsOf
<1>2. \A s \in stores : \E tp \in tried[Root] : s = Entry(tp)
  BY DEF Inv, StoresInv, StoresOK
<1>3. TopicsOf(stores) \subseteq tried[Root]
  BY <1>2, RootKnown, TopicsTried DEF TopicsOf
<1>4. QED
  BY <1>1, <1>3

LEMMA KnownEntry ==
    ASSUME Inv, NEW tp, Known(tp)
    PROVE  Entry(tp) \in stores
<1>1. PICK s \in stores : s.key = partitionKey(tp)
  BY DEF Known
<1>2. PICK x : s = Entry(x)
  BY DEF Inv, StoresInv, StoresOK
<1>3. s = Entry(tp)
  BY <1>1, <1>2 DEF Entry
<1>4. QED
  BY <1>3

(* GetOrCreatePartition, while the broker hydrates its offsets or serves. *)
LEMMA Opens ==
    ASSUME Inv, pc \in {"hydrate", "serving"}, NEW tp \in AllPartitions, NEW ok \in BOOLEAN,
           GetOrCreatePartition(tp, ok), UNCHANGED <<cfg, todo>>,
           pc' \in {"serving", "exited"}
    PROVE  /\ DiskInv' /\ StoresInv' /\ stores \subseteq stores'
           /\ ok => Entry(tp) \in stores'
<1> USE RootKnown
<1>1. Root' = Root
  BY DEF Root
<1>2. /\ \A s \in stores : \E x \in tried[Root] : s = Entry(x)
      /\ \A x \in created[Root] : Entry(x) \in stores
  BY DEF Inv, StoresInv, StoresOK
<1>3. CASE Known(tp)
  <2>1. UNCHANGED <<dirs, created, tried, stores>>
    BY <1>3 DEF GetOrCreatePartition, diskVars
  <2>2. StoresInv'
    BY <1>1, <1>2, <2>1 DEF StoresInv, StoresOK
  <2>3. QED
    BY <1>3, <2>1, <2>2, KnownEntry DEF Inv, DiskInv
<1>4. CASE ~Known(tp)
  <2>1. /\ dirs' \in {dirs, [dirs EXCEPT ![Root] = @ \cup {partitionKey(tp)}]}
        /\ ok => dirs' = [dirs EXCEPT ![Root] = @ \cup {partitionKey(tp)}]
        /\ tried' = [tried EXCEPT ![Root] = @ \cup {tp}]
        /\ IF ok THEN /\ stores' = stores \cup {Entry(tp)}
                      /\ created' = [created EXCEPT ![Root] = @ \cup {tp}]
           ELSE UNCHANGED <<stores, created>>
    BY <1>4, Zenon DEF GetOrCreatePartition, Entry
  <2>2. DiskInv'
    <3>1. DiskOK(dirs, created, tried)
      BY DEF Inv, DiskInv
    <3>a. /\ DiskOK(dirs', created, tried')
          /\ ok => DiskOK(dirs', [created EXCEPT ![Root] = @ \cup {tp}], tried')
      <4>1. LET made == [dirs EXCEPT ![Root] = @ \cup {partitionKey(tp)}]
                begun == [tried EXCEPT ![Root] = @ \cup {tp}]
            IN  /\ DiskOK(dirs, created, begun) /\ DiskOK(made, created, begun)
                /\ DiskOK(made, [created EXCEPT ![Root] = @ \cup {tp}], begun)
        BY <3>1, MakesDirectory, Zenon
      <4>2. QED
        BY <4>1, <2>1, Zenon
    <3>2. CASE ok
      BY <3>2, <3>a, <2>1 DEF DiskInv
    <3>3. CASE ~ok
      BY <3>3, <3>a, <2>1 DEF DiskInv
    <3>4. QED
      BY <3>2, <3>3
  <2>3. tried'[Root] = tried[Root] \cup {tp}
    BY <2>1 DEF Inv, DiskInv, DiskOK
  <2>4. \A s \in stores' : \E x \in tried'[Root] : s = Entry(x)
    BY <1>2, <2>1, <2>3
  <2>5. created'[Root] = IF ok THEN created[Root] \cup {tp} ELSE created[Root]
    BY <2>1 DEF Inv, DiskInv, DiskOK
  <2>6. \A x \in created'[Root] : Entry(x) \in stores'
    BY <1>2, <2>1, <2>5
  <2>7. StoresInv'
    BY <1>1, <2>4, <2>6 DEF StoresInv, StoresOK
  <2>8. QED
    BY <2>1, <2>2, <2>7
<1>5. QED
  BY <1>3, <1>4

LEMMA InitInv == ASSUME Init PROVE Inv
<1> USE DEF Init
<1>1. Simple
  <2>1. requests \in 0..MaxRequests /\ restarts \in 0..MaxRestarts
    BY StartupAssumption
  <2>2. left \subseteq AllPartitions
    OBVIOUS
  <2>3. QED
    BY <2>1, <2>2, Zenon DEF Simple
<1>2. ConfigInv
  BY DefaultsTyped, DefaultRoot DEF ConfigInv, ConfigOK
<1>3. DiskInv
  BY DEF DiskInv, DiskOK
<1>4. created[Root] = {} /\ stores = {}
  BY DefaultRoot DEF Root
<1>5. StoresInv
  BY <1>4 DEF StoresInv, StoresOK
<1>6. MetaInv
  BY NoMetaOK DEF MetaInv
<1>7. QED
  BY <1>1, <1>2, <1>3, <1>5, <1>6 DEF Inv

(***************************************************************************)
(* The steps of main.                                                      *)
(***************************************************************************)

LEMMA LoadFileInv == ASSUME Inv, LoadFile PROVE Inv'
<1>1. PICK f \in Files, e \in Envs :
        /\ MainStep("load", IF FileAccepted(f) THEN "env" ELSE "invalid")
        /\ file' = f /\ env' = e
        /\ cfg' = IF FileAccepted(f) THEN FileConfig(f) ELSE cfg
        /\ todo' = Set(e)
  BY DEF LoadFile
<1>2. UNCHANGED <<diskVars, stores, cleanVars>>
  BY DEF LoadFile
<1>3. stores = {} /\ pc' \in {"env", "invalid"}
  BY <1>1 DEF Inv, StoresInv, StoresOK, MainStep
<1>4. Simple'
  BY <1>1, <1>2, Zenon DEF Inv, Simple, MainStep, cleanVars, metaVars
<1>5. ConfigInv'
  <2>1. CASE FileAccepted(f)
    BY <2>1, <1>1, LoadsFile, Zenon DEF ConfigInv, MainStep
  <2>2. CASE ~FileAccepted(f)
    <3>1. RejectedBy(file', env') /\ cfg' = cfg /\ pc' = "invalid"
      BY <2>2, <1>1, LoadFileFails, Zenon DEF MainStep
    <3>2. QED
      BY <3>1 DEF Inv, ConfigInv, ConfigOK
  <2>3. QED
    BY <2>1, <2>2
<1>6. DiskInv'
  BY <1>2 DEF Inv, DiskInv, diskVars
<1>7. StoresInv'
  BY <1>2, <1>3 DEF StoresInv, StoresOK
<1>8. MetaInv'
  BY <1>1, <1>2 DEF Inv, MetaInv, MainStep, metaVars
<1>9. QED
  BY <1>4, <1>5, <1>6, <1>7, <1>8 DEF Inv

LEMMA ApplyEnvInv == ASSUME Inv, NEW key \in Fields, ApplyEnv(key) PROVE Inv'
<1>1. /\ pc = "env" /\ key \in todo /\ todo' = todo \ {key}
      /\ pc' = IF Accepted(key, env[key]) THEN "env" ELSE "invalid"
      /\ cfg' = IF Accepted(key, env[key]) THEN applyField(cfg, key, env[key]) ELSE cfg
      /\ UNCHANGED <<file, env, dirs, created, tried, stores, cleaner, left, swept, meta,
                     signalled, requests, restarts>>
  BY DEF ApplyEnv, MainStep, diskVars, cleanVars, metaVars
<1>2. stores = {} /\ pc' \in {"env", "invalid"}
  BY <1>1 DEF Inv, StoresInv, StoresOK
<1>3. Simple'
  BY <1>1, <1>2, Zenon DEF Inv, Simple
<1>4. ConfigInv'
  <2>1. ConfigOK("env", file, env, todo, cfg)
    BY <1>1 DEF Inv, ConfigInv
  <2>2. CASE Accepted(key, env[key])
    BY <2>1, <2>2, <1>1, AppliesVariable, Zenon DEF ConfigInv
  <2>3. CASE ~Accepted(key, env[key])
    <3>1. env[key] # Empty
      BY <2>1, <1>1 DEF ConfigOK, Overlaid, Set
    <3>2. RejectedBy(file, env)
      BY <3>1, <2>3, Zenon DEF RejectedBy
    <3>3. QED
      BY <3>2, <2>1, <2>3, <1>1 DEF ConfigInv, ConfigOK
  <2>4. QED
    BY <2>2, <2>3
<1>5. DiskInv'
  BY <1>1 DEF Inv, DiskInv
<1>6. StoresInv'
  BY <1>1, <1>2 DEF StoresInv, StoresOK
<1>7. MetaInv'
  BY <1>1 DEF Inv, MetaInv
<1>8. QED
  BY <1>3, <1>4, <1>5, <1>6, <1>7 DEF Inv

(* The steps that change pc, and no more than the cleaner beside it. *)
LEMMA PcStepInv ==
    ASSUME Inv, pc' \in {"validate", "mkdir", "listen", "hydrate", "exited"},
           \/ pc = "env" /\ pc' = "validate" /\ todo = {}
           \/ pc = "validate" /\ pc' = "mkdir"
           \/ pc = "scan" /\ pc' = "listen" /\ todo = {}
           \/ pc = "listen" /\ pc' = "hydrate"
           \/ pc' = "exited",
           cleaner' \in {"off", "tick", "sweep"},
           UNCHANGED <<file, env, cfg, todo, dirs, created, tried, stores, left, swept, meta,
                       signalled, requests, restarts>>
    PROVE  Inv'
<1>1. Root' = Root
  BY DEF Root
<1>2. Simple'
  BY Zenon DEF Inv, Simple
<1>3. ConfigInv'
  BY DEF Inv, ConfigInv, ConfigOK
<1>4. DiskInv'
  BY DEF Inv, DiskInv
<1>5. StoresInv'
  BY <1>1 DEF Inv, StoresInv, StoresOK
<1>6. MetaInv'
  BY DEF Inv, MetaInv
<1>7. QED
  BY <1>2, <1>3, <1>4, <1>5, <1>6 DEF Inv

LEMMA EnvAppliedInv == ASSUME Inv, EnvApplied PROVE Inv'
<1>1. cleaner \in {"off", "tick", "sweep"}
  BY DEF Inv, Simple
<1>2. QED
  BY <1>1, PcStepInv DEF EnvApplied, MainStep, configVars, diskVars, cleanVars, metaVars

LEMMA ValidateInv == ASSUME Inv, Validate PROVE Inv'
<1>1. cleaner \in {"off", "tick", "sweep"}
  BY DEF Inv, Simple
<1>2. pc = "validate" /\ validate(cfg)
  <2>1. pc = "validate"
    BY DEF Validate, MainStep
  <2>2. cfg \in [Fields -> Text] /\ Overlaid(file, env, {}, cfg)
    BY <2>1 DEF Inv, ConfigInv, ConfigOK
  <2>3. QED
    BY <2>1, <2>2, OverlaidValid
<1>3. pc' = "mkdir"
  BY <1>2 DEF Validate, MainStep
<1>4. QED
  BY <1>1, <1>2, <1>3, PcStepInv DEF Validate, MainStep, configVars, diskVars, cleanVars, metaVars

LEMMA MakeRootInv == ASSUME Inv, MakeRoot PROVE Inv'
<1>1. /\ pc = "mkdir" /\ pc' = "scan" /\ file' = <<>> /\ env' = NoEnv /\ todo' = dirs[Root]
      /\ UNCHANGED <<cfg, dirs, created, tried, stores, cleaner, left, swept, meta,
                     signalled, requests, restarts>>
  BY DEF MakeRoot, MainStep, diskVars, cleanVars, metaVars
<1>2. stores = {}
  BY <1>1 DEF Inv, StoresInv, StoresOK
<1>3. Root' = Root /\ Root \in Roots
  BY <1>1, RootKnown DEF Root
<1>4. Simple'
  BY <1>1, Zenon DEF Inv, Simple
<1>5. ConfigInv'
  BY <1>1 DEF Inv, ConfigInv, ConfigOK
<1>6. DiskInv'
  BY <1>1 DEF Inv, DiskInv
<1>7. \A tp \in created[Root] : partitionKey(tp) \in dirs[Root]
  BY <1>3 DEF Inv, DiskInv, DiskOK
<1>8. StoresInv'
  BY <1>1, <1>2, <1>3, <1>7 DEF StoresInv, StoresOK
<1>9. MetaInv'
  BY <1>1 DEF Inv, MetaInv
<1>10. QED
  BY <1>4, <1>5, <1>6, <1>8, <1>9 DEF Inv

LEMMA ScanInv == ASSUME Inv, NEW name \in todo, Scan(name) PROVE Inv'
<1> DEFINE new == {[key |-> partitionKey(tp), dir |-> name] : tp \in Parsed(name)}
<1>1. /\ pc = "scan" /\ pc' = "scan" /\ todo' = todo \ {name} /\ stores' = stores \cup new
      /\ created' = [created EXCEPT ![Root] = @ \cup Parsed(name)]
      /\ UNCHANGED <<file, env, cfg, dirs, tried, cleaner, left, swept, meta, signalled,
                     requests, restarts>>
  BY DEF Scan, MainStep, configVars, cleanVars, metaVars
<1>2. Root' = Root /\ Root \in Roots
  BY <1>1, RootKnown DEF Root
<1>3. Simple'
  BY <1>1, Zenon DEF Inv, Simple
<1>4. ConfigInv'
  BY <1>1 DEF Inv, ConfigInv, ConfigOK
<1>5. DiskOK(dirs, created, tried)
      /\ StoresOK("scan", todo, dirs[Root], created[Root], tried[Root], stores)
  BY <1>1 DEF Inv, DiskInv, StoresInv
<1>6. DiskOK(dirs, created', tried)
      /\ StoresOK("scan", todo', dirs[Root], created'[Root], tried[Root], stores')
  <2> DEFINE cr2 == [created EXCEPT ![Root] = @ \cup Parsed(name)]
  <2>a. EntryScanned(dirs, created, tried, Root, todo, stores, name)
    BY <1>2, <1>5, ScansEntry
  <2>1. /\ DiskOK(dirs, cr2, tried)
        /\ StoresOK("scan", todo \ {name}, dirs[Root], cr2[Root], tried[Root], stores \cup new)
    BY <2>a, Zenon DEF EntryScanned
  <2>2. created' = cr2
    BY <1>1
  <2> HIDE DEF cr2, new
  <2>3. QED
    BY <1>1, <2>1, <2>2, Zenon
<1>7. DiskInv'
  BY <1>1, <1>6 DEF DiskInv
<1>8. StoresInv'
  BY <1>1, <1>2, <1>6, Zenon DEF StoresInv
<1>9. MetaInv'
  <2>1. stores \subseteq stores' /\ meta' = meta
    BY <1>1
  <2>2. QED
    BY <2>1, MetaGrows DEF Inv, MetaInv
<1>10. QED
  BY <1>3, <1>4, <1>7, <1>8, <1>9 DEF Inv

LEMMA ScannedInv == ASSUME Inv, Scanned PROVE Inv'
<1>1. cleaner' \in {"off", "tick", "sweep"}
  BY DEF Scanned
<1>2. QED
  BY <1>1, PcStepInv DEF Scanned, MainStep, configVars, diskVars, metaVars

LEMMA ListenInv == ASSUME Inv, Listen PROVE Inv'
<1>1. cleaner \in {"off", "tick", "sweep"}
  BY DEF Inv, Simple
<1>2. QED
  BY <1>1, PcStepInv DEF Listen, MainStep, configVars, diskVars, cleanVars, metaVars

LEMMA FailsInv == ASSUME Inv, NEW from, Fails(from) PROVE Inv'
BY PcStepInv DEF Fails, MainStep, configVars, diskVars, metaVars

LEMMA StopInv == ASSUME Inv, Stop PROVE Inv'
BY PcStepInv DEF Stop, MainStep, configVars, diskVars, metaVars

LEMMA HydrateInv == ASSUME Inv, Hydrate PROVE Inv'
<1>1. PICK ok \in BOOLEAN :
        /\ MainStep("hydrate", IF ok THEN "serving" ELSE "exited")
        /\ GetOrCreatePartition(Offsets0, ok)
        /\ cleaner' = IF ok THEN cleaner ELSE "off"
        /\ UNCHANGED <<configVars, todo, left, swept>>
  BY DEF Hydrate
<1>2. /\ pc = "hydrate" /\ pc' \in {"serving", "exited"}
      /\ UNCHANGED <<file, env, cfg, todo, left, swept, meta, signalled, requests, restarts>>
  BY <1>1 DEF MainStep, configVars, metaVars
<1>3. Offsets0 \in AllPartitions
  BY DEF AllPartitions
<1>4. DiskInv' /\ StoresInv' /\ stores \subseteq stores'
  BY <1>1, <1>2, <1>3, Opens
<1>5. Simple'
  <2>1. cleaner' \in {"off", "tick", "sweep"}
    BY <1>1 DEF Inv, Simple
  <2>2. QED
    BY <2>1, <1>2, Zenon DEF Inv, Simple
<1>6. ConfigInv'
  BY <1>2 DEF Inv, ConfigInv, ConfigOK
<1>7. MetaInv'
  BY <1>2, <1>4, MetaGrows DEF Inv, MetaInv
<1>8. QED
  BY <1>4, <1>5, <1>6, <1>7 DEF Inv

LEMMA MainInv == ASSUME Inv, Main PROVE Inv'
<1>1. CASE LoadFile BY <1>1, LoadFileInv
<1>2. CASE \E key \in Fields : ApplyEnv(key) BY <1>2, ApplyEnvInv
<1>3. CASE EnvApplied BY <1>3, EnvAppliedInv
<1>4. CASE Validate BY <1>4, ValidateInv
<1>5. CASE MakeRoot BY <1>5, MakeRootInv
<1>6. CASE \E name \in todo : Scan(name) BY <1>6, ScanInv
<1>7. CASE Scanned BY <1>7, ScannedInv
<1>8. CASE Listen BY <1>8, ListenInv
<1>9. CASE Hydrate BY <1>9, HydrateInv
<1>10. CASE StepFails BY <1>10, FailsInv DEF StepFails
<1>11. CASE Stop BY <1>11, StopInv
<1>12. QED
  BY <1>1, <1>2, <1>3, <1>4, <1>5, <1>6, <1>7, <1>8, <1>9, <1>10, <1>11 DEF Main

(***************************************************************************)
(* The steps beside main.                                                  *)
(***************************************************************************)

(* The steps that leave alone what main, the disk and the map hold. *)
LEMMA SideStepInv ==
    ASSUME Inv, UNCHANGED <<pc, file, env, cfg, todo, dirs, created, tried, stores>>,
           Simple', MetaInv'
    PROVE  Inv'
<1>1. Root' = Root
  BY DEF Root
<1>2. ConfigInv' /\ DiskInv' /\ StoresInv'
  BY <1>1 DEF Inv, ConfigInv, DiskInv, StoresInv
<1>3. QED
  BY <1>2 DEF Inv

LEMMA SignalInv == ASSUME Inv, Signal PROVE Inv'
<1>1. /\ signalled' = TRUE
      /\ UNCHANGED <<pc, file, env, cfg, todo, dirs, created, tried, stores, cleaner, left,
                     swept, meta, requests, restarts>>
  BY DEF Signal, configVars, diskVars, cleanVars, metaVars
<1>2. Simple'
  BY <1>1, Zenon DEF Inv, Simple
<1>3. MetaInv'
  BY <1>1 DEF Inv, MetaInv
<1>4. QED
  BY <1>1, <1>2, <1>3, SideStepInv

LEMMA RestartInv == ASSUME Inv, Restart PROVE Inv'
<1>1. /\ pc' = "load" /\ signalled' = FALSE /\ file' = <<>> /\ env' = NoEnv
      /\ cfg' = defaults /\ todo' = {} /\ stores' = {}
      /\ cleaner' = "off" /\ left' = {} /\ swept' = NoSweep /\ meta' = NoMeta
      /\ UNCHANGED <<dirs, created, tried, requests>>
  BY DEF Restart, diskVars
<1>2. Simple'
  <2>1. restarts' \in 0..MaxRestarts
    BY StartupAssumption DEF Restart, Inv, Simple
  <2>2. left' \subseteq AllPartitions
    BY <1>1
  <2>3. QED
    BY <2>1, <2>2, <1>1, Zenon DEF Inv, Simple
<1>3. ConfigInv'
  BY <1>1, DefaultsTyped, DefaultRoot DEF ConfigInv, ConfigOK
<1>4. DiskInv'
  BY <1>1 DEF Inv, DiskInv
<1>5. StoresInv'
  BY <1>1 DEF StoresInv, StoresOK
<1>6. MetaInv'
  BY <1>1, NoMetaOK DEF MetaInv
<1>7. QED
  BY <1>2, <1>3, <1>4, <1>5, <1>6 DEF Inv

LEMMA RequestInv == ASSUME Inv, NEW tp \in Partitions, Request(tp) PROVE Inv'
<1>1. PICK ok \in BOOLEAN : GetOrCreatePartition(tp, ok)
  BY DEF Request
<1>2. /\ pc = "serving"
      /\ UNCHANGED <<pc, file, env, cfg, todo, cleaner, left, swept, meta, signalled,
                     requests, restarts>>
  BY DEF Request, configVars, cleanVars, metaVars
<1>3. tp \in AllPartitions
  BY DEF AllPartitions
<1>4. DiskInv' /\ StoresInv' /\ stores \subseteq stores'
  BY <1>1, <1>2, <1>3, Opens
<1>5. Simple'
  BY <1>2, Zenon DEF Inv, Simple
<1>6. ConfigInv'
  BY <1>2 DEF Inv, ConfigInv, ConfigOK
<1>7. MetaInv'
  BY <1>2, <1>4, MetaGrows DEF Inv, MetaInv
<1>8. QED
  BY <1>4, <1>5, <1>6, <1>7 DEF Inv

LEMMA MetadataAskInv == ASSUME Inv, MetadataAsk PROVE Inv'
<1>1. PICK T \in SUBSET {tp.topic : tp \in Partitions} :
        meta' = [NoMeta EXCEPT !.pc = "create", !.topics = T, !.before = Topics]
  BY DEF MetadataAsk
<1>2. /\ requests' = requests + 1 /\ requests < MaxRequests
      /\ UNCHANGED <<pc, file, env, cfg, todo, dirs, created, tried, stores, cleaner, left,
                     swept, signalled, restarts>>
  BY DEF MetadataAsk, configVars, diskVars, cleanVars
<1>3. Simple'
  <2>1. requests' \in 0..MaxRequests
    BY <1>2, StartupAssumption DEF Inv, Simple
  <2>2. QED
    BY <2>1, <1>2, Zenon DEF Inv, Simple
<1>4. MetaInv'
  <2>1. Topics = TopicsOf(stores) /\ Topics \in SUBSET AllPartitions
    BY TopicsKnown, RootKnown
  <2>2. meta' = [pc |-> "create", topics |-> T, before |-> Topics, made |-> {}, answer |-> {}]
    BY <1>1 DEF NoMeta
  <2>3. MetaOK(meta', stores)
    BY <2>1, <2>2 DEF MetaOK
  <2>4. QED
    BY <1>2, <2>3 DEF MetaInv
<1>5. QED
  BY <1>2, <1>3, <1>4, SideStepInv

LEMMA MetadataCreateInv ==
    ASSUME Inv, NEW tp \in Partitions, MetadataCreate(tp.topic)
    PROVE  Inv'
<1> DEFINE t == tp.topic
           first == TopicPartition(t, 0)
<1>1. PICK ok \in BOOLEAN :
        /\ GetOrCreatePartition(first, ok)
        /\ meta' = [meta EXCEPT !.topics = @ \ {t},
                       !.made = IF ok THEN @ \cup {first} ELSE @]
  BY DEF MetadataCreate
<1>2. /\ pc = "serving" /\ meta.pc = "create"
      /\ UNCHANGED <<pc, file, env, cfg, todo, cleaner, left, swept, signalled, requests,
                     restarts>>
  BY DEF MetadataCreate, configVars, cleanVars
<1>3. first \in AllPartitions
  BY StartupAssumption DEF AllPartitions
<1> HIDE DEF first, t
<1>4. DiskInv' /\ StoresInv' /\ stores \subseteq stores' /\ (ok => Entry(first) \in stores')
  BY <1>1, <1>2, <1>3, Opens
<1>5. Simple'
  BY <1>2, Zenon DEF Inv, Simple
<1>6. ConfigInv'
  BY <1>2 DEF Inv, ConfigInv, ConfigOK
<1>7. MetaInv'
  <2>1. MetaOK(meta, stores')
    BY <1>4, MetaGrows DEF Inv, MetaInv
  <2>2. ok => first \in TopicsOf(stores')
    BY <1>3, <1>4, EntryInTopics DEF TopicsOf
  <2>3. /\ meta'.pc = "create" /\ meta'.before = meta.before /\ meta'.answer = meta.answer
        /\ meta'.topics = meta.topics \ {t}
        /\ meta'.made = IF ok THEN meta.made \cup {first} ELSE meta.made
    BY <2>1, <1>1, <1>2 DEF MetaOK
  <2>4. meta' \in [pc: {"none", "create", "answered"},
                   topics: SUBSET {x.topic : x \in Partitions},
                   before: SUBSET AllPartitions, made: SUBSET AllPartitions,
                   answer: SUBSET AllPartitions]
    BY <2>1, <1>1, <1>3 DEF MetaOK
  <2>5. meta'.before \cup meta'.made \subseteq TopicsOf(stores')
    BY <2>1, <2>2, <2>3, <1>2 DEF MetaOK
  <2>6. QED
    BY <2>3, <2>4, <2>5 DEF MetaInv, MetaOK
<1>8. QED
  BY <1>4, <1>5, <1>6, <1>7 DEF Inv

LEMMA MetadataAnswerInv == ASSUME Inv, MetadataAnswer PROVE Inv'
<1>1. /\ meta.pc = "create" /\ meta' = [meta EXCEPT !.pc = "answered", !.answer = Topics]
      /\ UNCHANGED <<pc, file, env, cfg, todo, dirs, created, tried, stores, cleaner, left,
                     swept, signalled, requests, restarts>>
  BY DEF MetadataAnswer, configVars, diskVars, cleanVars
<1>2. Simple'
  BY <1>1, Zenon DEF Inv, Simple
<1>3. MetaInv'
  <2>1. Topics = TopicsOf(stores) /\ Topics \in SUBSET AllPartitions
    BY TopicsKnown, RootKnown
  <2>2. MetaOK(meta, stores)
    BY DEF Inv, MetaInv
  <2>3. MetaOK(meta', stores)
    BY <1>1, <2>1, <2>2 DEF MetaOK
  <2>4. QED
    BY <1>1, <2>3 DEF MetaInv
<1>4. QED
  BY <1>1, <1>2, <1>3, SideStepInv

LEMMA CleanerInv == ASSUME Inv, runLogCleaner PROVE Inv'
<1>1. UNCHANGED <<pc, file, env, cfg, todo, dirs, created, tried, stores, meta, signalled,
                  requests, restarts>>
  BY DEF runLogCleaner, CleanerTick, Clean, CleanerRound, CleanerStops, configVars, diskVars,
         metaVars
<1>2. /\ cleaner' \in {"off", "tick", "sweep"} /\ left' \subseteq AllPartitions
      /\ swept' \in AllPartitions \cup {NoSweep}
  <2>1. CASE CleanerTick
    BY <2>1, TopicsKnown, RootKnown DEF CleanerTick, Inv, Simple
  <2>2. CASE \E tp \in AllPartitions : Clean(tp)
    BY <2>2 DEF Clean, Inv, Simple
  <2>3. CASE CleanerRound
    BY <2>3 DEF CleanerRound, Inv, Simple
  <2>4. CASE CleanerStops
    BY <2>4 DEF CleanerStops, Inv, Simple
  <2>5. QED
    BY <2>1, <2>2, <2>3, <2>4 DEF runLogCleaner
<1>3. Simple'
  BY <1>1, <1>2, Zenon DEF Inv, Simple
<1>4. MetaInv'
  BY <1>1 DEF Inv, MetaInv
<1>5. QED
  BY <1>1, <1>3, <1>4, SideStepInv

LEMMA NextInv == ASSUME Inv, [Next]_vars PROVE Inv'
<1>1. CASE Main BY <1>1, MainInv
<1>2. CASE Signal BY <1>2, SignalInv
<1>3. CASE Restart BY <1>3, RestartInv
<1>4. CASE \E tp \in Partitions : Request(tp) BY <1>4, RequestInv
<1>5. CASE \E tp \in Partitions : MetadataCreate(tp.topic) BY <1>5, MetadataCreateInv
<1>6. CASE MetadataAsk BY <1>6, MetadataAskInv
<1>7. CASE MetadataAnswer BY <1>7, MetadataAnswerInv
<1>8. CASE runLogCleaner BY <1>8, CleanerInv
<1>9. CASE UNCHANGED vars
  <2>1. UNCHANGED <<pc, signalled, file, env, cfg, todo, dirs, created, tried, stores, cleaner,
                    left, swept, meta, requests, restarts>>
    BY <1>9 DEF vars, configVars, diskVars, cleanVars, metaVars
  <2>2. Simple'
    BY <2>1, Zenon DEF Inv, Simple
  <2>3. MetaInv'
    BY <2>1 DEF Inv, MetaInv
  <2>4. QED
    BY <2>1, <2>2, <2>3, SideStepInv
<1>10. QED
  BY <1>1, <1>2, <1>3, <1>4, <1>5, <1>6, <1>7, <1>8, <1>9 DEF Next

(***************************************************************************)
(* What follows.                                                           *)
(***************************************************************************)

LEMMA InvType == ASSUME Inv PROVE TypeOK
<1>1. ASSUME NEW s \in stores, NEW t \in stores, s.key = t.key PROVE s = t
  <2>1. PICK x, y : s = Entry(x) /\ t = Entry(y)
    BY DEF Inv, StoresInv, StoresOK
  <2>2. QED
    BY <1>1, <2>1 DEF Entry
<1>2. \A r \in Roots :
        /\ created[r] \subseteq tried[r] /\ tried[r] \subseteq AllPartitions
        /\ dirs[r] \subseteq Foreign \cup {partitionKey(tp) : tp \in tried[r]}
  BY DEF Inv, DiskInv, DiskOK
<1>3. cfg \in [Fields -> Text]
  BY DEF Inv, ConfigInv, ConfigOK
<1>4. meta.pc \in {"none", "create", "answered"}
  BY DEF Inv, MetaInv, MetaOK
<1>5. QED
  BY <1>1, <1>2, <1>3, <1>4, Zenon DEF TypeOK, Inv, Simple

LEMMA InvConfig == ASSUME Inv PROVE ConfigResolved
<1>1. Rejected = RejectedBy(file, env)
  BY DEF Rejected, RejectedBy
<1>2. CASE pc = "mkdir"
  <2>1. Overlaid(file, env, {}, cfg) /\ file \in Seq(ConfigLine)
    <3>1. Overlaid(file, env, {}, cfg)
      BY <1>2 DEF Inv, ConfigInv, ConfigOK
    <3>2. QED
      BY <3>1, StartupAssumption DEF Overlaid
  <2>2. ~Rejected
    <3>1. \A i \in 1..Len(file) : Accepted(file[i].key, Value(file[i]))
      BY <2>1 DEF Overlaid, FileAccepted
    <3>2. \A key \in Fields : env[key] # Empty => Accepted(key, env[key])
      BY <2>1 DEF Overlaid, Set
    <3>3. QED
      BY <3>1, <3>2, Zenon DEF Rejected
  <2>3. ASSUME NEW key \in Fields PROVE cfg[key] = Resolved(key)
    <3>1. CASE env[key] # Empty
      BY <3>1, <2>1 DEF Overlaid, Set, Resolved
    <3>2. CASE env[key] = Empty
      <4>1. From(file, Len(file), key, cfg[key])
        <5>1. cfg[key] = FileConfig(file)[key]
          BY <3>2, <2>1 DEF Overlaid, Set
        <5>2. QED
          BY <5>1, <2>1, FileConfigFrom
      <4>2. CASE (\A k \in 1..Len(file) : file[k].key # key) /\ cfg[key] = defaults[key]
        <5>1. Last(key) = {}
          BY <4>2 DEF Last
        <5>2. QED
          BY <3>2, <4>2, <5>1, Zenon DEF Resolved
      <4>3. ASSUME NEW k \in 1..Len(file), file[k].key = key, cfg[key] = Value(file[k]),
                   \A j \in (k + 1)..Len(file) : file[j].key # key
            PROVE  cfg[key] = Resolved(key)
        <5>1. k \in Last(key)
          BY <4>3 DEF Last
        <5>2. ASSUME NEW i \in Last(key) PROVE i = k
          <6>1. /\ i \in 1..Len(file) /\ file[i].key = key
                /\ \A j \in (i + 1)..Len(file) : file[j].key # key
            BY DEF Last
          <6>2. ~(i < k) /\ ~(k < i)
            BY <6>1, <4>3, <2>1
          <6>3. QED
            BY <6>1, <6>2, <2>1
        <5>3. (CHOOSE i \in Last(key) : TRUE) = k
          BY <5>1, <5>2
        <5>4. QED
          BY <3>2, <4>3, <5>1, <5>3, Zenon DEF Resolved
      <4>4. QED
        BY <4>1, <4>2, <4>3, Zenon DEF From
    <3>3. QED
      BY <3>1, <3>2
  <2>4. QED
    BY <1>2, <2>2, <2>3 DEF ConfigResolved
<1>3. CASE pc # "mkdir"
  <2>1. pc = "invalid" => RejectedBy(file, env)
    BY DEF Inv, ConfigInv, ConfigOK
  <2>2. QED
    BY <1>1, <1>3, <2>1, Zenon DEF ConfigResolved
<1>4. QED
  BY <1>2, <1>3

LEMMA InvTopics == ASSUME Inv PROVE TopicsExact
<1>1. SUFFICES ASSUME pc = "serving"
               PROVE  created[Root] \subseteq Topics /\ Topics \subseteq tried[Root]
  BY DEF TopicsExact
<1>2. ASSUME NEW tp \in created[Root] PROVE tp \in Topics
  <2>1. Entry(tp) \in stores
    BY <1>1 DEF Inv, StoresInv, StoresOK
  <2>2. QED
    BY <2>1, RootKnown, EntryInTopics DEF Topics
<1>3. QED
  BY <1>2, TopicsKnown

LEMMA StartupInvariant == Spec => []Inv
<1>1. Init => Inv
  BY InitInv
<1>2. Inv /\ [Next]_vars => Inv'
  BY NextInv
<1>3. QED
  BY <1>1, <1>2, PTL DEF Spec

(* The state keeps its types; the map of open partitions has one directory *)
(* for each key, and every directory in a log directory is foreign or that *)
(* of a partition whose opening was begun (BrokerStore).                   *)
THEOREM TypeCorrect == Spec => []TypeOK
<1>1. Inv => TypeOK
  BY InvType
<1>2. QED
  BY <1>1, StartupInvariant, PTL

(* For any file and any variables, applied in any order, a configuration   *)
(* that main goes on with has in each field the value of its variable,     *)
(* else of the last line for it, else its default, and one that is refused *)
(* holds a value its field does not accept: validate refuses none that     *)
(* applyField has let through (config.Load).                               *)
THEOREM ConfigIsResolved == Spec => []ConfigResolved
<1>1. Inv => ConfigResolved
  BY InvConfig
<1>2. QED
  BY <1>1, StartupInvariant, PTL

(* Whatever topics clients name and whatever else lies in its directory, a *)
(* serving broker's Topics are the partitions ever opened there, beyond    *)
(* which are only ones whose opening had begun (OpenBrokerStore, Topics).  *)
THEOREM TopicsAreExact == Spec => []TopicsExact
<1>1. Inv => TopicsExact
  BY InvTopics
<1>2. QED
  BY <1>1, StartupInvariant, PTL

(* A Metadata response leaves out no partition that was there when the     *)
(* request came or that the request has made, however many other requests  *)
(* run between its steps (handleMetadata).                                 *)
THEOREM MetadataIsComplete == Spec => []MetadataComplete
<1>1. Inv => MetadataComplete
  BY DEF Inv, MetaInv, MetaOK, MetadataComplete
<1>2. QED
  BY <1>1, StartupInvariant, PTL
=============================================================================
