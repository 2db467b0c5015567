--------------------------- MODULE PartitionNames ---------------------------
(***************************************************************************)
(* The names of partition directories (internal/storage/broker_store.go):  *)
(* "<topic>-<partition>", and how a name is taken apart again.  A name is  *)
(* a sequence of characters.                                               *)
(***************************************************************************)
EXTENDS Integers, Sequences

CONSTANTS
    Chars,          \* the characters of names
    MaxPartition    \* the largest int32

Digits == <<"0", "1", "2", "3", "4", "5", "6", "7", "8", "9">>
DigitChars == {Digits[i] : i \in 1..10}
DigitValue(c) == CHOOSE d \in 0..9 : Digits[d + 1] = c

ASSUME NamesAssumption == DigitChars \cup {"-"} \subseteq Chars /\ MaxPartition \in Nat

(* fmt's %d and strconv's ParseInt, for what is not negative. *)
decimal[n \in 0..MaxPartition] ==
    IF n < 10 THEN <<Digits[n + 1]>>
    ELSE decimal[n \div 10] \o <<Digits[(n % 10) + 1]>>

ParseInt(s) ==
    LET value[i \in 0..Len(s)] ==
            IF i = 0 THEN 0 ELSE 10 * value[i - 1] + DigitValue(s[i])
    IN  value[Len(s)]

TopicPartition(t, p) == [topic |-> t, partition |-> p]

partitionKey(tp) == tp.topic \o <<"-">> \o decimal[tp.partition]

(* Mutant: ^([^-]+)-(\d+)$. *)
SplitsNoHyphen(name) ==
    {i \in 2..(Len(name) - 1) :
        /\ name[i] = "-" /\ \A j \in 1..(i - 1) : name[j] # "-"
        /\ \A j \in (i + 1)..Len(name) : name[j] \in DigitChars}

(* The places where partitionDirRe, ^(.+)-(\d+)$, can split a name: at     *)
(* most one, for the digits hold no hyphen.                                *)
Splits(name) ==
    {i \in 2..(Len(name) - 1) :
        name[i] = "-" /\ \A j \in (i + 1)..Len(name) : name[j] \in DigitChars}

(* The partitions that a name stands for: none when the expression does    *)
(* not match or the number is not an int32.                                *)
Parsed(name) ==
    {TopicPartition(SubSeq(name, 1, i - 1), ParseInt(SubSeq(name, i + 1, Len(name)))) :
        i \in {k \in Splits(name) :
                 ParseInt(SubSeq(name, k + 1, Len(name))) <= MaxPartition}}
=============================================================================
