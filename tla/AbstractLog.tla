---------------------------- MODULE AbstractLog -----------------------------
(***************************************************************************)
(* What a segment promises its callers, without files, buffers or offsets: *)
(* an append-only log of numbered records.  A failure may take records     *)
(* away, but only the newest ones, and none that a Flush has reported      *)
(* durable.                                                                *)
(***************************************************************************)
EXTENDS Naturals

CONSTANT Ids  \* the numbers of the records, in append order

VARIABLES
    present,  \* the records that can still be read
    acked,    \* the ones among them whose Append returned nil
    durable   \* records a successful Flush has reported durable

vars == <<present, acked, durable>>

Init == present = {} /\ acked = {} /\ durable = {}

(* A record is added after all the others; an Append that returns an error *)
(* may still have added it.                                                *)
AppendNew ==
    \E i \in Ids :
        /\ \A j \in present : j < i
        /\ present' = present \cup {i}
        /\ acked' = acked \/ acked' = acked \cup {i}
        /\ UNCHANGED durable

Sync == durable' = present /\ UNCHANGED <<present, acked>>

(* The newest records are lost, none of the durable ones among them. *)
LoseTail ==
    \E kept \in SUBSET present :
        /\ durable \subseteq kept
        /\ \A i \in kept, j \in present \ kept : i < j
        /\ present' = kept
        /\ acked' = acked \cap kept
        /\ UNCHANGED durable

Next == AppendNew \/ Sync \/ LoseTail

Spec == Init /\ [][Next]_vars
=============================================================================
