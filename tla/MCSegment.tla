----------------------------- MODULE MCSegment ------------------------------
(* Segment on a small instance: a buffer smaller than the largest record,  *)
(* so that records straddle write(2) calls, and an index buffer that is    *)
(* not a multiple of the entry size, as 64 KiB and 12 are.                 *)
EXTENDS Segment

MCWindows == {<<0, 3>>, <<3, 5>>}
AllWindows == (0..MaxSize) \X (0..MaxSize)
MCJunk == {[off |-> 2 * MaxSize, pos |-> 1]}
=============================================================================
