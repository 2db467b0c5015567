---------------------------- MODULE MCFetchPath -----------------------------
(* FetchPath with the records that producers append. *)
EXTENDS FetchPath

OneBatch == {<<4>>, <<5>>}
AnyBatch == {<<>>, <<4>>, <<7>>, <<9>>}
TwoBatches == {<<4, 4>>}
=============================================================================
