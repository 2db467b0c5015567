------------------------ MODULE MCOffsetCoordinator -------------------------
(* OffsetCoordinator for two goroutines. *)
EXTENDS OffsetCoordinator, TLC

CONSTANTS w1, w2, k1, k2

OwnKeys == w1 :> {k1} @@ w2 :> {k2}
SharedKey == w1 :> {k1} @@ w2 :> {k1}
=============================================================================
