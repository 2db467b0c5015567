------------------------------ MODULE MCBroker ------------------------------
(* Broker with its connections and partitions as model values. *)
EXTENDS Broker

CONSTANTS c1, c2, c3, p1, p2
=============================================================================
