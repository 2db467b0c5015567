---------------------------- MODULE MCConnection ----------------------------
(* Connection with the versions that clients use and the batches they send. *)
EXTENDS Connection

Record(length, crc) == [magic |-> 2, length |-> length, crc |-> crc]

MCBatches == {Empty, Payload(70, Record(58, TRUE)), Payload(70, Record(58, FALSE))}

MCNames == {dummyMemberID, Payload(2, "s")}

MCVersions ==
    [Produce |-> {2, 3}, Fetch |-> {4}, ListOffsets |-> {1}, Metadata |-> {0, 1, 2, 3, 4, 6},
     OffsetCommit |-> {2}, OffsetFetch |-> {1}, FindCoordinator |-> {0}, JoinGroup |-> {1},
     Heartbeat |-> {0}, LeaveGroup |-> {0}, SyncGroup |-> {0}, ApiVersions |-> {0, 2},
     CreateTopics |-> {0}]

(* Every version that an ApiVersions response offers. *)
Advertised ==
    [a \in {"Produce", "Metadata"} |->
       0..(CHOOSE i \in 0..9 : Supported(a, i) \in Range(supportedAPIVersions))]
=============================================================================
