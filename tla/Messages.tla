------------------------------ MODULE Messages ------------------------------
(***************************************************************************)
(* internal/protocol/messages.go: the reads each Parse function makes and  *)
(* the cells each Encode function writes, for every API of the broker.     *)
(***************************************************************************)
EXTENDS Wire

ParseRequestHeader == <<I32, I16, I16, I32, Str>>

(* Mutant: allow_auto_topic_creation is left in the stream. *)
ParseMetadataRequestV3(v) == <<Arr(<<Str>>)>>

ParseMetadataRequest(v) == <<Arr(<<Str>>)>> \o When(v >= 4, <<I8>>)

ParseProduceRequest(v) ==
    When(v >= 3, <<Str>>) \o <<I16, I32, Checked(<<Str, Checked(<<I32, Batch>>)>>)>>

ParseFetchRequest ==
    <<I32, I32, I32, I32, I8, Arr(<<Str, Arr(<<I32, I64, I32>>)>>)>>

ParseOffsetCommitRequest ==
    <<Str, I32, Str, I64, Arr(<<Str, Arr(<<I32, I64, Str>>)>>)>>

ParseOffsetFetchRequest == <<Str, Arr(<<Str, Arr(<<I32>>)>>)>>

ParseListOffsetsRequest == <<I32, Checked(<<Str, Checked(<<I32, I64>>)>>)>>

ParseFindCoordinatorRequest == <<Str>>

ParseJoinGroupRequest == <<Str, I32, I32, Str, Str, Arr(<<Str, Data({})>>)>>

ParseHeartbeatRequest == <<Str, I32, Str>>

ParseLeaveGroupRequest == <<Str, Str>>

ParseSyncGroupRequest == <<Str, I32, Str, Arr(<<Str, Data({})>>)>>
-----------------------------------------------------------------------------
(* An array, given the cells of each of its elements. *)
WriteArray(elements) ==
    FoldLeft(LAMBDA cells, e : cells \o e, WriteInt(4, Cardinality(DOMAIN elements)), elements)
WriteData(p) == WriteInt(4, p.n) \o WriteBytes(p)

(* The topics[] and partitions[] of a response, given the cells that are   *)
(* written for each of the partitions.                                     *)
WriteTopics(topics, cells) ==
    LET topic(t) == WriteString(t.name)
                      \o WriteArray([j \in DOMAIN t.parts |-> cells[t.parts[j]]])
    IN  WriteArray([i \in DOMAIN topics |-> topic(topics[i])])
Parts(topics) == UNION {Range(topics[i].parts) : i \in DOMAIN topics}

EncodeProduceResponse(corr, topics) ==
    WriteInt(4, corr)
      \o WriteTopics(topics, [p \in Parts(topics) |->
                        WriteInt(4, p.id) \o WriteInt(2, p.code)
                          \o WriteInt(8, p.off) \o WriteInt(8, -1)])
      \o WriteInt(4, 0)

EncodeOffsetCommitResponse(corr, topics) ==
    WriteInt(4, corr)
      \o WriteTopics(topics, [p \in Parts(topics) |-> WriteInt(4, p.id) \o WriteInt(2, p.code)])

EncodeOffsetFetchResponse(corr, topics) ==
    WriteInt(4, corr)
      \o WriteTopics(topics, [p \in Parts(topics) |->
                        WriteInt(4, p.id) \o WriteInt(8, p.off)
                          \o WriteString(Empty) \o WriteInt(2, 0)])

EncodeListOffsetsResponse(corr, topics) ==
    WriteInt(4, corr)
      \o WriteTopics(topics, [p \in Parts(topics) |->
                        WriteInt(4, p.id) \o WriteInt(2, p.code)
                          \o WriteInt(8, -1) \o WriteInt(8, p.off)])

Supported(key, max) == [key |-> key, max |-> max]
supportedAPIVersions ==
    <<Supported("Produce", 3), Supported("Fetch", 4), Supported("ListOffsets", 1),
      Supported("Metadata", 9), Supported("OffsetCommit", 2), Supported("OffsetFetch", 1),
      Supported("FindCoordinator", 0), Supported("JoinGroup", 1), Supported("Heartbeat", 0),
      Supported("LeaveGroup", 0), Supported("SyncGroup", 0), Supported("ApiVersions", 2)>>

EncodeApiVersionsResponse(corr) ==
    LET version(s) == WriteInt(2, s.key) \o WriteInt(2, 0) \o WriteInt(2, s.max)
    IN  WriteInt(4, corr) \o WriteInt(2, 0)
          \o WriteArray([i \in DOMAIN supportedAPIVersions |-> version(supportedAPIVersions[i])])
          \o WriteInt(4, 0)

EncodeFindCoordinatorResponse(corr, host) ==
    WriteInt(4, corr) \o WriteInt(2, 0) \o WriteInt(4, 1) \o WriteString(host)
      \o WriteInt(4, 9092)

EncodeJoinGroupResponse(corr, protocol, member, members) ==
    WriteInt(4, corr) \o WriteInt(2, 0) \o WriteInt(4, 1)
      \o WriteString(protocol) \o WriteString(member) \o WriteString(member)
      \o WriteArray([i \in DOMAIN members |-> WriteString(members[i].id)
                                                \o WriteData(members[i].metadata)])

EncodeHeartbeatResponse(corr) == WriteInt(4, corr) \o WriteInt(2, 0)

EncodeLeaveGroupResponse(corr) == WriteInt(4, corr) \o WriteInt(2, 0)

EncodeSyncGroupResponse(corr, assignment) ==
    WriteInt(4, corr) \o WriteInt(2, 0) \o WriteData(assignment)

EncodeMetadataResponse(corr, v, topics, host) ==
    LET replicas == WriteArray(<<WriteInt(4, 1)>>)
        broker == WriteInt(4, 1) \o WriteString(host) \o WriteInt(4, 9092)
                    \o When(v >= 1, WriteString(Null))
        partition(p) == WriteInt(2, 0) \o WriteInt(4, p) \o WriteInt(4, 1)
                          \o replicas \o replicas \o When(v >= 5, WriteInt(4, 0))
        topic(t) == WriteInt(2, 0) \o WriteString(t.name) \o When(v >= 1, WriteInt(1, 0))
                      \o WriteArray([j \in DOMAIN t.parts |-> partition(t.parts[j])])
    IN  WriteInt(4, corr) \o When(v >= 3, WriteInt(4, 0))
          \o WriteInt(4, 1) \o broker
          \o When(v >= 2, WriteString(Null)) \o When(v >= 1, WriteInt(4, 1))
          \o WriteArray([i \in DOMAIN topics |-> topic(topics[i])])

(* Mutant: the frame of a fetch response counts only records, and not the  *)
(* batches that are empty.                                                 *)
FetchFrameSizeShort(topics) ==
    LET Sum(seq, One(_)) == FoldLeft(LAMBDA n, x : n + One(x), 0, seq)
    IN  Int32(12 + Sum(topics, LAMBDA t : 2 + t.name.n + 4
                      + Sum(t.parts, LAMBDA p : 30 + p.batch.n)))

(* WriteFetchResponse: the size it computes first, and the cells it then   *)
(* streams.                                                                *)
FetchFrameSize(topics) ==
    LET Sum(seq, One(_)) == FoldLeft(LAMBDA n, x : n + One(x), 0, seq)
    IN  Int32(12 + Sum(topics, LAMBDA t : 2 + t.name.n + 4
                      + Sum(t.parts, LAMBDA p :
                              30 + IF p.batch.n > 0 THEN p.batch.n ELSE 0)))

FetchCells(corr, topics) ==
    WriteInt(4, corr) \o WriteInt(4, 0)
      \o WriteTopics(topics, [p \in Parts(topics) |->
                        WriteInt(4, p.id) \o WriteInt(2, p.code)
                          \o WriteInt(8, p.hwm) \o WriteInt(8, p.hwm)
                          \o WriteInt(4, 0) \o WriteData(p.batch)])

WriteFetchResponse(corr, topics) ==
    WriteInt(4, FetchFrameSize(topics)) \o FetchCells(corr, topics)
=============================================================================
