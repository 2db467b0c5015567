----------------------------- MODULE KafkaClient ----------------------------
(***************************************************************************)
(* What a client writes and reads: the layouts that the comments of        *)
(* internal/protocol/messages.go give for each API, version by version.    *)
(* A response is read from the cells after its frame's size.               *)
(***************************************************************************)
EXTENDS Messages

CONSTANTS
    Batches,     \* the RecordBatches producers send
    Names,       \* the member ids of a SyncGroup's assignments
    NullTopics   \* a MetadataRequest may say "all topics" with a null array

DocRequestHeader == <<I16, I16, I32, NullableStr>>

DocRequest(api, v) ==
    CASE api = "Produce" ->
           When(v >= 3, <<NullableStr>>)
             \o <<Num(2, {0, 1}), I32, Array(<<Str, Array(<<I32, Data(Batches)>>, 0, 2)>>, 0, 1)>>
      [] api = "Fetch" ->
           <<I32, I32, I32, I32, I8, Array(<<Str, Array(<<I32, I64, I32>>, 0, 1)>>, 0, 2)>>
      [] api = "ListOffsets" -> <<I32, Array(<<Str, Array(<<I32, I64>>, 0, 3)>>, 0, 1)>>
      [] api = "Metadata" ->
           <<Array(<<Str>>, IF NullTopics /\ v >= 1 THEN -1 ELSE 0, 2)>> \o When(v >= 4, <<I8>>)
      [] api = "OffsetCommit" ->
           <<Str, I32, Str, I64, Array(<<Str, Array(<<I32, I64, NullableStr>>, 0, 2)>>, 0, 1)>>
      [] api = "OffsetFetch" -> <<Str, Array(<<Str, Array(<<I32>>, 0, 2)>>, 0, 1)>>
      [] api = "FindCoordinator" -> <<Str>>
      [] api = "JoinGroup" ->
           <<Str, I32, I32, Text({Empty, Payload(2, "s")}), Str,
             Array(<<Str, Data({Empty, Payload(3, "m")})>>, 0, 2)>>
      [] api = "Heartbeat" -> <<Str, I32, Str>>
      [] api = "LeaveGroup" -> <<Str, Str>>
      [] api = "SyncGroup" ->
           <<Str, I32, Str, Array(<<Text(Names), Data({Payload(3, "a"), Payload(4, "b")})>>, 0, 2)>>
      [] OTHER -> <<>>

DocTopics(part) == Arr(<<Str, Arr(part)>>)

DocResponse(api, v) ==
    <<I32>> \o
    CASE api = "Produce" ->
           <<DocTopics(<<I32, I16, I64>> \o When(v >= 2, <<I64>>))>> \o When(v >= 1, <<I32>>)
      [] api = "Fetch" -> <<I32, DocTopics(<<I32, I16, I64, I64, Arr(<<>>), Data({})>>)>>
      [] api = "ListOffsets" -> <<DocTopics(<<I32, I16, I64, I64>>)>>
      [] api = "Metadata" ->
           When(v >= 3, <<I32>>)
             \o <<Arr(<<I32, Str, I32>> \o When(v >= 1, <<Str>>))>>
             \o When(v >= 2, <<Str>>) \o When(v >= 1, <<I32>>)
             \o <<Arr(<<I16, Str>> \o When(v >= 1, <<I8>>)
                        \o <<Arr(<<I16, I32, I32, Arr(<<I32>>), Arr(<<I32>>)>>
                                   \o When(v >= 5, <<Arr(<<I32>>)>>))>>)>>
      [] api = "OffsetCommit" -> <<DocTopics(<<I32, I16>>)>>
      [] api = "OffsetFetch" -> <<DocTopics(<<I32, I64, Str, I16>>)>>
      [] api = "FindCoordinator" -> <<I16, I32, Str, I32>>
      [] api = "JoinGroup" -> <<I16, I32, Str, Str, Str, Arr(<<Str, Data({})>>)>>
      [] api \in {"Heartbeat", "LeaveGroup"} -> <<I16>>
      [] api = "SyncGroup" -> <<I16, Data({})>>
      [] api = "ApiVersions" -> <<I16, Arr(<<I16, I16, I16>>), I32>>
=============================================================================
