----------------------------- MODULE Connection -----------------------------
(***************************************************************************)
(* One client connection: Handler.Handle, dispatch and the handlers of     *)
(* internal/server/handler.go as far as the connection sees them, over the *)
(* messages of internal/protocol.  A client pipelines requests and may     *)
(* hang up in the middle of one.  What the handlers do to the partitions   *)
(* and to the offset cache is in PartitionStore, Broker, FetchPath and     *)
(* OffsetCoordinator; here a handler's outcomes are choices.               *)
(***************************************************************************)
EXTENDS KafkaClient, FiniteSets

CONSTANTS
    ClientVersions,   \* API -> the versions of it that clients use
    Pipelined,        \* the APIs whose requests are sent behind an unanswered one
    MaxFrames         \* bound on the requests of a connection

VARIABLES
    stream,     \* the bytes sent and not yet read
    pending,    \* for every frame not yet begun, the cells of it in the stream
    sent,       \* requests sent whole
    gone,       \* the client has closed the connection
    pc,         \* Handle: "header", "dispatch", "handle", "write", "closed"; or it has
                \* read bytes of two fields as one; or it has panicked
    hdr,        \* the RequestHeader
    req,        \* the request, once parsed
    reply,      \* the response being written
    handled,    \* history: requests handled, and whether a response is due
    answered,   \* history: correlation ids of the responses written
    appends     \* history: calls of Append: request, place in it, whether it returned nil

clientVars == <<pending, sent, gone>>
vars == <<stream, clientVars, pc, hdr, req, reply, handled, answered, appends>>

NoHeader == [api |-> "none", ver |-> 0, corr |-> 0]

Init ==
    /\ stream = <<>> /\ pending = <<>> /\ sent = 0 /\ gone = FALSE
    /\ pc = "header" /\ hdr = NoHeader /\ req = <<>> /\ reply = <<>>
    /\ handled = <<>> /\ answered = <<>> /\ appends = {}

TypeOK ==
    /\ \A i \in DOMAIN stream : stream[i].raw \in BOOLEAN /\ stream[i].n \in Nat
    /\ pending \in Seq(Nat) /\ sent \in 0..MaxFrames /\ gone \in BOOLEAN
    /\ pc \in {"header", "dispatch", "handle", "write", "closed", "garbled", "panicked"}
    /\ hdr.corr \in 0..(MaxFrames + 1)
    /\ handled \in Seq([corr: 1..MaxFrames, due: BOOLEAN])
    /\ answered \in Seq(1..MaxFrames)
    /\ \A a \in appends : a.corr \in 1..MaxFrames /\ a.ok \in BOOLEAN
-----------------------------------------------------------------------------
(* The client. *)
Bodies(api) ==
    UNION {{[api |-> api, ver |-> v, vals |-> x] : x \in Values(DocRequest(api, v))}
           : v \in ClientVersions[api]}

ClientIDs == {Null, Payload(2, "s")}

Frame(body, id, corr) ==
    FullMessage(Write(DocRequestHeader, <<body.api, body.ver, corr, id>>)
                  \o Write(DocRequest(body.api, body.ver), body.vals))

Deliver(cells) ==
    /\ stream' = stream \o cells /\ pending' = Append(pending, Len(cells))
    /\ UNCHANGED <<pc, hdr, req, reply, handled, answered, appends>>

(* A client waits for its answer before the next request, or sends one of  *)
(* Pipelined behind it.                                                    *)
MaySend(api) ==
    /\ ~gone /\ sent < MaxFrames
    /\ api \in Pipelined \/ (pc = "header" /\ pending = <<>>)

Send(body, id) ==
    /\ Deliver(Frame(body, id, sent + 1))
    /\ sent' = sent + 1 /\ gone' = FALSE

(* The connection breaks with a request half sent. *)
SendPart(body) ==
    /\ LET cells == Frame(body, Null, sent + 1)
       IN  \E k \in 1..(Len(cells) - 1) : Deliver(SubSeq(cells, 1, k))
    /\ gone' = TRUE /\ UNCHANGED sent

HangUp ==
    /\ ~gone /\ gone' = TRUE
    /\ UNCHANGED <<stream, pending, sent, pc, hdr, req, reply, handled, answered, appends>>
-----------------------------------------------------------------------------
(* Mutant: Handle does not return when the stream ends. *)
AfterEnd(why) == IF why = "panic" THEN "panicked" ELSE why

After(why) ==
    CASE why \in {"eof", "error"} -> "closed"
      [] why = "garbled" -> "garbled"
      [] why = "panic" -> "panicked"

(* Mutant: the end of the stream is taken for a pause. *)
ParseFailsLater(lay) ==
    LET r == Read(lay, stream)
    IN  /\ r.res \notin {"ok", "eof"}
        /\ pc' = After(r.res)
        /\ UNCHANGED <<stream, clientVars, hdr, req, reply, handled, answered, appends>>

(* A parse that does not succeed.  It waits while the stream may go on.    *)
ParseFails(lay) ==
    LET r == Read(lay, stream)
    IN  /\ r.res # "ok" /\ (r.res = "eof" => gone)
        /\ pc' = After(r.res)
        /\ UNCHANGED <<stream, clientVars, hdr, req, reply, handled, answered, appends>>

(* Handle's loop. *)
ReadHeader ==
    /\ pc = "header"
    /\ LET r == Read(ParseRequestHeader, stream)
       IN  /\ r.res = "ok"
           /\ hdr' = [api |-> r.v[2], ver |-> r.v[3], corr |-> r.v[4]]
           /\ stream' = r.rest /\ pending' = Tail(pending)
    /\ pc' = "dispatch"
    /\ UNCHANGED <<sent, gone, req, reply, handled, answered, appends>>

HeaderFails == pc = "header" /\ ParseFails(ParseRequestHeader)

Parser ==
    CASE hdr.api = "Produce" -> ParseProduceRequest(hdr.ver)
      [] hdr.api = "Fetch" -> ParseFetchRequest
      [] hdr.api = "ListOffsets" -> ParseListOffsetsRequest
      [] hdr.api = "Metadata" -> ParseMetadataRequest(hdr.ver)
      [] hdr.api = "OffsetCommit" -> ParseOffsetCommitRequest
      [] hdr.api = "OffsetFetch" -> ParseOffsetFetchRequest
      [] hdr.api = "FindCoordinator" -> ParseFindCoordinatorRequest
      [] hdr.api = "JoinGroup" -> ParseJoinGroupRequest
      [] hdr.api = "Heartbeat" -> ParseHeartbeatRequest
      [] hdr.api = "LeaveGroup" -> ParseLeaveGroupRequest
      [] hdr.api = "SyncGroup" -> ParseSyncGroupRequest
      [] OTHER -> <<>>

BodyFails == pc = "dispatch" /\ ParseFails(Parser)

Known == {supportedAPIVersions[i].key : i \in DOMAIN supportedAPIVersions}

(* dispatch's default case *)
Unsupported ==
    /\ pc = "dispatch" /\ hdr.api \notin Known
    /\ pc' = "closed"
    /\ UNCHANGED <<stream, clientVars, hdr, req, reply, handled, answered, appends>>

(* A handler begins with the Parse function of its API. *)
Parse ==
    /\ pc = "dispatch" /\ hdr.api \in Known
    /\ LET r == Read(Parser, stream)
       IN  r.res = "ok" /\ req' = r.v /\ stream' = r.rest
    /\ pc' = "handle"
    /\ UNCHANGED <<clientVars, hdr, reply, handled, answered, appends>>

Handles(api) == pc = "handle" /\ hdr.api = api

(* The handler has the response to write. *)
Respond(frame) ==
    /\ handled' = Append(handled, [corr |-> hdr.corr, due |-> TRUE])
    /\ reply' = frame /\ pc' = "write"
    /\ UNCHANGED <<stream, clientVars, hdr, req, answered>>

(* The response's topics and partitions are the request's, in its order.   *)
Topics == Last(req).x
Places == UNION {{<<i, j>> : j \in DOMAIN Topics[i][2].x} : i \in DOMAIN Topics}
Answers(part) ==
    [i \in DOMAIN Topics |->
       [name |-> Topics[i][1], parts |-> [j \in DOMAIN Topics[i][2].x |-> part[i, j]]]]
-----------------------------------------------------------------------------
(* ValidateRecordBatch, on what it looks at: the byte count, the magic     *)
(* byte, the Length field, and whether the checksum is that of the bytes   *)
(* from 21 to Length + 12, a slice that has to end after it begins.        *)
ValidateRecordBatch(b) ==
    IF b.n < 61 \/ b.x.magic # 2 \/ b.n < b.x.length + 12 THEN "invalid"
    ELSE IF b.x.length + 12 < 21 THEN "panic"
    ELSE IF b.x.crc THEN "valid" ELSE "invalid"

Verdict(at) ==
    LET b == Topics[at[1]][2].x[at[2]][2]
    IN  IF b.n > 0 THEN ValidateRecordBatch(b) ELSE "valid"

Outcomes == {"unopened", "refused", "accepted"}

Code(at, outcome) ==
    IF Verdict(at) = "invalid" THEN 2 ELSE IF outcome[at] = "accepted" THEN 0 ELSE 1

(* The calls of Append for the batches at some places. *)
Appends(places, outcome) ==
    {[corr |-> hdr.corr, at |-> at, ok |-> outcome[at] = "accepted"]
     : at \in {p \in places : Verdict(p) = "valid" /\ outcome[p] # "unopened"}}

(* Mutant: the error of Append is answered like its success. *)
HandleProduceForgetful ==
    /\ Handles("Produce")
    /\ \E outcome \in [Places -> Outcomes] :
         LET taken == [at \in Places |-> "accepted"]
             part == [at \in Places |-> [id |-> 0, code |-> Code(at, taken), off |-> 0]]
         IN  /\ Respond(FullMessage(EncodeProduceResponse(hdr.corr, Answers(part))))
             /\ appends' = appends \cup Appends(Places, outcome)

(* Mutant: a response is written for acks = 0 too. *)
HandleProduceAlways ==
    /\ Handles("Produce") /\ pc' = "write"
    /\ handled' = Append(handled, [corr |-> hdr.corr, due |-> req[Len(req) - 2] # 0])
    /\ reply' = FullMessage(EncodeProduceResponse(hdr.corr,
                   Answers([at \in Places |-> [id |-> 0, code |-> 1, off |-> -1]])))
    /\ UNCHANGED <<stream, clientVars, hdr, req, answered, appends>>

(* handleProduce: a partition cannot be opened, its Append returns an      *)
(* error, or Append returns an offset.  With acks = 0 nothing is written.  *)
(* The batches are worked off in order, up to one that panics.  What       *)
(* Append does to the log is in Segment and PartitionStore.                *)
HandleProduce ==
    /\ Handles("Produce")
    /\ \E outcome \in [Places -> Outcomes] :
         LET bad == {at \in Places : Verdict(at) = "panic"}
             before(p, q) == p[1] < q[1] \/ (p[1] = q[1] /\ p[2] < q[2])
             reached == {at \in Places : \A q \in bad : before(at, q)}
             due == req[Len(req) - 2] # 0
             part == [at \in Places |->
                        [id |-> 0, code |-> Code(at, outcome),
                         off |-> IF Code(at, outcome) = 0 THEN 0 ELSE -1]]
         IN  /\ appends' = appends \cup Appends(reached, outcome)
             /\ handled' = Append(handled, [corr |-> hdr.corr, due |-> due])
             /\ pc' = IF bad # {} THEN "panicked" ELSE IF due THEN "write" ELSE "header"
             /\ reply' = IF pc' = "write"
                         THEN FullMessage(EncodeProduceResponse(hdr.corr, Answers(part)))
                         ELSE <<>>
             /\ IF pc' = "header" THEN hdr' = NoHeader /\ req' = <<>>
                ELSE UNCHANGED <<hdr, req>>
    /\ UNCHANGED <<stream, clientVars, answered>>

(* handleFetch: a partition is answered with an error, without records, or *)
(* with what Read returned, which may be a length field only.              *)
Fetched == {[id |-> 0, code |-> 1, hwm |-> 0, batch |-> Null],
            [id |-> 0, code |-> 0, hwm |-> 0, batch |-> Empty],
            [id |-> 0, code |-> 0, hwm |-> 9, batch |-> Payload(5, "r")]}

HandleFetch ==
    /\ Handles("Fetch")
    /\ \E f \in [Places -> Fetched] :
         Respond(WriteFetchResponse(hdr.corr, Answers(f)))
    /\ UNCHANGED appends

HandleListOffsets ==
    /\ Handles("ListOffsets")
    /\ \E failed \in SUBSET Places :
         LET part == [at \in Places |->
                       [id |-> 0, off |-> 0, code |-> IF at \in failed THEN 3 ELSE 0]]
         IN  Respond(FullMessage(EncodeListOffsetsResponse(hdr.corr, Answers(part))))
    /\ UNCHANGED appends

HandleOffsetCommit ==
    /\ Handles("OffsetCommit")
    /\ \E failed \in SUBSET Places :
         LET part == [at \in Places |-> [id |-> 0, code |-> IF at \in failed THEN 1 ELSE 0]]
         IN  Respond(FullMessage(EncodeOffsetCommitResponse(hdr.corr, Answers(part))))
    /\ UNCHANGED appends

HandleOffsetFetch ==
    /\ Handles("OffsetFetch")
    /\ LET part == [at \in Places |-> [id |-> 0, off |-> -1]]
       IN  Respond(FullMessage(EncodeOffsetFetchResponse(hdr.corr, Answers(part))))
    /\ UNCHANGED appends

Host == Payload(9, "host")

(* handleMetadata answers with every topic of the store. *)
HandleMetadata ==
    /\ Handles("Metadata")
    /\ \E n \in 0..2 :
         LET topics == [i \in 1..n |-> [name |-> Payload(2, "s"), parts |-> [j \in 1..i |-> j]]]
         IN  Respond(FullMessage(EncodeMetadataResponse(hdr.corr, hdr.ver, topics, Host)))
    /\ UNCHANGED appends

HandleApiVersions ==
    /\ Handles("ApiVersions")
    /\ Respond(FullMessage(EncodeApiVersionsResponse(hdr.corr)))
    /\ UNCHANGED appends

HandleFindCoordinator ==
    /\ Handles("FindCoordinator")
    /\ Respond(FullMessage(EncodeFindCoordinatorResponse(hdr.corr, Host)))
    /\ UNCHANGED appends

dummyMemberID == Payload(13, "kage-member-1")

(* The first protocol offered is chosen, and its metadata is the member's. *)
HandleJoinGroup ==
    /\ Handles("JoinGroup")
    /\ LET offers == Last(req).x
           first == IF offers = <<>> THEN <<Empty, Empty>> ELSE Head(offers)
           members == <<[id |-> dummyMemberID, metadata |-> first[2]]>>
       IN  Respond(FullMessage(
             EncodeJoinGroupResponse(hdr.corr, first[1], dummyMemberID, members)))
    /\ UNCHANGED appends

HandleHeartbeat ==
    /\ Handles("Heartbeat")
    /\ Respond(FullMessage(EncodeHeartbeatResponse(hdr.corr)))
    /\ UNCHANGED appends

HandleLeaveGroup ==
    /\ Handles("LeaveGroup")
    /\ Respond(FullMessage(EncodeLeaveGroupResponse(hdr.corr)))
    /\ UNCHANGED appends

(* The first assignment of the one member is echoed. *)
HandleSyncGroup ==
    /\ Handles("SyncGroup")
    /\ LET mine == SelectSeq(Last(req).x, LAMBDA a : a[1] = dummyMemberID)
       IN  Respond(FullMessage(
             EncodeSyncGroupResponse(hdr.corr, IF mine = <<>> THEN Empty ELSE Head(mine)[2])))
    /\ UNCHANGED appends

(* conn.Write *)
Written ==
    /\ pc = "write" /\ pc' = "header"
    /\ answered' = Append(answered, hdr.corr)
    /\ hdr' = NoHeader /\ req' = <<>> /\ reply' = <<>>
    /\ UNCHANGED <<stream, clientVars, handled, appends>>

WriteFails ==
    /\ pc = "write" /\ gone /\ pc' = "closed"
    /\ UNCHANGED <<stream, clientVars, hdr, req, reply, handled, answered, appends>>

Server ==
    \/ ReadHeader \/ HeaderFails \/ Parse \/ BodyFails \/ Unsupported
    \/ HandleProduce \/ HandleFetch \/ HandleListOffsets
    \/ HandleMetadata \/ HandleOffsetCommit \/ HandleOffsetFetch \/ HandleApiVersions
    \/ HandleFindCoordinator \/ HandleJoinGroup \/ HandleHeartbeat \/ HandleLeaveGroup
    \/ HandleSyncGroup \/ Written \/ WriteFails

Next ==
    \/ \E api \in DOMAIN ClientVersions :
         /\ MaySend(api)
         /\ \E body \in Bodies(api) : SendPart(body) \/ \E id \in ClientIDs : Send(body, id)
    \/ HangUp \/ Server

Spec == Init /\ [][Next]_vars

(* The connection's goroutine is scheduled. *)
FairSpec == Spec /\ WF_vars(Server)
-----------------------------------------------------------------------------
(* "keep the TCP read buffer aligned for the next request frame": after    *)
(* any requests in the layouts that the comments of messages.go give, the  *)
(* next header is read from the first byte of a frame, although no frame's *)
(* size is ever looked at.  Requests in other layouts are left out: the    *)
(* versions that ApiVersions offers too and that the one layout of the     *)
(* parser does not fit (Fetch 0 to 3, ListOffsets 0, OffsetCommit 0 and 1, *)
(* JoinGroup 0, Metadata 7 to 9), and null arrays.                         *)
Aligned ==
    /\ pc # "garbled"
    /\ pc = "header" => Len(stream) = FoldLeft(LAMBDA n, k : n + k, 0, pending)

(* Responses are written in the order of the requests, one for every       *)
(* request that waits for one ("acks=0: ... do not write anything"), with  *)
(* its correlation id.                                                     *)
InOrder ==
    LET due == SelectSeq(handled, LAMBDA h : h.due)
        ids == [i \in DOMAIN due |-> due[i].corr]
    IN  /\ \A i \in DOMAIN handled : handled[i].corr = i
        /\ IsPrefix(answered, ids)
        /\ pc = "header" => answered = ids

(* The size in front of a response is the number of bytes that follow, and *)
(* a client that reads them by the documented layout of the version it     *)
(* asked with reads them all and meets every field ("Omitting these fields *)
(* leaves the client waiting for bytes that never arrive").                *)
FramesExact ==
    pc = "write" =>
      LET r == Read(DocResponse(hdr.api, hdr.ver), Tail(reply))
      IN  /\ Head(reply).v = Width(Tail(reply))
          /\ r.res = "ok" /\ r.rest = <<>>

(* The response to a Produce has the request's topics and a place for each *)
(* of its batches.  It says success exactly for the batches whose Append   *)
(* returned without an error, however the others failed, and calls corrupt *)
(* only batches that were not handed to Append.  (It says nothing of the   *)
(* log: an Append that fails on the index leaves its record there, and one *)
(* into a segment that a failed rollover closed returns without an error,  *)
(* though its record is never written.)                                    *)
ProduceAnswered ==
    pc = "write" /\ hdr.api = "Produce" =>
      LET topics == Read(DocResponse("Produce", hdr.ver), Tail(reply)).v[2].x
          places == UNION {{<<i, j>> : j \in DOMAIN topics[i][2].x} : i \in DOMAIN topics}
          code(at) == topics[at[1]][2].x[at[2]][2]
          calls(at) == {a \in appends : a.corr = hdr.corr /\ a.at = at}
      IN  /\ places = Places /\ \A i \in DOMAIN topics : topics[i][1] = Topics[i][1]
          /\ \A at \in places : /\ code(at) = 0 <=> \E a \in calls(at) : a.ok
                                /\ code(at) = 2 => calls(at) = {}

(* No request ends the process. *)
NoPanic == pc # "panicked"

(* When the client has gone, the goroutine works off what it was sent and  *)
(* ends; it does not keep its place in the worker pool.  Clients send      *)
(* whole batches: one with a Length field below 9 makes ValidateRecordBatch *)
(* panic, which ends the process.                                          *)
ConnectionEnds == gone ~> pc = "closed"
=============================================================================
