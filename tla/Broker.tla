------------------------------- MODULE Broker -------------------------------
(***************************************************************************)
(* The broker process: main's accept loop, worker pool and shutdown        *)
(* (cmd/kaged/main.go), the goroutine of each connection                   *)
(* (internal/server/handler.go: Handle, handleProduce), and the map of     *)
(* partition stores they share (internal/storage/broker_store.go).         *)
(* A partition store is reduced to what shutdown can lose: the batches in  *)
(* its buffer and the batches in its file.                                 *)
(***************************************************************************)
EXTENDS Integers, Sequences, FiniteSets

CONSTANTS
    Conns,        \* client connections
    Parts,        \* topic-partitions
    PoolSize,     \* worker_pool_size
    MaxBatches,   \* bound on the batches produced
    Broken,       \* partitions whose file cannot be written when it is closed
    AcceptMayFail,
    OpenMayFail   \* creating a partition may fail

ASSUME BrokerAssumption ==
    /\ PoolSize \in Nat \ {0} /\ MaxBatches \in Nat /\ Broken \subseteq Parts
    /\ AcceptMayFail \in BOOLEAN /\ OpenMayFail \in BOOLEAN

VARIABLES
    main,      \* where main is
    waiter,    \* the goroutine in wg.Wait
    acceptor,  \* "accept", "select" with a connection in hand, "add", "dead"
    inHand,    \* that connection
    conn,      \* where each connection's goroutine is
    sem,       \* tokens in the worker pool's channel
    wg,        \* the WaitGroup's counter
    stores,    \* BrokerStore.stores: partition -> object number, or 0
    objs,      \* the PartitionStore objects
    use,       \* what each goroutine holds: the partition and the object
    next,      \* id of the next batch
    acked,     \* batches acknowledged
    kept,      \* the ones acknowledged before their store was closed, in
               \* partitions that can be written
    drained    \* main left its select because the connections had drained

poolVars == <<acceptor, inHand, sem, wg>>
storeVars == <<stores, objs>>
vars == <<main, waiter, poolVars, conn, storeVars, use, next, acked, kept, drained>>

None == "none"
NoUse == [part |-> None, obj |-> 0, id |-> 0]
Batches == 0..(MaxBatches - 1)
Running == {"parse", "lookup", "create", "append", "respond", "free", "done"}
PartitionStore == [part: Parts, open: BOOLEAN, buf: SUBSET Batches, disk: SUBSET Batches]

TypeOK ==
    /\ main \in {"serving", "signalled", "waiting", "closing", "closed", "exited"}
    /\ waiter \in {"off", "waiting", "done"}
    /\ acceptor \in {"accept", "select", "add", "dead"} /\ inHand \in Conns \cup {None}
    /\ conn \in [Conns -> Running \cup {"new", "queued", "taken", "gone"}]
    /\ sem \in 0..PoolSize /\ wg \in Nat
    /\ stores \in [Parts -> 0..Len(objs)]
    /\ objs \in Seq(PartitionStore)
    /\ use \in [Conns -> [part: Parts \cup {None}, obj: 0..Len(objs), id: 0..MaxBatches]]
    /\ next \in 0..MaxBatches
    /\ kept \subseteq acked /\ acked \subseteq Batches /\ drained \in BOOLEAN

Init ==
    /\ main = "serving" /\ waiter = "off" /\ acceptor = "accept" /\ inHand = None
    /\ conn = [c \in Conns |-> "new"] /\ sem = 0 /\ wg = 0
    /\ stores = [p \in Parts |-> 0] /\ objs = <<>> /\ use = [c \in Conns |-> NoUse]
    /\ next = 0 /\ acked = {} /\ kept = {} /\ drained = FALSE

Alive == main # "exited"
Listening == main \in {"serving", "signalled"}
(* BrokerStore.Close holds bs.mu while it closes the stores. *)
Unlocked == main # "closing"
-----------------------------------------------------------------------------
(* A client connects: the kernel queues the connection. *)
Connect(c) ==
    /\ Listening /\ conn[c] = "new"
    /\ conn' = [conn EXCEPT ![c] = "queued"]
    /\ UNCHANGED <<main, waiter, poolVars, storeVars, use, next, acked, kept, drained>>

Accept(c) ==
    /\ Listening /\ acceptor = "accept" /\ conn[c] = "queued"
    /\ acceptor' = "select" /\ inHand' = c
    /\ conn' = [conn EXCEPT ![c] = "taken"]
    /\ UNCHANGED <<main, waiter, sem, wg, storeVars, use, next, acked, kept, drained>>

(* Accept fails, because the listener is closed or for another reason: the *)
(* goroutine returns.                                                      *)
AcceptFails ==
    /\ Alive /\ acceptor = "accept" /\ (AcceptMayFail \/ ~Listening)
    /\ acceptor' = "dead"
    /\ UNCHANGED <<main, waiter, inHand, sem, wg, conn, storeVars, use, next, acked,
                   kept, drained>>

(* The pool is exhausted and the connection is closed. *)
Reject ==
    /\ Alive /\ acceptor = "select" /\ sem = PoolSize
    /\ conn' = [conn EXCEPT ![inHand] = "gone"]
    /\ acceptor' = "accept" /\ inHand' = None
    /\ UNCHANGED <<main, waiter, sem, wg, storeVars, use, next, acked, kept, drained>>

(* Mutant: the pool's channel has room for one more. *)
TakeSlotOver ==
    /\ Alive /\ acceptor = "select"
    /\ sem' = IF sem < PoolSize THEN sem + 1 ELSE sem
    /\ acceptor' = "add"
    /\ UNCHANGED <<main, waiter, inHand, wg, conn, storeVars, use, next, acked, kept,
                   drained>>

TakeSlot ==
    /\ Alive /\ acceptor = "select" /\ sem < PoolSize
    /\ sem' = sem + 1 /\ acceptor' = "add"
    /\ UNCHANGED <<main, waiter, inHand, wg, conn, storeVars, use, next, acked, kept,
                   drained>>

(* wg.Add(1) and the go statement. *)
Spawn ==
    /\ Alive /\ acceptor = "add"
    /\ wg' = wg + 1
    /\ conn' = [conn EXCEPT ![inHand] = "parse"]
    /\ acceptor' = "accept" /\ inHand' = None
    /\ UNCHANGED <<main, waiter, sem, storeVars, use, next, acked, kept, drained>>
-----------------------------------------------------------------------------
Step(c, from, to) ==
    /\ Alive /\ conn[c] = from
    /\ conn' = [conn EXCEPT ![c] = to]

(* handleProduce is called for a batch of one partition. *)
Request(c, p) ==
    /\ Step(c, "parse", "lookup") /\ next < MaxBatches
    /\ use' = [use EXCEPT ![c] = [part |-> p, obj |-> 0, id |-> next]]
    /\ next' = next + 1
    /\ UNCHANGED <<main, waiter, poolVars, storeVars, acked, kept, drained>>

Holding(c, i) == [use EXCEPT ![c] = [part |-> use[c].part, obj |-> i, id |-> use[c].id]]

(* GetOrCreatePartition's fast path, under the read lock. *)
Lookup(c) ==
    /\ Unlocked /\ conn[c] = "lookup"
    /\ LET i == stores[use[c].part]
       IN  /\ Step(c, "lookup", IF i = 0 THEN "create" ELSE "append")
           /\ use' = Holding(c, i)
    /\ UNCHANGED <<main, waiter, poolVars, storeVars, next, acked, kept, drained>>

(* The slow path, under the write lock: the map is looked at again. *)
FoundLate(c) ==
    /\ Step(c, "create", "append") /\ Unlocked /\ stores[use[c].part] # 0
    /\ use' = Holding(c, stores[use[c].part])
    /\ UNCHANGED <<main, waiter, poolVars, storeVars, next, acked, kept, drained>>

(* Mutant: the map is not looked at again. *)
CreateUnchecked(c) ==
    /\ Unlocked
    /\ Step(c, "create", "append")
    /\ objs' = Append(objs, [part |-> use[c].part, open |-> TRUE, buf |-> {}, disk |-> {}])
    /\ stores' = [stores EXCEPT ![use[c].part] = Len(objs')]
    /\ use' = Holding(c, Len(objs'))
    /\ UNCHANGED <<main, waiter, poolVars, next, acked, kept, drained>>

Create(c) ==
    /\ Step(c, "create", "append") /\ Unlocked /\ stores[use[c].part] = 0
    /\ objs' = Append(objs, [part |-> use[c].part, open |-> TRUE, buf |-> {}, disk |-> {}])
    /\ stores' = [stores EXCEPT ![use[c].part] = Len(objs')]
    /\ use' = Holding(c, Len(objs'))
    /\ UNCHANGED <<main, waiter, poolVars, next, acked, kept, drained>>

(* The partition cannot be created: the response carries an error. *)
CreateFails(c) ==
    /\ Step(c, "create", "parse") /\ Unlocked /\ stores[use[c].part] = 0
    /\ OpenMayFail
    /\ use' = [use EXCEPT ![c] = NoUse]
    /\ UNCHANGED <<main, waiter, poolVars, storeVars, next, acked, kept, drained>>

Obj(c) == objs[use[c].obj]

(* PartitionStore.Append: the batch stays in the buffer, or the buffer is  *)
(* written to the file.  On a closed store only the first can be.          *)
AppendBuffered(c) ==
    /\ Step(c, "append", "respond")
    /\ objs' = [objs EXCEPT ![use[c].obj].buf = Obj(c).buf \cup {use[c].id}]
    /\ UNCHANGED <<main, waiter, poolVars, stores, use, next, acked, kept, drained>>

AppendWritten(c) ==
    /\ Step(c, "append", "respond") /\ Obj(c).open
    /\ Obj(c).part \notin Broken
    /\ objs' = [objs EXCEPT ![use[c].obj].disk = Obj(c).disk \cup Obj(c).buf \cup {use[c].id},
                            ![use[c].obj].buf = {}]
    /\ UNCHANGED <<main, waiter, poolVars, stores, use, next, acked, kept, drained>>

(* The write fails and the response carries an error. *)
AppendFails(c) ==
    /\ Step(c, "append", "parse")
    /\ ~Obj(c).open \/ Obj(c).part \in Broken
    /\ use' = [use EXCEPT ![c] = NoUse]
    /\ UNCHANGED <<main, waiter, poolVars, storeVars, next, acked, kept, drained>>

Respond(c) ==
    /\ Step(c, "respond", "parse")
    /\ acked' = acked \cup {use[c].id}
    /\ kept' = IF Obj(c).open /\ Obj(c).part \notin Broken /\ main # "closed"
               THEN kept \cup {use[c].id} ELSE kept
    /\ use' = [use EXCEPT ![c] = NoUse]
    /\ UNCHANGED <<main, waiter, poolVars, storeVars, next, drained>>

(* The client hangs up, which ParseRequestHeader or the write notices. *)
HangUp(c) ==
    /\ Step(c, "parse", "free") \/ Step(c, "respond", "free")
    /\ use' = [use EXCEPT ![c] = NoUse]
    /\ UNCHANGED <<main, waiter, poolVars, storeVars, next, acked, kept, drained>>

(* The deferred function: <-sem, then wg.Done(). *)
FreeSlot(c) ==
    /\ Step(c, "free", "done")
    /\ sem' = sem - 1
    /\ UNCHANGED <<main, waiter, acceptor, inHand, wg, storeVars, use, next, acked, kept,
                   drained>>

(* Mutant: Done is called twice. *)
WgDoneTwice(c) ==
    /\ Step(c, "done", "gone")
    /\ wg' = wg - 2
    /\ UNCHANGED <<main, waiter, acceptor, inHand, sem, storeVars, use, next, acked, kept,
                   drained>>

WgDone(c) ==
    /\ Step(c, "done", "gone")
    /\ wg' = wg - 1
    /\ UNCHANGED <<main, waiter, acceptor, inHand, sem, storeVars, use, next, acked, kept,
                   drained>>
-----------------------------------------------------------------------------
MainStep(from, to) ==
    /\ main = from /\ main' = to
    /\ UNCHANGED <<poolVars, use, next, acked, kept>>

(* SIGTERM: ctx is done. *)
Signal == MainStep("serving", "signalled") /\ UNCHANGED <<waiter, conn, storeVars, drained>>

(* listener.Close, which resets the connections not yet accepted, and the  *)
(* goroutine that waits for the others.                                    *)
CloseListener ==
    /\ MainStep("signalled", "waiting")
    /\ waiter' = "waiting"
    /\ conn' = [c \in Conns |-> IF conn[c] = "queued" THEN "gone" ELSE conn[c]]
    /\ UNCHANGED <<storeVars, drained>>

WaitReturns ==
    /\ Alive /\ waiter = "waiting" /\ wg = 0
    /\ waiter' = "done"
    /\ UNCHANGED <<main, poolVars, conn, storeVars, use, next, acked, kept, drained>>

(* The select, then the deferred store.Close, which takes bs.mu. *)
Drained ==
    /\ MainStep("waiting", "closing") /\ waiter = "done"
    /\ drained' = TRUE
    /\ UNCHANGED <<waiter, conn, storeVars>>

(* Mutant: the timeout counts only when there is nothing left to wait for. *)
TimeoutWhenIdle ==
    /\ MainStep("waiting", "closing") /\ wg = 0
    /\ UNCHANGED <<waiter, conn, storeVars, drained>>

Timeout ==
    /\ MainStep("waiting", "closing")
    /\ UNCHANGED <<waiter, conn, storeVars, drained>>

(* BrokerStore.Close, one store of the map at a time, in any order; a      *)
(* store that cannot be written does not keep the others from being closed. *)
ToClose == {p \in Parts : stores[p] # 0 /\ objs[stores[p]].open}
Flushed(p) == IF p \in Broken THEN {} ELSE objs[stores[p]].buf

(* Mutant: the first error ends the loop. *)
CloseStoreOrQuit(p) ==
    /\ p \in ToClose
    /\ MainStep("closing", IF p \in Broken /\ objs[stores[p]].buf # {} THEN "closed"
                           ELSE "closing")
    /\ objs' = [objs EXCEPT ![stores[p]].open = FALSE, ![stores[p]].buf = {},
                            ![stores[p]].disk = objs[stores[p]].disk \cup Flushed(p)]
    /\ UNCHANGED <<waiter, conn, stores, drained>>

CloseStore(p) ==
    /\ MainStep("closing", "closing")
    /\ p \in ToClose
    /\ objs' = [objs EXCEPT ![stores[p]].open = FALSE, ![stores[p]].buf = {},
                            ![stores[p]].disk = objs[stores[p]].disk \cup Flushed(p)]
    /\ UNCHANGED <<waiter, conn, stores, drained>>

StoresClosed ==
    /\ MainStep("closing", "closed") /\ ToClose = {}
    /\ UNCHANGED <<waiter, conn, storeVars, drained>>

(* main returns: every goroutine is gone and every buffer with it. *)
Exit ==
    /\ MainStep("closed", "exited")
    /\ UNCHANGED <<waiter, conn, storeVars, drained>>

Main ==
    \/ CloseListener \/ Drained \/ Timeout
    \/ (\E p \in Parts : CloseStore(p)) \/ StoresClosed \/ Exit

Handle(c) ==
    \/ \E p \in Parts : Request(c, p)
    \/ Lookup(c) \/ FoundLate(c) \/ Create(c) \/ CreateFails(c)
    \/ AppendBuffered(c) \/ AppendWritten(c) \/ AppendFails(c) \/ Respond(c)
    \/ HangUp(c) \/ FreeSlot(c) \/ WgDone(c)

Next ==
    \/ \E c \in Conns : Connect(c) \/ Accept(c) \/ Handle(c)
    \/ AcceptFails \/ Reject \/ TakeSlot \/ Spawn
    \/ Signal \/ WaitReturns \/ Main

Spec == Init /\ [][Next]_vars

(* main is scheduled and its timer runs.  Nothing is assumed of clients or *)
(* of the goroutines that serve them.                                      *)
FairSpec == Spec /\ WF_vars(Main)
-----------------------------------------------------------------------------
(* However the connections come, go and are refused, no more than PoolSize *)
(* goroutines serve connections.                                           *)
PoolBounded == Cardinality({c \in Conns : conn[c] \in Running \ {"done"}}) <= PoolSize

(* Two goroutines that find a partition missing at the same time end up    *)
(* with one store for it ("BrokerStore manages one *PartitionStore per     *)
(* topic-partition"): two writers on one directory would mix their bytes.  *)
OneStorePerPartition ==
    \A i, j \in 1..Len(objs) : objs[i].part = objs[j].part => i = j

Stored == UNION {objs[i].disk : i \in 1..Len(objs)}

(* A batch acknowledged before its store was closed is in the file when    *)
(* the process ends, on the timeout's path as well, and when the store of  *)
(* another partition fails to close.                                       *)
KeptStored == main = "exited" => kept \subseteq Stored

(* "all connections drained, Kage stopped cleanly": after that message no  *)
(* acknowledged batch is lost.                                             *)
CleanStop == main = "exited" /\ drained => acked \subseteq Stored

(* Once the signal is received the process ends, though a client may keep  *)
(* its connection open for ever.                                           *)
ShutdownEnds == main = "signalled" ~> main = "exited"
=============================================================================
