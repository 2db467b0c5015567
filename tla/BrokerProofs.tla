---------------------------- MODULE BrokerProofs ----------------------------
(***************************************************************************)
(* Proofs about Broker, for any number of connections and partitions and   *)
(* every pool size: the worker pool's bound, one store per partition, and  *)
(* what is in the files when the process ends.                             *)
(***************************************************************************)
EXTENDS Broker, FiniteSetTheorems, TLAPS

(* The goroutines that hold a token of the pool, and those that the        *)
(* WaitGroup counts.                                                       *)
Busy == {c \in Conns : conn[c] \in Running \ {"done"}}
Counted == {c \in Conns : conn[c] \in Running}

Scalars ==
    /\ main \in {"serving", "signalled", "waiting", "closing", "closed", "exited"}
    /\ waiter \in {"off", "waiting", "done"} /\ drained \in BOOLEAN

Hand ==
    /\ acceptor \in {"accept", "select", "add", "dead"} /\ inHand \in Conns \cup {None}
    /\ conn \in [Conns -> Running \cup {"new", "queued", "taken", "gone"}]
    /\ acceptor \in {"select", "add"} => inHand \in Conns /\ conn[inHand] = "taken"

(* A token is taken before the goroutine is counted as busy. *)
Tokens ==
    /\ IsFiniteSet(Busy) /\ sem \in 0..PoolSize
    /\ acceptor # "add" => sem = Cardinality(Busy)
    /\ acceptor = "add" => sem = Cardinality(Busy) + 1

Group == IsFiniteSet(Counted) /\ wg = Cardinality(Counted)

PoolInv == Hand /\ Tokens /\ Group

(* The map and the objects agree: every object is the one of its partition. *)
Mapped ==
    /\ objs \in Seq(PartitionStore) /\ stores \in [Parts -> 0..Len(objs)]
    /\ \A i \in 1..Len(objs) : stores[objs[i].part] = i
    /\ \A p \in Parts : stores[p] # 0 => objs[stores[p]].part = p

(* What a goroutine in handleProduce holds. *)
Held ==
    /\ use \in [Conns -> [part: Parts \cup {None}, obj: 0..Len(objs), id: 0..MaxBatches]]
    /\ next \in 0..MaxBatches
    /\ \A c \in Conns :
         /\ conn[c] \in {"lookup", "create", "append", "respond"} =>
              use[c].part \in Parts /\ use[c].id \in Batches
         /\ conn[c] \in {"append", "respond"} => use[c].obj \in 1..Len(objs)
         /\ conn[c] = "respond" /\ Obj(c).open /\ Obj(c).part \notin Broken =>
              use[c].id \in Obj(c).buf \cup Obj(c).disk

(* An acknowledged batch that has to survive is in a file, or in a buffer  *)
(* that BrokerStore.Close will still write.                                *)
Safe(b) ==
    \E i \in 1..Len(objs) :
        \/ b \in objs[i].disk
        \/ /\ b \in objs[i].buf /\ objs[i].open /\ objs[i].part \notin Broken
           /\ main \notin {"closed", "exited"}

Kept ==
    /\ kept \subseteq acked /\ acked \subseteq Batches
    /\ \A b \in kept : Safe(b)

IInv == Scalars /\ PoolInv /\ Mapped /\ Held /\ Kept
-----------------------------------------------------------------------------
(* What moving one goroutine does to the two counts. *)
LEMMA Moves ==
    ASSUME NEW c \in Conns, NEW to, Hand, conn' = [conn EXCEPT ![c] = to]
    PROVE  /\ Busy' = IF to \in Running \ {"done"} THEN Busy \cup {c} ELSE Busy \ {c}
           /\ Counted' = IF to \in Running THEN Counted \cup {c} ELSE Counted \ {c}
  BY DEF Hand, Busy, Counted

LEMMA Counts ==
    ASSUME PoolInv, NEW c
    PROVE  /\ Cardinality(Busy) \in Nat /\ Cardinality(Counted) \in Nat
           /\ IsFiniteSet(Busy \cup {c}) /\ IsFiniteSet(Counted \cup {c})
           /\ IsFiniteSet(Busy \ {c}) /\ IsFiniteSet(Counted \ {c})
           /\ c \notin Busy => /\ Cardinality(Busy \cup {c}) = Cardinality(Busy) + 1
                               /\ Cardinality(Busy \ {c}) = Cardinality(Busy)
           /\ c \in Busy => /\ Cardinality(Busy \cup {c}) = Cardinality(Busy)
                            /\ Cardinality(Busy \ {c}) = Cardinality(Busy) - 1
           /\ c \notin Counted => /\ Cardinality(Counted \cup {c}) = Cardinality(Counted) + 1
                                  /\ Cardinality(Counted \ {c}) = Cardinality(Counted)
           /\ c \in Counted => /\ Cardinality(Counted \cup {c}) = Cardinality(Counted)
                               /\ Cardinality(Counted \ {c}) = Cardinality(Counted) - 1
<1>1. IsFiniteSet(Busy) /\ IsFiniteSet(Counted)
  BY DEF PoolInv, Tokens, Group
<1>2. QED
  BY <1>1, FS_CardinalityType, FS_AddElement, FS_RemoveElement

(* A step inside a goroutine keeps both counts. *)
LEMMA Inside ==
    ASSUME PoolInv, NEW c \in Conns, NEW from \in Running \ {"done"},
           NEW to \in Running \ {"done"}, conn[c] = from, conn' = [conn EXCEPT ![c] = to],
           UNCHANGED poolVars
    PROVE  PoolInv'
<1>1. Busy' = Busy /\ Counted' = Counted
  BY Moves DEF PoolInv, Busy, Counted
<1>2. Hand'
  BY DEF PoolInv, Hand, poolVars, Running
<1>3. QED
  BY <1>1, <1>2 DEF PoolInv, Tokens, Group, poolVars
-----------------------------------------------------------------------------
(* Every step keeps the pool's invariant. *)
LEMMA PoolStep ==
    ASSUME PoolInv, [Next]_vars
    PROVE  PoolInv'
<1> USE BrokerAssumption
<1>1. ASSUME NEW c \in Conns, Connect(c) PROVE PoolInv'
  <2>1. Busy' = Busy /\ Counted' = Counted
    BY <1>1, Moves DEF PoolInv, Connect, Busy, Counted, Running
  <2>2. Hand'
    BY <1>1 DEF PoolInv, Hand, Connect, poolVars, Running
  <2>3. QED
    BY <1>1, <2>1, <2>2 DEF PoolInv, Tokens, Group, Connect, poolVars
<1>2. ASSUME NEW c \in Conns, Accept(c) PROVE PoolInv'
  <2>1. Busy' = Busy /\ Counted' = Counted
    BY <1>2, Moves DEF PoolInv, Accept, Busy, Counted, Running
  <2>2. Hand'
    BY <1>2 DEF PoolInv, Hand, Accept
  <2>3. QED
    BY <1>2, <2>1, <2>2 DEF PoolInv, Tokens, Group, Accept
<1>3. CASE AcceptFails
  <2>1. Busy' = Busy /\ Counted' = Counted
    BY <1>3 DEF AcceptFails, Busy, Counted
  <2>2. Hand'
    BY <1>3 DEF PoolInv, Hand, AcceptFails
  <2>3. QED
    BY <1>3, <2>1, <2>2 DEF PoolInv, Tokens, Group, AcceptFails
<1>4. CASE Reject
  <2>1. inHand \in Conns /\ conn[inHand] = "taken" /\ acceptor = "select"
    BY <1>4 DEF PoolInv, Hand, Reject
  <2>2. Busy' = Busy /\ Counted' = Counted
    BY <1>4, <2>1, Moves DEF PoolInv, Reject, Busy, Counted, Running
  <2>3. Hand'
    BY <1>4 DEF PoolInv, Hand, Reject
  <2>4. QED
    BY <1>4, <2>1, <2>2, <2>3 DEF PoolInv, Tokens, Group, Reject
<1>5. CASE TakeSlot
  <2>1. Busy' = Busy /\ Counted' = Counted /\ acceptor = "select"
    BY <1>5 DEF TakeSlot, Busy, Counted
  <2>2. Hand'
    BY <1>5 DEF PoolInv, Hand, TakeSlot
  <2>3. QED
    BY <1>5, <2>1, <2>2 DEF PoolInv, Tokens, Group, TakeSlot
<1>6. CASE Spawn
  <2>1. inHand \in Conns /\ conn[inHand] = "taken" /\ acceptor = "add"
    BY <1>6 DEF PoolInv, Hand, Spawn
  <2>2. Busy' = Busy \cup {inHand} /\ Counted' = Counted \cup {inHand}
    <3>1. Hand /\ conn' = [conn EXCEPT ![inHand] = "parse"]
      BY <1>6 DEF PoolInv, Spawn
    <3>2. "parse" \in Running /\ "parse" \in Running \ {"done"}
      BY DEF Running
    <3>3. QED
      BY <2>1, <3>1, <3>2, Moves
  <2>3. inHand \notin Busy /\ inHand \notin Counted
    BY <2>1 DEF Busy, Counted, Running
  <2>4. Hand'
    BY <1>6 DEF PoolInv, Hand, Spawn, Running
  <2>5. QED
    BY <1>6, <2>1, <2>2, <2>3, <2>4, Counts DEF PoolInv, Tokens, Group, Spawn
<1>7. ASSUME NEW c \in Conns, Handle(c) PROVE PoolInv'
  <2>1. ASSUME NEW p \in Parts, Request(c, p) PROVE PoolInv'
    BY <2>1, Inside DEF Request, Step, Running
  <2>2. CASE Lookup(c)
    <3>1. PICK to \in {"create", "append"} : conn' = [conn EXCEPT ![c] = to]
      BY <2>2 DEF Lookup, Step
    <3>2. QED
      BY <2>2, <3>1, Inside DEF Lookup, Step, Running
  <2>3. CASE FoundLate(c)
    BY <2>3, Inside DEF FoundLate, Step, Running
  <2>4. CASE Create(c)
    BY <2>4, Inside DEF Create, Step, Running
  <2>5. CASE CreateFails(c)
    BY <2>5, Inside DEF CreateFails, Step, Running
  <2>6. CASE AppendBuffered(c)
    BY <2>6, Inside DEF AppendBuffered, Step, Running
  <2>7. CASE AppendWritten(c)
    BY <2>7, Inside DEF AppendWritten, Step, Running
  <2>8. CASE AppendFails(c)
    BY <2>8, Inside DEF AppendFails, Step, Running
  <2>9. CASE Respond(c)
    BY <2>9, Inside DEF Respond, Step, Running
  <2>10. CASE HangUp(c)
    <3>1. PICK from \in {"parse", "respond"} : conn[c] = from /\ conn' = [conn EXCEPT ![c] = "free"]
      BY <2>10 DEF HangUp, Step
    <3>2. QED
      BY <2>10, <3>1, Inside DEF HangUp, Running
  <2>11. CASE FreeSlot(c)
    <3>a. Hand /\ conn[c] = "free" /\ conn' = [conn EXCEPT ![c] = "done"]
      BY <2>11 DEF PoolInv, FreeSlot, Step
    <3>b. c \in Busy /\ c \in Counted
      BY <3>a DEF Busy, Counted, Running
    <3>c. "done" \in Running /\ "done" \notin Running \ {"done"}
      BY DEF Running
    <3>1. Busy' = Busy \ {c} /\ Counted' = Counted \cup {c}
      BY <3>a, <3>c, Moves
    <3>2. Hand'
      BY <2>11 DEF PoolInv, Hand, FreeSlot, Step, Running
    <3>3. Cardinality(Busy \ {c}) \in Nat /\ Cardinality(Busy) \in Nat
      BY <3>b, Counts, FS_CardinalityType
    <3>d. IsFiniteSet(Busy \ {c}) /\ Cardinality(Busy \ {c}) = Cardinality(Busy) - 1
      BY <3>b, Counts
    <3>e. acceptor' = acceptor /\ sem' = sem - 1
      BY <2>11 DEF FreeSlot
    <3>4. Tokens'
      BY <3>d, <3>e, <3>1, <3>3 DEF PoolInv, Tokens
    <3>5. Group'
      BY <2>11, <3>b, <3>1, Counts DEF PoolInv, Group, FreeSlot
    <3>6. QED
      BY <3>2, <3>4, <3>5 DEF PoolInv
  <2>12. CASE WgDone(c)
    <3>a. Hand /\ conn[c] = "done" /\ conn' = [conn EXCEPT ![c] = "gone"]
      BY <2>12 DEF PoolInv, WgDone, Step
    <3>b. c \notin Busy /\ c \in Counted
      BY <3>a DEF Busy, Counted, Running
    <3>c. "gone" \notin Running /\ "gone" \notin Running \ {"done"}
      BY DEF Running
    <3>1. Busy' = Busy \ {c} /\ Counted' = Counted \ {c}
      BY <3>a, <3>c, Moves
    <3>2. Hand'
      BY <2>12 DEF PoolInv, Hand, WgDone, Step, Running
    <3>3. Tokens'
      BY <2>12, <3>b, <3>1, Counts DEF PoolInv, Tokens, WgDone
    <3>4. Group'
      BY <2>12, <3>b, <3>1, Counts DEF PoolInv, Group, WgDone
    <3>5. QED
      BY <3>2, <3>3, <3>4 DEF PoolInv
  <2>13. QED
    BY <1>7, <2>1, <2>2, <2>3, <2>4, <2>5, <2>6, <2>7, <2>8, <2>9, <2>10, <2>11, <2>12
       DEF Handle
<1>8. CASE CloseListener
  <2>1. Busy' = Busy /\ Counted' = Counted
    BY <1>8 DEF PoolInv, Hand, CloseListener, Busy, Counted, Running
  <2>2. Hand'
    BY <1>8 DEF PoolInv, Hand, CloseListener, MainStep, poolVars
  <2>3. QED
    BY <1>8, <2>1, <2>2 DEF PoolInv, Tokens, Group, CloseListener, MainStep, poolVars
<1>9. CASE UNCHANGED <<poolVars, conn>>
  BY <1>9 DEF PoolInv, Hand, Tokens, Group, Busy, Counted, poolVars
<1>10. CASE Signal \/ WaitReturns \/ UNCHANGED vars
  BY <1>9, <1>10 DEF Signal, WaitReturns, MainStep, vars
<1>11. CASE Main
  BY <1>8, <1>9, <1>11
     DEF Main, Drained, Timeout, CloseStore, StoresClosed, Exit, MainStep
<1>12. QED
  BY <1>1, <1>2, <1>3, <1>4, <1>5, <1>6, <1>7, <1>10, <1>11 DEF Next
-----------------------------------------------------------------------------
StoreInv == Mapped /\ Held /\ Kept

InProduce == {"lookup", "create", "append", "respond"}

(* A step that touches neither the stores nor what a goroutine in          *)
(* handleProduce holds.                                                    *)
LEMMA QuietStep ==
    ASSUME StoreInv, UNCHANGED <<storeVars, use, next, acked, kept>>,
           \A c \in Conns : conn'[c] \in InProduce => conn'[c] = conn[c],
           main' \in {"closed", "exited"} => main \in {"closed", "exited"}
    PROVE  StoreInv'
<1>1. Mapped'
  BY DEF StoreInv, Mapped, storeVars
<1>2. Held'
  BY DEF StoreInv, Held, Obj, InProduce, storeVars
<1>3. Kept'
  BY DEF StoreInv, Kept, Safe, storeVars
<1>4. QED
  BY <1>1, <1>2, <1>3 DEF StoreInv

(* A step of a goroutine that changes only what it holds. *)
LEMMA UseStep ==
    ASSUME StoreInv, PoolInv, NEW c \in Conns, NEW to,
           NEW u \in [part: Parts \cup {None}, obj: 0..Len(objs), id: 0..MaxBatches],
           conn' = [conn EXCEPT ![c] = to], use' = [use EXCEPT ![c] = u],
           UNCHANGED <<main, storeVars, acked, kept>>, next' \in 0..MaxBatches,
           to \in InProduce => u.part \in Parts /\ u.id \in Batches,
           to = "append" => u.obj \in 1..Len(objs), to # "respond"
    PROVE  StoreInv'
<1>1. Mapped'
  BY DEF StoreInv, Mapped, storeVars
<1>2. Kept'
  BY DEF StoreInv, Kept, Safe, storeVars
<1>3. Held'
  <2>1. use' \in [Conns -> [part: Parts \cup {None}, obj: 0..Len(objs'), id: 0..MaxBatches]]
    BY DEF StoreInv, Held, storeVars
  <2>2. use'[c] = u /\ conn'[c] = to
    BY DEF StoreInv, Held, PoolInv, Hand
  <2>3. \A d \in Conns : d # c => use'[d] = use[d] /\ conn'[d] = conn[d]
    BY DEF StoreInv, Held, PoolInv, Hand
  <2>4. QED
    BY <2>1, <2>2, <2>3 DEF StoreInv, Held, Obj, InProduce, storeVars
<1>4. QED
  BY <1>1, <1>2, <1>3 DEF StoreInv

(* A store is replaced by one for the same partition that has every batch  *)
(* the other had, or every one that will be written.                       *)
LEMMA ObjStep ==
    ASSUME StoreInv, NEW k \in 1..Len(objs), NEW o \in PartitionStore,
           objs' = [objs EXCEPT ![k] = o], o.part = objs[k].part,
           o.open => objs[k].open,
           UNCHANGED <<stores, use, next, acked, kept>>,
           main' \in {"closed", "exited"} => main \in {"closed", "exited"},
           objs[k].disk \subseteq o.disk,
           objs[k].open /\ o.part \notin Broken =>
               objs[k].buf \subseteq IF o.open THEN o.buf \cup o.disk ELSE o.disk,
           \A c \in Conns : conn'[c] \in InProduce =>
               \/ conn'[c] = conn[c]
               \/ /\ conn[c] = "append" /\ conn'[c] = "respond" /\ use[c].obj = k
                  /\ use[c].id \in o.buf \cup o.disk
    PROVE  StoreInv'
<1>1. /\ Len(objs') = Len(objs) /\ objs' \in Seq(PartitionStore) /\ objs'[k] = o
      /\ \A j \in 1..Len(objs) : j # k => objs'[j] = objs[j]
  BY DEF StoreInv, Mapped
<1>2. \A j \in 1..Len(objs) :
        /\ objs'[j].part = objs[j].part /\ (objs'[j].open => objs[j].open)
        /\ objs[j].disk \subseteq objs'[j].disk
        /\ objs[j].open /\ objs[j].part \notin Broken =>
             \A b \in objs[j].buf : b \in objs'[j].disk \/ (objs'[j].open /\ b \in objs'[j].buf)
  BY <1>1
<1>3. Mapped'
  BY <1>1, <1>2 DEF StoreInv, Mapped
<1>4. Kept'
  BY <1>1, <1>2 DEF StoreInv, Kept, Safe
<1>5. Held'
  <2>1. ASSUME NEW c \in Conns, conn'[c] = "respond", objs'[use[c].obj].open,
               objs'[use[c].obj].part \notin Broken, use[c].obj \in 1..Len(objs)
        PROVE  use[c].id \in objs'[use[c].obj].buf \cup objs'[use[c].obj].disk
    <3>1. CASE conn'[c] = conn[c]
      BY <1>2, <2>1, <3>1 DEF StoreInv, Held, Obj
    <3>2. CASE use[c].obj = k /\ use[c].id \in o.buf \cup o.disk
      BY <1>1, <3>2
    <3>3. QED
      BY <2>1, <3>1, <3>2 DEF InProduce
  <2>2. /\ use' \in [Conns -> [part: Parts \cup {None}, obj: 0..Len(objs'), id: 0..MaxBatches]]
        /\ next' \in 0..MaxBatches
    BY <1>1 DEF StoreInv, Held
  <2>3. ASSUME NEW c \in Conns, conn'[c] \in InProduce
        PROVE  use[c].part \in Parts /\ use[c].id \in Batches
    BY <2>3 DEF StoreInv, Held, InProduce
  <2>4. ASSUME NEW c \in Conns, conn'[c] \in {"append", "respond"}
        PROVE  use[c].obj \in 1..Len(objs)
    <3>1. conn'[c] \in InProduce
      BY <2>4 DEF InProduce
    <3>2. conn'[c] = conn[c] \/ conn[c] = "append"
      BY <3>1
    <3>3. QED
      BY <2>4, <3>2 DEF StoreInv, Held
  <2>5. QED
    BY <1>1, <2>1, <2>2, <2>3, <2>4 DEF Held, Obj, InProduce
<1>6. QED
  BY <1>3, <1>4, <1>5 DEF StoreInv
-----------------------------------------------------------------------------
(* GetOrCreatePartition adds a store for a partition that has none. *)
LEMMA CreateStep ==
    ASSUME StoreInv, PoolInv, NEW c \in Conns, Create(c)
    PROVE  StoreInv'
<1> DEFINE o == [part |-> use[c].part, open |-> TRUE, buf |-> {}, disk |-> {}]
           n == Len(objs) + 1
<1>1. /\ conn[c] = "create" /\ conn' = [conn EXCEPT ![c] = "append"]
      /\ stores[use[c].part] = 0 /\ objs' = Append(objs, o)
      /\ UNCHANGED <<main, next, acked, kept>>
  BY DEF Create, Step
<1>2. use[c].part \in Parts /\ use[c].id \in Batches /\ o \in PartitionStore
  BY <1>1 DEF StoreInv, Held, PartitionStore
<1>3. /\ objs' \in Seq(PartitionStore) /\ Len(objs') = n /\ objs'[n] = o
      /\ \A j \in 1..Len(objs) : objs'[j] = objs[j]
      /\ Len(objs) \in Nat
  BY <1>1, <1>2 DEF StoreInv, Mapped
<1>4. stores' = [stores EXCEPT ![use[c].part] = n]
  BY <1>3 DEF Create
<1>5. Mapped'
  <2>1. stores' \in [Parts -> 0..Len(objs')]
    BY <1>2, <1>3, <1>4 DEF StoreInv, Mapped
  <2>2. ASSUME NEW j \in 1..Len(objs') PROVE stores'[objs'[j].part] = j
    <3>1. CASE j = n
      BY <1>2, <1>3, <1>4, <3>1 DEF StoreInv, Mapped
    <3>2. CASE j \in 1..Len(objs)
      <4>1. stores[objs[j].part] = j /\ objs[j].part \in Parts
        <5>1. objs[j] \in PartitionStore /\ stores[objs[j].part] = j
          BY <3>2 DEF StoreInv, Mapped
        <5>2. QED
          BY <5>1 DEF PartitionStore
      <4>2. objs[j].part # use[c].part
        BY <1>1, <3>2, <4>1
      <4>3. QED
        BY <1>3, <1>4, <3>2, <4>1, <4>2 DEF StoreInv, Mapped
    <3>3. QED
      BY <1>3, <3>1, <3>2
  <2>3. ASSUME NEW p \in Parts, stores'[p] # 0 PROVE objs'[stores'[p]].part = p
    <3>1. CASE p = use[c].part
      <4>1. stores \in [Parts -> 0..Len(objs)]
        BY DEF StoreInv, Mapped
      <4>2. stores'[p] = n
        BY <1>4, <3>1, <4>1
      <4>3. objs'[n].part = use[c].part
        BY <1>3
      <4>4. QED
        BY <3>1, <4>2, <4>3, Zenon
    <3>2. CASE p # use[c].part
      <4>1. stores'[p] = stores[p] /\ stores[p] \in 1..Len(objs) /\ objs[stores[p]].part = p
        BY <1>4, <2>3, <3>2 DEF StoreInv, Mapped
      <4>2. QED
        BY <1>3, <4>1
    <3>3. QED
      BY <3>1, <3>2
  <2>4. QED
    BY <1>3, <2>1, <2>2, <2>3 DEF Mapped
<1>6. Kept'
  BY <1>1, <1>3 DEF StoreInv, Kept, Safe
<1>7. Held'
  <2>1. use' = [use EXCEPT ![c] = [part |-> use[c].part, obj |-> n, id |-> use[c].id]]
    BY <1>3 DEF Create, Holding
  <2>2. use' \in [Conns -> [part: Parts \cup {None}, obj: 0..Len(objs'), id: 0..MaxBatches]]
    BY <1>3, <2>1 DEF StoreInv, Held
  <2>3. use'[c].part \in Parts /\ use'[c].id \in Batches /\ use'[c].obj = n /\ conn'[c] = "append"
    BY <1>1, <1>2, <2>1 DEF StoreInv, Held, PoolInv, Hand
  <2>4. \A d \in Conns : d # c => use'[d] = use[d] /\ conn'[d] = conn[d]
    BY <1>1, <2>1 DEF StoreInv, Held, PoolInv, Hand
  <2>5. ASSUME NEW d \in Conns, d # c
        PROVE  /\ conn'[d] \in {"lookup", "create", "append", "respond"} =>
                    use'[d].part \in Parts /\ use'[d].id \in Batches
               /\ conn'[d] \in {"append", "respond"} => use'[d].obj \in 1..Len(objs')
               /\ conn'[d] = "respond" /\ Obj(d)'.open /\ Obj(d)'.part \notin Broken =>
                    use'[d].id \in Obj(d)'.buf \cup Obj(d)'.disk
    <3>1. conn[d] \in {"append", "respond"} => use[d].obj \in 1..Len(objs) /\ Obj(d)' = Obj(d)
      BY <1>3, <2>4, <2>5 DEF StoreInv, Held, Obj
    <3>2. use'[d] = use[d] /\ conn'[d] = conn[d] /\ Len(objs') = Len(objs) + 1
      BY <1>3, <2>4, <2>5
    <3>3. QED
      BY <1>3, <3>1, <3>2 DEF StoreInv, Held
  <2>6. use'[c].obj \in 1..Len(objs') /\ next' \in 0..MaxBatches
    BY <1>1, <1>3, <2>3 DEF StoreInv, Held
  <2>7. QED
    BY <2>2, <2>3, <2>5, <2>6 DEF Held
<1>8. QED
  BY <1>5, <1>6, <1>7 DEF StoreInv

(* A goroutine's steps keep the stores' invariant. *)
LEMMA HandleStep ==
    ASSUME StoreInv, PoolInv, NEW c \in Conns, Handle(c)
    PROVE  StoreInv'
<1> USE BrokerAssumption
<1>a. /\ use[c] \in [part: Parts \cup {None}, obj: 0..Len(objs), id: 0..MaxBatches]
      /\ NoUse \in [part: Parts \cup {None}, obj: 0..Len(objs), id: 0..MaxBatches]
      /\ Len(objs) \in Nat
  BY DEF StoreInv, Held, Mapped, NoUse
<1>b. ASSUME use' = [use EXCEPT ![c] = NoUse], NEW to \in {"parse", "free"},
             conn' = [conn EXCEPT ![c] = to], UNCHANGED <<main, storeVars, next, acked, kept>>
      PROVE  StoreInv'
  <2>1. next' \in 0..MaxBatches
    BY <1>b DEF StoreInv, Held
  <2>2. QED
    BY <1>a, <1>b, <2>1, UseStep DEF InProduce
<1>1. ASSUME NEW p \in Parts, Request(c, p) PROVE StoreInv'
  <2> DEFINE u == [part |-> p, obj |-> 0, id |-> next]
  <2>1. /\ use' = [use EXCEPT ![c] = u] /\ conn' = [conn EXCEPT ![c] = "lookup"]
        /\ UNCHANGED <<main, storeVars, acked, kept>> /\ next < MaxBatches /\ next' = next + 1
    BY <1>1 DEF Request, Step
  <2>2. next' \in 0..MaxBatches /\ next \in Batches
    BY <2>1 DEF StoreInv, Held, Batches
  <2>3. u \in [part: Parts \cup {None}, obj: 0..Len(objs), id: 0..MaxBatches]
    BY <1>a DEF StoreInv, Held
  <2>4. QED
    BY <2>1, <2>2, <2>3, UseStep
<1>2. ASSUME NEW to \in {"create", "append"}, conn[c] \in {"lookup", "create"},
             stores[use[c].part] # 0 <=> to = "append",
             use' = Holding(c, stores[use[c].part]), conn' = [conn EXCEPT ![c] = to],
             UNCHANGED <<main, storeVars, next, acked, kept>>
      PROVE  StoreInv'
  <2> DEFINE u == [part |-> use[c].part, obj |-> stores[use[c].part], id |-> use[c].id]
  <2>1. use[c].part \in Parts /\ use[c].id \in Batches /\ use[c].id \in 0..MaxBatches
    BY <1>2 DEF StoreInv, Held
  <2>2. stores[use[c].part] \in 0..Len(objs) /\ next' \in 0..MaxBatches
    BY <1>2, <2>1 DEF StoreInv, Mapped, Held
  <2>3. to = "append" => u.obj \in 1..Len(objs)
    BY <1>2, <2>2
  <2>4. use' = [use EXCEPT ![c] = u]
    BY <1>2 DEF Holding
  <2>5. u \in [part: Parts \cup {None}, obj: 0..Len(objs), id: 0..MaxBatches]
    BY <2>1, <2>2
  <2>6. QED
    BY <1>2, <2>1, <2>2, <2>3, <2>4, <2>5, UseStep
<1>3. CASE Lookup(c)
  <2>1. PICK to \in {"create", "append"} :
          conn' = [conn EXCEPT ![c] = to] /\ (stores[use[c].part] # 0 <=> to = "append")
    BY <1>3 DEF Lookup, Step
  <2>2. QED
    BY <1>2, <1>3, <2>1 DEF Lookup
<1>4. CASE FoundLate(c)
  BY <1>2, <1>4 DEF FoundLate, Step
<1>5. CASE CreateFails(c)
  BY <1>b, <1>5 DEF CreateFails, Step
<1>6. CASE AppendFails(c)
  BY <1>b, <1>6 DEF AppendFails, Step
<1>7. CASE HangUp(c)
  BY <1>b, <1>7 DEF HangUp, Step
<1>8. ASSUME conn[c] = "append", conn' = [conn EXCEPT ![c] = "respond"],
             NEW o \in PartitionStore, objs' = [objs EXCEPT ![use[c].obj] = o],
             o.part = Obj(c).part, o.open = Obj(c).open, Obj(c).disk \subseteq o.disk,
             Obj(c).buf \subseteq o.buf \cup o.disk, use[c].id \in o.buf \cup o.disk,
             UNCHANGED <<main, stores, use, next, acked, kept>>
      PROVE  StoreInv'
  <2>1. use[c].obj \in 1..Len(objs)
    BY <1>8 DEF StoreInv, Held
  <2>2. \A d \in Conns : conn'[d] \in InProduce =>
           \/ conn'[d] = conn[d]
           \/ /\ conn[d] = "append" /\ conn'[d] = "respond" /\ use[d].obj = use[c].obj
              /\ use[d].id \in o.buf \cup o.disk
    BY <1>8 DEF PoolInv, Hand
  <2>3. objs[use[c].obj].open /\ o.part \notin Broken =>
          objs[use[c].obj].buf \subseteq IF o.open THEN o.buf \cup o.disk ELSE o.disk
    BY <1>8 DEF Obj
  <2>4. QED
    BY <1>8, <2>1, <2>2, <2>3, ObjStep DEF Obj
<1>c. conn[c] = "append" => Obj(c) \in PartitionStore /\ use[c].id \in Batches
  BY DEF StoreInv, Held, Mapped, Obj
<1>9. CASE AppendBuffered(c)
  <2> DEFINE o == [Obj(c) EXCEPT !.buf = Obj(c).buf \cup {use[c].id}]
  <2>1. conn[c] = "append" /\ objs' = [objs EXCEPT ![use[c].obj] = o]
    BY <1>9 DEF AppendBuffered, Step, Obj
  <2>2. o \in PartitionStore /\ o.part = Obj(c).part /\ o.open = Obj(c).open
        /\ o.disk = Obj(c).disk /\ o.buf = Obj(c).buf \cup {use[c].id}
    BY <1>c, <2>1 DEF PartitionStore
  <2>3. QED
    BY <1>8, <1>9, <2>1, <2>2 DEF AppendBuffered, Step
<1>10. CASE AppendWritten(c)
  <2> DEFINE o == [Obj(c) EXCEPT !.disk = Obj(c).disk \cup Obj(c).buf \cup {use[c].id},
                                 !.buf = {}]
  <2>1. conn[c] = "append" /\ use[c].obj \in 1..Len(objs)
    BY <1>10 DEF AppendWritten, Step, StoreInv, Held
  <2>2. objs' = [objs EXCEPT ![use[c].obj] = o]
    BY <1>10, <2>1, <1>c DEF AppendWritten, Obj, StoreInv, Mapped, PartitionStore
  <2>3. o \in PartitionStore /\ o.part = Obj(c).part /\ o.open = Obj(c).open
        /\ o.disk = Obj(c).disk \cup Obj(c).buf \cup {use[c].id} /\ o.buf = {}
    BY <1>c, <2>1 DEF PartitionStore
  <2>4. QED
    BY <1>8, <1>10, <2>1, <2>2, <2>3 DEF AppendWritten, Step
<1>11. CASE Respond(c)
  <2>1. /\ conn[c] = "respond" /\ conn' = [conn EXCEPT ![c] = "parse"] /\ main # "exited"
        /\ use' = [use EXCEPT ![c] = NoUse] /\ UNCHANGED <<main, storeVars, next>>
        /\ acked' = acked \cup {use[c].id}
    BY <1>11 DEF Respond, Step, Alive
  <2>2. use[c].id \in Batches /\ use[c].obj \in 1..Len(objs)
    BY <2>1 DEF StoreInv, Held
  <2>3. Mapped'
    BY <2>1 DEF StoreInv, Mapped, storeVars
  <2>4. \A b \in kept : Safe(b)'
    BY <2>1 DEF StoreInv, Kept, Safe, storeVars
  <2>5. ASSUME NEW b, b = use[c].id,
               Obj(c).open, Obj(c).part \notin Broken, main # "closed"
        PROVE  Safe(b)'
    <3>1. b \in Obj(c).buf \cup Obj(c).disk
      BY <2>1, <2>5 DEF StoreInv, Held
    <3>2. main' = main /\ objs' = objs /\ main \notin {"closed", "exited"}
      BY <2>1, <2>5 DEF storeVars
    <3>3. QED
      BY <2>2, <2>5, <3>1, <3>2 DEF Safe, Obj
  <2>6. Kept'
    <3>1. kept' = kept \/ (kept' = kept \cup {use[c].id} /\ Obj(c).open
                           /\ Obj(c).part \notin Broken /\ main # "closed")
      BY <1>11 DEF Respond
    <3>2. kept' \subseteq acked' /\ acked' \subseteq Batches
      BY <2>1, <2>2, <3>1 DEF StoreInv, Kept
    <3>3. \A b \in kept' : Safe(b)'
      BY <2>4, <2>5, <3>1
    <3>4. QED
      BY <3>2, <3>3 DEF Kept
  <2>7. Held'
    <3>1. use'[c] = NoUse /\ conn'[c] = "parse"
      BY <2>1 DEF StoreInv, Held, PoolInv, Hand
    <3>2. \A d \in Conns : d # c => use'[d] = use[d] /\ conn'[d] = conn[d]
      BY <2>1 DEF StoreInv, Held, PoolInv, Hand
    <3>3. use' \in [Conns -> [part: Parts \cup {None}, obj: 0..Len(objs'), id: 0..MaxBatches]]
      BY <1>a, <2>1 DEF StoreInv, Held, storeVars
    <3>4. QED
      <4>1. objs' = objs /\ next' = next /\ next \in 0..MaxBatches
        BY <2>1 DEF StoreInv, Held, storeVars
      <4>2. ASSUME NEW d \in Conns
            PROVE  /\ conn'[d] \in InProduce =>
                        use'[d].part \in Parts /\ use'[d].id \in Batches
                   /\ conn'[d] \in {"append", "respond"} => use'[d].obj \in 1..Len(objs)
                   /\ conn'[d] = "respond" /\ objs[use'[d].obj].open
                      /\ objs[use'[d].obj].part \notin Broken =>
                        use'[d].id \in objs[use'[d].obj].buf \cup objs[use'[d].obj].disk
        <5>1. CASE d = c
          BY <3>1, <5>1 DEF InProduce
        <5>2. CASE d # c
          BY <3>2, <5>2 DEF StoreInv, Held, Obj, InProduce
        <5>3. QED
          BY <5>1, <5>2
      <4>3. QED
        BY <3>3, <4>1, <4>2 DEF Held, Obj, InProduce
  <2>8. QED
    BY <2>3, <2>6, <2>7 DEF StoreInv
<1>12. CASE FreeSlot(c) \/ WgDone(c)
  <2>1. \A d \in Conns : conn'[d] \in InProduce => conn'[d] = conn[d]
    BY <1>12 DEF FreeSlot, WgDone, Step, InProduce, PoolInv, Hand
  <2>2. QED
    BY <1>12, <2>1, QuietStep DEF FreeSlot, WgDone
<1>13. QED
  BY <1>1, <1>3, <1>4, <1>5, <1>6, <1>7, <1>9, <1>10, <1>11, <1>12, CreateStep DEF Handle
-----------------------------------------------------------------------------
LEMMA StoreStep ==
    ASSUME StoreInv, PoolInv, [Next]_vars
    PROVE  StoreInv'
<1>1. ASSUME UNCHANGED <<storeVars, use, next, acked, kept>>,
             conn' = conn, main' \in {"closed", "exited"} => main \in {"closed", "exited"}
      PROVE  StoreInv'
  BY <1>1, QuietStep
<1>2. ASSUME NEW c \in Conns, Connect(c) \/ Accept(c) PROVE StoreInv'
  <2>1. \A d \in Conns : conn'[d] \in InProduce => conn'[d] = conn[d]
    BY <1>2 DEF Connect, Accept, InProduce, PoolInv, Hand
  <2>2. QED
    BY <1>2, <2>1, QuietStep DEF Connect, Accept
<1>3. CASE AcceptFails \/ TakeSlot \/ WaitReturns \/ UNCHANGED vars
  BY <1>1, <1>3 DEF AcceptFails, TakeSlot, WaitReturns, vars
<1>4. CASE Reject \/ Spawn
  <2>1. \A d \in Conns : conn'[d] \in InProduce => conn'[d] = conn[d]
    BY <1>4 DEF Reject, Spawn, InProduce, PoolInv, Hand
  <2>2. QED
    BY <1>4, <2>1, QuietStep DEF Reject, Spawn
<1>5. CASE Signal \/ Drained \/ Timeout \/ Exit
  BY <1>1, <1>5 DEF Signal, Drained, Timeout, Exit, MainStep
<1>6. CASE CloseListener
  <2>1. \A d \in Conns : conn'[d] \in InProduce => conn'[d] = conn[d]
    BY <1>6 DEF CloseListener, InProduce
  <2>2. QED
    BY <1>6, <2>1, QuietStep DEF CloseListener, MainStep
<1>7. ASSUME NEW p \in Parts, CloseStore(p) PROVE StoreInv'
  <2> DEFINE k == stores[p]
             o == [objs[k] EXCEPT !.open = FALSE, !.buf = {},
                                  !.disk = objs[k].disk \cup Flushed(p)]
  <2>1. k \in 1..Len(objs) /\ objs[k].open /\ objs[k].part = p
    BY <1>7 DEF CloseStore, ToClose, StoreInv, Mapped
  <2>2. objs[k] \in PartitionStore
    BY <2>1 DEF StoreInv, Mapped
  <2>3. objs' = [objs EXCEPT ![k] = o]
    BY <1>7, <2>1 DEF CloseStore, StoreInv, Mapped
  <2>4. /\ o \in PartitionStore /\ objs[k].disk \subseteq o.disk /\ ~o.open
        /\ o.part = objs[k].part /\ o.disk = objs[k].disk \cup Flushed(p)
    BY <2>2 DEF PartitionStore, Flushed
  <2>5. o.part \notin Broken => objs[k].buf \subseteq o.disk
    BY <2>1, <2>4 DEF Flushed
  <2>6. /\ UNCHANGED <<stores, use, next, acked, kept>> /\ conn' = conn
        /\ main' \in {"closed", "exited"} => main \in {"closed", "exited"}
    BY <1>7 DEF CloseStore, MainStep
  <2>7. QED
    BY <2>1, <2>3, <2>4, <2>5, <2>6, ObjStep
<1>8. CASE StoresClosed
  <2>1. /\ main' = "closed" /\ main = "closing" /\ conn' = conn /\ ToClose = {}
        /\ UNCHANGED <<stores, objs, use, next, acked, kept>>
    BY <1>8 DEF StoresClosed, MainStep, storeVars
  <2>2. \A i \in 1..Len(objs) : ~objs[i].open
    <3>1. ASSUME NEW i \in 1..Len(objs) PROVE ~objs[i].open
      <4>1. objs[i] \in PartitionStore /\ stores[objs[i].part] = i /\ i # 0
        BY DEF StoreInv, Mapped
      <4>2. objs[i].part \in Parts
        BY <4>1 DEF PartitionStore
      <4>3. QED
        BY <2>1, <4>1, <4>2 DEF ToClose
    <3>2. QED
      BY <3>1
  <2>3. ASSUME NEW b \in kept PROVE Safe(b)'
    BY <2>1, <2>2 DEF StoreInv, Kept, Safe
  <2>4. Kept'
    BY <2>1, <2>3 DEF StoreInv, Kept
  <2>5. Mapped' /\ Held'
    BY <2>1 DEF StoreInv, Mapped, Held, Obj
  <2>6. QED
    BY <2>4, <2>5 DEF StoreInv
<1>9. QED
  BY <1>2, <1>3, <1>4, <1>5, <1>6, <1>7, <1>8, HandleStep DEF Next, Main

LEMMA ScalarsStep ==
    ASSUME Scalars, [Next]_vars
    PROVE  Scalars'
<1>1. CASE UNCHANGED <<main, waiter, drained>>
  BY <1>1 DEF Scalars
<1>2. CASE Signal \/ WaitReturns \/ UNCHANGED vars
  BY <1>2 DEF Scalars, Signal, WaitReturns, MainStep, vars
<1>3. CASE Main
  BY <1>3 DEF Scalars, Main, CloseListener, Drained, Timeout, CloseStore, StoresClosed,
              Exit, MainStep
<1>4. ASSUME NEW c \in Conns, Connect(c) \/ Accept(c) \/ Handle(c)
      PROVE  UNCHANGED <<main, waiter, drained>>
  BY <1>4 DEF Connect, Accept, Handle, Request, Lookup, FoundLate, Create, CreateFails,
              AppendBuffered, AppendWritten, AppendFails, Respond, HangUp, FreeSlot, WgDone
<1>5. CASE AcceptFails \/ Reject \/ TakeSlot \/ Spawn
  BY <1>1, <1>5 DEF AcceptFails, Reject, TakeSlot, Spawn
<1>6. QED
  BY <1>1, <1>2, <1>3, <1>4, <1>5 DEF Next

LEMMA InitHolds == Init => IInv
<1> SUFFICES ASSUME Init PROVE IInv
  OBVIOUS
<1> USE BrokerAssumption DEF Init
<1>1. Busy = {} /\ Counted = {}
  BY DEF Busy, Counted, Running
<1>2. Tokens /\ Group
  BY <1>1, FS_EmptySet DEF Tokens, Group
<1>3. Scalars /\ Hand
  BY DEF Scalars, Hand
<1>4. Mapped /\ Kept
  BY DEF Mapped, Kept
<1>5. NoUse \in [part: Parts \cup {None}, obj: 0..Len(objs), id: 0..MaxBatches]
  BY DEF NoUse
<1>6. Held
  BY <1>5 DEF Held
<1>7. QED
  BY <1>2, <1>3, <1>4, <1>6 DEF IInv, PoolInv

LEMMA Inductive == Spec => []IInv
<1>1. ASSUME IInv, [Next]_vars PROVE IInv'
  BY <1>1, PoolStep, StoreStep, ScalarsStep DEF IInv, StoreInv
<1>2. QED
  BY <1>1, InitHolds, PTL DEF Spec
-----------------------------------------------------------------------------
(* Every variable keeps its type, the counters included: a token is given  *)
(* back and Done is called once for each goroutine the accept loop starts. *)
THEOREM TypeCorrect == Spec => []TypeOK
<1>1. IInv => TypeOK
  <2> SUFFICES ASSUME IInv PROVE TypeOK
    OBVIOUS
  <2>1. wg \in Nat
    BY FS_CardinalityType DEF IInv, PoolInv, Group
  <2>2. QED
    BY <2>1 DEF IInv, Scalars, PoolInv, Hand, Tokens, Mapped, Held, Kept, TypeOK
<1>2. QED
  BY <1>1, Inductive, PTL

(* No more than PoolSize goroutines serve connections: the token is taken  *)
(* before the goroutine starts and given back when it has finished.        *)
THEOREM PoolIsBounded == Spec => []PoolBounded
<1>1. IInv => PoolBounded
  <2> SUFFICES ASSUME IInv PROVE PoolBounded
    OBVIOUS
  <2>1. Cardinality(Busy) \in Nat
    BY FS_CardinalityType DEF IInv, PoolInv, Tokens
  <2>2. Cardinality(Busy) <= PoolSize
    BY <2>1, BrokerAssumption DEF IInv, PoolInv, Tokens, Hand
  <2>3. QED
    BY <2>2 DEF PoolBounded, Busy
<1>2. QED
  BY <1>1, Inductive, PTL

(* GetOrCreatePartition looks at the map again under the write lock, so    *)
(* that a partition never has two stores.                                  *)
THEOREM OneStore == Spec => []OneStorePerPartition
<1>1. IInv => OneStorePerPartition
  BY DEF IInv, Mapped, OneStorePerPartition
<1>2. QED
  BY <1>1, Inductive, PTL

(* What was acknowledged before its store was closed is in a file when the *)
(* process ends, whichever branch of main's select was taken and whichever *)
(* of the stores failed to close.                                          *)
THEOREM KeptIsStored == Spec => []KeptStored
<1>1. IInv => KeptStored
  BY DEF IInv, Kept, Safe, KeptStored, Stored
<1>2. QED
  BY <1>1, Inductive, PTL
=============================================================================
