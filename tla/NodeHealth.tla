------------------------------ MODULE NodeHealth ------------------------------
(***************************************************************************)
(* GPU discovery and node health (pkg/scheduler/node.go and gpu.go): the   *)
(* scheduler builds its cell tree, and then gives every cell the health of *)
(* its node and every leaf cell a GPU.                                     *)
(*                                                                         *)
(* Two sides call the same code: the informer's handlers, one event at a   *)
(* time, and Filter, which calls addNode for every node of the snapshot    *)
(* that its cycle began with.  addNode holds the mutex of the port bitmaps *)
(* while it asks Prometheus and takes cellMutex after that; updateNode     *)
(* holds cellMutex all along.                                              *)
(***************************************************************************)
EXTENDS CellTree

CONSTANTS
  Nodes,
  Hardware,    \* of a node: its devices, each with its MIG instances (or itself)
  NoCell, NoUUID, NoAdd,
  MaxChanges   \* bound: what happens to the nodes and to Prometheus

VARIABLES
  cell,      \* the cells, once they are built
  leafCells, \* leafCells: the leaf cell of a GPU
  gpuInfos,  \* gpuInfos: what Prometheus last told of a node's GPUs
  node,      \* the nodes in the API server
  answers,   \* Prometheus answers, and with the collectors' metrics
  changes,
  events,    \* of the node informer, not yet handled
  updating,  \* updateNode has asked Prometheus and holds cellMutex
  cycle,     \* the nodes of this cycle's snapshot that are still to be filtered
  adding     \* the addNode that holds the mutex of the port bitmaps, or NoAdd

healthVars == <<cell, leafCells, gpuInfos, node, answers, changes, events,
                updating, cycle, adding>>

Status == {"absent", "unready", "ready"}

GPU == UNION {UNION {ToSet(d) : d \in ToSet(Hardware[n])} : n \in Nodes}
UUIDs == {g.uuid : g \in GPU}

\* getDevices keeps one entry per device: its last MIG instance.
getDevices(n) == [i \in DOMAIN Hardware[n] |-> Last(Hardware[n][i])]

(* The answer of Prometheus, by model; empty when it does not answer.  It is a *)
(* set of series, in an order of its own.                                     *)
queryGPUCapacity(n) ==
  [m \in Models |-> SetToSeq({g \in ToSet(getDevices(n)) : answers /\ g.model = m})]

NothingKnown == [m \in Models |-> <<>>]

(* Not two devices in the world have the same uuid. *)
ASSUME HealthAssumption ==
  /\ \A n \in Nodes : Hardware[n] \in Seq(Seq([uuid : UUIDs, model : Models, memory : Nat]) \ {<<>>})
  /\ \A m, n \in Nodes : \A g \in ToSet(getDevices(m)), h \in ToSet(getDevices(n)) :
       g.uuid = h.uuid => m = n /\ g = h
  /\ NoUUID \notin UUIDs /\ MaxChanges \in Nat

HealthInit ==
  /\ ChainInit
  /\ cell = <<>>
  /\ leafCells = [u \in UUIDs |-> NoCell]
  /\ gpuInfos = [n \in Nodes |-> NothingKnown]
  /\ node = [n \in Nodes |-> "absent"] /\ cycle = node
  /\ answers = TRUE /\ changes = 0
  /\ events = <<>> /\ updating = FALSE /\ adding = NoAdd

Built == cell # <<>>

NewCell(p) ==
  [id |-> CellID[p], node |-> NodeOf(p), level |-> LevelOf(p),
   leafCellType |-> LeafType(p), available |-> Capacity(p), healthy |-> FALSE, state |-> "FREE", uuid |-> NoUUID, fullMemory |-> 0]

(* buildCellChains has returned: build. *)
Build ==
  /\ ChainsBuilt /\ ~ Built
  /\ cell' = [p \in Cells |-> NewCell(p)]
  /\ UNCHANGED <<chainVars, leafCells, gpuInfos, node, answers, changes, events,
                 updating, cycle, adding>>

-----------------------------------------------------------------------------
(* setNodeStatus *)

Leaves         == {p \in DOMAIN cell : cell[p].level = 1}
LeavesUnder(p) == {q \in Leaves : IsPrefix(p, q)}

(* A walk goes on through cells of the node, and cells above all nodes. *)
OnTheWay(c, n) == c.node \in {n, NoNode}

\* Mutation: a root is walked also for a node without GPUs of its model.
Reached_NoGPUs(n, healthy) ==
  {p \in DOMAIN cell : \A k \in DOMAIN p : LET here == cell[SubSeq(p, 1, k)] IN
     OnTheWay(here, n) /\ here.healthy # healthy}

\* Mutation: a walk stops at cells that are healthy.
Reached_OnlyUp(n, healthy) ==
  {p \in DOMAIN cell :
     /\ LET root == cell[<<p[1]>>] IN root.state = "FREE" => gpuInfos[n][root.leafCellType] # <<>>
     /\ \A k \in DOMAIN p : LET here == cell[SubSeq(p, 1, k)] IN OnTheWay(here, n) /\ ~ here.healthy}

(* What the walks from the roots reach: cells whose health, and whose every   *)
(* ancestor's, is not yet what it is to become.  No walk is made from a root  *)
(* that is FREE when the node has no GPU of its model.                        *)
Reached(n, healthy) ==
  {p \in DOMAIN cell :
     /\ LET root == cell[<<p[1]>>] IN root.state = "FREE" => gpuInfos[n][root.leafCellType] # <<>>
     /\ \A k \in DOMAIN p : LET here == cell[SubSeq(p, 1, k)] IN
          OnTheWay(here, n) /\ here.healthy # healthy}

(* The stack of a walk holds the last child on top. *)
PoppedBefore(q, p) ==
  /\ q[1] = p[1]
  /\ \E k \in DOMAIN p \cap DOMAIN q : q[k] > p[k] /\ SubSeq(q, 1, k - 1) = SubSeq(p, 1, k - 1)

\* Mutation: every cell that is reached gets a GPU.
GivenGPUs_AnyLevel(n, reached) ==
  LET cells   == {p \in reached : cell[<<p[1]>>].state = "FREE"}
      rank(p) == 1 + Cardinality({q \in cells : PoppedBefore(q, p) \/ (q # p /\ IsPrefix(q, p))})
      gpus(p) == gpuInfos[n][cell[p].leafCellType]
  IN [p \in {q \in cells : rank(q) <= Len(gpus(q))} |-> gpus(p)[rank(p)]]

(* setCellStatus gives the leaves it reaches from a FREE root the node's GPUs *)
(* of the model, as they come, while there are any: the GPU of every leaf     *)
(* that is given one.                                                         *)
GivenGPUs(n, reached) ==
  LET leaves  == {p \in reached : cell[p].level = 1 /\ cell[<<p[1]>>].state = "FREE"}
      rank(p) == 1 + Cardinality({q \in leaves : PoppedBefore(q, p)})
      gpus(p) == gpuInfos[n][cell[p].leafCellType]
  IN [p \in {q \in leaves : rank(q) <= Len(gpus(q))} |-> gpus(p)[rank(p)]]

\* Mutation: passMemoryToParent passes it to the parent and no further.
Gets_Parent(p, q) == q = p \/ Front(q) = p

(* A leaf gets its GPU's memory, and passMemoryToParent gives it to all above. *)
Gets(p, q) == IsPrefix(p, q)

(* setCellStatus or setCellHealthy, for every root. *)
SetNodeStatus(n, healthy) ==
  LET reached == Reached(n, healthy)
      given   == GivenGPUs(n, reached)
      memory(p) == SumFunctionOnSet([q \in DOMAIN given |-> given[q].memory],
                                    {q \in DOMAIN given : Gets(p, q)})
      holders(u) == {q \in DOMAIN given : given[q].uuid = u} IN
  /\ cell' = [p \in DOMAIN cell |-> IF p \notin reached THEN cell[p] ELSE
       [cell[p] EXCEPT
          !.healthy = healthy,
          !.state = IF cell[<<p[1]>>].state = "FREE" THEN "FILLED" ELSE @,
          !.uuid = IF p \in DOMAIN given THEN given[p].uuid ELSE @,
          !.fullMemory = @ + memory(p)]]
  /\ leafCells' = [u \in UUIDs |->
       IF holders(u) = {} THEN leafCells[u] ELSE CHOOSE q \in holders(u) : TRUE]

-----------------------------------------------------------------------------
(* The API server, its watchers, and Prometheus *)

Enqueue(kind, n, s) == events' = Append(events, [kind |-> kind, node |-> n, ready |-> s = "ready"])

(* A node joins, changes or leaves. *)
NodeChanges(n, s) ==
  /\ Built /\ changes < MaxChanges /\ node[n] # s
  /\ node' = [node EXCEPT ![n] = s] /\ changes' = changes + 1
  /\ Enqueue(CASE node[n] = "absent" -> "add" [] s = "absent" -> "delete" [] OTHER -> "update", n, s)
  /\ UNCHANGED <<chainVars, cell, leafCells, gpuInfos, answers, updating, cycle, adding>>

(* The kubelet reports again and again; a report waits for those before it. *)
Heartbeat(n) ==
  /\ Built /\ node[n] # "absent" /\ events = <<>>
  /\ Enqueue("update", n, node[n])
  /\ UNCHANGED <<chainVars, cell, leafCells, gpuInfos, node, answers, changes, updating,
                 cycle, adding>>

PrometheusChanges ==
  /\ Built /\ changes < MaxChanges
  /\ answers' = ~ answers /\ changes' = changes + 1
  /\ UNCHANGED <<chainVars, cell, leafCells, gpuInfos, node, events, updating, cycle, adding>>

-----------------------------------------------------------------------------
(* Filter and the handlers *)

getGPUByNode(n) == gpuInfos' = [gpuInfos EXCEPT ![n] = queryGPUCapacity(n)]

(* A cycle begins, with a snapshot of the nodes; it is as old as the cycle.    *)
(* (That the cache it is taken from may lag is not told apart from that.)      *)
CycleBegins ==
  /\ Built /\ \A n \in Nodes : cycle[n] = "absent"
  /\ \E n \in Nodes : node[n] # "absent"
  /\ cycle' = node
  /\ UNCHANGED <<chainVars, cell, leafCells, gpuInfos, node, answers, changes, events,
                 updating, adding>>

(* Filter is called for the snapshot's nodes in parallel; one addNode runs at *)
(* a time.                                                                    *)
FilterAddNode(n) ==
  /\ adding = NoAdd /\ cycle[n] # "absent"
  /\ adding' = [node |-> n, ready |-> cycle[n] = "ready", filter |-> TRUE]
  /\ cycle' = [cycle EXCEPT ![n] = "absent"]
  /\ getGPUByNode(n)
  /\ UNCHANGED <<chainVars, cell, leafCells, node, answers, changes, events, updating>>

Pending(kind) == events # <<>> /\ Head(events).kind = kind

HandleAdd ==
  /\ Pending("add") /\ adding = NoAdd
  /\ adding' = [node |-> Head(events).node, ready |-> Head(events).ready, filter |-> FALSE]
  /\ getGPUByNode(Head(events).node)
  /\ UNCHANGED <<chainVars, cell, leafCells, node, answers, changes, events, updating, cycle>>

(* The second half of addNode, when cellMutex is free. *)
AddNode ==
  /\ adding # NoAdd /\ ~ updating
  /\ SetNodeStatus(adding.node, adding.ready)
  /\ adding' = NoAdd
  /\ events' = IF adding.filter THEN events ELSE Tail(events)
  /\ UNCHANGED <<chainVars, gpuInfos, node, answers, changes, updating, cycle>>

(* updateNode asks for the GPUs of a healthy node. *)
UpdateNodeQuery ==
  /\ Pending("update") /\ Head(events).ready /\ ~ updating
  /\ updating' = TRUE
  /\ getGPUByNode(Head(events).node)
  /\ UNCHANGED <<chainVars, cell, leafCells, node, answers, changes, events, cycle, adding>>

UpdateNode ==
  /\ Pending("update") /\ (Head(events).ready => updating)
  /\ SetNodeStatus(Head(events).node, Head(events).ready)
  /\ updating' = FALSE /\ events' = Tail(events)
  /\ UNCHANGED <<chainVars, gpuInfos, node, answers, changes, cycle, adding>>

DeleteNode ==
  /\ Pending("delete")
  /\ SetNodeStatus(Head(events).node, FALSE)
  /\ events' = Tail(events)
  /\ UNCHANGED <<chainVars, gpuInfos, node, answers, changes, updating, cycle, adding>>

Chains == ~ Built /\ ChainNext /\ UNCHANGED healthVars

HealthNext ==
  \/ Chains \/ Build \/ CycleBegins
  \/ HandleAdd \/ AddNode \/ UpdateNodeQuery \/ UpdateNode \/ DeleteNode
  \/ PrometheusChanges
  \/ \E n \in Nodes : \/ FilterAddNode(n) \/ Heartbeat(n)
                      \/ \E s \in Status : NodeChanges(n, s)

(* Every goroutine goes on, and a mutex that is released again and again is   *)
(* had by each that waits for it, as Go's are.  Pods keep coming, so a cycle   *)
(* begins after a cycle; and a node that is there reports, whatever others do. *)
HealthFairness ==
  LET vars == <<chainVars, healthVars>> IN
  /\ WF_vars(Chains \/ Build) /\ WF_vars(CycleBegins)
  /\ SF_vars(HandleAdd) /\ SF_vars(AddNode)
  /\ WF_vars(UpdateNodeQuery \/ UpdateNode \/ DeleteNode)
  /\ \A n \in Nodes :
       SF_vars(FilterAddNode(n)) /\ SF_vars(Heartbeat(n))

HealthSpec == HealthInit /\ [][HealthNext]_<<chainVars, healthVars>> /\ HealthFairness

-----------------------------------------------------------------------------

HealthTypeOK ==
  /\ ChainTypeOK
  /\ Built => \A p \in DOMAIN cell :
       /\ cell[p].state \in {"FREE", "FILLED"} /\ cell[p].healthy \in BOOLEAN
       /\ cell[p].uuid \in UUIDs \cup {NoUUID} /\ cell[p].fullMemory \in Nat
  /\ leafCells \in [UUIDs -> Leaves \cup {NoCell}]
  /\ gpuInfos \in [Nodes -> [Models -> Seq(GPU)]]
  /\ node \in [Nodes -> Status] /\ cycle \in [Nodes -> Status]
  /\ answers \in BOOLEAN /\ updating \in BOOLEAN /\ changes \in 0..MaxChanges
  /\ events \in Seq([kind : {"add", "update", "delete"}, node : Nodes, ready : BOOLEAN])
  /\ adding \in [node : Nodes, ready : BOOLEAN, filter : BOOLEAN] \cup {NoAdd}

(* No two GPUs below a root cell have the same cell id, although two cells    *)
(* may name the same node: the distance between two pods of a group is        *)
(* computed from these ids alone.                                             *)
GpuIdsDiffer == \A p, q \in Leaves : p[1] = q[1] /\ p # q => cell[p].id # cell[q].id

(* What addCell multiplied out along a chain of types is what inferCellSpec   *)
(* and buildChildCell then build: a cell starts with as many available GPUs   *)
(* as there are leaves below it.                                              *)
CapacityIsLeaves ==
  \A p \in DOMAIN cell : cell[p].available = Cardinality(LeavesUnder(p))

Roots == {p \in DOMAIN cell : Len(p) = 1}
DevicesOf(n, m) == {g \in ToSet(getDevices(n)) : g.model = m}

(* The configuration gives every node cells of its own: what a root has above *)
(* GPUs of a model that some node has is all one node's.                      *)
RootsAreNodes ==
  \A p \in DOMAIN cell : \A n \in Nodes : DevicesOf(n, cell[p].leafCellType) # {} =>
    cell[p].node # NoNode /\ cell[p].node = cell[<<p[1]>>].node

(* It has no more leaf cells than the nodes have GPUs. *)
CellsHaveGPUs ==
  \A p \in Roots : cell[p].node \in Nodes =>
    /\ Cardinality(LeavesUnder(p)) <= Cardinality(DevicesOf(cell[p].node, cell[p].leafCellType))
    /\ \A q \in Roots \ {p} :
         ~ (cell[q].node = cell[p].node /\ cell[q].leafCellType = cell[p].leafCellType)

(* A healthy leaf cell, which Filter and Reserve may give to a pod, has a GPU *)
(* of its node, and processBoundPod finds the cell by that GPU's uuid: also   *)
(* when Prometheus was silent, or answered the other of two calls for a node. *)
(* (A root above two nodes is FREE for the first of them only: the leaves of  *)
(* the other become healthy without a GPU.)                                   *)
HealthyLeafHasGpu ==
  RootsAreNodes /\ CellsHaveGPUs => \A p \in Leaves : cell[p].healthy =>
    /\ cell[p].uuid \in {g.uuid : g \in ToSet(getDevices(cell[p].node))}
    /\ leafCells[cell[p].uuid] = p

(* However often a node went and came back, the memory of a cell is that of   *)
(* the leaves below it: no GPU was passed up twice, or not at all.            *)
MemoryAddsUp ==
  \A p \in DOMAIN cell :
    cell[p].fullMemory = SumFunctionOnSet([q \in Leaves |-> cell[q].fullMemory], LeavesUnder(p))

\* Mutation: the search does not look at the health of the cells it goes through.
getLeafCellbyNode_AnyHealth(n) ==
  {p \in Leaves : \A k \in DOMAIN p : cell[SubSeq(p, 1, k)].node \in {n, NoNode}}

\* getLeafCellbyNode: the leaf cells that are offered on a node.
getLeafCellbyNode(n) ==
  {p \in Leaves : \A k \in DOMAIN p : LET q == SubSeq(p, 1, k) IN
     cell[q].healthy /\ cell[q].node \in {n, NoNode}}

(* The search for a node's cells goes through healthy cells only; it finds    *)
(* every healthy GPU of the node, through whatever roots the node has.  (A    *)
(* root above two nodes is unhealthy as soon as one of them is.)              *)
HealthyIsOffered ==
  RootsAreNodes => \A n \in Nodes :
    getLeafCellbyNode(n) = {p \in Leaves : cell[p].node = n /\ cell[p].healthy}

(* Whatever a late cycle or a late event did in between, in the end a node    *)
(* that stays ready has healthy cells, once Prometheus answers, and one that  *)
(* stays but is not ready has none.  (Of a node that left, the last cycle's   *)
(* addNode may come after deleteNode: then its cells stay healthy.)           *)
StatusFollowsNode ==
  \A n \in Nodes :
    /\ <>[](node[n] = "ready" /\ answers)
          => <>[](Built /\ \A p \in Leaves : cell[p].node = n => cell[p].healthy)
    /\ <>[](node[n] = "unready")
          => <>[](Built /\ \A p \in Leaves : cell[p].node = n => ~ cell[p].healthy)
=============================================================================
