------------------------------ MODULE Scheduler ------------------------------
(***************************************************************************)
(* The reservation core of the KubeShare scheduler (pkg/scheduler): how a  *)
(* GPU share, GPU memory and a pod manager port are taken for a pod and    *)
(* given back when it ends.                                                *)
(*                                                                         *)
(* Three activities share the scheduler's memory.  The scheduling thread   *)
(* runs one cycle at a time: PreFilter, Filter for every node, Reserve     *)
(* (which deletes the pod and creates a bound copy of it, the shadow pod). *)
(* The informer thread delivers the API server's events, in order but any  *)
(* time later, to filterPod, addPod and deletePod.  Users create and       *)
(* delete pods, and containers end, whenever they like.                    *)
(*                                                                         *)
(* Cells are the leaf cells (GPUs) and the cells above them; Path[l] is a  *)
(* leaf and its ancestors, what reserveResource climbs by `parent`.  GPU   *)
(* shares are counted in units, UNIT of them to one GPU.  Every root cell  *)
(* is node-level, nodes stay healthy, and all GPUs are of one model.       *)
(***************************************************************************)
EXTENDS Integers, Sequences, SequencesExt, FiniteSetsExt, RRBitmap

CONSTANTS
  Names,      \* namespace/name of the pods, the keys of podStatus
  Nodes,
  Cells, Leaves, Path, NodeOf, NodeCell,
  UNIT,       \* units of one whole GPU
  FullMem,    \* memory of one GPU
  PortBits,   \* length of a node's port bitmap (512 in the code)
  Specs,      \* what a pod may ask: [request, memory], memory 0 when not set
  NoNode, NoPod, NoStatus,
  \* The environment's bounds.
  MaxUid,           \* incarnations of each name, shadow pods included
  MaxRestarts,      \* times the scheduler process dies
  MaxCreateErrors,  \* times the API server refuses to create a shadow pod
  MetricsMayMiss,   \* whether Prometheus may have no sample of a node
  OriginalsStay,    \* whether no user deletes a pod while a cycle has it in hand
  ShadowsStay,      \* whether users leave a pod's name alone while it is replaced
  ListedFirst       \* whether a new process handles the listed pods before a cycle

PodManagerPortStart == 50050

\* 0 when there is none; below the start when a search of the bitmap failed.
Ports == {0} \cup (PodManagerPortStart - 1 .. PodManagerPortStart + PortBits - 1)

Pod == [name : Names, uid : Nat \ {0}, spec : Specs, node : Nodes \cup {NoNode},
        gpus : SUBSET Leaves, memory : Int, port : Ports, phase : {"Active", "Done"}]

PodStatus == [name : Names, uid : Nat, request : Nat, memory : Int, cells : SUBSET Leaves,
              port : Ports, node : Nodes \cup {NoNode}]

LeavesUnder(c) == {l \in Leaves : c \in Path[l]}
LeavesOf(x)    == {l \in Leaves : NodeOf[l] = x}

ASSUME TopologyAssumption ==
  /\ IsFiniteSet(Leaves) /\ Leaves \subseteq Cells
  /\ NodeOf \in [Leaves -> Nodes] /\ NodeCell \in [Nodes -> Cells \ Leaves]
  /\ Path \in [Leaves -> SUBSET Cells]
  /\ \A l \in Leaves : Path[l] \cap Leaves = {l}
  /\ \A x \in Nodes : LeavesUnder(NodeCell[x]) = LeavesOf(x)

(* getPodLabels lets a request through when it is at most one GPU or a whole *)
(* number of GPUs.                                                           *)
ASSUME RequestAssumption ==
  /\ UNIT \in Nat \ {0} /\ FullMem \in Nat /\ PortBits \in Nat \ {0}
  /\ Specs \subseteq [request : Nat, memory : Nat]
  /\ \A s \in Specs : s.request <= UNIT \/ s.request % UNIT = 0

ASSUME NamesAssumption == IsFiniteSet(Names)

ASSUME AbsenceAssumption ==
  /\ NoNode \notin Nodes /\ NoPod \notin Pod /\ NoStatus \notin PodStatus

ASSUME BoundsAssumption ==
  /\ MaxUid \in [Names -> Nat] /\ MaxRestarts \in Nat /\ MaxCreateErrors \in Nat
  /\ MetricsMayMiss \in BOOLEAN /\ OriginalsStay \in BOOLEAN
  /\ ShadowsStay \in BOOLEAN /\ ListedFirst \in BOOLEAN

VARIABLES
  api,       \* the pod of each name in the API server, or NoPod
  born,      \* incarnations of each name so far; a pod's uid is its number
  wanted,    \* names whose pod the user created, and neither deleted nor saw end
  events,    \* the informer's events not yet handled
  listed,    \* how many of them are pods found when the process started
  hpc, ending,  \* where the informer thread is, and the status it gives back
  pc, cyc,   \* where the scheduling thread is, and what it holds
  status,    \* podStatus: the scheduler's view of each name, or NoStatus
  avail,     \* cell.available, in units
  freeMem,   \* cell.freeMemory
  filled,    \* nodes whose cells have their GPUs' uuids and memory, and are healthy
  masked, current,  \* each node's port bitmap
  boundQ,    \* boundPodQueue: bound pods found by addPod, to be accounted
  restarts, createErrors

apiVars  == <<api, born, wanted>>
cellVars == <<avail, freeMem>>
portVars == <<masked, current>>
counters == <<restarts, createErrors>>
endVars  == <<hpc, ending>>
queueVars == <<events, listed, endVars>>
vars == <<apiVars, events, listed, endVars, pc, cyc, status, cellVars, filled, portVars, boundQ, counters>>

Locations == {"idle", "filter", "drain", "select", "assume", "empty", "take",
              "delete", "create", "setuid", "panicked"}

(* The scheduling thread's variables: the pod and the nodes still to filter, *)
(* the nodes that fit, the node in hand and whether its metrics were seen,   *)
(* whether Reserve treats the pod as multi-GPU, the status newAssumed...     *)
(* looked up, whether that is Reserve's own ps, the cells still to take, the *)
(* copy Reserve creates and the uid the creation returned.                   *)
IdleCycle == [pod |-> NoPod, todo |-> {}, fit |-> {}, node |-> NoNode, seen |-> FALSE,
              multi |-> FALSE, ps |-> NoStatus, same |-> FALSE, left |-> {},
              copy |-> NoPod, newUid |-> 0]

Event(type, pod) == [type |-> type, pod |-> pod]

isBound(pod)     == pod.node # NoNode
isCompleted(pod) == pod.phase = "Done"
MultiGPU(request) == request > UNIT

Alive(n) == api[n] # NoPod /\ isBound(api[n]) /\ ~ isCompleted(api[n])

(* A cycle has the pod of name n in hand, up to Reserve's deletion of it; then *)
(* Reserve creates the shadow pod and assigns its uid.                         *)
HasInHand(n)     == pc \notin {"idle", "panicked", "create", "setuid"} /\ cyc.pod.name = n
BeingReplaced(n) == pc \in {"create", "setuid"} /\ cyc.pod.name = n

Full == [c \in Cells |-> UNIT * Cardinality(LeavesUnder(c))]

Init ==
  /\ api = [n \in Names |-> NoPod]
  /\ born = [n \in Names |-> 0]
  /\ wanted = {}
  /\ events = <<>> /\ listed = 0
  /\ hpc = "ready" /\ ending = NoStatus
  /\ pc = "idle" /\ cyc = IdleCycle
  /\ status = [n \in Names |-> NoStatus]
  /\ avail = Full /\ freeMem = [c \in Cells |-> 0]
  /\ filled = {}
  /\ masked = [x \in Nodes |-> {0}] /\ current = [x \in Nodes |-> 0]
  /\ boundQ = [x \in Nodes |-> <<>>]
  /\ restarts = 0 /\ createErrors = 0

-----------------------------------------------------------------------------
(* Users and kubelets.                                                       *)

NewPod(n, s) == [name |-> n, uid |-> born[n] + 1, spec |-> s, node |-> NoNode,
                 gpus |-> {}, memory |-> 0, port |-> 0, phase |-> "Active"]

(* A user's pod leaves a uid for the shadow pod it may become. *)
UserCreate(n, s) ==
  /\ api[n] = NoPod /\ born[n] + 1 < MaxUid[n]
  /\ ShadowsStay => ~ BeingReplaced(n)
  /\ api' = [api EXCEPT ![n] = NewPod(n, s)]
  /\ born' = [born EXCEPT ![n] = @ + 1]
  /\ wanted' = wanted \cup {n}
  /\ events' = Append(events, Event("add", NewPod(n, s)))
  /\ UNCHANGED <<listed, endVars, pc, cyc, status, cellVars, filled, portVars, boundQ, counters>>

UserDelete(n) ==
  /\ api[n] # NoPod
  /\ OriginalsStay => ~ HasInHand(n)
  /\ ShadowsStay => ~ BeingReplaced(n)
  /\ api' = [api EXCEPT ![n] = NoPod]
  /\ wanted' = wanted \ {n}
  /\ events' = Append(events, Event("delete", api[n]))
  /\ UNCHANGED <<listed, endVars, born, pc, cyc, status, cellVars, filled, portVars,
                 boundQ, counters>>

(* The containers of a bound pod end: its phase is Succeeded or Failed. *)
Finish(n) ==
  /\ Alive(n)
  /\ ShadowsStay => ~ BeingReplaced(n)
  /\ LET pod == [api[n] EXCEPT !.phase = "Done"] IN
       /\ api' = [api EXCEPT ![n] = pod]
       /\ events' = Append(events, Event("update", pod))
  /\ wanted' = wanted \ {n}
  /\ UNCHANGED <<listed, endVars, born, pc, cyc, status, cellVars, filled, portVars,
                 boundQ, counters>>

-----------------------------------------------------------------------------
(* The scheduler's shared helpers.                                           *)

\* Mutation: the map is searched by name alone.
HasStatus_ByName(pod) == status[pod.name] # NoStatus

(* Whether the map has the status of this very pod: both getPodLabels and     *)
(* deletePodStatus compare the uid besides the name.                          *)
HasStatus(pod) == status[pod.name] # NoStatus /\ status[pod.name].uid = pod.uid

(* getPodLabels: the status of this very pod if the map has it, else a fresh *)
(* one that replaces whatever the map holds under the pod's name.            *)
GetPodLabels(pod) ==
  IF HasStatus(pod)
    THEN status[pod.name]
    ELSE [name |-> pod.name, uid |-> pod.uid,
          request |-> pod.spec.request, memory |-> pod.spec.memory, cells |-> {}, port |-> 0, node |-> pod.node]

\* Mutation: the parents are forgotten.
ReserveResource_LeafOnly(l, units, memory) ==
  /\ avail' = [avail EXCEPT ![l] = @ - units]
  /\ freeMem' = [freeMem EXCEPT ![l] = @ - memory]

(* reserveResource for one leaf: the leaf and its ancestors lose the amounts. *)
ReserveResource(l, units, memory) ==
  /\ avail'   = [c \in Cells |-> IF c \in Path[l] THEN avail[c] - units ELSE avail[c]]
  /\ freeMem' = [c \in Cells |-> IF c \in Path[l] THEN freeMem[c] - memory ELSE freeMem[c]]

\* Mutation: the memory is forgotten.
ReclaimResource_ShareOnly(l, units, memory) == ReserveResource(l, -units, 0)

(* reclaimResource: the same walk to the root adds the amounts. *)
ReclaimResource(l, units, memory) == ReserveResource(l, -units, -memory)

(* reserveResource once for each of the leaves, with the same amounts. *)
ReserveEach(leaves, units, memory) ==
  LET count(c) == Cardinality(leaves \cap LeavesUnder(c)) IN
  /\ avail'   = [c \in Cells |-> avail[c] - units * count(c)]
  /\ freeMem' = [c \in Cells |-> freeMem[c] - memory * count(c)]

(* Mask and Unmask of a node's bitmap, for a port of the pool. *)
InPool(port) == port >= PodManagerPortStart
UnmaskPort(x, port) ==
  masked' = IF InPool(port) THEN [masked EXCEPT ![x] = @ \ {port - PodManagerPortStart}] ELSE masked

\* Mutation: the port found in the pod's annotation is not masked.
MaskPort_Never(x, port) == UNCHANGED masked

MaskPort(x, port) ==
  masked' = IF InPool(port) THEN [masked EXCEPT ![x] = @ \cup {port - PodManagerPortStart}] ELSE masked

(* deletePod goes on with its cells, until none is left. *)
Reclaiming(ps) ==
  IF ps.cells = {} THEN hpc' = "ready" /\ ending' = NoStatus
                   ELSE hpc' = "reclaim" /\ ending' = ps

(* deletePod begins with deletePodStatus: that status leaves the map under    *)
(* podStatusMutex, and what it holds is given back afterwards.                *)
DeletePod(pod) ==
  LET ps == status[pod.name] IN
  IF HasStatus(pod)
    THEN /\ status' = [status EXCEPT ![pod.name] = NoStatus]
         /\ IF MultiGPU(ps.request) THEN Reclaiming(ps)
            ELSE hpc' = "unmask" /\ ending' = ps
    ELSE UNCHANGED <<status, endVars>>

\* Mutation: a bound pod found after a restart is not accounted.
AddPod_Ignored(pod) == UNCHANGED boundQ

(* addPod: a bound pod the scheduler knows nothing of is left for Filter.  It *)
(* waits for boundPodQueueMutex while processBoundPodQueue holds it.          *)
AddPod(pod) ==
  IF isBound(pod) /\ status[pod.name] = NoStatus
    THEN pc # "drain" /\ boundQ' = [boundQ EXCEPT ![pod.node] = Append(@, pod)]
    ELSE UNCHANGED boundQ

-----------------------------------------------------------------------------
(* The informer thread: filterPod and the handlers behind it.                *)

NextEvent(type) ==
  pc # "panicked" /\ hpc = "ready" /\ events # <<>> /\ Head(events).type = type
EventHandled == /\ events' = Tail(events)
                /\ listed' = IF listed > 0 THEN listed - 1 ELSE 0

HandleAdd ==
  /\ NextEvent("add")
  /\ LET pod == Head(events).pod IN
       IF isCompleted(pod)
         THEN DeletePod(pod) /\ UNCHANGED boundQ
         ELSE AddPod(pod) /\ UNCHANGED <<status, endVars>>
  /\ EventHandled
  /\ UNCHANGED <<apiVars, pc, cyc, cellVars, filled, portVars, counters>>

\* Mutation: a completed pod is kept until it is deleted.
HandleUpdate_Ignored ==
  /\ NextEvent("update") /\ EventHandled
  /\ UNCHANGED <<apiVars, endVars, pc, cyc, status, cellVars, portVars, filled, boundQ, counters>>

HandleUpdate ==
  /\ NextEvent("update")
  /\ IF isCompleted(Head(events).pod)
       THEN DeletePod(Head(events).pod)
       ELSE UNCHANGED <<status, endVars>>
  /\ EventHandled
  /\ UNCHANGED <<apiVars, pc, cyc, cellVars, filled, portVars, boundQ, counters>>

(* filterPod already reclaims a completed pod; deletePod is then without     *)
(* effect, because the status is gone.                                       *)
HandleDelete ==
  /\ NextEvent("delete")
  /\ DeletePod(Head(events).pod)
  /\ EventHandled
  /\ UNCHANGED <<apiVars, pc, cyc, cellVars, filled, portVars, boundQ, counters>>

(* Only now deletePod reads the port of the status it took, and unmasks it ... *)
UnmaskEnded ==
  /\ pc # "panicked" /\ hpc = "unmask"
  /\ UnmaskPort(ending.node, ending.port)
  /\ Reclaiming(ending)
  /\ UNCHANGED <<apiVars, events, listed, pc, cyc, status, cellVars, filled, current,
                 boundQ, counters>>

(* ... and its cells, which reclaimResource gives back one after the other.    *)
ReclaimCell(l) ==
  /\ pc # "panicked" /\ hpc = "reclaim" /\ l \in ending.cells
  /\ IF MultiGPU(ending.request) THEN ReclaimResource(l, UNIT, FullMem)
     ELSE ReclaimResource(l, ending.request, ending.memory)
  /\ Reclaiming([ending EXCEPT !.cells = @ \ {l}])
  /\ UNCHANGED <<apiVars, events, listed, pc, cyc, status, filled, portVars, boundQ, counters>>

-----------------------------------------------------------------------------
(* The scheduling thread.                                                    *)

(* The queue pops an unbound pod; PreFilter looks up its status. *)
PreFilter(n) ==
  /\ pc = "idle" /\ api[n] # NoPod /\ ~ isBound(api[n])
  /\ ListedFirst => listed = 0
  /\ status' = [status EXCEPT ![n] = GetPodLabels(api[n])]
  /\ pc' = "filter"
  /\ cyc' = [IdleCycle EXCEPT !.pod = api[n], !.todo = Nodes]
  /\ UNCHANGED <<apiVars, queueVars, cellVars, filled, portVars, boundQ, counters>>

\* getGPUByNode, which gets what Prometheus has: maybe no sample of the node.
GetGPUByNode(seen) == seen \/ MetricsMayMiss

\* passMemoryToParent, once for each of the node's GPUs.
PassMemoryToParent(x) ==
  [c \in Cells |-> freeMem[c] + FullMem * Cardinality(LeavesOf(x) \cap LeavesUnder(c))]

\* setCellStatus: the cells get their GPUs' uuids and memory, once.
SetCellStatus(x) == filled' = filled \cup {x} /\ freeMem' = PassMemoryToParent(x)

(* Filter on node x begins with addNode. *)
FilterAddNode(x, seen) ==
  /\ pc = "filter" /\ x \in cyc.todo
  /\ GetGPUByNode(seen)
  /\ IF seen /\ x \notin filled THEN SetCellStatus(x) ELSE UNCHANGED <<filled, freeMem>>
  /\ pc' = "drain"
  /\ cyc' = [cyc EXCEPT !.todo = @ \ {x}, !.node = x, !.seen = seen]
  /\ UNCHANGED <<apiVars, queueVars, status, avail, portVars, boundQ, counters>>

(* processBoundPod for the next pod of the node's queue: reserve what its    *)
(* annotations say on the leaves whose uuid is known, and mask its port.     *)
FilterBoundPod ==
  /\ pc = "drain" /\ boundQ[cyc.node] # <<>>
  /\ LET pod   == Head(boundQ[cyc.node])
         ps    == GetPodLabels(pod)
         found == {l \in pod.gpus : NodeOf[l] \in filled}
         known == IF ps.cells = {} THEN [ps EXCEPT !.cells = found, !.memory = pod.memory] ELSE ps
     IN /\ IF ps.cells # {} THEN UNCHANGED cellVars
           ELSE IF MultiGPU(ps.request) THEN ReserveEach(found, UNIT, FullMem)
           ELSE ReserveEach(found, ps.request, pod.memory)
        /\ IF MultiGPU(ps.request)
             THEN status' = [status EXCEPT ![pod.name] = known] /\ UNCHANGED masked
             ELSE /\ status' = [status EXCEPT ![pod.name] = [known EXCEPT !.port = pod.port]]
                  /\ MaskPort(ps.node, pod.port)
  /\ boundQ' = [boundQ EXCEPT ![cyc.node] = Tail(@)]
  /\ UNCHANGED <<apiVars, queueVars, pc, cyc, filled, current, counters>>

PortPoolFull(x) ==
  FindNextFromCurrent(masked[x], current[x], PortBits) + PodManagerPortStart = -1

\* Mutations: one of the two amounts is not compared.
LeafFits_ShareOnly(l, ps)  == avail[l] >= ps.request
LeafFits_MemoryOnly(l, ps) == freeMem[l] >= ps.memory

(* The test on a leaf, in checkCellResource and when Reserve chooses cells. *)
LeafFits(l, ps) == avail[l] >= ps.request /\ freeMem[l] >= ps.memory

\* Mutation: reserveResource leaves availableWholeCell as it was built.
WholeCells_AsBuilt(x) == Cardinality(LeavesOf(x))

(* availableWholeCell of a node's cell, the floor of what is available. *)
WholeCells(x) == avail[NodeCell[x]] \div UNIT

(* filterNode and checkCellResource.  A node on which no GPU fits a shared   *)
(* pod still passes if the pod asks for nothing: the sums returned are 0.    *)
NodeFits(x, ps) ==
  \/ /\ MultiGPU(ps.request) /\ x \in filled
     /\ WholeCells(x) * UNIT >= ps.request
     /\ freeMem[NodeCell[x]] >= ps.memory
  \/ /\ ~ MultiGPU(ps.request) /\ x \in filled
     /\ \E l \in LeavesOf(x) : LeafFits(l, ps)
  \/ ps.request = 0 /\ ps.memory = 0

(* The queue is empty: Filter decides about the node.  When no node is left  *)
(* the cycle goes on to Reserve, or fails and the pod is queued again.       *)
FilterDecide ==
  /\ pc = "drain" /\ boundQ[cyc.node] = <<>>
  /\ LET x   == cyc.node
         ps  == GetPodLabels(cyc.pod)
         fit == IF cyc.seen /\ ~ PortPoolFull(x) /\ NodeFits(x, ps)
                  THEN cyc.fit \cup {x} ELSE cyc.fit
     IN /\ status' = [status EXCEPT ![cyc.pod.name] = ps]
        /\ IF cyc.todo # {} THEN pc' = "filter" /\ cyc' = [cyc EXCEPT !.fit = fit]
           ELSE IF fit # {} THEN pc' = "select" /\ cyc' = [cyc EXCEPT !.fit = fit]
           ELSE pc' = "idle" /\ cyc' = IdleCycle
  /\ UNCHANGED <<apiVars, queueVars, cellVars, filled, portVars, boundQ, counters>>

(* The cell lists Reserve can come to, whatever the order of the scores.  A   *)
(* multi-GPU pod takes the first whole GPUs, fewer if there are fewer.  A     *)
(* shared pod takes the first leaf that fits; when it requests no share the   *)
(* loop ends after the leaf with the best score, fitting or not.              *)
CellChoices(x, ps) ==
  LET leaves == IF x \in filled THEN LeavesOf(x) ELSE {}
      fits   == {l \in leaves : LeafFits(l, ps)}
      whole  == {l \in leaves : avail[l] = UNIT}
      wanting == ps.request \div UNIT
  IN IF MultiGPU(ps.request)
       THEN {S \in SUBSET whole : \/ Cardinality(S) = wanting
                                  \/ S = whole /\ Cardinality(whole) < wanting}
     ELSE IF ps.request = 0 /\ leaves # {} THEN {{l} \cap fits : l \in leaves}
     ELSE IF fits = {} THEN {{}}
     ELSE {{l} : l \in fits}

Panic == pc' = "panicked" /\ cyc' = IdleCycle

(* Reserve, up to the cells of the status; indexing an empty list panics. *)
ReserveSelect(x) ==
  /\ pc = "select" /\ x \in cyc.fit
  /\ LET ps == GetPodLabels(cyc.pod) IN
       \E cells \in CellChoices(x, ps) :
         /\ status' = [status EXCEPT ![cyc.pod.name] = [ps EXCEPT !.cells = cells]]
         /\ IF cells = {} THEN Panic
            ELSE pc' = "assume" /\ cyc' = [cyc EXCEPT !.node = x, !.multi = MultiGPU(ps.request)]
  /\ UNCHANGED <<apiVars, queueVars, cellVars, filled, portVars, boundQ, counters>>

\* Mutation: the uid is kept.
Assumed_KeepsUid(ps, x) == [ps EXCEPT !.node = x]

(* The status while its pod is replaced: the uid is emptied, so that the      *)
(* deletion of the original pod is not taken for the pod's end.               *)
Assumed(ps, x) == [ps EXCEPT !.uid = 0, !.node = x]

(* newAssumedSharedGPUPod and newAssumedMultiGPUPod look the status up again. *)
LookUpAgain ==
  /\ pc = "assume"
  /\ LET ps == GetPodLabels(cyc.pod) IN
       /\ status' = [status EXCEPT ![cyc.pod.name] = ps]
       /\ cyc' = [cyc EXCEPT !.ps = ps, !.same = HasStatus(cyc.pod)]
  /\ pc' = "empty"
  /\ UNCHANGED <<apiVars, queueVars, cellVars, filled, portVars, boundQ, counters>>

(* They go on with the status they found, without podStatusMutex.  What they  *)
(* assign to it is seen in the map if deletePodStatus did not take it out in  *)
(* between, ...                                                               *)
Assign(ps) ==
  status' = IF HasStatus(cyc.pod) THEN [status EXCEPT ![cyc.pod.name] = ps] ELSE status

(* ... and by deletePod, which holds the same status, if it did. *)
TakenOut == /\ ~ HasStatus(cyc.pod) /\ hpc # "ready"
            /\ ending.name = cyc.pod.name /\ ending.uid = cyc.pod.uid

(* newAssumedSharedGPUPod empties the uid, reserves the leaf and draws a port. *)
AssumeSharedPod ==
  /\ pc = "empty" /\ ~ cyc.multi
  /\ LET x      == cyc.node
         ps     == cyc.ps
         memory == IF ps.memory = 0 THEN (ps.request * FullMem) \div UNIT ELSE ps.memory
         ii     == FindNextFromCurrent(masked[x], current[x], PortBits)
         port   == ii + PodManagerPortStart
     IN IF ps.cells = {}
          THEN Assign(Assumed(ps, ps.node)) /\ Panic /\ UNCHANGED <<endVars, cellVars, portVars>>
          ELSE /\ Assign([Assumed(ps, x) EXCEPT !.memory = memory, !.port = port])
               /\ ending' = IF TakenOut THEN [ending EXCEPT !.node = x, !.port = port] ELSE ending
               /\ \E l \in ps.cells : ReserveResource(l, ps.request, memory)
               /\ masked'  = [masked EXCEPT ![x] = MaskedAfter(@, ii)]
               /\ current' = [current EXCEPT ![x] = CurrentAfter(@, ii)]
               /\ pc' = "delete"
               /\ cyc' = [cyc EXCEPT !.copy = [cyc.pod EXCEPT !.node = x, !.gpus = ps.cells,
                                                     !.memory = memory, !.port = port]]
               /\ UNCHANGED hpc
  /\ UNCHANGED <<apiVars, events, listed, filled, boundQ, counters>>

(* newAssumedMultiGPUPod: the same, for a list of cells that may be empty if *)
(* the status had to be made again.                                          *)
AssumeMultiPod ==
  /\ pc = "empty" /\ cyc.multi
  /\ Assign(Assumed(cyc.ps, cyc.node))
  /\ pc' = IF cyc.ps.cells = {} THEN "delete" ELSE "take"
  /\ cyc' = [cyc EXCEPT !.left = cyc.ps.cells,
                        !.copy = [cyc.pod EXCEPT !.node = cyc.node, !.gpus = cyc.ps.cells]]
  /\ UNCHANGED <<apiVars, queueVars, cellVars, filled, portVars, boundQ, counters>>

(* ... and takes all that is left of each of the cells, one after the other. *)
TakeCell(l) ==
  /\ pc = "take" /\ l \in cyc.left
  /\ ReserveResource(l, avail[l], freeMem[l])
  /\ cyc' = [cyc EXCEPT !.left = @ \ {l}, !.copy.memory = @ + freeMem[l]]
  /\ pc' = IF cyc.left = {l} THEN "delete" ELSE "take"
  /\ UNCHANGED <<apiVars, queueVars, status, filled, portVars, boundQ, counters>>

\* Mutation: Reserve ends after the deletion.
ReserveDelete_Only ==
  /\ pc = "delete"
  /\ LET n == cyc.pod.name IN
       IF api[n] # NoPod
         THEN /\ api' = [api EXCEPT ![n] = NoPod]
              /\ events' = Append(events, Event("delete", api[n]))
         ELSE UNCHANGED <<api, events>>
  /\ pc' = "idle" /\ cyc' = IdleCycle
  /\ UNCHANGED <<listed, endVars, born, wanted, status, cellVars, filled, portVars,
                 boundQ, counters>>

(* Reserve deletes the pod of that name, the original one or another; an      *)
(* error (there is none) is only logged.                                      *)
ReserveDelete ==
  /\ pc = "delete"
  /\ LET n == cyc.pod.name IN
       IF api[n] # NoPod
         THEN /\ api' = [api EXCEPT ![n] = NoPod]
              /\ events' = Append(events, Event("delete", api[n]))
         ELSE UNCHANGED <<api, events>>
  /\ pc' = "create"
  /\ UNCHANGED <<listed, endVars, born, wanted, cyc, status, cellVars, filled, portVars,
                 boundQ, counters>>

ReserveCreate ==
  /\ pc = "create" /\ api[cyc.pod.name] = NoPod
  /\ LET n == cyc.pod.name
         shadow == [cyc.copy EXCEPT !.uid = born[n] + 1]
     IN /\ api' = [api EXCEPT ![n] = shadow]
        /\ born' = [born EXCEPT ![n] = @ + 1]
        /\ events' = Append(events, Event("add", shadow))
        /\ cyc' = [cyc EXCEPT !.newUid = born[n] + 1]
  /\ pc' = "setuid"
  /\ UNCHANGED <<listed, endVars, wanted, status, cellVars, filled, portVars, boundQ, counters>>

(* The name is taken, or the API server fails: an error is logged, and the    *)
(* pod returned has no uid.                                                   *)
ReserveCreateFails ==
  /\ pc = "create"
  /\ \/ api[cyc.pod.name] # NoPod /\ UNCHANGED createErrors
     \/ /\ api[cyc.pod.name] = NoPod /\ createErrors < MaxCreateErrors
        /\ createErrors' = createErrors + 1
  /\ cyc' = [cyc EXCEPT !.newUid = 0]
  /\ pc' = "setuid"
  /\ UNCHANGED <<apiVars, queueVars, status, cellVars, filled, portVars, boundQ, restarts>>

\* Mutation: the uid of the original pod is assigned.
ReserveSetUid_Original ==
  /\ pc = "setuid"
  /\ status' = IF cyc.same THEN [status EXCEPT ![cyc.pod.name].uid = cyc.pod.uid] ELSE status
  /\ pc' = "idle" /\ cyc' = IdleCycle
  /\ UNCHANGED <<apiVars, queueVars, cellVars, filled, portVars, boundQ, counters>>

(* Reserve's last assignment, to the status it looked up first, which only    *)
(* matters if the map still has it.                                           *)
ReserveSetUid ==
  /\ pc = "setuid"
  /\ status' = IF cyc.same /\ status[cyc.pod.name] # NoStatus
                 THEN [status EXCEPT ![cyc.pod.name].uid = cyc.newUid] ELSE status
  /\ pc' = "idle" /\ cyc' = IdleCycle
  /\ UNCHANGED <<apiVars, queueVars, cellVars, filled, portVars, boundQ, counters>>

-----------------------------------------------------------------------------
(* The process dies, or had panicked, and is started again with an empty     *)
(* memory.  The informer lists the pods and adds them in some order.         *)
Restart ==
  /\ restarts < MaxRestarts
  /\ restarts' = restarts + 1
  /\ pc' = "idle" /\ cyc' = IdleCycle
  /\ status' = [n \in Names |-> NoStatus]
  /\ avail' = Full /\ freeMem' = [c \in Cells |-> 0]
  /\ filled' = {}
  /\ masked' = [x \in Nodes |-> {0}] /\ current' = [x \in Nodes |-> 0]
  /\ boundQ' = [x \in Nodes |-> <<>>]
  /\ hpc' = "ready" /\ ending' = NoStatus
  /\ \E found \in SetToSeqs({n \in Names : api[n] # NoPod}) :
       /\ events' = [i \in DOMAIN found |-> Event("add", api[found[i]])]
       /\ listed' = Len(found)
  /\ UNCHANGED <<apiVars, createErrors>>

Environment == \E n \in Names : \/ \E s \in Specs : UserCreate(n, s)
                                \/ UserDelete(n)
                                \/ Finish(n)

Informer == \/ HandleAdd \/ HandleUpdate \/ HandleDelete
            \/ UnmaskEnded \/ \E l \in Leaves : ReclaimCell(l)

InCycle ==
  \/ \E x \in Nodes : (\E seen \in BOOLEAN : FilterAddNode(x, seen)) \/ ReserveSelect(x)
  \/ \E l \in Leaves : TakeCell(l)
  \/ FilterBoundPod \/ FilterDecide
  \/ LookUpAgain \/ AssumeSharedPod \/ AssumeMultiPod
  \/ ReserveDelete \/ ReserveCreate \/ ReserveCreateFails \/ ReserveSetUid

(* What one life of the scheduler process can do. *)
LifeNext == Environment \/ Informer \/ InCycle \/ \E n \in Names : PreFilter(n)

Next == LifeNext \/ Restart

Spec     == Init /\ [][Next]_vars
LifeSpec == Init /\ [][LifeNext]_vars

-----------------------------------------------------------------------------
(* What the core must guarantee.                                             *)

Cycle == [pod : Pod \cup {NoPod}, todo : SUBSET Nodes, fit : SUBSET Nodes,
          node : Nodes \cup {NoNode}, seen : BOOLEAN, multi : BOOLEAN,
          ps : PodStatus \cup {NoStatus}, same : BOOLEAN, left : SUBSET Leaves,
          copy : Pod \cup {NoPod}, newUid : Nat]

(* Every variable keeps its type; in particular the ports masked and the     *)
(* place the next search starts at stay inside the bitmap.                   *)
TypeOK ==
  /\ api \in [Names -> Pod \cup {NoPod}]
  /\ born \in [Names -> Nat]
  /\ wanted \in SUBSET Names
  /\ listed \in Nat
  /\ events \in Seq([type : {"add", "update", "delete"}, pod : Pod])
  /\ hpc \in {"ready", "unmask", "reclaim"}
  /\ IF hpc = "ready" THEN ending = NoStatus ELSE ending \in PodStatus
  /\ hpc = "reclaim" => ending.cells # {}
  /\ pc \in Locations /\ cyc \in Cycle
  /\ pc \notin {"idle", "panicked"} => cyc.pod \in Pod
  /\ pc \in {"drain", "assume", "empty"} => cyc.node \in Nodes
  /\ pc = "empty" => cyc.ps \in PodStatus
  /\ pc \in {"take", "delete", "create"} => cyc.copy \in Pod
  /\ status \in [Names -> PodStatus \cup {NoStatus}]
  /\ avail \in [Cells -> Int] /\ freeMem \in [Cells -> Int]
  /\ filled \in SUBSET Nodes
  /\ masked \in [Nodes -> SUBSET (0 .. PortBits - 1)]
  /\ current \in [Nodes -> 0 .. PortBits]
  /\ boundQ \in [Nodes -> Seq(Pod)]
  /\ restarts \in Nat /\ createErrors \in Nat

(* What an alive pod uses of leaf l. *)
ShareOf(n, l) ==
  IF ~ Alive(n) \/ l \notin api[n].gpus THEN 0
  ELSE IF MultiGPU(api[n].spec.request) THEN UNIT ELSE api[n].spec.request
MemoryOf(n, l) ==
  IF ~ Alive(n) \/ l \notin api[n].gpus THEN 0
  ELSE IF MultiGPU(api[n].spec.request) THEN FullMem ELSE api[n].memory

(* The pods alive on a GPU were never promised more than the whole of it:    *)
(* whatever the user deletes or creates again and whenever the informer      *)
(* delivers it, Reserve and deletePod do not hand a share out twice.         *)
NoGpuOvercommit ==
  \A l \in Leaves : MapThenSumSet(LAMBDA n : ShareOf(n, l), Names) <= UNIT

(* The same of GPU memory. *)
NoMemoryOvercommit ==
  \A l \in Leaves : MapThenSumSet(LAMBDA n : MemoryOf(n, l), Names) <= FullMem

(* Two pods alive on a node never talk to one pod manager: the ports drawn   *)
(* from the node's bitmap are theirs alone until they end.                   *)
PortsExclusive ==
  \A m, n \in Names :
    m # n /\ Alive(m) /\ Alive(n) /\ api[m].node = api[n].node
          /\ InPool(api[m].port)
      => api[m].port # api[n].port

(* A shared pod's port comes from its node's pool: a full pool is refused by *)
(* Filter, as its message "pod manager port pool is full!" says.             *)
PortsFromPool ==
  \A n \in Names : Alive(n) /\ ~ MultiGPU(api[n].spec.request)
                     => InPool(api[n].port)

(* No leaf's remaining share is ever negative, so that Filter, which compares *)
(* it with the request, decides on a real amount.                             *)
NeverNegative == \A l \in Leaves : avail[l] >= 0

(* The cell of a node agrees with its GPUs: Filter decides about multi-GPU   *)
(* pods on the aggregates that reserveResource and reclaimResource keep.     *)
AggregatesAgree ==
  \A x \in Nodes :
    /\ avail[NodeCell[x]] = MapThenSumSet(LAMBDA l : avail[l], LeavesOf(x))
    /\ freeMem[NodeCell[x]] = MapThenSumSet(LAMBDA l : freeMem[l], LeavesOf(x))

(* Nothing is under way: no cycle, no event to handle, no pod to account. *)
Quiescent == pc = "idle" /\ events = <<>> /\ hpc = "ready" /\ \A x \in Nodes : boundQ[x] = <<>>

(* Once everything that happened has been handled, the cells and the bitmaps *)
(* say exactly what the alive pods use: nothing leaked, nothing freed twice. *)
AccountsExact ==
  Quiescent =>
    /\ \A l \in Leaves : avail[l] = UNIT - MapThenSumSet(LAMBDA n : ShareOf(n, l), Names)
    /\ \A l \in Leaves : NodeOf[l] \in filled =>
         freeMem[l] = FullMem - MapThenSumSet(LAMBDA n : MemoryOf(n, l), Names)
    /\ \A x \in Nodes : masked[x] = {0} \cup
         {api[n].port - PodManagerPortStart :
            n \in {m \in Names : Alive(m) /\ api[m].node = x /\ InPool(api[m].port)}}

(* A pod its user still wants is never lost: it exists, or Reserve stands    *)
(* between the deletion of the original and the creation of the shadow pod.  *)
PodKept ==
  \A n \in wanted : api[n] # NoPod \/ (pc = "create" /\ cyc.pod.name = n)

(* A multi-GPU pod gets as many GPUs as it asks for. *)
GpusAsRequested ==
  \A n \in Names : Alive(n) /\ MultiGPU(api[n].spec.request)
                     => UNIT * Cardinality(api[n].gpus) = api[n].spec.request

(* The scheduler drops the status of a bound pod, and with it gives back its *)
(* resources, only when that pod has ended or the scheduler itself did.      *)
ReclaimsOnlyTheEnded ==
  [][\A n \in Names :
       Alive(n) /\ status[n] # NoStatus /\ status'[n] = NoStatus
                /\ restarts' = restarts
         => status[n].uid # api[n].uid]_vars

(* The scheduling thread and the informer thread run; pods are popped from   *)
(* the queue again and again while they are unbound; containers end.         *)
Fairness ==
  /\ WF_vars(InCycle) /\ WF_vars(Informer)
  /\ \A n \in Names : SF_vars(PreFilter(n)) /\ WF_vars(Finish(n))

FairLife == LifeSpec /\ Fairness

(* A pod that ended gives back what it held: its status is dropped, and       *)
(* deletePod comes to the end of its ports and cells.                         *)
EndedIsReclaimed ==
  \A n \in Names :
    (api[n] # NoPod /\ isCompleted(api[n]))
      ~> (status[n] = NoStatus /\ (hpc # "ready" => ending.name # n))

(* No pod starves: one its user still wants is bound some day, because what  *)
(* other pods held came back.                                                *)
WantedIsBound == \A n \in Names : n \in wanted ~> (Alive(n) \/ n \notin wanted)

=============================================================================
