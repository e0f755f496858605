----------------------------- MODULE SchedulerInv -----------------------------
(***************************************************************************)
(* Why the scheduler's accounts survive an informer that lags behind the   *)
(* API server: the inductive invariants behind ReclaimsOnlyTheEnded        *)
(* (OrderInv, for every behaviour) and, for one life of the scheduler      *)
(* process, behind PodKept (LifeInv), PortsExclusive (PortInv),            *)
(* NeverNegative (ShareInv), NoGpuOvercommit (GpuInv), NoMemoryOvercommit  *)
(* (FreeInv), the refinement of GpuAllocator, GpusAsRequested (RequestInv) *)
(* and AccountsExact (ExactInv).                                           *)
(***************************************************************************)
EXTENDS SchedulerRefinement

NameOf(i) == events[i].pod.name
UidOf(i)  == events[i].pod.uid
BoundAdd(i) == events[i].type = "add" /\ isBound(events[i].pod)

Choosing  == {"filter", "drain", "select", "assume", "empty"}
Placed    == {"assume", "empty"}
Replacing == {"take", "delete", "create"}

(* The pod in the API server is the last incarnation of its name, and only a *)
(* bound pod completes.                                                      *)
LatestInApi ==
  \A n \in Names : api[n] # NoPod =>
    /\ api[n].name = n /\ api[n].uid = born[n]
    /\ isCompleted(api[n]) => isBound(api[n])

(* An event is about an incarnation that was created, and an addition comes  *)
(* after the events of the earlier incarnations of its name.                 *)
EventsKnown == \A i \in DOMAIN events : UidOf(i) <= born[NameOf(i)]
AdditionsLast ==
  \A i, j \in DOMAIN events :
    i < j /\ NameOf(i) = NameOf(j) /\ events[j].type = "add" => UidOf(i) < UidOf(j)

(* An event that calls deletePod is not about a pod that has not ended, bound *)
(* or not.                                                                    *)
NotEnded(n) == api[n] # NoPod /\ ~ isCompleted(api[n])
EventsOfThePast ==
  \A i \in DOMAIN events :
    (events[i].type # "add" \/ isCompleted(events[i].pod))
      => ~ (NotEnded(NameOf(i)) /\ api[NameOf(i)].uid = UidOf(i))

(* The copy Reserve is about to create is bound, under the name of the pod it *)
(* deletes.                                                                   *)
CopyOfThePod == pc \in Replacing => cyc.copy.name = cyc.pod.name /\ isBound(cyc.copy)

OrderInv == LatestInApi /\ EventsKnown /\ EventsOfThePast /\ CopyOfThePod

(* addPod finds a status for every shadow pod of this life, of that pod or   *)
(* a later one, so the queue of bound pods stays empty.                      *)
ShadowsKnown ==
  \A i \in DOMAIN events : BoundAdd(i) =>
    /\ status[NameOf(i)] # NoStatus
    /\ (status[NameOf(i)].uid = 0 \/ UidOf(i) <= status[NameOf(i)].uid)

NothingToAccount == \A x \in Nodes : boundQ[x] = <<>>

(* While a pod is in a cycle its name is not bound, and its uid is not less  *)
(* than that of a shadow pod still to be added.                              *)
NotYetBound ==
  pc \in Choosing \cup Replacing =>
    /\ ~ isBound(cyc.pod)
    /\ (api[cyc.pod.name] = NoPod \/ ~ isBound(api[cyc.pod.name]))
ShadowsUpTo(n, uid) ==
  \A i \in DOMAIN events : BoundAdd(i) /\ NameOf(i) = n => UidOf(i) <= uid
LaterThanShadows ==
  /\ pc \in Choosing => ShadowsUpTo(cyc.pod.name, cyc.pod.uid)
  /\ (pc = "setuid" /\ cyc.newUid # 0) => ShadowsUpTo(cyc.pod.name, cyc.newUid)

(* While its pod is replaced, the status has no uid: no event matches it. *)
KeptWhileReplaced ==
  pc \in Replacing \cup {"setuid"} =>
    status[cyc.pod.name] # NoStatus /\ status[cyc.pod.name].uid = 0

(* The uids in the scheduler's memory are of incarnations that were created. *)
UidsKnown ==
  /\ \A n \in Names : status[n] # NoStatus => status[n].uid <= born[n]
  /\ pc \in Choosing \cup Replacing => cyc.pod.uid <= born[cyc.pod.name]
  /\ pc = "setuid" => cyc.newUid <= born[cyc.pod.name]

(* The uid Reserve is about to assign is that of a bound pod. *)
ShadowIsBound ==
  pc = "setuid" /\ api[cyc.pod.name] # NoPod /\ api[cyc.pod.name].uid = cyc.newUid
    => isBound(api[cyc.pod.name])

(* The pod a cycle has in hand is in the API server, so no event makes         *)
(* deletePod take its status, not even between the lookup in newAssumed...     *)
(* and the assignment that empties the uid.                                    *)
PodInHand ==
  pc \in Choosing => api[cyc.pod.name] = cyc.pod /\ HasStatus(cyc.pod)
StatusInHand == pc = "empty" => cyc.same /\ cyc.ps = status[cyc.pod.name]

(* All of this holds if users leave the pod alone that a cycle has in hand.    *)
LifeInv == /\ OrderInv /\ AdditionsLast /\ ShadowsKnown /\ NothingToAccount
           /\ NotYetBound /\ LaterThanShadows /\ KeptWhileReplaced
           /\ UidsKnown /\ ShadowIsBound /\ PodInHand /\ StatusInHand

(* An alive pod's port is the port of its status, whose uid is the pod's or  *)
(* is about to be.                                                           *)
PortsOfTheAlive ==
  \A n \in Names : Alive(n) /\ InPool(api[n].port) =>
    /\ status[n] # NoStatus
    /\ status[n].port = api[n].port /\ status[n].node = api[n].node
    /\ \/ status[n].uid = api[n].uid
       \/ pc = "setuid" /\ cyc.pod.name = n /\ cyc.same /\ cyc.newUid = api[n].uid

(* The port of a status is masked on its node, and no other status has it. *)
PortsOfStatuses ==
  \A n \in Names : status[n] # NoStatus /\ InPool(status[n].port) =>
    /\ status[n].node \in Nodes
    /\ status[n].port - PodManagerPortStart \in masked[status[n].node]
    /\ \A m \in Names \ {n} :
         status[m] # NoStatus /\ status[m].node = status[n].node
           => status[m].port # status[n].port

(* deletePod unmasks a port no status has: it took the one that had it. *)
PortOfTheEnded ==
  hpc = "unmask" /\ InPool(ending.port) =>
    /\ ending.node \in Nodes
    /\ ending.port - PodManagerPortStart \in masked[ending.node]
    /\ \A m \in Names : status[m] # NoStatus /\ status[m].node = ending.node
                         => status[m].port # ending.port

(* The copy to be created has the port of its pod's status. *)
PortOfTheCopy ==
  pc \in Replacing /\ InPool(cyc.copy.port) =>
    /\ pc # "take" /\ cyc.same
    /\ status[cyc.pod.name].port = cyc.copy.port
    /\ status[cyc.pod.name].node = cyc.copy.node

(* A pod that is not bound has no port, nor has the status of that pod. *)
UnboundHasNoPort ==
  /\ \A n \in Names : api[n] # NoPod /\ ~ isBound(api[n]) =>
       /\ ~ InPool(api[n].port)
       /\ HasStatus(api[n]) => ~ InPool(status[n].port)
  /\ pc \in Choosing =>
       /\ ~ InPool(cyc.pod.port)
       /\ HasStatus(cyc.pod) => ~ InPool(status[cyc.pod.name].port)

PortInv == /\ PortsOfTheAlive /\ PortsOfStatuses /\ PortOfTheEnded
           /\ PortOfTheCopy /\ UnboundHasNoPort

(* The leaf chosen for a shared pod has the share until it is reserved: the  *)
(* informer thread only gives back.                                          *)
ChosenStillFits ==
  pc \in Placed /\ ~ cyc.multi =>
    \A l \in status[cyc.pod.name].cells : avail[l] >= status[cyc.pod.name].request

ShareInv == NeverNegative /\ ChosenStillFits
-----------------------------------------------------------------------------
(* What a status says of a pod that is not bound is what the pod asks for. *)
StatusAsAsked ==
  /\ \A n \in Names : api[n] # NoPod /\ ~ isBound(api[n]) /\ HasStatus(api[n]) =>
       status[n].request = api[n].spec.request /\ status[n].memory = api[n].spec.memory
  /\ pc \in Choosing =>
       /\ status[cyc.pod.name].request = cyc.pod.spec.request
       /\ status[cyc.pod.name].memory = cyc.pod.spec.memory
StatusOfSpecs ==
  /\ \A n \in Names : status[n] # NoStatus => \E s \in Specs : status[n].request = s.request
  /\ hpc # "ready" => \E s \in Specs : ending.request = s.request

(* An alive pod's GPUs are the cells of its status, as those of the copy      *)
(* Reserve is about to create are.                                            *)
StatusOf(n, pod) ==
  /\ status[n].cells = pod.gpus /\ status[n].request = pod.spec.request
  /\ ~ MultiGPU(pod.spec.request) => status[n].memory = pod.memory
GpusOfTheAlive ==
  \A n \in Names : Alive(n) =>
    /\ status[n] # NoStatus /\ StatusOf(n, api[n])
    /\ \/ status[n].uid = api[n].uid
       \/ pc = "setuid" /\ cyc.pod.name = n /\ cyc.same /\ cyc.newUid = api[n].uid
GpusOfTheCopy ==
  pc \in Replacing => cyc.same /\ StatusOf(cyc.pod.name, cyc.copy)

(* A shared pod was chosen one leaf; a multi-GPU pod leaves that are whole,   *)
(* and they stay whole until it takes them.                                   *)
ChosenCells ==
  pc \in Placed =>
    LET ps == status[cyc.pod.name] IN
      /\ cyc.multi = MultiGPU(ps.request)
      /\ IF cyc.multi THEN \A l \in ps.cells : avail[l] = UNIT
                      ELSE \E l \in Leaves : ps.cells = {l}
CellsToTake ==
  pc = "take" =>
    /\ MultiGPU(status[cyc.pod.name].request)
    /\ cyc.left \subseteq status[cyc.pod.name].cells
    /\ \A l \in cyc.left : avail[l] = UNIT

PlaceInv == /\ StatusAsAsked /\ StatusOfSpecs /\ GpusOfTheAlive /\ GpusOfTheCopy
            /\ ChosenCells /\ CellsToTake

(* What the status of name n holds of leaf l, and deletePod would give back:  *)
(* nothing as long as Reserve has chosen the leaf and not taken it.           *)
NotYetTaken(n, l) ==
  /\ pc \in Placed \/ (pc = "take" /\ l \in cyc.left)
  /\ cyc.pod.name = n
Holds(n, l) == status[n] # NoStatus /\ l \in status[n].cells /\ ~ NotYetTaken(n, l)
Units(request) == IF MultiGPU(request) THEN UNIT ELSE request
Taken(n, l) == IF Holds(n, l) THEN Units(status[n].request) ELSE 0
TakenOf(l)  == MapThenSumSet(LAMBDA n : Taken(n, l), Names)

(* What deletePod took from the map and still has to give back of leaf l. *)
Returning(l) ==
  IF hpc # "ready" /\ l \in ending.cells THEN Units(ending.request) ELSE 0

(* What the statuses hold of a leaf, what is being given back and what is     *)
(* left of it are not more than the leaf.  They are less when PreFilter        *)
(* replaced the status of an earlier incarnation whose deletion is still to    *)
(* be handled.                                                                 *)
AvailCovers == \A l \in Leaves : avail[l] + Returning(l) + TakenOf(l) <= UNIT

GpuInv == PlaceInv /\ AvailCovers

(* The same of memory: a GPU has it once it is known, the leaves of statuses  *)
(* are of such GPUs, and the leaf chosen for a shared pod keeps what it asks. *)
TakenMemory(n, l) ==
  IF ~ Holds(n, l) THEN 0
  ELSE IF MultiGPU(status[n].request) THEN FullMem ELSE status[n].memory
TakenMemoryOf(l) == MapThenSumSet(LAMBDA n : TakenMemory(n, l), Names)
MemoryOfLeaf(l)  == IF NodeOf[l] \in filled THEN FullMem ELSE 0

ReturningMemory(l) ==
  IF hpc = "ready" \/ l \notin ending.cells THEN 0
  ELSE IF MultiGPU(ending.request) THEN FullMem ELSE ending.memory

KnownCell(ps) == ps.memory >= 0 /\ \A l \in ps.cells : NodeOf[l] \in filled
KnownCells ==
  /\ \A n \in Names : status[n] # NoStatus => KnownCell(status[n])
  /\ hpc # "ready" => KnownCell(ending)
ChosenMemoryFits ==
  pc \in Placed /\ ~ cyc.multi =>
    \A l \in status[cyc.pod.name].cells : freeMem[l] >= status[cyc.pod.name].memory
MemoryLeft   == \A l \in Leaves : freeMem[l] >= 0
MemoryCovers ==
  \A l \in Leaves : freeMem[l] + ReturningMemory(l) + TakenMemoryOf(l) <= MemoryOfLeaf(l)

FreeInv == KnownCells /\ ChosenMemoryFits /\ MemoryLeft /\ MemoryCovers

(* Why neither ports nor GPUs are handed out twice. *)
AccountInv == PortInv /\ ShareInv /\ GpuInv /\ FreeInv

(* FreeInv holds if every shared pod says which share and memory it wants. *)
SharedAskBoth  == \A s \in Specs : MultiGPU(s.request) \/ (s.request > 0 /\ s.memory > 0)

-----------------------------------------------------------------------------
(* When a multi-GPU pod gets as many GPUs as it asks for: Filter compares the *)
(* request with what is left of the whole node, so the node's leaves must be  *)
(* whole or taken, or the request must be for all of them.                    *)
NobodyShares == \A s \in Specs : s.request % UNIT = 0
WholeNodes ==
  \A s \in Specs, x \in Nodes :
    MultiGPU(s.request) => s.request >= UNIT * Cardinality(LeavesOf(x))

WholeOf(x) == {l \in LeavesOf(x) : avail[l] = UNIT}
Unbroken ==
  NobodyShares => \A l \in Leaves : avail[l] \in {0, UNIT}

(* The nodes that fit keep enough whole leaves until Reserve chooses them, and *)
(* those it chose are as many as asked for, up to the pod it creates.          *)
FitsAreWhole ==
  pc \in {"filter", "drain", "select"} /\ MultiGPU(cyc.pod.spec.request) =>
    \A x \in cyc.fit :
      x \in filled /\ UNIT * Cardinality(WholeOf(x)) >= cyc.pod.spec.request
ChosenAsRequested ==
  /\ pc \in Placed /\ cyc.multi =>
       UNIT * Cardinality(status[cyc.pod.name].cells) = cyc.pod.spec.request
  /\ pc \in Replacing /\ MultiGPU(cyc.copy.spec.request) =>
       UNIT * Cardinality(cyc.copy.gpus) = cyc.copy.spec.request

RequestInv == Unbroken /\ FitsAreWhole /\ ChosenAsRequested /\ GpusAsRequested
-----------------------------------------------------------------------------
(* Why nothing leaks: when a name is used by one pod and its shadow, no       *)
(* creation fails and nobody touches a pod in a cycle, PreFilter never         *)
(* replaces a status that holds something, and whoever ends has an event.      *)
Undisturbed == /\ OriginalsStay /\ ShadowsStay /\ MaxCreateErrors = 0
               /\ \A n \in Names : MaxUid[n] <= 2

FirstIsUnbound == \A n \in Names : api[n] # NoPod /\ ~ isBound(api[n]) => born[n] = 1
UidWhileReplaced ==
  \A n \in Names : status[n] # NoStatus /\ status[n].uid = 0 =>
    pc \in Replacing \cup {"setuid"} /\ cyc.pod.name = n
ShadowForSure ==
  /\ pc \in Replacing => ~ isCompleted(cyc.copy)
  /\ pc = "create" => api[cyc.pod.name] = NoPod
  /\ pc = "setuid" => /\ cyc.same /\ Alive(cyc.pod.name)
                      /\ cyc.newUid = api[cyc.pod.name].uid

(* A status holds nothing before its pod was in Reserve. *)
HeldFromReserve ==
  \A n \in Names :
    api[n] # NoPod /\ ~ isBound(api[n]) /\ HasStatus(api[n]) /\ ~ (pc \in Placed /\ cyc.pod.name = n)
      => status[n].cells = {}

(* What holds something belongs to a pod that is alive, or in Reserve, or      *)
(* whose end is still to be handled.                                           *)
HeldUntilHandled ==
  \A n \in Names :
    status[n] # NoStatus /\ status[n].uid # 0 /\ ~ Alive(n)
          /\ (status[n].cells # {} \/ InPool(status[n].port))
          /\ ~ (pc \in Placed /\ cyc.pod.name = n)
      => \E i \in DOMAIN events :
           /\ events[i].type = "delete" \/ isCompleted(events[i].pod)
           /\ NameOf(i) = n /\ UidOf(i) = status[n].uid

SharesExact == \A l \in Leaves : avail[l] + Returning(l) + TakenOf(l) = UNIT
MemoryExact ==
  \A l \in Leaves : freeMem[l] + ReturningMemory(l) + TakenMemoryOf(l) = MemoryOfLeaf(l)

(* A masked port is the one never drawn, or the port of a shared pod's status, *)
(* or that of the status deletePod is about to give back.                      *)
PortsExact ==
  /\ \A x \in Nodes : 0 \in masked[x] /\ \A b \in masked[x] \ {0} :
       \/ \E n \in Names : /\ status[n] # NoStatus /\ status[n].node = x
                           /\ status[n].port = b + PodManagerPortStart
       \/ hpc = "unmask" /\ ending.node = x /\ ending.port = b + PodManagerPortStart
  /\ \A n \in Names : status[n] # NoStatus =>
       /\ status[n].port # PodManagerPortStart
       /\ MultiGPU(status[n].request) => ~ InPool(status[n].port)
  /\ hpc = "unmask" => ending.port # PodManagerPortStart

(* ... and that of the pod, as soon as it exists. *)
PortsAnnotated ==
  /\ \A n \in Names : Alive(n) /\ InPool(status[n].port) =>
       api[n].port = status[n].port /\ api[n].node = status[n].node
  /\ pc \in Replacing /\ InPool(status[cyc.pod.name].port) =>
       /\ cyc.copy.port = status[cyc.pod.name].port
       /\ cyc.copy.node = status[cyc.pod.name].node

ExactInv == /\ FirstIsUnbound /\ UidWhileReplaced /\ ShadowForSure /\ HeldFromReserve
            /\ HeldUntilHandled /\ SharesExact /\ MemoryExact /\ PortsExact /\ PortsAnnotated

(* Why requests are met and accounts exact when all is calm: multi-GPU pods   *)
(* ask for whole nodes and nobody touches a pod in a cycle.                   *)
CalmInv == RequestInv /\ ExactInv
================================================================================
