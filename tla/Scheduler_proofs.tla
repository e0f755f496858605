--------------------------- MODULE Scheduler_proofs ---------------------------
(***************************************************************************)
(* What holds of the reservation core for every topology, workload and     *)
(* bound: a search of a port bitmap finds what is free, and each variable  *)
(* keeps its type.                                                         *)
(***************************************************************************)
EXTENDS SchedulerInv, FiniteSums_proofs, SequenceTheorems

(* A search starts at a legal position: this is what every caller ensures. *)
Searchable(bits, next, l) ==
  /\ l \in Nat \ {0}
  /\ next \in 0 .. l
  /\ bits \in SUBSET (0 .. l - 1)

(* FindNextFromCurrent returns a position of the bitmap that is not masked, *)
(* or -1, and -1 only when every position is masked.                        *)
THEOREM FindNextIsFree ==
  ASSUME NEW bits, NEW next, NEW l, Searchable(bits, next, l)
  PROVE  LET ii == FindNextFromCurrent(bits, next, l)
         IN  \/ ii = -1 /\ bits = 0 .. l - 1
             \/ ii \in (0 .. l - 1) \ bits
<1> DEFINE U == Unmasked(bits, next, l)
<1> USE DEF Searchable
<1>1. CASE U = {}
  <2>1. ASSUME NEW p \in 0 .. l - 1 PROVE p \in bits
    <3>1. CASE p >= next
      <4>1. p \in next .. next + l - 1 /\ Wrap(p, l) = p
        BY <3>1 DEF Wrap
      <4> QED BY <4>1, <1>1 DEF Unmasked
    <3>2. CASE p < next
      <4>1. p + l \in next .. next + l - 1 /\ Wrap(p + l, l) = p
        BY <3>2 DEF Wrap
      <4> QED BY <4>1, <1>1 DEF Unmasked
    <3> QED BY <3>1, <3>2
  <2>2. bits = 0 .. l - 1
    BY <2>1
  <2> QED
    BY <1>1, <2>2 DEF FindNextFromCurrent
<1>2. CASE U # {}
  <2>1. U \in SUBSET Nat /\ IsFiniteSet(U)
    <3>1. U \in SUBSET (next .. next + l - 1)
      BY DEF Unmasked
    <3>2. next .. next + l - 1 \in SUBSET Nat
      OBVIOUS
    <3>3. IsFiniteSet(next .. next + l - 1)
      BY FS_Interval
    <3> HIDE DEF U
    <3> QED BY <3>1, <3>2, <3>3, FS_Subset
  <2>2. Min(U) \in U
    BY <1>2, <2>1, MinOfNaturals
  <2>3. Wrap(Min(U), l) \in (0 .. l - 1) \ bits
    BY <2>2 DEF Unmasked, Wrap
  <2> QED
    BY <1>2, <2>3 DEF FindNextFromCurrent
<1> QED
  BY <1>1, <1>2

-----------------------------------------------------------------------------
EventSet == [type : {"add", "update", "delete"}, pod : Pod]

(* Appending an event, and dropping the first, keep a sequence of events. *)
LEMMA AppendEvent ==
  ASSUME NEW q \in Seq(EventSet), NEW e \in EventSet
  PROVE  /\ Append(q, e) \in Seq(EventSet)
         /\ DOMAIN Append(q, e) = 1 .. Len(q) + 1
         /\ \A i \in DOMAIN q : Append(q, e)[i] = q[i]
         /\ Append(q, e)[Len(q) + 1] = e
  BY AppendProperties

(* Dropping the first event leaves the others in their order. *)
LEMMA DropEvent ==
  ASSUME NEW q \in Seq(EventSet), q # <<>>
  PROVE  /\ Tail(q) \in Seq(EventSet) /\ Head(q) \in EventSet
         /\ Head(q) = q[1] /\ 1 \in DOMAIN q
         /\ \A i \in DOMAIN Tail(q) : Tail(q)[i] = q[i + 1] /\ i + 1 \in DOMAIN q
  BY HeadTailProperties

(* The scheduling thread's variables when it has no pod. *)
LEMMA IdleCycleType == IdleCycle \in Cycle
  BY DEF IdleCycle, Cycle

(* The counts used to reserve and reclaim are numbers. *)
LEMMA CountType ==
  ASSUME NEW S \in SUBSET Leaves
  PROVE  IsFiniteSet(S) /\ Cardinality(S) \in Nat
  BY TopologyAssumption, FS_Subset, FS_CardinalityType

(* The variables have their types when New has run. *)
THEOREM TypeInit == Init => TypeOK
<1> SUFFICES ASSUME Init PROVE TypeOK
  OBVIOUS
<1>1. Full \in [Cells -> Int]
  <2>1. \A c \in Cells : LeavesUnder(c) \in SUBSET Leaves
    BY DEF LeavesUnder
  <2>2. \A c \in Cells : Cardinality(LeavesUnder(c)) \in Nat
    BY <2>1, CountType
  <2> QED
    BY <2>2, RequestAssumption DEF Full
<1>2. events \in Seq(EventSet)
  BY EmptySeq DEF Init
<1>3. boundQ \in [Nodes -> Seq(Pod)]
  BY EmptySeq DEF Init
<1> QED
  BY <1>1, <1>2, <1>3, IdleCycleType, RequestAssumption
     DEF Init, TypeOK, EventSet, Locations

(* getPodLabels returns a status, old or new. *)
LEMMA StatusType ==
  ASSUME TypeOK, NEW pod \in Pod
  PROVE  GetPodLabels(pod) \in PodStatus
<1>1. CASE HasStatus(pod)
  BY <1>1 DEF TypeOK, GetPodLabels, HasStatus, Pod
<1>2. CASE ~ HasStatus(pod)
  <2>1. pod.spec.request \in Nat /\ pod.spec.memory \in Nat
    BY RequestAssumption DEF Pod
  <2> QED BY <1>2, <2>1 DEF GetPodLabels, Pod, PodStatus, Ports
<1> QED BY <1>1, <1>2

(* Reserving some leaves leaves numbers. *)
LEMMA ReserveEachType ==
  ASSUME TypeOK, NEW S \in SUBSET Leaves, NEW units \in Int, NEW memory \in Int,
         ReserveEach(S, units, memory)
  PROVE  avail' \in [Cells -> Int] /\ freeMem' \in [Cells -> Int]
<1>1. \A c \in Cells : Cardinality(S \cap LeavesUnder(c)) \in Nat
  <2>1. \A c \in Cells : S \cap LeavesUnder(c) \in SUBSET Leaves
    OBVIOUS
  <2> QED BY <2>1, CountType
<1> DEFINE count == [c \in Cells |-> Cardinality(S \cap LeavesUnder(c))]
<1>3. count \in [Cells -> Int]
  BY <1>1
<1>4. /\ avail' = [c \in Cells |-> avail[c] - units * count[c]]
      /\ freeMem' = [c \in Cells |-> freeMem[c] - memory * count[c]]
  BY DEF ReserveEach
<1> HIDE DEF count
<1>5. avail \in [Cells -> Int] /\ freeMem \in [Cells -> Int]
  BY DEF TypeOK
<1>6. ASSUME NEW c \in Cells
      PROVE  avail[c] - units * count[c] \in Int /\ freeMem[c] - memory * count[c] \in Int
  BY <1>3, <1>5
<1> QED
  BY <1>4, <1>6

(* Reserving one leaf leaves numbers. *)
LEMMA ReserveResourceType ==
  ASSUME TypeOK, NEW l \in Leaves, NEW units \in Int, NEW memory \in Int,
         ReserveResource(l, units, memory)
  PROVE  avail' \in [Cells -> Int] /\ freeMem' \in [Cells -> Int]
  BY DEF ReserveResource, TypeOK

(* What TypeOK says of the informer thread. *)
EndingType ==
  /\ hpc \in {"ready", "unmask", "reclaim"}
  /\ IF hpc = "ready" THEN ending = NoStatus ELSE ending \in PodStatus
  /\ hpc = "reclaim" => ending.cells # {}

(* deletePod keeps the types of all it changes. *)
LEMMA ReclaimingType ==
  ASSUME NEW ps \in PodStatus, Reclaiming(ps)
  PROVE  EndingType'
  BY DEF Reclaiming, EndingType

LEMMA DeletePodType ==
  ASSUME TypeOK, NEW pod \in Pod, DeletePod(pod)
  PROVE  status' \in [Names -> PodStatus \cup {NoStatus}] /\ EndingType'
<1>1. CASE ~ HasStatus(pod)
  BY <1>1 DEF DeletePod, TypeOK, EndingType, endVars
<1>2. CASE HasStatus(pod)
  <2>1. PICK ps \in PodStatus : ps = status[pod.name]
    BY <1>2 DEF HasStatus, TypeOK, Pod
  <2>2. /\ status' = [status EXCEPT ![pod.name] = NoStatus]
        /\ Reclaiming(ps) \/ (hpc' = "unmask" /\ ending' = ps)
    BY <1>2, <2>1 DEF DeletePod
  <2>3. EndingType'
    BY <2>2, ReclaimingType DEF EndingType
  <2> QED BY <2>2, <2>3 DEF TypeOK
<1> QED BY <1>1, <1>2

(* Steps outside the scheduler leave its memory alone. *)
LEMMA QuietType ==
  ASSUME TypeOK, api' \in [Names -> Pod \cup {NoPod}], born' \in [Names -> Nat],
         wanted' \in SUBSET Names, events' \in Seq(EventSet),
         UNCHANGED <<listed, endVars, pc, cyc, status, cellVars, filled, portVars, boundQ,
                     counters>>
  PROVE  TypeOK'
<1>1. UNCHANGED <<listed, hpc, ending, pc, cyc, status, avail, freeMem, filled, masked,
                  current, boundQ, restarts, createErrors>>
  BY DEF endVars, cellVars, portVars, counters
<1>2. /\ listed' \in Nat /\ pc' \in Locations /\ cyc' \in Cycle
      /\ hpc' \in {"ready", "unmask", "reclaim"}
      /\ IF hpc' = "ready" THEN ending' = NoStatus ELSE ending' \in PodStatus
      /\ hpc' = "reclaim" => ending'.cells # {}
      /\ pc' \notin {"idle", "panicked"} => cyc'.pod \in Pod
      /\ pc' \in {"drain", "assume", "empty"} => cyc'.node \in Nodes
      /\ pc' = "empty" => cyc'.ps \in PodStatus
      /\ pc' \in {"take", "delete", "create"} => cyc'.copy \in Pod
  BY <1>1 DEF TypeOK
<1>3. /\ status' \in [Names -> PodStatus \cup {NoStatus}]
      /\ avail' \in [Cells -> Int] /\ freeMem' \in [Cells -> Int]
      /\ filled' \in SUBSET Nodes
      /\ masked' \in [Nodes -> SUBSET (0 .. PortBits - 1)]
      /\ current' \in [Nodes -> 0 .. PortBits]
      /\ boundQ' \in [Nodes -> Seq(Pod)]
      /\ restarts' \in Nat /\ createErrors' \in Nat
  BY <1>1 DEF TypeOK
<1> QED BY <1>2, <1>3, Zenon DEF TypeOK, EventSet

(* Every step keeps the types. *)
LEMMA EnvironmentType ==
  ASSUME TypeOK, NEW n \in Names,
         (\E s \in Specs : UserCreate(n, s)) \/ UserDelete(n) \/ Finish(n)
  PROVE  TypeOK'
<1>0. events \in Seq(EventSet)
  BY DEF TypeOK, EventSet
<1>1. ASSUME NEW s \in Specs, UserCreate(n, s) PROVE TypeOK'
  <2>1. NewPod(n, s) \in Pod
    <3>1. born[n] \in Nat
      BY DEF TypeOK
    <3> QED BY <3>1 DEF NewPod, Pod, Ports
  <2>2. events' \in Seq(EventSet)
    <3>1. Event("add", NewPod(n, s)) \in EventSet
      BY <2>1 DEF Event, EventSet
    <3> QED BY <1>0, <1>1, <3>1, AppendEvent DEF UserCreate
  <2>3. api' \in [Names -> Pod \cup {NoPod}] /\ born' \in [Names -> Nat]
    BY <1>1, <2>1 DEF UserCreate, TypeOK
  <2>4. wanted' \in SUBSET Names
    BY <1>1 DEF UserCreate, TypeOK
  <2> QED BY <1>1, <2>2, <2>3, <2>4, QuietType DEF UserCreate
<1>2. CASE UserDelete(n)
  <2>1. events' \in Seq(EventSet)
    <3>1. api[n] \in Pod
      BY <1>2 DEF UserDelete, TypeOK
    <3>2. Event("delete", api[n]) \in EventSet
      BY <3>1 DEF Event, EventSet
    <3> QED BY <1>0, <1>2, <3>2, AppendEvent DEF UserDelete
  <2>2. api' \in [Names -> Pod \cup {NoPod}] /\ born' \in [Names -> Nat]
    BY <1>2 DEF UserDelete, TypeOK
  <2>3. wanted' \in SUBSET Names
    BY <1>2 DEF UserDelete, TypeOK
  <2> QED BY <1>2, <2>1, <2>2, <2>3, QuietType DEF UserDelete
<1>3. CASE Finish(n)
  <2> DEFINE pod == [api[n] EXCEPT !.phase = "Done"]
  <2>1. pod \in Pod
    <3>1. api[n] \in Pod
      BY <1>3 DEF Finish, Alive, TypeOK
    <3> QED BY <3>1 DEF Pod
  <2>2. events' = Append(events, Event("update", pod)) /\ api' = [api EXCEPT ![n] = pod]
    BY <1>3 DEF Finish
  <2> HIDE DEF pod
  <2>3. events' \in Seq(EventSet)
    <3>1. Event("update", pod) \in EventSet
      BY <2>1 DEF Event, EventSet
    <3> QED BY <1>0, <2>2, <3>1, AppendEvent
  <2>4. api' \in [Names -> Pod \cup {NoPod}] /\ born' \in [Names -> Nat]
    BY <1>3, <2>1, <2>2 DEF Finish, TypeOK
  <2>5. wanted' \in SUBSET Names
    BY <1>3 DEF Finish, TypeOK
  <2> QED BY <1>3, <2>3, <2>4, <2>5, QuietType DEF Finish
<1> QED BY <1>1, <1>2, <1>3

(* A handler drops the first event, and may call deletePod or addPod for it. *)
HandlesEvent == HandleAdd \/ HandleUpdate \/ HandleDelete

LEMMA HandlerType ==
  ASSUME TypeOK, HandlesEvent
  PROVE  TypeOK'
<1> DEFINE pod == Head(events).pod
<1>1. events # <<>> /\ EventHandled
  BY DEF HandlesEvent, HandleAdd, HandleUpdate, HandleDelete, NextEvent
<1>2. pod \in Pod /\ events' \in Seq(EventSet) /\ listed' \in Nat
  <2>1. events \in Seq(EventSet) /\ listed \in Nat
    BY DEF TypeOK, EventSet
  <2>2. Head(events) \in EventSet /\ Tail(events) \in Seq(EventSet)
    BY <1>1, <2>1, DropEvent
  <2>3. Head(events).pod \in Pod
    BY <2>2 DEF EventSet
  <2> QED BY <1>1, <2>1, <2>2, <2>3 DEF EventHandled
<1>3. DeletePod(pod) \/ UNCHANGED <<status, endVars>>
  BY DEF HandlesEvent, HandleAdd, HandleUpdate, HandleDelete
<1>4. status' \in [Names -> PodStatus \cup {NoStatus}] /\ EndingType'
  <2> HIDE DEF pod
  <2>1. CASE DeletePod(pod)
    BY <1>2, <2>1, DeletePodType
  <2>2. CASE UNCHANGED <<status, endVars>>
    BY <2>2 DEF TypeOK, EndingType, endVars
  <2> QED BY <1>3, <2>1, <2>2
<1>5. boundQ' \in [Nodes -> Seq(Pod)]
  <2>1. UNCHANGED boundQ \/ boundQ' = [boundQ EXCEPT ![pod.node] = Append(@, pod)]
    BY DEF HandlesEvent, HandleAdd, HandleUpdate, HandleDelete, AddPod
  <2>2. boundQ \in [Nodes -> Seq(Pod)]
    BY DEF TypeOK
  <2> HIDE DEF pod
  <2>3. \A q \in Seq(Pod) : Append(q, pod) \in Seq(Pod)
    BY <1>2, AppendProperties
  <2> QED BY <2>1, <2>2, <2>3
<1>6. UNCHANGED <<apiVars, pc, cyc, cellVars, filled, portVars, counters>>
  BY DEF HandlesEvent, HandleAdd, HandleUpdate, HandleDelete
<1> QED
  BY <1>2, <1>4, <1>5, <1>6
     DEF TypeOK, EventSet, EndingType, apiVars, cellVars, portVars, counters

(* The rest of deletePod unmasks a port of the pool, and reclaims numbers. *)
LEMMA UnmaskEndedType ==
  ASSUME TypeOK, UnmaskEnded
  PROVE  TypeOK'
<1>1. EndingType'
  BY ReclaimingType DEF UnmaskEnded, TypeOK
<1>2. masked' \in [Nodes -> SUBSET (0 .. PortBits - 1)]
  BY DEF UnmaskEnded, UnmaskPort, TypeOK
<1> QED
  BY <1>1, <1>2
     DEF UnmaskEnded, TypeOK, EndingType, apiVars, cellVars, counters

LEMMA ReclaimCellType ==
  ASSUME TypeOK, NEW l \in Leaves, ReclaimCell(l)
  PROVE  TypeOK'
<1>1. ending \in PodStatus
  BY DEF ReclaimCell, TypeOK
<1>2. ending.request \in Int /\ ending.memory \in Int /\ [ending EXCEPT !.cells = @ \ {l}] \in PodStatus
  BY <1>1 DEF PodStatus
<1>3. EndingType'
  BY <1>2, ReclaimingType DEF ReclaimCell
<1>4. avail' \in [Cells -> Int] /\ freeMem' \in [Cells -> Int]
  <2>1. ReclaimResource(l, UNIT, FullMem) \/ ReclaimResource(l, ending.request, ending.memory)
    BY DEF ReclaimCell
  <2>2. /\ -UNIT \in Int /\ -FullMem \in Int
        /\ -(ending.request) \in Int /\ -(ending.memory) \in Int
    BY <1>2, RequestAssumption
  <2> QED BY <2>1, <2>2, ReserveResourceType DEF ReclaimResource
<1> QED
  BY <1>3, <1>4
     DEF ReclaimCell, TypeOK, EndingType, apiVars, portVars, counters

(* The informer thread keeps the types. *)
LEMMA InformerType ==
  ASSUME TypeOK, Informer
  PROVE  TypeOK'
  BY HandlerType, UnmaskEndedType, ReclaimCellType DEF Informer, HandlesEvent

(* No status is dropped. *)
StatusesKept == \A n \in Names : status[n] # NoStatus => status'[n] # NoStatus

(* What changes when the scheduling thread only looks at a pod. *)
LEMMA PreFilterType ==
  ASSUME TypeOK, NEW n \in Names, PreFilter(n)
  PROVE  TypeOK'
<1>1. api[n] \in Pod
  BY DEF PreFilter, TypeOK
<1>2. GetPodLabels(api[n]) \in PodStatus
  BY <1>1, StatusType
<1>3. cyc' \in Cycle /\ cyc'.pod = api[n]
  BY <1>1 DEF PreFilter, IdleCycle, Cycle
<1> QED
  BY <1>1, <1>2, <1>3
     DEF PreFilter, TypeOK, Locations, apiVars, queueVars, endVars, cellVars, portVars, counters

(* addNode gives the cells the memory of their GPUs, a number. *)
LEMMA FilterAddNodeType ==
  ASSUME TypeOK, NEW x \in Nodes, NEW seen \in BOOLEAN, FilterAddNode(x, seen)
  PROVE  TypeOK'
<1>1. freeMem' \in [Cells -> Int]
  <2>1. PassMemoryToParent(x) \in [Cells -> Int]
    <3>1. \A c \in Cells : LeavesOf(x) \cap LeavesUnder(c) \in SUBSET Leaves
      BY DEF LeavesOf
    <3> DEFINE count == [c \in Cells |-> Cardinality(LeavesOf(x) \cap LeavesUnder(c))]
    <3>2. count \in [Cells -> Int]
      BY <3>1, CountType
    <3>3. PassMemoryToParent(x) = [c \in Cells |-> freeMem[c] + FullMem * count[c]]
      BY DEF PassMemoryToParent
    <3> HIDE DEF count
    <3>4. freeMem \in [Cells -> Int] /\ FullMem \in Int
      BY RequestAssumption DEF TypeOK
    <3>5. ASSUME NEW c \in Cells PROVE freeMem[c] + FullMem * count[c] \in Int
      BY <3>2, <3>4
    <3> QED BY <3>3, <3>5
  <2>2. freeMem' = PassMemoryToParent(x) \/ UNCHANGED freeMem
    BY DEF FilterAddNode, SetCellStatus
  <2> QED BY <2>1, <2>2 DEF TypeOK
<1>2. filled' \in SUBSET Nodes
  BY DEF FilterAddNode, SetCellStatus, TypeOK
<1>3. cyc' \in Cycle /\ cyc'.pod = cyc.pod /\ cyc'.node = x /\ cyc.pod \in Pod
  BY DEF FilterAddNode, TypeOK, Cycle
<1> QED
  BY <1>1, <1>2, <1>3
     DEF FilterAddNode, TypeOK, Locations, apiVars, queueVars, endVars, portVars, counters

(* processBoundPod masks a port of the pool, and reserves numbers. *)
LEMMA FilterBoundPodType ==
  ASSUME TypeOK, FilterBoundPod
  PROVE  TypeOK' /\ StatusesKept
<1> DEFINE x     == cyc.node
           q     == boundQ[x]
           pod   == Head(q)
           ps    == GetPodLabels(pod)
           found == {l \in pod.gpus : NodeOf[l] \in filled}
           known == IF ps.cells = {} THEN [ps EXCEPT !.cells = found, !.memory = pod.memory]
                    ELSE ps
<1>1. x \in Nodes /\ q \in Seq(Pod) /\ q # <<>>
  <2>1. pc = "drain" /\ boundQ[cyc.node] # <<>>
    BY Zenon DEF FilterBoundPod
  <2> QED BY <2>1 DEF TypeOK
<1>2. pod \in Pod /\ Tail(q) \in Seq(Pod)
  BY <1>1, HeadTailProperties
<1>3. ps \in PodStatus
  BY <1>2, StatusType
<1>4. found \in SUBSET Leaves /\ pod.memory \in Int /\ pod.name \in Names /\ pod.port \in Ports
  BY <1>2 DEF Pod
<1>5. known \in PodStatus /\ [known EXCEPT !.port = pod.port] \in PodStatus
  BY <1>3, <1>4 DEF PodStatus
<1>6. /\ \/ UNCHANGED cellVars
         \/ ReserveEach(found, UNIT, FullMem)
         \/ ReserveEach(found, ps.request, pod.memory)
      /\ \/ status' = [status EXCEPT ![pod.name] = known]
         \/ status' = [status EXCEPT ![pod.name] = [known EXCEPT !.port = pod.port]]
      /\ UNCHANGED masked \/ MaskPort(ps.node, pod.port)
      /\ boundQ' = [boundQ EXCEPT ![x] = Tail(q)]
      /\ UNCHANGED <<apiVars, queueVars, pc, cyc, filled, current, counters>>
  <2>1. /\ IF ps.cells # {} THEN UNCHANGED cellVars
           ELSE IF MultiGPU(ps.request) THEN ReserveEach(found, UNIT, FullMem)
           ELSE ReserveEach(found, ps.request, pod.memory)
        /\ IF MultiGPU(ps.request)
             THEN status' = [status EXCEPT ![pod.name] = known] /\ UNCHANGED masked
             ELSE /\ status' = [status EXCEPT ![pod.name] = [known EXCEPT !.port = pod.port]]
                  /\ MaskPort(ps.node, pod.port)
        /\ boundQ' = [boundQ EXCEPT ![x] = Tail(@)]
        /\ UNCHANGED <<apiVars, queueVars, pc, cyc, filled, current, counters>>
    BY Zenon DEF FilterBoundPod
  <2>2. q = boundQ[x]
    OBVIOUS
  <2> HIDE DEF x, q, pod, ps, found, known
  <2> QED BY <2>1, <2>2
<1> HIDE DEF x, q, pod, ps, found, known
<1>7. avail' \in [Cells -> Int] /\ freeMem' \in [Cells -> Int]
  <2>1. UNIT \in Int /\ FullMem \in Int /\ ps.request \in Int
    BY <1>3, RequestAssumption DEF PodStatus
  <2>2. CASE UNCHANGED cellVars
    BY <2>2 DEF TypeOK, cellVars
  <2>3. CASE ReserveEach(found, UNIT, FullMem)
    BY <1>4, <2>1, <2>3, ReserveEachType, Zenon
  <2>4. CASE ReserveEach(found, ps.request, pod.memory)
    BY <1>4, <2>1, <2>4, ReserveEachType, Zenon
  <2> QED BY <1>6, <2>2, <2>3, <2>4
<1>8. status' \in [Names -> PodStatus \cup {NoStatus}]
  BY <1>4, <1>5, <1>6 DEF TypeOK
<1>9. masked' \in [Nodes -> SUBSET (0 .. PortBits - 1)]
  <2>1. masked \in [Nodes -> SUBSET (0 .. PortBits - 1)]
    BY DEF TypeOK
  <2>2. CASE MaskPort(ps.node, pod.port) /\ InPool(pod.port)
    <3>1. pod.port - PodManagerPortStart \in 0 .. PortBits - 1
      BY <1>4, <2>2, RequestAssumption DEF Ports, InPool, PodManagerPortStart
    <3> QED BY <2>1, <2>2, <3>1 DEF MaskPort
  <2>3. CASE UNCHANGED masked \/ (MaskPort(ps.node, pod.port) /\ ~ InPool(pod.port))
    BY <2>1, <2>3 DEF MaskPort
  <2> QED BY <1>6, <2>2, <2>3
<1>10. boundQ' \in [Nodes -> Seq(Pod)]
  BY <1>1, <1>2, <1>6 DEF TypeOK
<1>11. StatusesKept
  BY <1>4, <1>5, <1>6, AbsenceAssumption DEF StatusesKept, TypeOK, Pod
<1> QED
  BY <1>11, <1>6, <1>7, <1>8, <1>9, <1>10 DEF TypeOK, apiVars, queueVars, endVars, counters

(* The decision about a node writes a status of its pod. *)
LEMMA FilterDecideType ==
  ASSUME TypeOK, FilterDecide
  PROVE  TypeOK' /\ StatusesKept
<1>1. cyc.pod \in Pod /\ cyc.node \in Nodes /\ cyc \in Cycle
  BY DEF FilterDecide, TypeOK
<1>2. GetPodLabels(cyc.pod) \in PodStatus
  BY <1>1, StatusType
<1>3. /\ status' = [status EXCEPT ![cyc.pod.name] = GetPodLabels(cyc.pod)]
      /\ \E fit \in {cyc.fit \cup {cyc.node}, cyc.fit} :
           \/ pc' \in {"filter", "select"} /\ cyc' = [cyc EXCEPT !.fit = fit]
           \/ pc' = "idle" /\ cyc' = IdleCycle
  BY DEF FilterDecide
<1>4. cyc' \in Cycle /\ pc' \in {"filter", "select", "idle"} /\ (pc' # "idle" => cyc'.pod \in Pod)
  BY <1>1, <1>3, IdleCycleType DEF Cycle
<1>5. status' \in [Names -> PodStatus \cup {NoStatus}]
  BY <1>1, <1>2, <1>3 DEF TypeOK, Pod
<1>6. UNCHANGED <<apiVars, queueVars, cellVars, filled, portVars, boundQ, counters>>
  BY DEF FilterDecide
<1>7. StatusesKept
  BY <1>1, <1>2, <1>3, AbsenceAssumption DEF StatusesKept, TypeOK, Pod
<1> QED
  BY <1>7, <1>4, <1>5, <1>6
     DEF TypeOK, Locations, apiVars, queueVars, endVars, cellVars, portVars, counters

(* The cells of a status are leaves. *)
LEMMA ReserveSelectType ==
  ASSUME TypeOK, NEW x \in Nodes, ReserveSelect(x)
  PROVE  TypeOK' /\ StatusesKept
<1> DEFINE ps == GetPodLabels(cyc.pod)
<1>1. cyc.pod \in Pod /\ cyc \in Cycle
  BY DEF ReserveSelect, TypeOK
<1>2. ps \in PodStatus
  BY <1>1, StatusType
<1>3. CellChoices(x, ps) \subseteq SUBSET Leaves
  BY DEF CellChoices, LeavesOf
<1>4. PICK cells \in CellChoices(x, ps) :
        /\ status' = [status EXCEPT ![cyc.pod.name] = [ps EXCEPT !.cells = cells]]
        /\ \/ pc' = "panicked" /\ cyc' = IdleCycle
           \/ pc' = "assume" /\ cyc' = [cyc EXCEPT !.node = x, !.multi = MultiGPU(ps.request)]
  BY DEF ReserveSelect, Panic
<1>5. [ps EXCEPT !.cells = cells] \in PodStatus
  BY <1>2, <1>3 DEF PodStatus
<1>6. MultiGPU(ps.request) \in BOOLEAN
  BY DEF MultiGPU
<1> HIDE DEF ps
<1>7. /\ cyc' \in Cycle /\ pc' \in {"panicked", "assume"}
      /\ pc' = "assume" => cyc'.pod = cyc.pod /\ cyc'.node = x
  BY <1>1, <1>4, <1>6, IdleCycleType DEF Cycle
<1>8. StatusesKept
  BY <1>1, <1>4, <1>5, AbsenceAssumption DEF StatusesKept, TypeOK, Pod
<1> QED
  BY <1>8, <1>1, <1>4, <1>5, <1>7
     DEF ReserveSelect, TypeOK, Locations, Pod, apiVars, queueVars, endVars, cellVars, portVars, counters

(* The default memory of a pod is a number. *)
LEMMA QuotientType == \A m, n \in Nat, d \in Nat \ {0} : (m * n) \div d \in Int
<1> SUFFICES ASSUME NEW m \in Nat, NEW n \in Nat, NEW d \in Nat \ {0} PROVE (m * n) \div d \in Int
  OBVIOUS
<1> DEFINE k == m * n
<1>1. k \in Nat
  OBVIOUS
<1> HIDE DEF k
<1>2. k \div d \in Int
  BY <1>1
<1> QED BY <1>2 DEF k

(* The second lookup finds a status, or makes one. *)
LEMMA LookUpAgainType ==
  ASSUME TypeOK, LookUpAgain
  PROVE  TypeOK' /\ StatusesKept
<1>1. cyc.pod \in Pod /\ cyc.node \in Nodes /\ cyc \in Cycle
  BY DEF LookUpAgain, TypeOK
<1>2. PICK ps \in PodStatus : ps = GetPodLabels(cyc.pod)
  BY <1>1, StatusType
<1>3. /\ status' = [status EXCEPT ![cyc.pod.name] = ps] /\ pc' = "empty"
      /\ cyc' = [cyc EXCEPT !.ps = ps, !.same = HasStatus(cyc.pod)]
      /\ UNCHANGED <<apiVars, queueVars, cellVars, filled, portVars, boundQ, counters>>
  BY <1>2 DEF LookUpAgain
<1>4. HasStatus(cyc.pod) \in BOOLEAN
  BY DEF HasStatus
<1>5. cyc' \in Cycle /\ cyc'.pod = cyc.pod /\ cyc'.node = cyc.node /\ cyc'.ps = ps
  BY <1>1, <1>3, <1>4 DEF Cycle
<1>6. StatusesKept
  BY <1>1, <1>3, AbsenceAssumption DEF StatusesKept, TypeOK, Pod
<1> QED
  BY <1>6, <1>1, <1>3, <1>5
     DEF TypeOK, Locations, Pod, apiVars, queueVars, endVars, cellVars, portVars, counters

(* An assignment to the status looked up writes it, if it is in the map. *)
LEMMA AssignType ==
  ASSUME TypeOK, cyc.pod \in Pod, NEW ps \in PodStatus, Assign(ps)
  PROVE  status' \in [Names -> PodStatus \cup {NoStatus}] /\ StatusesKept
<1>1. status \in [Names -> PodStatus \cup {NoStatus}] /\ cyc.pod.name \in Names
  BY DEF TypeOK, Pod
<1> QED BY <1>1, AbsenceAssumption DEF Assign, StatusesKept

(* The port drawn is inside the bitmap, by FindNextIsFree. *)
LEMMA AssumeSharedPodType ==
  ASSUME TypeOK, AssumeSharedPod
  PROVE  TypeOK' /\ StatusesKept
<1> DEFINE x      == cyc.node
           ps     == cyc.ps
           memory == IF ps.memory = 0 THEN (ps.request * FullMem) \div UNIT ELSE ps.memory
           ii     == FindNextFromCurrent(masked[x], current[x], PortBits)
           port   == ii + PodManagerPortStart
           new    == [Assumed(ps, x) EXCEPT !.memory = memory, !.port = port]
           copy   == [cyc.pod EXCEPT !.node = x, !.gpus = ps.cells,
                                     !.memory = memory, !.port = port]
<1>1. x \in Nodes /\ cyc.pod \in Pod /\ cyc \in Cycle
  BY DEF AssumeSharedPod, TypeOK
<1>2. ps \in PodStatus
  BY DEF AssumeSharedPod, TypeOK
<1>3. memory \in Int
  BY <1>2, RequestAssumption, QuotientType DEF PodStatus
<1>4. ii \in {-1} \cup (0 .. PortBits - 1)
  <2>1. Searchable(masked[x], current[x], PortBits)
    BY <1>1, RequestAssumption DEF Searchable, TypeOK
  <2> QED BY <2>1, FindNextIsFree
<1>5. port \in Ports
  BY <1>4, RequestAssumption DEF Ports, PodManagerPortStart
<1>6. \/ /\ Assign(Assumed(ps, ps.node))
         /\ pc' = "panicked" /\ cyc' = IdleCycle /\ UNCHANGED <<endVars, cellVars, portVars>>
      \/ /\ Assign(new)
         /\ \E l \in ps.cells : ReserveResource(l, ps.request, memory)
         /\ masked'  = [masked EXCEPT ![x] = MaskedAfter(@, ii)]
         /\ current' = [current EXCEPT ![x] = CurrentAfter(@, ii)]
         /\ pc' = "delete" /\ cyc' = [cyc EXCEPT !.copy = copy] /\ UNCHANGED hpc
         /\ ending' = IF TakenOut THEN [ending EXCEPT !.node = x, !.port = port] ELSE ending
  BY DEF AssumeSharedPod, Panic
<1>7. UNCHANGED <<apiVars, events, listed, filled, boundQ, counters>>
  BY DEF AssumeSharedPod
<1> HIDE DEF x, memory, ii, port
<1>8. /\ new \in PodStatus /\ Assumed(ps, ps.node) \in PodStatus /\ copy \in Pod
  BY <1>1, <1>2, <1>3, <1>5 DEF PodStatus, Pod, Assumed
<1> HIDE DEF ps, new, copy
<1>9. avail' \in [Cells -> Int] /\ freeMem' \in [Cells -> Int]
  <2>1. CASE UNCHANGED cellVars
    BY <2>1 DEF TypeOK, cellVars
  <2>2. ASSUME NEW l \in ps.cells, ReserveResource(l, ps.request, memory)
        PROVE  avail' \in [Cells -> Int] /\ freeMem' \in [Cells -> Int]
    <3>1. l \in Leaves /\ ps.request \in Int
      BY <1>2 DEF PodStatus
    <3> QED BY <1>3, <2>2, <3>1, ReserveResourceType
  <2> QED BY <1>6, <2>1, <2>2
<1>10. masked' \in [Nodes -> SUBSET (0 .. PortBits - 1)] /\ current' \in [Nodes -> 0 .. PortBits]
  <2>1. CASE UNCHANGED portVars
    BY <2>1 DEF TypeOK, portVars
  <2>2. CASE /\ masked'  = [masked EXCEPT ![x] = MaskedAfter(@, ii)]
             /\ current' = [current EXCEPT ![x] = CurrentAfter(@, ii)]
    BY <1>1, <1>4, <2>2, RequestAssumption DEF TypeOK, MaskedAfter, CurrentAfter
  <2> QED BY <1>6, <2>1, <2>2
<1>11. status' \in [Names -> PodStatus \cup {NoStatus}] /\ StatusesKept
  BY <1>1, <1>6, <1>8, AssignType
<1>12. /\ cyc' \in Cycle /\ pc' \in {"panicked", "delete"}
       /\ pc' = "delete" => cyc'.pod = cyc.pod /\ cyc'.copy = copy
  BY <1>1, <1>6, <1>8, IdleCycleType DEF Cycle
<1>13. EndingType'
  <2>1. CASE UNCHANGED endVars
    BY <2>1 DEF TypeOK, EndingType, endVars
  <2>2. CASE /\ UNCHANGED hpc
             /\ ending' = IF TakenOut THEN [ending EXCEPT !.node = x, !.port = port] ELSE ending
    <3>1. EndingType
      BY DEF TypeOK, EndingType
    <3>2. ASSUME NEW e \in PodStatus
          PROVE  /\ [e EXCEPT !.node = x, !.port = port] \in PodStatus
                 /\ [e EXCEPT !.node = x, !.port = port].cells = e.cells
      BY <1>1, <1>5 DEF PodStatus
    <3>3. TakenOut => hpc # "ready"
      BY DEF TakenOut
    <3>4. CASE TakenOut
      <4>1. PICK e \in PodStatus :
              e = [ending EXCEPT !.node = x, !.port = port] /\ e.cells = ending.cells
        BY <3>1, <3>2, <3>3, <3>4 DEF EndingType
      <4>2. ending' = e
        BY <2>2, <3>4, <4>1
      <4> QED BY <2>2, <3>1, <3>3, <3>4, <4>1, <4>2 DEF EndingType
    <3>5. CASE ~ TakenOut
      BY <2>2, <3>1, <3>5 DEF EndingType
    <3> QED BY <3>4, <3>5
  <2> QED BY <1>6, <2>1, <2>2
<1> QED
  BY <1>13, <1>1, <1>7, <1>8, <1>9, <1>10, <1>11, <1>12
     DEF TypeOK, EndingType, Locations, apiVars, counters

(* A multi-GPU pod holds leaves, and takes them one after the other. *)
LEMMA AssumeMultiPodType ==
  ASSUME TypeOK, AssumeMultiPod
  PROVE  TypeOK' /\ StatusesKept
<1> DEFINE new  == Assumed(cyc.ps, cyc.node)
           copy == [cyc.pod EXCEPT !.node = cyc.node, !.gpus = cyc.ps.cells]
<1>1. cyc.node \in Nodes /\ cyc.pod \in Pod /\ cyc \in Cycle /\ cyc.ps \in PodStatus
  BY DEF AssumeMultiPod, TypeOK
<1>2. new \in PodStatus /\ copy \in Pod /\ cyc.ps.cells \in SUBSET Leaves
  BY <1>1 DEF PodStatus, Pod, Assumed
<1>3. /\ Assign(new) /\ pc' \in {"delete", "take"}
      /\ cyc' = [cyc EXCEPT !.left = cyc.ps.cells, !.copy = copy]
      /\ UNCHANGED <<apiVars, queueVars, cellVars, filled, portVars, boundQ, counters>>
  BY DEF AssumeMultiPod
<1> HIDE DEF new, copy
<1>4. cyc' \in Cycle /\ cyc'.pod = cyc.pod /\ cyc'.copy = copy
  BY <1>1, <1>2, <1>3 DEF Cycle
<1>5. status' \in [Names -> PodStatus \cup {NoStatus}] /\ StatusesKept
  BY <1>1, <1>2, <1>3, AssignType
<1> QED
  BY <1>5, <1>1, <1>2, <1>3, <1>4
     DEF TypeOK, Locations, Pod, apiVars, queueVars, endVars, cellVars, portVars, counters

(* What is taken of a leaf, and of the cells above it, is a number. *)
LEMMA TakeCellType ==
  ASSUME TypeOK, NEW l \in Leaves, TakeCell(l)
  PROVE  TypeOK'
<1>1. cyc.pod \in Pod /\ cyc.copy \in Pod /\ cyc \in Cycle
  BY DEF TakeCell, TypeOK
<1>2. avail[l] \in Int /\ freeMem[l] \in Int
  BY TopologyAssumption DEF TypeOK
<1>3. avail' \in [Cells -> Int] /\ freeMem' \in [Cells -> Int]
  BY <1>2, ReserveResourceType DEF TakeCell
<1>4. cyc' \in Cycle /\ cyc'.pod = cyc.pod /\ cyc'.copy \in Pod
  <2> DEFINE copy == [cyc.copy EXCEPT !.memory = @ + freeMem[l]]
  <2>1. copy \in Pod
    BY <1>1, <1>2 DEF Pod
  <2>2. cyc' = [cyc EXCEPT !.left = @ \ {l}, !.copy = copy]
    BY DEF TakeCell
  <2> HIDE DEF copy
  <2> QED BY <1>1, <2>1, <2>2 DEF Cycle
<1> QED
  BY <1>1, <1>3, <1>4
     DEF TakeCell, TypeOK, Locations, apiVars, queueVars, endVars, portVars, counters

(* The shadow pod is a pod, with the next uid of its name. *)
LEMMA ReplaceType ==
  ASSUME TypeOK, ReserveDelete \/ ReserveCreate \/ ReserveCreateFails \/ ReserveSetUid
  PROVE  TypeOK'
<1>0. /\ events \in Seq(EventSet) /\ cyc \in Cycle
      /\ cyc.pod \in Pod /\ cyc.pod.name \in Names
  BY DEF TypeOK, EventSet, ReserveDelete, ReserveCreate, ReserveCreateFails, ReserveSetUid, Pod
<1>1. CASE ReserveDelete
  <2>1. events' \in Seq(EventSet)
    <3> DEFINE e == Event("delete", api[cyc.pod.name])
    <3>1. UNCHANGED events \/ (e \in EventSet /\ events' = Append(events, e))
      BY <1>0, <1>1 DEF ReserveDelete, Event, EventSet, TypeOK
    <3> HIDE DEF e
    <3> QED BY <1>0, <3>1, AppendEvent
  <2> QED
    BY <1>0, <1>1, <2>1
       DEF ReserveDelete, TypeOK, EventSet, Locations, endVars, cellVars, portVars, counters
<1>2. CASE ReserveCreate
  <2> DEFINE n == cyc.pod.name
             shadow == [cyc.copy EXCEPT !.uid = born[n] + 1]
  <2>1. shadow \in Pod /\ born[n] + 1 \in Nat
    <3>1. cyc.copy \in Pod /\ born[n] \in Nat
      BY <1>0, <1>2 DEF ReserveCreate, TypeOK
    <3>2. born[n] + 1 \in Nat \ {0}
      BY <3>1
    <3> QED BY <3>1, <3>2 DEF Pod
  <2>2. /\ events' = Append(events, Event("add", shadow))
        /\ api' = [api EXCEPT ![n] = shadow] /\ born' = [born EXCEPT ![n] = born[n] + 1]
        /\ cyc' = [cyc EXCEPT !.newUid = born[n] + 1] /\ pc' = "setuid"
        /\ UNCHANGED <<listed, endVars, wanted, status, cellVars, filled, portVars, boundQ, counters>>
    BY <1>2 DEF ReserveCreate
  <2> HIDE DEF n, shadow
  <2>3. events' \in Seq(EventSet)
    BY <1>0, <2>1, <2>2, AppendEvent DEF Event, EventSet
  <2>4. cyc' \in Cycle /\ cyc'.pod = cyc.pod
    BY <1>0, <2>1, <2>2 DEF Cycle
  <2> QED
    BY <1>0, <2>1, <2>2, <2>3, <2>4
       DEF TypeOK, EventSet, Locations, endVars, cellVars, portVars, counters
<1>3. CASE ReserveCreateFails
  <2>1. cyc' \in Cycle /\ cyc'.pod = cyc.pod
    BY <1>0, <1>3 DEF ReserveCreateFails, Cycle
  <2>2. createErrors' \in Nat
    BY <1>3 DEF ReserveCreateFails, TypeOK
  <2> QED
    BY <1>0, <1>3, <2>1, <2>2
       DEF ReserveCreateFails, TypeOK, Locations, apiVars, queueVars, endVars, cellVars, portVars
<1>4. CASE ReserveSetUid
  <2>1. status' \in [Names -> PodStatus \cup {NoStatus}]
    <3>1. CASE UNCHANGED status
      BY <3>1 DEF TypeOK
    <3>2. CASE /\ status[cyc.pod.name] # NoStatus
               /\ status' = [status EXCEPT ![cyc.pod.name].uid = cyc.newUid]
      <4>1. status[cyc.pod.name] \in PodStatus /\ cyc.newUid \in Nat
        BY <1>0, <3>2 DEF TypeOK, Cycle
      <4>2. [status[cyc.pod.name] EXCEPT !.uid = cyc.newUid] \in PodStatus
        BY <4>1 DEF PodStatus
      <4> QED BY <1>0, <3>2, <4>2 DEF TypeOK
    <3> QED BY <1>4, <3>1, <3>2 DEF ReserveSetUid
  <2> QED
    BY <1>4, <2>1, IdleCycleType
       DEF ReserveSetUid, TypeOK, Locations, apiVars, queueVars, endVars, cellVars, portVars, counters
<1> QED BY <1>1, <1>2, <1>3, <1>4

(* The pods a new process lists become events. *)
LEMMA RestartType ==
  ASSUME TypeOK, Restart
  PROVE  TypeOK'
<1> DEFINE found == {n \in Names : api[n] # NoPod}
<1>1. IsFiniteSet(found) /\ Cardinality(found) \in Nat
  BY NamesAssumption, FS_Subset, FS_CardinalityType
<1>2. PICK listing \in [1 .. Cardinality(found) -> found] :
        /\ events' = [i \in DOMAIN listing |-> Event("add", api[listing[i]])]
        /\ listed' = Len(listing)
  BY DEF Restart, SetToSeqs
<1>3. events' \in Seq(EventSet) /\ listed' \in Nat
  <2>1. listing \in Seq(found)
    BY <1>1, SeqDef
  <2>2. ASSUME NEW n \in found PROVE Event("add", api[n]) \in EventSet
    BY DEF TypeOK, Event, EventSet
  <2>4. Len(listing) \in Nat
    BY <2>1, LenProperties
  <2> HIDE DEF found
  <2>3. events' \in [1 .. Cardinality(found) -> EventSet]
    BY <1>2, <2>2
  <2>5. events' \in Seq(EventSet)
    BY <1>1, <2>3, SeqDef
  <2> QED BY <1>2, <2>4, <2>5
<1>4. Full \in [Cells -> Int]
  <2>1. \A c \in Cells : Cardinality(LeavesUnder(c)) \in Int
    BY CountType DEF LeavesUnder
  <2> QED BY <2>1, RequestAssumption DEF Full
<1>5. \A x \in Nodes : <<>> \in Seq(Pod)
  BY EmptySeq
<1> QED
  BY <1>3, <1>4, <1>5, IdleCycleType, RequestAssumption
     DEF Restart, TypeOK, EventSet, Locations, apiVars

(* Every variable keeps its type: in particular the port bitmaps and the     *)
(* position at which newAssumedSharedGPUPod next searches them stay inside   *)
(* the bitmap, whatever ports are masked, unmasked and drawn.                *)
THEOREM TypeStep == TypeOK /\ [Next]_vars => TypeOK'
<1> SUFFICES ASSUME TypeOK, [Next]_vars PROVE TypeOK'
  OBVIOUS
<1>1. CASE Environment
  BY <1>1, EnvironmentType DEF Environment
<1>2. CASE Informer
  BY <1>2, InformerType
<1>3. CASE InCycle
  BY <1>3, FilterAddNodeType, FilterBoundPodType, FilterDecideType, ReserveSelectType,
     LookUpAgainType, AssumeSharedPodType, AssumeMultiPodType, TakeCellType, ReplaceType DEF InCycle
<1>4. CASE \E n \in Names : PreFilter(n)
  BY <1>4, PreFilterType
<1>5. CASE Restart
  BY <1>5, RestartType
<1>6. CASE UNCHANGED vars
  BY <1>6 DEF vars, TypeOK, apiVars, endVars, cellVars, portVars, counters
<1> QED
  BY <1>1, <1>2, <1>3, <1>4, <1>5, <1>6 DEF Next, LifeNext

(* Every variable has its type in every behaviour, restarts included; masked  *)
(* ports and the place of the next search stay inside the bitmap.            *)
THEOREM TypeCorrect == Spec => []TypeOK
  BY TypeInit, TypeStep, PTL DEF Spec
-----------------------------------------------------------------------------
(***************************************************************************)
(* What the scheduler knows of each name, against what happened to it.     *)
(*                                                                         *)
(* OrderInv: no event that calls deletePod is about the incarnation that   *)
(* is alive, so deletePod gives back only what belonged to a pod that      *)
(* ended, however late the informer is and across restarts.                *)
(*                                                                         *)
(* LifeInv, in one life of the scheduler process: what podStatus knows is  *)
(* never behind the informer, and what Reserve is replacing cannot be      *)
(* taken for a pod that ended.                                             *)
(***************************************************************************)

(* What EventsKnown and EventsOfThePast say of one event. *)
InOrder(e) ==
  /\ e.pod.uid <= born[e.pod.name]
  /\ (e.type # "add" \/ isCompleted(e.pod))
       => ~ (NotEnded(e.pod.name) /\ api[e.pod.name].uid = e.pod.uid)

(* EventsKnown and EventsOfThePast, said of one event at a time. *)
LEMMA OrderByEvent ==
  OrderInv <=> LatestInApi /\ CopyOfThePod /\ \A i \in DOMAIN events : InOrder(events[i])
  BY Zenon DEF OrderInv, EventsKnown, EventsOfThePast, InOrder, NameOf, UidOf

(* An appended event must be in order, and the earlier ones stay so. *)
LEMMA AppendInOrder ==
  ASSUME TypeOK, OrderInv, NEW e \in EventSet, events' = Append(events, e), InOrder(e)',
         \A f \in EventSet : InOrder(f) => InOrder(f)', LatestInApi', CopyOfThePod'
  PROVE  OrderInv'
<1>1. events \in Seq(EventSet)
  BY DEF TypeOK, EventSet
<1>2. \A i \in DOMAIN events' :
        events'[i] = e \/ (i \in DOMAIN events /\ events'[i] = events[i])
  BY <1>1, AppendEvent
<1>3. \A i \in DOMAIN events : events[i] \in EventSet /\ InOrder(events[i])
  BY <1>1, OrderByEvent, ElementOfSeq, LenProperties
<1> SUFFICES ASSUME NEW i \in DOMAIN events' PROVE InOrder(events[i])'
  BY Zenon DEF OrderInv, EventsKnown, EventsOfThePast, InOrder, NameOf, UidOf
<1>4. CASE events'[i] = e
  BY <1>4 DEF InOrder
<1>5. CASE i \in DOMAIN events /\ events'[i] = events[i]
  <2>1. InOrder(events[i]) /\ events[i] \in EventSet
    BY <1>3, <1>5
  <2> QED BY <1>5, <2>1 DEF InOrder
<1> QED BY <1>2, <1>4, <1>5

(* Steps that leave the API server and the informer's queue alone. *)
LEMMA QuietOrder ==
  ASSUME OrderInv, UNCHANGED <<api, born, events>>, CopyOfThePod'
  PROVE  OrderInv'
  BY DEF OrderInv, LatestInApi, EventsKnown, EventsOfThePast, NameOf, UidOf, NotEnded

(* No event is under way at the start. *)
LEMMA InitOrder == Init => OrderInv
<1> SUFFICES ASSUME Init PROVE OrderInv
  OBVIOUS
<1>1. DOMAIN events = {}
  BY DEF Init
<1>2. LatestInApi /\ CopyOfThePod
  BY DEF Init, LatestInApi, CopyOfThePod, Replacing
<1> QED BY <1>1, <1>2, OrderByEvent

(* Replacing the pod of one name keeps the order of the events: the new one  *)
(* is later than all of them, or it has ended.                               *)
LEMMA ReplacedPod ==
  ASSUME TypeOK, OrderInv, NEW n \in Names, NEW pod, NEW uid \in Nat,
         api' = [api EXCEPT ![n] = pod], born' = [born EXCEPT ![n] = uid],
         uid >= born[n],
         pod # NoPod =>
           pod.name = n /\ pod.uid = uid /\ (isCompleted(pod) => isBound(pod)),
         uid > born[n] \/ pod = NoPod \/ pod.phase = "Done"
  PROVE  /\ LatestInApi'
         /\ \A f \in EventSet : InOrder(f) => InOrder(f)'
<1>1. /\ api \in [Names -> Pod \cup {NoPod}] /\ born \in [Names -> Nat]
      /\ api'[n] = pod /\ born'[n] = uid
      /\ \A m \in Names : m # n => api'[m] = api[m] /\ born'[m] = born[m]
  BY DEF TypeOK
<1>2. LatestInApi
  BY DEF OrderInv
<1>3. LatestInApi'
  BY <1>1, <1>2 DEF LatestInApi
<1>4. ASSUME NEW f \in EventSet, InOrder(f) PROVE InOrder(f)'
  <2> DEFINE m == f.pod.name
             u == f.pod.uid
  <2>1. m \in Names /\ u \in Nat
    BY DEF EventSet, Pod
  <2>2. /\ u <= born[m]
        /\ (f.type # "add" \/ isCompleted(f.pod)) => ~ (NotEnded(m) /\ api[m].uid = u)
    BY <1>4 DEF InOrder
  <2>3. SUFFICES /\ u <= born'[m]
                 /\ (f.type # "add" \/ isCompleted(f.pod))
                      => ~ (NotEnded(m)' /\ api'[m].uid = u)
    BY DEF InOrder, NotEnded, isCompleted
  <2> HIDE DEF m, u
  <2>4. CASE m # n
    BY <1>1, <2>1, <2>2, <2>4 DEF NotEnded
  <2>5. CASE m = n
    <3>1. u <= born'[m]
      BY <1>1, <2>1, <2>2, <2>5
    <3>2. ~ (NotEnded(m)' /\ api'[m].uid = u)
          \/ ~ (f.type # "add" \/ isCompleted(f.pod))
      BY <1>1, <2>1, <2>2, <2>5 DEF NotEnded, isCompleted
    <3> QED BY <3>1, <3>2
  <2> QED BY <2>4, <2>5
<1> QED BY <1>3, <1>4

(* A pod the user creates is new; a deleted one is gone; a finished one is   *)
(* completed.                                                                *)
LEMMA EnvironmentOrder ==
  ASSUME TypeOK, OrderInv, NEW n \in Names,
         (\E s \in Specs : UserCreate(n, s)) \/ UserDelete(n) \/ Finish(n)
  PROVE  OrderInv'
<1>0. LatestInApi /\ CopyOfThePod /\ born[n] \in Nat /\ born = [born EXCEPT ![n] = born[n]]
  BY DEF OrderInv, TypeOK
<1>1. CopyOfThePod'
  BY <1>0 DEF CopyOfThePod, UserCreate, UserDelete, Finish
<1>2. ASSUME NEW s \in Specs, UserCreate(n, s) PROVE OrderInv'
  <2> DEFINE new == NewPod(n, s)
  <2>0. new \in Pod
    BY <1>0 DEF NewPod, Pod, Ports
  <2>1. PICK pod \in Pod : pod = new
    BY <2>0
  <2>2. pod.name = n /\ pod.uid = born[n] + 1 /\ pod.node = NoNode /\ pod.phase = "Active"
    BY <2>1 DEF NewPod
  <2>3. /\ api' = [api EXCEPT ![n] = pod] /\ born' = [born EXCEPT ![n] = born[n] + 1]
        /\ events' = Append(events, Event("add", pod))
    BY <1>2, <2>1 DEF UserCreate
  <2>4. LatestInApi' /\ \A f \in EventSet : InOrder(f) => InOrder(f)'
    <3>1. born[n] + 1 \in Nat /\ born[n] + 1 >= born[n] /\ born[n] + 1 > born[n]
      BY <1>0
    <3> QED BY <2>2, <2>3, <3>1, ReplacedPod DEF isCompleted
  <2>5. Event("add", pod) \in EventSet
    BY DEF Event, EventSet
  <2>6. InOrder(Event("add", pod))'
    BY <1>0, <2>2, <2>3 DEF InOrder, Event, isCompleted, TypeOK
  <2> QED BY <1>1, <2>3, <2>4, <2>5, <2>6, AppendInOrder
<1>3. CASE UserDelete(n)
  <2>1. PICK pod \in Pod : pod = api[n]
    BY <1>3 DEF UserDelete, TypeOK
  <2>2. pod.name = n /\ pod.uid = born[n] /\ api' = [api EXCEPT ![n] = NoPod]
        /\ born' = born /\ events' = Append(events, Event("delete", pod))
    BY <1>0, <1>3, <2>1 DEF UserDelete, LatestInApi
  <2>3. LatestInApi' /\ \A f \in EventSet : InOrder(f) => InOrder(f)'
    <3>1. born' = [born EXCEPT ![n] = born[n]] /\ born[n] >= born[n]
      BY <1>0, <2>2
    <3> QED BY <1>0, <2>2, <3>1, ReplacedPod
  <2>4. Event("delete", pod) \in EventSet
    BY DEF Event, EventSet
  <2>5. InOrder(Event("delete", pod))'
    BY <1>0, <2>2 DEF InOrder, Event, NotEnded, TypeOK
  <2> QED BY <1>1, <2>2, <2>3, <2>4, <2>5, AppendInOrder
<1>4. CASE Finish(n)
  <2> DEFINE done == [api[n] EXCEPT !.phase = "Done"]
  <2>1. api[n] \in Pod /\ api[n].name = n /\ api[n].uid = born[n] /\ isBound(api[n])
    BY <1>0, <1>4 DEF Finish, Alive, TypeOK, LatestInApi
  <2>2. PICK pod \in Pod : pod = done
    BY <2>1 DEF Pod
  <2>3. pod.name = n /\ pod.uid = born[n] /\ pod.phase = "Done" /\ isBound(pod)
    BY <2>1, <2>2 DEF Pod, isBound
  <2>4. /\ api' = [api EXCEPT ![n] = pod] /\ born' = born
        /\ events' = Append(events, Event("update", pod))
    BY <1>4, <2>2 DEF Finish
  <2>5. LatestInApi' /\ \A f \in EventSet : InOrder(f) => InOrder(f)'
    <3>1. born' = [born EXCEPT ![n] = born[n]] /\ born[n] >= born[n]
      BY <1>0, <2>4
    <3> QED BY <1>0, <2>3, <2>4, <3>1, ReplacedPod
  <2>6. Event("update", pod) \in EventSet
    BY DEF Event, EventSet
  <2>7. InOrder(Event("update", pod))'
    BY <1>0, <2>3, <2>4 DEF InOrder, Event, NotEnded, isCompleted, TypeOK
  <2> QED BY <1>1, <2>4, <2>5, <2>6, <2>7, AppendInOrder
<1> QED BY <1>2, <1>3, <1>4

(* The informer drops the first event and appends none. *)
LEMMA HandlerOrder ==
  ASSUME TypeOK, OrderInv, HandlesEvent
  PROVE  OrderInv'
<1>1. events # <<>> /\ events' = Tail(events) /\ UNCHANGED <<api, born, pc, cyc>>
  BY DEF HandlesEvent, HandleAdd, HandleUpdate, HandleDelete, NextEvent, EventHandled, apiVars
<1>2. events \in Seq(EventSet)
  BY DEF TypeOK, EventSet
<1>3. \A i \in DOMAIN events' : events'[i] = events[i + 1] /\ i + 1 \in DOMAIN events
  BY <1>1, <1>2, DropEvent
<1>4. LatestInApi' /\ CopyOfThePod'
  BY <1>1 DEF OrderInv, LatestInApi, CopyOfThePod
<1>5. \A i \in DOMAIN events : InOrder(events[i])
  BY OrderByEvent
<1>6. \A i \in DOMAIN events' : InOrder(events[i])'
  BY <1>1, <1>3, <1>5 DEF InOrder, NotEnded
<1> QED
  BY <1>4, <1>6, Zenon
     DEF OrderInv, EventsKnown, EventsOfThePast, InOrder, NameOf, UidOf

LEMMA InformerOrder ==
  ASSUME TypeOK, OrderInv, Informer
  PROVE  OrderInv'
<1>1. CASE HandlesEvent
  BY <1>1, HandlerOrder
<1>2. CASE UnmaskEnded \/ \E l \in Leaves : ReclaimCell(l)
  <2>1. UNCHANGED <<apiVars, events, pc, cyc>>
    BY <1>2, Zenon DEF UnmaskEnded, ReclaimCell
  <2>2. UNCHANGED <<api, born, events, pc, cyc>>
    BY <2>1 DEF apiVars
  <2> QED BY <2>2, QuietOrder DEF OrderInv, CopyOfThePod
<1> QED BY <1>1, <1>2 DEF Informer, HandlesEvent

(* Before Reserve replaces a pod, the scheduling thread changes neither the  *)
(* API server nor the queue, and it copies the pod it was given.             *)
LEMMA CycleOrder ==
  ASSUME TypeOK, OrderInv,
         \/ \E n \in Names : PreFilter(n)
         \/ \E x \in Nodes : (\E seen \in BOOLEAN : FilterAddNode(x, seen)) \/ ReserveSelect(x)
         \/ FilterBoundPod \/ FilterDecide \/ LookUpAgain
         \/ ReserveCreateFails \/ ReserveSetUid
  PROVE  OrderInv'
<1>1. UNCHANGED <<api, born, events>> /\ pc' \notin Replacing
  BY DEF PreFilter, FilterAddNode, ReserveSelect, Panic, FilterBoundPod, FilterDecide,
         LookUpAgain, ReserveCreateFails, ReserveSetUid, Replacing, apiVars, queueVars
<1> QED BY <1>1, QuietOrder DEF CopyOfThePod

(* The copy newAssumed...Pod makes has the name of its pod. *)
LEMMA AssumeOrder ==
  ASSUME TypeOK, OrderInv, AssumeSharedPod \/ AssumeMultiPod \/ \E l \in Leaves : TakeCell(l)
  PROVE  OrderInv'
<1>1. UNCHANGED <<api, born, events>>
  <2>1. UNCHANGED <<apiVars, events>>
    BY Zenon DEF AssumeSharedPod, AssumeMultiPod, TakeCell, queueVars
  <2> QED BY <2>1 DEF apiVars
<1>2. CopyOfThePod'
  <2>1. cyc \in Cycle
    BY DEF TypeOK
  <2>2. CASE AssumeSharedPod
    <3> DEFINE x      == cyc.node
               ps     == cyc.ps
               memory == IF ps.memory = 0 THEN (ps.request * FullMem) \div UNIT ELSE ps.memory
               ii     == FindNextFromCurrent(masked[x], current[x], PortBits)
               copy   == [cyc.pod EXCEPT !.node = x, !.gpus = ps.cells, !.memory = memory,
                                         !.port = ii + PodManagerPortStart]
    <3>1. \/ pc' = "panicked"
          \/ cyc' = [cyc EXCEPT !.copy = copy]
      BY <2>2 DEF AssumeSharedPod, Panic
    <3> HIDE DEF x, ps, memory, ii
    <3>2. cyc.pod \in Pod /\ cyc.node \in Nodes /\ NoNode \notin Nodes
      BY <2>2, AbsenceAssumption DEF AssumeSharedPod, TypeOK
    <3>3. copy.name = cyc.pod.name /\ isBound(copy)
      BY <3>2 DEF Pod, isBound, x
    <3> HIDE DEF copy
    <3>4. pc' = "panicked" \/ (cyc'.pod = cyc.pod /\ cyc'.copy = copy)
      BY <2>1, <3>1 DEF Cycle
    <3> QED BY <3>3, <3>4 DEF CopyOfThePod, Replacing
  <2>3. CASE AssumeMultiPod
    <3>1. cyc.pod \in Pod /\ cyc.node \in Nodes /\ NoNode \notin Nodes
      BY <2>3, AbsenceAssumption DEF AssumeMultiPod, TypeOK
    <3>2. cyc'.pod = cyc.pod /\ cyc'.copy.name = cyc.pod.name /\ isBound(cyc'.copy)
      BY <2>1, <2>3, <3>1 DEF AssumeMultiPod, Cycle, Pod, isBound
    <3> QED BY <3>2 DEF CopyOfThePod
  <2>4. CASE \E l \in Leaves : TakeCell(l)
    <3>2. PICK l \in Leaves : TakeCell(l)
      BY <2>4
    <3>6. pc = "take"
      BY <3>2, Zenon DEF TakeCell
    <3>1. cyc.copy \in Pod /\ cyc.copy.name = cyc.pod.name /\ isBound(cyc.copy)
      BY <3>6 DEF TypeOK, OrderInv, CopyOfThePod, Replacing
    <3> DEFINE copy == [cyc.copy EXCEPT !.memory = @ + freeMem[l]]
    <3>3. copy.name = cyc.copy.name /\ isBound(copy)
      BY <3>1 DEF Pod, isBound
    <3>4. cyc' = [cyc EXCEPT !.left = @ \ {l}, !.copy = copy]
      BY <3>2, Zenon DEF TakeCell
    <3> HIDE DEF copy
    <3>5. cyc'.pod = cyc.pod /\ cyc'.copy = copy
      BY <2>1, <3>4 DEF Cycle
    <3> QED BY <3>1, <3>3, <3>5 DEF CopyOfThePod
  <2> QED BY <2>2, <2>3, <2>4
<1> QED BY <1>1, <1>2, QuietOrder

(* Reserve deletes a pod like a user does, and the shadow pod it creates is  *)
(* later than every event.                                                   *)
LEMMA ReplaceOrder ==
  ASSUME TypeOK, OrderInv, ReserveDelete \/ ReserveCreate
  PROVE  OrderInv'
<1> DEFINE n == cyc.pod.name
<1>0. /\ LatestInApi /\ n \in Names /\ born[n] \in Nat /\ cyc \in Cycle
      /\ cyc.copy \in Pod /\ cyc.copy.name = n /\ isBound(cyc.copy)
  BY DEF OrderInv, CopyOfThePod, Replacing, TypeOK, ReserveDelete, ReserveCreate, Pod
<1>1. CASE ReserveDelete /\ api[n] = NoPod
  <2>1. UNCHANGED <<api, born, events, cyc>>
    BY <1>1 DEF ReserveDelete
  <2> QED BY <1>0, <2>1, QuietOrder DEF CopyOfThePod
<1>2. CASE ReserveDelete /\ api[n] # NoPod
  <2>1. PICK pod \in Pod : pod = api[n]
    BY <1>0, <1>2 DEF TypeOK
  <2>2. PICK m \in Names : m = n
    BY <1>0
  <2>3. /\ pod.name = m /\ pod.uid = born[m] /\ api' = [api EXCEPT ![m] = NoPod]
        /\ born' = born /\ events' = Append(events, Event("delete", pod))
        /\ UNCHANGED cyc
    BY <1>0, <1>2, <2>1, <2>2 DEF ReserveDelete, LatestInApi
  <2>4. LatestInApi' /\ \A f \in EventSet : InOrder(f) => InOrder(f)'
    <3>1. born' = [born EXCEPT ![m] = born[m]] /\ born[m] >= born[m]
      BY <1>0, <2>2, <2>3 DEF TypeOK
    <3> QED BY <1>0, <2>2, <2>3, <3>1, ReplacedPod
  <2>5. Event("delete", pod) \in EventSet
    BY DEF Event, EventSet
  <2>6. InOrder(Event("delete", pod))'
    BY <1>0, <2>2, <2>3 DEF InOrder, Event, NotEnded, TypeOK
  <2>7. CopyOfThePod'
    BY <1>0, <2>3 DEF CopyOfThePod
  <2> QED BY <2>3, <2>4, <2>5, <2>6, <2>7, AppendInOrder
<1>3. CASE ReserveCreate
  <2> DEFINE shadow == [cyc.copy EXCEPT !.uid = born[n] + 1]
  <2>0. born[n] + 1 \in Nat \ {0} /\ born[n] + 1 > born[n]
    BY <1>0
  <2>1. PICK pod \in Pod : pod = shadow
    BY <1>0, <2>0 DEF Pod
  <2>2. PICK m \in Names : m = n
    BY <1>0
  <2>3. pod.name = m /\ pod.uid = born[m] + 1 /\ isBound(pod)
    BY <1>0, <2>1, <2>2 DEF Pod, isBound
  <2>4. /\ api' = [api EXCEPT ![m] = pod] /\ born' = [born EXCEPT ![m] = born[m] + 1]
        /\ events' = Append(events, Event("add", pod)) /\ pc' = "setuid"
    BY <1>3, <2>1, <2>2 DEF ReserveCreate
  <2>5. LatestInApi' /\ \A f \in EventSet : InOrder(f) => InOrder(f)'
    <3>1. born[m] + 1 \in Nat /\ born[m] + 1 > born[m] /\ born[m] + 1 >= born[m]
      BY <1>0, <2>2
    <3> QED BY <2>3, <2>4, <3>1, ReplacedPod
  <2>6. Event("add", pod) \in EventSet
    BY DEF Event, EventSet
  <2>7. InOrder(Event("add", pod))'
    BY <1>0, <2>2, <2>3, <2>4 DEF InOrder, Event, NotEnded, isCompleted, TypeOK
  <2>8. CopyOfThePod'
    BY <2>4 DEF CopyOfThePod, Replacing
  <2> QED BY <2>4, <2>5, <2>6, <2>7, <2>8, AppendInOrder
<1> QED BY <1>1, <1>2, <1>3

(* A new process is told of the pods there are, the alive ones as such. *)
LEMMA RestartOrder ==
  ASSUME TypeOK, OrderInv, Restart
  PROVE  OrderInv'
<1> DEFINE found == {n \in Names : api[n] # NoPod}
<1>1. PICK listing \in [1 .. Cardinality(found) -> found] :
        events' = [i \in DOMAIN listing |-> Event("add", api[listing[i]])]
  BY DEF Restart, SetToSeqs
<1>2. UNCHANGED <<api, born>> /\ pc' = "idle"
  BY DEF Restart, apiVars
<1>3. LatestInApi' /\ CopyOfThePod'
  BY <1>2 DEF OrderInv, LatestInApi, CopyOfThePod, Replacing
<1>4. ASSUME NEW i \in DOMAIN events' PROVE InOrder(events[i])'
  <2>1. listing[i] \in found /\ events'[i] = Event("add", api[listing[i]])
    BY <1>1
  <2>2. PICK n \in found : n = listing[i]
    BY <2>1
  <2>3. events'[i].type = "add" /\ events'[i].pod = api[n] /\ n \in Names /\ api[n] # NoPod
    BY <2>1, <2>2 DEF Event
  <2>4. api[n].name = n /\ api[n].uid = born[n] /\ born[n] \in Nat
    BY <2>3 DEF OrderInv, LatestInApi, TypeOK
  <2> QED BY <1>2, <2>3, <2>4 DEF InOrder, NotEnded, isCompleted
<1> QED
  BY <1>3, <1>4, Zenon
     DEF OrderInv, EventsKnown, EventsOfThePast, InOrder, NameOf, UidOf

(* The order of the events is kept by every step: an event that makes the    *)
(* informer call deletePod is never about an incarnation that has not ended. *)
THEOREM OrderStep == TypeOK /\ OrderInv /\ [Next]_vars => OrderInv'
<1> SUFFICES ASSUME TypeOK, OrderInv, [Next]_vars PROVE OrderInv'
  OBVIOUS
<1>1. CASE Environment
  BY <1>1, EnvironmentOrder DEF Environment
<1>2. CASE Informer
  BY <1>2, InformerOrder
<1>3. CASE InCycle \/ \E n \in Names : PreFilter(n)
  BY <1>3, CycleOrder, AssumeOrder, ReplaceOrder DEF InCycle
<1>4. CASE Restart
  BY <1>4, RestartOrder
<1>5. CASE UNCHANGED vars
  BY <1>5, QuietOrder DEF vars, apiVars, OrderInv, CopyOfThePod
<1> QED BY <1>1, <1>2, <1>3, <1>4, <1>5 DEF Next, LifeNext

(* In every behaviour, restarts included, no event that makes the informer   *)
(* call deletePod is about an incarnation that has not ended.                *)
THEOREM OrderCorrect == Spec => []OrderInv
  BY InitOrder, OrderStep, TypeCorrect, PTL DEF Spec

(* Only deletePod drops a status: every other step of one life of the        *)
(* scheduler writes statuses, and a status is not NoStatus.                  *)
LEMMA DroppedByDeletePod ==
  ASSUME TypeOK, [Next]_vars, restarts' = restarts,
         NEW n \in Names, status[n] # NoStatus, status'[n] = NoStatus
  PROVE  HandlesEvent /\ status[n].uid = Head(events).pod.uid /\ Head(events).pod.name = n
         /\ (Head(events).type # "add" \/ isCompleted(Head(events).pod))
<1>1. /\ status \in [Names -> PodStatus \cup {NoStatus}] /\ NoStatus \notin PodStatus
      /\ events \in Seq(EventSet)
  BY AbsenceAssumption DEF TypeOK, EventSet
<1>2. CASE HandlesEvent
  <2> DEFINE pod == Head(events).pod
  <2>1. DeletePod(pod) /\ (Head(events).type # "add" \/ isCompleted(pod))
    BY <1>2 DEF HandlesEvent, HandleAdd, HandleUpdate, HandleDelete, NextEvent
  <2> HIDE DEF pod
  <2>2. status' = [status EXCEPT ![pod.name] = NoStatus] /\ HasStatus(pod)
    BY <2>1 DEF DeletePod
  <2>3. pod.name = n
    BY <1>1, <2>2
  <2> QED BY <1>2, <2>1, <2>2, <2>3 DEF HasStatus, pod
<1>3. \A pod \in Pod : GetPodLabels(pod) \in PodStatus
  BY StatusType
<1>4. CASE Environment \/ UNCHANGED vars \/ UnmaskEnded \/ \E l \in Leaves : ReclaimCell(l)
  BY <1>4 DEF Environment, UserCreate, UserDelete, Finish, UnmaskEnded, ReclaimCell, vars
<1>5. CASE \E m \in Names : PreFilter(m)
  <2>1. PICK m \in Names : PreFilter(m)
    BY <1>5
  <2>2. GetPodLabels(api[m]) \in PodStatus /\ status' = [status EXCEPT ![m] = GetPodLabels(api[m])]
    BY <1>3, <2>1 DEF PreFilter, TypeOK
  <2> QED BY <1>1, <2>2
<1>6. CASE Restart
  <2>1. restarts \in Nat /\ restarts' = restarts + 1
    BY <1>6 DEF Restart, TypeOK
  <2> QED BY <2>1
<1>7. CASE InCycle
  <2>1. CASE \/ FilterBoundPod \/ FilterDecide \/ LookUpAgain \/ AssumeSharedPod \/ AssumeMultiPod
             \/ \E x \in Nodes : ReserveSelect(x)
    BY <2>1, FilterBoundPodType, FilterDecideType, ReserveSelectType,
       LookUpAgainType, AssumeSharedPodType, AssumeMultiPodType DEF StatusesKept
  <2>2. CASE \/ \E x \in Nodes, seen \in BOOLEAN : FilterAddNode(x, seen)
             \/ \E l \in Leaves : TakeCell(l)
             \/ ReserveDelete \/ ReserveCreate \/ ReserveCreateFails
    BY <2>2, Zenon DEF FilterAddNode, TakeCell, ReserveDelete, ReserveCreate, ReserveCreateFails
  <2>3. CASE ReserveSetUid
    <3>1. CASE UNCHANGED status
      BY <3>1
    <3>2. CASE /\ status[cyc.pod.name] # NoStatus
               /\ status' = [status EXCEPT ![cyc.pod.name].uid = cyc.newUid]
      <4>1. cyc.pod.name \in Names /\ cyc.newUid \in Nat
        BY <2>3 DEF ReserveSetUid, TypeOK, Pod, Cycle
      <4>2. status[cyc.pod.name] \in PodStatus
        BY <1>1, <3>2, <4>1
      <4>3. [status[cyc.pod.name] EXCEPT !.uid = cyc.newUid] \in PodStatus
        BY <4>1, <4>2 DEF PodStatus
      <4> QED BY <1>1, <3>2, <4>3
    <3> QED BY <2>3, <3>1, <3>2 DEF ReserveSetUid
  <2> QED BY <1>7, <2>1, <2>2, <2>3 DEF InCycle
<1> QED BY <1>2, <1>4, <1>5, <1>6, <1>7 DEF Next, LifeNext, Informer, HandlesEvent

(* The scheduler drops the status of a bound pod, and with it gives back its *)
(* share, memory and port, only when that incarnation ended or the process   *)
(* did.                                                                      *)
THEOREM ReclaimsOnlyEnded == Spec => ReclaimsOnlyTheEnded
<1>1. ASSUME TypeOK, OrderInv, [Next]_vars
      PROVE  [\A n \in Names :
                Alive(n) /\ status[n] # NoStatus /\ status'[n] = NoStatus
                         /\ restarts' = restarts
                  => status[n].uid # api[n].uid]_vars
  <2> SUFFICES ASSUME NEW n \in Names, Alive(n), status[n] # NoStatus,
                      status'[n] = NoStatus, restarts' = restarts
               PROVE  status[n].uid # api[n].uid
    OBVIOUS
  <2> DEFINE e == Head(events)
  <2>1. /\ HandlesEvent /\ status[n].uid = e.pod.uid /\ e.pod.name = n
        /\ e.type # "add" \/ isCompleted(e.pod)
    BY <1>1, DroppedByDeletePod
  <2>2. events \in Seq(EventSet) /\ events # <<>>
    BY <1>1, <2>1
       DEF TypeOK, EventSet, HandlesEvent, HandleAdd, HandleUpdate, HandleDelete, NextEvent
  <2>3. e = events[1] /\ 1 \in DOMAIN events
    BY <2>2, DropEvent
  <2>4. InOrder(e)
    BY <1>1, <2>3, OrderByEvent
  <2> QED BY <2>1, <2>4 DEF InOrder, NotEnded, Alive
<1> QED
  BY <1>1, TypeCorrect, OrderCorrect, PTL DEF Spec, ReclaimsOnlyTheEnded

-----------------------------------------------------------------------------
(* A behaviour of one life of the process is a behaviour. *)
LEMMA LifeIsSpec == LifeSpec => Spec
<1>1. [LifeNext]_vars => [Next]_vars
  BY DEF Next
<1> QED BY <1>1, PTL DEF LifeSpec, Spec

(* The events still to handle, whatever their order. *)
Pending == {events[i] : i \in DOMAIN events}

Shadow(f) == f.type = "add" /\ isBound(f.pod)

(* The parts of LifeInv about the events to handle, without their positions. *)
LEMMA ByPending ==
  /\ ShadowsKnown <=> \A f \in Pending : Shadow(f) =>
       /\ status[f.pod.name] # NoStatus
       /\ (status[f.pod.name].uid = 0 \/ f.pod.uid <= status[f.pod.name].uid)
  /\ \A n, uid : ShadowsUpTo(n, uid) <=>
       \A f \in Pending : Shadow(f) /\ f.pod.name = n => f.pod.uid <= uid
  BY DEF ShadowsKnown, ShadowsUpTo, Pending, Shadow, BoundAdd, NameOf, UidOf

(* The same of the next state. *)
LEMMA ByPendingNext ==
  /\ ShadowsKnown' <=> \A f \in Pending' : Shadow(f) =>
       /\ status'[f.pod.name] # NoStatus
       /\ (status'[f.pod.name].uid = 0 \/ f.pod.uid <= status'[f.pod.name].uid)
  /\ \A n, uid : ShadowsUpTo(n, uid)' <=>
       \A f \in Pending' : Shadow(f) /\ f.pod.name = n => f.pod.uid <= uid
  BY DEF ShadowsKnown, ShadowsUpTo, Pending, Shadow, BoundAdd, NameOf, UidOf

(* The events to handle are about pods that were created. *)
LEMMA PendingType ==
  ASSUME TypeOK, OrderInv
  PROVE  /\ events \in Seq(EventSet) /\ Pending \subseteq EventSet
         /\ \A f \in Pending : f.pod.uid <= born[f.pod.name]
<1>1. events \in Seq(EventSet)
  BY DEF TypeOK, EventSet
<1>2. \A i \in DOMAIN events : events[i] \in EventSet
  BY <1>1, ElementOfSeq, LenProperties
<1> QED BY <1>1, <1>2 DEF Pending, OrderInv, EventsKnown, NameOf, UidOf

(* A new event is the last one; an addition is of a new incarnation. *)
LEMMA AppendLast ==
  ASSUME TypeOK, OrderInv, AdditionsLast, NEW e \in EventSet, events' = Append(events, e),
         e.type = "add" => e.pod.uid = born[e.pod.name] + 1
  PROVE  Pending' = Pending \cup {e} /\ AdditionsLast'
<1>1. events \in Seq(EventSet)
  BY PendingType
<1> DEFINE l == Len(events)
<1>2. /\ l \in Nat /\ DOMAIN events = 1 .. l /\ DOMAIN events' = 1 .. l + 1
      /\ events'[l + 1] = e /\ \A i \in 1 .. l : events'[i] = events[i]
  BY <1>1, AppendEvent, LenProperties
<1> HIDE DEF l
<1>3. Pending' = Pending \cup {e}
  <2>1. 1 .. l + 1 = (1 .. l) \cup {l + 1}
    BY <1>2
  <2> QED BY <1>2, <2>1 DEF Pending
<1>4. AdditionsLast'
  <2> SUFFICES ASSUME NEW i \in 1 .. l + 1, NEW j \in 1 .. l + 1, i < j,
                      events'[i].pod.name = events'[j].pod.name, events'[j].type = "add"
               PROVE  events'[i].pod.uid < events'[j].pod.uid
    BY <1>2 DEF AdditionsLast, NameOf, UidOf
  <2>1. CASE j = l + 1
    <3>1. i \in 1 .. l /\ events'[i] = events[i] /\ events[i] \in EventSet
      BY <1>1, <1>2, <2>1, ElementOfSeq
    <3>2. events[i].pod.uid <= born[events[i].pod.name]
      BY <1>2, <3>1 DEF OrderInv, EventsKnown, NameOf, UidOf
    <3>3. events[i].pod.uid \in Nat /\ born[events[i].pod.name] \in Nat
      BY <3>1 DEF EventSet, Pod, TypeOK
    <3> QED BY <1>2, <2>1, <3>1, <3>2, <3>3
  <2>2. CASE j # l + 1
    <3>1. i \in 1 .. l /\ j \in 1 .. l
      BY <1>2, <2>2
    <3> QED BY <1>2, <3>1 DEF AdditionsLast, NameOf, UidOf
  <2> QED BY <2>1, <2>2
<1> QED BY <1>3, <1>4

(* When the first event is handled, the additions left are later. *)
LEMMA DropFirst ==
  ASSUME TypeOK, OrderInv, AdditionsLast, events # <<>>, events' = Tail(events)
  PROVE  /\ Pending' \subseteq Pending /\ AdditionsLast' /\ Head(events) \in Pending
         /\ \A f \in Pending' : f.type = "add" /\ f.pod.name = Head(events).pod.name
              => Head(events).pod.uid < f.pod.uid
<1>1. events \in Seq(EventSet)
  BY PendingType
<1>2. /\ Head(events) = events[1] /\ 1 \in DOMAIN events
      /\ \A i \in DOMAIN events' : events'[i] = events[i + 1] /\ i + 1 \in DOMAIN events
  BY <1>1, DropEvent
<1>3. DOMAIN events \subseteq Nat /\ DOMAIN events' \subseteq Nat \ {0}
  BY <1>1, DropEvent, LenProperties
<1>4. \A i, j \in DOMAIN events' : i < j => i + 1 < j + 1
  BY <1>3
<1>5. \A i \in DOMAIN events' : 1 < i + 1
  BY <1>3
<1> QED BY <1>2, <1>4, <1>5 DEF Pending, AdditionsLast, NameOf, UidOf

(* What LifeInv adds to OrderInv and AdditionsLast. *)
MemoryInv == /\ ShadowsKnown /\ NothingToAccount /\ NotYetBound /\ LaterThanShadows
             /\ KeptWhileReplaced /\ UidsKnown /\ ShadowIsBound
             /\ PodInHand /\ StatusInHand

(* LifeInv in the three parts its proof treats apart. *)
LEMMA LifeParts == LifeInv <=> OrderInv /\ AdditionsLast /\ MemoryInv
  BY DEF LifeInv, MemoryInv

(* A new process knows of no pod, and no event is under way. *)
LEMMA LifeInit == Init => LifeInv
<1> SUFFICES ASSUME Init PROVE LifeInv
  OBVIOUS
<1>1. DOMAIN events = {}
  BY DEF Init
<1>2. OrderInv
  BY InitOrder
<1>3. AdditionsLast /\ ShadowsKnown
  BY <1>1 DEF AdditionsLast, ShadowsKnown
<1>4. NothingToAccount /\ NotYetBound /\ LaterThanShadows /\ KeptWhileReplaced
      /\ UidsKnown /\ ShadowIsBound /\ PodInHand /\ StatusInHand
  BY DEF Init, NothingToAccount, NotYetBound, LaterThanShadows, KeptWhileReplaced, UidsKnown,
         ShadowIsBound, PodInHand, StatusInHand, Choosing, Replacing
<1> QED BY <1>2, <1>3, <1>4 DEF LifeInv

(* The names of statuses and of the pod in a cycle. *)
LEMMA CycleNames ==
  ASSUME TypeOK
  PROVE  /\ pc \in Choosing \cup Replacing \cup {"setuid"} =>
              cyc.pod \in Pod /\ cyc.pod.name \in Names /\ cyc.pod.uid \in Nat \ {0}
         /\ \A n \in Names : born[n] \in Nat
         /\ \A n \in Names : status[n] # NoStatus => status[n] \in PodStatus /\ status[n].uid \in Nat
         /\ cyc.newUid \in Nat
  BY DEF TypeOK, Choosing, Replacing, Pod, PodStatus, Cycle

(* LifeInv is about the API server, its events, the statuses and the cycle.  *)
LEMMA SameLife ==
  ASSUME LifeInv, UNCHANGED <<api, born, events, boundQ, status, pc, cyc>>
  PROVE  LifeInv'
  BY DEF LifeInv, OrderInv, LatestInApi, EventsKnown, EventsOfThePast, CopyOfThePod,
         AdditionsLast, ShadowsKnown, NothingToAccount, NotYetBound, LaterThanShadows,
         KeptWhileReplaced, UidsKnown, ShadowIsBound, PodInHand, StatusInHand, HasStatus,
         NameOf, UidOf, BoundAdd, ShadowsUpTo, NotEnded

(* What users and kubelets do shows in the events only: the pod a name gets  *)
(* is later than any the scheduler has seen, and nobody deletes the pod a    *)
(* cycle has in hand.                                                        *)
LEMMA EnvironmentLife ==
  ASSUME OriginalsStay, TypeOK, LifeInv, NEW n \in Names,
         (\E s \in Specs : UserCreate(n, s)) \/ UserDelete(n) \/ Finish(n)
  PROVE  LifeInv'
<1>0. OrderInv /\ AdditionsLast /\ MemoryInv /\ LatestInApi
  BY LifeParts DEF OrderInv
<1>1. PICK e \in EventSet :
        /\ events' = Append(events, e) /\ ~ Shadow(e)
        /\ e.type = "add" => e.pod.uid = born[e.pod.name] + 1
  <2>1. ASSUME NEW s \in Specs, UserCreate(n, s) 
        PROVE  \E e \in EventSet : /\ events' = Append(events, e) /\ ~ Shadow(e)
                                   /\ e.type = "add" => e.pod.uid = born[e.pod.name] + 1
    <3> DEFINE e == Event("add", NewPod(n, s))
    <3>1. NewPod(n, s) \in Pod
      BY DEF NewPod, Pod, Ports, TypeOK
    <3>2. e \in EventSet /\ e.pod.node = NoNode /\ e.pod.uid = born[e.pod.name] + 1
      BY <3>1 DEF Event, EventSet, NewPod
    <3>3. events' = Append(events, e)
      BY <2>1 DEF UserCreate
    <3> HIDE DEF e
    <3> QED BY <3>2, <3>3 DEF Shadow, isBound
  <2>2. CASE UserDelete(n)
    <3>1. Event("delete", api[n]) \in EventSet /\ ~ Shadow(Event("delete", api[n]))
          /\ Event("delete", api[n]).type # "add"
      BY <2>2 DEF UserDelete, TypeOK, Event, EventSet, Shadow
    <3> QED BY <2>2, <3>1 DEF UserDelete
  <2>3. CASE Finish(n)
    <3> DEFINE e == Event("update", [api[n] EXCEPT !.phase = "Done"])
    <3>1. api[n] \in Pod
      BY <2>3 DEF Finish, Alive, TypeOK
    <3>2. e \in EventSet /\ e.type # "add"
      BY <3>1 DEF Event, EventSet, Pod
    <3>3. events' = Append(events, e)
      BY <2>3 DEF Finish
    <3> HIDE DEF e
    <3> QED BY <3>2, <3>3 DEF Shadow
  <2> QED BY <2>1, <2>2, <2>3
<1>2. OrderInv' /\ AdditionsLast' /\ Pending' = Pending \cup {e}
  BY <1>0, <1>1, EnvironmentOrder, AppendLast
<1>3. UNCHANGED <<pc, cyc, status, boundQ>>
  BY DEF UserCreate, UserDelete, Finish
<1>4. /\ \A m \in Names : born[m] \in Nat /\ born'[m] >= born[m]
      /\ \A m \in Names : m # n => api'[m] = api[m]
      /\ \/ api'[n] = NoPod
         \/ ~ isBound(api'[n]) /\ api'[n].uid > born[n]
         \/ isBound(api[n]) /\ isBound(api'[n]) /\ api[n] # NoPod
  <2>1. \A m \in Names : born[m] \in Nat
    BY DEF TypeOK
  <2>2. ASSUME NEW s \in Specs, UserCreate(n, s)
        PROVE  /\ ~ isBound(api'[n]) /\ api'[n].uid > born[n]
               /\ \A m \in Names : m # n => api'[m] = api[m]
               /\ \A m \in Names : born'[m] >= born[m]
    <3>1. api' = [api EXCEPT ![n] = NewPod(n, s)] /\ born' = [born EXCEPT ![n] = @ + 1]
      BY <2>2 DEF UserCreate
    <3>2. NewPod(n, s).node = NoNode /\ NewPod(n, s).uid = born[n] + 1
      BY DEF NewPod
    <3> QED BY <2>1, <3>1, <3>2 DEF isBound, TypeOK
  <2>3. CASE UserDelete(n)
    BY <2>1, <2>3 DEF UserDelete, TypeOK
  <2>4. CASE Finish(n)
    <3>1. api[n] \in Pod /\ isBound(api[n])
      BY <2>4 DEF Finish, Alive, TypeOK
    <3>2. api'[n].node = api[n].node /\ \A m \in Names : m # n => api'[m] = api[m]
      BY <2>4, <3>1 DEF Finish, Pod, TypeOK
    <3> QED BY <2>1, <2>4, <3>1, <3>2, AbsenceAssumption DEF Finish, isBound
  <2> QED BY <2>1, <2>2, <2>3, <2>4
<1>5. ShadowsKnown'
  BY <1>0, <1>1, <1>2, <1>3, ByPending, ByPendingNext DEF MemoryInv
<1>6. LaterThanShadows'
  <2>1. \A m, uid : ShadowsUpTo(m, uid) => ShadowsUpTo(m, uid)'
    BY <1>1, <1>2, ByPending, ByPendingNext
  <2> QED BY <1>0, <1>3, <2>1 DEF MemoryInv, LaterThanShadows
<1>7. NothingToAccount' /\ KeptWhileReplaced'
  BY <1>0, <1>3 DEF MemoryInv, NothingToAccount, KeptWhileReplaced
<1>8. NotYetBound'
  BY <1>0, <1>3, <1>4, CycleNames DEF MemoryInv, NotYetBound
<1>9. UidsKnown'
  <2>0. \A m \in Names, u \in Nat : u <= born[m] => u <= born'[m]
    BY <1>4 DEF UserCreate, UserDelete, Finish, TypeOK
  <2>1. \A m \in Names : status[m] # NoStatus => status[m].uid \in Nat /\ status[m].uid <= born[m]
    BY <1>0, CycleNames DEF MemoryInv, UidsKnown
  <2>2. \A m \in Names : status'[m] # NoStatus => status'[m].uid <= born'[m]
    BY <1>3, <2>0, <2>1
  <2>3. /\ pc \in Choosing \cup Replacing => cyc.pod.uid <= born'[cyc.pod.name]
        /\ pc = "setuid" => cyc.newUid <= born'[cyc.pod.name]
    BY <1>0, <2>0, CycleNames DEF MemoryInv, UidsKnown
  <2> QED BY <1>3, <2>2, <2>3 DEF UidsKnown
<1>10. ShadowIsBound'
  <2>2. ASSUME pc = "setuid", api'[cyc.pod.name] # NoPod, api'[cyc.pod.name].uid = cyc.newUid
        PROVE  isBound(api'[cyc.pod.name])
    <3>1. cyc.newUid <= born[cyc.pod.name] /\ cyc.pod.name \in Names
      BY <1>0, <2>2, CycleNames DEF MemoryInv, UidsKnown
    <3>2. CASE cyc.pod.name = n
      BY <1>4, <2>2, <3>1, <3>2, CycleNames
    <3>3. CASE cyc.pod.name # n
      BY <1>0, <1>4, <2>2, <3>1, <3>3 DEF MemoryInv, ShadowIsBound
    <3> QED BY <3>2, <3>3
  <2> QED BY <1>3, <2>2 DEF ShadowIsBound, isBound
<1>11. PodInHand' /\ StatusInHand'
  <2>1. ASSUME pc \in Choosing PROVE api'[cyc.pod.name] = api[cyc.pod.name]
    <3>1. /\ api[cyc.pod.name] = cyc.pod /\ cyc.pod \in Pod /\ ~ isBound(cyc.pod)
          /\ cyc.pod # NoPod /\ HasInHand(cyc.pod.name)
      BY <1>0, <2>1, CycleNames, AbsenceAssumption
         DEF MemoryInv, PodInHand, NotYetBound, HasInHand, Choosing
    <3>2. n # cyc.pod.name
      BY <3>1 DEF UserCreate, UserDelete, Finish, Alive
    <3> QED BY <1>4, <2>1, <3>2, CycleNames
  <2>2. \A pod : HasStatus(pod)' <=> HasStatus(pod)
    BY <1>3 DEF HasStatus
  <2> QED BY <1>0, <1>3, <2>1, <2>2 DEF MemoryInv, PodInHand, StatusInHand, HasStatus
<1> QED
  BY <1>2, <1>5, <1>6, <1>7, <1>8, <1>9, <1>10, <1>11 DEF LifeInv

(* deletePod never drops a status an addition is still to find, nor that of  *)
(* the pod being replaced.                                                   *)
LEMMA HandlerLife ==
  ASSUME TypeOK, LifeInv, HandlesEvent
  PROVE  LifeInv'
<1> DEFINE first == Head(events)
           pod   == first.pod
<1>0. OrderInv /\ AdditionsLast /\ MemoryInv
  BY LifeParts
<1>1. /\ events # <<>> /\ events' = Tail(events)
      /\ UNCHANGED <<api, born, pc, cyc>>
  BY DEF HandlesEvent, HandleAdd, HandleUpdate, HandleDelete, NextEvent, EventHandled, apiVars
<1>2. /\ Pending' \subseteq Pending /\ AdditionsLast' /\ first \in Pending
      /\ \A f \in Pending' : f.type = "add" /\ f.pod.name = pod.name => pod.uid < f.pod.uid
  BY <1>0, <1>1, DropFirst
<1>3. /\ Pending \subseteq EventSet /\ first \in EventSet /\ pod \in Pod
      /\ pod.name \in Names /\ pod.uid \in Nat \ {0}
  BY <1>0, <1>2, PendingType DEF EventSet, Pod
<1>4. OrderInv'
  BY <1>0, HandlerOrder
<1>5. \/ UNCHANGED status
      \/ /\ HasStatus(pod) /\ status' = [status EXCEPT ![pod.name] = NoStatus]
         /\ first.type # "add" \/ isCompleted(pod)
  BY DEF HandlesEvent, HandleAdd, HandleUpdate, HandleDelete, NextEvent, DeletePod
<1>6. \A n \in Names : \/ status'[n] = status[n]
                       \/ /\ n = pod.name /\ status[n] # NoStatus
                          /\ status[n].uid = pod.uid /\ status'[n] = NoStatus
                          /\ first.type # "add" \/ isCompleted(pod)
  <2> HIDE DEF pod, first
  <2> QED BY <1>3, <1>5 DEF HasStatus, TypeOK
<1>7. NothingToAccount'
  <2>1. CASE UNCHANGED boundQ
    BY <1>0, <2>1 DEF MemoryInv, NothingToAccount
  <2>2. CASE HandleAdd /\ ~ UNCHANGED boundQ
    <3>1. first.type = "add" /\ isBound(pod) /\ status[pod.name] = NoStatus
      BY <2>2 DEF HandleAdd, NextEvent, AddPod
    <3> HIDE DEF first
    <3> QED BY <1>0, <1>2, <3>1, ByPending DEF MemoryInv, Shadow
  <2> QED BY <2>1, <2>2 DEF HandlesEvent, HandleUpdate, HandleDelete
<1> HIDE DEF first, pod
<1>8. ShadowsKnown'
  <2> SUFFICES ASSUME NEW f \in Pending', Shadow(f)
               PROVE  /\ status'[f.pod.name] # NoStatus
                      /\ status'[f.pod.name].uid = 0 \/ f.pod.uid <= status'[f.pod.name].uid
    BY ByPendingNext
  <2>1. /\ status[f.pod.name] # NoStatus
        /\ status[f.pod.name].uid = 0 \/ f.pod.uid <= status[f.pod.name].uid
    BY <1>0, <1>2, ByPending DEF MemoryInv
  <2>2. f.pod.name \in Names /\ f.pod.uid \in Nat
    BY <1>2, <1>3 DEF EventSet, Pod
  <2>3. status'[f.pod.name] = status[f.pod.name]
    BY <1>2, <1>3, <1>6, <2>1, <2>2 DEF Shadow
  <2> QED BY <2>1, <2>3
<1>9. LaterThanShadows'
  <2>1. \A m, uid : ShadowsUpTo(m, uid) => ShadowsUpTo(m, uid)'
    BY <1>2, ByPending, ByPendingNext
  <2> QED BY <1>0, <1>1, <2>1 DEF MemoryInv, LaterThanShadows
<1>10. KeptWhileReplaced'
  BY <1>0, <1>1, <1>3, <1>6, CycleNames DEF MemoryInv, KeptWhileReplaced
<1>11. UidsKnown'
  BY <1>0, <1>1, <1>6 DEF MemoryInv, UidsKnown
<1>12. NotYetBound' /\ ShadowIsBound'
  BY <1>0, <1>1 DEF MemoryInv, NotYetBound, ShadowIsBound
<1>13. PodInHand' /\ StatusInHand'
  <2>1. ASSUME pc \in Choosing PROVE status'[cyc.pod.name] = status[cyc.pod.name]
    <3>1. /\ cyc.pod \in Pod /\ cyc.pod.name \in Names /\ cyc.pod # NoPod
          /\ api[cyc.pod.name] = cyc.pod /\ ~ isBound(cyc.pod) /\ HasStatus(cyc.pod)
      BY <1>0, <2>1, CycleNames, AbsenceAssumption DEF MemoryInv, PodInHand, NotYetBound
    <3>2. NotEnded(cyc.pod.name) /\ status[cyc.pod.name].uid = cyc.pod.uid
      BY <1>0, <3>1 DEF OrderInv, LatestInApi, NotEnded, HasStatus
    <3>3. InOrder(first)
      BY <1>0, <1>2, OrderByEvent DEF Pending
    <3>4. ~ (/\ pod.name = cyc.pod.name /\ pod.uid = cyc.pod.uid
             /\ first.type # "add" \/ isCompleted(pod))
      BY <3>1, <3>2, <3>3 DEF InOrder, pod
    <3> QED BY <1>6, <3>1, <3>2, <3>4
  <2> QED BY <1>0, <1>1, <2>1, Zenon
       DEF MemoryInv, PodInHand, StatusInHand, HasStatus, Choosing
<1> QED
  BY <1>2, <1>4, <1>7, <1>8, <1>9, <1>10, <1>11, <1>12, <1>13 DEF LifeInv

LEMMA InformerLife ==
  ASSUME TypeOK, LifeInv, Informer
  PROVE  LifeInv'
<1>1. CASE HandlesEvent
  BY <1>1, HandlerLife
<1>2. CASE UnmaskEnded \/ \E l \in Leaves : ReclaimCell(l)
  <2>1. UNCHANGED <<apiVars, events, boundQ, status, pc, cyc>>
    BY <1>2, Zenon DEF UnmaskEnded, ReclaimCell
  <2> QED BY <2>1, SameLife DEF apiVars
<1> QED BY <1>1, <1>2 DEF Informer, HandlesEvent


(* A pod in a cycle: what the invariants say of it. *)
InHand(pod) ==
  /\ ShadowsUpTo(pod.name, pod.uid) /\ pod.uid <= born[pod.name]
  /\ ~ isBound(pod) /\ api[pod.name] = pod

(* The steps of a cycle that write the status of its pod, and nothing else   *)
(* that LifeInv is about but the place the cycle is at.                      *)
LEMMA WritesStatus ==
  ASSUME TypeOK, LifeInv, OrderInv', NEW pod \in Pod, InHand(pod),
         NEW ps \in PodStatus, ps.uid \in {0, pod.uid},
         status' = [status EXCEPT ![pod.name] = ps],
         UNCHANGED <<api, born, events, boundQ>>,
         pc' \notin {"idle", "panicked"} => cyc'.pod = pod,
         pc' # "setuid",
         pc' \in Choosing => ps.uid = pod.uid,
         pc' = "empty" => cyc'.same /\ cyc'.ps = ps,
         pc' \in Replacing => ps.uid = 0
  PROVE  LifeInv'
<1>0. OrderInv /\ AdditionsLast /\ MemoryInv
  BY LifeParts
<1>1. pod.name \in Names /\ pod.uid \in Nat \ {0}
  BY DEF Pod
<1>2. /\ status'[pod.name] = ps /\ ps # NoStatus
      /\ \A n \in Names : n # pod.name => status'[n] = status[n]
  BY <1>1, AbsenceAssumption DEF TypeOK
<1>3. Pending' = Pending /\ Pending \subseteq EventSet
  BY <1>0, PendingType DEF Pending
<1>4. AdditionsLast' /\ NothingToAccount'
  BY <1>0 DEF MemoryInv, AdditionsLast, NothingToAccount, NameOf, UidOf
<1>5. ShadowsKnown'
  <2> SUFFICES ASSUME NEW f \in Pending, Shadow(f)
               PROVE  /\ status'[f.pod.name] # NoStatus
                      /\ status'[f.pod.name].uid = 0 \/ f.pod.uid <= status'[f.pod.name].uid
    BY <1>3, ByPendingNext
  <2>1. f.pod.name \in Names
    BY <1>3 DEF EventSet, Pod
  <2>2. CASE f.pod.name = pod.name
    BY <1>2, <2>2, ByPending DEF InHand
  <2>3. CASE f.pod.name # pod.name
    BY <1>0, <1>2, <2>1, <2>3, ByPending DEF MemoryInv
  <2> QED BY <2>2, <2>3
<1>6. LaterThanShadows'
  <2>1. ShadowsUpTo(pod.name, pod.uid)'
    BY <1>3, ByPending, ByPendingNext DEF InHand
  <2> QED BY <2>1 DEF LaterThanShadows, Choosing
<1>7. NotYetBound'
  BY DEF NotYetBound, InHand, Choosing, Replacing
<1>8. KeptWhileReplaced'
  BY <1>2 DEF KeptWhileReplaced, Replacing
<1>9. UidsKnown'
  BY <1>0, <1>1, <1>2, CycleNames DEF MemoryInv, UidsKnown, InHand, Choosing, Replacing
<1>10. ShadowIsBound'
  BY DEF ShadowIsBound
<1>11. PodInHand' /\ StatusInHand'
  BY <1>1, <1>2 DEF PodInHand, StatusInHand, HasStatus, InHand, Choosing
<1> QED
  BY <1>4, <1>5, <1>6, <1>7, <1>8, <1>9, <1>10, <1>11 DEF LifeInv

(* getPodLabels returns a status with the uid of the pod it is asked for. *)
LEMMA LabelsUid ==
  ASSUME TypeOK, NEW pod \in Pod
  PROVE  GetPodLabels(pod) \in PodStatus /\ GetPodLabels(pod).uid = pod.uid
  BY StatusType DEF GetPodLabels, HasStatus

(* While the pod of a cycle is chosen for, it is in hand. *)
LEMMA ChosenInHand ==
  ASSUME TypeOK, LifeInv, pc \in Choosing
  PROVE  /\ cyc.pod \in Pod /\ InHand(cyc.pod)
         /\ status[cyc.pod.name] \in PodStatus /\ HasStatus(cyc.pod)
         /\ GetPodLabels(cyc.pod) = status[cyc.pod.name]
         /\ pc = "empty" => cyc.same /\ cyc.ps = status[cyc.pod.name]
<1>1. MemoryInv
  BY LifeParts
<1>2. cyc.pod \in Pod /\ InHand(cyc.pod) /\ HasStatus(cyc.pod)
  BY <1>1, CycleNames
     DEF MemoryInv, LaterThanShadows, NotYetBound, UidsKnown, PodInHand, InHand
<1> QED
  BY <1>1, <1>2, CycleNames DEF MemoryInv, StatusInHand, HasStatus, GetPodLabels, Pod

(* A cycle begins with the last incarnation of its name, which is not bound. *)
LEMMA PreFilterLife ==
  ASSUME TypeOK, LifeInv, NEW n \in Names, PreFilter(n)
  PROVE  LifeInv'
<1>0. OrderInv /\ AdditionsLast /\ MemoryInv /\ OrderInv'
  BY LifeParts, CycleOrder
<1>1. PICK pod \in Pod : pod = api[n]
  BY DEF PreFilter, TypeOK
<1>2. pod.name = n /\ pod.uid = born[n] /\ ~ isBound(pod)
  BY <1>0, <1>1 DEF PreFilter, OrderInv, LatestInApi
<1>3. InHand(pod)
  <2>1. ShadowsUpTo(n, born[n])
    BY <1>0, PendingType, ByPending
  <2>2. born[n] \in Nat
    BY CycleNames
  <2> QED BY <1>1, <1>2, <2>1, <2>2 DEF InHand
<1>4. PICK ps \in PodStatus : ps = GetPodLabels(pod) /\ ps.uid = pod.uid
  BY LabelsUid
<1>5. /\ status' = [status EXCEPT ![pod.name] = ps] /\ UNCHANGED <<api, born, events, boundQ>>
      /\ pc' = "filter" /\ cyc'.pod = pod
  BY <1>1, <1>2, <1>4 DEF PreFilter, IdleCycle, apiVars, queueVars
<1> QED
  BY <1>0, <1>3, <1>4, <1>5, WritesStatus DEF Replacing, Choosing

(* Filter writes a status only for the pod in its hands. *)
LEMMA FilterDecideLife ==
  ASSUME TypeOK, LifeInv, FilterDecide
  PROVE  LifeInv'
<1>0. OrderInv /\ OrderInv'
  BY LifeParts, CycleOrder
<1>1. PICK pod \in Pod : pod = cyc.pod /\ InHand(pod)
  BY ChosenInHand DEF FilterDecide, Choosing
<1>2. PICK ps \in PodStatus : ps = GetPodLabels(pod) /\ ps.uid = pod.uid
  BY LabelsUid
<1>3. /\ status' = [status EXCEPT ![pod.name] = ps] /\ UNCHANGED <<api, born, events, boundQ>>
      /\ pc' \in {"filter", "select", "idle"}
  BY <1>1, <1>2 DEF FilterDecide, apiVars, queueVars
<1>4. pc' # "idle" => cyc'.pod = cyc.pod
  <2>1. pc' = "idle" \/ \E fit : cyc' = [cyc EXCEPT !.fit = fit]
    BY DEF FilterDecide
  <2>2. cyc \in Cycle
    BY DEF TypeOK
  <2> QED BY <2>1, <2>2 DEF Cycle
<1> QED
  BY <1>0, <1>1, <1>2, <1>3, <1>4, WritesStatus DEF Replacing

(* So does Reserve when it sets the cells. *)
LEMMA ReserveSelectLife ==
  ASSUME TypeOK, LifeInv, NEW x \in Nodes, ReserveSelect(x)
  PROVE  LifeInv'
<1>0. OrderInv /\ OrderInv'
  BY LifeParts, CycleOrder
<1>1. PICK pod \in Pod : pod = cyc.pod /\ InHand(pod)
  BY ChosenInHand DEF ReserveSelect, Choosing
<1>2. PICK ps \in PodStatus : ps = GetPodLabels(pod) /\ ps.uid = pod.uid
  BY LabelsUid
<1> DEFINE labels == GetPodLabels(cyc.pod)
<1>3. PICK cells \in CellChoices(x, labels) :
        /\ status' = [status EXCEPT ![cyc.pod.name] = [labels EXCEPT !.cells = cells]]
        /\ \/ pc' = "panicked"
           \/ pc' = "assume" /\ cyc' = [cyc EXCEPT !.node = x, !.multi = MultiGPU(labels.request)]
  BY DEF ReserveSelect, Panic
<1>4. cells \in SUBSET Leaves /\ labels = ps
  BY <1>1, <1>2 DEF CellChoices, LeavesOf
<1> HIDE DEF labels
<1>5. PICK new \in PodStatus : new = [ps EXCEPT !.cells = cells] /\ new.uid = pod.uid
  <2>1. [ps EXCEPT !.cells = cells] \in PodStatus
    BY <1>4 DEF PodStatus
  <2>2. [ps EXCEPT !.cells = cells].uid = pod.uid
    BY <1>2 DEF PodStatus
  <2> QED BY <2>1, <2>2
<1>6. pc' # "panicked" => pc' = "assume" /\ cyc'.pod = pod
  <2>1. cyc \in Cycle
    BY DEF TypeOK
  <2> QED BY <1>1, <1>3, <2>1 DEF Cycle
<1>7. UNCHANGED <<api, born, events, boundQ>>
  BY DEF ReserveSelect, apiVars, queueVars
<1> QED
  BY <1>0, <1>1, <1>3, <1>4, <1>5, <1>6, <1>7, WritesStatus DEF Replacing

(* The second lookup finds the same status. *)
LEMMA LookUpAgainFinds ==
  ASSUME TypeOK, LifeInv, LookUpAgain
  PROVE  /\ pc = "assume" /\ pc' = "empty" /\ cyc' \in Cycle
         /\ cyc' = [cyc EXCEPT !.ps = status[cyc.pod.name], !.same = TRUE]
         /\ UNCHANGED <<apiVars, queueVars, status, cellVars, filled, portVars, boundQ, counters>>
<1>1. /\ pc \in Choosing /\ cyc \in Cycle /\ pc = "assume" /\ pc' = "empty"
      /\ status \in [Names -> PodStatus \cup {NoStatus}]
  BY DEF LookUpAgain, Choosing, TypeOK
<1>2. /\ cyc.pod \in Pod /\ HasStatus(cyc.pod) /\ status[cyc.pod.name] \in PodStatus
      /\ GetPodLabels(cyc.pod) = status[cyc.pod.name]
  BY <1>1, ChosenInHand
<1>3. /\ status' = [status EXCEPT ![cyc.pod.name] = GetPodLabels(cyc.pod)]
      /\ cyc' = [cyc EXCEPT !.ps = GetPodLabels(cyc.pod), !.same = HasStatus(cyc.pod)]
      /\ UNCHANGED <<apiVars, queueVars, cellVars, filled, portVars, boundQ, counters>>
  BY DEF LookUpAgain
<1>4. UNCHANGED status
  BY <1>1, <1>2, <1>3
<1>5. cyc' = [cyc EXCEPT !.ps = status[cyc.pod.name], !.same = TRUE]
  BY <1>2, <1>3
<1>6. cyc' \in Cycle
  BY <1>1, <1>2, <1>5 DEF Cycle
<1> QED BY <1>1, <1>3, <1>4, <1>5, <1>6

LEMMA LookUpAgainLife ==
  ASSUME TypeOK, LifeInv, LookUpAgain
  PROVE  LifeInv'
<1>0. OrderInv /\ OrderInv'
  BY LifeParts, CycleOrder
<1>1. PICK ps \in PodStatus : ps = status[cyc.pod.name] /\ ps.uid = cyc.pod.uid
  BY ChosenInHand DEF LookUpAgain, Choosing, HasStatus
<1>2. cyc.pod \in Pod /\ InHand(cyc.pod) /\ cyc \in Cycle
  BY ChosenInHand DEF LookUpAgain, Choosing, TypeOK
<1>3. /\ pc' = "empty" /\ cyc'.pod = cyc.pod /\ cyc'.same /\ cyc'.ps = ps
      /\ status' = [status EXCEPT ![cyc.pod.name] = ps]
      /\ UNCHANGED <<api, born, events, boundQ>>
  BY <1>1, <1>2, LookUpAgainFinds DEF Cycle, TypeOK, apiVars, queueVars
<1> QED
  BY <1>0, <1>1, <1>2, <1>3, WritesStatus DEF Replacing

(* So newAssumedSharedGPUPod does what it would do in one step with the      *)
(* lookup, ...                                                               *)
SharedAtOnce ==
  /\ pc = "empty" /\ ~ cyc.multi
  /\ LET x      == cyc.node
         ps     == cyc.ps
         memory == IF ps.memory = 0 THEN (ps.request * FullMem) \div UNIT ELSE ps.memory
         ii     == FindNextFromCurrent(masked[x], current[x], PortBits)
         port   == ii + PodManagerPortStart
     IN IF ps.cells = {}
          THEN /\ status' = [status EXCEPT ![cyc.pod.name] = Assumed(ps, ps.node)]
               /\ Panic /\ UNCHANGED <<cellVars, portVars>>
          ELSE /\ status' = [status EXCEPT ![cyc.pod.name] =
                                [Assumed(ps, x) EXCEPT !.memory = memory, !.port = port]]
               /\ \E l \in ps.cells : ReserveResource(l, ps.request, memory)
               /\ masked'  = [masked EXCEPT ![x] = MaskedAfter(@, ii)]
               /\ current' = [current EXCEPT ![x] = CurrentAfter(@, ii)]
               /\ pc' = "delete"
               /\ cyc' = [cyc EXCEPT !.same = TRUE,
                                     !.copy = [cyc.pod EXCEPT !.node = x, !.gpus = ps.cells,
                                                     !.memory = memory, !.port = port]]
  /\ UNCHANGED <<apiVars, queueVars, filled, boundQ, counters>>

(* ... and so does newAssumedMultiGPUPod. *)
MultiAtOnce ==
  /\ pc = "empty" /\ cyc.multi
  /\ status' = [status EXCEPT ![cyc.pod.name] = Assumed(cyc.ps, cyc.node)]
  /\ pc' = IF cyc.ps.cells = {} THEN "delete" ELSE "take"
  /\ cyc' = [cyc EXCEPT !.left = cyc.ps.cells, !.same = TRUE,
                        !.copy = [cyc.pod EXCEPT !.node = cyc.node, !.gpus = cyc.ps.cells]]
  /\ UNCHANGED <<apiVars, queueVars, cellVars, filled, portVars, boundQ, counters>>

(* In one life of the process nothing comes between the lookup and the        *)
(* assignments.                                                               *)
LEMMA AssumeAtOnce ==
  ASSUME TypeOK, LifeInv
  PROVE  /\ AssumeSharedPod => SharedAtOnce
         /\ AssumeMultiPod => MultiAtOnce
<1> SUFFICES ASSUME pc = "empty"
             PROVE  /\ AssumeSharedPod => SharedAtOnce
                    /\ AssumeMultiPod => MultiAtOnce
  BY Zenon DEF AssumeSharedPod, AssumeMultiPod
<1>1. pc \in Choosing /\ cyc \in Cycle
  BY DEF Choosing, TypeOK
<1>2. HasStatus(cyc.pod) /\ cyc.same = TRUE /\ ~ TakenOut
  BY <1>1, ChosenInHand DEF TakenOut, Cycle
<1>3. \A copy : [cyc EXCEPT !.copy = copy] = [cyc EXCEPT !.same = TRUE, !.copy = copy]
  BY <1>1, <1>2 DEF Cycle
<1>4. \A left, copy : [cyc EXCEPT !.left = left, !.copy = copy]
                       = [cyc EXCEPT !.left = left, !.same = TRUE, !.copy = copy]
  BY <1>1, <1>2 DEF Cycle
<1>5. \A ps : Assign(ps) => status' = [status EXCEPT ![cyc.pod.name] = ps]
  BY <1>2 DEF Assign
<1>6. ASSUME AssumeSharedPod PROVE SharedAtOnce
  <2> DEFINE x      == cyc.node
             ps     == cyc.ps
             memory == IF ps.memory = 0 THEN (ps.request * FullMem) \div UNIT ELSE ps.memory
             ii     == FindNextFromCurrent(masked[x], current[x], PortBits)
             port   == ii + PodManagerPortStart
             old    == Assumed(ps, ps.node)
             new    == [Assumed(ps, x) EXCEPT !.memory = memory, !.port = port]
             copy   == [cyc.pod EXCEPT !.node = x, !.gpus = ps.cells,
                                       !.memory = memory, !.port = port]
             given  == [ending EXCEPT !.node = x, !.port = port]
             drawn  == /\ masked'  = [masked EXCEPT ![x] = MaskedAfter(@, ii)]
                       /\ current' = [current EXCEPT ![x] = CurrentAfter(@, ii)]
             taken  == \E l \in ps.cells : ReserveResource(l, ps.request, memory)
             gone   == ps.cells = {}
             quiet  == UNCHANGED <<cellVars, portVars>>
  <2>1. /\ pc = "empty" /\ ~ cyc.multi
        /\ IF gone
             THEN Assign(old) /\ Panic /\ UNCHANGED <<endVars, cellVars, portVars>>
             ELSE /\ Assign(new)
                  /\ ending' = IF TakenOut THEN given ELSE ending
                  /\ taken /\ drawn /\ pc' = "delete"
                  /\ cyc' = [cyc EXCEPT !.copy = copy]
                  /\ UNCHANGED hpc
        /\ UNCHANGED <<apiVars, events, listed, filled, boundQ, counters>>
    BY <1>6, Zenon DEF AssumeSharedPod
  <2>2. UNCHANGED queueVars
    <3> HIDE DEF gone, old, new, given, taken, drawn, copy
    <3> QED BY <1>2, <2>1 DEF queueVars, endVars
  <2>3. IF gone
          THEN status' = [status EXCEPT ![cyc.pod.name] = old] /\ Panic /\ quiet
          ELSE /\ status' = [status EXCEPT ![cyc.pod.name] = new]
               /\ taken /\ drawn /\ pc' = "delete"
               /\ cyc' = [cyc EXCEPT !.same = TRUE, !.copy = copy]
    <3>1. UNCHANGED <<endVars, cellVars, portVars>> => quiet
      OBVIOUS
    <3>2. [cyc EXCEPT !.copy = copy] = [cyc EXCEPT !.same = TRUE, !.copy = copy]
      BY <1>3, Zenon
    <3>3. /\ Assign(old) => status' = [status EXCEPT ![cyc.pod.name] = old]
          /\ Assign(new) => status' = [status EXCEPT ![cyc.pod.name] = new]
      BY <1>5, Zenon
    <3> HIDE DEF gone, old, new, given, taken, drawn, copy, quiet
    <3> QED BY <2>1, <3>1, <3>2, <3>3, Zenon
  <2> QED BY <2>1, <2>2, <2>3, Zenon DEF SharedAtOnce
<1>7. ASSUME AssumeMultiPod PROVE MultiAtOnce
  <2> DEFINE new  == Assumed(cyc.ps, cyc.node)
             copy == [cyc.pod EXCEPT !.node = cyc.node, !.gpus = cyc.ps.cells]
  <2>1. /\ Assign(new) /\ cyc' = [cyc EXCEPT !.left = cyc.ps.cells, !.copy = copy]
        /\ pc = "empty" /\ cyc.multi /\ pc' = IF cyc.ps.cells = {} THEN "delete" ELSE "take"
        /\ UNCHANGED <<apiVars, queueVars, cellVars, filled, portVars, boundQ, counters>>
    BY <1>7, Zenon DEF AssumeMultiPod
  <2>2. /\ status' = [status EXCEPT ![cyc.pod.name] = new]
        /\ cyc' = [cyc EXCEPT !.left = cyc.ps.cells, !.same = TRUE, !.copy = copy]
    <3>1. [cyc EXCEPT !.left = cyc.ps.cells, !.copy = copy]
          = [cyc EXCEPT !.left = cyc.ps.cells, !.same = TRUE, !.copy = copy]
      BY <1>4, Zenon
    <3>2. Assign(new) => status' = [status EXCEPT ![cyc.pod.name] = new]
      BY <1>5, Zenon
    <3> HIDE DEF new, copy
    <3> QED BY <2>1, <3>1, <3>2, Zenon
  <2> QED BY <2>1, <2>2, Zenon DEF MultiAtOnce
<1> QED BY <1>6, <1>7

(* What newAssumedSharedGPUPod leaves behind: a status without a uid that    *)
(* has the port of the copy, a free one if there was one; or, when the cells *)
(* are gone, a panic.                                                        *)
LEMMA AssumeSharedEffect ==
  ASSUME TypeOK, LifeInv, AssumeSharedPod
  PROVE  \E ps \in PodStatus :
           /\ status' = [status EXCEPT ![cyc.pod.name] = ps] /\ ps.uid = 0
           /\ \/ /\ pc' = "panicked" /\ UNCHANGED <<cellVars, portVars>>
                 /\ ps.port = cyc.ps.port
                 /\ ps.node = cyc.ps.node
              \/ \E ii \in {-1} \cup ((0 .. PortBits - 1) \ masked[cyc.node]) :
                   /\ ps.port = ii + PodManagerPortStart /\ ps.node = cyc.node
                   /\ masked' = [masked EXCEPT ![cyc.node] = MaskedAfter(@, ii)]
                   /\ pc' = "delete" /\ cyc'.pod = cyc.pod /\ cyc'.same = TRUE
                   /\ cyc'.copy.port = ps.port /\ cyc'.copy.node = cyc.node
<1> DEFINE x      == cyc.node
           old    == cyc.ps
           memory == IF old.memory = 0 THEN (old.request * FullMem) \div UNIT ELSE old.memory
           ii     == FindNextFromCurrent(masked[x], current[x], PortBits)
           port   == ii + PodManagerPortStart
           new    == [Assumed(old, x) EXCEPT !.memory = memory, !.port = port]
           copy   == [cyc.pod EXCEPT !.node = x, !.gpus = old.cells,
                                     !.memory = memory, !.port = port]
<1>1. x \in Nodes /\ cyc.pod \in Pod /\ cyc \in Cycle
  BY DEF AssumeSharedPod, TypeOK
<1>2. old \in PodStatus
  BY DEF AssumeSharedPod, TypeOK
<1>3. memory \in Int
  BY <1>2, RequestAssumption, QuotientType DEF PodStatus
<1>4. ii \in {-1} \cup ((0 .. PortBits - 1) \ masked[x])
  <2>1. Searchable(masked[x], current[x], PortBits)
    BY <1>1, RequestAssumption DEF Searchable, TypeOK
  <2> QED BY <2>1, FindNextIsFree
<1>5. port \in Ports
  BY <1>4, RequestAssumption DEF Ports, PodManagerPortStart
<1>6. \/ /\ status' = [status EXCEPT ![cyc.pod.name] = Assumed(old, old.node)]
         /\ pc' = "panicked" /\ UNCHANGED <<cellVars, portVars>>
      \/ /\ status' = [status EXCEPT ![cyc.pod.name] = new]
         /\ masked'  = [masked EXCEPT ![x] = MaskedAfter(@, ii)]
         /\ pc' = "delete" /\ cyc' = [cyc EXCEPT !.same = TRUE, !.copy = copy]
  BY AssumeAtOnce DEF SharedAtOnce, Panic
<1> HIDE DEF memory, ii
<1>7. /\ new \in PodStatus /\ new.uid = 0 /\ new.port = port /\ new.node = x
      /\ Assumed(old, old.node) \in PodStatus /\ Assumed(old, old.node).uid = 0
      /\ Assumed(old, old.node).port = old.port /\ Assumed(old, old.node).node = old.node
      /\ copy.port = port /\ copy.node = x
  BY <1>1, <1>2, <1>3, <1>5 DEF PodStatus, Pod, Assumed
<1> HIDE DEF old, new, copy
<1>8. CASE pc' = "panicked"
  <2>1. /\ status' = [status EXCEPT ![cyc.pod.name] = Assumed(old, old.node)]
        /\ UNCHANGED <<cellVars, portVars>>
    BY <1>6, <1>8
  <2> QED BY <1>7, <1>8, <2>1 DEF old
<1>9. CASE pc' # "panicked"
  <2>1. /\ status' = [status EXCEPT ![cyc.pod.name] = new]
        /\ masked'  = [masked EXCEPT ![x] = MaskedAfter(@, ii)]
        /\ pc' = "delete" /\ cyc' = [cyc EXCEPT !.same = TRUE, !.copy = copy]
    BY <1>6, <1>9
  <2>2. cyc'.pod = cyc.pod /\ cyc'.same = TRUE /\ cyc'.copy = copy
    BY <1>1, <2>1 DEF Cycle
  <2>3. /\ new.port = ii + PodManagerPortStart /\ new.node = cyc.node
        /\ masked' = [masked EXCEPT ![cyc.node] = MaskedAfter(@, ii)]
        /\ pc' = "delete" /\ cyc'.pod = cyc.pod /\ cyc'.same = TRUE
        /\ cyc'.copy.port = new.port /\ cyc'.copy.node = cyc.node
    BY <1>7, <2>1, <2>2
  <2>4. ii \in {-1} \cup ((0 .. PortBits - 1) \ masked[cyc.node])
    BY <1>4
  <2> HIDE DEF x, port
  <2> QED BY <1>7, <2>1, <2>3, <2>4, Zenon
<1> QED BY <1>8, <1>9

(* newAssumedMultiGPUPod draws no port. *)
LEMMA AssumeMultiEffect ==
  ASSUME TypeOK, LifeInv, AssumeMultiPod
  PROVE  \E ps \in PodStatus :
           /\ status' = [status EXCEPT ![cyc.pod.name] = ps] /\ ps.uid = 0
           /\ ps.port = cyc.ps.port
           /\ pc' \in {"take", "delete"} /\ cyc'.pod = cyc.pod
           /\ cyc'.copy.port = cyc.pod.port /\ cyc'.copy.node = cyc.node
<1> DEFINE old  == cyc.ps
           new  == Assumed(old, cyc.node)
           copy == [cyc.pod EXCEPT !.node = cyc.node, !.gpus = old.cells]
<1>1. cyc.node \in Nodes /\ cyc.pod \in Pod /\ cyc \in Cycle
  BY DEF AssumeMultiPod, TypeOK
<1>2. old \in PodStatus
  BY DEF AssumeMultiPod, TypeOK
<1>3. /\ new \in PodStatus /\ new.uid = 0 /\ new.port = old.port
      /\ copy.port = cyc.pod.port /\ copy.node = cyc.node
  BY <1>1, <1>2 DEF PodStatus, Pod, Assumed
<1>4. /\ status' = [status EXCEPT ![cyc.pod.name] = new] /\ pc' \in {"take", "delete"}
      /\ cyc' = [cyc EXCEPT !.left = old.cells, !.same = TRUE, !.copy = copy]
  BY AssumeAtOnce DEF MultiAtOnce
<1> HIDE DEF new, copy
<1>5. cyc'.pod = cyc.pod /\ cyc'.copy = copy
  BY <1>1, <1>4 DEF Cycle
<1> QED BY <1>3, <1>4, <1>5

(* While its pod is replaced a status has no uid: no event matches it. *)
LEMMA AssumeLife ==
  ASSUME TypeOK, LifeInv, AssumeSharedPod \/ AssumeMultiPod
  PROVE  LifeInv'
<1>0. OrderInv /\ OrderInv'
  BY LifeParts, AssumeOrder
<1>1. PICK pod \in Pod : pod = cyc.pod /\ InHand(pod)
  BY ChosenInHand DEF AssumeSharedPod, AssumeMultiPod, Choosing
<1>2. cyc.node \in Nodes /\ NoNode \notin Nodes
  BY AbsenceAssumption DEF AssumeSharedPod, AssumeMultiPod, TypeOK
<1>3. PICK ps \in PodStatus :
        /\ status' = [status EXCEPT ![pod.name] = ps] /\ ps.uid = 0
        /\ pc' \in {"panicked", "take", "delete"}
        /\ pc' # "panicked" => cyc'.pod = pod /\ cyc'.copy.node = cyc.node
  BY <1>1, AssumeSharedEffect, AssumeMultiEffect
<1>4. UNCHANGED <<api, born, events, boundQ>>
  BY AssumeAtOnce DEF SharedAtOnce, MultiAtOnce, apiVars, queueVars
<1> QED
  BY <1>0, <1>1, <1>2, <1>3, <1>4, WritesStatus DEF Replacing, Choosing

(* Steps that neither write a status nor touch the API server. *)
LEMMA QuietLife ==
  ASSUME TypeOK, LifeInv, OrderInv', UNCHANGED <<api, born, events, boundQ, status>>,
         cyc'.pod = cyc.pod,
         pc' \in Choosing => pc \in Choosing /\ pc' # "empty",
         pc' \in Replacing => pc \in Replacing,
         pc' = "setuid" => pc \in Replacing /\ cyc'.newUid = 0
  PROVE  LifeInv'
<1>0. OrderInv /\ AdditionsLast /\ MemoryInv
  BY LifeParts
<1>1. AdditionsLast' /\ ShadowsKnown' /\ NothingToAccount'
  BY <1>0 DEF MemoryInv, AdditionsLast, ShadowsKnown, NothingToAccount, NameOf, UidOf, BoundAdd
<1>2. \A n, uid : ShadowsUpTo(n, uid)' <=> ShadowsUpTo(n, uid)
  BY DEF ShadowsUpTo, NameOf, UidOf, BoundAdd
<1>3. NotYetBound' /\ KeptWhileReplaced' /\ LaterThanShadows'
  BY <1>0, <1>2
     DEF MemoryInv, NotYetBound, KeptWhileReplaced, LaterThanShadows, Choosing, Replacing
<1>4. UidsKnown'
  BY <1>0, CycleNames DEF MemoryInv, UidsKnown, Choosing, Replacing
<1>5. ShadowIsBound'
  <2>1. ASSUME pc' = "setuid", api[cyc.pod.name] # NoPod, api[cyc.pod.name].uid = 0 PROVE FALSE
    <3>1. cyc.pod.name \in Names
      BY <2>1, CycleNames
    <3> QED BY <2>1, <3>1 DEF TypeOK, Pod
  <2> QED BY <2>1 DEF ShadowIsBound
<1>6. PodInHand' /\ StatusInHand'
  BY <1>0 DEF MemoryInv, PodInHand, StatusInHand, HasStatus, Choosing
<1> QED BY <1>1, <1>3, <1>4, <1>5, <1>6 DEF LifeInv

(* The steps of a cycle that leave the statuses and the API server alone. *)
LEMMA StepsOfACycle ==
  ASSUME TypeOK, LifeInv,
         \/ \E x \in Nodes, seen \in BOOLEAN : FilterAddNode(x, seen)
         \/ \E l \in Leaves : TakeCell(l)
         \/ ReserveCreateFails
  PROVE  LifeInv'
<1>0. OrderInv /\ MemoryInv /\ OrderInv'
  BY LifeParts, CycleOrder, AssumeOrder
<1>1. UNCHANGED <<api, born, events, boundQ, status>>
  <2>1. UNCHANGED <<apiVars, queueVars, boundQ, status>>
    BY Zenon DEF FilterAddNode, TakeCell, ReserveCreateFails
  <2> QED BY <2>1 DEF apiVars, queueVars
<1>2. cyc \in Cycle
  BY DEF TypeOK
<1>3. CASE \E x \in Nodes, seen \in BOOLEAN : FilterAddNode(x, seen)
  <2>1. /\ pc = "filter" /\ pc' = "drain"
        /\ \E x, seen, todo : cyc' = [cyc EXCEPT !.todo = todo, !.node = x, !.seen = seen]
    BY <1>3, Zenon DEF FilterAddNode
  <2>2. cyc'.pod = cyc.pod
    BY <1>2, <2>1 DEF Cycle
  <2> QED BY <1>0, <1>1, <2>1, <2>2, QuietLife DEF Choosing, Replacing
<1>4. CASE \E l \in Leaves : TakeCell(l)
  <2>1. PICK l \in Leaves : TakeCell(l)
    BY <1>4
  <2>2. pc = "take" /\ pc' = IF cyc.left = {l} THEN "delete" ELSE "take"
    BY <2>1, Zenon DEF TakeCell
  <2>3. cyc' = [cyc EXCEPT !.left = @ \ {l}, !.copy.memory = @ + freeMem[l]]
    BY <2>1, Zenon DEF TakeCell
  <2>4. cyc'.pod = cyc.pod
    BY <1>2, <2>3 DEF Cycle
  <2> QED BY <1>0, <1>1, <2>2, <2>4, QuietLife DEF Choosing, Replacing
<1>5. CASE ReserveCreateFails
  <2>1. pc = "create" /\ pc' = "setuid" /\ cyc'.pod = cyc.pod /\ cyc'.newUid = 0
    BY <1>2, <1>5 DEF ReserveCreateFails, Cycle
  <2> QED BY <1>0, <1>1, <2>1, QuietLife DEF Choosing, Replacing
<1> QED BY <1>3, <1>4, <1>5

(* The deletion of the original pod finds no uid in the status. *)
LEMMA ReserveDeleteLife ==
  ASSUME TypeOK, LifeInv, ReserveDelete
  PROVE  LifeInv'
<1> DEFINE n == cyc.pod.name
<1>0. OrderInv /\ AdditionsLast /\ MemoryInv /\ OrderInv'
  BY LifeParts, ReplaceOrder
<1>1. /\ pc = "delete" /\ pc' = "create" /\ n \in Names
      /\ UNCHANGED <<born, cyc, status, boundQ>>
  BY CycleNames DEF ReserveDelete, Replacing
<1>2. CASE api[n] = NoPod
  <2>1. UNCHANGED <<api, events>>
    BY <1>2 DEF ReserveDelete
  <2> QED BY <1>0, <1>1, <2>1, QuietLife DEF Choosing, Replacing
<1>3. CASE api[n] # NoPod
  <2>1. PICK e \in EventSet : events' = Append(events, e) /\ e.type = "delete"
    <3>1. Event("delete", api[n]) \in EventSet /\ Event("delete", api[n]).type = "delete"
      BY <1>1, <1>3 DEF TypeOK, Event, EventSet
    <3> QED BY <1>3, <3>1 DEF ReserveDelete
  <2>2. Pending' = Pending \cup {e} /\ AdditionsLast' /\ ~ Shadow(e)
    BY <1>0, <2>1, AppendLast DEF Shadow
  <2>3. api'[n] = NoPod
    BY <1>1, <1>3 DEF ReserveDelete, TypeOK
  <2>4. ShadowsKnown'
    BY <1>0, <1>1, <2>2, ByPending, ByPendingNext DEF MemoryInv
  <2>5. /\ NothingToAccount' /\ NotYetBound' /\ LaterThanShadows' /\ KeptWhileReplaced'
        /\ UidsKnown' /\ ShadowIsBound' /\ PodInHand' /\ StatusInHand'
    BY <1>0, <1>1, <2>3
       DEF MemoryInv, NothingToAccount, NotYetBound, LaterThanShadows, KeptWhileReplaced,
           UidsKnown, ShadowIsBound, PodInHand, StatusInHand, Choosing, Replacing
  <2> QED BY <1>0, <2>2, <2>4, <2>5 DEF LifeInv
<1> QED BY <1>2, <1>3

(* The shadow pod is the last incarnation of a name whose status has no uid. *)
LEMMA ReserveCreateLife ==
  ASSUME TypeOK, LifeInv, ReserveCreate
  PROVE  LifeInv'
<1> DEFINE n == cyc.pod.name
           shadow == [cyc.copy EXCEPT !.uid = born[n] + 1]
<1>0. OrderInv /\ AdditionsLast /\ MemoryInv /\ OrderInv'
  BY LifeParts, ReplaceOrder
<1>1. /\ pc = "create" /\ pc' = "setuid" /\ n \in Names /\ born[n] \in Nat
      /\ UNCHANGED <<status, boundQ>> /\ cyc \in Cycle
  BY CycleNames DEF ReserveCreate, Replacing, TypeOK
<1>2. cyc' = [cyc EXCEPT !.newUid = born[n] + 1] /\ born' = [born EXCEPT ![n] = @ + 1]
      /\ api' = [api EXCEPT ![n] = shadow] /\ events' = Append(events, Event("add", shadow))
  BY DEF ReserveCreate
<1>3. /\ cyc.copy \in Pod /\ cyc.copy.name = n /\ isBound(cyc.copy)
      /\ status[n] # NoStatus /\ status[n].uid = 0
  BY <1>0, <1>1
     DEF MemoryInv, OrderInv, CopyOfThePod, KeptWhileReplaced, Replacing, TypeOK
<1>4. /\ shadow \in Pod /\ shadow.name = n /\ shadow.uid = born[n] + 1 /\ isBound(shadow)
  <2>1. born[n] + 1 \in Nat \ {0}
    BY <1>1
  <2> QED BY <1>3, <2>1 DEF Pod, isBound
<1>5. PICK e \in EventSet : e = Event("add", shadow) /\ e.type = "add" /\ e.pod = shadow
  <2>1. \A p \in Pod : /\ Event("add", p) \in EventSet
                      /\ Event("add", p).type = "add" /\ Event("add", p).pod = p
    BY DEF Event, EventSet
  <2> HIDE DEF shadow
  <2> QED BY <1>4, <2>1
<1>6. cyc'.pod = cyc.pod /\ cyc'.newUid = born[n] + 1
  BY <1>1, <1>2 DEF Cycle
<1>7. /\ born'[n] = born[n] + 1 /\ api'[n] = shadow
      /\ \A m \in Names : m # n => born'[m] = born[m]
  BY <1>1, <1>2 DEF TypeOK
<1> HIDE DEF shadow
<1>8. Pending' = Pending \cup {e} /\ AdditionsLast'
  BY <1>0, <1>2, <1>4, <1>5, AppendLast
<1>9. ShadowsKnown'
  BY <1>0, <1>1, <1>3, <1>4, <1>5, <1>8, ByPending, ByPendingNext DEF MemoryInv
<1>10. LaterThanShadows'
  <2>1. \A f \in Pending' : f.pod.name = n => f.pod.uid <= born[n] + 1
    <3>1. \A f \in Pending : f.pod.uid <= born[f.pod.name] /\ f.pod.uid \in Nat
      BY <1>0, PendingType DEF EventSet, Pod
    <3> QED BY <1>1, <1>4, <1>5, <1>8, <3>1
  <2> QED BY <1>1, <1>6, <2>1, ByPendingNext DEF LaterThanShadows, Choosing
<1>11. UidsKnown'
  BY <1>0, <1>1, <1>6, <1>7, CycleNames DEF MemoryInv, UidsKnown, Choosing, Replacing
<1>12. /\ NothingToAccount' /\ NotYetBound' /\ KeptWhileReplaced' /\ ShadowIsBound'
       /\ PodInHand' /\ StatusInHand'
  BY <1>0, <1>1, <1>3, <1>4, <1>6, <1>7
     DEF MemoryInv, NothingToAccount, NotYetBound, KeptWhileReplaced, ShadowIsBound,
         PodInHand, StatusInHand, Choosing, Replacing, isBound
<1> QED BY <1>0, <1>8, <1>9, <1>10, <1>11, <1>12 DEF LifeInv

(* The uid assigned at last is that of the shadow pod, so every addition     *)
(* still finds the status of its pod, or of a later one.                     *)
LEMMA ReserveSetUidLife ==
  ASSUME TypeOK, LifeInv, ReserveSetUid
  PROVE  LifeInv'
<1> DEFINE n == cyc.pod.name
<1>0. OrderInv /\ AdditionsLast /\ MemoryInv /\ OrderInv'
  BY LifeParts, CycleOrder
<1>1. /\ pc = "setuid" /\ pc' = "idle" /\ n \in Names
      /\ UNCHANGED <<api, born, events, boundQ>>
  BY CycleNames DEF ReserveSetUid, apiVars, queueVars
<1>2. status[n] # NoStatus /\ status[n] \in PodStatus /\ status[n].uid = 0
  BY <1>0, <1>1, CycleNames DEF MemoryInv, KeptWhileReplaced
<1>3. /\ status'[n] # NoStatus /\ status'[n].uid \in {0, cyc.newUid}
      /\ \A m \in Names : m # n => status'[m] = status[m]
  <2>1. CASE UNCHANGED status
    BY <1>2, <2>1
  <2>2. CASE status' = [status EXCEPT ![n].uid = cyc.newUid]
    <3>1. cyc.newUid \in Nat
      BY CycleNames
    <3>2. PICK ps \in PodStatus : ps = [status[n] EXCEPT !.uid = cyc.newUid] /\ ps.uid = cyc.newUid
      <4>1. [status[n] EXCEPT !.uid = cyc.newUid] \in PodStatus
        BY <1>2, <3>1 DEF PodStatus
      <4>2. [status[n] EXCEPT !.uid = cyc.newUid].uid = cyc.newUid
        BY <1>2 DEF PodStatus
      <4> QED BY <4>1, <4>2
    <3>3. status' = [status EXCEPT ![n] = ps]
      BY <2>2, <3>2
    <3> QED BY <1>1, <3>2, <3>3, AbsenceAssumption DEF TypeOK
  <2> QED BY <2>1, <2>2 DEF ReserveSetUid
<1>4. Pending' = Pending /\ Pending \subseteq EventSet
  BY <1>0, <1>1, PendingType DEF Pending
<1>5. ShadowsKnown'
  <2> SUFFICES ASSUME NEW f \in Pending, Shadow(f)
               PROVE  /\ status'[f.pod.name] # NoStatus
                      /\ status'[f.pod.name].uid = 0 \/ f.pod.uid <= status'[f.pod.name].uid
    BY <1>4, ByPendingNext
  <2>1. f.pod.name \in Names
    BY <1>4 DEF EventSet, Pod
  <2>2. CASE f.pod.name = n
    <3>1. cyc.newUid # 0 => f.pod.uid <= cyc.newUid
      BY <1>0, <1>1, <2>2, ByPending DEF MemoryInv, LaterThanShadows
    <3> QED BY <1>3, <2>2, <3>1
  <2>3. CASE f.pod.name # n
    BY <1>0, <1>3, <2>1, <2>3, ByPending DEF MemoryInv
  <2> QED BY <2>2, <2>3
<1>6. UidsKnown'
  BY <1>0, <1>1, <1>3, CycleNames DEF MemoryInv, UidsKnown, Choosing, Replacing
<1>7. /\ AdditionsLast' /\ NothingToAccount' /\ NotYetBound' /\ LaterThanShadows'
      /\ KeptWhileReplaced' /\ ShadowIsBound' /\ PodInHand' /\ StatusInHand'
  BY <1>0, <1>1
     DEF MemoryInv, AdditionsLast, NothingToAccount, NotYetBound, LaterThanShadows,
         KeptWhileReplaced, ShadowIsBound, PodInHand, StatusInHand, Choosing, Replacing,
         NameOf, UidOf
<1> QED BY <1>0, <1>5, <1>6, <1>7 DEF LifeInv

(* The queue of bound pods is empty. *)
LEMMA NeverABoundPod ==
  ASSUME TypeOK, LifeInv PROVE ~ FilterBoundPod
<1> SUFFICES ASSUME FilterBoundPod PROVE FALSE
  OBVIOUS
<1>1. pc = "drain" /\ boundQ[cyc.node] # <<>>
  BY Zenon DEF FilterBoundPod
<1> QED BY <1>1 DEF LifeInv, NothingToAccount, TypeOK

(* Every step of one life of the process keeps LifeInv.  FilterBoundPod      *)
(* never comes: addPod finds a status for each bound pod it is told of.      *)
THEOREM LifeStep ==
  ASSUME OriginalsStay PROVE TypeOK /\ LifeInv /\ [LifeNext]_vars => LifeInv'
<1> SUFFICES ASSUME TypeOK, LifeInv, [LifeNext]_vars PROVE LifeInv'
  OBVIOUS
<1>1. CASE Environment
  BY <1>1, EnvironmentLife DEF Environment
<1>2. CASE Informer
  BY <1>2, InformerLife
<1>3. CASE \E n \in Names : PreFilter(n)
  BY <1>3, PreFilterLife
<1>4. CASE InCycle
  <2>1. ~ FilterBoundPod
    BY Zenon, NeverABoundPod
  <2> QED
    BY <1>4, <2>1, StepsOfACycle, FilterDecideLife, ReserveSelectLife, LookUpAgainLife,
       AssumeLife, ReserveDeleteLife, ReserveCreateLife, ReserveSetUidLife DEF InCycle
<1>5. CASE UNCHANGED vars
  BY <1>5, SameLife DEF vars, apiVars
<1> QED BY <1>1, <1>2, <1>3, <1>4, <1>5 DEF LifeNext

(* In one life of the process, if users leave the pod alone that a cycle has *)
(* in hand up to its deletion by Reserve, the informer never takes a         *)
(* deletion of an earlier pod, or of the pod being replaced, for the end of  *)
(* the pod whose status deletePod finds, and addPod never queues a pod of    *)
(* this life.                                                                *)
THEOREM LifeCorrect ==
  ASSUME OriginalsStay PROVE LifeSpec => [](TypeOK /\ LifeInv)
<1>1. LifeSpec => []TypeOK
  BY LifeIsSpec, TypeCorrect, PTL
<1> QED BY <1>1, LifeInit, LifeStep, PTL DEF LifeSpec

(* A pod its user wants is never lost, as long as the process lives and the  *)
(* API server creates the shadow pods Reserve asks for: nobody but the user  *)
(* and Reserve deletes a pod, and Reserve does not end without one of its    *)
(* name, be it another that the user created in between.                     *)
THEOREM PodNeverLost ==
  ASSUME MaxCreateErrors = 0 PROVE LifeSpec => []PodKept
<1>1. Init => PodKept
  BY DEF Init, PodKept
<1>2. TypeOK /\ PodKept /\ [LifeNext]_vars => PodKept'
  <2> SUFFICES ASSUME TypeOK, PodKept, [LifeNext]_vars PROVE PodKept'
    OBVIOUS
  <2>1. ASSUME NEW n \in Names, (\E s \in Specs : UserCreate(n, s)) \/ UserDelete(n) \/ Finish(n)
        PROVE  PodKept'
    <3>1. UNCHANGED <<pc, cyc>>
      BY <2>1 DEF UserCreate, UserDelete, Finish
    <3>2. /\ \A m \in Names : m # n => api'[m] = api[m]
          /\ wanted' \subseteq wanted \cup {n}
          /\ n \in wanted' => api'[n] # NoPod
      <4>1. ASSUME NEW s \in Specs, UserCreate(n, s)
            PROVE  /\ api' = [api EXCEPT ![n] = NewPod(n, s)] /\ wanted' = wanted \cup {n}
                   /\ NewPod(n, s) # NoPod
        <5>1. NewPod(n, s) \in Pod
          <6>1. born[n] \in Nat
            BY <2>1 DEF TypeOK
          <6> QED BY <2>1, <4>1, <6>1 DEF NewPod, Pod, Ports
        <5> QED BY <4>1, <5>1, AbsenceAssumption DEF UserCreate
      <4> QED BY <2>1, <4>1 DEF UserDelete, Finish, TypeOK
    <3> QED BY <3>1, <3>2 DEF PodKept, TypeOK
  <2>2. CASE ReserveDelete
    BY <2>2 DEF ReserveDelete, PodKept, TypeOK
  <2>3. CASE ReserveCreate
    <3>1. PICK shadow : /\ shadow = [cyc.copy EXCEPT !.uid = born[cyc.pod.name] + 1]
                        /\ api' = [api EXCEPT ![cyc.pod.name] = shadow]
      BY <2>3 DEF ReserveCreate
    <3>2. cyc.copy \in Pod /\ cyc.pod.name \in Names /\ born[cyc.pod.name] \in Nat
      BY <2>3 DEF ReserveCreate, TypeOK, Pod
    <3>3. shadow \in Pod
      BY <3>1, <3>2 DEF Pod
    <3>4. shadow # NoPod /\ UNCHANGED wanted
      BY <2>3, <3>3, AbsenceAssumption DEF ReserveCreate
    <3> QED BY <3>1, <3>2, <3>4 DEF PodKept, TypeOK
  <2>4. CASE ReserveCreateFails
    BY <2>4 DEF ReserveCreateFails, PodKept, TypeOK, apiVars
  <2>5. CASE Informer \/ (\E n \in Names : PreFilter(n)) \/ UNCHANGED vars
    <3>1. UNCHANGED apiVars
      BY <2>5, Zenon DEF Informer, HandleAdd, HandleUpdate, HandleDelete, UnmaskEnded,
                         ReclaimCell, PreFilter, vars
    <3>2. pc = "create" => UNCHANGED <<pc, cyc>>
      BY <2>5, Zenon DEF Informer, HandleAdd, HandleUpdate, HandleDelete, UnmaskEnded,
                         ReclaimCell, PreFilter, vars
    <3> QED BY <3>1, <3>2 DEF PodKept, apiVars
  <2>6. CASE InCycle /\ ~ (ReserveDelete \/ ReserveCreate \/ ReserveCreateFails)
    <3>1. UNCHANGED apiVars /\ pc \in {"filter", "drain", "select", "assume", "empty",
                                      "take", "setuid"}
      BY <2>6, Zenon DEF InCycle, FilterAddNode, ReserveSelect, TakeCell, FilterBoundPod,
                         FilterDecide, LookUpAgain, AssumeSharedPod, AssumeMultiPod,
                         ReserveSetUid
    <3> QED BY <3>1 DEF PodKept, apiVars
  <2> QED BY <2>1, <2>2, <2>3, <2>4, <2>5, <2>6 DEF LifeNext, Environment
<1>3. LifeSpec => []TypeOK
  BY LifeIsSpec, TypeCorrect, PTL
<1> QED BY <1>1, <1>2, <1>3, PTL DEF LifeSpec

===============================================================================
