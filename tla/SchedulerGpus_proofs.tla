-------------------------- MODULE SchedulerGpus_proofs --------------------------
(***************************************************************************)
(* In one life of the scheduler process no GPU is handed out twice, and no *)
(* memory of one: the amounts that the statuses hold of a GPU and what is  *)
(* left of it make up the GPU.  Hence the scheduler implements the promise *)
(* of GpuAllocator.                                                        *)
(***************************************************************************)
EXTENDS SchedulerAccounts_proofs

(* Appending an event adds it to those still to handle, and no other. *)
LEMMA PendingAppend ==
  ASSUME TypeOK, NEW e \in EventSet, events' = Append(events, e)
  PROVE  Pending' \subseteq Pending \cup {e}
<1>1. events \in Seq(EventSet)
  BY DEF TypeOK, EventSet
<1>2. \A i \in DOMAIN events' :
        events'[i] = e \/ (i \in DOMAIN events /\ events'[i] = events[i])
  BY <1>1, AppendEvent
<1> QED BY <1>2 DEF Pending

(* What a step may do to the API server: it ends the pod of one name, or     *)
(* gives the name a new one.                                                 *)
PodEnds(n, e) == /\ e.type # "add" /\ e.pod.name = n
                 /\ \/ api'[n] = NoPod
                    \/ isBound(api'[n]) /\ isCompleted(api'[n])
PodBegins(n, e) == /\ e.type = "add" /\ e.pod.name = n /\ api'[n] = e.pod
                   /\ api'[n].uid > born[n]

(* Users and kubelets change the pod of one name, and say so in an event. *)
LEMMA EnvironmentApi ==
  ASSUME TypeOK, LifeInv, NEW n \in Names,
         (\E s \in Specs : UserCreate(n, s)) \/ UserDelete(n) \/ Finish(n)
  PROVE  \E e \in EventSet :
           /\ Pending' \subseteq Pending \cup {e}
           /\ \A m \in Names : m # n => api'[m] = api[m]
           /\ PodEnds(n, e) \/ (PodBegins(n, e) /\ ~ isBound(api'[n]))
<1>0. LatestInApi /\ born[n] \in Nat /\ api \in [Names -> Pod \cup {NoPod}]
  BY DEF LifeInv, OrderInv, TypeOK
<1>1. ASSUME NEW s \in Specs, UserCreate(n, s)
      PROVE  \E e \in EventSet :
               /\ events' = Append(events, e)
               /\ \A m \in Names : m # n => api'[m] = api[m]
               /\ PodBegins(n, e) /\ ~ isBound(api'[n])
  <2>1. PICK pod \in Pod : pod = NewPod(n, s)
    <3>1. NewPod(n, s) \in Pod
      BY DEF NewPod, Pod, Ports, TypeOK
    <3> QED BY <3>1
  <2>2. pod.name = n /\ pod.uid = born[n] + 1 /\ pod.node = NoNode /\ pod.phase = "Active"
    BY <2>1 DEF NewPod
  <2>3. Event("add", pod) \in EventSet /\ Event("add", pod).type = "add"
        /\ Event("add", pod).pod = pod
    BY DEF Event, EventSet
  <2>4. api' = [api EXCEPT ![n] = pod] /\ events' = Append(events, Event("add", pod))
    BY <1>1, <2>1 DEF UserCreate
  <2>5. api'[n] = pod /\ pod.uid > born[n] /\ \A m \in Names : m # n => api'[m] = api[m]
    BY <1>0, <2>2, <2>4
  <2>6. PodBegins(n, Event("add", pod)) /\ ~ isBound(api'[n])
    BY <2>2, <2>3, <2>5 DEF PodBegins, isBound
  <2> QED BY <2>3, <2>4, <2>5, <2>6
<1>2. CASE UserDelete(n)
  <2>1. PICK pod \in Pod : pod = api[n]
    BY <1>0, <1>2 DEF UserDelete
  <2>2. Event("delete", pod) \in EventSet /\ Event("delete", pod).type = "delete"
        /\ Event("delete", pod).pod = pod
    BY DEF Event, EventSet
  <2>3. pod.name = n
    BY <1>0, <1>2, <2>1 DEF UserDelete, LatestInApi
  <2>4. PodEnds(n, Event("delete", pod)) /\ \A m \in Names : m # n => api'[m] = api[m]
    BY <1>0, <1>2, <2>2, <2>3 DEF UserDelete, PodEnds
  <2> QED BY <1>2, <2>1, <2>2, <2>4, PendingAppend DEF UserDelete
<1>3. CASE Finish(n)
  <2>1. api[n] \in Pod /\ isBound(api[n]) /\ api[n].name = n
    BY <1>0, <1>3 DEF Finish, Alive, LatestInApi
  <2>2. PICK pod \in Pod : pod = [api[n] EXCEPT !.phase = "Done"] /\ pod.node = api[n].node
                           /\ pod.phase = "Done" /\ pod.name = n
    <3>1. [api[n] EXCEPT !.phase = "Done"] \in Pod
      BY <2>1 DEF Pod
    <3> QED BY <2>1, <3>1 DEF Pod
  <2>3. Event("update", pod) \in EventSet /\ Event("update", pod).type = "update"
        /\ Event("update", pod).pod = pod
    BY DEF Event, EventSet
  <2>4. api' = [api EXCEPT ![n] = pod] /\ events' = Append(events, Event("update", pod))
    BY <1>3, <2>2 DEF Finish
  <2>5. PodEnds(n, Event("update", pod)) /\ \A m \in Names : m # n => api'[m] = api[m]
    BY <1>0, <2>1, <2>2, <2>3, <2>4 DEF PodEnds, isBound, isCompleted
  <2> QED BY <2>3, <2>4, <2>5, PendingAppend
<1> QED BY <1>1, <1>2, <1>3, PendingAppend

-----------------------------------------------------------------------------
(* The parts of PlaceInv that say nothing of what is left of the leaves. *)
HandInv == StatusAsAsked /\ StatusOfSpecs /\ GpusOfTheAlive /\ GpusOfTheCopy

(* PlaceInv in the two parts its proof treats apart. *)
LEMMA PlaceParts == PlaceInv <=> HandInv /\ ChosenCells /\ CellsToTake
  BY DEF PlaceInv, HandInv

(* Users and kubelets: a new pod has no status yet. *)
LEMMA EnvironmentHand ==
  ASSUME TypeOK, LifeInv, HandInv, NEW n \in Names,
         (\E s \in Specs : UserCreate(n, s)) \/ UserDelete(n) \/ Finish(n)
  PROVE  HandInv'
<1>0. LatestInApi /\ MemoryInv /\ LatestInApi'
  BY LifeParts, EnvironmentOrder DEF LifeInv, OrderInv
<1>1. UNCHANGED <<pc, cyc, status, hpc, ending>>
  BY DEF UserCreate, UserDelete, Finish, endVars
<1>2. PICK e \in EventSet :
        /\ \A m \in Names : m # n => api'[m] = api[m]
        /\ PodEnds(n, e) \/ (PodBegins(n, e) /\ ~ isBound(api'[n]))
  BY EnvironmentApi
<1>3. \/ api'[n] = NoPod
      \/ isBound(api'[n]) /\ isCompleted(api'[n])
      \/ ~ isBound(api'[n]) /\ api'[n].uid > born[n]
  BY <1>2 DEF PodEnds, PodBegins
<1>5. /\ born[n] \in Nat
      /\ \A m \in Names : status[m] # NoStatus => status[m].uid \in Nat /\ status[m].uid <= born[m]
  BY <1>0, CycleNames DEF MemoryInv, UidsKnown
<1>7. StatusAsAsked'
  <2>1. ASSUME NEW m \in Names, api'[m] # NoPod, ~ isBound(api'[m]),
               status[m] # NoStatus, status[m].uid = api'[m].uid
        PROVE  status[m].request = api'[m].spec.request /\ status[m].memory = api'[m].spec.memory
    <3>1. m # n
      BY <1>3, <1>5, <2>1
    <3> QED BY <1>0, <1>2, <2>1, <3>1 DEF HandInv, StatusAsAsked, HasStatus, LatestInApi
  <2>2. \A m \in Names : api'[m] # NoPod => api'[m].name = m
    BY <1>0 DEF LatestInApi
  <2> QED BY <1>1, <2>1, <2>2 DEF HandInv, StatusAsAsked, HasStatus
<1>8. StatusOfSpecs' /\ GpusOfTheCopy'
  BY <1>1 DEF HandInv, StatusOfSpecs, GpusOfTheCopy, StatusOf
<1>9. GpusOfTheAlive'
  <2>1. \A m \in Names : Alive(m)' => m # n /\ Alive(m) /\ api'[m] = api[m]
    BY <1>2, <1>3 DEF Alive
  <2> QED BY <1>1, <2>1 DEF HandInv, GpusOfTheAlive, StatusOf
<1> QED BY <1>7, <1>8, <1>9 DEF HandInv

(* The informer drops statuses, of pods that have ended and are in no cycle. *)
LEMMA InformerHand ==
  ASSUME TypeOK, LifeInv, HandInv, Informer
  PROVE  HandInv'
<1>0. LatestInApi
  BY DEF LifeInv, OrderInv
<1>1. CASE HandlesEvent /\ ~ UNCHANGED <<status, endVars>>
  <2>1. UNCHANGED <<api, pc, cyc>>
    BY <1>1, HandlerEffect DEF apiVars
  <2>2. PICK n \in Names :
          /\ status[n] \in PodStatus
          /\ ~ (NotEnded(n) /\ api[n].uid = status[n].uid)
          /\ pc \in Choosing \cup Replacing \cup {"setuid"} => cyc.pod.name # n
          /\ status' = [status EXCEPT ![n] = NoStatus]
          /\ IF MultiGPU(status[n].request) THEN Reclaiming(status[n])
             ELSE hpc' = "unmask" /\ ending' = status[n]
    BY <1>1, HandlerEffect
  <2>3. status'[n] = NoStatus /\ \A m \in Names : m # n => status'[m] = status[m]
    BY <2>2 DEF TypeOK
  <2>4. StatusAsAsked'
    <3>1. \A m \in Names : status'[m] # NoStatus => status'[m] = status[m]
      BY <2>3
    <3>2. \A m \in Names : api[m] # NoPod => api[m].name = m
      BY <1>0 DEF LatestInApi
    <3>3. pc \in Choosing => status'[cyc.pod.name] = status[cyc.pod.name]
      BY <2>2, <2>3, CycleNames
    <3> QED BY <2>1, <3>1, <3>2, <3>3 DEF HandInv, StatusAsAsked, HasStatus
  <2>5. StatusOfSpecs'
    <3>1. \E s \in Specs : status[n].request = s.request
      BY <2>2, AbsenceAssumption DEF HandInv, StatusOfSpecs
    <3>2. hpc' # "ready" => ending' = status[n]
      BY <2>2 DEF Reclaiming
    <3> QED BY <2>3, <3>1, <3>2 DEF HandInv, StatusOfSpecs
  <2>6. GpusOfTheAlive'
    <3> SUFFICES ASSUME NEW m \in Names, Alive(m)
                 PROVE  status'[m] = status[m]
      BY <2>1 DEF HandInv, GpusOfTheAlive, StatusOf, Alive
    <3>1. \/ status[m].uid = api[m].uid
          \/ pc = "setuid" /\ cyc.pod.name = m
      BY DEF HandInv, GpusOfTheAlive
    <3>2. m # n
      BY <2>2, <3>1 DEF Alive, NotEnded
    <3> QED BY <2>3, <3>2
  <2>7. GpusOfTheCopy'
    <3>1. pc \in Replacing => cyc.pod.name \in Names /\ status'[cyc.pod.name] = status[cyc.pod.name]
      BY <2>2, <2>3, CycleNames
    <3> QED BY <2>1, <3>1 DEF HandInv, GpusOfTheCopy, StatusOf
  <2> QED BY <2>4, <2>5, <2>6, <2>7 DEF HandInv
<1>2. CASE \/ HandlesEvent /\ UNCHANGED <<status, endVars>>
           \/ UnmaskEnded \/ \E l \in Leaves : ReclaimCell(l)
  <2>1. UNCHANGED <<api, pc, cyc, status>>
    BY <1>2, HandlerEffect DEF apiVars, UnmaskEnded, ReclaimCell
  <2>2. hpc' # "ready" => hpc # "ready" /\ ending'.request = ending.request
    <3>1. CASE UNCHANGED <<status, endVars>>
      BY <3>1 DEF endVars
    <3>2. CASE UnmaskEnded
      BY <3>2 DEF UnmaskEnded, Reclaiming
    <3>3. CASE \E l \in Leaves : ReclaimCell(l)
      <4>1. PICK l \in Leaves : /\ hpc = "reclaim"
                                 /\ Reclaiming([ending EXCEPT !.cells = @ \ {l}])
        BY <3>3 DEF ReclaimCell
      <4>2. ending \in PodStatus
        BY <4>1 DEF TypeOK
      <4>3. [ending EXCEPT !.cells = @ \ {l}].request = ending.request
        BY <4>2 DEF PodStatus
      <4> QED BY <4>1, <4>3 DEF Reclaiming
    <3> QED BY <1>2, <3>1, <3>2, <3>3
  <2> QED BY <2>1, <2>2
          DEF HandInv, StatusAsAsked, StatusOfSpecs, GpusOfTheAlive, GpusOfTheCopy,
              StatusOf, Alive, HasStatus
<1> QED BY <1>1, <1>2 DEF Informer, HandlesEvent

(* getPodLabels returns what the pod asks for, until it is bound. *)
LEMMA LabelsAsAsked ==
  ASSUME TypeOK, HandInv, NEW pod \in Pod, api[pod.name] = pod, ~ isBound(pod)
  PROVE  /\ GetPodLabels(pod).request = pod.spec.request
         /\ GetPodLabels(pod).memory = pod.spec.memory
<1>1. pod # NoPod /\ pod.name \in Names
  BY AbsenceAssumption DEF Pod
<1>2. HasStatus(pod) => /\ status[pod.name].request = pod.spec.request
                        /\ status[pod.name].memory = pod.spec.memory
  BY <1>1 DEF HandInv, StatusAsAsked
<1> QED BY <1>2 DEF GetPodLabels

(* A step of a cycle that writes the status of its pod. *)
LEMMA WritesHand ==
  ASSUME TypeOK, LatestInApi, HandInv, pc # "setuid",
         NEW pod \in Pod, InHand(pod), pod.spec \in Specs,
         NEW ps \in PodStatus, ps.uid \in {0, pod.uid},
         ps.request = pod.spec.request, ps.uid # 0 => ps.memory = pod.spec.memory,
         status' = [status EXCEPT ![pod.name] = ps], UNCHANGED <<api, hpc>>,
         hpc # "ready" => ending'.request = ending.request,
         pc' \in Choosing => cyc'.pod = pod /\ ps.uid = pod.uid,
         pc' \in Replacing => /\ cyc'.pod = pod /\ cyc'.same
                              /\ cyc'.copy.gpus = ps.cells /\ cyc'.copy.spec = pod.spec
                              /\ ~ MultiGPU(pod.spec.request) => cyc'.copy.memory = ps.memory
  PROVE  HandInv'
<1>1. /\ pod.name \in Names /\ pod.uid # 0 /\ status'[pod.name] = ps /\ ps # NoStatus
      /\ \A m \in Names : m # pod.name => status'[m] = status[m]
  BY AbsenceAssumption DEF Pod, TypeOK
<1>3. StatusAsAsked'
  <2>1. ASSUME NEW m \in Names, api[m] # NoPod, ~ isBound(api[m]),
               status'[m] # NoStatus, status'[m].uid = api[m].uid
        PROVE  status'[m].request = api[m].spec.request /\ status'[m].memory = api[m].spec.memory
    <3>1. CASE m # pod.name
      BY <1>1, <2>1, <3>1 DEF HandInv, StatusAsAsked, HasStatus, LatestInApi
    <3>2. CASE m = pod.name
      <4>1. api[m].uid # 0
        BY <2>1 DEF TypeOK, Pod
      <4>2. ps.uid = pod.uid /\ ps.uid # 0 /\ api[m] = pod
        BY <1>1, <2>1, <3>2, <4>1 DEF InHand
      <4> QED BY <1>1, <3>2, <4>2
    <3> QED BY <3>1, <3>2
  <2>2. pc' \in Choosing =>
          /\ status'[cyc'.pod.name].request = cyc'.pod.spec.request
          /\ status'[cyc'.pod.name].memory = cyc'.pod.spec.memory
    BY <1>1
  <2>3. \A m \in Names : api[m] # NoPod => api[m].name = m
    BY DEF LatestInApi
  <2> QED BY <2>1, <2>2, <2>3 DEF StatusAsAsked, HasStatus
<1>4. StatusOfSpecs'
  BY <1>1 DEF HandInv, StatusOfSpecs
<1>5. GpusOfTheAlive'
  <2>1. \A m \in Names : Alive(m) => m # pod.name
    BY DEF Alive, InHand
  <2> QED BY <1>1, <2>1 DEF HandInv, GpusOfTheAlive, StatusOf, Alive
<1>6. GpusOfTheCopy'
  BY <1>1 DEF GpusOfTheCopy, StatusOf
<1> QED BY <1>3, <1>4, <1>5, <1>6 DEF HandInv

(* The pod of a cycle, as WritesHand takes it. *)
LEMMA ChosenPod ==
  ASSUME TypeOK, LifeInv, HandInv, pc \in Choosing
  PROVE  /\ LatestInApi /\ cyc.pod \in Pod /\ InHand(cyc.pod) /\ cyc.pod.spec \in Specs
         /\ GetPodLabels(cyc.pod) = status[cyc.pod.name] /\ HasStatus(cyc.pod)
         /\ status[cyc.pod.name] \in PodStatus /\ status[cyc.pod.name].uid = cyc.pod.uid
         /\ status[cyc.pod.name].request = cyc.pod.spec.request
         /\ status[cyc.pod.name].memory = cyc.pod.spec.memory
  BY ChosenInHand DEF LifeInv, OrderInv, Pod, HasStatus, HandInv, StatusAsAsked

(* Up to the choice of its cells the pod of a cycle keeps what it asks for. *)
LEMMA ChoosingHand ==
  ASSUME TypeOK, LifeInv, HandInv,
         \/ \E n \in Names : PreFilter(n)
         \/ FilterDecide \/ \E x \in Nodes : ReserveSelect(x)
  PROVE  HandInv'
<1>0. /\ LatestInApi /\ UNCHANGED <<api, hpc, ending>> /\ pc # "setuid"
      /\ pc' \notin Replacing
  BY DEF PreFilter, FilterDecide, ReserveSelect, Panic, Replacing, apiVars, queueVars, endVars,
         LifeInv, OrderInv
<1>1. CASE \E n \in Names : PreFilter(n)
  <2>1. PICK n \in Names : PreFilter(n)
    BY <1>1
  <2>2. PICK pod \in Pod : pod = api[n]
    BY <2>1 DEF PreFilter, TypeOK
  <2>3. pod.name = n /\ pod.uid = born[n] /\ ~ isBound(pod) /\ api[n] # NoPod
        /\ pod.spec \in Specs
    BY <1>0, <2>1, <2>2 DEF PreFilter, LatestInApi, Pod
  <2>4. InHand(pod)
    <3>1. ShadowsUpTo(n, born[n])
      BY PendingType, ByPending DEF LifeInv
    <3> QED BY <2>2, <2>3, <3>1, CycleNames DEF InHand
  <2>5. PICK ps \in PodStatus : ps = GetPodLabels(pod) /\ ps.uid = pod.uid
    BY LabelsUid
  <2>6. ps.request = pod.spec.request /\ ps.memory = pod.spec.memory
    BY <1>0, <2>2, <2>3, <2>5, LabelsAsAsked
  <2>7. status' = [status EXCEPT ![pod.name] = ps] /\ cyc'.pod = pod
    BY <2>1, <2>2, <2>3, <2>5 DEF PreFilter, IdleCycle
  <2> QED BY <1>0, <2>2, <2>3, <2>4, <2>5, <2>6, <2>7, WritesHand
<1>2. CASE FilterDecide \/ \E x \in Nodes : ReserveSelect(x)
  <2>1. pc \in Choosing /\ cyc \in Cycle
    BY <1>2 DEF FilterDecide, ReserveSelect, Choosing, TypeOK
  <2>2. PICK pod \in Pod : pod = cyc.pod /\ InHand(pod) /\ pod.spec \in Specs
    BY <2>1, ChosenPod
  <2>3. PICK old \in PodStatus : old = GetPodLabels(pod)
    BY LabelsUid
  <2>4. /\ old.uid = pod.uid /\ old.request = pod.spec.request /\ old.memory = pod.spec.memory
    BY <2>1, <2>2, <2>3, ChosenPod
  <2>5. PICK ps \in PodStatus :
          /\ status' = [status EXCEPT ![pod.name] = ps] /\ ps.uid = old.uid
          /\ ps.request = old.request /\ ps.memory = old.memory
    <3>1. CASE FilterDecide
      BY <2>2, <2>3, <3>1 DEF FilterDecide
    <3>2. CASE \E x \in Nodes : ReserveSelect(x)
      <4>1. PICK x \in Nodes : ReserveSelect(x)
        BY <3>2
      <4> DEFINE labels == GetPodLabels(cyc.pod)
      <4>2. PICK cells \in CellChoices(x, labels) :
              status' = [status EXCEPT ![cyc.pod.name] = [labels EXCEPT !.cells = cells]]
        BY <4>1 DEF ReserveSelect
      <4>3. cells \in SUBSET Leaves /\ labels = old
        BY <2>2, <2>3 DEF CellChoices, LeavesOf
      <4> HIDE DEF labels
      <4>4. [old EXCEPT !.cells = cells] \in PodStatus
        BY <4>3 DEF PodStatus
      <4>5. /\ [old EXCEPT !.cells = cells].uid = old.uid
            /\ [old EXCEPT !.cells = cells].request = old.request
            /\ [old EXCEPT !.cells = cells].memory = old.memory
        BY DEF PodStatus
      <4> QED BY <2>2, <4>2, <4>3, <4>4, <4>5
    <3> QED BY <1>2, <3>1, <3>2
  <2>6. pc' \in Choosing => cyc'.pod = pod
    <3>1. CASE FilterDecide
      <4>1. pc' = "idle" \/ \E fit : cyc' = [cyc EXCEPT !.fit = fit]
        BY <3>1 DEF FilterDecide
      <4> QED BY <2>1, <2>2, <4>1 DEF Cycle, Choosing
    <3>2. CASE \E x \in Nodes : ReserveSelect(x)
      <4>1. pc' = "panicked" \/ \E x, multi : cyc' = [cyc EXCEPT !.node = x, !.multi = multi]
        BY <3>2 DEF ReserveSelect, Panic
      <4> QED BY <2>1, <2>2, <4>1 DEF Cycle, Choosing
    <3> QED BY <1>2, <3>1, <3>2
  <2> QED BY <1>0, <2>2, <2>4, <2>5, <2>6, WritesHand
<1> QED BY <1>1, <1>2

(* The memory a shared pod takes: a part like its share's if it says none. *)
MemoryFor(ps) == IF ps.memory = 0 THEN (ps.request * FullMem) \div UNIT ELSE ps.memory

(* ... which is a natural number. *)
LEMMA MemoryForType ==
  ASSUME NEW ps \in PodStatus, ps.memory >= 0
  PROVE  MemoryFor(ps) \in Nat
<1>1. \A m, n \in Nat, d \in Nat \ {0} : (m * n) \div d \in Nat
  BY ProductNatural
<1>2. ps.memory \in Int /\ ps.request \in Nat
  BY DEF PodStatus
<1>3. UNIT \in Nat \ {0} /\ FullMem \in Nat
  BY RequestAssumption
<1>4. (ps.request * FullMem) \div UNIT \in Nat
  BY <1>1, <1>2, <1>3
<1>5. ps.memory \in Nat
  BY <1>2
<1> QED BY <1>4, <1>5 DEF MemoryFor

(* What newAssumedSharedGPUPod takes, and what it says of it in the status    *)
(* and in the copy.                                                           *)
LEMMA AssumeSharedGives ==
  ASSUME TypeOK, LifeInv, ChosenCells, AssumeSharedPod,
         NEW old \in PodStatus, old = status[cyc.pod.name]
  PROVE  \E new \in PodStatus, l \in Leaves :
           /\ status' = [status EXCEPT ![cyc.pod.name] = new] /\ new.uid = 0
           /\ new.cells = old.cells /\ new.request = old.request
           /\ new.memory = MemoryFor(old) /\ old.cells = {l}
           /\ pc = "empty" /\ pc' = "delete" /\ cyc'.pod = cyc.pod /\ cyc'.same
           /\ cyc'.copy.gpus = old.cells /\ cyc'.copy.spec = cyc.pod.spec
           /\ cyc'.copy.memory = new.memory /\ ~ cyc.multi
           /\ ReserveResource(l, old.request, new.memory)
           /\ UNCHANGED <<api, hpc, ending, filled>>
<1> DEFINE x      == cyc.node
           memory == MemoryFor(old)
           ii     == FindNextFromCurrent(masked[x], current[x], PortBits)
           port   == ii + PodManagerPortStart
           new    == [Assumed(old, x) EXCEPT !.memory = memory, !.port = port]
           copy   == [cyc.pod EXCEPT !.node = x, !.gpus = old.cells,
                                     !.memory = memory, !.port = port]
<1>0. SharedAtOnce
  BY AssumeAtOnce
<1>1. x \in Nodes /\ cyc.pod \in Pod /\ cyc \in Cycle /\ pc = "empty" /\ ~ cyc.multi
  BY <1>0 DEF SharedAtOnce, TypeOK
<1>2. memory \in Int
  BY RequestAssumption, QuotientType DEF PodStatus, MemoryFor
<1>3. port \in Ports
  <2>1. Searchable(masked[x], current[x], PortBits)
    BY <1>1, RequestAssumption DEF Searchable, TypeOK
  <2>2. ii \in {-1} \cup (0 .. PortBits - 1)
    BY <2>1, FindNextIsFree
  <2> QED BY <2>2, RequestAssumption DEF Ports, PodManagerPortStart
<1>4. cyc.ps = old
  BY <1>1, ChosenInHand DEF Choosing
<1>5. PICK l \in Leaves : old.cells = {l}
  BY <1>1 DEF ChosenCells, Placed
<1>6. /\ status' = [status EXCEPT ![cyc.pod.name] = new]
      /\ ReserveResource(l, old.request, memory)
      /\ pc' = "delete" /\ cyc' = [cyc EXCEPT !.same = TRUE, !.copy = copy]
  BY <1>0, <1>4, <1>5 DEF SharedAtOnce, MemoryFor
<1> HIDE DEF memory, ii
<1>7. /\ new \in PodStatus /\ new.uid = 0 /\ new.cells = old.cells /\ new.request = old.request
      /\ new.memory = memory
      /\ copy.gpus = old.cells /\ copy.memory = memory /\ copy.spec = cyc.pod.spec
  BY <1>1, <1>2, <1>3 DEF PodStatus, Pod, Assumed
<1> HIDE DEF new, copy
<1>8. cyc'.pod = cyc.pod /\ cyc'.same = TRUE /\ cyc'.copy = copy
  BY <1>1, <1>6 DEF Cycle
<1>9. UNCHANGED <<api, hpc, ending, filled>>
  BY <1>0 DEF SharedAtOnce, apiVars, queueVars, endVars
<1> QED BY <1>1, <1>5, <1>6, <1>7, <1>8, <1>9 DEF memory

(* What newAssumedMultiGPUPod says before it takes the cells one by one. *)
LEMMA AssumeMultiGives ==
  ASSUME TypeOK, LifeInv, AssumeMultiPod, NEW old \in PodStatus, old = status[cyc.pod.name]
  PROVE  \E new \in PodStatus :
           /\ status' = [status EXCEPT ![cyc.pod.name] = new] /\ new.uid = 0
           /\ new.cells = old.cells /\ new.request = old.request /\ new.memory = old.memory
           /\ pc = "empty" /\ cyc.multi /\ pc' = IF old.cells = {} THEN "delete" ELSE "take"
           /\ cyc'.pod = cyc.pod /\ cyc'.left = old.cells /\ cyc'.same
           /\ cyc'.copy.gpus = old.cells /\ cyc'.copy.spec = cyc.pod.spec
           /\ UNCHANGED <<api, hpc, ending, avail, freeMem, filled>>
<1> DEFINE new  == Assumed(old, cyc.node)
           copy == [cyc.pod EXCEPT !.node = cyc.node, !.gpus = old.cells]
<1>0. MultiAtOnce
  BY AssumeAtOnce
<1>1. cyc.node \in Nodes /\ cyc.pod \in Pod /\ cyc \in Cycle /\ pc = "empty" /\ cyc.multi
  BY <1>0 DEF MultiAtOnce, TypeOK
<1>2. /\ new \in PodStatus /\ new.uid = 0 /\ new.cells = old.cells /\ new.request = old.request
      /\ new.memory = old.memory
      /\ copy.gpus = old.cells /\ copy.spec = cyc.pod.spec
  BY <1>1 DEF PodStatus, Pod, Assumed
<1>3. cyc.ps = old
  BY <1>1, ChosenInHand DEF Choosing
<1>4. /\ status' = [status EXCEPT ![cyc.pod.name] = new]
      /\ pc' = IF old.cells = {} THEN "delete" ELSE "take"
      /\ cyc' = [cyc EXCEPT !.left = old.cells, !.same = TRUE, !.copy = copy]
      /\ UNCHANGED <<api, hpc, ending, avail, freeMem, filled>>
  BY <1>0, <1>3 DEF MultiAtOnce, apiVars, queueVars, endVars, cellVars
<1> HIDE DEF new, copy
<1>5. /\ cyc'.pod = cyc.pod /\ cyc'.left = old.cells /\ cyc'.same = TRUE
      /\ cyc'.copy = copy
  BY <1>1, <1>4 DEF Cycle
<1> QED BY <1>1, <1>2, <1>4, <1>5

(* Both emptied the uid of the status they looked up, and the copy is of it. *)
LEMMA AssumeHand ==
  ASSUME TypeOK, LifeInv, HandInv, ChosenCells, AssumeSharedPod \/ AssumeMultiPod
  PROVE  HandInv'
<1>0. pc = "empty" /\ pc \in Choosing
  BY DEF AssumeSharedPod, AssumeMultiPod, Choosing
<1>1. PICK pod \in Pod : pod = cyc.pod
  BY <1>0, ChosenPod
<1>2. LatestInApi /\ InHand(pod) /\ pod.spec \in Specs
  BY <1>0, <1>1, ChosenPod
<1>3. PICK old \in PodStatus : /\ old = status[cyc.pod.name] /\ old.uid = pod.uid
                               /\ old.request = pod.spec.request
  BY <1>0, <1>1, ChosenPod
<1>4. PICK new \in PodStatus :
        /\ status' = [status EXCEPT ![pod.name] = new] /\ new.uid = 0
        /\ new.request = pod.spec.request /\ UNCHANGED <<api, hpc, ending>>
        /\ pc' \in {"take", "delete"}
        /\ cyc'.pod = pod /\ cyc'.same
        /\ cyc'.copy.gpus = new.cells /\ cyc'.copy.spec = pod.spec
        /\ ~ MultiGPU(pod.spec.request) => cyc'.copy.memory = new.memory
  <2>1. CASE AssumeSharedPod
    <3>1. PICK new \in PodStatus :
            /\ status' = [status EXCEPT ![cyc.pod.name] = new] /\ new.uid = 0
            /\ new.cells = old.cells /\ new.request = old.request
            /\ pc' = "delete" /\ cyc'.pod = cyc.pod /\ cyc'.same
            /\ cyc'.copy.gpus = old.cells /\ cyc'.copy.spec = cyc.pod.spec
            /\ cyc'.copy.memory = new.memory /\ UNCHANGED <<api, hpc, ending>>
      BY <1>3, <2>1, AssumeSharedGives
    <3> QED BY <1>1, <1>3, <3>1, Zenon
  <2>2. CASE AssumeMultiPod
    <3>1. PICK new \in PodStatus :
            /\ status' = [status EXCEPT ![cyc.pod.name] = new] /\ new.uid = 0
            /\ new.cells = old.cells /\ new.request = old.request
            /\ cyc.multi /\ pc' = IF old.cells = {} THEN "delete" ELSE "take"
            /\ cyc'.pod = cyc.pod /\ cyc'.same
            /\ cyc'.copy.gpus = old.cells /\ cyc'.copy.spec = cyc.pod.spec
            /\ UNCHANGED <<api, hpc, ending>>
      BY <1>3, <2>2, AssumeMultiGives
    <3>2. MultiGPU(pod.spec.request)
      <4>1. MultiGPU(old.request)
        BY <1>0, <1>3, <3>1 DEF ChosenCells, Placed
      <4> QED BY <1>3, <4>1
    <3> QED BY <1>1, <1>3, <3>1, <3>2, Zenon
  <2> QED BY <2>1, <2>2
<1>5. pc # "setuid" /\ pc' \notin Choosing
  BY <1>0, <1>4 DEF Choosing
<1>6. pc' \in Replacing => /\ cyc'.pod = pod /\ cyc'.same
                           /\ cyc'.copy.gpus = new.cells /\ cyc'.copy.spec = pod.spec
                           /\ ~ MultiGPU(pod.spec.request) => cyc'.copy.memory = new.memory
  BY <1>4, Zenon
<1>7. /\ status' = [status EXCEPT ![pod.name] = new] /\ new.uid \in {0, pod.uid}
      /\ new.request = pod.spec.request /\ (new.uid # 0 => new.memory = pod.spec.memory)
      /\ UNCHANGED <<api, hpc>> /\ (hpc # "ready" => ending'.request = ending.request)
  BY <1>4
<1> QED BY <1>2, <1>5, <1>6, <1>7, WritesHand

(* Looking the status up again finds it. *)
LEMMA LookUpAgainHand ==
  ASSUME TypeOK, LifeInv, HandInv, LookUpAgain
  PROVE  HandInv'
<1>1. /\ pc = "assume" /\ pc' = "empty" /\ UNCHANGED <<api, status, hpc, ending>>
      /\ cyc' = [cyc EXCEPT !.ps = status[cyc.pod.name], !.same = TRUE]
  BY LookUpAgainFinds DEF apiVars, queueVars, endVars
<1>2. cyc'.pod = cyc.pod
  BY <1>1 DEF TypeOK, Cycle
<1> QED BY <1>1, <1>2
        DEF HandInv, StatusAsAsked, StatusOfSpecs, GpusOfTheAlive, GpusOfTheCopy,
            StatusOf, Alive, HasStatus, Choosing, Replacing

(* The other steps of a cycle, up to the creation of the shadow pod. *)
LEMMA QuietHand ==
  ASSUME TypeOK, LifeInv, HandInv, CellsToTake,
         \/ \E x \in Nodes, seen \in BOOLEAN : FilterAddNode(x, seen)
         \/ \E l \in Leaves : TakeCell(l)
         \/ ReserveDelete \/ ReserveCreateFails
  PROVE  HandInv'
<1>0. MemoryInv /\ LatestInApi /\ cyc \in Cycle
  BY LifeParts DEF LifeInv, OrderInv, TypeOK
<1>1. UNCHANGED <<status, hpc, ending>> /\ pc # "setuid"
  BY DEF FilterAddNode, TakeCell, ReserveDelete, ReserveCreateFails, queueVars, endVars
<1>2. \A m \in Names : api'[m] = NoPod \/ api'[m] = api[m]
  BY CycleNames
     DEF FilterAddNode, TakeCell, ReserveDelete, ReserveCreateFails, apiVars, TypeOK, Replacing
<1>3. /\ cyc'.pod = cyc.pod /\ cyc'.same = cyc.same
      /\ pc' \in Choosing => pc \in Choosing /\ UNCHANGED api
      /\ pc' \in Replacing => pc \in Replacing /\ cyc'.copy.gpus = cyc.copy.gpus
            /\ cyc'.copy.spec = cyc.copy.spec
      /\ pc' \in Replacing =>
           cyc'.copy.memory = cyc.copy.memory \/ MultiGPU(status[cyc.pod.name].request)
  <2>1. CASE \E x \in Nodes, seen \in BOOLEAN : FilterAddNode(x, seen)
    BY <1>0, <2>1 DEF FilterAddNode, Cycle, Choosing, Replacing, apiVars
  <2>2. CASE \E l \in Leaves : TakeCell(l)
    <3>1. PICK l \in Leaves : TakeCell(l)
      BY <2>2
    <3> DEFINE copy == [cyc.copy EXCEPT !.memory = @ + freeMem[l]]
    <3>2. pc = "take" /\ pc' \in {"take", "delete"} /\ cyc.copy \in Pod
      BY <3>1 DEF TakeCell, TypeOK
    <3>3. /\ cyc' = [cyc EXCEPT !.left = @ \ {l}, !.copy = copy]
          /\ copy.gpus = cyc.copy.gpus /\ copy.spec = cyc.copy.spec
      BY <3>1, <3>2 DEF TakeCell, Pod
    <3> HIDE DEF copy
    <3>4. cyc'.pod = cyc.pod /\ cyc'.same = cyc.same /\ cyc'.copy = copy
      BY <1>0, <3>3 DEF Cycle
    <3>5. MultiGPU(status[cyc.pod.name].request)
      BY <3>2 DEF CellsToTake
    <3> QED BY <3>2, <3>3, <3>4, <3>5 DEF Choosing, Replacing
  <2>3. CASE ReserveDelete
    BY <2>3 DEF ReserveDelete, Choosing, Replacing
  <2>4. CASE ReserveCreateFails
    BY <1>0, <2>4 DEF ReserveCreateFails, Cycle, Choosing, Replacing
  <2> QED BY <2>1, <2>2, <2>3, <2>4
<1>4. StatusOfSpecs'
  BY <1>1 DEF HandInv, StatusOfSpecs
<1>5. StatusAsAsked'
  <2>1. \A m \in Names : api'[m] # NoPod => api[m] # NoPod /\ api'[m] = api[m] /\ api[m].name = m
    BY <1>0, <1>2 DEF LatestInApi
  <2> QED BY <1>1, <1>3, <2>1 DEF HandInv, StatusAsAsked, HasStatus
<1>6. GpusOfTheAlive'
  BY <1>1, <1>2 DEF HandInv, GpusOfTheAlive, StatusOf, Alive
<1>7. GpusOfTheCopy'
  <2> SUFFICES ASSUME pc' \in Replacing
               PROVE  /\ cyc.same
                      /\ status[cyc.pod.name].cells = cyc'.copy.gpus
                      /\ status[cyc.pod.name].request = cyc'.copy.spec.request
                      /\ ~ MultiGPU(cyc'.copy.spec.request)
                           => status[cyc.pod.name].memory = cyc'.copy.memory
    BY <1>1, <1>3 DEF GpusOfTheCopy, StatusOf
  <2>1. /\ cyc.same
        /\ status[cyc.pod.name].cells = cyc.copy.gpus
        /\ status[cyc.pod.name].request = cyc.copy.spec.request
        /\ ~ MultiGPU(cyc.copy.spec.request) => status[cyc.pod.name].memory = cyc.copy.memory
    BY <1>3 DEF HandInv, GpusOfTheCopy, StatusOf
  <2> QED BY <1>3, <2>1
<1> QED BY <1>4, <1>5, <1>6, <1>7 DEF HandInv

(* The shadow pod has the GPUs of the status that is about to get its uid. *)
LEMMA ReserveCreateHand ==
  ASSUME TypeOK, LifeInv, HandInv, ReserveCreate
  PROVE  HandInv'
<1> DEFINE n == cyc.pod.name
           shadow == [cyc.copy EXCEPT !.uid = born[n] + 1]
<1>0. MemoryInv /\ OrderInv /\ LatestInApi
  BY LifeParts DEF OrderInv
<1>1. /\ pc = "create" /\ pc' = "setuid" /\ n \in Names /\ born[n] \in Nat
      /\ UNCHANGED <<status, hpc, ending>> /\ cyc \in Cycle
  BY CycleNames DEF ReserveCreate, Replacing, TypeOK, endVars
<1>2. cyc' = [cyc EXCEPT !.newUid = born[n] + 1] /\ api' = [api EXCEPT ![n] = shadow]
  BY DEF ReserveCreate
<1>3. /\ cyc.copy \in Pod /\ isBound(cyc.copy)
      /\ status[n] # NoStatus /\ status[n].uid = 0
  BY <1>0, <1>1 DEF MemoryInv, KeptWhileReplaced, OrderInv, CopyOfThePod, Replacing, TypeOK
<1>4. /\ shadow.gpus = cyc.copy.gpus /\ shadow.spec = cyc.copy.spec
      /\ shadow.memory = cyc.copy.memory /\ shadow.node = cyc.copy.node
      /\ shadow.uid = born[n] + 1
  BY <1>3 DEF Pod
<1>5. cyc'.pod = cyc.pod /\ cyc'.newUid = born[n] + 1 /\ cyc'.same = cyc.same
  BY <1>1, <1>2 DEF Cycle
<1>6. api'[n] = shadow /\ \A m \in Names : m # n => api'[m] = api[m]
  BY <1>1, <1>2 DEF TypeOK
<1> HIDE DEF shadow
<1>7. GpusOfTheAlive'
  <2> SUFFICES ASSUME NEW m \in Names, Alive(m)'
               PROVE  /\ status[m] # NoStatus
                      /\ /\ status[m].cells = api'[m].gpus
                         /\ status[m].request = api'[m].spec.request
                         /\ ~ MultiGPU(api'[m].spec.request) => status[m].memory = api'[m].memory
                      /\ \/ status[m].uid = api'[m].uid
                         \/ pc' = "setuid" /\ cyc'.pod.name = m /\ cyc'.same
                            /\ cyc'.newUid = api'[m].uid
    BY <1>1 DEF GpusOfTheAlive, StatusOf
  <2>1. CASE m = n
    <3>1. /\ cyc.same
          /\ status[n].cells = shadow.gpus /\ status[n].request = shadow.spec.request
          /\ ~ MultiGPU(shadow.spec.request) => status[n].memory = shadow.memory
      BY <1>1, <1>4 DEF HandInv, GpusOfTheCopy, StatusOf, Replacing
    <3>2. /\ status[m].cells = api'[m].gpus /\ status[m].request = api'[m].spec.request
          /\ ~ MultiGPU(api'[m].spec.request) => status[m].memory = api'[m].memory
      BY <1>6, <2>1, <3>1
    <3>3. status[m] # NoStatus /\ cyc'.pod.name = m /\ cyc'.newUid = api'[m].uid
      BY <1>3, <1>4, <1>5, <1>6, <2>1
    <3>4. cyc'.same
      BY <1>5, <3>1, Zenon
    <3> QED BY <1>1, <3>2, <3>3, <3>4
  <2>2. CASE m # n
    BY <1>1, <1>6, <2>2 DEF HandInv, GpusOfTheAlive, StatusOf, Alive
  <2> QED BY <2>1, <2>2
<1>8. StatusOfSpecs' /\ GpusOfTheCopy'
  BY <1>1 DEF HandInv, StatusOfSpecs, GpusOfTheCopy, Replacing
<1>9. StatusAsAsked'
  <2>1. isBound(api'[n])
    BY <1>3, <1>4, <1>6 DEF isBound
  <2>2. \A m \in Names : api[m] # NoPod => api[m].name = m
    BY <1>0 DEF LatestInApi
  <2> QED BY <1>1, <1>6, <2>1, <2>2 DEF HandInv, StatusAsAsked, HasStatus, Choosing
<1> QED BY <1>7, <1>8, <1>9 DEF HandInv

(* What the last assignment of Reserve does to the status of its pod. *)
LEMMA SetUidGives ==
  ASSUME TypeOK, LifeInv, ReserveSetUid
  PROVE  LET n == cyc.pod.name IN
           /\ pc = "setuid" /\ pc' = "idle" /\ n \in Names /\ UNCHANGED <<api, hpc, ending>>
           /\ status[n] # NoStatus /\ status[n].uid = 0 /\ status'[n] # NoStatus
           /\ status'[n].cells = status[n].cells /\ status'[n].request = status[n].request
           /\ status'[n].memory = status[n].memory
           /\ status'[n].uid = IF cyc.same THEN cyc.newUid ELSE 0
           /\ \A m \in Names : m # n => status'[m] = status[m]
<1> DEFINE n == cyc.pod.name
           ps == [status[n] EXCEPT !.uid = cyc.newUid]
<1>1. /\ pc = "setuid" /\ pc' = "idle" /\ n \in Names /\ cyc.newUid \in Nat
      /\ UNCHANGED <<api, hpc, ending>>
  BY CycleNames DEF ReserveSetUid, apiVars, queueVars, endVars
<1>2. status[n] # NoStatus /\ status[n] \in PodStatus /\ status[n].uid = 0
  BY <1>1, LifeParts, CycleNames DEF MemoryInv, KeptWhileReplaced
<1>3. ps \in PodStatus
  BY <1>1, <1>2 DEF PodStatus
<1>4. /\ ps.uid = cyc.newUid /\ ps.cells = status[n].cells /\ ps.request = status[n].request
      /\ ps.memory = status[n].memory
  BY <1>2 DEF PodStatus
<1>5. status' = IF cyc.same THEN [status EXCEPT ![n] = ps] ELSE status
  BY <1>2 DEF ReserveSetUid
<1> HIDE DEF ps
<1> QED BY <1>1, <1>2, <1>3, <1>4, <1>5, AbsenceAssumption DEF TypeOK

(* Assigning the uid of the shadow pod at last changes no GPU. *)
LEMMA ReserveSetUidHand ==
  ASSUME TypeOK, LifeInv, HandInv, ReserveSetUid
  PROVE  HandInv'
<1> DEFINE n == cyc.pod.name
<1>0. MemoryInv /\ LatestInApi
  BY LifeParts DEF LifeInv, OrderInv
<1>1. /\ pc = "setuid" /\ pc' = "idle" /\ n \in Names /\ UNCHANGED <<api, hpc, ending>>
      /\ status[n] # NoStatus /\ status[n].uid = 0 /\ status'[n] # NoStatus
      /\ status'[n].cells = status[n].cells /\ status'[n].request = status[n].request
      /\ status'[n].memory = status[n].memory
      /\ status'[n].uid = IF cyc.same THEN cyc.newUid ELSE 0
      /\ \A m \in Names : m # n => status'[m] = status[m]
  BY SetUidGives
<1> HIDE DEF n
<1>2. GpusOfTheCopy' /\ StatusOfSpecs'
  BY <1>1 DEF HandInv, StatusOfSpecs, GpusOfTheCopy, Replacing
<1>3. GpusOfTheAlive'
  <2> SUFFICES ASSUME NEW m \in Names, Alive(m)
               PROVE  /\ status'[m] # NoStatus
                      /\ /\ status'[m].cells = api[m].gpus
                         /\ status'[m].request = api[m].spec.request
                         /\ ~ MultiGPU(api[m].spec.request) => status'[m].memory = api[m].memory
                      /\ status'[m].uid = api[m].uid
    BY <1>1 DEF GpusOfTheAlive, Alive, StatusOf
  <2>1. /\ status[m] # NoStatus
        /\ status[m].cells = api[m].gpus
        /\ status[m].request = api[m].spec.request
        /\ ~ MultiGPU(api[m].spec.request) => status[m].memory = api[m].memory
        /\ \/ status[m].uid = api[m].uid
           \/ n = m /\ cyc.same /\ cyc.newUid = api[m].uid
    BY DEF HandInv, GpusOfTheAlive, StatusOf, n
  <2>2. api[m].uid # 0
    BY DEF Alive, TypeOK, Pod
  <2> QED BY <1>1, <2>1, <2>2
<1>4. StatusAsAsked'
  <2>1. ASSUME NEW m \in Names, api[m] # NoPod, ~ isBound(api[m]),
               status'[m] # NoStatus, status'[m].uid = api[m].uid
        PROVE  status'[m].request = api[m].spec.request /\ status'[m].memory = api[m].spec.memory
    <3>1. api[m].name = m /\ api[m].uid # 0
      BY <1>0, <2>1 DEF LatestInApi, TypeOK, Pod
    <3>2. m = n => cyc.newUid # api[m].uid
      BY <1>0, <1>1, <2>1 DEF MemoryInv, ShadowIsBound, n
    <3>3. m # n
      BY <1>1, <2>1, <3>1, <3>2
    <3> QED BY <1>1, <2>1, <3>1, <3>3 DEF HandInv, StatusAsAsked, HasStatus
  <2>2. \A m \in Names : api[m] # NoPod => api[m].name = m
    BY <1>0 DEF LatestInApi
  <2> QED BY <1>1, <2>1, <2>2 DEF StatusAsAsked, HasStatus, Choosing
<1> QED BY <1>2, <1>3, <1>4 DEF HandInv

(* Every step of one life of the process keeps HandInv. *)
LEMMA HandStep ==
  ASSUME TypeOK, LifeInv, PlaceInv, [LifeNext]_vars
  PROVE  HandInv'
<1>0. HandInv /\ ChosenCells /\ CellsToTake
  BY PlaceParts
<1>1. CASE Environment
  BY <1>0, <1>1, EnvironmentHand DEF Environment
<1>2. CASE Informer
  BY <1>0, <1>2, InformerHand
<1>3. CASE \E n \in Names : PreFilter(n)
  BY <1>0, <1>3, ChoosingHand
<1>4. CASE InCycle
  <2>1. ~ FilterBoundPod
    BY Zenon, NeverABoundPod
  <2>2. CASE FilterDecide \/ \E x \in Nodes : ReserveSelect(x)
    BY <1>0, <2>2, ChoosingHand
  <2>3. CASE \/ \E x \in Nodes, seen \in BOOLEAN : FilterAddNode(x, seen)
             \/ \E l \in Leaves : TakeCell(l)
             \/ ReserveDelete \/ ReserveCreateFails
    BY <1>0, <2>3, QuietHand
  <2>4. CASE AssumeSharedPod \/ AssumeMultiPod
    BY <1>0, <2>4, AssumeHand
  <2> QED BY <1>0, <1>4, <2>1, <2>2, <2>3, <2>4, LookUpAgainHand, ReserveCreateHand,
             ReserveSetUidHand
          DEF InCycle
<1>5. CASE UNCHANGED vars
  BY <1>0, <1>5
     DEF vars, apiVars, endVars, HandInv, StatusAsAsked, StatusOfSpecs, GpusOfTheAlive,
         GpusOfTheCopy, StatusOf, Alive, HasStatus
<1> QED BY <1>1, <1>2, <1>3, <1>4, <1>5 DEF LifeNext
-----------------------------------------------------------------------------
(* What the statuses hold of a leaf, as a sum over a function. *)
LEMMA TakenIsTotal ==
  ASSUME NEW l \in Leaves
  PROVE  /\ TakenOf(l) = Total([m \in Names |-> Taken(m, l)], Names)
         /\ TakenOf(l)' = Total([m \in Names |-> Taken(m, l)'], Names)
<1>1. TakenOf(l) = Total([m \in Names |-> Taken(m, l)], Names)
  BY Zenon DEF TakenOf, Total, MapThenSumSet, MapThenFoldSet
<1>2. TakenOf(l)' = Total([m \in Names |-> Taken(m, l)'], Names)
  BY Zenon DEF TakenOf, Total, MapThenSumSet, MapThenFoldSet
<1> QED BY <1>1, <1>2

(* It is a number of units, before a step and after it. *)
LEMMA TakenType ==
  ASSUME TypeOK, NEW l \in Leaves
  PROVE  /\ \A n \in Names : Taken(n, l) \in Nat
         /\ TakenOf(l) \in Nat
<1>1. ASSUME NEW n \in Names PROVE Taken(n, l) \in Nat
  BY RequestAssumption DEF Taken, Holds, Units, TypeOK, PodStatus
<1> DEFINE f == [m \in Names |-> Taken(m, l)]
<1>2. \A n \in Names : f[n] \in Nat
  BY <1>1
<1>3. Total(f, Names) \in Nat
  <2> HIDE DEF f
  <2> QED BY <1>2, TotalOfNaturals, NamesAssumption
<1> QED BY <1>1, <1>3, TakenIsTotal

(* ... and so it is after a step that keeps the types. *)
LEMMA TakenTypeNext ==
  ASSUME TypeOK', NEW l \in Leaves
  PROVE  /\ \A n \in Names : Taken(n, l)' \in Nat
         /\ TakenOf(l)' \in Nat
<1>1. ASSUME NEW n \in Names PROVE Taken(n, l)' \in Nat
  BY RequestAssumption DEF Taken, Holds, Units, TypeOK, PodStatus
<1> DEFINE f == [m \in Names |-> Taken(m, l)']
<1>2. \A n \in Names : f[n] \in Nat
  BY <1>1
<1>3. Total(f, Names) \in Nat
  <2> HIDE DEF f
  <2> QED BY <1>2, TotalOfNaturals, NamesAssumption
<1> QED BY <1>1, <1>3, TakenIsTotal

(* What deletePod still has to give back of a leaf is one too. *)
LEMMA ReturningType ==
  ASSUME NEW l \in Leaves
  PROVE  /\ TypeOK => Returning(l) \in Nat
         /\ TypeOK' => Returning(l)' \in Nat
<1>1. TypeOK => Returning(l) \in Nat
  BY RequestAssumption DEF Returning, Units, TypeOK, PodStatus
<1>2. TypeOK' => Returning(l)' \in Nat
  BY RequestAssumption DEF Returning, Units, TypeOK, PodStatus
<1> QED BY <1>1, <1>2

(* A step that changes nothing that a name holds of a leaf. *)
LEMMA TakenSame ==
  ASSUME NEW l \in Leaves, \A n \in Names : Taken(n, l)' = Taken(n, l)
  PROVE  TakenOf(l)' = TakenOf(l)
<1>1. [m \in Names |-> Taken(m, l)'] = [m \in Names |-> Taken(m, l)]
  OBVIOUS
<1> QED BY <1>1, TakenIsTotal

(* A step that takes nothing. *)
LEMMA TakenLower ==
  ASSUME TypeOK, TypeOK', NEW l \in Leaves, \A n \in Names : Taken(n, l)' <= Taken(n, l)
  PROVE  TakenOf(l)' <= TakenOf(l)
<1> DEFINE f == [m \in Names |-> Taken(m, l)]
           g == [m \in Names |-> Taken(m, l)']
<1>1. \A n \in Names : Taken(n, l) \in Nat /\ Taken(n, l)' \in Nat
  BY TakenType, TakenTypeNext
<1>2. \A n \in Names : f[n] \in Int /\ g[n] \in Int /\ g[n] <= f[n]
  BY <1>1
<1>3. Total(g, Names) <= Total(f, Names)
  <2> HIDE DEF f, g
  <2> QED BY <1>2, TotalMonotone, NamesAssumption
<1> QED BY <1>3, TakenIsTotal

(* A step that changes what one name holds changes the total by as much. *)
LEMMA TakenChanges ==
  ASSUME TypeOK, TypeOK', NEW n \in Names, NEW l \in Leaves,
         \A m \in Names \ {n} : Taken(m, l)' = Taken(m, l)
  PROVE  TakenOf(l)' = TakenOf(l) - Taken(n, l) + Taken(n, l)'
<1> DEFINE f == [m \in Names |-> Taken(m, l)]
           g == [m \in Names |-> Taken(m, l)']
<1>1. \A m \in Names : Taken(m, l) \in Nat /\ Taken(m, l)' \in Nat
  BY TakenType, TakenTypeNext
<1>2. \A m \in Names : f[m] \in Int /\ g[m] \in Int
  BY <1>1
<1>3. /\ \A m \in Names \ {n} : g[m] = f[m]
      /\ f[n] = Taken(n, l) /\ g[n] = Taken(n, l)'
  <2>1. \A m \in Names \ {n} : Taken(m, l)' = Taken(m, l)
    OBVIOUS
  <2> QED BY ONLY <2>1, n \in Names
<1>4. TakenOf(l) = Total(f, Names) /\ TakenOf(l)' = Total(g, Names)
  BY TakenIsTotal
<1> HIDE DEF f, g
<1>5. Total(g, Names) = Total(f, Names) - f[n] + g[n]
  <2>1. /\ IsFiniteSet(Names) /\ \A y \in Names : f[y] \in Int /\ g[y] \in Int
        /\ \A y \in Names \ {n} : g[y] = f[y]
    BY <1>2, <1>3, NamesAssumption
  <2>2. \A h, k : (/\ \A y \in Names : h[y] \in Int /\ k[y] \in Int
                   /\ \A y \in Names \ {n} : k[y] = h[y])
                  => Total(k, Names) = Total(h, Names) - h[n] + k[n]
    BY NamesAssumption, TotalChange
  <2> QED BY ONLY <2>1, <2>2
<1> QED BY <1>3, <1>4, <1>5

(* A step that takes for the status of n, or gives back, what a leaf loses or *)
(* gets.                                                                      *)
Moves(n) ==
  /\ \A m \in Names \ {n}, l \in Leaves : Taken(m, l)' = Taken(m, l)
  /\ \A l \in Leaves :
       avail'[l] + Returning(l)' + Taken(n, l)' = avail[l] + Returning(l) + Taken(n, l)

(* What a step may do to the shares, but for those before Reserve: what the   *)
(* statuses hold of a leaf, what is being given back and what is left of it   *)
(* make up as much as before.                                                 *)
SharesMoved ==
  \A l \in Leaves :
    avail'[l] + Returning(l)' + TakenOf(l)' = avail[l] + Returning(l) + TakenOf(l)

(* A step that moves shares of one status does that. *)
LEMMA MovesShares ==
  ASSUME TypeOK, TypeOK', NEW n \in Names, Moves(n)
  PROVE  SharesMoved
<1> SUFFICES ASSUME NEW l \in Leaves
             PROVE  avail'[l] + Returning(l)' + TakenOf(l)' = avail[l] + Returning(l) + TakenOf(l)
  BY DEF SharesMoved
<1>1. TakenOf(l)' = TakenOf(l) - Taken(n, l) + Taken(n, l)'
  BY TakenChanges DEF Moves
<1>2. avail'[l] + Returning(l)' + Taken(n, l)' = avail[l] + Returning(l) + Taken(n, l)
  BY DEF Moves
<1>3. /\ TakenOf(l) \in Nat /\ TakenOf(l)' \in Nat /\ Taken(n, l) \in Nat /\ Taken(n, l)' \in Nat
      /\ Returning(l) \in Nat /\ Returning(l)' \in Nat
  BY TakenType, TakenTypeNext, ReturningType
<1>4. avail[l] \in Int /\ avail'[l] \in Int
  BY TopologyAssumption DEF TypeOK
<1> QED BY <1>1, <1>2, <1>3, <1>4

(* What other names hold does not depend on the cycle of one. *)
LEMMA TakenOthers ==
  ASSUME NEW n \in Names, \A m \in Names \ {n} : status'[m] = status[m],
         \/ UNCHANGED <<pc, cyc>>
         \/ /\ pc \in Placed \cup {"take"} => cyc.pod.name = n
            /\ pc' \in Placed \cup {"take"} => cyc'.pod.name = n
  PROVE  \A m \in Names \ {n}, l \in Leaves : Taken(m, l)' = Taken(m, l)
  BY DEF Taken, Holds, NotYetTaken, Units, Placed

(* Reserving one leaf takes the memory of no other. *)
LEMMA ReserveTakesMemory ==
  ASSUME TypeOK, NEW l \in Leaves, NEW units \in Int, NEW memory \in Int,
         ReserveResource(l, units, memory), NEW k \in Leaves
  PROVE  freeMem'[k] = IF k = l THEN freeMem[k] - memory ELSE freeMem[k]
<1>1. k \in Cells /\ (k \in Path[l] <=> k = l)
  BY TopologyAssumption
<1> QED BY <1>1 DEF ReserveResource

(* The informer thread takes a status from the map and has then to give back  *)
(* what it holds, or gives back what it has to.                               *)
LEMMA InformerGives ==
  ASSUME TypeOK, LifeInv, Informer
  PROVE  /\ UNCHANGED <<api, pc, cyc, filled>>
         /\ \/ /\ UNCHANGED status
               /\ \A l \in Leaves :
                    /\ avail'[l] + Returning(l)' = avail[l] + Returning(l)
                    /\ Returning(l)' \in {0, Returning(l)}
                    /\ freeMem'[l] + ReturningMemory(l)' = freeMem[l] + ReturningMemory(l)
                    /\ ReturningMemory(l)' \in {0, ReturningMemory(l)}
            \/ \E n \in Names :
                 /\ status[n] \in PodStatus /\ status[n].uid # 0
                 /\ pc \in Choosing \cup Replacing \cup {"setuid"} => cyc.pod.name # n
                 /\ status' = [status EXCEPT ![n] = NoStatus]
                 /\ UNCHANGED <<avail, freeMem>>
                 /\ \A l \in Leaves :
                      /\ Returning(l) = 0 /\ ReturningMemory(l) = 0
                      /\ Returning(l)' =
                           IF l \in status[n].cells THEN Units(status[n].request) ELSE 0
                      /\ ReturningMemory(l)' =
                           IF l \notin status[n].cells THEN 0
                           ELSE IF MultiGPU(status[n].request) THEN FullMem ELSE status[n].memory
<1>1. CASE HandlesEvent /\ ~ UNCHANGED <<status, endVars>>
  <2>1. UNCHANGED <<api, pc, cyc, filled, avail, freeMem>> /\ hpc = "ready"
    BY <1>1, HandlerEffect DEF apiVars, cellVars
  <2>2. PICK n \in Names :
          /\ status[n] \in PodStatus /\ status[n].uid # 0
          /\ pc \in Choosing \cup Replacing \cup {"setuid"} => cyc.pod.name # n
          /\ status' = [status EXCEPT ![n] = NoStatus]
          /\ IF MultiGPU(status[n].request) THEN Reclaiming(status[n])
             ELSE hpc' = "unmask" /\ ending' = status[n]
    BY <1>1, HandlerEffect
  <2>3. IF hpc' = "ready" THEN status[n].cells = {} ELSE ending' = status[n]
    BY <2>2 DEF Reclaiming
  <2> QED BY <2>1, <2>2, <2>3 DEF Returning, ReturningMemory
<1>2. CASE HandlesEvent /\ UNCHANGED <<status, endVars>>
  <2>1. UNCHANGED <<api, pc, cyc, filled, avail, freeMem, hpc, ending, status>>
    BY <1>2, HandlerEffect DEF apiVars, cellVars, endVars
  <2> QED BY <2>1 DEF Returning, ReturningMemory
<1>3. CASE UnmaskEnded
  <2>1. /\ UNCHANGED <<api, pc, cyc, filled, avail, freeMem, status>> /\ hpc = "unmask"
        /\ Reclaiming(ending)
    BY <1>3 DEF UnmaskEnded, apiVars, cellVars
  <2>2. IF hpc' = "ready" THEN ending.cells = {} ELSE ending' = ending
    BY <2>1 DEF Reclaiming
  <2> QED BY <2>1, <2>2 DEF Returning, ReturningMemory
<1>4. ASSUME NEW k \in Leaves, ReclaimCell(k)
      PROVE  /\ UNCHANGED <<api, pc, cyc, filled, status>>
             /\ \A l \in Leaves :
                  /\ avail'[l] + Returning(l)' = avail[l] + Returning(l)
                  /\ Returning(l)' \in {0, Returning(l)}
                  /\ freeMem'[l] + ReturningMemory(l)' = freeMem[l] + ReturningMemory(l)
                  /\ ReturningMemory(l)' \in {0, ReturningMemory(l)}
  <2> DEFINE rest   == [ending EXCEPT !.cells = @ \ {k}]
             multi  == MultiGPU(ending.request)
             units  == IF multi THEN UNIT ELSE ending.request
             memory == IF multi THEN FullMem ELSE ending.memory
  <2>1. /\ UNCHANGED <<api, pc, cyc, filled, status>> /\ hpc = "reclaim" /\ k \in ending.cells
        /\ ReserveResource(k, -units, -memory) /\ Reclaiming(rest)
    BY <1>4 DEF ReclaimCell, ReclaimResource, apiVars
  <2>2. ending \in PodStatus /\ ending.cells \subseteq Leaves
    BY <2>1 DEF TypeOK, PodStatus
  <2>3. units \in Int /\ memory \in Int /\ -units \in Int /\ -memory \in Int
    BY <2>2, RequestAssumption DEF PodStatus
  <2>4. rest.cells = ending.cells \ {k} /\ rest.request = ending.request /\ rest.memory = ending.memory
    BY <2>2 DEF PodStatus
  <2> HIDE DEF rest
  <2>5. IF hpc' = "ready" THEN rest.cells = {} ELSE ending' = rest
    BY <2>1 DEF Reclaiming
  <2> SUFFICES ASSUME NEW l \in Leaves
               PROVE  /\ avail'[l] + Returning(l)' = avail[l] + Returning(l)
                      /\ Returning(l)' \in {0, Returning(l)}
                      /\ freeMem'[l] + ReturningMemory(l)' = freeMem[l] + ReturningMemory(l)
                      /\ ReturningMemory(l)' \in {0, ReturningMemory(l)}
    BY <2>1
  <2>6. /\ Returning(l) = IF l \in ending.cells THEN units ELSE 0
        /\ ReturningMemory(l) = IF l \in ending.cells THEN memory ELSE 0
    BY <2>1 DEF Returning, ReturningMemory, Units
  <2>7. /\ Returning(l)' = IF l \in ending.cells \ {k} THEN units ELSE 0
        /\ ReturningMemory(l)' = IF l \in ending.cells \ {k} THEN memory ELSE 0
    BY <2>4, <2>5 DEF Returning, ReturningMemory, Units
  <2> HIDE DEF units, memory
  <2>8. /\ avail'[l] = IF l = k THEN avail[l] - (-units) ELSE avail[l]
        /\ freeMem'[l] = IF l = k THEN freeMem[l] - (-memory) ELSE freeMem[l]
    BY <2>1, <2>3, ReserveTakesOne, ReserveTakesMemory
  <2>9. avail[l] \in Int /\ freeMem[l] \in Int
    BY TopologyAssumption DEF TypeOK
  <2> QED BY <2>1, <2>3, <2>6, <2>7, <2>8, <2>9
<1> QED BY <1>1, <1>2, <1>3, <1>4 DEF Informer, HandlesEvent

(* Steps that change no status's cells, and come to no choice of cells. *)
LEMMA QuietTakes ==
  ASSUME TypeOK, LifeInv,
         \/ Environment \/ UNCHANGED vars
         \/ \E x \in Nodes, seen \in BOOLEAN : FilterAddNode(x, seen)
         \/ LookUpAgain \/ ReserveDelete \/ ReserveCreate \/ ReserveCreateFails \/ ReserveSetUid
  PROVE  /\ UNCHANGED <<avail, hpc, ending>>
         /\ \/ UNCHANGED <<freeMem, filled>>
            \/ \E x \in Nodes, seen \in BOOLEAN : FilterAddNode(x, seen)
         /\ \/ UNCHANGED <<pc, cyc, status>>
            \/ /\ pc \in Placed /\ pc' \in Placed /\ UNCHANGED status
               /\ cyc'.pod = cyc.pod /\ cyc'.multi = cyc.multi
            \/ /\ {pc, pc'} \cap (Placed \cup {"take"}) = {}
               /\ \A m \in Names :
                    /\ status'[m] = NoStatus <=> status[m] = NoStatus
                    /\ status'[m].cells = status[m].cells
                    /\ status'[m].request = status[m].request
                    /\ status'[m].memory = status[m].memory
<1>1. CASE Environment \/ UNCHANGED vars
  BY <1>1 DEF Environment, UserCreate, UserDelete, Finish, vars, cellVars, endVars
<1>2. CASE \E x \in Nodes, seen \in BOOLEAN : FilterAddNode(x, seen)
  BY <1>2 DEF FilterAddNode, queueVars, endVars, Placed
<1>3. CASE ReserveDelete \/ ReserveCreate \/ ReserveCreateFails
  BY <1>3 DEF ReserveDelete, ReserveCreate, ReserveCreateFails, cellVars, queueVars, endVars, Placed
<1>5. CASE LookUpAgain
  <2>1. /\ pc = "assume" /\ pc' = "empty"
        /\ cyc' = [cyc EXCEPT !.ps = status[cyc.pod.name], !.same = TRUE]
        /\ UNCHANGED <<status, avail, freeMem, filled, hpc, ending>>
    BY <1>5, LookUpAgainFinds DEF cellVars, queueVars, endVars
  <2>2. cyc'.pod = cyc.pod /\ cyc'.multi = cyc.multi
    BY <2>1 DEF TypeOK, Cycle
  <2> QED BY <2>1, <2>2 DEF Placed
<1>4. CASE ReserveSetUid
  <2>1. PICK n \in Names :
          /\ pc = "setuid" /\ pc' = "idle"
          /\ status[n] # NoStatus /\ status'[n] # NoStatus
          /\ status'[n].cells = status[n].cells /\ status'[n].request = status[n].request
          /\ status'[n].memory = status[n].memory
          /\ \A m \in Names : m # n => status'[m] = status[m]
    BY <1>4, SetUidGives
  <2>2. \A m \in Names :
          /\ status'[m] = NoStatus <=> status[m] = NoStatus
          /\ status'[m].cells = status[m].cells
          /\ status'[m].request = status[m].request
          /\ status'[m].memory = status[m].memory
    BY <2>1
  <2>3. UNCHANGED <<avail, freeMem, filled, hpc, ending>>
    BY <1>4 DEF ReserveSetUid, cellVars, queueVars, endVars
  <2> QED BY <2>1, <2>2, <2>3 DEF Placed
<1> QED BY <1>1, <1>2, <1>3, <1>4, <1>5

(* Steps that touch neither a share nor a status that holds one. *)
LEMMA QuietAccount ==
  ASSUME TypeOK, TypeOK', LifeInv,
         \/ Environment \/ UNCHANGED vars
         \/ \E x \in Nodes, seen \in BOOLEAN : FilterAddNode(x, seen)
         \/ LookUpAgain \/ ReserveDelete \/ ReserveCreate \/ ReserveCreateFails \/ ReserveSetUid
  PROVE  SharesMoved
<1>1. /\ UNCHANGED <<avail, hpc, ending>>
      /\ \/ UNCHANGED <<pc, cyc, status>>
         \/ pc \in Placed /\ pc' \in Placed /\ UNCHANGED status /\ cyc'.pod = cyc.pod
         \/ /\ {pc, pc'} \cap (Placed \cup {"take"}) = {}
            /\ \A m \in Names :
                 /\ status'[m] = NoStatus <=> status[m] = NoStatus
                 /\ status'[m].cells = status[m].cells
                 /\ status'[m].request = status[m].request
  BY QuietTakes
<1>2. \A m \in Names, l \in Leaves : Taken(m, l)' = Taken(m, l)
  BY <1>1 DEF Taken, Holds, NotYetTaken, Units, Placed
<1>3. \A l \in Leaves : Returning(l)' = Returning(l)
  BY <1>1 DEF Returning
<1> QED BY <1>1, <1>2, <1>3, TakenSame DEF SharesMoved

(* A pod in a cycle takes nothing before Reserve reserves: a new status has   *)
(* no cells, and those Reserve chooses are not yet taken.                    *)
LEMMA ChoosingTakes ==
  ASSUME TypeOK, LifeInv,
         \/ \E n \in Names : PreFilter(n)
         \/ FilterDecide \/ \E x \in Nodes : ReserveSelect(x)
  PROVE  /\ UNCHANGED <<avail, freeMem, filled, hpc, ending>>
         /\ pc \notin Placed \cup {"take"}
         /\ \E n \in Names :
              /\ \A m \in Names \ {n} : status'[m] = status[m]
              /\ pc' \in Placed \cup {"take"} => cyc'.pod.name = n
              /\ \/ status'[n] = status[n] /\ pc' \notin Placed \cup {"take"}
                 \/ \A l \in Leaves : ~ Holds(n, l)'
<1>1. CASE \E n \in Names : PreFilter(n)
  <2>1. PICK n \in Names : PreFilter(n)
    BY <1>1
  <2>2. api[n].name = n
    BY <2>1 DEF LifeInv, OrderInv, LatestInApi, PreFilter
  <2> DEFINE ps == GetPodLabels(api[n])
  <2>3. status' = [status EXCEPT ![n] = ps] /\ (ps = status[n] \/ ps.cells = {})
    BY <2>1, <2>2 DEF PreFilter, GetPodLabels
  <2> HIDE DEF ps
  <2>4. status'[n] = ps /\ \A m \in Names \ {n} : status'[m] = status[m]
    BY <2>3 DEF TypeOK
  <2>5. status'[n] = status[n] \/ \A l \in Leaves : ~ Holds(n, l)'
    BY <2>3, <2>4 DEF Holds
  <2> QED BY <2>1, <2>4, <2>5 DEF PreFilter, cellVars, queueVars, endVars, Placed
<1>2. CASE FilterDecide
  <2>1. PICK n \in Names : n = cyc.pod.name /\ pc = "drain"
    BY <1>2, CycleNames DEF FilterDecide, Choosing
  <2> DEFINE ps == GetPodLabels(cyc.pod)
  <2>2. status' = [status EXCEPT ![n] = ps] /\ (ps = status[n] \/ ps.cells = {})
    BY <1>2, <2>1 DEF FilterDecide, GetPodLabels
  <2> HIDE DEF ps
  <2>3. status'[n] = ps /\ \A m \in Names \ {n} : status'[m] = status[m]
    BY <2>2 DEF TypeOK
  <2>4. status'[n] = status[n] \/ \A l \in Leaves : ~ Holds(n, l)'
    BY <2>2, <2>3 DEF Holds
  <2>5. UNCHANGED <<avail, freeMem, filled, hpc, ending>> /\ pc' \in {"filter", "select", "idle"}
    BY <1>2 DEF FilterDecide, cellVars, queueVars, endVars
  <2> QED BY <2>1, <2>3, <2>4, <2>5 DEF Placed
<1>3. CASE \E x \in Nodes : ReserveSelect(x)
  <2>1. PICK x \in Nodes : ReserveSelect(x)
    BY <1>3
  <2>2. PICK n \in Names : n = cyc.pod.name /\ pc = "select" /\ cyc \in Cycle
    BY <2>1, CycleNames DEF ReserveSelect, Choosing, TypeOK
  <2> DEFINE ps == GetPodLabels(cyc.pod)
  <2>3. PICK cells \in CellChoices(x, ps) :
          /\ status' = [status EXCEPT ![n] = [ps EXCEPT !.cells = cells]]
          /\ IF cells = {} THEN pc' = "panicked"
             ELSE pc' = "assume" /\ cyc' = [cyc EXCEPT !.node = x, !.multi = MultiGPU(ps.request)]
    BY <2>1, <2>2 DEF ReserveSelect, Panic
  <2>4. ps \in PodStatus /\ [ps EXCEPT !.cells = cells].cells = cells
    <3>1. ps \in PodStatus
      BY <2>2, LabelsUid DEF TypeOK
    <3> HIDE DEF ps
    <3> QED BY <3>1 DEF PodStatus
  <2> HIDE DEF ps
  <2> DEFINE new == [ps EXCEPT !.cells = cells]
  <2>5. status' = [status EXCEPT ![n] = new] /\ new.cells = cells
    BY <2>3, <2>4
  <2> HIDE DEF new
  <2>6. status'[n] = new /\ \A m \in Names \ {n} : status'[m] = status[m]
    BY <2>5 DEF TypeOK
  <2>7. pc' = "assume" => cyc'.pod = cyc.pod
    BY <2>2, <2>3 DEF Cycle
  <2>8. \A l \in Leaves : ~ Holds(n, l)'
    <3>1. CASE cells = {}
      BY <2>5, <2>6, <3>1 DEF Holds
    <3>2. CASE cells # {}
      BY <2>2, <2>3, <2>7, <3>2 DEF Holds, NotYetTaken, Placed
    <3> QED BY <3>1, <3>2
  <2>9. UNCHANGED <<avail, freeMem, filled, hpc, ending>> /\ pc' \in {"panicked", "assume"}
    BY <2>1, <2>3 DEF ReserveSelect, cellVars, queueVars, endVars
  <2> QED BY <2>2, <2>6, <2>7, <2>8, <2>9 DEF Placed
<1> QED BY <1>1, <1>2, <1>3

(* The steps before Reserve that write a status. *)
Chooses == \/ \E n \in Names : PreFilter(n)
           \/ FilterDecide \/ \E x \in Nodes : ReserveSelect(x)

(* The steps before Reserve take nothing yet. *)
LEMMA ChoosingAccount ==
  ASSUME TypeOK, TypeOK', LifeInv,
         \/ \E n \in Names : PreFilter(n)
         \/ FilterDecide \/ \E x \in Nodes : ReserveSelect(x)
  PROVE  /\ UNCHANGED <<avail, hpc, ending>>
         /\ \A l \in Leaves : TakenOf(l)' <= TakenOf(l)
<1>1. UNCHANGED <<avail, hpc, ending>> /\ pc \notin Placed \cup {"take"}
  BY ChoosingTakes
<1>2. PICK n \in Names :
        /\ \A m \in Names \ {n} : status'[m] = status[m]
        /\ pc' \in Placed \cup {"take"} => cyc'.pod.name = n
        /\ \/ status'[n] = status[n] /\ pc' \notin Placed \cup {"take"}
           \/ \A l \in Leaves : ~ Holds(n, l)'
  BY ChoosingTakes
<1>3. \A m \in Names \ {n}, l \in Leaves : Taken(m, l)' = Taken(m, l)
  BY <1>1, <1>2, TakenOthers
<1>4. \A l \in Leaves : Taken(n, l)' = 0 \/ Taken(n, l)' = Taken(n, l)
  BY <1>1, <1>2 DEF Taken, Holds, NotYetTaken, Units
<1>5. \A m \in Names, l \in Leaves : Taken(m, l)' <= Taken(m, l)
  <2>1. \A m \in Names, l \in Leaves : Taken(m, l) \in Nat
    BY TakenType
  <2> QED BY <1>3, <1>4, <2>1
<1> QED BY <1>1, <1>5, TakenLower

(* The informer gives back what the status it drops holds. *)
LEMMA InformerAccount ==
  ASSUME TypeOK, TypeOK', LifeInv, Informer
  PROVE  SharesMoved
<1>1. UNCHANGED <<pc, cyc>>
  BY InformerGives
<1>2. CASE /\ UNCHANGED status
           /\ \A l \in Leaves : avail'[l] + Returning(l)' = avail[l] + Returning(l)
  <2>1. \A m \in Names, l \in Leaves : Taken(m, l)' = Taken(m, l)
    BY <1>1, <1>2 DEF Taken, Holds, NotYetTaken, Units
  <2> QED BY <1>2, <2>1, TakenSame DEF SharesMoved
<1>3. ASSUME NEW n \in Names, status[n] \in PodStatus,
             pc \in Choosing \cup Replacing \cup {"setuid"} => cyc.pod.name # n,
             status' = [status EXCEPT ![n] = NoStatus], UNCHANGED avail,
             \A l \in Leaves :
               /\ Returning(l) = 0
               /\ Returning(l)' = IF l \in status[n].cells THEN Units(status[n].request) ELSE 0
      PROVE  SharesMoved
  <2>1. status'[n] = NoStatus /\ \A m \in Names \ {n} : status'[m] = status[m]
    BY <1>3 DEF TypeOK
  <2>2. ASSUME NEW l \in Leaves
        PROVE  avail'[l] + Returning(l)' + Taken(n, l)' = avail[l] + Returning(l) + Taken(n, l)
    <3>1. Taken(n, l)' = 0
      BY <2>1 DEF Taken, Holds
    <3>2. ~ NotYetTaken(n, l)
      BY <1>3 DEF NotYetTaken, Placed, Choosing, Replacing
    <3>3. Taken(n, l) = IF l \in status[n].cells THEN Units(status[n].request) ELSE 0
      BY <1>3, <3>2, AbsenceAssumption DEF Taken, Holds
    <3>4. avail[l] \in Int /\ Taken(n, l) \in Nat
      BY TopologyAssumption, TakenType DEF TypeOK
    <3>5. avail'[l] = avail[l] /\ Returning(l) = 0 /\ Returning(l)' = Taken(n, l)
      BY <1>3, <3>3
    <3> QED BY <3>1, <3>4, <3>5
  <2>3. \A m \in Names \ {n}, l \in Leaves : Taken(m, l)' = Taken(m, l)
    BY <1>1, <2>1, TakenOthers
  <2> QED BY <2>2, <2>3, MovesShares DEF Moves
<1> QED BY <1>2, <1>3, InformerGives

(* Reserve takes a shared pod's request from the one leaf it chose. *)
LEMMA AssumeSharedAccount ==
  ASSUME TypeOK, TypeOK', LifeInv, ChosenCells, AssumeSharedPod
  PROVE  SharesMoved
<1>1. pc = "empty" /\ pc \in Choosing /\ pc \in Placed
  BY DEF AssumeSharedPod, Choosing, Placed
<1>2. PICK n \in Names : n = cyc.pod.name
  BY <1>1, CycleNames
<1>3. PICK old \in PodStatus : old = status[cyc.pod.name]
  BY <1>1, ChosenInHand
<1>4. PICK new \in PodStatus, k \in Leaves :
        /\ status' = [status EXCEPT ![cyc.pod.name] = new]
        /\ new.cells = old.cells /\ new.request = old.request /\ old.cells = {k}
        /\ pc' = "delete" /\ ~ cyc.multi /\ UNCHANGED <<hpc, ending>>
        /\ ReserveResource(k, old.request, new.memory)
  BY <1>3, AssumeSharedGives
<1>5. status'[n] = new /\ new # NoStatus /\ \A m \in Names \ {n} : status'[m] = status[m]
  BY <1>2, <1>4, AbsenceAssumption DEF TypeOK
<1>6. \A m \in Names \ {n}, l \in Leaves : Taken(m, l)' = Taken(m, l)
  BY <1>2, <1>4, <1>5, TakenOthers DEF Placed
<1>7. \A l \in Leaves : Taken(n, l) = 0
  BY <1>1, <1>2 DEF Taken, Holds, NotYetTaken
<1>8. ~ MultiGPU(old.request)
  BY <1>1, <1>3, <1>4, Zenon DEF ChosenCells
<1>9. ASSUME NEW l \in Leaves
      PROVE  avail'[l] + Returning(l)' + Taken(n, l)' = avail[l] + Returning(l) + Taken(n, l)
  <2>1. old.request \in Int /\ new.memory \in Int /\ avail[l] \in Int /\ Returning(l) \in Nat
    <3>1. Returning(l) \in Nat
      BY ReturningType
    <3>2. avail[l] \in Int
      BY TopologyAssumption DEF TypeOK
    <3>3. old.request \in Int /\ new.memory \in Int
      BY DEF PodStatus
    <3> QED BY <3>1, <3>2, <3>3
  <2>2. avail'[l] = IF l = k THEN avail[l] - old.request ELSE avail[l]
    BY <1>4, <2>1, ReserveTakesOne
  <2>3. Taken(n, l)' = IF l = k THEN old.request ELSE 0
    BY <1>4, <1>5, <1>8 DEF Taken, Holds, NotYetTaken, Units, Placed
  <2>4. Returning(l)' = Returning(l)
    BY <1>4 DEF Returning
  <2> QED BY <1>7, <2>1, <2>2, <2>3, <2>4
<1> QED BY <1>6, <1>9, MovesShares DEF Moves

(* A multi-GPU pod takes nothing when it is assumed ... *)
LEMMA AssumeMultiAccount ==
  ASSUME TypeOK, TypeOK', LifeInv, AssumeMultiPod
  PROVE  SharesMoved
<1>1. pc = "empty" /\ pc \in Choosing /\ pc \in Placed
  BY DEF AssumeMultiPod, Choosing, Placed
<1>2. PICK n \in Names : n = cyc.pod.name
  BY <1>1, CycleNames
<1>3. PICK old \in PodStatus : old = status[cyc.pod.name]
  BY <1>1, ChosenInHand
<1>4. PICK new \in PodStatus :
        /\ status' = [status EXCEPT ![cyc.pod.name] = new] /\ new.cells = old.cells
        /\ pc' = IF old.cells = {} THEN "delete" ELSE "take"
        /\ cyc'.pod = cyc.pod /\ cyc'.left = old.cells /\ UNCHANGED <<avail, hpc, ending>>
  BY <1>3, AssumeMultiGives
<1>5. status'[n] = new /\ \A m \in Names \ {n} : status'[m] = status[m]
  BY <1>2, <1>4 DEF TypeOK
<1>6. \A m \in Names \ {n}, l \in Leaves : Taken(m, l)' = Taken(m, l)
  BY <1>1, <1>2, <1>4, <1>5, TakenOthers
<1>7. \A l \in Leaves : Taken(n, l)' = 0 /\ Taken(n, l) = 0
  BY <1>1, <1>2, <1>4, <1>5 DEF Taken, Holds, NotYetTaken
<1>8. \A m \in Names, l \in Leaves : Taken(m, l)' = Taken(m, l)
  BY <1>6, <1>7
<1>9. \A l \in Leaves : Returning(l)' = Returning(l)
  BY <1>4 DEF Returning
<1> QED BY <1>4, <1>8, <1>9, TakenSame DEF SharesMoved

(* ... and the whole of each of its leaves after. *)
LEMMA TakeCellAccount ==
  ASSUME TypeOK, TypeOK', LifeInv, CellsToTake, NEW k \in Leaves, TakeCell(k)
  PROVE  SharesMoved
<1>1. /\ pc = "take" /\ k \in cyc.left /\ UNCHANGED <<status, hpc, ending>> /\ cyc \in Cycle
      /\ ReserveResource(k, avail[k], freeMem[k])
      /\ pc' = IF cyc.left = {k} THEN "delete" ELSE "take"
  BY DEF TakeCell, TypeOK, queueVars, endVars
<1>2. PICK n \in Names : n = cyc.pod.name
  BY <1>1, CycleNames DEF Replacing
<1>3. cyc'.pod = cyc.pod /\ cyc'.left = cyc.left \ {k}
  <2>1. \E copy : cyc' = [cyc EXCEPT !.left = @ \ {k}, !.copy = copy]
    BY DEF TakeCell
  <2> QED BY <1>1, <2>1 DEF Cycle
<1>4. /\ status[n] # NoStatus /\ k \in status[n].cells /\ MultiGPU(status[n].request)
      /\ avail[k] = UNIT
  BY <1>1, <1>2, LifeParts DEF CellsToTake, MemoryInv, KeptWhileReplaced, Replacing
<1>5. \A m \in Names \ {n}, l \in Leaves : Taken(m, l)' = Taken(m, l)
  BY <1>1, <1>2, <1>3, TakenOthers
<1>6. ASSUME NEW l \in Leaves
      PROVE  avail'[l] + Returning(l)' + Taken(n, l)' = avail[l] + Returning(l) + Taken(n, l)
  <2>1. /\ avail[k] \in Int /\ freeMem[k] \in Int /\ avail[l] \in Int /\ UNIT \in Int
        /\ Returning(l) \in Nat /\ Taken(n, l) \in Nat
    <3>1. Returning(l) \in Nat /\ Taken(n, l) \in Nat
      BY ReturningType, TakenType
    <3>2. /\ avail[k] \in Int /\ freeMem[k] \in Int /\ avail[l] \in Int /\ UNIT \in Int
      BY RequestAssumption, TopologyAssumption DEF TypeOK
    <3> QED BY <3>1, <3>2
  <2>2. avail'[l] = IF l = k THEN avail[l] - avail[k] ELSE avail[l]
    BY <1>1, <2>1, ReserveTakesOne
  <2>3. Returning(l)' = Returning(l)
    BY <1>1 DEF Returning
  <2>4. CASE l = k
    <3>1. Taken(n, l) = 0 /\ Taken(n, l)' = UNIT
      BY <1>1, <1>2, <1>3, <1>4, <2>4 DEF Taken, Holds, NotYetTaken, Units, Placed
    <3> QED BY <1>4, <2>1, <2>2, <2>3, <2>4, <3>1
  <2>5. CASE l # k
    <3>1. Taken(n, l)' = Taken(n, l)
      BY <1>1, <1>2, <1>3, <2>5 DEF Taken, Holds, NotYetTaken, Units, Placed
    <3> QED BY <2>2, <2>3, <2>5, <3>1
  <2> QED BY <2>4, <2>5
<1> QED BY <1>5, <1>6, MovesShares DEF Moves
-----------------------------------------------------------------------------
(* The cells Reserve chooses, and those it is yet to take, stay as they were. *)
CellsInv == ChosenCells /\ CellsToTake

(* Reserve chooses leaves that fit. *)
LEMMA SelectCells ==
  ASSUME TypeOK, NEW x \in Nodes, ReserveSelect(x)
  PROVE  CellsInv'
<1>1. /\ pc = "select" /\ cyc.pod \in Pod /\ cyc \in Cycle /\ cyc.pod.name \in Names
      /\ UNCHANGED avail
  BY CycleNames DEF ReserveSelect, TypeOK, Choosing, cellVars
<1>2. PICK ps \in PodStatus : ps = GetPodLabels(cyc.pod) /\ ps.uid = cyc.pod.uid
  BY <1>1, LabelsUid
<1>3. PICK cells \in CellChoices(x, ps) :
        /\ status' = [status EXCEPT ![cyc.pod.name] = [ps EXCEPT !.cells = cells]]
        /\ \/ pc' = "panicked"
           \/ /\ cells # {} /\ pc' = "assume"
              /\ cyc' = [cyc EXCEPT !.node = x, !.multi = MultiGPU(ps.request)]
  BY <1>2 DEF ReserveSelect, Panic
<1>4. CASE pc' = "panicked"
  BY <1>4 DEF CellsInv, ChosenCells, CellsToTake, Placed
<1>5. CASE pc' # "panicked"
  <2> DEFINE new == [ps EXCEPT !.cells = cells]
  <2>1. /\ cells # {} /\ pc' = "assume" /\ cyc'.pod = cyc.pod /\ cyc'.multi = MultiGPU(ps.request)
    BY <1>1, <1>3, <1>5 DEF Cycle
  <2>2. cells \subseteq Leaves
    BY DEF CellChoices, LeavesOf
  <2>3. new \in PodStatus /\ new.cells = cells /\ new.request = ps.request /\ new.uid = ps.uid
    BY <2>2 DEF PodStatus
  <2>4. status' = [status EXCEPT ![cyc.pod.name] = new]
    BY <1>3
  <2> HIDE DEF new
  <2>5. status'[cyc.pod.name] = new /\ new # NoStatus
    BY <1>1, <2>3, <2>4, AbsenceAssumption DEF TypeOK
  <2>6. MultiGPU(ps.request) => \A l \in cells : avail'[l] = UNIT
    BY <1>1 DEF CellChoices
  <2>7. ~ MultiGPU(ps.request) => \E l \in Leaves : cells = {l}
    <3>1. SUFFICES ASSUME ~ MultiGPU(ps.request) PROVE \E l \in cells : cells = {l}
      BY <2>2
    <3> QED BY <2>1, <3>1 DEF CellChoices
  <2>9. cyc'.multi = MultiGPU(status'[cyc'.pod.name].request)
    BY <2>1, <2>3, <2>5, Zenon
  <2>10. status'[cyc'.pod.name].cells = cells
    BY <2>1, <2>3, <2>5
  <2>11. IF cyc'.multi THEN \A l \in cells : avail'[l] = UNIT ELSE \E l \in Leaves : cells = {l}
    BY <2>1, <2>6, <2>7, Zenon
  <2>12. pc' # "take"
    BY <2>1
  <2> QED BY <2>9, <2>10, <2>11, <2>12, Zenon DEF CellsInv, ChosenCells, CellsToTake
<1> QED BY <1>4, <1>5

(* A multi-GPU pod is about to take the leaves of its status. *)
LEMMA AssumeMultiCells ==
  ASSUME TypeOK, LifeInv, ChosenCells, AssumeMultiPod
  PROVE  CellsInv'
<1>1. pc = "empty" /\ pc \in Choosing /\ pc \in Placed /\ cyc.pod.name \in Names
  BY CycleNames DEF AssumeMultiPod, Choosing, Placed
<1>2. PICK old \in PodStatus : old = status[cyc.pod.name]
  BY <1>1, ChosenInHand
<1>3. PICK new \in PodStatus :
        /\ status' = [status EXCEPT ![cyc.pod.name] = new]
        /\ new.cells = old.cells /\ new.request = old.request
        /\ cyc.multi /\ pc' = IF old.cells = {} THEN "delete" ELSE "take"
        /\ cyc'.pod = cyc.pod /\ cyc'.left = old.cells /\ UNCHANGED avail
  BY <1>2, AssumeMultiGives
<1>4. MultiGPU(old.request) /\ \A l \in old.cells : avail[l] = UNIT
  BY <1>1, <1>2, <1>3, Zenon DEF ChosenCells
<1>5. status'[cyc'.pod.name] = new
  BY <1>1, <1>3 DEF TypeOK
<1> QED BY <1>3, <1>4, <1>5 DEF CellsInv, ChosenCells, CellsToTake, Placed

(* Taking one leaf leaves the others whole. *)
LEMMA TakeCellCells ==
  ASSUME TypeOK, CellsToTake, NEW k \in Leaves, TakeCell(k)
  PROVE  CellsInv'
<1>1. /\ pc = "take" /\ UNCHANGED status /\ cyc \in Cycle
      /\ ReserveResource(k, avail[k], freeMem[k]) /\ pc' \in {"delete", "take"}
  BY DEF TakeCell, TypeOK
<1>2. cyc'.pod = cyc.pod /\ cyc'.left = cyc.left \ {k}
  <2>1. \E copy : cyc' = [cyc EXCEPT !.left = @ \ {k}, !.copy = copy]
    BY DEF TakeCell
  <2> QED BY <1>1, <2>1 DEF Cycle
<1>3. cyc.left \subseteq Leaves /\ avail[k] \in Int /\ freeMem[k] \in Int
  BY <1>1, TopologyAssumption DEF Cycle, TypeOK
<1>4. \A l \in cyc.left \ {k} : avail'[l] = avail[l]
  BY <1>1, <1>3, ReserveTakesOne
<1> QED BY <1>1, <1>2, <1>4 DEF CellsInv, ChosenCells, CellsToTake, Placed

(* What the informer gives back does not make a whole leaf more than whole,  *)
(* and it leaves the status of the pod in a cycle alone.                     *)
LEMMA InformerKeeps ==
  ASSUME TypeOK, TypeOK', LifeInv, AvailCovers', Informer
  PROVE  /\ UNCHANGED <<pc, cyc, filled>>
         /\ \A l \in Leaves : avail'[l] >= avail[l] /\ (avail[l] = UNIT => avail'[l] = UNIT)
         /\ pc \in Choosing \cup Replacing \cup {"setuid"}
              => status'[cyc.pod.name] = status[cyc.pod.name]
<1>1. UNCHANGED <<pc, cyc, filled>>
  BY InformerGives
<1>2. pc \in Choosing \cup Replacing \cup {"setuid"}
        => status'[cyc.pod.name] = status[cyc.pod.name]
  <2>1. ASSUME NEW n \in Names, status' = [status EXCEPT ![n] = NoStatus],
               pc \in Choosing \cup Replacing \cup {"setuid"}, cyc.pod.name # n
        PROVE  status'[cyc.pod.name] = status[cyc.pod.name]
    BY <2>1, CycleNames DEF TypeOK
  <2> QED BY <2>1, InformerGives
<1>3. ASSUME NEW l \in Leaves
      PROVE  avail'[l] >= avail[l] /\ (avail[l] = UNIT => avail'[l] = UNIT)
  <2>1. \/ avail'[l] = avail[l]
        \/ /\ avail'[l] + Returning(l)' = avail[l] + Returning(l)
           /\ Returning(l)' \in {0, Returning(l)}
    BY InformerGives
  <2>2. /\ avail[l] \in Int /\ avail'[l] \in Int /\ UNIT \in Nat
        /\ Returning(l) \in Nat /\ Returning(l)' \in Nat /\ TakenOf(l)' \in Nat
    BY TopologyAssumption, RequestAssumption, ReturningType, TakenTypeNext DEF TypeOK
  <2>3. avail'[l] + Returning(l)' + TakenOf(l)' <= UNIT
    BY DEF AvailCovers
  <2>4. CASE avail'[l] = avail[l]
    BY <2>2, <2>4
  <2>5. CASE /\ avail'[l] + Returning(l)' = avail[l] + Returning(l)
             /\ Returning(l)' = 0 \/ Returning(l)' = Returning(l)
    <3>1. \A a, b, r, q, t, u \in Int :
            (r >= 0 /\ t >= 0 /\ (q = 0 \/ q = r) /\ b + q = a + r /\ b + q + t <= u)
              => b >= a /\ (a = u => b = u)
      OBVIOUS
    <3>2. /\ avail[l] \in Int /\ avail'[l] \in Int /\ UNIT \in Int
          /\ Returning(l) \in Int /\ Returning(l)' \in Int /\ TakenOf(l)' \in Int
          /\ Returning(l) >= 0 /\ TakenOf(l)' >= 0
      BY <2>2
    <3> QED BY <2>3, <2>5, <3>1, <3>2
  <2> QED BY <2>1, <2>4, <2>5
<1> QED BY <1>1, <1>2, <1>3

(* So the cells chosen stay as they were. *)
LEMMA InformerCells ==
  ASSUME TypeOK, TypeOK', LifeInv, CellsInv, AvailCovers', Informer
  PROVE  CellsInv'
<1>1. /\ UNCHANGED <<pc, cyc>>
      /\ \A l \in Leaves : avail[l] = UNIT => avail'[l] = UNIT
      /\ pc \in Placed \cup {"take"} => status'[cyc.pod.name] = status[cyc.pod.name]
  BY InformerKeeps DEF Placed, Choosing, Replacing
<1>2. ChosenCells'
  <2> SUFFICES ASSUME pc \in Placed
               PROVE  /\ cyc.multi = MultiGPU(status'[cyc.pod.name].request)
                      /\ IF cyc.multi
                           THEN \A l \in status'[cyc.pod.name].cells : avail'[l] = UNIT
                           ELSE \E l \in Leaves : status'[cyc.pod.name].cells = {l}
    BY <1>1, Zenon DEF ChosenCells
  <2>1. status[cyc.pod.name].cells \subseteq Leaves
    BY ChosenInHand DEF Placed, Choosing, PodStatus
  <2>2. /\ cyc.multi = MultiGPU(status[cyc.pod.name].request)
        /\ IF cyc.multi THEN \A l \in status[cyc.pod.name].cells : avail[l] = UNIT
                        ELSE \E l \in Leaves : status[cyc.pod.name].cells = {l}
    BY Zenon DEF CellsInv, ChosenCells
  <2>3. status'[cyc.pod.name] = status[cyc.pod.name]
    BY <1>1
  <2>4. (\A l \in status[cyc.pod.name].cells : avail[l] = UNIT)
          => \A l \in status[cyc.pod.name].cells : avail'[l] = UNIT
    BY <1>1, <2>1
  <2> QED BY <2>2, <2>3, <2>4, Zenon
<1>3. CellsToTake'
  <2> SUFFICES ASSUME pc = "take"
               PROVE  /\ MultiGPU(status'[cyc.pod.name].request)
                      /\ cyc.left \subseteq status'[cyc.pod.name].cells
                      /\ \A l \in cyc.left : avail'[l] = UNIT
    BY <1>1 DEF CellsToTake
  <2>1. cyc.left \subseteq Leaves
    BY DEF TypeOK, Cycle
  <2> QED BY <1>1, <2>1 DEF CellsInv, CellsToTake
<1> QED BY <1>2, <1>3 DEF CellsInv

(* Every step keeps CellsInv. *)
LEMMA CellsStep ==
  ASSUME TypeOK, TypeOK', LifeInv, CellsInv, AvailCovers', [LifeNext]_vars
  PROVE  CellsInv'
<1>1. CASE Environment \/ UNCHANGED vars \/ LookUpAgain
  <2>1. /\ UNCHANGED <<status, avail>>
        /\ pc' = "take" => UNCHANGED <<pc, cyc>>
        /\ pc' \in Placed => pc \in Placed /\ cyc'.pod = cyc.pod /\ cyc'.multi = cyc.multi
    <3>1. CASE Environment \/ UNCHANGED vars
      BY <3>1 DEF Environment, UserCreate, UserDelete, Finish, vars, cellVars
    <3>2. CASE LookUpAgain
      <4>1. /\ pc = "assume" /\ pc' = "empty" /\ UNCHANGED <<status, avail>>
            /\ cyc' = [cyc EXCEPT !.ps = status[cyc.pod.name], !.same = TRUE]
        BY <3>2, LookUpAgainFinds DEF cellVars
      <4>2. cyc'.pod = cyc.pod /\ cyc'.multi = cyc.multi
        BY <4>1 DEF TypeOK, Cycle
      <4> QED BY <4>1, <4>2 DEF Placed
    <3> QED BY <1>1, <3>1, <3>2
  <2> QED BY <2>1, Zenon DEF CellsInv, ChosenCells, CellsToTake
<1>2. CASE Informer
  BY <1>2, InformerCells
<1>3. CASE \E n \in Names : PreFilter(n)
  BY <1>3 DEF PreFilter, CellsInv, ChosenCells, CellsToTake, Placed
<1>4. CASE InCycle
  <2>1. ~ FilterBoundPod
    BY Zenon, NeverABoundPod
  <2>2. CASE \E x \in Nodes : ReserveSelect(x)
    BY <2>2, SelectCells
  <2>3. CASE AssumeMultiPod
    BY <2>3, AssumeMultiCells DEF CellsInv
  <2>4. CASE \E l \in Leaves : TakeCell(l)
    BY <2>4, TakeCellCells DEF CellsInv
  <2>5. CASE \/ \E x \in Nodes, seen \in BOOLEAN : FilterAddNode(x, seen)
             \/ FilterDecide \/ AssumeSharedPod
             \/ ReserveDelete \/ ReserveCreate \/ ReserveCreateFails \/ ReserveSetUid
    <3>1. pc' \notin Placed \cup {"take"}
      BY <2>5 DEF FilterAddNode, FilterDecide, AssumeSharedPod, Panic, ReserveDelete,
                  ReserveCreate, ReserveCreateFails, ReserveSetUid, Placed
    <3> QED BY <3>1 DEF CellsInv, ChosenCells, CellsToTake
  <2> QED BY <1>1, <1>4, <2>1, <2>2, <2>3, <2>4, <2>5 DEF InCycle
<1> QED BY <1>1, <1>2, <1>3, <1>4 DEF LifeNext

(* A step of one life moves shares or chooses. *)
LEMMA MovesOrChooses ==
  ASSUME TypeOK, TypeOK', LifeInv, CellsInv, [LifeNext]_vars
  PROVE  SharesMoved \/ Chooses
<1>1. CASE Environment \/ UNCHANGED vars
  BY <1>1, QuietAccount
<1>2. CASE Informer
  BY <1>2, InformerAccount
<1>3. CASE \E n \in Names : PreFilter(n)
  BY <1>3 DEF Chooses
<1>4. CASE InCycle
  <2>1. ~ FilterBoundPod
    BY Zenon, NeverABoundPod
  <2>2. CASE FilterDecide \/ \E x \in Nodes : ReserveSelect(x)
    BY <2>2 DEF Chooses
  <2>3. CASE \/ \E x \in Nodes, seen \in BOOLEAN : FilterAddNode(x, seen)
             \/ LookUpAgain \/ ReserveDelete \/ ReserveCreate \/ ReserveCreateFails
             \/ ReserveSetUid
    BY <2>3, QuietAccount
  <2>4. CASE AssumeSharedPod
    BY <2>4, AssumeSharedAccount DEF CellsInv
  <2>5. CASE AssumeMultiPod
    BY <2>5, AssumeMultiAccount
  <2>6. CASE \E l \in Leaves : TakeCell(l)
    BY <2>6, TakeCellAccount DEF CellsInv
  <2> QED BY <1>4, <2>1, <2>2, <2>3, <2>4, <2>5, <2>6 DEF InCycle
<1> QED BY <1>1, <1>2, <1>3, <1>4 DEF LifeNext

(* Every step keeps what is held, what is being given back and what is left   *)
(* of a leaf within the leaf.                                                *)
LEMMA AccountStep ==
  ASSUME TypeOK, TypeOK', LifeInv, CellsInv, AvailCovers, [LifeNext]_vars
  PROVE  AvailCovers'
<1>5. SharesMoved \/ Chooses
  BY MovesOrChooses
<1>6. CASE SharesMoved
  BY <1>6, Zenon DEF SharesMoved, AvailCovers
<1>7. CASE Chooses
  <2>1. ASSUME NEW l \in Leaves
        PROVE  avail'[l] + Returning(l)' + TakenOf(l)' <= UNIT
    <3>1. avail'[l] = avail[l] /\ Returning(l)' = Returning(l) /\ TakenOf(l)' <= TakenOf(l)
      BY <1>7, ChoosingAccount DEF Chooses, Returning
    <3>2. /\ avail[l] \in Int /\ Returning(l) \in Nat /\ TakenOf(l) \in Nat
          /\ TakenOf(l)' \in Nat /\ UNIT \in Nat
      BY TopologyAssumption, RequestAssumption, ReturningType, TakenType, TakenTypeNext DEF TypeOK
    <3>3. avail[l] + Returning(l) + TakenOf(l) <= UNIT
      BY DEF AvailCovers
    <3> QED BY <3>1, <3>2, <3>3
  <2> QED BY <2>1 DEF AvailCovers
<1> QED BY <1>5, <1>6, <1>7

(* In the beginning nothing is held, and every leaf is whole. *)
LEMMA GpuInit == Init => GpuInv
<1> SUFFICES ASSUME Init PROVE GpuInv
  OBVIOUS
<1>1. PlaceInv
  BY DEF Init, PlaceInv, StatusAsAsked, StatusOfSpecs, GpusOfTheAlive, GpusOfTheCopy,
         ChosenCells, CellsToTake, Choosing, Placed, Replacing, Alive, HasStatus
<1>2. ASSUME NEW l \in Leaves
      PROVE  TakenOf(l) = 0 /\ avail[l] = UNIT /\ UNIT \in Nat
  <2>1. TakenOf(l) = 0
    <3> DEFINE f == [m \in Names |-> Taken(m, l)]
    <3>1. \A m \in Names : f[m] = 0
      BY DEF Init, Taken, Holds
    <3>2. TakenOf(l) = Total(f, Names)
      BY TakenIsTotal
    <3> HIDE DEF f
    <3> QED BY <3>1, <3>2, TotalZero, NamesAssumption
  <2>2. Cardinality(LeavesUnder(l)) = 1
    <3>1. LeavesUnder(l) = {l}
      BY TopologyAssumption DEF LeavesUnder
    <3> QED BY <3>1, FS_Singleton
  <2>3. avail[l] = UNIT * 1
    BY <2>2, TopologyAssumption DEF Init, Full
  <2> QED BY <2>1, <2>3, RequestAssumption
<1>3. \A l \in Leaves : Returning(l) = 0
  BY DEF Init, Returning
<1> QED BY <1>1, <1>2, <1>3 DEF GpuInv, AvailCovers

(* Every step of one life of the process keeps GpuInv. *)
THEOREM GpuStep ==
  TypeOK /\ TypeOK' /\ LifeInv /\ GpuInv /\ [LifeNext]_vars => GpuInv'
<1> SUFFICES ASSUME TypeOK, TypeOK', LifeInv, GpuInv, [LifeNext]_vars PROVE GpuInv'
  OBVIOUS
<1>1. PlaceInv /\ HandInv /\ CellsInv /\ AvailCovers
  BY PlaceParts DEF GpuInv, CellsInv
<1>2. HandInv'
  BY <1>1, HandStep
<1>3. AvailCovers'
  BY <1>1, AccountStep
<1>4. CellsInv'
  BY <1>1, <1>3, CellsStep
<1> QED BY <1>2, <1>3, <1>4 DEF GpuInv, PlaceInv, HandInv, CellsInv

(* What the statuses hold of a leaf, what is being given back and what is     *)
(* left of it never exceed it, if users leave a pod alone that a cycle has in *)
(* hand.                                                                      *)
THEOREM GpuCorrect ==
  ASSUME OriginalsStay PROVE LifeSpec => []GpuInv
<1>1. TypeOK /\ TypeOK' /\ LifeInv /\ GpuInv /\ [LifeNext]_vars => GpuInv'
  BY GpuStep
<1>2. LifeSpec => [](TypeOK /\ LifeInv)
  BY LifeCorrect
<1> QED BY <1>1, <1>2, GpuInit, PTL DEF LifeSpec

(* What the statuses hold of a leaf is not more than the leaf. *)
LEMMA TakenFits ==
  ASSUME TypeOK, NeverNegative, AvailCovers, NEW l \in Leaves
  PROVE  TakenOf(l) <= UNIT
<1>1. /\ avail[l] \in Int /\ Returning(l) \in Nat /\ TakenOf(l) \in Nat /\ UNIT \in Nat
  BY TopologyAssumption, RequestAssumption, ReturningType, TakenType DEF TypeOK
<1>2. avail[l] >= 0 /\ avail[l] + Returning(l) + TakenOf(l) <= UNIT
  BY DEF NeverNegative, AvailCovers
<1> QED BY <1>1, <1>2

(* An alive pod uses no more of a leaf than its status holds. *)
LEMMA ShareIsTaken ==
  ASSUME TypeOK, LifeInv, GpuInv, NEW n \in Names, NEW l \in Leaves
  PROVE  ShareOf(n, l) \in Nat /\ ShareOf(n, l) <= Taken(n, l)
<1>0. Taken(n, l) \in Nat
  BY TakenType
<1>1. CASE Alive(n) /\ l \in api[n].gpus
  <2>1. /\ status[n] # NoStatus /\ l \in status[n].cells
        /\ status[n].request = api[n].spec.request
    BY <1>1 DEF GpuInv, PlaceInv, GpusOfTheAlive, StatusOf
  <2>2. ~ NotYetTaken(n, l)
    BY <1>1, LifeParts DEF NotYetTaken, Alive, MemoryInv, NotYetBound, Choosing, Placed, Replacing
  <2>3. ShareOf(n, l) = Taken(n, l)
    BY <1>1, <2>1, <2>2 DEF ShareOf, Taken, Holds, Units
  <2> QED BY <1>0, <2>3
<1>2. CASE ~ (Alive(n) /\ l \in api[n].gpus)
  <2>1. ShareOf(n, l) = 0
    BY <1>2 DEF ShareOf
  <2> QED BY <1>0, <2>1
<1> QED BY <1>1, <1>2

(* The pods alive on a GPU never have more than the whole of it: in one life  *)
(* of the process Reserve and deletePod hand no share out twice, if users    *)
(* leave a pod alone that a cycle has in hand.                               *)
THEOREM GpuNeverOvercommitted ==
  ASSUME OriginalsStay PROVE LifeSpec => []NoGpuOvercommit
<1>1. TypeOK /\ LifeInv /\ ShareInv /\ GpuInv => NoGpuOvercommit
  <2> SUFFICES ASSUME TypeOK, LifeInv, ShareInv, GpuInv, NEW l \in Leaves
               PROVE  MapThenSumSet(LAMBDA n : ShareOf(n, l), Names) <= UNIT
    BY DEF NoGpuOvercommit
  <2> DEFINE f == [n \in Names |-> ShareOf(n, l)]
             g == [m \in Names |-> Taken(m, l)]
  <2>1. MapThenSumSet(LAMBDA n : ShareOf(n, l), Names) = Total(f, Names)
    BY Zenon DEF Total, MapThenSumSet, MapThenFoldSet
  <2>2. TakenOf(l) = Total(g, Names)
    BY TakenIsTotal
  <2>3. \A m \in Names : ShareOf(m, l) \in Nat /\ ShareOf(m, l) <= Taken(m, l)
                         /\ Taken(m, l) \in Nat
    BY ShareIsTaken, TakenType
  <2>4. \A m \in Names : f[m] \in Int /\ g[m] \in Int /\ f[m] <= g[m]
    BY <2>3
  <2> HIDE DEF f, g
  <2>5. Total(f, Names) \in Int /\ Total(g, Names) \in Int /\ Total(f, Names) <= Total(g, Names)
    BY <2>4, TotalMonotone, TotalType, NamesAssumption
  <2>6. TakenOf(l) <= UNIT /\ UNIT \in Int
    BY TakenFits, RequestAssumption DEF GpuInv, ShareInv
  <2> QED BY <2>1, <2>2, <2>5, <2>6
<1> QED BY <1>1, LifeCorrect, ShareCorrect, GpuCorrect, PTL
(* The same of memory. *)
LEMMA MemoryIsTotal ==
  ASSUME NEW l \in Leaves
  PROVE  /\ TakenMemoryOf(l) = Total([m \in Names |-> TakenMemory(m, l)], Names)
         /\ TakenMemoryOf(l)' = Total([m \in Names |-> TakenMemory(m, l)'], Names)
<1>1. TakenMemoryOf(l) = Total([m \in Names |-> TakenMemory(m, l)], Names)
  BY Zenon DEF TakenMemoryOf, Total, MapThenSumSet, MapThenFoldSet
<1>2. TakenMemoryOf(l)' = Total([m \in Names |-> TakenMemory(m, l)'], Names)
  BY Zenon DEF TakenMemoryOf, Total, MapThenSumSet, MapThenFoldSet
<1> QED BY <1>1, <1>2

(* It is an amount, before a step and after it. *)
LEMMA MemoryType ==
  ASSUME TypeOK, KnownCells, NEW l \in Leaves
  PROVE  /\ \A m \in Names : TakenMemory(m, l) \in Nat
         /\ TakenMemoryOf(l) \in Nat
<1>1. ASSUME NEW m \in Names PROVE TakenMemory(m, l) \in Nat
  BY RequestAssumption DEF TakenMemory, Holds, KnownCells, KnownCell, TypeOK, PodStatus
<1> DEFINE f == [m \in Names |-> TakenMemory(m, l)]
<1>2. \A m \in Names : f[m] \in Nat
  BY <1>1
<1>3. Total(f, Names) \in Nat
  <2> HIDE DEF f
  <2> QED BY <1>2, TotalOfNaturals, NamesAssumption
<1> QED BY <1>1, <1>3, MemoryIsTotal

(* ... if the step keeps the types. *)
LEMMA MemoryTypeNext ==
  ASSUME TypeOK', KnownCells', NEW l \in Leaves
  PROVE  /\ \A m \in Names : TakenMemory(m, l)' \in Nat
         /\ TakenMemoryOf(l)' \in Nat
<1>1. ASSUME NEW m \in Names PROVE TakenMemory(m, l)' \in Nat
  BY RequestAssumption DEF TakenMemory, Holds, KnownCells, KnownCell, TypeOK, PodStatus
<1> DEFINE f == [m \in Names |-> TakenMemory(m, l)']
<1>2. \A m \in Names : f[m] \in Nat
  BY <1>1
<1>3. Total(f, Names) \in Nat
  <2> HIDE DEF f
  <2> QED BY <1>2, TotalOfNaturals, NamesAssumption
<1> QED BY <1>1, <1>3, MemoryIsTotal

(* A GPU has all of its memory once it is known. *)
LEMMA MemoryOfLeafType ==
  \A l \in Leaves : /\ MemoryOfLeaf(l) \in Nat /\ MemoryOfLeaf(l) <= FullMem
                    /\ MemoryOfLeaf(l)' \in Nat /\ MemoryOfLeaf(l)' <= FullMem
                    /\ FullMem \in Nat
  BY RequestAssumption DEF MemoryOfLeaf

(* What deletePod still has to give back of it is an amount too. *)
LEMMA ReturningMemoryType ==
  ASSUME NEW l \in Leaves
  PROVE  /\ TypeOK /\ KnownCells => ReturningMemory(l) \in Nat
         /\ TypeOK' /\ KnownCells' => ReturningMemory(l)' \in Nat
<1>1. TypeOK /\ KnownCells => ReturningMemory(l) \in Nat
  BY RequestAssumption DEF ReturningMemory, KnownCells, KnownCell, TypeOK, PodStatus
<1>2. TypeOK' /\ KnownCells' => ReturningMemory(l)' \in Nat
  BY RequestAssumption DEF ReturningMemory, KnownCells, KnownCell, TypeOK, PodStatus
<1> QED BY <1>1, <1>2

(* A step that changes nothing that a name holds of a leaf's memory. *)
LEMMA MemorySame ==
  ASSUME NEW l \in Leaves, \A n \in Names : TakenMemory(n, l)' = TakenMemory(n, l)
  PROVE  TakenMemoryOf(l)' = TakenMemoryOf(l)
<1>1. [m \in Names |-> TakenMemory(m, l)'] = [m \in Names |-> TakenMemory(m, l)]
  OBVIOUS
<1> QED BY <1>1, MemoryIsTotal

(* A step that takes no memory. *)
LEMMA MemoryLower ==
  ASSUME TypeOK, TypeOK', KnownCells, KnownCells', NEW l \in Leaves,
         \A n \in Names : TakenMemory(n, l)' <= TakenMemory(n, l)
  PROVE  TakenMemoryOf(l)' <= TakenMemoryOf(l)
<1> DEFINE f == [m \in Names |-> TakenMemory(m, l)]
           g == [m \in Names |-> TakenMemory(m, l)']
<1>1. \A n \in Names : TakenMemory(n, l) \in Nat /\ TakenMemory(n, l)' \in Nat
  BY MemoryType, MemoryTypeNext
<1>2. \A n \in Names : f[n] \in Int /\ g[n] \in Int /\ g[n] <= f[n]
  BY <1>1
<1>3. Total(g, Names) <= Total(f, Names)
  <2> HIDE DEF f, g
  <2> QED BY <1>2, TotalMonotone, NamesAssumption
<1> QED BY <1>3, MemoryIsTotal

(* A step that changes what one name holds changes the total by as much. *)
LEMMA MemoryChanges ==
  ASSUME TypeOK, TypeOK', KnownCells, KnownCells', NEW n \in Names, NEW l \in Leaves,
         \A m \in Names \ {n} : TakenMemory(m, l)' = TakenMemory(m, l)
  PROVE  TakenMemoryOf(l)' = TakenMemoryOf(l) - TakenMemory(n, l) + TakenMemory(n, l)'
<1> DEFINE f == [m \in Names |-> TakenMemory(m, l)]
           g == [m \in Names |-> TakenMemory(m, l)']
<1>1. \A m \in Names : TakenMemory(m, l) \in Nat /\ TakenMemory(m, l)' \in Nat
  BY MemoryType, MemoryTypeNext
<1>2. \A m \in Names : f[m] \in Int /\ g[m] \in Int
  BY <1>1
<1>3. /\ \A m \in Names \ {n} : g[m] = f[m]
      /\ f[n] = TakenMemory(n, l) /\ g[n] = TakenMemory(n, l)'
  <2>1. \A m \in Names \ {n} : TakenMemory(m, l)' = TakenMemory(m, l)
    OBVIOUS
  <2> QED BY ONLY <2>1, n \in Names
<1>4. TakenMemoryOf(l) = Total(f, Names) /\ TakenMemoryOf(l)' = Total(g, Names)
  BY MemoryIsTotal
<1> HIDE DEF f, g
<1>5. Total(g, Names) = Total(f, Names) - f[n] + g[n]
  <2>1. /\ IsFiniteSet(Names) /\ \A y \in Names : f[y] \in Int /\ g[y] \in Int
        /\ \A y \in Names \ {n} : g[y] = f[y]
    BY <1>2, <1>3, NamesAssumption
  <2>2. \A h, k : (/\ \A y \in Names : h[y] \in Int /\ k[y] \in Int
                   /\ \A y \in Names \ {n} : k[y] = h[y])
                  => Total(k, Names) = Total(h, Names) - h[n] + k[n]
    BY NamesAssumption, TotalChange
  <2> QED BY ONLY <2>1, <2>2
<1> QED BY <1>3, <1>4, <1>5

(* The same of memory, which a GPU also gets as a whole when it is known; and *)
(* a multi-GPU pod takes all there is left of a GPU nobody else holds any of. *)
MemoryMoved ==
  \A l \in Leaves :
    \/ freeMem'[l] + ReturningMemory(l)' + TakenMemoryOf(l)' + MemoryOfLeaf(l)
         = freeMem[l] + ReturningMemory(l) + TakenMemoryOf(l) + MemoryOfLeaf(l)'
    \/ freeMem'[l] + ReturningMemory(l)' + TakenMemoryOf(l)' = MemoryOfLeaf(l)'

(* A step of one status, with no new GPU, does that. *)
LEMMA MovesMemory ==
  ASSUME TypeOK, TypeOK', KnownCells, KnownCells', UNCHANGED filled, NEW n \in Names,
         \A m \in Names \ {n}, l \in Leaves : TakenMemory(m, l)' = TakenMemory(m, l),
         \A l \in Leaves :
           \/ freeMem'[l] + ReturningMemory(l)' + TakenMemory(n, l)'
                = freeMem[l] + ReturningMemory(l) + TakenMemory(n, l)
           \/ /\ TakenMemoryOf(l) = 0 /\ TakenMemory(n, l) = 0
              /\ freeMem'[l] + ReturningMemory(l)' + TakenMemory(n, l)' = MemoryOfLeaf(l)
  PROVE  MemoryMoved
<1> SUFFICES ASSUME NEW l \in Leaves
             PROVE  \/ freeMem'[l] + ReturningMemory(l)' + TakenMemoryOf(l)' + MemoryOfLeaf(l)
                         = freeMem[l] + ReturningMemory(l) + TakenMemoryOf(l) + MemoryOfLeaf(l)'
                    \/ freeMem'[l] + ReturningMemory(l)' + TakenMemoryOf(l)' = MemoryOfLeaf(l)'
  BY DEF MemoryMoved
<1>1. TakenMemoryOf(l)' = TakenMemoryOf(l) - TakenMemory(n, l) + TakenMemory(n, l)'
  BY MemoryChanges
<1>2. /\ TakenMemoryOf(l) \in Nat /\ TakenMemoryOf(l)' \in Nat
      /\ TakenMemory(n, l) \in Nat /\ TakenMemory(n, l)' \in Nat
  BY MemoryType, MemoryTypeNext
<1>3. ReturningMemory(l) \in Nat /\ ReturningMemory(l)' \in Nat
  BY ReturningMemoryType
<1>4. freeMem[l] \in Int /\ freeMem'[l] \in Int
  BY TopologyAssumption DEF TypeOK
<1>5. MemoryOfLeaf(l)' = MemoryOfLeaf(l) /\ MemoryOfLeaf(l) \in Nat
  BY MemoryOfLeafType DEF MemoryOfLeaf
<1>6. \/ freeMem'[l] + ReturningMemory(l)' + TakenMemory(n, l)'
           = freeMem[l] + ReturningMemory(l) + TakenMemory(n, l)
      \/ /\ TakenMemoryOf(l) = 0 /\ TakenMemory(n, l) = 0
         /\ freeMem'[l] + ReturningMemory(l)' + TakenMemory(n, l)' = MemoryOfLeaf(l)
  OBVIOUS
<1> QED BY <1>1, <1>2, <1>3, <1>4, <1>5, <1>6

(* What other names hold of a leaf's memory does not depend on the cycle of one. *)
LEMMA MemoryOthers ==
  ASSUME NEW n \in Names, \A m \in Names \ {n} : status'[m] = status[m],
         \/ UNCHANGED <<pc, cyc>>
         \/ /\ pc \in Placed \cup {"take"} => cyc.pod.name = n
            /\ pc' \in Placed \cup {"take"} => cyc'.pod.name = n
  PROVE  \A m \in Names \ {n}, l \in Leaves : TakenMemory(m, l)' = TakenMemory(m, l)
  BY DEF TakenMemory, Holds, NotYetTaken, Placed

(* getPodLabels finds or makes a status whose cells are known. *)
LEMMA LabelsKnown ==
  ASSUME TypeOK, KnownCells, NEW pod \in Pod
  PROVE  /\ GetPodLabels(pod).memory >= 0
         /\ \A l \in GetPodLabels(pod).cells : NodeOf[l] \in filled
<1>1. pod.name \in Names /\ pod.spec.memory \in Nat
  BY RequestAssumption DEF Pod
<1> QED BY <1>1 DEF GetPodLabels, HasStatus, KnownCells, KnownCell

(* A step that writes one status, of known cells. *)
LEMMA WritesKnown ==
  ASSUME TypeOK, KnownCells, filled \subseteq filled', UNCHANGED <<hpc, ending>>,
         NEW n \in Names, NEW ps \in PodStatus,
         status' = [status EXCEPT ![n] = ps], ps.memory >= 0,
         \A l \in ps.cells : NodeOf[l] \in filled
  PROVE  KnownCells'
<1>1. status'[n] = ps /\ \A m \in Names : m # n => status'[m] = status[m]
  BY DEF TypeOK
<1> QED BY <1>1 DEF KnownCells, KnownCell

(* What deletePod has to give back was a status, or part of one. *)
LEMMA InformerEnding ==
  ASSUME TypeOK, LifeInv, Informer, hpc' # "ready"
  PROVE  \/ /\ hpc # "ready" /\ ending'.cells \subseteq ending.cells
            /\ ending'.memory = ending.memory /\ ending'.request = ending.request
         \/ \E n \in Names : status[n] # NoStatus /\ ending' = status[n]
<1>1. CASE HandlesEvent
  <2>1. CASE UNCHANGED endVars
    <3>1. hpc = "ready" /\ hpc' = hpc
      BY <1>1, <2>1, HandlerEffect DEF endVars
    <3> QED BY <3>1
  <2>2. CASE ~ UNCHANGED endVars
    <3>1. PICK n \in Names :
            /\ status[n] \in PodStatus
            /\ IF MultiGPU(status[n].request) THEN Reclaiming(status[n])
               ELSE hpc' = "unmask" /\ ending' = status[n]
      BY <1>1, <2>2, HandlerEffect
    <3>2. ending' = status[n] /\ status[n] # NoStatus
      BY <3>1, AbsenceAssumption DEF Reclaiming
    <3> QED BY <3>2
  <2> QED BY <2>1, <2>2
<1>2. CASE UnmaskEnded
  <2>1. hpc = "unmask" /\ Reclaiming(ending)
    BY <1>2 DEF UnmaskEnded
  <2>2. ending' = ending
    BY <2>1 DEF Reclaiming
  <2> QED BY <2>1, <2>2
<1>3. ASSUME NEW k \in Leaves, ReclaimCell(k)
      PROVE  /\ hpc # "ready" /\ ending'.cells \subseteq ending.cells
             /\ ending'.memory = ending.memory /\ ending'.request = ending.request
  <2> DEFINE rest == [ending EXCEPT !.cells = @ \ {k}]
  <2>1. hpc = "reclaim" /\ Reclaiming(rest)
    BY <1>3 DEF ReclaimCell
  <2>2. ending \in PodStatus
    BY <2>1 DEF TypeOK
  <2>3. rest.cells = ending.cells \ {k} /\ rest.request = ending.request
        /\ rest.memory = ending.memory
    BY <2>2 DEF PodStatus
  <2> HIDE DEF rest
  <2>4. ending' = rest
    BY <2>1 DEF Reclaiming
  <2> QED BY <2>1, <2>3, <2>4
<1> QED BY <1>1, <1>2, <1>3 DEF Informer, HandlesEvent

(* Every step keeps KnownCells: Reserve chooses leaves of a node Filter knows. *)
LEMMA KnownStep ==
  ASSUME TypeOK, LifeInv, ChosenCells, KnownCells, [LifeNext]_vars
  PROVE  KnownCells'
<1>1. CASE \/ Environment \/ UNCHANGED vars
           \/ \E x \in Nodes, seen \in BOOLEAN : FilterAddNode(x, seen)
           \/ LookUpAgain \/ ReserveDelete \/ ReserveCreate \/ ReserveCreateFails
           \/ ReserveSetUid
  <2>1. filled \subseteq filled'
    <3>1. \/ UNCHANGED <<freeMem, filled>>
          \/ \E x \in Nodes, seen \in BOOLEAN : FilterAddNode(x, seen)
      BY <1>1, QuietTakes
    <3> QED BY <3>1 DEF FilterAddNode, SetCellStatus
  <2>2. \A m \in Names : status'[m] # NoStatus =>
          status[m] # NoStatus /\ status'[m].cells = status[m].cells
          /\ status'[m].memory = status[m].memory
    BY <1>1, QuietTakes
  <2>3. UNCHANGED <<hpc, ending>>
    BY <1>1, QuietTakes
  <2> QED BY <2>1, <2>2, <2>3 DEF KnownCells, KnownCell
<1>2. CASE Informer
  <2>1. filled' = filled
    BY <1>2, InformerGives
  <2>2. \A m \in Names : status'[m] # NoStatus => status'[m] = status[m]
    BY <1>2, InformerGives DEF TypeOK
  <2>3. ASSUME hpc' # "ready" PROVE KnownCell(ending)'
    BY <1>2, <2>1, <2>3, InformerEnding DEF KnownCells, KnownCell
  <2> QED BY <2>1, <2>2, <2>3 DEF KnownCells, KnownCell
<1>3. CASE \E n \in Names : PreFilter(n)
  <2>1. PICK n \in Names : PreFilter(n)
    BY <1>3
  <2>2. api[n] \in Pod /\ UNCHANGED <<filled, hpc, ending>>
    BY <2>1 DEF PreFilter, TypeOK, queueVars, endVars
  <2>3. PICK ps \in PodStatus : ps = GetPodLabels(api[n])
    BY <2>2, LabelsUid
  <2>4. ps.memory >= 0 /\ \A l \in ps.cells : NodeOf[l] \in filled
    BY <2>2, <2>3, LabelsKnown
  <2> QED BY <2>1, <2>2, <2>3, <2>4, WritesKnown DEF PreFilter
<1>4. CASE FilterDecide \/ \E x \in Nodes : ReserveSelect(x)
  <2>1. cyc.pod \in Pod /\ UNCHANGED <<filled, hpc, ending>>
    BY <1>4 DEF FilterDecide, ReserveSelect, TypeOK, queueVars, endVars
  <2>2. PICK n \in Names : n = cyc.pod.name
    BY <2>1 DEF Pod
  <2>3. PICK old \in PodStatus : old = GetPodLabels(cyc.pod)
    BY <2>1, LabelsUid
  <2>4. old.memory >= 0 /\ \A l \in old.cells : NodeOf[l] \in filled
    BY <2>1, <2>3, LabelsKnown
  <2>5. PICK new \in PodStatus :
          /\ status' = [status EXCEPT ![n] = new] /\ new.memory >= 0
          /\ \A l \in new.cells : NodeOf[l] \in filled
    <3>1. CASE FilterDecide
      BY <2>2, <2>3, <2>4, <3>1 DEF FilterDecide
    <3>2. CASE \E x \in Nodes : ReserveSelect(x)
      <4>0. PICK x \in Nodes : ReserveSelect(x)
        BY <3>2
      <4>1. PICK cells \in CellChoices(x, old) :
              status' = [status EXCEPT ![n] = [old EXCEPT !.cells = cells]]
        BY <2>2, <2>3, <4>0 DEF ReserveSelect
      <4>2. cells \in SUBSET Leaves /\ \A l \in cells : NodeOf[l] \in filled
        BY DEF CellChoices, LeavesOf
      <4> DEFINE new == [old EXCEPT !.cells = cells]
      <4>3. new \in PodStatus /\ new.cells = cells /\ new.memory = old.memory
        BY <4>2 DEF PodStatus
      <4>4. status' = [status EXCEPT ![n] = new]
        BY <4>1
      <4> HIDE DEF new
      <4> QED BY <2>4, <4>2, <4>3, <4>4
    <3> QED BY <1>4, <3>1, <3>2
  <2> QED BY <2>1, <2>5, WritesKnown
<1>5. CASE AssumeSharedPod \/ AssumeMultiPod
  <2>1. pc = "empty" /\ pc \in Choosing
    BY <1>5 DEF AssumeSharedPod, AssumeMultiPod, Choosing
  <2>2. PICK n \in Names : n = cyc.pod.name
    BY <2>1, CycleNames
  <2>3. PICK old \in PodStatus : old = status[cyc.pod.name]
    BY <2>1, ChosenInHand
  <2>4. old.memory >= 0 /\ \A l \in old.cells : NodeOf[l] \in filled
    BY <2>2, <2>3, AbsenceAssumption DEF KnownCells, KnownCell
  <2>5. PICK new \in PodStatus :
          /\ status' = [status EXCEPT ![n] = new] /\ new.cells = old.cells
          /\ new.memory \in {old.memory, MemoryFor(old)}
          /\ UNCHANGED <<filled, hpc, ending>>
    <3>1. CASE AssumeSharedPod
      BY <2>2, <2>3, <3>1, AssumeSharedGives
    <3>2. CASE AssumeMultiPod
      BY <2>2, <2>3, <3>2, AssumeMultiGives
    <3> QED BY <1>5, <3>1, <3>2
  <2>6. MemoryFor(old) \in Nat
    BY <2>4, MemoryForType
  <2>7. new.memory >= 0
    BY ONLY <2>4, <2>5, <2>6
  <2>8. \A l \in new.cells : NodeOf[l] \in filled
    BY <2>4, <2>5
  <2> QED BY <2>5, <2>7, <2>8, WritesKnown
<1>6. CASE \E l \in Leaves : TakeCell(l)
  BY <1>6 DEF TakeCell, KnownCells, KnownCell, queueVars, endVars
<1> QED
  <2>1. ~ FilterBoundPod
    BY Zenon, NeverABoundPod
  <2> QED BY <1>1, <1>2, <1>3, <1>4, <1>5, <1>6, <2>1 DEF LifeNext, InCycle

(* The leaves of a node get their memory when the node is known. *)
LEMMA NodeGetsMemory ==
  ASSUME TypeOK, NEW x \in Nodes, NEW seen \in BOOLEAN, FilterAddNode(x, seen), NEW l \in Leaves
  PROVE  /\ freeMem'[l] >= freeMem[l]
         /\ freeMem'[l] + MemoryOfLeaf(l) = freeMem[l] + MemoryOfLeaf(l)'
<1>1. l \in Cells /\ freeMem[l] \in Int /\ FullMem \in Nat
  BY TopologyAssumption, RequestAssumption DEF TypeOK
<1>2. CASE UNCHANGED <<filled, freeMem>>
  BY <1>1, <1>2, MemoryOfLeafType DEF MemoryOfLeaf
<1>3. CASE x \notin filled /\ SetCellStatus(x)
  <2>1. LeavesUnder(l) = {l}
    BY TopologyAssumption DEF LeavesUnder
  <2>2. Cardinality(LeavesOf(x) \cap LeavesUnder(l)) = IF NodeOf[l] = x THEN 1 ELSE 0
    <3>1. Cardinality({l}) = 1 /\ Cardinality({}) = 0
      BY FS_Singleton, FS_EmptySet
    <3>2. LeavesOf(x) \cap LeavesUnder(l) = IF NodeOf[l] = x THEN {l} ELSE {}
      BY <2>1 DEF LeavesOf
    <3> QED BY <3>1, <3>2
  <2>3. freeMem'[l] = freeMem[l] + FullMem * (IF NodeOf[l] = x THEN 1 ELSE 0)
    BY <1>1, <1>3, <2>2 DEF SetCellStatus, PassMemoryToParent
  <2>4. NodeOf[l] = x => MemoryOfLeaf(l) = 0 /\ MemoryOfLeaf(l)' = FullMem
    BY <1>3 DEF SetCellStatus, MemoryOfLeaf
  <2>5. NodeOf[l] # x => MemoryOfLeaf(l)' = MemoryOfLeaf(l)
    BY <1>3 DEF SetCellStatus, MemoryOfLeaf
  <2>6. MemoryOfLeaf(l) \in Int
    BY MemoryOfLeafType
  <2> QED BY <1>1, <2>3, <2>4, <2>5, <2>6
<1> QED BY <1>2, <1>3 DEF FilterAddNode

(* Steps that take no memory and choose no leaf. *)
LEMMA QuietMemory ==
  ASSUME TypeOK, TypeOK', LifeInv, FreeInv, KnownCells',
         \/ Environment \/ UNCHANGED vars
         \/ \E x \in Nodes, seen \in BOOLEAN : FilterAddNode(x, seen)
         \/ LookUpAgain \/ ReserveDelete \/ ReserveCreate \/ ReserveCreateFails \/ ReserveSetUid
  PROVE  ChosenMemoryFits' /\ MemoryLeft' /\ MemoryMoved
<1>1. /\ UNCHANGED <<hpc, ending>>
      /\ \/ UNCHANGED <<freeMem, filled>>
         \/ \E x \in Nodes, seen \in BOOLEAN : FilterAddNode(x, seen)
      /\ \/ UNCHANGED <<pc, cyc, status>>
         \/ /\ pc \in Placed /\ pc' \in Placed /\ UNCHANGED status
            /\ cyc'.pod = cyc.pod /\ cyc'.multi = cyc.multi
         \/ /\ {pc, pc'} \cap (Placed \cup {"take"}) = {}
            /\ \A m \in Names :
                 /\ status'[m] = NoStatus <=> status[m] = NoStatus
                 /\ status'[m].cells = status[m].cells
                 /\ status'[m].request = status[m].request
                 /\ status'[m].memory = status[m].memory
  BY QuietTakes
<1>2. \A l \in Leaves : /\ freeMem'[l] >= freeMem[l] /\ freeMem[l] \in Int /\ freeMem'[l] \in Int
                        /\ freeMem'[l] + MemoryOfLeaf(l) = freeMem[l] + MemoryOfLeaf(l)'
  <2>1. \A l \in Leaves : freeMem[l] \in Int /\ freeMem'[l] \in Int
    BY TopologyAssumption DEF TypeOK
  <2>2. CASE UNCHANGED <<freeMem, filled>>
    BY <2>1, <2>2, MemoryOfLeafType DEF MemoryOfLeaf
  <2>3. CASE \E x \in Nodes, seen \in BOOLEAN : FilterAddNode(x, seen)
    BY <2>1, <2>3, NodeGetsMemory
  <2> QED BY <1>1, <2>2, <2>3
<1>3. \A m \in Names, l \in Leaves : TakenMemory(m, l)' = TakenMemory(m, l)
  BY <1>1 DEF TakenMemory, Holds, NotYetTaken, Placed
<1>4. MemoryMoved
  <2> SUFFICES ASSUME NEW l \in Leaves
               PROVE  freeMem'[l] + ReturningMemory(l)' + TakenMemoryOf(l)' + MemoryOfLeaf(l)
                        = freeMem[l] + ReturningMemory(l) + TakenMemoryOf(l) + MemoryOfLeaf(l)'
    BY DEF MemoryMoved
  <2>1. TakenMemoryOf(l)' = TakenMemoryOf(l) /\ TakenMemoryOf(l) \in Nat
    BY <1>3, MemorySame, MemoryType DEF FreeInv
  <2>2. ReturningMemory(l)' = ReturningMemory(l) /\ ReturningMemory(l) \in Nat
    <3>1. ReturningMemory(l)' = ReturningMemory(l)
      BY <1>1 DEF ReturningMemory
    <3> QED BY <3>1, ReturningMemoryType DEF FreeInv
  <2>3. MemoryOfLeaf(l) \in Nat /\ MemoryOfLeaf(l)' \in Nat
    BY MemoryOfLeafType
  <2> QED BY <1>2, <2>1, <2>2, <2>3
<1>5. MemoryLeft'
  BY <1>2 DEF FreeInv, MemoryLeft
<1>6. ChosenMemoryFits'
  <2> SUFFICES ASSUME pc' \in Placed, ~ cyc'.multi, NEW l \in status'[cyc'.pod.name].cells
               PROVE  freeMem'[l] >= status'[cyc'.pod.name].memory
    BY DEF ChosenMemoryFits
  <2>1. pc \in Placed /\ ~ cyc.multi /\ cyc'.pod = cyc.pod /\ UNCHANGED status
    BY <1>1
  <2>2. status[cyc.pod.name] \in PodStatus
    BY <2>1, ChosenInHand DEF Placed, Choosing
  <2>3. l \in Leaves /\ status[cyc.pod.name].memory \in Int
    BY <2>1, <2>2 DEF PodStatus
  <2>4. freeMem[l] >= status[cyc.pod.name].memory
    BY <2>1 DEF FreeInv, ChosenMemoryFits
  <2> QED BY <1>2, <2>1, <2>3, <2>4
<1> QED BY <1>4, <1>5, <1>6

(* A pod in a cycle takes no memory before Reserve reserves; the leaf that is *)
(* chosen for a shared one has what it asks for.                             *)
LEMMA ChoosingMemory ==
  ASSUME TypeOK, TypeOK', LifeInv, FreeInv, KnownCells',
         \/ \E n \in Names : PreFilter(n)
         \/ FilterDecide \/ \E x \in Nodes : ReserveSelect(x)
  PROVE  /\ UNCHANGED <<freeMem, filled, hpc, ending>> /\ ChosenMemoryFits' /\ MemoryLeft'
         /\ \A l \in Leaves : TakenMemoryOf(l)' <= TakenMemoryOf(l)
<1>1. UNCHANGED <<freeMem, filled, hpc, ending>> /\ pc \notin Placed \cup {"take"}
  BY ChoosingTakes
<1>2. PICK n \in Names :
        /\ \A m \in Names \ {n} : status'[m] = status[m]
        /\ pc' \in Placed \cup {"take"} => cyc'.pod.name = n
        /\ \/ status'[n] = status[n] /\ pc' \notin Placed \cup {"take"}
           \/ \A l \in Leaves : ~ Holds(n, l)'
  BY ChoosingTakes
<1>3. \A m \in Names \ {n}, l \in Leaves : TakenMemory(m, l)' = TakenMemory(m, l)
  BY <1>1, <1>2, MemoryOthers
<1>4. \A l \in Leaves : TakenMemory(n, l)' = 0 \/ TakenMemory(n, l)' = TakenMemory(n, l)
  BY <1>1, <1>2 DEF TakenMemory, Holds, NotYetTaken
<1>5. \A m \in Names, l \in Leaves : TakenMemory(m, l)' <= TakenMemory(m, l)
  <2>1. \A m \in Names, l \in Leaves : TakenMemory(m, l) \in Nat
    BY MemoryType DEF FreeInv
  <2> QED BY <1>3, <1>4, <2>1
<1>6. \A l \in Leaves : TakenMemoryOf(l)' <= TakenMemoryOf(l)
  BY <1>5, MemoryLower DEF FreeInv
<1>8. MemoryLeft'
  BY <1>1 DEF FreeInv, MemoryLeft
<1>9. ChosenMemoryFits'
  <2>1. CASE \E x \in Nodes : ReserveSelect(x)
    <3>1. PICK x \in Nodes : ReserveSelect(x)
      BY <2>1
    <3>2. cyc.pod \in Pod /\ cyc \in Cycle /\ cyc.pod.name \in Names
      BY <3>1, CycleNames DEF ReserveSelect, TypeOK, Choosing
    <3>3. PICK ps \in PodStatus : ps = GetPodLabels(cyc.pod)
      BY <3>2, LabelsUid
    <3>4. PICK cells \in CellChoices(x, ps) :
            /\ status' = [status EXCEPT ![cyc.pod.name] = [ps EXCEPT !.cells = cells]]
            /\ \/ pc' = "panicked"
               \/ pc' = "assume" /\ cyc' = [cyc EXCEPT !.node = x, !.multi = MultiGPU(ps.request)]
      BY <3>1, <3>3 DEF ReserveSelect, Panic
    <3>5. CASE pc' = "panicked"
      BY <3>5 DEF ChosenMemoryFits, Placed
    <3>6. CASE pc' # "panicked"
      <4> DEFINE new == [ps EXCEPT !.cells = cells]
      <4>1. cyc'.pod = cyc.pod /\ cyc'.multi = MultiGPU(ps.request)
        BY <3>2, <3>4, <3>6 DEF Cycle
      <4>2. new.cells = cells /\ new.memory = ps.memory
        BY DEF PodStatus
      <4>3. status'[cyc.pod.name] = new
        BY <3>2, <3>4 DEF TypeOK
      <4> HIDE DEF new
      <4>4. ~ MultiGPU(ps.request) => \A l \in cells : freeMem[l] >= ps.memory
        BY DEF CellChoices, LeafFits
      <4>5. ~ cyc'.multi =>
              \A l \in status'[cyc'.pod.name].cells : freeMem'[l] >= status'[cyc'.pod.name].memory
        BY <1>1, <4>1, <4>2, <4>3, <4>4
      <4> QED BY <4>5 DEF ChosenMemoryFits
    <3> QED BY <3>5, <3>6
  <2>2. CASE (\E m \in Names : PreFilter(m)) \/ FilterDecide
    <3>1. pc' \notin Placed
      BY <2>2 DEF PreFilter, FilterDecide, Placed
    <3> QED BY <3>1 DEF ChosenMemoryFits
  <2> QED BY <2>1, <2>2
<1> QED BY <1>1, <1>6, <1>8, <1>9

(* The informer gives back the memory of the status it drops. *)
LEMMA InformerMemory ==
  ASSUME TypeOK, TypeOK', LifeInv, FreeInv, KnownCells', Informer
  PROVE  ChosenMemoryFits' /\ MemoryLeft' /\ MemoryMoved
<1>1. UNCHANGED <<pc, cyc, filled>>
  BY InformerGives
<1>2. \A l \in Leaves :
        /\ freeMem[l] \in Int /\ freeMem'[l] \in Int
        /\ ReturningMemory(l) \in Nat /\ ReturningMemory(l)' \in Nat
  <2>1. \A l \in Leaves : freeMem[l] \in Int /\ freeMem'[l] \in Int
    BY TopologyAssumption DEF TypeOK
  <2>2. \A l \in Leaves : ReturningMemory(l) \in Nat /\ ReturningMemory(l)' \in Nat
    BY ReturningMemoryType DEF FreeInv
  <2> QED BY <2>1, <2>2
<1>3. \A l \in Leaves : freeMem'[l] >= freeMem[l]
  <2> SUFFICES ASSUME NEW l \in Leaves PROVE freeMem'[l] >= freeMem[l]
    OBVIOUS
  <2>1. CASE /\ freeMem'[l] + ReturningMemory(l)' = freeMem[l] + ReturningMemory(l)
             /\ ReturningMemory(l)' = 0 \/ ReturningMemory(l)' = ReturningMemory(l)
    BY <1>2, <2>1
  <2>2. CASE UNCHANGED freeMem
    BY <1>2, <2>2
  <2> QED BY <2>1, <2>2, InformerGives
<1>4. pc \in Choosing => status'[cyc.pod.name] = status[cyc.pod.name]
  <2>1. ASSUME NEW n \in Names, status' = [status EXCEPT ![n] = NoStatus],
               pc \in Choosing, cyc.pod.name # n
        PROVE  status'[cyc.pod.name] = status[cyc.pod.name]
    BY <2>1, CycleNames DEF TypeOK
  <2> QED BY <2>1, InformerGives
<1>5. MemoryLeft'
  BY <1>2, <1>3 DEF FreeInv, MemoryLeft
<1>6. ChosenMemoryFits'
  <2> SUFFICES ASSUME pc \in Placed, ~ cyc.multi, NEW l \in status'[cyc.pod.name].cells
               PROVE  freeMem'[l] >= status'[cyc.pod.name].memory
    BY <1>1 DEF ChosenMemoryFits
  <2>1. pc \in Choosing /\ status[cyc.pod.name] \in PodStatus
    BY ChosenInHand DEF Placed, Choosing
  <2>2. status'[cyc.pod.name] = status[cyc.pod.name]
    BY <1>4, <2>1
  <2>3. l \in Leaves /\ status[cyc.pod.name].memory \in Int
    BY <2>1, <2>2 DEF PodStatus
  <2>4. freeMem[l] >= status[cyc.pod.name].memory
    BY <2>2 DEF FreeInv, ChosenMemoryFits
  <2> QED BY <1>2, <1>3, <2>2, <2>3, <2>4
<1>7. CASE /\ UNCHANGED status
           /\ \A l \in Leaves :
                freeMem'[l] + ReturningMemory(l)' = freeMem[l] + ReturningMemory(l)
  <2> SUFFICES ASSUME NEW l \in Leaves
               PROVE  freeMem'[l] + ReturningMemory(l)' + TakenMemoryOf(l)' + MemoryOfLeaf(l)
                        = freeMem[l] + ReturningMemory(l) + TakenMemoryOf(l) + MemoryOfLeaf(l)'
    BY <1>5, <1>6 DEF MemoryMoved
  <2>1. \A n \in Names : TakenMemory(n, l)' = TakenMemory(n, l)
    BY <1>1, <1>7 DEF TakenMemory, Holds, NotYetTaken
  <2>2. TakenMemoryOf(l)' = TakenMemoryOf(l)
    BY <2>1, MemorySame
  <2>3. MemoryOfLeaf(l)' = MemoryOfLeaf(l)
    BY <1>1 DEF MemoryOfLeaf
  <2> QED BY <1>7, <2>2, <2>3
<1>8. ASSUME NEW n \in Names, status[n] \in PodStatus,
             pc \in Choosing \cup Replacing \cup {"setuid"} => cyc.pod.name # n,
             status' = [status EXCEPT ![n] = NoStatus], UNCHANGED freeMem,
             \A l \in Leaves :
               /\ ReturningMemory(l) = 0
               /\ ReturningMemory(l)' =
                    IF l \notin status[n].cells THEN 0
                    ELSE IF MultiGPU(status[n].request) THEN FullMem ELSE status[n].memory
      PROVE  MemoryMoved
  <2>1. status'[n] = NoStatus /\ \A m \in Names \ {n} : status'[m] = status[m]
    BY <1>8 DEF TypeOK
  <2>2. ASSUME NEW l \in Leaves
        PROVE  freeMem'[l] + ReturningMemory(l)' + TakenMemory(n, l)'
                 = freeMem[l] + ReturningMemory(l) + TakenMemory(n, l)
    <3>1. TakenMemory(n, l)' = 0
      BY <2>1 DEF TakenMemory, Holds
    <3>2. ~ NotYetTaken(n, l)
      BY <1>8 DEF NotYetTaken, Placed, Choosing, Replacing
    <3>3. ReturningMemory(l)' = TakenMemory(n, l)
      BY <1>8, <3>2, AbsenceAssumption DEF TakenMemory, Holds
    <3>4. freeMem'[l] = freeMem[l] /\ ReturningMemory(l) = 0
      BY <1>8
    <3>5. TakenMemory(n, l) \in Nat /\ freeMem[l] \in Int
      BY <1>2, MemoryType DEF FreeInv
    <3> QED BY <3>1, <3>3, <3>4, <3>5
  <2>3. \A m \in Names \ {n}, l \in Leaves : TakenMemory(m, l)' = TakenMemory(m, l)
    BY <1>1, <2>1, MemoryOthers
  <2> QED BY <1>1, <2>2, <2>3, MovesMemory DEF FreeInv
<1> QED BY <1>5, <1>6, <1>7, <1>8, InformerGives

(* Reserve takes the memory a shared pod asks for from the leaf it chose. *)
LEMMA AssumeSharedMemory ==
  ASSUME TypeOK, TypeOK', LifeInv, HandInv, ChosenCells, SharedAskBoth, FreeInv, KnownCells',
         AssumeSharedPod
  PROVE  ChosenMemoryFits' /\ MemoryLeft' /\ MemoryMoved
<1>1. pc = "empty" /\ pc \in Choosing /\ pc \in Placed
  BY DEF AssumeSharedPod, Choosing, Placed
<1>2. PICK n \in Names : n = cyc.pod.name
  BY <1>1, CycleNames
<1>3. PICK old \in PodStatus : old = status[cyc.pod.name]
  BY <1>1, ChosenInHand
<1>4. PICK new \in PodStatus, k \in Leaves :
        /\ status' = [status EXCEPT ![cyc.pod.name] = new]
        /\ new.cells = old.cells /\ new.request = old.request /\ old.cells = {k}
        /\ new.memory = MemoryFor(old)
        /\ pc' = "delete" /\ ~ cyc.multi /\ UNCHANGED <<hpc, ending, filled>>
        /\ ReserveResource(k, old.request, new.memory)
  BY <1>3, AssumeSharedGives
<1>5. status'[n] = new /\ new # NoStatus /\ \A m \in Names \ {n} : status'[m] = status[m]
  BY <1>2, <1>4, AbsenceAssumption DEF TypeOK
<1>6. \A m \in Names \ {n}, l \in Leaves : TakenMemory(m, l)' = TakenMemory(m, l)
  BY <1>2, <1>4, <1>5, MemoryOthers DEF Placed
<1>7. \A l \in Leaves : TakenMemory(n, l) = 0
  BY <1>1, <1>2 DEF TakenMemory, Holds, NotYetTaken
<1>8. ~ MultiGPU(old.request)
  BY <1>1, <1>3, <1>4, Zenon DEF ChosenCells
<1>9. new.memory = old.memory /\ old.memory \in Nat
  <2>1. /\ old.memory = cyc.pod.spec.memory /\ old.request = cyc.pod.spec.request
        /\ cyc.pod.spec \in Specs
    BY <1>1, <1>3, ChosenPod
  <2>2. cyc.pod.spec.memory \in Nat
    BY <2>1, RequestAssumption
  <2>3. old.memory > 0 /\ old.memory \in Nat
    BY <1>8, <2>1, <2>2 DEF SharedAskBoth
  <2> QED BY <1>4, <2>3 DEF MemoryFor
<1>10. ASSUME NEW l \in Leaves
       PROVE  /\ freeMem'[l] + ReturningMemory(l)' + TakenMemory(n, l)'
                   = freeMem[l] + ReturningMemory(l) + TakenMemory(n, l)
              /\ freeMem'[l] >= 0
  <2>1. freeMem[l] \in Int
    BY TopologyAssumption DEF TypeOK
  <2>2. old.request \in Int /\ new.memory \in Int
    BY DEF PodStatus
  <2>3. freeMem'[l] = IF l = k THEN freeMem[l] - old.memory ELSE freeMem[l]
    BY <1>4, <1>9, <2>2, ReserveTakesMemory
  <2>4. TakenMemory(n, l)' = IF l = k THEN old.memory ELSE 0
    <3>1. ~ NotYetTaken(n, l)'
      BY <1>4 DEF NotYetTaken, Placed
    <3> QED BY <1>4, <1>5, <1>8, <1>9, <3>1 DEF TakenMemory, Holds
  <2>5. ReturningMemory(l)' = ReturningMemory(l) /\ ReturningMemory(l) \in Nat
    <3>1. ReturningMemory(l)' = ReturningMemory(l)
      BY <1>4 DEF ReturningMemory
    <3> QED BY <3>1, ReturningMemoryType DEF FreeInv
  <2>6. freeMem[k] >= old.memory
    BY <1>1, <1>3, <1>4 DEF FreeInv, ChosenMemoryFits
  <2>7. freeMem[l] >= 0
    BY DEF FreeInv, MemoryLeft
  <2> QED BY <1>7, <1>9, <2>1, <2>3, <2>4, <2>5, <2>6, <2>7
<1>11. MemoryLeft'
  BY <1>10 DEF MemoryLeft
<1>12. ChosenMemoryFits'
  BY <1>4 DEF ChosenMemoryFits, Placed
<1>13. MemoryMoved
  BY <1>4, <1>6, <1>10, MovesMemory DEF FreeInv
<1> QED BY <1>11, <1>12, <1>13

(* A multi-GPU pod takes no memory when it is assumed ... *)
LEMMA AssumeMultiMemory ==
  ASSUME TypeOK, TypeOK', LifeInv, FreeInv, KnownCells', AssumeMultiPod
  PROVE  ChosenMemoryFits' /\ MemoryLeft' /\ MemoryMoved
<1>1. pc = "empty" /\ pc \in Choosing /\ pc \in Placed
  BY DEF AssumeMultiPod, Choosing, Placed
<1>2. PICK n \in Names : n = cyc.pod.name
  BY <1>1, CycleNames
<1>3. PICK old \in PodStatus : old = status[cyc.pod.name]
  BY <1>1, ChosenInHand
<1>4. PICK new \in PodStatus :
        /\ status' = [status EXCEPT ![cyc.pod.name] = new] /\ new.cells = old.cells
        /\ pc' = IF old.cells = {} THEN "delete" ELSE "take"
        /\ cyc'.pod = cyc.pod /\ cyc'.left = old.cells
        /\ UNCHANGED <<freeMem, filled, hpc, ending>>
  BY <1>3, AssumeMultiGives
<1>5. status'[n] = new /\ \A m \in Names \ {n} : status'[m] = status[m]
  BY <1>2, <1>4 DEF TypeOK
<1>6. \A m \in Names \ {n}, l \in Leaves : TakenMemory(m, l)' = TakenMemory(m, l)
  BY <1>1, <1>2, <1>4, <1>5, MemoryOthers
<1>7. \A l \in Leaves : TakenMemory(n, l)' = 0 /\ TakenMemory(n, l) = 0
  BY <1>1, <1>2, <1>4, <1>5 DEF TakenMemory, Holds, NotYetTaken
<1>8. \A m \in Names, l \in Leaves : TakenMemory(m, l)' = TakenMemory(m, l)
  BY <1>6, <1>7
<1>9. MemoryLeft'
  BY <1>4 DEF FreeInv, MemoryLeft
<1>10. ChosenMemoryFits'
  BY <1>4 DEF ChosenMemoryFits, Placed
<1>11. MemoryMoved
  <2> SUFFICES ASSUME NEW l \in Leaves
               PROVE  freeMem'[l] + ReturningMemory(l)' + TakenMemoryOf(l)' + MemoryOfLeaf(l)
                        = freeMem[l] + ReturningMemory(l) + TakenMemoryOf(l) + MemoryOfLeaf(l)'
    BY DEF MemoryMoved
  <2>1. TakenMemoryOf(l)' = TakenMemoryOf(l)
    BY <1>8, MemorySame
  <2>2. /\ ReturningMemory(l)' = ReturningMemory(l) /\ MemoryOfLeaf(l)' = MemoryOfLeaf(l)
        /\ freeMem'[l] = freeMem[l]
    BY <1>4 DEF ReturningMemory, MemoryOfLeaf
  <2> QED BY <2>1, <2>2
<1> QED BY <1>9, <1>10, <1>11

(* ... and all that is left of each of its leaves after: those are whole, so *)
(* that no other status holds any of their memory, nor is any given back.    *)
LEMMA WholeLeafIsFree ==
  ASSUME TypeOK, StatusOfSpecs, SharedAskBoth, AvailCovers, KnownCells,
         NEW k \in Leaves, avail[k] = UNIT
  PROVE  /\ TakenMemoryOf(k) = 0 /\ \A m \in Names : TakenMemory(m, k) = 0
         /\ ReturningMemory(k) = 0
<1>1. /\ UNIT \in Nat \ {0} /\ TakenOf(k) \in Nat /\ \A m \in Names : Taken(m, k) \in Nat
      /\ Returning(k) \in Nat
  BY RequestAssumption, TakenType, ReturningType
<1>2. TakenOf(k) = 0 /\ Returning(k) = 0
  <2>1. avail[k] + Returning(k) + TakenOf(k) <= UNIT
    BY DEF AvailCovers
  <2> QED BY <1>1, <2>1
<1>3. \A m \in Names : Taken(m, k) = 0
  <2> DEFINE f == [m \in Names |-> Taken(m, k)]
  <2>1. \A x \in Names : f[x] \in Nat
    BY <1>1
  <2>2. Total(f, Names) = 0
    BY <1>2, TakenIsTotal
  <2>3. \A x \in Names : f[x] = Taken(x, k)
    OBVIOUS
  <2> HIDE DEF f
  <2>4. \A x \in Names : f[x] <= Total(f, Names)
    BY <2>1, TotalOfNaturals, NamesAssumption
  <2> QED BY <1>1, <2>2, <2>3, <2>4
<1>4. ASSUME NEW s \in Specs PROVE Units(s.request) # 0
  <2>1. s.request \in Nat /\ (MultiGPU(s.request) \/ s.request > 0)
    BY RequestAssumption DEF SharedAskBoth
  <2> QED BY <1>1, <2>1 DEF Units
<1>5. ASSUME NEW m \in Names PROVE TakenMemory(m, k) = 0
  <2>1. Holds(m, k) => status[m] # NoStatus /\ Units(status[m].request) = 0
    BY <1>3 DEF Taken, Holds
  <2>2. ~ Holds(m, k)
    BY <1>4, <2>1 DEF StatusOfSpecs
  <2> QED BY <2>2 DEF TakenMemory
<1>6. TakenMemoryOf(k) = 0
  <2> DEFINE f == [m \in Names |-> TakenMemory(m, k)]
  <2>1. \A x \in Names : f[x] = 0
    BY <1>5
  <2>2. TakenMemoryOf(k) = Total(f, Names)
    BY MemoryIsTotal
  <2> HIDE DEF f
  <2> QED BY <2>1, <2>2, TotalZero, NamesAssumption
<1>7. ReturningMemory(k) = 0
  BY <1>2, <1>4 DEF StatusOfSpecs, Returning, ReturningMemory
<1> QED BY <1>5, <1>6, <1>7

(* A multi-GPU pod takes the memory of a leaf that nobody else holds. *)
LEMMA TakeCellMemory ==
  ASSUME TypeOK, TypeOK', LifeInv, StatusOfSpecs, SharedAskBoth, CellsToTake, AvailCovers,
         FreeInv, KnownCells', NEW k \in Leaves, TakeCell(k)
  PROVE  ChosenMemoryFits' /\ MemoryLeft' /\ MemoryMoved
<1>1. /\ pc = "take" /\ k \in cyc.left /\ UNCHANGED <<status, filled, hpc, ending>>
      /\ cyc \in Cycle /\ ReserveResource(k, avail[k], freeMem[k])
      /\ pc' = IF cyc.left = {k} THEN "delete" ELSE "take"
  BY DEF TakeCell, TypeOK, queueVars, endVars
<1>2. PICK n \in Names : n = cyc.pod.name
  BY <1>1, CycleNames DEF Replacing
<1>3. cyc'.pod = cyc.pod /\ cyc'.left = cyc.left \ {k}
  <2>1. \E copy : cyc' = [cyc EXCEPT !.left = @ \ {k}, !.copy = copy]
    BY DEF TakeCell
  <2> QED BY <1>1, <2>1 DEF Cycle
<1>4. /\ status[n] # NoStatus /\ k \in status[n].cells /\ MultiGPU(status[n].request)
      /\ avail[k] = UNIT
  BY <1>1, <1>2, LifeParts DEF CellsToTake, MemoryInv, KeptWhileReplaced, Replacing
<1>5. \A m \in Names \ {n}, l \in Leaves : TakenMemory(m, l)' = TakenMemory(m, l)
  BY <1>1, <1>2, <1>3, MemoryOthers
<1>6. KnownCells /\ MemoryLeft
  BY DEF FreeInv
<1>7. ASSUME NEW l \in Leaves
      PROVE  /\ freeMem'[l] = IF l = k THEN 0 ELSE freeMem[l]
             /\ freeMem[l] \in Int
  <2>1. avail[k] \in Int /\ freeMem[k] \in Int /\ freeMem[l] \in Int
    BY TopologyAssumption DEF TypeOK
  <2>2. freeMem'[l] = IF l = k THEN freeMem[l] - freeMem[k] ELSE freeMem[l]
    BY <1>1, <2>1, ReserveTakesMemory
  <2> QED BY <2>1, <2>2
<1>8. ASSUME NEW l \in Leaves
      PROVE  \/ freeMem'[l] + ReturningMemory(l)' + TakenMemory(n, l)'
                  = freeMem[l] + ReturningMemory(l) + TakenMemory(n, l)
             \/ /\ TakenMemoryOf(l) = 0 /\ TakenMemory(n, l) = 0
                /\ freeMem'[l] + ReturningMemory(l)' + TakenMemory(n, l)' = MemoryOfLeaf(l)
  <2>1. ReturningMemory(l)' = ReturningMemory(l)
    BY <1>1 DEF ReturningMemory
  <2>2. CASE l = k
    <3>1. TakenMemory(n, l)' = FullMem
      BY <1>1, <1>2, <1>3, <1>4, <2>2 DEF TakenMemory, Holds, NotYetTaken, Placed
    <3>2. TakenMemoryOf(l) = 0 /\ TakenMemory(n, l) = 0 /\ ReturningMemory(l) = 0
      BY <1>4, <1>6, <2>2, WholeLeafIsFree
    <3>3. MemoryOfLeaf(l) = FullMem /\ FullMem \in Nat
      BY <1>4, <1>6, <2>2, RequestAssumption DEF MemoryOfLeaf, KnownCells, KnownCell
    <3>4. freeMem'[l] = 0
      BY <1>7, <2>2
    <3> QED BY <2>1, <3>1, <3>2, <3>3, <3>4
  <2>3. CASE l # k
    <3>1. TakenMemory(n, l)' = TakenMemory(n, l)
      BY <1>1, <1>2, <1>3, <2>3 DEF TakenMemory, Holds, NotYetTaken, Placed
    <3> QED BY <1>7, <2>1, <2>3, <3>1
  <2> QED BY <2>2, <2>3
<1>9. MemoryLeft'
  BY <1>6, <1>7 DEF MemoryLeft
<1>10. ChosenMemoryFits'
  BY <1>1 DEF ChosenMemoryFits, Placed
<1>11. MemoryMoved
  BY <1>1, <1>5, <1>6, <1>8, MovesMemory
<1> QED BY <1>9, <1>10, <1>11

(* In the beginning no GPU is known to have memory. *)
LEMMA FreeInit == Init => FreeInv
<1> SUFFICES ASSUME Init PROVE FreeInv
  OBVIOUS
<1>1. KnownCells /\ ChosenMemoryFits /\ MemoryLeft
  BY TopologyAssumption DEF Init, KnownCells, ChosenMemoryFits, MemoryLeft, Placed
<1>2. ASSUME NEW l \in Leaves
      PROVE  /\ TakenMemoryOf(l) = 0 /\ freeMem[l] = 0 /\ MemoryOfLeaf(l) = 0 /\ FullMem \in Nat
  <2> DEFINE f == [m \in Names |-> TakenMemory(m, l)]
  <2>1. \A m \in Names : f[m] = 0
    BY DEF Init, TakenMemory, Holds
  <2>2. TakenMemoryOf(l) = Total(f, Names)
    BY MemoryIsTotal
  <2> HIDE DEF f
  <2>3. TakenMemoryOf(l) = 0
    BY <2>1, <2>2, TotalZero, NamesAssumption
  <2> QED BY <2>3, TopologyAssumption, RequestAssumption DEF Init, MemoryOfLeaf
<1>3. \A l \in Leaves : ReturningMemory(l) = 0
  BY DEF Init, ReturningMemory
<1> QED BY <1>1, <1>2, <1>3 DEF FreeInv, MemoryCovers

(* A step of one life moves memory or chooses, if every shared pod says both   *)
(* which share and which memory it wants.                                     *)
LEMMA MemoryMovesOrChooses ==
  ASSUME SharedAskBoth, TypeOK, TypeOK', LifeInv, GpuInv, FreeInv, KnownCells', [LifeNext]_vars
  PROVE  ChosenMemoryFits' /\ MemoryLeft' /\ (MemoryMoved \/ Chooses)
<1>1. HandInv /\ StatusOfSpecs /\ ChosenCells /\ CellsToTake /\ AvailCovers
  BY PlaceParts DEF GpuInv, HandInv
<1>2. CASE \/ Environment \/ UNCHANGED vars
           \/ \E x \in Nodes, seen \in BOOLEAN : FilterAddNode(x, seen)
           \/ LookUpAgain \/ ReserveDelete \/ ReserveCreate \/ ReserveCreateFails
           \/ ReserveSetUid
  BY <1>2, QuietMemory
<1>3. CASE (\E n \in Names : PreFilter(n)) \/ FilterDecide \/ \E x \in Nodes : ReserveSelect(x)
  BY <1>3, ChoosingMemory DEF Chooses
<1>4. CASE Informer
  BY <1>4, InformerMemory
<1>5. CASE AssumeSharedPod
  BY <1>1, <1>5, AssumeSharedMemory
<1>6. CASE AssumeMultiPod
  BY <1>1, <1>6, AssumeMultiMemory
<1>7. CASE \E l \in Leaves : TakeCell(l)
  BY <1>1, <1>7, TakeCellMemory
<1> QED
  <2>1. ~ FilterBoundPod
    BY Zenon, NeverABoundPod
  <2> QED BY <1>2, <1>3, <1>4, <1>5, <1>6, <1>7, <2>1 DEF LifeNext, InCycle

(* Every step keeps FreeInv, under the same hypothesis. *)
THEOREM FreeStep ==
  ASSUME SharedAskBoth
  PROVE  TypeOK /\ TypeOK' /\ LifeInv /\ GpuInv /\ FreeInv /\ [LifeNext]_vars => FreeInv'
<1> SUFFICES ASSUME TypeOK, TypeOK', LifeInv, GpuInv, FreeInv, [LifeNext]_vars PROVE FreeInv'
  OBVIOUS
<1>1. KnownCells'
  BY KnownStep DEF FreeInv, GpuInv, PlaceInv
<1>2. ChosenMemoryFits' /\ MemoryLeft' /\ (MemoryMoved \/ Chooses)
  BY <1>1, MemoryMovesOrChooses
<1>3. ASSUME NEW l \in Leaves
      PROVE  freeMem'[l] + ReturningMemory(l)' + TakenMemoryOf(l)' <= MemoryOfLeaf(l)'
  <2>1. freeMem[l] + ReturningMemory(l) + TakenMemoryOf(l) <= MemoryOfLeaf(l)
    BY DEF FreeInv, MemoryCovers
  <2>2. /\ TakenMemoryOf(l) \in Nat /\ TakenMemoryOf(l)' \in Nat
        /\ ReturningMemory(l) \in Nat /\ ReturningMemory(l)' \in Nat
    BY <1>1, MemoryType, MemoryTypeNext, ReturningMemoryType DEF FreeInv
  <2>3. freeMem[l] \in Int /\ freeMem'[l] \in Int
    BY TopologyAssumption DEF TypeOK
  <2>4. MemoryOfLeaf(l) \in Nat /\ MemoryOfLeaf(l)' \in Nat
    BY MemoryOfLeafType
  <2>5. CASE MemoryMoved
    <3>1. \/ freeMem'[l] + ReturningMemory(l)' + TakenMemoryOf(l)' + MemoryOfLeaf(l)
               = freeMem[l] + ReturningMemory(l) + TakenMemoryOf(l) + MemoryOfLeaf(l)'
          \/ freeMem'[l] + ReturningMemory(l)' + TakenMemoryOf(l)' = MemoryOfLeaf(l)'
      BY <2>5, Zenon DEF MemoryMoved
    <3> QED BY <2>1, <2>2, <2>3, <2>4, <3>1
  <2>6. CASE Chooses
    <3>1. UNCHANGED <<freeMem, filled, hpc, ending>> /\ TakenMemoryOf(l)' <= TakenMemoryOf(l)
      BY <1>1, <2>6, ChoosingMemory DEF Chooses
    <3>2. /\ freeMem'[l] = freeMem[l] /\ ReturningMemory(l)' = ReturningMemory(l)
          /\ MemoryOfLeaf(l)' = MemoryOfLeaf(l)
      BY <3>1 DEF ReturningMemory, MemoryOfLeaf
    <3> QED BY <2>1, <2>2, <2>3, <2>4, <3>1, <3>2
  <2> QED BY <1>2, <2>5, <2>6
<1> QED BY <1>1, <1>2, <1>3 DEF FreeInv, MemoryCovers

(* What the statuses hold of a GPU's memory, what is being given back and what *)
(* is left of it never exceed it, under the two hypotheses.                   *)
THEOREM FreeCorrect ==
  ASSUME OriginalsStay, SharedAskBoth PROVE LifeSpec => []FreeInv
<1>1. TypeOK /\ TypeOK' /\ LifeInv /\ GpuInv /\ FreeInv /\ [LifeNext]_vars => FreeInv'
  BY FreeStep
<1>2. LifeSpec => [](TypeOK /\ LifeInv)
  BY LifeCorrect
<1>3. LifeSpec => []GpuInv
  BY GpuCorrect
<1> QED BY <1>1, <1>2, <1>3, FreeInit, PTL DEF LifeSpec

(* All that AccountInv says of ports, shares, memory and cells that Reserve   *)
(* chose but has not taken yet holds together, for every topology and         *)
(* workload of which the two hypotheses are true: users leave a pod alone    *)
(* that a cycle has in hand, and a shared pod says which memory it wants.     *)
THEOREM AccountsCorrect ==
  ASSUME OriginalsStay, SharedAskBoth PROVE LifeSpec => []AccountInv
<1>1. LifeSpec => []PortInv
  BY PortCorrect
<1>2. LifeSpec => []ShareInv
  BY ShareCorrect
<1>3. LifeSpec => []GpuInv
  BY GpuCorrect
<1>4. LifeSpec => []FreeInv
  BY FreeCorrect
<1> QED BY <1>1, <1>2, <1>3, <1>4, PTL DEF AccountInv

(* An alive pod uses no more memory of a leaf than its status holds. *)
LEMMA MemoryIsTaken ==
  ASSUME TypeOK, LifeInv, GpuInv, FreeInv, NEW n \in Names, NEW l \in Leaves
  PROVE  MemoryOf(n, l) \in Nat /\ MemoryOf(n, l) <= TakenMemory(n, l)
<1>0. TakenMemory(n, l) \in Nat
  BY MemoryType DEF FreeInv
<1>1. CASE Alive(n) /\ l \in api[n].gpus
  <2>1. /\ status[n] # NoStatus /\ l \in status[n].cells
        /\ status[n].request = api[n].spec.request
        /\ ~ MultiGPU(api[n].spec.request) => status[n].memory = api[n].memory
    BY <1>1 DEF GpuInv, PlaceInv, GpusOfTheAlive, StatusOf
  <2>2. ~ NotYetTaken(n, l)
    BY <1>1, LifeParts DEF NotYetTaken, Alive, MemoryInv, NotYetBound, Choosing, Placed, Replacing
  <2>3. MemoryOf(n, l) = TakenMemory(n, l)
    BY <1>1, <2>1, <2>2 DEF MemoryOf, TakenMemory, Holds
  <2> QED BY <1>0, <2>3
<1>2. CASE ~ (Alive(n) /\ l \in api[n].gpus)
  <2>1. MemoryOf(n, l) = 0
    BY <1>2 DEF MemoryOf
  <2> QED BY <1>0, <2>1
<1> QED BY <1>1, <1>2

(* What the statuses hold of a GPU's memory is not more than the GPU has. *)
LEMMA MemoryHeldFits ==
  ASSUME TypeOK, FreeInv, NEW l \in Leaves
  PROVE  TakenMemoryOf(l) <= FullMem /\ FullMem \in Int
<1>1. /\ TakenMemoryOf(l) \in Nat /\ ReturningMemory(l) \in Nat
  BY MemoryType, ReturningMemoryType DEF FreeInv
<1>2. MemoryOfLeaf(l) \in Nat /\ MemoryOfLeaf(l) <= FullMem /\ FullMem \in Nat
  BY MemoryOfLeafType
<1>3. freeMem[l] \in Int
  BY TopologyAssumption DEF TypeOK
<1>4. freeMem[l] >= 0 /\ freeMem[l] + ReturningMemory(l) + TakenMemoryOf(l) <= MemoryOfLeaf(l)
  BY DEF FreeInv, MemoryLeft, MemoryCovers
<1> QED BY <1>1, <1>2, <1>3, <1>4

(* The pods alive on a GPU never have more than its memory, under the same   *)
(* hypotheses.                                                               *)
THEOREM MemoryNeverOvercommitted ==
  ASSUME OriginalsStay, SharedAskBoth PROVE LifeSpec => []NoMemoryOvercommit
<1>1. TypeOK /\ LifeInv /\ GpuInv /\ FreeInv => NoMemoryOvercommit
  <2> SUFFICES ASSUME TypeOK, LifeInv, GpuInv, FreeInv, NEW l \in Leaves
               PROVE  MapThenSumSet(LAMBDA n : MemoryOf(n, l), Names) <= FullMem
    BY DEF NoMemoryOvercommit
  <2> DEFINE f == [n \in Names |-> MemoryOf(n, l)]
             g == [m \in Names |-> TakenMemory(m, l)]
  <2>1. MapThenSumSet(LAMBDA n : MemoryOf(n, l), Names) = Total(f, Names)
    BY Zenon DEF Total, MapThenSumSet, MapThenFoldSet
  <2>2. TakenMemoryOf(l) = Total(g, Names)
    BY MemoryIsTotal
  <2>3. \A m \in Names : MemoryOf(m, l) \in Nat /\ MemoryOf(m, l) <= TakenMemory(m, l)
                         /\ TakenMemory(m, l) \in Nat
    BY MemoryIsTaken, MemoryType DEF FreeInv
  <2>4. \A m \in Names : f[m] \in Int /\ g[m] \in Int /\ f[m] <= g[m]
    BY <2>3
  <2> HIDE DEF f, g
  <2>5. Total(f, Names) \in Int /\ Total(g, Names) \in Int /\ Total(f, Names) <= Total(g, Names)
    BY <2>4, TotalMonotone, TotalType, NamesAssumption
  <2>6. TakenMemoryOf(l) <= FullMem /\ FullMem \in Int
    BY MemoryHeldFits
  <2> QED BY <2>1, <2>2, <2>5, <2>6
<1>2. LifeSpec => [](TypeOK /\ LifeInv)
  BY LifeCorrect
<1>3. LifeSpec => []GpuInv
  BY GpuCorrect
<1>4. LifeSpec => []FreeInv
  BY FreeCorrect
<1> QED BY <1>1, <1>2, <1>3, <1>4, PTL
-----------------------------------------------------------------------------
(* What the alive pods hold of a GPU, as GpuAllocator adds it up. *)
SharesOf(l)   == MapThenSumSet(LAMBDA n : ShareOf(n, l), Names)
MemoriesOf(l) == MapThenSumSet(LAMBDA n : MemoryOf(n, l), Names)

(* What GpuAllocator is told: every pod's amounts, and that they fit. *)
Promised ==
  /\ \A n \in Names, l \in Leaves : ShareOf(n, l) \in Nat /\ MemoryOf(n, l) \in Nat
  /\ \A l \in Leaves : SharesOf(l) <= UNIT /\ MemoriesOf(l) <= FullMem

(* The same as totals of functions, before a step and after it. *)
LEMMA HeldIsTotal ==
  ASSUME NEW l
  PROVE  /\ SharesOf(l) = Total([m \in Names |-> ShareOf(m, l)], Names)
         /\ SharesOf(l)' = Total([m \in Names |-> ShareOf(m, l)'], Names)
         /\ MemoriesOf(l) = Total([m \in Names |-> MemoryOf(m, l)], Names)
         /\ MemoriesOf(l)' = Total([m \in Names |-> MemoryOf(m, l)'], Names)
BY Zenon DEF SharesOf, MemoriesOf, Total, MapThenSumSet, MapThenFoldSet

(* A step makes at most one pod alive, or ends one. *)
LEMMA OneAtATime ==
  ASSUME TypeOK, LifeInv, [LifeNext]_vars
  PROVE  \/ UNCHANGED api
         \/ \E n \in Names : /\ \A m \in Names : m # n => api'[m] = api[m]
                             /\ ~ Alive(n) \/ ~ Alive(n)'
<1>1. CASE Environment
  <2>1. PICK n \in Names : (\E s \in Specs : UserCreate(n, s)) \/ UserDelete(n) \/ Finish(n)
    BY <1>1 DEF Environment
  <2>2. PICK e \in EventSet :
          /\ \A m \in Names : m # n => api'[m] = api[m]
          /\ PodEnds(n, e) \/ (PodBegins(n, e) /\ ~ isBound(api'[n]))
    BY <2>1, EnvironmentApi
  <2>3. ~ Alive(n)'
    BY <2>2 DEF PodEnds, Alive
  <2> QED BY <2>2, <2>3
<1>2. CASE ReserveDelete \/ ReserveCreate
  <2>1. PICK n \in Names : n = cyc.pod.name
    BY <1>2, CycleNames DEF ReserveDelete, ReserveCreate, Replacing
  <2>2. CASE ReserveDelete
    BY <2>1, <2>2 DEF ReserveDelete, Alive, TypeOK
  <2>3. CASE ReserveCreate
    <3>1. api[n] = NoPod /\ \E shadow : api' = [api EXCEPT ![n] = shadow]
      BY <2>1, <2>3 DEF ReserveCreate
    <3> QED BY <2>1, <3>1 DEF Alive, TypeOK
  <2> QED BY <1>2, <2>2, <2>3
<1>3. CASE Informer \/ (\E n \in Names : PreFilter(n)) \/ InCycle \/ UNCHANGED vars
  <2>1. CASE Informer
    BY <2>1, InformerGives
  <2>2. CASE (\E n \in Names : PreFilter(n)) \/ UNCHANGED vars
    BY <2>2 DEF PreFilter, apiVars, vars
  <2>3. CASE InCycle
    <3>1. ReserveDelete \/ ReserveCreate \/ UNCHANGED api
      BY <2>3 DEF InCycle, FilterAddNode, ReserveSelect, TakeCell, FilterBoundPod, FilterDecide,
                  LookUpAgain, AssumeSharedPod, AssumeMultiPod, ReserveCreateFails, ReserveSetUid,
                  apiVars
    <3> QED BY <1>2, <3>1
  <2> QED BY <1>3, <2>1, <2>2, <2>3
<1> QED BY <1>1, <1>3 DEF LifeNext

(* A pod that is not alive holds nothing. *)
LEMMA NotAliveHoldsNothing ==
  ASSUME NEW n \in Names
  PROVE  /\ ~ Alive(n) => HeldBy(n) = Allocator!Nothing
         /\ ~ Alive(n)' => HeldBy(n)' = Allocator!Nothing
<1>1. ~ Alive(n) => HeldBy(n) = Allocator!Nothing
  BY DEF HeldBy, ShareOf, MemoryOf, Allocator!Nothing
<1>2. ~ Alive(n)' => HeldBy(n)' = Allocator!Nothing
  BY DEF HeldBy, ShareOf, MemoryOf, Allocator!Nothing
<1> QED BY <1>1, <1>2

(* What is held of a GPU before a grant, and what is granted, is not more    *)
(* than the GPU: that is what holds after it.                                *)
LEMMA GrantFits ==
  ASSUME Promised, Promised', NEW n \in Names, ~ Alive(n),
         \A m \in Names : m # n => api'[m] = api[m], NEW l \in Leaves
  PROVE  /\ ShareOf(n, l)' <= UNIT - SharesOf(l)
         /\ MemoryOf(n, l)' <= FullMem - MemoriesOf(l)
<1>0. UNIT \in Int /\ FullMem \in Int
  BY RequestAssumption
<1>1. \A m \in Names : /\ ShareOf(m, l) \in Nat /\ ShareOf(m, l)' \in Nat
                       /\ MemoryOf(m, l) \in Nat /\ MemoryOf(m, l)' \in Nat
  BY DEF Promised
<1>2. \A m \in Names \ {n} : /\ ShareOf(m, l)' = ShareOf(m, l)
                             /\ MemoryOf(m, l)' = MemoryOf(m, l)
  BY DEF ShareOf, MemoryOf, Alive
<1>3. ShareOf(n, l) = 0 /\ MemoryOf(n, l) = 0
  BY DEF ShareOf, MemoryOf
<1>4. \A h, k : (/\ \A y \in Names : h[y] \in Int /\ k[y] \in Int
                 /\ \A y \in Names \ {n} : k[y] = h[y])
                => Total(k, Names) = Total(h, Names) - h[n] + k[n]
  BY NamesAssumption, TotalChange
<1>5. ShareOf(n, l)' <= UNIT - SharesOf(l)
  <2> DEFINE f == [m \in Names |-> ShareOf(m, l)]
             g == [m \in Names |-> ShareOf(m, l)']
  <2>1. SharesOf(l) = Total(f, Names)
    BY HeldIsTotal
  <2>2. Total(g, Names) <= UNIT
    BY HeldIsTotal DEF Promised
  <2>3. \A y \in Names : f[y] \in Int /\ g[y] \in Int
    BY <1>1
  <2>4. \A y \in Names \ {n} : g[y] = f[y]
    BY <1>2
  <2>5. f[n] = 0 /\ g[n] = ShareOf(n, l)'
    BY <1>3
  <2> HIDE DEF f, g
  <2>6. Total(g, Names) = Total(f, Names) - f[n] + g[n]
    BY ONLY <1>4, <2>3, <2>4
  <2>7. Total(f, Names) \in Int
    BY <2>3, TotalType, NamesAssumption
  <2> QED BY <1>0, <1>1, <2>1, <2>2, <2>5, <2>6, <2>7
<1>6. MemoryOf(n, l)' <= FullMem - MemoriesOf(l)
  <2> DEFINE f == [m \in Names |-> MemoryOf(m, l)]
             g == [m \in Names |-> MemoryOf(m, l)']
  <2>1. MemoriesOf(l) = Total(f, Names)
    BY HeldIsTotal
  <2>2. Total(g, Names) <= FullMem
    BY HeldIsTotal DEF Promised
  <2>3. \A y \in Names : f[y] \in Int /\ g[y] \in Int
    BY <1>1
  <2>4. \A y \in Names \ {n} : g[y] = f[y]
    BY <1>2
  <2>5. f[n] = 0 /\ g[n] = MemoryOf(n, l)'
    BY <1>3
  <2> HIDE DEF f, g
  <2>6. Total(g, Names) = Total(f, Names) - f[n] + g[n]
    BY ONLY <1>4, <2>3, <2>4
  <2>7. Total(f, Names) \in Int
    BY <2>3, TotalType, NamesAssumption
  <2> QED BY <1>0, <1>1, <2>1, <2>2, <2>5, <2>6, <2>7
<1> QED BY <1>5, <1>6

(* What the allocator has left of a GPU is what the alive pods do not hold. *)
Held == [n \in Names |-> HeldBy(n)]

(* ... and what GpuAllocator has left of a leaf. *)
LEMMA LeftOver ==
  ASSUME NEW l \in Leaves
  PROVE  Allocator!Left(l) = [share  |-> UNIT - SharesOf(l),
                              memory |-> FullMem - MemoriesOf(l)]
<1> DEFINE h == [n \in Names |-> HeldBy(n)]
           f == [m \in Names |-> h[m][l].share]
           g == [m \in Names |-> h[m][l].memory]
<1>1. Allocator!MapThenSumSet(LAMBDA m : h[m][l].share, Names) = Total(f, Names)
  <2> HIDE DEF h
  <2> QED BY Zenon DEF Allocator!MapThenSumSet, Allocator!MapThenFoldSet,
                       Total, MapThenSumSet, MapThenFoldSet
<1>2. Allocator!MapThenSumSet(LAMBDA m : h[m][l].memory, Names) = Total(g, Names)
  <2> HIDE DEF h
  <2> QED BY Zenon DEF Allocator!MapThenSumSet, Allocator!MapThenFoldSet,
                       Total, MapThenSumSet, MapThenFoldSet
<1>3. f = [m \in Names |-> ShareOf(m, l)] /\ g = [m \in Names |-> MemoryOf(m, l)]
  <2>1. ASSUME NEW m \in Names
        PROVE  h[m][l].share = ShareOf(m, l) /\ h[m][l].memory = MemoryOf(m, l)
    BY DEF HeldBy
  <2> QED BY Zenon, <2>1
<1>4. Total(f, Names) = SharesOf(l) /\ Total(g, Names) = MemoriesOf(l)
  <2> HIDE DEF f, g
  <2> QED BY Zenon, <1>3, HeldIsTotal
<1> QED BY Zenon, <1>1, <1>2, <1>4 DEF Allocator!Left

(* A step of the scheduler, of its informer or of a user is a grant, a        *)
(* release or nothing to whoever only sees what the alive pods hold.          *)
THEOREM AllocatorStep ==
  ASSUME TypeOK, LifeInv, Promised, Promised', [LifeNext]_vars
  PROVE  Allocator!Next \/ UNCHANGED Held
<1>1. CASE UNCHANGED api
  BY <1>1 DEF Held, HeldBy, ShareOf, MemoryOf, Alive
<1>2. CASE \E n \in Names : /\ \A m \in Names : m # n => api'[m] = api[m]
                            /\ ~ Alive(n) \/ ~ Alive(n)'
  <2>1. PICK n \in Names : /\ \A m \in Names : m # n => api'[m] = api[m]
                           /\ ~ Alive(n) \/ ~ Alive(n)'
    BY <1>2
  <2>2. \A m \in Names : m # n => HeldBy(m)' = HeldBy(m)
    BY <2>1 DEF HeldBy, ShareOf, MemoryOf, Alive
  <2>3. Held' = [Held EXCEPT ![n] = HeldBy(n)']
    BY <2>2 DEF Held
  <2>4. CASE ~ Alive(n)'
    <3>1. Allocator!Release(n)
      BY <2>3, <2>4, NotAliveHoldsNothing DEF Allocator!Release, Held
    <3> QED BY <3>1 DEF Allocator!Next
  <2>5. CASE ~ Alive(n)
    <3>1. Held[n] = Allocator!Nothing /\ Held'[n] = HeldBy(n)'
      BY <2>5, NotAliveHoldsNothing DEF Held
    <3>2. \A l \in Leaves : /\ ShareOf(n, l)' \in 0 .. UNIT
                            /\ MemoryOf(n, l)' \in 0 .. FullMem
                            /\ ShareOf(n, l)' <= UNIT - SharesOf(l)
                            /\ MemoryOf(n, l)' <= FullMem - MemoriesOf(l)
      <4> SUFFICES ASSUME NEW l \in Leaves
                   PROVE  /\ ShareOf(n, l)' \in 0 .. UNIT
                          /\ MemoryOf(n, l)' \in 0 .. FullMem
                          /\ ShareOf(n, l)' <= UNIT - SharesOf(l)
                          /\ MemoryOf(n, l)' <= FullMem - MemoriesOf(l)
        OBVIOUS
      <4>1. SharesOf(l) \in Nat /\ MemoriesOf(l) \in Nat
        BY HeldIsTotal, TotalOfNaturals, NamesAssumption DEF Promised
      <4>2. ShareOf(n, l)' \in Nat /\ MemoryOf(n, l)' \in Nat
        BY DEF Promised
      <4>3. /\ ShareOf(n, l)' <= UNIT - SharesOf(l)
            /\ MemoryOf(n, l)' <= FullMem - MemoriesOf(l)
        BY <2>1, <2>5, GrantFits
      <4> QED BY <4>1, <4>2, <4>3, RequestAssumption
    <3>3. HeldBy(n)' = [l \in Leaves |-> [share |-> ShareOf(n, l)', memory |-> MemoryOf(n, l)']]
      BY DEF HeldBy
    <3>4. Held'[n] \in Allocator!Grants
      BY <3>1, <3>2, <3>3 DEF Allocator!Grants
    <3>5. \A l \in Leaves : /\ Held'[n][l].share <= Allocator!Left(l).share
                            /\ Held'[n][l].memory <= Allocator!Left(l).memory
      BY <3>1, <3>2, <3>3, LeftOver
    <3>6. Held' = [Held EXCEPT ![n] = Held'[n]]
      BY <2>3, <3>1
    <3>7. Allocator!Grant(n)
      BY <3>1, <3>4, <3>5, <3>6 DEF Allocator!Grant, Held
    <3> QED BY <3>7 DEF Allocator!Next
  <2> QED BY <2>1, <2>4, <2>5
<1> QED BY <1>1, <1>2, OneAtATime

(* No pod is alive at first. *)
LEMMA AllocatorInit == Init => Allocator!Init
<1> SUFFICES ASSUME Init PROVE Allocator!Init
  OBVIOUS
<1>1. \A n \in Names : HeldBy(n) = Allocator!Nothing
  BY NotAliveHoldsNothing DEF Init, Alive
<1> QED BY <1>1 DEF Allocator!Init

(* In one life of the process the reservation protocol implements the         *)
(* promise of the allocator: Reserve grants a pod all its GPUs at once, only  *)
(* what no alive pod holds, and nobody changes it until the pod ends, if     *)
(* users leave a pod alone that a cycle has in hand and every shared pod      *)
(* says which memory it wants.                                               *)
THEOREM SchedulerImplementsAllocator ==
  ASSUME OriginalsStay, SharedAskBoth PROVE LifeSpec => ImplementsAllocator
<1>1. TypeOK /\ LifeInv /\ GpuInv /\ FreeInv /\ NoGpuOvercommit /\ NoMemoryOvercommit
        => Promised
  <2> SUFFICES ASSUME TypeOK, LifeInv, GpuInv, FreeInv, NoGpuOvercommit, NoMemoryOvercommit
               PROVE  Promised
    OBVIOUS
  <2>1. \A n \in Names, l \in Leaves : ShareOf(n, l) \in Nat /\ MemoryOf(n, l) \in Nat
    BY ShareIsTaken, MemoryIsTaken
  <2>2. \A l \in Leaves : SharesOf(l) <= UNIT /\ MemoriesOf(l) <= FullMem
    BY DEF NoGpuOvercommit, NoMemoryOvercommit, SharesOf, MemoriesOf
  <2> QED BY <2>1, <2>2 DEF Promised
<1>2. TypeOK /\ LifeInv /\ Promised /\ Promised' /\ [LifeNext]_vars
        => [Allocator!Next]_Held
  BY AllocatorStep
<1>3. LifeSpec => []Promised
  <2>1. LifeSpec => [](TypeOK /\ LifeInv)
    BY LifeCorrect
  <2>2. LifeSpec => []GpuInv
    BY GpuCorrect
  <2>3. LifeSpec => []FreeInv
    BY FreeCorrect
  <2>4. LifeSpec => []NoGpuOvercommit
    BY GpuNeverOvercommitted
  <2>5. LifeSpec => []NoMemoryOvercommit
    BY MemoryNeverOvercommitted
  <2> QED BY <1>1, <2>1, <2>2, <2>3, <2>4, <2>5, PTL
<1>4. LifeSpec => Init /\ [][LifeNext]_vars
  BY DEF LifeSpec
<1>5. LifeSpec => Allocator!Init /\ [][Allocator!Next]_Held
  <2>1. LifeSpec => [](TypeOK /\ LifeInv)
    BY LifeCorrect
  <2> QED BY <1>2, <1>3, <1>4, <2>1, AllocatorInit, PTL
<1> QED BY <1>5, PTL DEF ImplementsAllocator, Allocator!Spec, Held

------------------------------------------------------------------------------
(* What a pod asks of a leaf is the whole of it, if every request is of whole *)
(* GPUs.                                                                      *)
LEMMA UnitsAreWhole ==
  ASSUME NobodyShares, NEW s \in Specs
  PROVE  Units(s.request) \in {0, UNIT}
<1>1. s.request \in Nat /\ s.request % UNIT = 0 /\ UNIT \in Nat \ {0}
  BY RequestAssumption DEF NobodyShares
<1>2. \A r \in Nat, u \in Nat \ {0} : r % u = 0 /\ r <= u => r = 0 \/ r = u
  OBVIOUS
<1>3. s.request <= UNIT => s.request = 0 \/ s.request = UNIT
  BY <1>1, <1>2
<1> QED BY <1>1, <1>3 DEF Units, MultiGPU

(* When nobody shares a GPU, every leaf is whole or taken. *)
LEMMA UnbrokenStep ==
  ASSUME TypeOK, TypeOK', LifeInv, ShareInv, ShareInv', GpuInv, GpuInv', Unbroken, [LifeNext]_vars
  PROVE  Unbroken'
<1> SUFFICES ASSUME NobodyShares, NEW l \in Leaves
             PROVE  avail'[l] \in {0, UNIT}
  BY DEF Unbroken
<1>1. PlaceInv /\ HandInv /\ ChosenCells /\ CellsToTake /\ StatusOfSpecs
  BY PlaceParts DEF GpuInv, PlaceInv
<1>3. \A k \in Leaves : avail[k] \in {0, UNIT} /\ avail'[k] >= 0
  BY DEF Unbroken, ShareInv, NeverNegative
<1>4. UNIT \in Nat \ {0} /\ avail[l] \in Int /\ avail'[l] \in Int
  BY RequestAssumption, TopologyAssumption DEF TypeOK
<1>5. CASE UNCHANGED avail
  BY <1>3, <1>5
<1>6. CASE Informer
  <2>1. Returning(l) \in {0, UNIT}
    <3>1. hpc # "ready" => Units(ending.request) \in {0, UNIT}
      <4>1. hpc # "ready" => \E s \in Specs : ending.request = s.request
        BY <1>1 DEF StatusOfSpecs
      <4> QED BY <4>1, UnitsAreWhole
    <3> QED BY <3>1 DEF Returning
  <2>2. \/ UNCHANGED avail
        \/ /\ avail'[l] + Returning(l)' = avail[l] + Returning(l)
           /\ Returning(l)' \in {0, Returning(l)}
    BY <1>6, InformerGives
  <2>3. avail'[l] <= UNIT
    <3>1. /\ avail'[l] + Returning(l)' + TakenOf(l)' <= UNIT
          /\ TakenOf(l)' \in Nat /\ Returning(l)' \in Nat
      BY TakenTypeNext, ReturningType DEF GpuInv, AvailCovers
    <3> QED BY <1>4, <3>1
  <2> QED BY <1>3, <1>4, <2>1, <2>2, <2>3
<1>7. CASE AssumeSharedPod
  <2>1. PICK old \in PodStatus : old = status[cyc.pod.name] /\ cyc.pod.name \in Names /\ old # NoStatus
    BY <1>7, ChosenInHand, CycleNames, AbsenceAssumption DEF AssumeSharedPod, Choosing
  <2>2. PICK new \in PodStatus, k \in Leaves :
          /\ ReserveResource(k, old.request, new.memory) /\ pc = "empty" /\ ~ cyc.multi
    BY <1>1, <1>7, <2>1, AssumeSharedGives
  <2>3. old.request \in {0, UNIT} /\ old.request \in Int /\ new.memory \in Int
    <3>1. ~ MultiGPU(old.request)
      BY <1>1, <2>1, <2>2 DEF ChosenCells, Placed
    <3>2. \E s \in Specs : old.request = s.request
      BY <1>1, <2>1 DEF StatusOfSpecs
    <3>3. Units(old.request) \in {0, UNIT}
      BY <3>2, UnitsAreWhole
    <3> QED BY <3>1, <3>3, <1>4 DEF Units, PodStatus
  <2>4. avail'[l] = IF l = k THEN avail[l] - old.request ELSE avail[l]
    BY <2>2, <2>3, ReserveTakesOne
  <2> QED BY <1>3, <1>4, <2>3, <2>4
<1>8. CASE \E k \in Leaves : TakeCell(k)
  <2>1. PICK k \in Leaves : ReserveResource(k, avail[k], freeMem[k])
    BY <1>8 DEF TakeCell
  <2>2. avail[k] \in Int /\ freeMem[k] \in Int
    BY TopologyAssumption DEF TypeOK
  <2>3. avail'[l] = IF l = k THEN avail[l] - avail[k] ELSE avail[l]
    BY <2>1, <2>2, ReserveTakesOne
  <2> QED BY <1>3, <1>4, <2>2, <2>3
<1>9. ~ FilterBoundPod
  BY Zenon, NeverABoundPod
<1>10. CASE AssumeMultiPod
  BY <1>5, <1>10 DEF AssumeMultiPod, cellVars
<1>11. CASE \/ Environment \/ UNCHANGED vars
            \/ \E x \in Nodes, seen \in BOOLEAN : FilterAddNode(x, seen)
            \/ LookUpAgain \/ ReserveDelete \/ ReserveCreate \/ ReserveCreateFails \/ ReserveSetUid
  BY <1>5, <1>11, QuietTakes
<1>12. CASE \/ \E n \in Names : PreFilter(n)
            \/ FilterDecide \/ \E x \in Nodes : ReserveSelect(x)
  BY <1>5, <1>12, ChoosingTakes
<1> QED BY <1>6, <1>7, <1>8, <1>9, <1>10, <1>11, <1>12 DEF LifeNext, InCycle

(* The whole leaves of a node, and their number. *)
LEMMA WholeOfType ==
  ASSUME NEW x \in Nodes
  PROVE  /\ WholeOf(x) \in SUBSET LeavesOf(x) /\ WholeOf(x)' \in SUBSET LeavesOf(x)
         /\ IsFiniteSet(WholeOf(x)) /\ IsFiniteSet(WholeOf(x)') /\ IsFiniteSet(LeavesOf(x))
         /\ Cardinality(WholeOf(x)) \in Nat /\ Cardinality(WholeOf(x)') \in Nat
         /\ Cardinality(LeavesOf(x)) \in Nat
<1>1. IsFiniteSet(LeavesOf(x))
  BY LeavesOfNode
<1>2. WholeOf(x) \in SUBSET LeavesOf(x) /\ WholeOf(x)' \in SUBSET LeavesOf(x)
  BY DEF WholeOf
<1>3. IsFiniteSet(WholeOf(x)) /\ IsFiniteSet(WholeOf(x)')
  BY <1>1, <1>2, FS_Subset
<1> QED BY <1>1, <1>2, <1>3, FS_CardinalityType

(* What a node has left is what its whole leaves have, if nobody shares. *)
LEMMA WholesAreLeft ==
  ASSUME TypeOK, NEW x \in Nodes, \A l \in Leaves : avail[l] \in {0, UNIT}
  PROVE  Total(avail, LeavesOf(x)) = UNIT * Cardinality(WholeOf(x))
<1> DEFINE none == [l \in LeavesOf(x) |-> 0]
<1>1. /\ LeavesOf(x) \in SUBSET Leaves /\ IsFiniteSet(LeavesOf(x)) /\ UNIT \in Int /\ UNIT # 0
      /\ WholeOf(x) \in SUBSET LeavesOf(x) /\ Cardinality(WholeOf(x)) \in Nat
  BY LeavesOfNode, WholeOfType, RequestAssumption
<1>2. \A l \in LeavesOf(x) :
        none[l] \in Int /\ avail[l] = IF l \in WholeOf(x) THEN none[l] + UNIT ELSE none[l]
  BY <1>1 DEF WholeOf
<1>3. \A l \in LeavesOf(x) : none[l] = 0
  OBVIOUS
<1> HIDE DEF none
<1>4. Total(avail, LeavesOf(x)) = Total(none, LeavesOf(x)) + UNIT * Cardinality(WholeOf(x))
  BY <1>1, <1>2, TotalShift
<1>5. Total(none, LeavesOf(x)) = 0
  BY <1>1, <1>3, TotalZero
<1> DEFINE p == UNIT * Cardinality(WholeOf(x))
<1>6. p \in Int
  BY <1>1, RequestAssumption, ProductNatural
<1> HIDE DEF p
<1>7. Total(avail, LeavesOf(x)) = 0 + p
  BY <1>4, <1>5 DEF p
<1>8. Total(avail, LeavesOf(x)) = p
  BY <1>6, <1>7
<1> QED BY <1>8 DEF p

(* What a node has left is less than all its leaves as soon as one is broken. *)
LEMMA BrokenIsLess ==
  ASSUME TypeOK, NEW x \in Nodes, \A l \in Leaves : avail[l] <= UNIT,
         NEW k \in LeavesOf(x), avail[k] # UNIT
  PROVE  Total(avail, LeavesOf(x)) < UNIT * Cardinality(LeavesOf(x))
<1> DEFINE none == [l \in LeavesOf(x) |-> 0]
           full == [l \in LeavesOf(x) |-> UNIT]
           less == [l \in LeavesOf(x) |-> IF l = k THEN avail[k] ELSE UNIT]
           p == UNIT * Cardinality(LeavesOf(x))
<1>1. /\ LeavesOf(x) \in SUBSET Leaves /\ IsFiniteSet(LeavesOf(x)) /\ UNIT \in Int
      /\ \A l \in LeavesOf(x) : avail[l] \in Int
  BY LeavesOfNode, RequestAssumption, TopologyAssumption DEF TypeOK
<1>2. /\ \A l \in LeavesOf(x) : none[l] = 0
      /\ \A l \in LeavesOf(x) : none[l] \in Int
           /\ full[l] = IF l \in LeavesOf(x) THEN none[l] + UNIT ELSE none[l]
      /\ \A l \in LeavesOf(x) : full[l] \in Int /\ less[l] \in Int
      /\ \A l \in LeavesOf(x) \ {k} : less[l] = full[l]
      /\ \A l \in LeavesOf(x) : avail[l] \in Int /\ less[l] \in Int /\ avail[l] <= less[l]
      /\ full[k] = UNIT /\ less[k] = avail[k] /\ avail[k] < UNIT
  BY <1>1
<1> HIDE DEF none, full, less
<1>3. Total(none, LeavesOf(x)) = 0
  BY <1>1, <1>2, TotalZero
<1>4. Total(full, LeavesOf(x)) = Total(none, LeavesOf(x)) + p
  BY <1>1, <1>2, TotalShift
<1>5. Total(less, LeavesOf(x)) = Total(full, LeavesOf(x)) - full[k] + less[k]
  <2>1. /\ \A l \in LeavesOf(x) : full[l] \in Int /\ less[l] \in Int
        /\ \A l \in LeavesOf(x) \ {k} : less[l] = full[l]
    BY <1>2
  <2>2. ASSUME NEW f, NEW g, \A y \in LeavesOf(x) : f[y] \in Int /\ g[y] \in Int,
               \A y \in LeavesOf(x) \ {k} : g[y] = f[y]
        PROVE  Total(g, LeavesOf(x)) = Total(f, LeavesOf(x)) - f[k] + g[k]
    BY <1>1, <2>2, TotalChange
  <2>3. \A f, g : (/\ \A y \in LeavesOf(x) : f[y] \in Int /\ g[y] \in Int
                   /\ \A y \in LeavesOf(x) \ {k} : g[y] = f[y])
                  => Total(g, LeavesOf(x)) = Total(f, LeavesOf(x)) - f[k] + g[k]
    BY <2>2
  <2> QED BY <2>1, <2>3
<1>6. Total(avail, LeavesOf(x)) <= Total(less, LeavesOf(x))
  BY <1>1, <1>2, TotalMonotone
<1>7. /\ Total(avail, LeavesOf(x)) \in Int /\ Total(full, LeavesOf(x)) \in Int
      /\ Total(less, LeavesOf(x)) \in Int
  BY <1>1, <1>2, TotalType
<1>8. p \in Int
  BY RequestAssumption, WholeOfType, ProductNatural
<1> HIDE DEF p
<1>9. Total(avail, LeavesOf(x)) < p
  BY <1>1, <1>2, <1>3, <1>4, <1>5, <1>6, <1>7, <1>8
<1> QED BY <1>9 DEF p

(* A node that passes Filter for a multi-GPU pod has as many whole leaves as  *)
(* the pod asks for.                                                         *)
LEMMA FitNode ==
  ASSUME TypeOK, LifeInv, ShareInv, GpuInv, AggregatesAgree, Unbroken, NobodyShares \/ WholeNodes,
         pc = "drain", NEW x \in Nodes, NEW ps \in PodStatus, NodeFits(x, ps),
         MultiGPU(ps.request), \E s \in Specs : ps.request = s.request
  PROVE  x \in filled /\ UNIT * Cardinality(WholeOf(x)) >= ps.request
<1>1. /\ x \in filled /\ (avail[NodeCell[x]] \div UNIT) * UNIT >= ps.request
      /\ ps.request \in Nat /\ UNIT \in Nat \ {0}
  BY RequestAssumption DEF NodeFits, MultiGPU, WholeCells, PodStatus
<1>2. avail[NodeCell[x]] = Total(avail, LeavesOf(x)) /\ avail[NodeCell[x]] \in Int
  BY AggregatesAreTotals, LeavesOfNode DEF AddsUp, TypeOK
<1>3. \A a \in Int, d \in Nat \ {0} : (a \div d) * d <= a /\ (a \div d) * d \in Int
  OBVIOUS
<1>4. Total(avail, LeavesOf(x)) >= ps.request
  <2> DEFINE a == avail[NodeCell[x]]
             q == (a \div UNIT) * UNIT
  <2>1. q <= a /\ q \in Int /\ q >= ps.request /\ a \in Int
    BY <1>1, <1>2, <1>3
  <2> HIDE DEF q
  <2>2. a >= ps.request
    BY <1>1, <2>1
  <2> QED BY <1>2, <2>2
<1>6. CASE NobodyShares
  <2>1. Total(avail, LeavesOf(x)) = UNIT * Cardinality(WholeOf(x))
    BY <1>6, WholesAreLeft DEF Unbroken
  <2> QED BY <1>1, <1>4, <2>1
<1>7. CASE WholeNodes
  <2> DEFINE p == UNIT * Cardinality(LeavesOf(x))
  <2>1. ps.request >= p
    BY <1>7 DEF WholeNodes
  <2>2. \A l \in Leaves : avail[l] <= UNIT
    <3> SUFFICES ASSUME NEW l \in Leaves PROVE avail[l] <= UNIT
      OBVIOUS
    <3>1. /\ avail[l] + Returning(l) + TakenOf(l) <= UNIT
          /\ Returning(l) \in Nat /\ TakenOf(l) \in Nat /\ avail[l] \in Int
      BY TakenType, ReturningType, TopologyAssumption DEF GpuInv, AvailCovers, TypeOK
    <3> QED BY <1>1, <3>1
  <2>3. p \in Nat /\ Total(avail, LeavesOf(x)) \in Int
    BY <1>1, <1>2, WholeOfType, ProductNatural
  <2>4. ~ (Total(avail, LeavesOf(x)) < p)
    <3> HIDE DEF p
    <3> QED BY <1>1, <1>4, <2>1, <2>3
  <2>5. \A l \in LeavesOf(x) : avail[l] = UNIT
    BY <2>2, <2>4, BrokenIsLess
  <2>6. WholeOf(x) = LeavesOf(x)
    BY <2>5 DEF WholeOf
  <2>7. Total(avail, LeavesOf(x)) <= p
    <3> DEFINE none == [l \in LeavesOf(x) |-> 0]
    <3>1. /\ IsFiniteSet(LeavesOf(x)) /\ UNIT \in Int
          /\ \A l \in LeavesOf(x) : none[l] = 0
          /\ \A l \in LeavesOf(x) : none[l] \in Int
               /\ avail[l] = IF l \in LeavesOf(x) THEN none[l] + UNIT ELSE none[l]
      BY <1>1, <2>5, LeavesOfNode
    <3> HIDE DEF none
    <3>2. Total(avail, LeavesOf(x)) = Total(none, LeavesOf(x)) + p
      BY <3>1, TotalShift
    <3>3. Total(none, LeavesOf(x)) = 0
      BY <3>1, TotalZero
    <3> HIDE DEF p
    <3> QED BY <2>3, <3>2, <3>3
  <2>8. p >= ps.request
    <3> HIDE DEF p
    <3> QED BY <1>1, <1>4, <2>3, <2>7
  <2> QED BY <1>1, <2>6, <2>8
<1> QED BY <1>6, <1>7

(* The nodes that fit keep enough whole leaves for the pod in hand. *)
LEMMA FitsStep ==
  ASSUME TypeOK, TypeOK', LifeInv, ShareInv, GpuInv, GpuInv', AggregatesAgree, Unbroken,
         FitsAreWhole, NobodyShares \/ WholeNodes, [LifeNext]_vars
  PROVE  FitsAreWhole'
<1>0. cyc \in Cycle /\ UNIT \in Nat /\ HandInv /\ AvailCovers'
  BY RequestAssumption, PlaceParts DEF TypeOK, GpuInv
<1>1. CASE pc' \notin {"filter", "drain", "select"}
  BY <1>1 DEF FitsAreWhole
<1>2. ASSUME pc \in {"filter", "drain", "select"}, cyc'.pod = cyc.pod, cyc'.fit = cyc.fit,
             filled \subseteq filled',
             \A l \in Leaves : avail[l] = UNIT => avail'[l] = UNIT
      PROVE  FitsAreWhole'
  <2> SUFFICES ASSUME MultiGPU(cyc.pod.spec.request), NEW x \in cyc.fit
               PROVE  x \in filled' /\ UNIT * Cardinality(WholeOf(x)') >= cyc.pod.spec.request
    BY <1>2 DEF FitsAreWhole, WholeOf
  <2>1. x \in Nodes /\ x \in filled /\ UNIT * Cardinality(WholeOf(x)) >= cyc.pod.spec.request
    BY <1>0, <1>2 DEF FitsAreWhole, Cycle
  <2>2. WholeOf(x) \subseteq WholeOf(x)'
    BY <1>2 DEF WholeOf, LeavesOf
  <2>3. Cardinality(WholeOf(x)) <= Cardinality(WholeOf(x)')
    BY <2>1, <2>2, WholeOfType, FS_Subset
  <2>4. cyc.pod.spec.request \in Nat
    BY <1>2, RequestAssumption DEF TypeOK, Pod
  <2>5. \A u \in Nat, i, j, r \in Nat : u * i >= r /\ i <= j => u * j >= r
    OBVIOUS
  <2>6. Cardinality(WholeOf(x)) \in Nat /\ Cardinality(WholeOf(x)') \in Nat
    BY <2>1, WholeOfType
  <2>7. UNIT * Cardinality(WholeOf(x)') >= cyc.pod.spec.request
    BY ONLY <1>0, <2>1, <2>3, <2>4, <2>5, <2>6
  <2> QED BY <1>2, <2>1, <2>7
<1>3. CASE Environment \/ UNCHANGED vars
  <2>1. UNCHANGED <<pc, cyc, filled, avail>>
    BY <1>3 DEF Environment, UserCreate, UserDelete, Finish, vars, cellVars
  <2>2. CASE pc \in {"filter", "drain", "select"}
    BY <1>2, <2>1, <2>2
  <2> QED BY <1>1, <2>1, <2>2
<1>4. CASE Informer
  <2>1. UNCHANGED <<pc, cyc, filled>> /\ \A l \in Leaves : avail[l] = UNIT => avail'[l] = UNIT
    BY <1>0, <1>4, InformerKeeps
  <2>2. CASE pc \in {"filter", "drain", "select"}
    BY <1>2, <2>1, <2>2
  <2> QED BY <1>1, <2>1, <2>2
<1>5. CASE \E n \in Names : PreFilter(n)
  <2>1. cyc'.fit = {}
    BY <1>5 DEF PreFilter, IdleCycle
  <2> QED BY <2>1 DEF FitsAreWhole
<1>6. CASE \E x \in Nodes, seen \in BOOLEAN : FilterAddNode(x, seen)
  <2>1. /\ pc = "filter" /\ pc' = "drain" /\ cyc'.pod = cyc.pod /\ cyc'.fit = cyc.fit
        /\ filled \subseteq filled' /\ UNCHANGED avail
    BY <1>0, <1>6 DEF FilterAddNode, SetCellStatus, Cycle
  <2> QED BY <1>2, <2>1
<1>7. CASE FilterDecide
  <2> DEFINE x == cyc.node
  <2>1. /\ pc = "drain" /\ x \in Nodes /\ cyc.pod \in Pod /\ UNCHANGED <<avail, filled>>
        /\ pc' # "idle" => cyc'.pod = cyc.pod
    BY <1>0, <1>7 DEF FilterDecide, TypeOK, cellVars, Cycle
  <2>2. PICK ps \in PodStatus :
          /\ ps = GetPodLabels(cyc.pod) /\ ps.request = cyc.pod.spec.request
          /\ cyc.pod.spec \in Specs
    BY <1>0, <2>1, ChosenPod DEF Choosing
  <2>3. pc' # "idle" => cyc'.fit = cyc.fit \/ (cyc'.fit = cyc.fit \cup {x} /\ NodeFits(x, ps))
    <3>1. PICK fit : /\ fit = cyc.fit \/ (fit = cyc.fit \cup {x} /\ NodeFits(x, ps))
                     /\ cyc' = [cyc EXCEPT !.fit = fit] \/ pc' = "idle"
      BY <1>7, <2>2 DEF FilterDecide
    <3> QED BY <1>0, <3>1 DEF Cycle
  <2>4. CASE pc' = "idle"
    BY <1>1, <2>4
  <2>5. CASE pc' # "idle" /\ MultiGPU(cyc.pod.spec.request)
    <3>1. NodeFits(x, ps) => x \in filled /\ UNIT * Cardinality(WholeOf(x)) >= ps.request
      BY <2>1, <2>2, <2>5, FitNode
    <3>2. \A y \in cyc.fit : y \in filled /\ UNIT * Cardinality(WholeOf(y)) >= ps.request
      BY <2>1, <2>2, <2>5 DEF FitsAreWhole
    <3>3. \A y : WholeOf(y)' = WholeOf(y)
      BY <2>1 DEF WholeOf
    <3>4. \A y \in cyc'.fit : y \in filled' /\ UNIT * Cardinality(WholeOf(y)') >= ps.request
      BY <2>1, <2>3, <2>5, <3>1, <3>2, <3>3
    <3> QED BY <2>1, <2>2, <2>5, <3>4 DEF FitsAreWhole
  <2>6. CASE pc' # "idle" /\ ~ MultiGPU(cyc.pod.spec.request)
    BY <2>1, <2>6 DEF FitsAreWhole
  <2> QED BY <2>4, <2>5, <2>6
<1>8. CASE \/ \E x \in Nodes : ReserveSelect(x)
           \/ LookUpAgain \/ AssumeSharedPod \/ AssumeMultiPod \/ \E l \in Leaves : TakeCell(l)
           \/ ReserveDelete \/ ReserveCreate \/ ReserveCreateFails \/ ReserveSetUid
  <2>1. pc' \notin {"filter", "drain", "select"}
    BY <1>8 DEF ReserveSelect, LookUpAgain, AssumeSharedPod, AssumeMultiPod, Panic, TakeCell, ReserveDelete,
                ReserveCreate, ReserveCreateFails, ReserveSetUid
  <2> QED BY <1>1, <2>1
<1>9. ~ FilterBoundPod
  BY Zenon, NeverABoundPod
<1> QED BY <1>3, <1>4, <1>5, <1>6, <1>7, <1>8, <1>9 DEF LifeNext, InCycle

(* A pod whose cells were chosen: it is alive, or Reserve is replacing it. *)
WasPlaced(n) ==
  Alive(n) \/ (cyc.pod.name = n /\ (pc \in Replacing \/ (pc \in Placed /\ cyc.multi)))
AsRequested(n) ==
  MultiGPU(status[n].request) => UNIT * Cardinality(status[n].cells) = status[n].request
PlacedAsRequested == \A n \in Names : WasPlaced(n) => AsRequested(n)

(* What is said of pods and of the copy follows from their statuses. *)
LEMMA RequestsByStatus ==
  TypeOK /\ LifeInv /\ GpuInv => (ChosenAsRequested /\ GpusAsRequested <=> PlacedAsRequested)
<1> SUFFICES ASSUME TypeOK, LifeInv, GpuInv
             PROVE  ChosenAsRequested /\ GpusAsRequested <=> PlacedAsRequested
  OBVIOUS
<1>1. /\ pc \in Choosing \cup Replacing => cyc.pod.name \in Names
      /\ GpusOfTheAlive /\ GpusOfTheCopy /\ ChosenCells
  BY CycleNames DEF GpuInv, PlaceInv
<1>2. pc \in Placed /\ cyc.multi => MultiGPU(status[cyc.pod.name].request)
  BY <1>1, Zenon DEF ChosenCells
<1>3. pc \in Placed /\ cyc.multi => status[cyc.pod.name].request = cyc.pod.spec.request
  BY <1>1, PlaceParts DEF Placed, GpuInv, HandInv, StatusAsAsked, Choosing
<1>4. GpusAsRequested <=> \A n \in Names : Alive(n) => AsRequested(n)
  BY <1>1 DEF GpusAsRequested, GpusOfTheAlive, StatusOf, AsRequested
<1>5. ChosenAsRequested <=>
        \A n \in Names : cyc.pod.name = n /\ (pc \in Replacing \/ (pc \in Placed /\ cyc.multi))
                           => AsRequested(n)
  <2>1. (pc \in Replacing /\ MultiGPU(cyc.copy.spec.request) =>
           UNIT * Cardinality(cyc.copy.gpus) = cyc.copy.spec.request)
        <=> (pc \in Replacing => AsRequested(cyc.pod.name))
    BY <1>1 DEF GpusOfTheCopy, StatusOf, AsRequested
  <2>2. (pc \in Placed /\ cyc.multi =>
           UNIT * Cardinality(status[cyc.pod.name].cells) = cyc.pod.spec.request)
        <=> (pc \in Placed /\ cyc.multi => AsRequested(cyc.pod.name))
    BY <1>2, <1>3 DEF AsRequested
  <2>3. pc \in Replacing \cup Placed => cyc.pod.name \in Names
    BY <1>1 DEF Choosing, Placed
  <2> QED BY <2>1, <2>2, <2>3 DEF ChosenAsRequested
<1> QED BY <1>4, <1>5 DEF WasPlaced, PlacedAsRequested

(* The same of the next state. *)
LEMMA RequestsByStatusNext ==
  (TypeOK /\ LifeInv /\ GpuInv => (ChosenAsRequested /\ GpusAsRequested <=> PlacedAsRequested))'
  BY RequestsByStatus, PTL

(* Nobody but Reserve binds a pod. *)
LEMMA AliveBefore ==
  ASSUME TypeOK, LifeInv, [LifeNext]_vars, ~ ReserveCreate, NEW n \in Names, Alive(n)'
  PROVE  Alive(n) /\ api'[n] = api[n]
<1>1. ASSUME NEW m \in Names,
             (\E s \in Specs : UserCreate(m, s)) \/ UserDelete(m) \/ Finish(m)
      PROVE  Alive(n) /\ api'[n] = api[n]
  <2>1. PICK e \in EventSet :
          /\ \A k \in Names : k # m => api'[k] = api[k]
          /\ PodEnds(m, e) \/ (PodBegins(m, e) /\ ~ isBound(api'[m]))
    BY <1>1, EnvironmentApi
  <2>2. n # m
    BY <2>1 DEF PodEnds, Alive
  <2> QED BY <2>1, <2>2 DEF Alive
<1>2. CASE ReserveDelete
  BY <1>2 DEF ReserveDelete, Alive, TypeOK
<1>3. CASE UNCHANGED api
  BY <1>3 DEF Alive
<1>4. Environment \/ ReserveDelete \/ UNCHANGED api
  <2>1. Informer => UNCHANGED api
    BY InformerGives
  <2>2. InCycle => ReserveDelete \/ UNCHANGED api
    BY DEF InCycle, FilterAddNode, FilterBoundPod, FilterDecide, ReserveSelect, LookUpAgain,
           AssumeSharedPod, AssumeMultiPod, TakeCell, ReserveCreateFails, ReserveSetUid, apiVars
  <2>3. (\E k \in Names : PreFilter(k)) \/ UNCHANGED vars => UNCHANGED api
    BY DEF PreFilter, vars, apiVars
  <2> QED BY <2>1, <2>2, <2>3 DEF LifeNext
<1> QED BY <1>1, <1>2, <1>3, <1>4 DEF Environment

(* Reserve chooses as many whole leaves as the pod asks for. *)
LEMMA SelectAsRequested ==
  ASSUME TypeOK, LifeInv, GpuInv, FitsAreWhole, NEW x \in Nodes, ReserveSelect(x),
         pc' = "assume", cyc'.multi
  PROVE  AsRequested(cyc.pod.name)'
<1>1. /\ pc = "select" /\ cyc.pod \in Pod /\ cyc \in Cycle /\ cyc.pod.name \in Names
      /\ x \in cyc.fit /\ HandInv
  BY CycleNames, PlaceParts DEF ReserveSelect, TypeOK, Choosing, GpuInv
<1>2. PICK ps \in PodStatus :
        /\ ps = GetPodLabels(cyc.pod) /\ ps.request = cyc.pod.spec.request
        /\ cyc.pod.spec \in Specs
  BY <1>1, ChosenPod DEF Choosing
<1>3. PICK cells \in CellChoices(x, ps) :
        /\ status' = [status EXCEPT ![cyc.pod.name] = [ps EXCEPT !.cells = cells]]
        /\ cyc' = [cyc EXCEPT !.node = x, !.multi = MultiGPU(ps.request)]
  BY <1>2 DEF ReserveSelect, Panic
<1>4. MultiGPU(ps.request)
  BY <1>1, <1>3 DEF Cycle
<1>5. x \in filled /\ UNIT * Cardinality(WholeOf(x)) >= ps.request
  BY <1>1, <1>2, <1>4 DEF FitsAreWhole
<1>6. /\ ps.request \in Nat /\ UNIT \in Nat \ {0} /\ ps.request % UNIT = 0 /\ ps.request > UNIT
      /\ Cardinality(WholeOf(x)) \in Nat
  BY <1>2, <1>4, RequestAssumption, WholeOfType DEF MultiGPU
<1> DEFINE wanting == ps.request \div UNIT
<1>7. UNIT * wanting = ps.request /\ wanting \in Nat
  <2>1. \A r \in Nat, u \in Nat \ {0} : r % u = 0 => u * (r \div u) = r /\ r \div u \in Nat
    OBVIOUS
  <2> QED BY <1>6, <2>1
<1>8. cells \subseteq WholeOf(x) /\ (Cardinality(cells) = wanting
                                     \/ (cells = WholeOf(x) /\ Cardinality(cells) < wanting))
  BY <1>4, <1>5 DEF CellChoices, WholeOf
<1>9. ~ (Cardinality(WholeOf(x)) < wanting)
  <2>1. \A u \in Nat \ {0}, i, j \in Nat : i < j => u * i < u * j
    OBVIOUS
  <2>2. \A u \in Nat, i \in Nat : u * i \in Nat
    OBVIOUS
  <2> HIDE DEF wanting
  <2> QED BY <1>5, <1>6, <1>7, <2>1, <2>2
<1>10. Cardinality(cells) = wanting
  BY <1>8, <1>9
<1> DEFINE new == [ps EXCEPT !.cells = cells]
<1>11. status'[cyc.pod.name] = new
  BY <1>1, <1>3 DEF TypeOK
<1>12. new.cells = cells /\ new.request = ps.request
  BY DEF PodStatus
<1>13. cyc'.pod = cyc.pod
  BY <1>1, <1>3 DEF Cycle
<1> HIDE DEF new, wanting
<1>14. UNIT * Cardinality(status'[cyc.pod.name].cells) = status'[cyc.pod.name].request
  BY <1>7, <1>10, <1>11, <1>12
<1> QED BY <1>13, <1>14 DEF AsRequested

(* Every step keeps the number of GPUs of whatever was placed. *)
LEMMA PlacedStep ==
  ASSUME TypeOK, TypeOK', LifeInv, LifeInv', GpuInv, GpuInv', FitsAreWhole, [LifeNext]_vars,
         \A n \in Names : WasPlaced(n) => AsRequested(n), NEW n \in Names, WasPlaced(n)'
  PROVE  AsRequested(n)'
<1>0. /\ cyc \in Cycle /\ HandInv /\ ChosenCells /\ ChosenCells' /\ GpusOfTheAlive'
      /\ KeptWhileReplaced' /\ NotYetBound /\ GpusOfTheAlive /\ LatestInApi
  BY PlaceParts DEF TypeOK, GpuInv, PlaceInv, LifeInv, OrderInv
<1>1. ASSUME WasPlaced(n),
             status'[n].cells = status[n].cells /\ status'[n].request = status[n].request
      PROVE  AsRequested(n)'
  BY <1>1 DEF AsRequested
<1>2. ~ ReserveCreate /\ Alive(n)' => Alive(n)
  BY AliveBefore
<1>3. Alive(n) /\ pc \in Choosing \cup Replacing => n # cyc.pod.name
  BY <1>0 DEF NotYetBound, Alive
<1>4. CASE Environment \/ UNCHANGED vars
  <2>1. UNCHANGED <<pc, cyc, status>> /\ ~ ReserveCreate
    BY <1>4 DEF Environment, UserCreate, UserDelete, Finish, vars, ReserveCreate
  <2> QED BY <1>1, <1>2, <2>1 DEF WasPlaced
<1>5. CASE Informer
  <2>1. UNCHANGED <<pc, cyc, api>>
    BY <1>5, InformerGives
  <2>2. WasPlaced(n)
    BY <2>1 DEF WasPlaced, Alive
  <2>3. status'[n] # NoStatus
    <3>1. pc' \in Choosing \cup Replacing => status'[cyc'.pod.name] # NoStatus
      BY <1>0 DEF LifeInv, PodInHand, KeptWhileReplaced, HasStatus
    <3> QED BY <1>0, <3>1 DEF WasPlaced, GpusOfTheAlive, Choosing, Placed
  <2>4. status'[n] = status[n]
    <3>1. CASE UNCHANGED status
      BY <3>1
    <3>2. CASE \E m \in Names : status' = [status EXCEPT ![m] = NoStatus]
      BY <2>3, <3>2 DEF TypeOK
    <3> QED BY <1>5, <3>1, <3>2, InformerGives
  <2> QED BY <1>1, <2>2, <2>4
<1>6. ASSUME NEW m \in Names, PreFilter(m) PROVE AsRequested(n)'
  <2>1. /\ pc' = "filter" /\ UNCHANGED api /\ ~ isBound(api[m])
        /\ \E ps : status' = [status EXCEPT ![m] = ps]
    BY <1>6 DEF PreFilter, apiVars
  <2>2. Alive(n) /\ n # m
    BY <2>1 DEF WasPlaced, Alive, Replacing, Placed
  <2> QED BY <1>1, <2>1, <2>2 DEF WasPlaced, TypeOK
<1>7. CASE FilterDecide
  <2>1. /\ pc = "drain" /\ pc' \notin Replacing \cup Placed /\ UNCHANGED api
        /\ \E ps : status' = [status EXCEPT ![cyc.pod.name] = ps]
    BY <1>7 DEF FilterDecide, apiVars, Replacing, Placed
  <2>2. Alive(n) /\ n # cyc.pod.name
    BY <1>3, <2>1 DEF WasPlaced, Alive, Choosing
  <2> QED BY <1>1, <2>1, <2>2 DEF WasPlaced, TypeOK
<1>8. ASSUME NEW x \in Nodes, ReserveSelect(x) PROVE AsRequested(n)'
  <2>1. /\ pc = "select" /\ pc' \in {"assume", "panicked"} /\ UNCHANGED api
        /\ \E ps : status' = [status EXCEPT ![cyc.pod.name] = ps]
        /\ pc' = "assume" => cyc'.pod = cyc.pod
    BY <1>0, <1>8 DEF ReserveSelect, apiVars, Panic, Cycle
  <2>2. CASE Alive(n)
    <3>1. n # cyc.pod.name
      BY <1>3, <2>1, <2>2 DEF Choosing
    <3> QED BY <1>1, <2>1, <2>2, <3>1 DEF WasPlaced, TypeOK
  <2>3. CASE ~ Alive(n)
    <3>1. n = cyc'.pod.name /\ pc' = "assume" /\ cyc'.multi
      BY <2>1, <2>3 DEF WasPlaced, Alive, Replacing, Placed
    <3>2. AsRequested(cyc.pod.name)'
      BY <1>8, <3>1, SelectAsRequested
    <3> QED BY <3>1, <3>2 DEF AsRequested
  <2> QED BY <2>2, <2>3
<1>9. CASE AssumeSharedPod \/ AssumeMultiPod
  <2>1. pc = "empty" /\ UNCHANGED api
    BY <1>9 DEF AssumeSharedPod, AssumeMultiPod, apiVars
  <2>2. PICK old \in PodStatus : old = status[cyc.pod.name] /\ cyc.pod.name \in Names
    BY <2>1, ChosenInHand, CycleNames DEF Choosing
  <2>3. PICK new \in PodStatus :
          /\ status' = [status EXCEPT ![cyc.pod.name] = new]
          /\ new.cells = old.cells /\ new.request = old.request
          /\ cyc'.pod = cyc.pod
          /\ AssumeSharedPod => ~ cyc.multi
          /\ AssumeMultiPod => cyc.multi
    <3>1. CASE AssumeSharedPod
      <4>1. PICK new \in PodStatus, l \in Leaves :
              /\ status' = [status EXCEPT ![cyc.pod.name] = new]
              /\ new.cells = old.cells /\ new.request = old.request
              /\ cyc'.pod = cyc.pod /\ ~ cyc.multi
        BY <1>0, <2>2, <3>1, AssumeSharedGives
      <4> QED BY <4>1 DEF AssumeMultiPod
    <3>2. CASE AssumeMultiPod
      <4>1. PICK new \in PodStatus :
              /\ status' = [status EXCEPT ![cyc.pod.name] = new]
              /\ new.cells = old.cells /\ new.request = old.request
              /\ cyc'.pod = cyc.pod /\ cyc.multi
        BY <2>2, <3>2, AssumeMultiGives
      <4> QED BY <4>1 DEF AssumeSharedPod
    <3> QED BY <1>9, <3>1, <3>2
  <2>4. CASE Alive(n)
    <3>1. n # cyc.pod.name
      BY <1>3, <2>1, <2>4 DEF Choosing
    <3> QED BY <1>1, <2>3, <2>4, <3>1 DEF WasPlaced, TypeOK
  <2>5. CASE ~ Alive(n)
    <3>1. n = cyc.pod.name
      BY <2>1, <2>3, <2>5 DEF WasPlaced, Alive
    <3>2. status'[n].cells = status[n].cells /\ status'[n].request = status[n].request
      BY <2>2, <2>3, <3>1 DEF TypeOK
    <3>3. CASE AssumeMultiPod
      <4>1. WasPlaced(n)
        BY <2>1, <2>3, <3>1, <3>3 DEF WasPlaced, Placed
      <4> QED BY <1>1, <3>2, <4>1
    <3>4. CASE AssumeSharedPod
      <4>1. ~ MultiGPU(status[n].request)
        BY <1>0, <2>1, <2>3, <3>1, <3>4 DEF ChosenCells, Placed
      <4> QED BY <3>2, <4>1 DEF AsRequested
    <3> QED BY <1>9, <3>3, <3>4
  <2> QED BY <2>4, <2>5
<1>14. CASE LookUpAgain
  <2>1. /\ UNCHANGED <<api, status>> /\ pc = "assume" /\ pc' = "empty"
        /\ cyc'.pod = cyc.pod /\ cyc'.multi = cyc.multi /\ ~ ReserveCreate
    <3>1. /\ pc = "assume" /\ pc' = "empty" /\ UNCHANGED <<apiVars, status>>
          /\ cyc' = [cyc EXCEPT !.ps = status[cyc.pod.name], !.same = TRUE]
      BY <1>14, LookUpAgainFinds
    <3> QED BY <1>0, <3>1 DEF Cycle, apiVars, ReserveCreate
  <2>2. WasPlaced(n)
    BY <2>1 DEF WasPlaced, Placed, Alive, Replacing
  <2> QED BY <1>1, <2>1, <2>2
<1>10. CASE \/ \E x \in Nodes, seen \in BOOLEAN : FilterAddNode(x, seen)
            \/ \E l \in Leaves : TakeCell(l)
            \/ ReserveDelete \/ ReserveCreateFails
  <2>1. /\ UNCHANGED status /\ ~ ReserveCreate /\ cyc'.pod = cyc.pod
        /\ pc' \in Replacing => pc \in Replacing
        /\ pc' \notin Placed
    <3>1. CASE \E l \in Leaves : TakeCell(l)
      <4>1. \E left, copy : cyc' = [cyc EXCEPT !.left = left, !.copy = copy]
        BY <3>1 DEF TakeCell
      <4> QED BY <1>0, <3>1, <4>1 DEF TakeCell, Cycle, Replacing, Placed, ReserveCreate
    <3>2. CASE \E x \in Nodes, seen \in BOOLEAN : FilterAddNode(x, seen)
      BY <1>0, <3>2 DEF FilterAddNode, ReserveCreate, Cycle, Replacing, Placed
    <3>3. CASE ReserveDelete \/ ReserveCreateFails
      <4>1. pc \in {"delete", "create"} /\ pc' \in {"create", "setuid"} /\ UNCHANGED status
            /\ cyc'.pod = cyc.pod
        BY <1>0, <3>3 DEF ReserveDelete, ReserveCreateFails, Cycle
      <4>2. ~ ReserveCreate
        BY <3>3 DEF ReserveDelete, ReserveCreateFails, ReserveCreate, apiVars, counters, TypeOK
      <4> QED BY <4>1, <4>2 DEF Replacing, Placed
    <3> QED BY <1>10, <3>1, <3>2, <3>3
  <2> QED BY <1>1, <1>2, <2>1 DEF WasPlaced
<1>11. CASE ReserveCreate
  <2>1. /\ pc = "create" /\ pc' = "setuid" /\ UNCHANGED status
        /\ \A m \in Names : m # cyc.pod.name => api'[m] = api[m]
    BY <1>11 DEF ReserveCreate, TypeOK
  <2>2. WasPlaced(n)
    BY <2>1 DEF WasPlaced, Alive, Replacing, Placed
  <2> QED BY <1>1, <2>1, <2>2
<1>12. CASE ReserveSetUid
  <2>1. /\ pc = "setuid" /\ pc' = "idle" /\ UNCHANGED api
        /\ \A m \in Names : /\ status'[m].cells = status[m].cells
                            /\ status'[m].request = status[m].request
    BY <1>12, SetUidGives
  <2> QED BY <1>1, <2>1 DEF WasPlaced, Alive, Replacing, Placed
<1>13. ~ FilterBoundPod
  BY Zenon, NeverABoundPod
<1> QED BY <1>4, <1>5, <1>6, <1>7, <1>8, <1>9, <1>10, <1>11, <1>12, <1>13, <1>14
        DEF LifeNext, InCycle

(* In the beginning every leaf is whole. *)
LEMMA RequestInit == Init => RequestInv
<1> SUFFICES ASSUME Init PROVE RequestInv
  OBVIOUS
<1>1. ASSUME NEW l \in Leaves PROVE avail[l] = UNIT
  <2>1. LeavesUnder(l) = {l}
    BY TopologyAssumption DEF LeavesUnder
  <2>2. avail[l] = UNIT * 1
    BY <2>1, FS_Singleton, TopologyAssumption DEF Init, Full
  <2> QED BY <2>2, RequestAssumption
<1>2. Unbroken
  BY <1>1 DEF Unbroken
<1>3. pc = "idle" /\ \A n \in Names : api[n] = NoPod
  BY DEF Init
<1> QED BY <1>2, <1>3 DEF RequestInv, FitsAreWhole, ChosenAsRequested, GpusAsRequested, Placed,
                    Replacing, Alive

(* Every step of one life of the process keeps RequestInv, if no whole GPU is  *)
(* hidden among broken ones.                                                   *)
THEOREM RequestStep ==
  ASSUME NobodyShares \/ WholeNodes
  PROVE  TypeOK /\ TypeOK' /\ LifeInv /\ LifeInv' /\ ShareInv /\ ShareInv' /\ GpuInv /\ GpuInv'
           /\ AggregatesAgree /\ RequestInv /\ [LifeNext]_vars => RequestInv'
<1> SUFFICES ASSUME TypeOK, TypeOK', LifeInv, LifeInv', ShareInv, ShareInv', GpuInv, GpuInv',
                    AggregatesAgree, RequestInv, [LifeNext]_vars
             PROVE  RequestInv'
  OBVIOUS
<1>1. Unbroken'
  BY UnbrokenStep DEF RequestInv
<1>2. FitsAreWhole'
  BY FitsStep DEF RequestInv
<1>3. PlacedAsRequested
  BY RequestsByStatus DEF RequestInv
<1>4. PlacedAsRequested'
  BY <1>3, PlacedStep DEF RequestInv, PlacedAsRequested
<1>5. ChosenAsRequested' /\ GpusAsRequested'
  BY <1>4, RequestsByStatusNext
<1> QED BY <1>1, <1>2, <1>5 DEF RequestInv

(* One life of the process is one of the behaviours of Spec. *)
LEMMA AggregatesInLife == LifeSpec => []AggregatesAgree
  BY LifeIsSpec, AggregatesAlwaysAgree, PTL

(* Nodes that fit and cells that were chosen are as many as the pod asks for. *)
THEOREM RequestCorrect ==
  ASSUME OriginalsStay, NobodyShares \/ WholeNodes PROVE LifeSpec => []RequestInv
<1>1. TypeOK /\ TypeOK' /\ LifeInv /\ LifeInv' /\ ShareInv /\ ShareInv' /\ GpuInv /\ GpuInv'
        /\ AggregatesAgree /\ RequestInv /\ [LifeNext]_vars => RequestInv'
  BY RequestStep
<1>2. LifeSpec => [](TypeOK /\ LifeInv)
  BY LifeCorrect
<1>3. LifeSpec => []ShareInv
  BY ShareCorrect
<1>4. LifeSpec => []GpuInv
  BY GpuCorrect
<1> QED BY <1>1, <1>2, <1>3, <1>4, AggregatesInLife, RequestInit, PTL DEF LifeSpec

(* A multi-GPU pod gets as many GPUs as it asks for, in one life of the        *)
(* process, if users leave a pod alone that a cycle has in hand and either     *)
(* nobody shares a GPU or multi-GPU pods ask for whole nodes: Filter adds up   *)
(* what is left of a node's GPUs, and then only whole GPUs make up the sum.    *)
THEOREM GpusAlwaysAsRequested ==
  ASSUME OriginalsStay, NobodyShares \/ WholeNodes PROVE LifeSpec => []GpusAsRequested
<1>1. RequestInv => GpusAsRequested
  BY DEF RequestInv
<1>2. LifeSpec => []RequestInv
  BY RequestCorrect
<1> QED BY <1>1, <1>2, PTL
-----------------------------------------------------------------------------

(* ExactInv but for the amounts. *)
SlotInv == /\ FirstIsUnbound /\ UidWhileReplaced /\ ShadowForSure /\ HeldFromReserve
           /\ HeldUntilHandled /\ PortsExact /\ PortsAnnotated

(* A status that holds something and is neither of a pod alive nor in Reserve *)
(* has an event that will drop it.                                           *)
Remains(n) ==
  /\ status[n] # NoStatus /\ status[n].uid # 0 /\ ~ Alive(n)
  /\ status[n].cells # {} \/ InPool(status[n].port)
  /\ ~ (pc \in Placed /\ cyc.pod.name = n)
Ends(e) == e.type = "delete" \/ isCompleted(e.pod)
Dropping(n) == \E f \in Pending : Ends(f) /\ f.pod.name = n /\ f.pod.uid = status[n].uid

(* HeldUntilHandled, without the positions of events. *)
LEMMA HeldByPending ==
  /\ HeldUntilHandled <=> \A n \in Names : Remains(n) => Dropping(n)
  /\ HeldUntilHandled' <=> \A n \in Names : Remains(n)' => Dropping(n)'
  BY DEF HeldUntilHandled, Remains, Ends, Dropping, Pending, NameOf, UidOf

(* Appending an event keeps those still to handle. *)
LEMMA PendingKept ==
  ASSUME TypeOK, NEW e \in EventSet, events' = Append(events, e)
  PROVE  Pending \subseteq Pending' /\ e \in Pending'
<1>1. events \in Seq(EventSet)
  BY DEF TypeOK, EventSet
<1>2. /\ DOMAIN events' = 1 .. Len(events) + 1 /\ Len(events) \in Nat
      /\ \A i \in DOMAIN events : events'[i] = events[i]
      /\ events'[Len(events) + 1] = e /\ DOMAIN events = 1 .. Len(events)
  BY <1>1, AppendEvent, LenProperties
<1>3. DOMAIN events \subseteq DOMAIN events' /\ Len(events) + 1 \in DOMAIN events'
  BY <1>2
<1> QED BY <1>2, <1>3 DEF Pending

(* Handling the first event keeps the others. *)
LEMMA PendingLeft ==
  ASSUME TypeOK, events # <<>>, events' = Tail(events)
  PROVE  \A f \in Pending : f = Head(events) \/ f \in Pending'
<1>1. events \in Seq(EventSet)
  BY DEF TypeOK, EventSet
<1>2. /\ Head(events) = events[1] /\ DOMAIN events = 1 .. Len(events) /\ Len(events) \in Nat \ {0}
      /\ DOMAIN events' = 1 .. Len(events) - 1
      /\ \A i \in 1 .. Len(events) - 1 : events'[i] = events[i + 1]
  BY <1>1, HeadTailProperties, LenProperties, EmptySeq
<1>3. ASSUME NEW i \in DOMAIN events PROVE events[i] = Head(events) \/ events[i] \in Pending'
  <2>1. CASE i = 1
    BY <1>2, <2>1
  <2>2. CASE i # 1
    <3>1. i - 1 \in 1 .. Len(events) - 1 /\ i - 1 + 1 = i
      BY <1>2, <2>2
    <3> QED BY <1>2, <3>1 DEF Pending
  <2> QED BY <2>1, <2>2
<1> QED BY <1>3 DEF Pending

(* The pod in a cycle is left alone, and its status is its own. *)
LEMMA AloneInHand ==
  ASSUME TypeOK, LifeInv, pc \in Choosing
  PROVE  /\ cyc.pod \in Pod /\ cyc.pod.name \in Names /\ api[cyc.pod.name] = cyc.pod
         /\ api[cyc.pod.name] # NoPod /\ ~ isBound(api[cyc.pod.name])
         /\ ~ isCompleted(cyc.pod)
         /\ HasStatus(cyc.pod) /\ GetPodLabels(cyc.pod) = status[cyc.pod.name]
         /\ status[cyc.pod.name] \in PodStatus /\ status[cyc.pod.name] # NoStatus
<1>1. /\ cyc.pod \in Pod /\ cyc.pod.name \in Names /\ ~ isBound(cyc.pod)
      /\ api[cyc.pod.name] = cyc.pod /\ HasStatus(cyc.pod)
      /\ GetPodLabels(cyc.pod) = status[cyc.pod.name] /\ status[cyc.pod.name] \in PodStatus
  BY ChosenInHand, CycleNames DEF InHand
<1>2. api[cyc.pod.name] # NoPod
  BY <1>1, AbsenceAssumption
<1>3. ~ isCompleted(cyc.pod)
  BY <1>1, <1>2 DEF LifeInv, OrderInv, LatestInApi
<1> QED BY <1>1, <1>2, <1>3 DEF HasStatus

(* What users and kubelets do to the pod of a name that is not in a cycle. *)
LEMMA EnvironmentEffect ==
  ASSUME TypeOK, LifeInv, Undisturbed, Environment
  PROVE  \E n \in Names :
           /\ \A m \in Names \ {n} : api'[m] = api[m] /\ born'[m] = born[m]
           /\ pc \notin {"idle", "panicked"} => cyc.pod.name # n
           /\ ~ Alive(n)' /\ Pending \subseteq Pending'
           /\ Alive(n) => \E f \in Pending' : Ends(f) /\ f.pod.name = n /\ f.pod.uid = api[n].uid
           /\ api'[n] # NoPod /\ ~ isBound(api'[n]) =>
                born[n] = 0 /\ born'[n] = 1 /\ api'[n].uid = 1 /\ api'[n].name = n
<1>1. PICK n \in Names : (\E s \in Specs : UserCreate(n, s)) \/ UserDelete(n) \/ Finish(n)
  BY DEF Environment
<1>2. OriginalsStay /\ ShadowsStay /\ MaxUid[n] <= 2 /\ MaxUid[n] \in Nat
  BY BoundsAssumption DEF Undisturbed
<1>3. pc \notin {"idle", "panicked"} => cyc.pod.name # n
  <2>1. CASE UserDelete(n) \/ Finish(n)
    <3>1. ~ BeingReplaced(n)
      BY <1>2, <2>1 DEF UserDelete, Finish
    <3>2. CASE UserDelete(n)
      <4>1. ~ HasInHand(n)
        BY <1>2, <3>2 DEF UserDelete
      <4> QED BY <3>1, <4>1 DEF HasInHand, BeingReplaced
    <3>3. CASE Finish(n)
      <4>1. Alive(n)
        BY <3>3 DEF Finish
      <4>2. pc \in Choosing \cup Replacing => cyc.pod.name # n
        BY <4>1 DEF LifeInv, NotYetBound, Alive
      <4> QED BY <3>1, <4>2 DEF BeingReplaced, Choosing, Replacing, TypeOK, Locations
    <3> QED BY <2>1, <3>2, <3>3
  <2>2. CASE \E s \in Specs : UserCreate(n, s)
    <3>1. born[n] + 1 < MaxUid[n] /\ ~ BeingReplaced(n)
      BY <1>2, <2>2 DEF UserCreate
    <3>2. pc \in Choosing \cup Replacing =>
            cyc.pod.uid \in Nat \ {0} /\ cyc.pod.uid <= born[cyc.pod.name]
      BY CycleNames DEF LifeInv, UidsKnown
    <3>3. born[n] \in Nat
      BY DEF TypeOK
    <3> QED BY <1>2, <3>1, <3>2, <3>3 DEF BeingReplaced, Choosing, Replacing, TypeOK, Locations
  <2> QED BY <1>1, <2>1, <2>2
<1>4. LatestInApi /\ born[n] \in Nat /\ api \in [Names -> Pod \cup {NoPod}]
      /\ born \in [Names -> Nat]
  BY DEF LifeInv, OrderInv, TypeOK
<1>5. ASSUME NEW s \in Specs, UserCreate(n, s)
      PROVE  /\ \A m \in Names \ {n} : api'[m] = api[m] /\ born'[m] = born[m]
             /\ ~ Alive(n) /\ ~ Alive(n)' /\ Pending \subseteq Pending'
             /\ born[n] = 0 /\ born'[n] = 1 /\ api'[n].uid = 1 /\ api'[n].name = n
  <2>1. PICK pod \in Pod : pod = NewPod(n, s)
    <3>1. NewPod(n, s) \in Pod
      BY <1>4 DEF NewPod, Pod, Ports
    <3> QED BY <3>1
  <2>2. pod.name = n /\ pod.uid = born[n] + 1 /\ pod.node = NoNode
    BY <2>1 DEF NewPod
  <2>3. Event("add", pod) \in EventSet
    BY DEF Event, EventSet
  <2>4. /\ api' = [api EXCEPT ![n] = pod] /\ events' = Append(events, Event("add", pod))
        /\ born' = [born EXCEPT ![n] = @ + 1] /\ api[n] = NoPod /\ born[n] + 1 < MaxUid[n]
    BY <1>5, <2>1 DEF UserCreate
  <2>5. born[n] = 0
    BY <1>2, <1>4, <2>4
  <2>6. Pending \subseteq Pending'
    BY <2>3, <2>4, PendingKept
  <2> QED BY <1>4, <2>2, <2>4, <2>5, <2>6 DEF Alive, isBound
<1>6. ASSUME UserDelete(n) \/ Finish(n)
      PROVE  /\ \A m \in Names \ {n} : api'[m] = api[m] /\ born'[m] = born[m]
             /\ ~ Alive(n)' /\ Pending \subseteq Pending'
             /\ \E f \in Pending' : Ends(f) /\ f.pod.name = n /\ f.pod.uid = api[n].uid
             /\ api'[n] = NoPod \/ isBound(api'[n])
  <2>1. api[n] \in Pod /\ api[n].name = n /\ UNCHANGED born
    BY <1>4, <1>6 DEF LatestInApi, UserDelete, Finish, Alive
  <2>2. CASE UserDelete(n)
    <3>1. PICK e \in EventSet : e = Event("delete", api[n])
      BY <2>1 DEF Event, EventSet
    <3>2. Ends(e) /\ e.pod = api[n]
      BY <3>1 DEF Ends, Event
    <3>3. events' = Append(events, e) /\ api' = [api EXCEPT ![n] = NoPod]
      BY <2>2, <3>1 DEF UserDelete
    <3>4. Pending \subseteq Pending' /\ e \in Pending'
      BY <3>3, PendingKept
    <3> QED BY <1>4, <2>1, <3>2, <3>3, <3>4 DEF Alive
  <2>3. CASE Finish(n)
    <3>1. PICK pod \in Pod : pod = [api[n] EXCEPT !.phase = "Done"]
      <4>1. [api[n] EXCEPT !.phase = "Done"] \in Pod
        BY <2>1 DEF Pod
      <4> QED BY <4>1
    <3>2. pod.name = n /\ pod.uid = api[n].uid /\ isCompleted(pod) /\ isBound(pod)
      BY <2>1, <2>3, <3>1 DEF Pod, isCompleted, isBound, Finish, Alive
    <3>3. PICK e \in EventSet : e = Event("update", pod)
      BY DEF Event, EventSet
    <3>4. Ends(e) /\ e.pod = pod
      BY <3>2, <3>3 DEF Ends, Event
    <3>5. events' = Append(events, e) /\ api' = [api EXCEPT ![n] = pod]
      BY <2>3, <3>1, <3>3 DEF Finish
    <3>6. Pending \subseteq Pending' /\ e \in Pending'
      BY <3>5, PendingKept
    <3> QED BY <1>4, <2>1, <3>2, <3>4, <3>5, <3>6 DEF Alive
  <2> QED BY <1>6, <2>2, <2>3
<1> QED BY <1>1, <1>3, <1>5, <1>6

(* Users and kubelets add events and touch no status. *)
LEMMA EnvironmentSlots ==
  ASSUME TypeOK, LifeInv, GpusOfTheAlive, Undisturbed, SlotInv, Environment
  PROVE  SlotInv'
<1>0. UNCHANGED <<pc, cyc, status, masked, hpc, ending>>
  BY DEF Environment, UserCreate, UserDelete, Finish, portVars, endVars
<1>1. PICK n \in Names :
        /\ \A m \in Names \ {n} : api'[m] = api[m] /\ born'[m] = born[m]
        /\ pc \notin {"idle", "panicked"} => cyc.pod.name # n
        /\ ~ Alive(n)' /\ Pending \subseteq Pending'
        /\ Alive(n) => \E f \in Pending' : Ends(f) /\ f.pod.name = n /\ f.pod.uid = api[n].uid
        /\ api'[n] # NoPod /\ ~ isBound(api'[n]) =>
             born[n] = 0 /\ born'[n] = 1 /\ api'[n].uid = 1 /\ api'[n].name = n
  BY EnvironmentEffect
<1>2. \A m \in Names : Alive(m)' => m # n /\ Alive(m) /\ api'[m] = api[m]
  BY <1>1 DEF Alive
<1>3. \A m \in Names \ {n} : Alive(m)' <=> Alive(m)
  BY <1>1 DEF Alive
<1>4. FirstIsUnbound'
  BY <1>1 DEF SlotInv, FirstIsUnbound
<1>5. UidWhileReplaced'
  BY <1>0 DEF SlotInv, UidWhileReplaced
<1>6. ShadowForSure'
  <2>1. pc \in Replacing \cup {"setuid"} => cyc.pod.name \in Names \ {n}
    BY <1>1, CycleNames DEF Replacing
  <2> QED BY <1>0, <1>1, <1>3, <2>1 DEF SlotInv, ShadowForSure, Replacing
<1>7. HeldFromReserve'
  <2>1. ASSUME api'[n] # NoPod, ~ isBound(api'[n]) PROVE ~ HasStatus(api'[n])
    <3>1. status[n] # NoStatus => status[n].uid \in Nat /\ status[n].uid <= born[n]
      BY CycleNames DEF LifeInv, UidsKnown
    <3> QED BY <1>1, <2>1, <3>1 DEF HasStatus
  <2> QED BY <1>0, <1>1, <2>1 DEF SlotInv, HeldFromReserve, HasStatus
<1>8. HeldUntilHandled'
  <2> SUFFICES ASSUME NEW m \in Names, Remains(m)' PROVE Dropping(m)'
    BY HeldByPending
  <2>1. CASE Remains(m)
    <3>1. Dropping(m)
      BY <2>1, HeldByPending DEF SlotInv
    <3> QED BY <1>0, <1>1, <3>1 DEF Dropping
  <2>2. CASE ~ Remains(m)
    <3>1. Alive(m) /\ m = n
      BY <1>0, <1>3, <2>2 DEF Remains
    <3>2. status[m].uid = api[m].uid
      BY <1>1, <3>1 DEF GpusOfTheAlive
    <3> QED BY <1>0, <1>1, <3>1, <3>2 DEF Dropping
  <2> QED BY <2>1, <2>2
<1>9. PortsExact'
  BY <1>0 DEF SlotInv, PortsExact
<1>10. PortsAnnotated'
  BY <1>0, <1>2 DEF SlotInv, PortsAnnotated
<1> QED BY <1>4, <1>5, <1>6, <1>7, <1>8, <1>9, <1>10 DEF SlotInv

(* The informer drops the status that an event of a pod's end is about, and   *)
(* then unmasks its port; otherwise it changes neither.                      *)
LEMMA InformerEffect ==
  ASSUME TypeOK, LifeInv, Informer
  PROVE  /\ UNCHANGED <<api, born, pc, cyc>>
         /\ \/ /\ UNCHANGED masked /\ hpc # "unmask"
               /\ \A f \in Pending : f = Head(events) \/ f \in Pending'
               /\ \/ /\ UNCHANGED <<status, hpc, ending>>
                     /\ Ends(Head(events)) => ~ HasStatus(Head(events).pod)
                  \/ \E n \in Names :
                       /\ status[n] # NoStatus
                       /\ n = Head(events).pod.name /\ HasStatus(Head(events).pod)
                       /\ status' = [status EXCEPT ![n] = NoStatus]
                       /\ IF MultiGPU(status[n].request) THEN hpc' # "unmask"
                          ELSE hpc' = "unmask" /\ ending' = status[n]
            \/ /\ UNCHANGED <<status, events>> /\ hpc' # "unmask"
               /\ IF hpc = "unmask" THEN UnmaskPort(ending.node, ending.port)
                                     ELSE UNCHANGED masked
<1>1. CASE HandlesEvent
  <2> DEFINE pod == Head(events).pod
  <2>1. /\ UNCHANGED <<api, born, pc, cyc, masked>> /\ events # <<>> /\ events' = Tail(events)
        /\ hpc = "ready"
        /\ DeletePod(pod) \/ (UNCHANGED <<status, endVars>> /\ ~ Ends(Head(events)))
    BY <1>1 DEF HandlesEvent, HandleAdd, HandleUpdate, HandleDelete, apiVars, portVars, Ends,
                NextEvent, EventHandled
  <2>2. Head(events) \in EventSet
    <3>1. events \in Seq(EventSet)
      BY DEF TypeOK, EventSet
    <3> QED BY <2>1, <3>1, DropEvent
  <2>3. pod.name \in Names
    BY <2>2 DEF EventSet, Pod
  <2>4. \A f \in Pending : f = Head(events) \/ f \in Pending'
    BY <2>1, PendingLeft
  <2>5. CASE UNCHANGED <<status, endVars>> /\ ~ Ends(Head(events))
    BY <2>1, <2>4, <2>5 DEF endVars
  <2>6. CASE DeletePod(pod) /\ ~ HasStatus(pod)
    <3>1. UNCHANGED <<status, endVars>>
      BY <2>6 DEF DeletePod
    <3> QED BY <2>1, <2>4, <2>6, <3>1 DEF endVars
  <2>7. CASE DeletePod(pod) /\ HasStatus(pod)
    <3>1. /\ status' = [status EXCEPT ![pod.name] = NoStatus]
          /\ IF MultiGPU(status[pod.name].request) THEN Reclaiming(status[pod.name])
             ELSE hpc' = "unmask" /\ ending' = status[pod.name]
      BY <2>7 DEF DeletePod
    <3>2. Reclaiming(status[pod.name]) => hpc' # "unmask"
      BY DEF Reclaiming
    <3>3. status[pod.name] # NoStatus
      BY <2>7 DEF HasStatus
    <3> QED BY <2>1, <2>3, <2>4, <2>7, <3>1, <3>2, <3>3
  <2> QED BY <2>1, <2>5, <2>6, <2>7
<1>2. CASE UnmaskEnded
  <2>1. /\ UNCHANGED <<apiVars, events, pc, cyc, status>> /\ hpc = "unmask"
        /\ UnmaskPort(ending.node, ending.port) /\ Reclaiming(ending)
    BY <1>2 DEF UnmaskEnded
  <2>2. hpc' # "unmask"
    BY <2>1 DEF Reclaiming
  <2> QED BY <2>1, <2>2 DEF apiVars
<1>3. CASE \E l \in Leaves : ReclaimCell(l)
  <2>1. PICK l \in Leaves : ReclaimCell(l)
    BY <1>3
  <2>2. /\ UNCHANGED <<apiVars, events, pc, cyc, status, portVars>> /\ hpc = "reclaim"
        /\ Reclaiming([ending EXCEPT !.cells = @ \ {l}])
    BY <2>1 DEF ReclaimCell
  <2>3. hpc' # "unmask"
    BY <2>2 DEF Reclaiming
  <2> QED BY <2>2, <2>3 DEF apiVars, portVars
<1> QED BY <1>1, <1>2, <1>3 DEF Informer, HandlesEvent

(* A masked port has an owner: a status, or the one deletePod gives back. *)
HasPort(n, x, b) ==
  status[n] # NoStatus /\ status[n].node = x /\ status[n].port = b + PodManagerPortStart
EndsPort(x, b) ==
  hpc = "unmask" /\ ending.node = x /\ ending.port = b + PodManagerPortStart
PortOwned(x, b) == (\E n \in Names : HasPort(n, x, b)) \/ EndsPort(x, b)
PortsOwned ==
  \A x \in Nodes : 0 \in masked[x] /\ \A b \in masked[x] \ {0} : PortOwned(x, b)
PortOfItsOwn(ps) ==
  ps.port # PodManagerPortStart /\ (MultiGPU(ps.request) => ~ InPool(ps.port))

LEMMA PortsByOwner ==
  /\ PortsExact <=> /\ PortsOwned
                    /\ \A n \in Names : status[n] # NoStatus => PortOfItsOwn(status[n])
                    /\ hpc = "unmask" => ending.port # PodManagerPortStart
  /\ PortsExact' <=> /\ PortsOwned'
                     /\ \A n \in Names : status'[n] # NoStatus => PortOfItsOwn(status'[n])
                     /\ hpc' = "unmask" => ending'.port # PodManagerPortStart
  BY DEF PortsExact, PortsOwned, PortOwned, HasPort, EndsPort, PortOfItsOwn

(* The informer leaves the ports as exact as they were. *)
LEMMA InformerPortsExact ==
  ASSUME TypeOK, LifeInv, PortsExact, Informer
  PROVE  PortsExact'
<1>0. /\ PortsOwned /\ \A n \in Names : status[n] # NoStatus => PortOfItsOwn(status[n])
      /\ hpc = "unmask" => ending.port # PodManagerPortStart
  BY PortsByOwner
<1>1. \A x \in Nodes : 0 \in masked[x] /\ masked[x] \in SUBSET Nat
  BY <1>0, RequestAssumption DEF PortsOwned, TypeOK
<1>2. CASE /\ UNCHANGED masked /\ hpc # "unmask" /\ UNCHANGED <<status, hpc, ending>>
  <2>1. PortsOwned'
    BY <1>0, <1>2 DEF PortsOwned, PortOwned, HasPort, EndsPort
  <2> QED BY <1>0, <1>2, <2>1, PortsByOwner
<1>3. ASSUME UNCHANGED masked, hpc # "unmask", NEW n \in Names, status[n] # NoStatus,
             status' = [status EXCEPT ![n] = NoStatus],
             IF MultiGPU(status[n].request) THEN hpc' # "unmask"
             ELSE hpc' = "unmask" /\ ending' = status[n]
      PROVE  PortsExact'
  <2>1. status'[n] = NoStatus /\ \A k \in Names \ {n} : status'[k] = status[k]
    BY <1>3 DEF TypeOK
  <2>2. PortOfItsOwn(status[n])
    BY <1>0, <1>3
  <2>3. ASSUME NEW x \in Nodes, NEW b \in masked[x] \ {0}
        PROVE  PortOwned(x, b)'
    <3>1. PICK k \in Names : HasPort(k, x, b)
      BY <1>0, <1>3, <2>3 DEF PortsOwned, PortOwned, EndsPort
    <3>2. CASE k # n
      BY <2>1, <3>1, <3>2 DEF PortOwned, HasPort
    <3>3. CASE k = n
      <4>1. InPool(status[n].port)
        BY <1>1, <2>3, <3>1, <3>3 DEF HasPort, InPool, PodManagerPortStart
      <4>2. hpc' = "unmask" /\ ending' = status[n]
        BY <1>3, <2>2, <4>1 DEF PortOfItsOwn
      <4> QED BY <3>1, <3>3, <4>2 DEF PortOwned, HasPort, EndsPort
    <3> QED BY <3>2, <3>3
  <2>4. PortsOwned'
    BY <1>1, <1>3, <2>3 DEF PortsOwned
  <2>5. hpc' = "unmask" => ending'.port # PodManagerPortStart
    BY <1>3, <2>2 DEF PortOfItsOwn
  <2> QED BY <1>0, <2>1, <2>4, <2>5, PortsByOwner
<1>4. CASE /\ UNCHANGED status /\ hpc' # "unmask"
           /\ IF hpc = "unmask" THEN UnmaskPort(ending.node, ending.port) ELSE UNCHANGED masked
  <2>1. CASE hpc # "unmask"
    <3>1. PortsOwned'
      BY <1>0, <1>4, <2>1 DEF PortsOwned, PortOwned, HasPort, EndsPort
    <3> QED BY <1>0, <1>4, <3>1, PortsByOwner
  <2>2. CASE hpc = "unmask"
    <3>1. ending.port \in Int /\ ending.port # PodManagerPortStart
      BY <1>0, <2>2, RequestAssumption DEF TypeOK, PodStatus, Ports, PodManagerPortStart
    <3>2. \A x \in Nodes : masked'[x] =
            IF x = ending.node /\ InPool(ending.port)
              THEN masked[x] \ {ending.port - PodManagerPortStart} ELSE masked[x]
      BY <1>4, <2>2 DEF UnmaskPort, TypeOK
    <3>3. ASSUME NEW x \in Nodes
          PROVE  0 \in masked'[x]
      <4>1. 0 # ending.port - PodManagerPortStart
        BY <3>1 DEF PodManagerPortStart
      <4>2. CASE x = ending.node /\ InPool(ending.port)
        BY <1>1, <3>2, <4>1, <4>2
      <4>3. CASE ~ (x = ending.node /\ InPool(ending.port))
        BY <1>1, <3>2, <4>3
      <4> QED BY <4>2, <4>3
    <3>4. ASSUME NEW x \in Nodes, NEW b \in masked'[x] \ {0}
          PROVE  PortOwned(x, b)'
      <4>1. b \in masked[x] \ {0} /\ b \in Nat
        BY <1>1, <3>2, <3>4
      <4>2. ~ EndsPort(x, b)
        <5>1. ASSUME EndsPort(x, b) PROVE FALSE
          <6>1. /\ x = ending.node /\ InPool(ending.port)
                /\ ending.port - PodManagerPortStart = b
            BY <3>1, <4>1, <5>1 DEF EndsPort, InPool, PodManagerPortStart
          <6> QED BY <3>2, <3>4, <6>1
        <5> QED BY <5>1
      <4> QED BY <1>0, <1>4, <4>1, <4>2 DEF PortsOwned, PortOwned, HasPort
    <3>5. PortsOwned'
      BY <3>3, <3>4 DEF PortsOwned
    <3> QED BY <1>0, <1>4, <3>5, PortsByOwner
  <2> QED BY <2>1, <2>2
<1> QED BY <1>2, <1>3, <1>4, InformerEffect

(* What is dropped is what an event of an end is about, and with it goes the  *)
(* only status of its port.                                                  *)
LEMMA InformerSlots ==
  ASSUME TypeOK, LifeInv, GpusOfTheAlive', KeptWhileReplaced', SlotInv, Informer
  PROVE  SlotInv'
<1>1. UNCHANGED <<api, born, pc, cyc>>
  BY InformerEffect
<1>2. \/ UNCHANGED status /\ Pending \subseteq Pending'
      \/ /\ UNCHANGED status /\ \A f \in Pending : f = Head(events) \/ f \in Pending'
         /\ Ends(Head(events)) => ~ HasStatus(Head(events).pod)
      \/ /\ \A f \in Pending : f = Head(events) \/ f \in Pending'
         /\ \E n \in Names : /\ n = Head(events).pod.name /\ HasStatus(Head(events).pod)
                             /\ status' = [status EXCEPT ![n] = NoStatus]
  BY InformerEffect DEF Pending
<1>4. \A k \in Names : status'[k] # NoStatus => status'[k] = status[k]
  BY <1>2 DEF TypeOK
<1>5. FirstIsUnbound' /\ ShadowForSure'
  BY <1>1 DEF SlotInv, FirstIsUnbound, ShadowForSure, Alive
<1>6. UidWhileReplaced'
  BY <1>1, <1>4 DEF SlotInv, UidWhileReplaced
<1>7. HeldFromReserve'
  <2>1. \A k \in Names : api[k] # NoPod => api[k].name = k
    BY DEF LifeInv, OrderInv, LatestInApi
  <2> QED BY <1>1, <1>4, <2>1 DEF SlotInv, HeldFromReserve, HasStatus
<1>8. HeldUntilHandled'
  <2> SUFFICES ASSUME NEW k \in Names, Remains(k)' PROVE Dropping(k)'
    BY HeldByPending
  <2>1. status'[k] = status[k] /\ Remains(k)
    BY <1>1, <1>4 DEF Remains, Alive
  <2>2. PICK f \in Pending : Ends(f) /\ f.pod.name = k /\ f.pod.uid = status[k].uid
    BY <2>1, HeldByPending DEF SlotInv, Dropping
  <2>3. f = Head(events) => HasStatus(Head(events).pod)
    BY <2>1, <2>2 DEF Remains, HasStatus
  <2>4. f \in Pending'
    <3>1. CASE Pending \subseteq Pending'
      BY <2>2, <3>1
    <3>2. CASE /\ \A g \in Pending : g = Head(events) \/ g \in Pending'
               /\ Ends(Head(events)) => ~ HasStatus(Head(events).pod)
      BY <2>2, <2>3, <3>2
    <3>3. ASSUME \A g \in Pending : g = Head(events) \/ g \in Pending',
                 NEW n \in Names, n = Head(events).pod.name,
                 status' = [status EXCEPT ![n] = NoStatus]
          PROVE  f \in Pending'
      <4>1. n # k
        BY <2>1, <3>3 DEF Remains, TypeOK
      <4> QED BY <2>2, <3>3, <4>1
    <3> QED BY <1>2, <3>1, <3>2, <3>3
  <2> QED BY <2>1, <2>2, <2>4 DEF Dropping
<1>9. PortsExact'
  BY InformerPortsExact DEF SlotInv
<1>10. PortsAnnotated'
  <2>1. ASSUME NEW k \in Names, Alive(k)', InPool(status'[k].port)
        PROVE  api'[k].port = status'[k].port /\ api'[k].node = status'[k].node
    <3>1. status'[k] = status[k] /\ Alive(k)
      BY <1>1, <1>4, <2>1 DEF GpusOfTheAlive, Alive
    <3> QED BY <1>1, <2>1, <3>1 DEF SlotInv, PortsAnnotated
  <2>2. pc' \in Replacing => status'[cyc.pod.name] = status[cyc.pod.name]
    <3>1. pc' \in Replacing => cyc.pod.name \in Names /\ status'[cyc.pod.name] # NoStatus
      BY <1>1, CycleNames DEF KeptWhileReplaced
    <3> QED BY <1>4, <3>1
  <2> QED BY <1>1, <2>1, <2>2 DEF SlotInv, PortsAnnotated
<1> QED BY <1>5, <1>6, <1>7, <1>8, <1>9, <1>10 DEF SlotInv

(* The first incarnation of a name finds no status of another. *)
LEMMA StatusOfTheFirst ==
  ASSUME TypeOK, LifeInv, FirstIsUnbound, UidWhileReplaced, pc = "idle", NEW n \in Names,
         api[n] # NoPod, ~ isBound(api[n]), status[n] # NoStatus
  PROVE  HasStatus(api[n])
<1>1. api[n].name = n /\ api[n].uid = 1
  BY DEF LifeInv, OrderInv, LatestInApi, FirstIsUnbound
<1>2. status[n].uid \in Nat /\ status[n].uid <= 1
  BY CycleNames DEF LifeInv, UidsKnown, FirstIsUnbound
<1>3. status[n].uid # 0
  BY DEF UidWhileReplaced, Replacing
<1> QED BY <1>1, <1>2, <1>3 DEF HasStatus

(* What the steps before Reserve do to the status of the pod in hand: it is   *)
(* made without cells and port, kept, or gets the cells Reserve chose.       *)
LEMMA ChoosesEffect ==
  ASSUME TypeOK, LifeInv, PortInv, SlotInv, Chooses
  PROVE  /\ UNCHANGED <<api, born, events, masked, avail, freeMem, filled, hpc, ending>>
         /\ pc \in {"idle", "drain", "select"}
         /\ pc' \notin Replacing \cup {"setuid", "empty"}
         /\ \E n \in Names :
              /\ \A m \in Names \ {n} : status'[m] = status[m]
              /\ pc' = "assume" => cyc'.pod.name = n
              /\ api[n] # NoPod /\ ~ isBound(api[n]) /\ api[n].name = n
              /\ status[n] # NoStatus => status[n].cells = {} /\ ~ InPool(status[n].port)
              /\ status'[n] # NoStatus /\ status'[n].uid # 0
              /\ status'[n].cells = {} \/ pc' = "assume"
              /\ status'[n].port # PodManagerPortStart /\ ~ InPool(status'[n].port)
<1>0. LatestInApi
  BY DEF LifeInv, OrderInv
<1>1. UNCHANGED <<api, born, events, masked, avail, freeMem, filled, hpc, ending>>
  <2>1. UNCHANGED <<apiVars, queueVars, portVars, cellVars, filled>>
    BY Zenon DEF Chooses, PreFilter, FilterDecide, ReserveSelect
  <2> QED BY <2>1 DEF apiVars, queueVars, endVars, portVars, cellVars
<1>2. ASSUME NEW n \in Names, api[n] # NoPod, ~ isBound(api[n]), pc \notin Placed,
             HasStatus(api[n])
      PROVE  /\ status[n].cells = {} /\ ~ InPool(status[n].port) /\ status[n] \in PodStatus
             /\ status[n].uid # 0 /\ status[n].port # PodManagerPortStart
             /\ status[n] # NoStatus /\ api[n].name = n
  <2>1. status[n].cells = {} /\ status[n] # NoStatus /\ status[n].uid # 0 /\ api[n].name = n
    BY <1>0, <1>2 DEF SlotInv, HeldFromReserve, HasStatus, LatestInApi, TypeOK, Pod
  <2>2. ~ InPool(status[n].port)
    BY <1>0, <1>2 DEF PortInv, UnboundHasNoPort, LatestInApi
  <2>3. status[n].port # PodManagerPortStart
    BY <2>2 DEF InPool, PodManagerPortStart
  <2> QED BY <2>1, <2>2, <2>3 DEF TypeOK
<1>3. ASSUME NEW n \in Names, PreFilter(n)
      PROVE  /\ pc = "idle" /\ pc' = "filter"
             /\ \A m \in Names \ {n} : status'[m] = status[m]
             /\ api[n] # NoPod /\ ~ isBound(api[n]) /\ api[n].name = n
             /\ status[n] # NoStatus => status[n].cells = {} /\ ~ InPool(status[n].port)
             /\ status'[n] # NoStatus /\ status'[n].uid # 0 /\ status'[n].cells = {}
             /\ status'[n].port # PodManagerPortStart /\ ~ InPool(status'[n].port)
  <2>1. /\ pc = "idle" /\ pc' = "filter" /\ api[n] # NoPod /\ ~ isBound(api[n])
        /\ status' = [status EXCEPT ![n] = GetPodLabels(api[n])] /\ api[n] \in Pod
        /\ api[n].name = n
    BY <1>0, <1>3 DEF PreFilter, TypeOK, LatestInApi
  <2>2. PICK ps \in PodStatus : ps = GetPodLabels(api[n]) /\ ps.uid = api[n].uid
    BY <2>1, LabelsUid
  <2>3. status'[n] = ps /\ \A m \in Names \ {n} : status'[m] = status[m]
    BY <2>1, <2>2 DEF TypeOK
  <2>4. ps.uid # 0 /\ ps # NoStatus
    BY <2>1, <2>2, AbsenceAssumption DEF Pod
  <2>5. CASE status[n] # NoStatus
    <3>1. HasStatus(api[n])
      BY <2>1, <2>5, StatusOfTheFirst DEF SlotInv
    <3>2. ps = status[n]
      BY <2>1, <2>2, <3>1 DEF GetPodLabels
    <3> QED BY <1>2, <2>1, <2>3, <2>4, <3>1, <3>2 DEF Placed
  <2>6. CASE status[n] = NoStatus
    <3>1. ps.cells = {} /\ ps.port = 0
      BY <2>1, <2>2, <2>6 DEF GetPodLabels, HasStatus
    <3>2. ps.port # PodManagerPortStart /\ ~ InPool(ps.port)
      BY <3>1 DEF InPool, PodManagerPortStart
    <3> QED BY <2>1, <2>3, <2>4, <2>6, <3>1, <3>2
  <2> QED BY <2>5, <2>6
<1>4. ASSUME FilterDecide \/ \E x \in Nodes : ReserveSelect(x)
      PROVE  LET n == cyc.pod.name IN
             /\ pc \in {"drain", "select"} /\ pc' \notin Replacing \cup {"setuid", "empty"}
             /\ n \in Names /\ \A m \in Names \ {n} : status'[m] = status[m]
             /\ pc' = "assume" => cyc'.pod.name = n
             /\ api[n] # NoPod /\ ~ isBound(api[n]) /\ api[n].name = n
             /\ status[n] # NoStatus => status[n].cells = {} /\ ~ InPool(status[n].port)
             /\ status'[n] # NoStatus /\ status'[n].uid # 0
             /\ status'[n].cells = {} \/ pc' = "assume"
             /\ status'[n].port # PodManagerPortStart /\ ~ InPool(status'[n].port)
  <2> DEFINE n == cyc.pod.name
  <2>1. pc \in {"drain", "select"} /\ cyc \in Cycle
    BY <1>4 DEF FilterDecide, ReserveSelect, TypeOK
  <2>2. /\ n \in Names /\ api[n] = cyc.pod /\ api[n] # NoPod /\ ~ isBound(api[n])
        /\ HasStatus(cyc.pod) /\ GetPodLabels(cyc.pod) = status[n]
    BY <2>1, AloneInHand DEF Choosing
  <2>3. /\ status[n].cells = {} /\ ~ InPool(status[n].port) /\ status[n] \in PodStatus
        /\ status[n].uid # 0 /\ status[n].port # PodManagerPortStart
        /\ status[n] # NoStatus /\ api[n].name = n
    BY <1>2, <2>1, <2>2 DEF Placed
  <2>4. PICK cells \in SUBSET Leaves :
          /\ status' = [status EXCEPT ![n] = [status[n] EXCEPT !.cells = cells]]
          /\ pc' = "assume" => cyc'.pod = cyc.pod
          /\ cells = {} \/ pc' = "assume"
          /\ pc' \notin Replacing \cup {"setuid", "empty"}
    <3>1. CASE FilterDecide
      <4>1. status' = [status EXCEPT ![n] = status[n]] /\ pc' \in {"filter", "select", "idle"}
        BY <2>2, <3>1 DEF FilterDecide
      <4>2. status[n] = [status[n] EXCEPT !.cells = {}]
        BY <2>3 DEF PodStatus
      <4> QED BY <4>1, <4>2 DEF Replacing
    <3>2. CASE \E x \in Nodes : ReserveSelect(x)
      <4>1. PICK x \in Nodes : ReserveSelect(x)
        BY <3>2
      <4>2. PICK cells \in CellChoices(x, status[n]) :
              /\ status' = [status EXCEPT ![n] = [status[n] EXCEPT !.cells = cells]]
              /\ IF cells = {} THEN pc' = "panicked"
                 ELSE /\ pc' = "assume"
                      /\ cyc' = [cyc EXCEPT !.node = x, !.multi = MultiGPU(status[n].request)]
        BY <2>2, <4>1 DEF ReserveSelect, Panic
      <4>3. cells \in SUBSET Leaves
        BY <4>2 DEF CellChoices, LeavesOf
      <4>4. pc' = "assume" => cyc'.pod = cyc.pod
        BY <2>1, <4>2 DEF Cycle
      <4> QED BY <4>2, <4>3, <4>4 DEF Replacing
    <3> QED BY <1>4, <3>1, <3>2
  <2> DEFINE ps == [status[n] EXCEPT !.cells = cells]
  <2>5. /\ ps \in PodStatus /\ ps.cells = cells /\ ps.port = status[n].port
        /\ ps.uid = status[n].uid
    BY <2>3 DEF PodStatus
  <2>6. status'[n] = ps /\ \A m \in Names \ {n} : status'[m] = status[m]
    BY <2>2, <2>4 DEF TypeOK
  <2> HIDE DEF ps
  <2> QED BY <2>1, <2>2, <2>3, <2>4, <2>5, <2>6, AbsenceAssumption
<1>5. CASE \E n \in Names : PreFilter(n)
  BY <1>1, <1>3, <1>5 DEF Replacing
<1>6. CASE FilterDecide \/ \E x \in Nodes : ReserveSelect(x)
  BY <1>1, <1>4, <1>6
<1> QED BY <1>5, <1>6 DEF Chooses

(* A step that writes one status leaves the ports as exact as they were, if    *)
(* what that status owned it still owns, and if it owns what gets masked.      *)
LEMMA PortsKept ==
  ASSUME TypeOK, PortsExact, UNCHANGED <<hpc, ending>>, NEW n \in Names,
         \A m \in Names \ {n} : status'[m] = status[m],
         status'[n] # NoStatus => PortOfItsOwn(status'[n]),
         \A x \in Nodes, b \in Nat : HasPort(n, x, b) => HasPort(n, x, b)',
         \A x \in Nodes : /\ masked[x] \subseteq masked'[x] /\ masked'[x] \subseteq Nat
                         /\ \A b \in masked'[x] \ masked[x] : HasPort(n, x, b)'
  PROVE  PortsExact'
<1>0. /\ PortsOwned /\ \A m \in Names : status[m] # NoStatus => PortOfItsOwn(status[m])
      /\ hpc = "unmask" => ending.port # PodManagerPortStart
  BY PortsByOwner
<1>1. ASSUME NEW x \in Nodes, NEW b \in masked'[x] \ {0}
      PROVE  PortOwned(x, b)'
  <2>1. CASE b \notin masked[x]
    BY <1>1, <2>1 DEF PortOwned
  <2>2. ASSUME NEW m \in Names, HasPort(m, x, b)
        PROVE  PortOwned(x, b)'
    <3>1. CASE m = n
      BY <1>1, <2>2, <3>1 DEF PortOwned
    <3>2. CASE m # n
      BY <2>2, <3>2 DEF PortOwned, HasPort
    <3> QED BY <3>1, <3>2
  <2>3. CASE EndsPort(x, b)
    BY <2>3 DEF PortOwned, EndsPort
  <2>4. CASE b \in masked[x]
    <3>1. PortOwned(x, b)
      BY <1>0, <1>1, <2>4 DEF PortsOwned
    <3> QED BY <2>2, <2>3, <3>1 DEF PortOwned
  <2> QED BY <2>1, <2>4
<1>2. \A x \in Nodes : 0 \in masked'[x]
  BY <1>0 DEF PortsOwned
<1>3. PortsOwned'
  BY <1>1, <1>2 DEF PortsOwned
<1>4. \A m \in Names : status'[m] # NoStatus => PortOfItsOwn(status'[m])
  BY <1>0
<1>5. hpc' = "unmask" => ending'.port # PodManagerPortStart
  BY <1>0
<1> QED BY <1>3, <1>4, <1>5, PortsByOwner

(* The steps before Reserve hold nothing. *)
LEMMA ChoosesSlots ==
  ASSUME TypeOK, TypeOK', LifeInv, PortInv, SlotInv, Chooses
  PROVE  SlotInv'
<1>0. /\ UNCHANGED <<api, born, events, masked, hpc, ending>>
      /\ pc \in {"idle", "drain", "select"} /\ pc' \notin Replacing \cup {"setuid", "empty"}
  BY ChoosesEffect
<1>1. PICK n \in Names :
        /\ \A m \in Names \ {n} : status'[m] = status[m]
        /\ pc' = "assume" => cyc'.pod.name = n
        /\ api[n] # NoPod /\ ~ isBound(api[n]) /\ api[n].name = n
        /\ status[n] # NoStatus => status[n].cells = {} /\ ~ InPool(status[n].port)
        /\ status'[n] # NoStatus /\ status'[n].uid # 0
        /\ status'[n].cells = {} \/ pc' = "assume"
        /\ status'[n].port # PodManagerPortStart /\ ~ InPool(status'[n].port)
  BY ChoosesEffect
<1>2. \A m \in Names : (Alive(m)' <=> Alive(m)) /\ (Alive(m) => m # n)
  BY <1>0, <1>1 DEF Alive
<1>3. FirstIsUnbound' /\ ShadowForSure'
  BY <1>0 DEF SlotInv, FirstIsUnbound, ShadowForSure, Replacing
<1>4. UidWhileReplaced'
  BY <1>0, <1>1 DEF SlotInv, UidWhileReplaced, Replacing
<1>5. HeldFromReserve'
  <2>1. \A m \in Names : api[m] # NoPod => api[m].name = m
    BY DEF LifeInv, OrderInv, LatestInApi
  <2> QED BY <1>0, <1>1, <2>1 DEF SlotInv, HeldFromReserve, HasStatus, Placed
<1>6. HeldUntilHandled'
  <2> SUFFICES ASSUME NEW m \in Names, Remains(m)' PROVE Dropping(m)'
    BY HeldByPending
  <2>1. m # n
    BY <1>0, <1>1 DEF Remains, Placed
  <2>2. Remains(m) /\ status'[m] = status[m]
    BY <1>0, <1>1, <1>2, <2>1 DEF Remains, Placed
  <2> QED BY <1>0, <2>2, HeldByPending DEF SlotInv, Dropping, Pending
<1>7. PortsExact'
  <2>1. PortOfItsOwn(status'[n])
    BY <1>1 DEF PortOfItsOwn
  <2>2. \A x \in Nodes, b \in Nat : ~ HasPort(n, x, b)
    BY <1>1 DEF HasPort, InPool, PodManagerPortStart
  <2>3. \A x \in Nodes : masked'[x] = masked[x] /\ masked'[x] \subseteq Nat
    BY <1>0 DEF TypeOK
  <2> QED BY <1>0, <1>1, <2>1, <2>2, <2>3, PortsKept DEF SlotInv
<1>8. PortsAnnotated'
  BY <1>0, <1>1, <1>2 DEF SlotInv, PortsAnnotated
<1> QED BY <1>3, <1>4, <1>5, <1>6, <1>7, <1>8 DEF SlotInv

(* Reserve's copy is of a pod that has not ended. *)
LEMMA CopyIsActive ==
  ASSUME TypeOK, LifeInv, AssumeSharedPod \/ AssumeMultiPod, pc' # "panicked"
  PROVE  cyc'.copy.phase = cyc.pod.phase
<1>1. cyc \in Cycle /\ cyc.pod \in Pod
  BY DEF AssumeSharedPod, AssumeMultiPod, TypeOK
<1>2. CASE AssumeSharedPod
  <2> DEFINE x      == cyc.node
             memory == IF cyc.ps.memory = 0 THEN (cyc.ps.request * FullMem) \div UNIT
                       ELSE cyc.ps.memory
             ii     == FindNextFromCurrent(masked[x], current[x], PortBits)
             port   == ii + PodManagerPortStart
             copy   == [cyc.pod EXCEPT !.node = x, !.gpus = cyc.ps.cells,
                                       !.memory = memory, !.port = port]
  <2>1. cyc' = [cyc EXCEPT !.same = TRUE, !.copy = copy]
    <3>1. SharedAtOnce
      BY <1>2, AssumeAtOnce
    <3> QED BY <3>1 DEF SharedAtOnce, Panic
  <2>2. copy.phase = cyc.pod.phase
    BY <1>1 DEF Pod
  <2> HIDE DEF copy
  <2> QED BY <1>1, <2>1, <2>2 DEF Cycle
<1>3. CASE AssumeMultiPod
  <2> DEFINE copy == [cyc.pod EXCEPT !.node = cyc.node, !.gpus = cyc.ps.cells]
  <2>1. cyc' = [cyc EXCEPT !.left = cyc.ps.cells, !.same = TRUE, !.copy = copy]
    <3>1. MultiAtOnce
      BY <1>3, AssumeAtOnce
    <3> QED BY <3>1 DEF MultiAtOnce
  <2>2. copy.phase = cyc.pod.phase
    BY <1>1 DEF Pod
  <2> HIDE DEF copy
  <2> QED BY <1>1, <2>1, <2>2 DEF Cycle
<1> QED BY <1>2, <1>3

(* What Reserve assumes of a pod left alone: a shared pod gets a port that    *)
(* was free and is not the first, if there is one, a multi-GPU pod none.     *)
LEMMA AssumeEffect ==
  ASSUME TypeOK, LifeInv, ChosenCells, PortInv, PortsExact, AssumeSharedPod \/ AssumeMultiPod
  PROVE  LET n == cyc.pod.name IN
           /\ UNCHANGED <<api, born, events, hpc, ending>> /\ n \in Names
           /\ pc = "empty" /\ pc' \in {"take", "delete"} /\ cyc'.pod.name = n
           /\ api[n] # NoPod /\ ~ isBound(api[n]) /\ ~ isCompleted(cyc'.copy)
           /\ status[n] # NoStatus /\ ~ InPool(status[n].port)
           /\ \E ps \in PodStatus :
                /\ status' = [status EXCEPT ![n] = ps] /\ ps.uid = 0
                /\ \/ UNCHANGED masked /\ ~ InPool(ps.port) /\ ps.port # PodManagerPortStart
                   \/ \E ii \in 1 .. PortBits - 1 :
                        /\ ~ MultiGPU(ps.request)
                        /\ ps.port = ii + PodManagerPortStart /\ ps.node = cyc.node
                        /\ masked' = [masked EXCEPT ![cyc.node] = @ \cup {ii}]
                        /\ cyc'.copy.port = ps.port /\ cyc'.copy.node = cyc.node
<1> DEFINE n == cyc.pod.name
<1>1. /\ pc = "empty" /\ UNCHANGED <<api, born, events, hpc, ending>>
      /\ cyc.pod \in Pod /\ cyc.node \in Nodes /\ cyc.ps = status[n]
  <2>1. pc = "empty" /\ UNCHANGED <<apiVars, queueVars>>
    BY AssumeAtOnce DEF SharedAtOnce, MultiAtOnce
  <2>2. cyc.ps = status[n]
    BY <2>1, ChosenInHand DEF Choosing
  <2> QED BY <2>1, <2>2 DEF apiVars, queueVars, endVars, TypeOK
<1>2. /\ n \in Names /\ api[n] = cyc.pod /\ api[n] # NoPod /\ ~ isBound(api[n])
      /\ HasStatus(cyc.pod) /\ GetPodLabels(cyc.pod) = status[n]
      /\ status[n] \in PodStatus /\ status[n] # NoStatus
  BY <1>1, AloneInHand DEF Choosing
<1>3. ~ isCompleted(cyc.pod)
  BY <1>1, AloneInHand DEF Choosing
<1>4. ~ InPool(status[n].port) /\ status[n].port # PodManagerPortStart
  BY <1>1, <1>2 DEF PortInv, UnboundHasNoPort, Choosing, InPool, PodManagerPortStart
<1>5. pc' # "panicked" => ~ isCompleted(cyc'.copy)
  BY <1>3, CopyIsActive DEF isCompleted
<1>6. CASE AssumeMultiPod
  <2>1. PICK ps \in PodStatus :
          /\ status' = [status EXCEPT ![n] = ps] /\ ps.uid = 0
          /\ ps.port = status[n].port
          /\ pc' \in {"take", "delete"} /\ cyc'.pod = cyc.pod
    BY <1>1, <1>2, <1>6, AssumeMultiEffect
  <2>2. UNCHANGED masked
    BY <1>6, AssumeAtOnce DEF MultiAtOnce, portVars
  <2> QED BY <1>1, <1>2, <1>4, <1>5, <2>1, <2>2
<1>7. CASE AssumeSharedPod
  <2>1. ~ cyc.multi
    BY <1>7 DEF AssumeSharedPod
  <2>3. MultiGPU(status[n].request) = cyc.multi
    BY <1>1, <1>2, Zenon DEF ChosenCells, Placed
  <2>4. PICK new \in PodStatus :
          /\ status' = [status EXCEPT ![n] = new] /\ new.request = status[n].request
          /\ pc' = "delete"
    BY <1>2, <1>7, AssumeSharedGives
  <2>5. pc' = "delete"
    BY <2>4
  <2>6. PICK ps \in PodStatus, ii \in {-1} \cup ((0 .. PortBits - 1) \ masked[cyc.node]) :
          /\ status' = [status EXCEPT ![n] = ps] /\ ps.uid = 0
          /\ ps.port = ii + PodManagerPortStart /\ ps.node = cyc.node
          /\ masked' = [masked EXCEPT ![cyc.node] = MaskedAfter(@, ii)]
          /\ cyc'.pod = cyc.pod
          /\ cyc'.copy.port = ps.port /\ cyc'.copy.node = cyc.node
    BY <1>7, <2>5, AssumeSharedEffect
  <2>7. ~ MultiGPU(ps.request)
    <3>1. ps = new
      BY <1>2, <2>4, <2>6 DEF TypeOK
    <3>2. ~ MultiGPU(new.request)
      BY <2>1, <2>3, <2>4, Zenon
    <3> QED BY <3>1, <3>2
  <2>8. CASE ii = -1
    <3>1. UNCHANGED masked
      BY <1>1, <2>6, <2>8 DEF MaskedAfter, TypeOK
    <3>2. ~ InPool(ps.port) /\ ps.port # PodManagerPortStart
      BY <2>6, <2>8 DEF InPool, PodManagerPortStart
    <3> QED BY <1>1, <1>2, <1>4, <1>5, <2>5, <2>6, <3>1, <3>2
  <2>9. CASE ii # -1
    <3>1. 0 \in masked[cyc.node]
      BY <1>1 DEF PortsExact
    <3>2. ii \in 1 .. PortBits - 1
      BY <2>6, <2>9, <3>1, RequestAssumption
    <3>3. masked' = [masked EXCEPT ![cyc.node] = @ \cup {ii}]
      BY <2>6, <2>9 DEF MaskedAfter
    <3> QED BY <1>1, <1>2, <1>4, <1>5, <2>5, <2>6, <2>7, <3>2, <3>3
  <2> QED BY <2>8, <2>9
<1> QED BY <1>6, <1>7

(* The port drawn has an owner, the status of the pod in Reserve. *)
LEMMA AssumeSlots ==
  ASSUME TypeOK, TypeOK', LifeInv, ChosenCells, PortInv, SlotInv,
         AssumeSharedPod \/ AssumeMultiPod
  PROVE  SlotInv'
<1>1. PICK n \in Names :
        /\ UNCHANGED <<api, born, events, hpc, ending>> /\ n = cyc.pod.name
        /\ pc = "empty" /\ pc' \in {"take", "delete"} /\ cyc'.pod.name = n
        /\ api[n] # NoPod /\ ~ isBound(api[n]) /\ ~ isCompleted(cyc'.copy)
        /\ status[n] # NoStatus /\ ~ InPool(status[n].port)
        /\ \E ps \in PodStatus :
             /\ status' = [status EXCEPT ![n] = ps] /\ ps.uid = 0
             /\ \/ UNCHANGED masked /\ ~ InPool(ps.port) /\ ps.port # PodManagerPortStart
                \/ \E ii \in 1 .. PortBits - 1 :
                     /\ ~ MultiGPU(ps.request)
                     /\ ps.port = ii + PodManagerPortStart /\ ps.node = cyc.node
                     /\ masked' = [masked EXCEPT ![cyc.node] = @ \cup {ii}]
                     /\ cyc'.copy.port = ps.port /\ cyc'.copy.node = cyc.node
  BY AssumeEffect DEF SlotInv
<1>2. PICK ps \in PodStatus :
        /\ status' = [status EXCEPT ![n] = ps] /\ ps.uid = 0
        /\ \/ UNCHANGED masked /\ ~ InPool(ps.port) /\ ps.port # PodManagerPortStart
           \/ \E ii \in 1 .. PortBits - 1 :
                /\ ~ MultiGPU(ps.request)
                /\ ps.port = ii + PodManagerPortStart /\ ps.node = cyc.node
                /\ masked' = [masked EXCEPT ![cyc.node] = @ \cup {ii}]
                /\ cyc'.copy.port = ps.port /\ cyc'.copy.node = cyc.node
  BY <1>1
<1>3. status'[n] = ps /\ ps # NoStatus /\ \A m \in Names \ {n} : status'[m] = status[m]
  BY <1>2, AbsenceAssumption DEF TypeOK
<1>4. \A m \in Names : (Alive(m)' <=> Alive(m)) /\ (Alive(m) => m # n)
  BY <1>1 DEF Alive
<1>5. FirstIsUnbound'
  BY <1>1 DEF SlotInv, FirstIsUnbound
<1>6. ShadowForSure'
  BY <1>1 DEF ShadowForSure, Replacing
<1>7. UidWhileReplaced'
  BY <1>1, <1>3 DEF SlotInv, UidWhileReplaced, Replacing
<1>8. HeldFromReserve'
  <2>1. \A m \in Names : api[m] # NoPod => api[m].name = m /\ api[m].uid # 0
    BY DEF LifeInv, OrderInv, LatestInApi, TypeOK, Pod
  <2> QED BY <1>1, <1>2, <1>3, <2>1 DEF SlotInv, HeldFromReserve, HasStatus, Placed
<1>9. HeldUntilHandled'
  <2> SUFFICES ASSUME NEW m \in Names, Remains(m)' PROVE Dropping(m)'
    BY HeldByPending
  <2>1. m # n
    BY <1>2, <1>3 DEF Remains
  <2>2. Remains(m) /\ status'[m] = status[m]
    BY <1>1, <1>3, <1>4, <2>1 DEF Remains, Placed
  <2> QED BY <1>1, <2>2, HeldByPending DEF SlotInv, Dropping, Pending
<1>11. PortsExact'
  <2>1. PortOfItsOwn(ps)
    BY <1>2, RequestAssumption DEF PortOfItsOwn, PodManagerPortStart
  <2>2. \A x \in Nodes, b \in Nat : ~ HasPort(n, x, b)
    BY <1>1 DEF HasPort, InPool, PodManagerPortStart
  <2>3. ASSUME NEW x \in Nodes
        PROVE  /\ masked[x] \subseteq masked'[x] /\ masked'[x] \subseteq Nat
               /\ \A b \in masked'[x] \ masked[x] : HasPort(n, x, b)'
    <3>1. masked'[x] \subseteq Nat
      BY DEF TypeOK
    <3>2. CASE UNCHANGED masked
      BY <3>1, <3>2
    <3>3. ASSUME NEW ii \in 1 .. PortBits - 1,
                 ps.port = ii + PodManagerPortStart /\ ps.node = cyc.node,
                 masked' = [masked EXCEPT ![cyc.node] = @ \cup {ii}]
          PROVE  /\ masked[x] \subseteq masked'[x]
                 /\ \A b \in masked'[x] \ masked[x] : HasPort(n, x, b)'
      <4>1. masked'[x] = IF x = cyc.node THEN masked[x] \cup {ii} ELSE masked[x]
        BY <3>3 DEF TypeOK
      <4> QED BY <1>3, <3>3, <4>1 DEF HasPort
    <3> QED BY <1>2, <3>1, <3>2, <3>3
  <2> QED BY <1>1, <1>3, <2>1, <2>2, <2>3, PortsKept DEF SlotInv
<1>12. PortsAnnotated'
  <2>1. ASSUME NEW m \in Names, Alive(m)', InPool(status'[m].port)
        PROVE  api'[m].port = status'[m].port /\ api'[m].node = status'[m].node
    BY <1>1, <1>3, <1>4, <2>1 DEF SlotInv, PortsAnnotated
  <2>2. InPool(ps.port) => cyc'.copy.port = ps.port /\ cyc'.copy.node = ps.node
    BY <1>2
  <2> QED BY <1>1, <1>3, <2>1, <2>2 DEF PortsAnnotated
<1> QED BY <1>5, <1>6, <1>7, <1>8, <1>9, <1>11, <1>12 DEF SlotInv

(* Nothing comes of the second lookup. *)
LEMMA LookUpAgainSlots ==
  ASSUME TypeOK, LifeInv, SlotInv, LookUpAgain
  PROVE  SlotInv'
<1>1. /\ pc = "assume" /\ pc' = "empty" /\ cyc'.pod = cyc.pod
      /\ UNCHANGED <<api, born, events, status, masked, hpc, ending>>
  BY LookUpAgainFinds DEF Cycle, TypeOK, apiVars, queueVars, endVars, portVars
<1>2. FirstIsUnbound' /\ UidWhileReplaced' /\ ShadowForSure'
  BY <1>1 DEF SlotInv, FirstIsUnbound, UidWhileReplaced, ShadowForSure, Replacing
<1>3. HeldFromReserve' /\ HeldUntilHandled'
  BY <1>1
     DEF SlotInv, HeldFromReserve, HeldUntilHandled, Alive, HasStatus, NameOf, UidOf, Placed
<1>4. PortsExact' /\ PortsAnnotated'
  BY <1>1 DEF SlotInv, PortsExact, PortsAnnotated, Alive, Replacing
<1> QED BY <1>2, <1>3, <1>4 DEF SlotInv

(* Filter's look at a node and the cells Reserve takes one after the other    *)
(* leave the pods, the statuses and the ports of the copy alone.             *)
LEMMA QuietEffect ==
  ASSUME TypeOK,
         \/ \E x \in Nodes, seen \in BOOLEAN : FilterAddNode(x, seen)
         \/ \E l \in Leaves : TakeCell(l)
  PROVE  /\ UNCHANGED <<api, born, events, status, masked, hpc, ending>> /\ cyc'.pod = cyc.pod
         /\ {pc, pc'} \cap (Placed \cup {"create", "setuid"}) = {}
         /\ pc' \in Replacing =>
              /\ pc \in Replacing /\ cyc'.copy.port = cyc.copy.port
              /\ cyc'.copy.node = cyc.copy.node /\ cyc'.copy.phase = cyc.copy.phase
         /\ pc \in Replacing => pc' \in Replacing
<1>1. UNCHANGED <<api, born, events, status, masked, hpc, ending>> /\ cyc \in Cycle
  <2>1. UNCHANGED <<apiVars, queueVars, status, portVars>>
    BY Zenon DEF FilterAddNode, TakeCell
  <2> QED BY <2>1 DEF apiVars, queueVars, endVars, portVars, TypeOK
<1>2. CASE \E x \in Nodes, seen \in BOOLEAN : FilterAddNode(x, seen)
  <2>1. /\ pc = "filter" /\ pc' = "drain"
        /\ \E x, seen, todo : cyc' = [cyc EXCEPT !.todo = todo, !.node = x, !.seen = seen]
    BY <1>2, Zenon DEF FilterAddNode
  <2>2. cyc'.pod = cyc.pod
    BY <1>1, <2>1 DEF Cycle
  <2> QED BY <1>1, <2>1, <2>2 DEF Placed, Replacing
<1>3. CASE \E l \in Leaves : TakeCell(l)
  <2>1. PICK l \in Leaves : TakeCell(l)
    BY <1>3
  <2> DEFINE copy == [cyc.copy EXCEPT !.memory = @ + freeMem[l]]
  <2>2. pc = "take" /\ pc' \in {"take", "delete"} /\ cyc.copy \in Pod
    <3>1. pc = "take" /\ pc' = IF cyc.left = {l} THEN "delete" ELSE "take"
      BY <2>1, Zenon DEF TakeCell
    <3> QED BY <3>1 DEF TypeOK
  <2>3. cyc' = [cyc EXCEPT !.left = @ \ {l}, !.copy = copy]
    BY <2>1, Zenon DEF TakeCell
  <2>4. copy.node = cyc.copy.node /\ copy.port = cyc.copy.port /\ copy.phase = cyc.copy.phase
    BY <2>2 DEF Pod
  <2> HIDE DEF copy
  <2>5. cyc'.pod = cyc.pod /\ cyc'.copy = copy
    BY <1>1, <2>3 DEF Cycle
  <2> QED BY <1>1, <2>2, <2>4, <2>5 DEF Placed, Replacing
<1> QED BY <1>2, <1>3

(* ... and so they keep SlotInv. *)
LEMMA QuietSlots ==
  ASSUME TypeOK, SlotInv,
         \/ \E x \in Nodes, seen \in BOOLEAN : FilterAddNode(x, seen)
         \/ \E l \in Leaves : TakeCell(l)
         \/ UNCHANGED vars
  PROVE  SlotInv'
<1>1. CASE UNCHANGED vars
  BY <1>1 DEF vars, apiVars, queueVars, endVars, cellVars, portVars, counters, SlotInv, FirstIsUnbound,
     UidWhileReplaced, ShadowForSure, HeldFromReserve, HeldUntilHandled, PortsExact,
     PortsAnnotated, Alive, HasStatus, NameOf, UidOf
<1>2. CASE \/ \E x \in Nodes, seen \in BOOLEAN : FilterAddNode(x, seen)
           \/ \E l \in Leaves : TakeCell(l)
  <2>1. /\ UNCHANGED <<api, born, events, status, masked, hpc, ending>> /\ cyc'.pod = cyc.pod
        /\ {pc, pc'} \cap (Placed \cup {"create", "setuid"}) = {}
        /\ pc' \in Replacing =>
             /\ pc \in Replacing /\ cyc'.copy.port = cyc.copy.port
             /\ cyc'.copy.node = cyc.copy.node /\ cyc'.copy.phase = cyc.copy.phase
        /\ pc \in Replacing => pc' \in Replacing
    BY <1>2, QuietEffect
  <2>2. FirstIsUnbound' /\ UidWhileReplaced' /\ ShadowForSure'
    BY <2>1 DEF SlotInv, FirstIsUnbound, UidWhileReplaced, ShadowForSure, isCompleted
  <2>3. HeldFromReserve' /\ HeldUntilHandled'
    BY <2>1 DEF SlotInv, HeldFromReserve, HeldUntilHandled, Alive, HasStatus, NameOf, UidOf
  <2>4. PortsExact' /\ PortsAnnotated'
    BY <2>1 DEF SlotInv, PortsExact, PortsAnnotated, Alive
  <2> QED BY <2>2, <2>3, <2>4 DEF SlotInv
<1> QED BY <1>1, <1>2

(* The deletion of the pod in Reserve, whose status has no uid. *)
LEMMA DeleteSlots ==
  ASSUME TypeOK, LifeInv, SlotInv, ReserveDelete
  PROVE  SlotInv'
<1>1. PICK n \in Names : n = cyc.pod.name
  BY CycleNames DEF ReserveDelete, Replacing
<1>2. /\ pc = "delete" /\ pc' = "create"
      /\ UNCHANGED <<born, cyc, status, masked, hpc, ending>>
      /\ status[n] # NoStatus /\ status[n].uid = 0
  BY <1>1 DEF ReserveDelete, endVars, portVars, LifeInv, KeptWhileReplaced, Replacing
<1>3. /\ api'[n] = NoPod /\ Pending \subseteq Pending'
      /\ \A m \in Names \ {n} : api'[m] = api[m] /\ (Alive(m)' <=> Alive(m))
  <2>1. CASE api[n] = NoPod
    BY <1>1, <2>1 DEF ReserveDelete, Alive, Pending
  <2>2. CASE api[n] # NoPod
    <3>1. PICK e \in EventSet : e = Event("delete", api[n])
      BY <2>2 DEF TypeOK, Event, EventSet
    <3>2. api' = [api EXCEPT ![n] = NoPod] /\ events' = Append(events, e)
      BY <1>1, <2>2, <3>1 DEF ReserveDelete
    <3>3. Pending \subseteq Pending'
      BY <3>2, PendingKept
    <3>4. api'[n] = NoPod /\ \A m \in Names \ {n} : api'[m] = api[m]
      BY <3>2 DEF TypeOK
    <3> QED BY <3>3, <3>4 DEF Alive
  <2> QED BY <2>1, <2>2
<1>4. \A m \in Names : Alive(m)' => m # n /\ Alive(m) /\ api'[m] = api[m]
  BY <1>3 DEF Alive
<1>5. FirstIsUnbound' /\ UidWhileReplaced' /\ ShadowForSure'
  BY <1>1, <1>2, <1>3 DEF SlotInv, FirstIsUnbound, UidWhileReplaced, ShadowForSure, Replacing
<1>6. HeldFromReserve'
  BY <1>2, <1>3 DEF SlotInv, HeldFromReserve, HasStatus, Placed
<1>7. HeldUntilHandled'
  <2> SUFFICES ASSUME NEW m \in Names, Remains(m)' PROVE Dropping(m)'
    BY HeldByPending
  <2>1. Remains(m)
    BY <1>2, <1>3 DEF Remains, Placed
  <2> QED BY <1>2, <1>3, <2>1, HeldByPending DEF SlotInv, Dropping
<1>8. PortsExact'
  BY <1>2 DEF SlotInv, PortsExact
<1>9. PortsAnnotated'
  BY <1>2, <1>4 DEF SlotInv, PortsAnnotated, Replacing
<1> QED BY <1>5, <1>6, <1>7, <1>8, <1>9 DEF SlotInv

(* The shadow pod is bound and has the port of its status. *)
LEMMA CreateSlots ==
  ASSUME TypeOK, LifeInv, GpusOfTheCopy, SlotInv, ReserveCreate
  PROVE  SlotInv'
<1>1. PICK n \in Names : n = cyc.pod.name
  BY CycleNames DEF ReserveCreate, Replacing
<1> DEFINE shadow == [cyc.copy EXCEPT !.uid = born[n] + 1]
<1>2. /\ pc = "create" /\ pc' = "setuid" /\ UNCHANGED <<status, masked, hpc, ending>>
      /\ status[n] # NoStatus /\ status[n].uid = 0 /\ born[n] \in Nat /\ cyc \in Cycle
      /\ isBound(cyc.copy) /\ ~ isCompleted(cyc.copy) /\ cyc.same /\ cyc.copy \in Pod
  BY <1>1
     DEF ReserveCreate, endVars, portVars, LifeInv, OrderInv, CopyOfThePod, KeptWhileReplaced,
         Replacing, TypeOK, SlotInv, ShadowForSure, GpusOfTheCopy
<1>3. /\ shadow \in Pod /\ shadow.uid = born[n] + 1 /\ shadow.port = cyc.copy.port
      /\ shadow.node = cyc.copy.node /\ isBound(shadow) /\ ~ isCompleted(shadow)
  <2>1. born[n] + 1 \in Nat \ {0}
    BY <1>2
  <2> QED BY <1>2, <2>1 DEF Pod, isBound, isCompleted
<1>4. /\ cyc' = [cyc EXCEPT !.newUid = born[n] + 1] /\ born' = [born EXCEPT ![n] = @ + 1]
      /\ api' = [api EXCEPT ![n] = shadow] /\ events' = Append(events, Event("add", shadow))
  BY <1>1 DEF ReserveCreate
<1> HIDE DEF shadow
<1>5. cyc'.pod = cyc.pod /\ cyc'.newUid = born[n] + 1 /\ cyc'.same
  BY <1>2, <1>4 DEF Cycle
<1>6. /\ api'[n] = shadow /\ shadow # NoPod /\ Pending \subseteq Pending'
      /\ \A m \in Names \ {n} : api'[m] = api[m] /\ born'[m] = born[m]
  <2>1. PICK e \in EventSet : e = Event("add", shadow)
    BY <1>3 DEF Event, EventSet
  <2>2. Pending \subseteq Pending'
    BY <1>4, <2>1, PendingKept
  <2> QED BY <1>3, <1>4, <2>2, AbsenceAssumption DEF TypeOK
<1>7. Alive(n)' /\ \A m \in Names \ {n} : Alive(m)' <=> Alive(m)
  BY <1>3, <1>6 DEF Alive
<1>8. FirstIsUnbound'
  BY <1>3, <1>6 DEF SlotInv, FirstIsUnbound
<1>9. UidWhileReplaced' /\ ShadowForSure'
  BY <1>1, <1>2, <1>3, <1>5, <1>6, <1>7
     DEF SlotInv, UidWhileReplaced, ShadowForSure, Replacing
<1>10. HeldFromReserve'
  BY <1>2, <1>3, <1>6 DEF SlotInv, HeldFromReserve, HasStatus, Placed
<1>11. HeldUntilHandled'
  <2> SUFFICES ASSUME NEW m \in Names, Remains(m)' PROVE Dropping(m)'
    BY HeldByPending
  <2>1. Remains(m)
    BY <1>2, <1>7 DEF Remains, Placed
  <2> QED BY <1>2, <1>6, <2>1, HeldByPending DEF SlotInv, Dropping
<1>12. PortsExact'
  BY <1>2 DEF SlotInv, PortsExact
<1>13. PortsAnnotated'
  <2>1. InPool(status[n].port) => shadow.port = status[n].port /\ shadow.node = status[n].node
    BY <1>1, <1>2, <1>3 DEF SlotInv, PortsAnnotated, Replacing
  <2> QED BY <1>2, <1>6, <1>7, <2>1 DEF SlotInv, PortsAnnotated, Replacing
<1> QED BY <1>8, <1>9, <1>10, <1>11, <1>12, <1>13 DEF SlotInv

(* The status gets the uid of the shadow pod, which is alive. *)
LEMMA SetUidSlots ==
  ASSUME TypeOK, LifeInv, SlotInv, ReserveSetUid
  PROVE  SlotInv'
<1>1. PICK n \in Names : n = cyc.pod.name
  BY CycleNames DEF ReserveSetUid
<1> DEFINE ps == [status[n] EXCEPT !.uid = cyc.newUid]
<1>2. /\ pc = "setuid" /\ pc' = "idle"
      /\ UNCHANGED <<api, born, events, masked, hpc, ending>>
      /\ status[n] # NoStatus /\ status[n] \in PodStatus /\ cyc.same /\ Alive(n)
      /\ cyc.newUid = api[n].uid /\ cyc.newUid \in Nat \ {0}
  <2>1. /\ pc = "setuid" /\ pc' = "idle" /\ UNCHANGED <<apiVars, queueVars, portVars>>
    BY Zenon DEF ReserveSetUid
  <2>2. status[n] # NoStatus /\ cyc.same /\ Alive(n) /\ cyc.newUid = api[n].uid
    BY <1>1, <2>1 DEF LifeInv, KeptWhileReplaced, SlotInv, ShadowForSure
  <2>3. status[n] \in PodStatus /\ cyc.newUid \in Nat \ {0}
    BY <2>2 DEF TypeOK, Alive, Pod
  <2> QED BY <2>1, <2>2, <2>3 DEF apiVars, queueVars, endVars, portVars
<1>3. /\ ps \in PodStatus /\ ps.uid = cyc.newUid /\ ps.port = status[n].port
      /\ ps.node = status[n].node /\ ps.request = status[n].request
  BY <1>2 DEF PodStatus
<1>4. status' = [status EXCEPT ![n] = ps]
  BY <1>1, <1>2 DEF ReserveSetUid
<1> HIDE DEF ps
<1>5. status'[n] = ps /\ ps # NoStatus /\ \A m \in Names \ {n} : status'[m] = status[m]
  BY <1>3, <1>4, AbsenceAssumption DEF TypeOK
<1>6. \A m \in Names : Alive(m)' <=> Alive(m)
  BY <1>2 DEF Alive
<1>7. FirstIsUnbound' /\ UidWhileReplaced' /\ ShadowForSure'
  BY <1>1, <1>2, <1>3, <1>5 DEF SlotInv, FirstIsUnbound, UidWhileReplaced, ShadowForSure, Replacing
<1>8. HeldFromReserve'
  <2>1. \A m \in Names : api[m] # NoPod => api[m].name = m
    BY DEF LifeInv, OrderInv, LatestInApi
  <2> QED BY <1>2, <1>5, <2>1 DEF SlotInv, HeldFromReserve, HasStatus, Alive, Placed
<1>9. HeldUntilHandled'
  <2> SUFFICES ASSUME NEW m \in Names, Remains(m)' PROVE Dropping(m)'
    BY HeldByPending
  <2>1. m # n
    BY <1>2, <1>6 DEF Remains
  <2>2. Remains(m) /\ status'[m] = status[m]
    BY <1>2, <1>5, <1>6, <2>1 DEF Remains, Placed
  <2> QED BY <1>2, <2>2, HeldByPending DEF SlotInv, Dropping, Pending
<1>10. PortsExact'
  <2>1. PortOfItsOwn(ps)
    BY <1>2, <1>3, PortsByOwner DEF SlotInv, PortOfItsOwn
  <2>2. \A x \in Nodes, b \in Nat : HasPort(n, x, b) => HasPort(n, x, b)'
    BY <1>3, <1>5 DEF HasPort
  <2>3. \A x \in Nodes : masked'[x] = masked[x] /\ masked'[x] \subseteq Nat
    BY <1>2 DEF TypeOK
  <2> QED BY <1>2, <1>5, <2>1, <2>2, <2>3, PortsKept DEF SlotInv
<1>11. PortsAnnotated'
  BY <1>2, <1>3, <1>5, <1>6 DEF SlotInv, PortsAnnotated, Replacing
<1> QED BY <1>7, <1>8, <1>9, <1>10, <1>11 DEF SlotInv

(* In the beginning there is neither a pod nor a status. *)
LEMMA SlotInit == Init => SlotInv
<1> SUFFICES ASSUME Init PROVE SlotInv
  OBVIOUS
<1>1. /\ \A n \in Names : api[n] = NoPod /\ status[n] = NoStatus
      /\ \A x \in Nodes : masked[x] = {0}
      /\ pc = "idle" /\ hpc = "ready"
  BY Zenon DEF Init
<1> QED BY <1>1 DEF SlotInv, FirstIsUnbound, UidWhileReplaced, ShadowForSure, HeldFromReserve,
           HeldUntilHandled, PortsExact, PortsAnnotated, Alive, Replacing

(* No creation fails, so the other steps of a cycle keep SlotInv too. *)
LEMMA SlotStep ==
  ASSUME TypeOK, TypeOK', LifeInv, LifeInv', PortInv, HandInv, HandInv', ChosenCells,
         Undisturbed, SlotInv, [LifeNext]_vars
  PROVE  SlotInv'
<1>1. CASE Environment
  BY <1>1, EnvironmentSlots DEF HandInv
<1>2. CASE Informer
  <2>1. KeptWhileReplaced'
    BY DEF LifeInv
  <2> QED BY <1>2, <2>1, InformerSlots DEF HandInv
<1>3. CASE \E n \in Names : PreFilter(n)
  BY <1>3, ChoosesSlots DEF Chooses
<1>4. CASE UNCHANGED vars
  BY <1>4, QuietSlots
<1>5. CASE InCycle
  <2>1. ~ FilterBoundPod
    BY Zenon, NeverABoundPod
  <2>2. ~ ReserveCreateFails
    BY DEF ReserveCreateFails, Undisturbed, SlotInv, ShadowForSure, TypeOK
  <2>3. CASE FilterDecide \/ \E x \in Nodes : ReserveSelect(x)
    BY <2>3, ChoosesSlots DEF Chooses
  <2>4. CASE \/ \E x \in Nodes, seen \in BOOLEAN : FilterAddNode(x, seen)
             \/ \E l \in Leaves : TakeCell(l)
    BY <2>4, QuietSlots
  <2>5. CASE AssumeSharedPod \/ AssumeMultiPod
    BY <2>5, AssumeSlots
  <2>6. CASE ReserveDelete
    BY <2>6, DeleteSlots
  <2>7. CASE ReserveCreate
    BY <2>7, CreateSlots DEF HandInv
  <2>8. CASE ReserveSetUid
    BY <2>8, SetUidSlots
  <2>9. CASE LookUpAgain
    BY <2>9, LookUpAgainSlots
  <2> QED BY <1>5, <2>1, <2>2, <2>3, <2>4, <2>5, <2>6, <2>7, <2>8, <2>9
     DEF InCycle
<1> QED BY <1>1, <1>2, <1>3, <1>4, <1>5 DEF LifeNext

-----------------------------------------------------------------------------
(* The steps before Reserve take nothing from anybody. *)
LEMMA ChoosesTakesNothing ==
  ASSUME TypeOK, LifeInv, PortInv, SlotInv, Chooses
  PROVE  /\ UNCHANGED <<avail, freeMem, filled, hpc, ending>>
         /\ \A m \in Names, l \in Leaves : /\ Taken(m, l)' = Taken(m, l)
                                           /\ TakenMemory(m, l)' = TakenMemory(m, l)
<1>1. /\ UNCHANGED <<avail, freeMem, filled, hpc, ending>>
      /\ pc \in {"idle", "drain", "select"} /\ pc' \notin Replacing \cup {"setuid", "empty"}
  BY ChoosesEffect
<1>2. PICK n \in Names :
        /\ \A m \in Names \ {n} : status'[m] = status[m]
        /\ pc' = "assume" => cyc'.pod.name = n
        /\ status[n] # NoStatus => status[n].cells = {}
        /\ status'[n] # NoStatus
        /\ status'[n].cells = {} \/ pc' = "assume"
  BY ChoosesEffect
<1>3. ASSUME NEW m \in Names, NEW l \in Leaves
      PROVE  Holds(m, l)' <=> Holds(m, l)
  <2>1. CASE m = n
    BY <1>1, <1>2, <2>1 DEF Holds, NotYetTaken, Placed
  <2>2. CASE m # n
    BY <1>1, <1>2, <2>2 DEF Holds, NotYetTaken, Placed, Replacing
  <2> QED BY <2>1, <2>2
<1>4. ASSUME NEW m \in Names, NEW l \in Leaves, Holds(m, l)
      PROVE  status'[m] = status[m]
  BY <1>2, <1>4 DEF Holds
<1> QED BY <1>1, <1>3, <1>4 DEF Taken, TakenMemory

(* What is left of a leaf changes by what the statuses hold of it. *)
LEMMA SharesExactStep ==
  ASSUME TypeOK, TypeOK', LifeInv, PortInv, CellsInv, SlotInv, SharesExact, [LifeNext]_vars
  PROVE  SharesExact'
<1>1. CASE SharesMoved
  BY <1>1, Zenon DEF SharesMoved, SharesExact
<1>2. CASE Chooses
  <2>1. ASSUME NEW l \in Leaves
        PROVE  avail'[l] + Returning(l)' + TakenOf(l)' = UNIT
    <3>1. avail'[l] = avail[l] /\ Returning(l)' = Returning(l)
      BY <1>2, ChoosesTakesNothing DEF Returning
    <3>2. TakenOf(l)' = TakenOf(l)
      BY <1>2, ChoosesTakesNothing, TakenSame
    <3> QED BY <3>1, <3>2 DEF SharesExact
  <2> QED BY <2>1 DEF SharesExact
<1> QED BY <1>1, <1>2, MovesOrChooses

(* The same of memory, which a GPU gets when it is known. *)
LEMMA MemoryExactStep ==
  ASSUME SharedAskBoth, TypeOK, TypeOK', LifeInv, PortInv, GpuInv, FreeInv, KnownCells', SlotInv,
         MemoryExact, [LifeNext]_vars
  PROVE  MemoryExact'
<1> SUFFICES ASSUME NEW l \in Leaves
             PROVE  freeMem'[l] + ReturningMemory(l)' + TakenMemoryOf(l)' = MemoryOfLeaf(l)'
  BY DEF MemoryExact
<1>1. freeMem[l] + ReturningMemory(l) + TakenMemoryOf(l) = MemoryOfLeaf(l)
  BY DEF MemoryExact
<1>2. CASE MemoryMoved
  <2>1. /\ TakenMemoryOf(l) \in Nat /\ TakenMemoryOf(l)' \in Nat
        /\ ReturningMemory(l) \in Nat /\ ReturningMemory(l)' \in Nat
    BY MemoryType, MemoryTypeNext, ReturningMemoryType DEF FreeInv
  <2>2. freeMem[l] \in Int /\ freeMem'[l] \in Int
    BY TopologyAssumption DEF TypeOK
  <2>3. MemoryOfLeaf(l) \in Nat /\ MemoryOfLeaf(l)' \in Nat
    BY MemoryOfLeafType
  <2>4. \/ freeMem'[l] + ReturningMemory(l)' + TakenMemoryOf(l)' + MemoryOfLeaf(l)
             = freeMem[l] + ReturningMemory(l) + TakenMemoryOf(l) + MemoryOfLeaf(l)'
        \/ freeMem'[l] + ReturningMemory(l)' + TakenMemoryOf(l)' = MemoryOfLeaf(l)'
    BY <1>2, Zenon DEF MemoryMoved
  <2> QED BY <1>1, <2>1, <2>2, <2>3, <2>4
<1>3. CASE Chooses
  <2>1. /\ freeMem'[l] = freeMem[l] /\ ReturningMemory(l)' = ReturningMemory(l)
        /\ MemoryOfLeaf(l)' = MemoryOfLeaf(l)
    BY <1>3, ChoosesTakesNothing DEF ReturningMemory, MemoryOfLeaf
  <2>2. TakenMemoryOf(l)' = TakenMemoryOf(l)
    BY <1>3, ChoosesTakesNothing, MemorySame
  <2> QED BY <1>1, <2>1, <2>2
<1> QED BY <1>2, <1>3, MemoryMovesOrChooses

(* In the beginning nothing is held, and no GPU's memory is known. *)
LEMMA ExactInit == Init => ExactInv
<1> SUFFICES ASSUME Init PROVE ExactInv
  OBVIOUS
<1>1. ASSUME NEW l \in Leaves
      PROVE  avail[l] + Returning(l) + TakenOf(l) = UNIT
  <2> DEFINE f == [m \in Names |-> Taken(m, l)]
  <2>1. \A m \in Names : f[m] = 0
    BY DEF Init, Taken, Holds
  <2>2. TakenOf(l) = Total(f, Names)
    BY TakenIsTotal
  <2> HIDE DEF f
  <2>3. TakenOf(l) = 0
    BY <2>1, <2>2, TotalZero, NamesAssumption
  <2>4. Cardinality(LeavesUnder(l)) = 1
    <3>1. LeavesUnder(l) = {l}
      BY TopologyAssumption DEF LeavesUnder
    <3> QED BY <3>1, FS_Singleton
  <2>5. avail[l] = UNIT * 1
    BY <2>4, TopologyAssumption DEF Init, Full
  <2>6. Returning(l) = 0
    BY DEF Init, Returning
  <2> QED BY <2>3, <2>5, <2>6, RequestAssumption
<1>2. ASSUME NEW l \in Leaves
      PROVE  freeMem[l] + ReturningMemory(l) + TakenMemoryOf(l) = MemoryOfLeaf(l)
  <2> DEFINE f == [m \in Names |-> TakenMemory(m, l)]
  <2>1. \A m \in Names : f[m] = 0
    BY DEF Init, TakenMemory, Holds
  <2>2. TakenMemoryOf(l) = Total(f, Names)
    BY MemoryIsTotal
  <2> HIDE DEF f
  <2>3. TakenMemoryOf(l) = 0
    BY <2>1, <2>2, TotalZero, NamesAssumption
  <2>4. ReturningMemory(l) = 0
    BY DEF Init, ReturningMemory
  <2>5. freeMem[l] = 0 /\ MemoryOfLeaf(l) = 0
    BY TopologyAssumption DEF Init, MemoryOfLeaf
  <2> QED BY <2>3, <2>4, <2>5
<1>3. SharesExact /\ MemoryExact
  BY <1>1, <1>2 DEF SharesExact, MemoryExact
<1> QED BY <1>3, SlotInit DEF SlotInv, ExactInv

(* Every step of one life of the process keeps ExactInv, if a name is used by *)
(* one pod and its shadow, no creation fails and nobody touches a pod in a    *)
(* cycle, and every shared pod says which share and memory it wants.         *)
THEOREM ExactStep ==
  ASSUME Undisturbed, SharedAskBoth
  PROVE  TypeOK /\ TypeOK' /\ LifeInv /\ LifeInv' /\ PortInv /\ GpuInv /\ GpuInv'
           /\ FreeInv /\ FreeInv' /\ ExactInv /\ [LifeNext]_vars => ExactInv'
<1> SUFFICES ASSUME TypeOK, TypeOK', LifeInv, LifeInv', PortInv, GpuInv, GpuInv',
                    FreeInv, FreeInv', ExactInv, [LifeNext]_vars
             PROVE  ExactInv'
  OBVIOUS
<1>1. /\ HandInv /\ CellsInv /\ ChosenCells /\ KnownCells' /\ SlotInv
      /\ SharesExact /\ MemoryExact
  BY PlaceParts DEF GpuInv, FreeInv, CellsInv, SlotInv, ExactInv
<1>2. HandInv'
  BY DEF GpuInv, PlaceInv, HandInv
<1>3. SlotInv'
  BY <1>1, <1>2, SlotStep
<1>4. SharesExact'
  BY <1>1, SharesExactStep
<1>5. MemoryExact'
  BY <1>1, MemoryExactStep
<1> QED BY <1>3, <1>4, <1>5 DEF SlotInv, ExactInv

(* In such a life what the statuses hold, what is being given back and what   *)
(* is left of a GPU are the whole of it, and every masked port and every      *)
(* status has an owner.                                                      *)
THEOREM ExactCorrect ==
  ASSUME Undisturbed, SharedAskBoth PROVE LifeSpec => []ExactInv
<1>1. TypeOK /\ TypeOK' /\ LifeInv /\ LifeInv' /\ PortInv /\ GpuInv /\ GpuInv'
        /\ FreeInv /\ FreeInv' /\ ExactInv /\ [LifeNext]_vars => ExactInv'
  BY ExactStep
<1>2. OriginalsStay
  BY DEF Undisturbed
<1>3. LifeSpec => [](TypeOK /\ LifeInv)
  BY <1>2, LifeCorrect
<1>4. LifeSpec => []PortInv
  BY <1>2, PortCorrect
<1>5. LifeSpec => []GpuInv
  BY <1>2, GpuCorrect
<1>6. LifeSpec => []FreeInv
  BY <1>2, FreeCorrect
<1> QED BY <1>1, <1>3, <1>4, <1>5, <1>6, ExactInit, PTL DEF LifeSpec

(* Once every event is handled, a status that holds something is of a pod     *)
(* that is alive.                                                            *)
LEMMA HeldByTheAlive ==
  ASSUME TypeOK, ExactInv, Quiescent, NEW n \in Names, status[n] # NoStatus, ~ Alive(n)
  PROVE  status[n].cells = {} /\ ~ InPool(status[n].port)
<1>1. status[n].uid # 0
  BY DEF ExactInv, UidWhileReplaced, Quiescent, Replacing
<1>2. DOMAIN events = {}
  BY DEF Quiescent
<1> QED BY <1>1, <1>2 DEF ExactInv, HeldUntilHandled, Placed, Quiescent

(* ... and holds what the pod uses. *)
LEMMA HeldIsUsed ==
  ASSUME TypeOK, GpuInv, ExactInv, Quiescent, NEW n \in Names, NEW l \in Leaves
  PROVE  ShareOf(n, l) = Taken(n, l) /\ MemoryOf(n, l) = TakenMemory(n, l)
<1>1. ~ NotYetTaken(n, l)
  BY DEF NotYetTaken, Placed, Quiescent
<1>2. CASE Alive(n)
  <2>1. /\ status[n] # NoStatus /\ status[n].cells = api[n].gpus
        /\ status[n].request = api[n].spec.request
        /\ ~ MultiGPU(api[n].spec.request) => status[n].memory = api[n].memory
    BY <1>2 DEF GpuInv, PlaceInv, GpusOfTheAlive, StatusOf
  <2> QED BY <1>1, <1>2, <2>1 DEF ShareOf, Taken, MemoryOf, TakenMemory, Holds, Units
<1>3. CASE ~ Alive(n)
  <2>1. ~ Holds(n, l)
    BY <1>3, HeldByTheAlive DEF Holds
  <2> QED BY <1>3, <2>1 DEF ShareOf, Taken, MemoryOf, TakenMemory
<1> QED BY <1>2, <1>3

(* Once every event is handled, a masked port is the one never drawn or a     *)
(* port of a pod that is alive.                                              *)
LEMMA PortsAreUsed ==
  ASSUME TypeOK, PortInv, ExactInv, Quiescent, NEW x \in Nodes
  PROVE  masked[x] = {0} \cup
           {api[n].port - PodManagerPortStart :
              n \in {m \in Names : Alive(m) /\ api[m].node = x /\ InPool(api[m].port)}}
<1> DEFINE used == {m \in Names : Alive(m) /\ api[m].node = x /\ InPool(api[m].port)}
<1>1. ASSUME NEW n \in used
      PROVE  api[n].port - PodManagerPortStart \in masked[x]
  <2>1. /\ status[n] # NoStatus /\ status[n].port = api[n].port /\ status[n].node = x
    BY DEF PortInv, PortsOfTheAlive
  <2> QED BY <2>1 DEF PortInv, PortsOfStatuses
<1>2. ASSUME NEW b \in masked[x] \ {0}
      PROVE  \E n \in used : b = api[n].port - PodManagerPortStart
  <2>1. PICK m \in Names : /\ status[m] # NoStatus /\ status[m].node = x
                           /\ status[m].port = b + PodManagerPortStart
    BY <1>2 DEF ExactInv, PortsExact, Quiescent
  <2>2. b \in 0 .. PortBits - 1
    BY <1>2 DEF TypeOK
  <2>3. InPool(status[m].port) /\ status[m].port - PodManagerPortStart = b
    BY <2>1, <2>2, RequestAssumption DEF InPool, PodManagerPortStart
  <2>4. Alive(m)
    BY <2>1, <2>3, HeldByTheAlive
  <2>5. api[m].port = status[m].port /\ api[m].node = x
    BY <2>1, <2>3, <2>4 DEF ExactInv, PortsAnnotated
  <2> QED BY <2>3, <2>4, <2>5
<1>3. 0 \in masked[x]
  BY DEF ExactInv, PortsExact
<1> QED BY <1>1, <1>2, <1>3

(* Nothing leaks: once everything that happened has been handled, the cells   *)
(* and the bitmaps say exactly what the alive pods use, in one life of the    *)
(* process in which a name is used by one pod and its shadow, no creation     *)
(* fails and nobody touches a pod in a cycle, if shared pods ask for both a   *)
(* share and memory.                                                         *)
THEOREM AccountsAlwaysExact ==
  ASSUME Undisturbed, SharedAskBoth PROVE LifeSpec => []AccountsExact
<1>1. TypeOK /\ LifeInv /\ PortInv /\ GpuInv /\ FreeInv /\ ExactInv => AccountsExact
  <2> SUFFICES ASSUME TypeOK, PortInv, GpuInv, FreeInv, ExactInv, Quiescent
               PROVE  /\ \A l \in Leaves :
                           avail[l] = UNIT - MapThenSumSet(LAMBDA n : ShareOf(n, l), Names)
                      /\ \A l \in Leaves : NodeOf[l] \in filled =>
                           freeMem[l] = FullMem - MapThenSumSet(LAMBDA n : MemoryOf(n, l), Names)
    BY PortsAreUsed DEF AccountsExact
  <2>1. ASSUME NEW l \in Leaves
        PROVE  /\ MapThenSumSet(LAMBDA n : ShareOf(n, l), Names) = TakenOf(l)
               /\ MapThenSumSet(LAMBDA n : MemoryOf(n, l), Names) = TakenMemoryOf(l)
    <3> DEFINE f == [n \in Names |-> ShareOf(n, l)]
               g == [m \in Names |-> Taken(m, l)]
               h == [n \in Names |-> MemoryOf(n, l)]
               k == [m \in Names |-> TakenMemory(m, l)]
    <3>1. MapThenSumSet(LAMBDA n : ShareOf(n, l), Names) = Total(f, Names)
      BY Zenon DEF Total, MapThenSumSet, MapThenFoldSet
    <3>2. MapThenSumSet(LAMBDA n : MemoryOf(n, l), Names) = Total(h, Names)
      BY Zenon DEF Total, MapThenSumSet, MapThenFoldSet
    <3>3. f = g /\ h = k
      BY HeldIsUsed
    <3> QED BY <3>1, <3>2, <3>3, TakenIsTotal, MemoryIsTotal
  <2>2. ASSUME NEW l \in Leaves
        PROVE  /\ avail[l] + Returning(l) + TakenOf(l) = UNIT
               /\ NodeOf[l] \in filled =>
                    freeMem[l] + ReturningMemory(l) + TakenMemoryOf(l) = FullMem
               /\ Returning(l) = 0 /\ ReturningMemory(l) = 0
    BY DEF ExactInv, SharesExact, MemoryExact, MemoryOfLeaf, Quiescent, Returning,
           ReturningMemory
  <2>3. ASSUME NEW l \in Leaves
        PROVE  avail[l] \in Int /\ freeMem[l] \in Int /\ TakenOf(l) \in Nat /\ TakenMemoryOf(l) \in Nat
    <3>1. avail[l] \in Int /\ freeMem[l] \in Int
      BY TopologyAssumption DEF TypeOK
    <3> QED BY <3>1, TakenType, MemoryType DEF FreeInv
  <2>4. ASSUME NEW l \in Leaves
        PROVE  /\ avail[l] = UNIT - TakenOf(l)
               /\ NodeOf[l] \in filled => freeMem[l] = FullMem - TakenMemoryOf(l)
    BY <2>2, <2>3
  <2> QED BY <2>1, <2>4, Zenon
<1>2. OriginalsStay
  BY DEF Undisturbed
<1>3. LifeSpec => [](TypeOK /\ LifeInv)
  BY <1>2, LifeCorrect
<1>4. LifeSpec => []PortInv
  BY <1>2, PortCorrect
<1>5. LifeSpec => []GpuInv
  BY <1>2, GpuCorrect
<1>6. LifeSpec => []FreeInv
  BY <1>2, FreeCorrect
<1>7. LifeSpec => []ExactInv
  BY ExactCorrect
<1> QED BY <1>1, <1>3, <1>4, <1>5, <1>6, <1>7, PTL

(* Both hold together where the run "calm" checks them: nobody touches a pod   *)
(* in a cycle, and multi-GPU pods ask for whole nodes or nobody shares.       *)
THEOREM CalmCorrect ==
  ASSUME Undisturbed, SharedAskBoth, NobodyShares \/ WholeNodes PROVE LifeSpec => []CalmInv
<1>1. OriginalsStay
  BY DEF Undisturbed
<1>2. LifeSpec => []RequestInv
  BY <1>1, RequestCorrect
<1>3. LifeSpec => []ExactInv
  BY ExactCorrect
<1> QED BY <1>2, <1>3, PTL DEF CalmInv
================================================================================
