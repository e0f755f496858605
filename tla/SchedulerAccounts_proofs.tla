------------------------ MODULE SchedulerAccounts_proofs ------------------------
(***************************************************************************)
(* The scheduler's own accounts.  In one life of the process, if users     *)
(* leave a pod alone that a cycle has in hand, two pods alive on a node    *)
(* never have the same pod manager port, and no leaf's share goes below    *)
(* zero: the leaf Reserve chose for a shared pod still fits it when it is  *)
(* reserved, whatever the informer gave back in between.  With no such     *)
(* assumption, and through restarts too, a node's cell has the sum of what *)
(* its leaves have.                                                        *)
(***************************************************************************)
EXTENDS Scheduler_proofs

(* What deletePod does at its first step, if anything: it takes a status of   *)
(* a pod that has ended, not of the one in a cycle, and keeps it to give      *)
(* back what it holds.                                                        *)
LEMMA HandlerEffect ==
  ASSUME TypeOK, LifeInv, HandlesEvent
  PROVE  /\ hpc = "ready"
         /\ UNCHANGED <<apiVars, pc, cyc, cellVars, filled, portVars, counters>>
         /\ \/ UNCHANGED <<status, endVars>>
            \/ \E n \in Names :
                 /\ status[n] \in PodStatus /\ status[n].uid # 0
                 /\ ~ (NotEnded(n) /\ api[n].uid = status[n].uid)
                 /\ pc \in Choosing \cup Replacing \cup {"setuid"} => cyc.pod.name # n
                 /\ status' = [status EXCEPT ![n] = NoStatus]
                 /\ IF MultiGPU(status[n].request) THEN Reclaiming(status[n])
                    ELSE hpc' = "unmask" /\ ending' = status[n]
<1> DEFINE pod == Head(events).pod
<1>0. OrderInv /\ MemoryInv /\ MemoryInv'
  <2>1. LifeInv'
    BY HandlerLife
  <2> QED BY <2>1, LifeParts DEF LifeInv, MemoryInv
<1>1. /\ hpc = "ready" /\ events # <<>>
      /\ UNCHANGED <<apiVars, pc, cyc, cellVars, filled, portVars, counters>>
  BY Zenon DEF HandlesEvent, HandleAdd, HandleUpdate, HandleDelete, NextEvent
<1>2. \/ UNCHANGED <<status, endVars>>
      \/ DeletePod(pod) /\ (Head(events).type # "add" \/ isCompleted(pod))
  BY DEF HandlesEvent, HandleAdd, HandleUpdate, HandleDelete, NextEvent
<1>3. CASE UNCHANGED <<status, endVars>>
  BY <1>1, <1>3, Zenon
<1>4. CASE /\ DeletePod(pod) /\ HasStatus(pod)
           /\ Head(events).type # "add" \/ isCompleted(pod)
  <2>1. /\ events \in Seq(EventSet) /\ Head(events) = events[1] /\ 1 \in DOMAIN events
        /\ Head(events) \in EventSet
    BY <1>0, <1>1, PendingType, DropEvent
  <2>2. pod.name \in Names /\ pod.uid \in Nat \ {0} /\ pod.uid # 0
    BY <2>1 DEF EventSet, Pod
  <2>3. PICK n \in Names : n = pod.name
    BY <2>2
  <2>4. /\ status[n] # NoStatus /\ status[n].uid = pod.uid /\ status[n] \in PodStatus
        /\ ~ (NotEnded(n) /\ api[n].uid = pod.uid)
    <3>1. InOrder(Head(events))
      BY <1>0, <2>1, OrderByEvent
    <3> QED BY <1>4, <2>3, <3>1, CycleNames DEF HasStatus, InOrder
  <2>5. /\ status' = [status EXCEPT ![n] = NoStatus]
        /\ IF MultiGPU(status[n].request) THEN Reclaiming(status[n])
           ELSE hpc' = "unmask" /\ ending' = status[n]
    BY <1>4, <2>3, Zenon DEF DeletePod
  <2>6. status'[n] = NoStatus /\ UNCHANGED <<pc, cyc>>
    BY <1>1, <2>5 DEF TypeOK
  <2>7. pc \in Choosing \cup Replacing \cup {"setuid"} => cyc.pod.name # n
    BY <1>0, <2>6 DEF MemoryInv, PodInHand, KeptWhileReplaced, HasStatus
  <2> HIDE DEF pod
  <2> QED BY <1>1, <2>2, <2>4, <2>5, <2>7, Zenon
<1>5. CASE DeletePod(pod) /\ ~ HasStatus(pod)
  BY <1>3, <1>5, Zenon DEF DeletePod
<1> QED BY <1>2, <1>3, <1>4, <1>5

(* At the start there is no pod, and no port but the first is masked. *)
LEMMA PortInit == Init => PortInv
  BY DEF Init, PortInv, PortsOfTheAlive, PortsOfStatuses, PortOfTheEnded, PortOfTheCopy,
         UnboundHasNoPort, Alive, Choosing, Replacing

(* The steps of users and kubelets leave no pod alive that was not.          *)
LEMMA EnvironmentPort ==
  ASSUME TypeOK, LifeInv, PortInv, NEW n \in Names,
         (\E s \in Specs : UserCreate(n, s)) \/ UserDelete(n) \/ Finish(n)
  PROVE  PortInv'
<1>0. LatestInApi /\ MemoryInv
  BY LifeParts DEF LifeInv, OrderInv
<1>1. UNCHANGED <<pc, cyc, status, masked, hpc, ending>>
  BY DEF UserCreate, UserDelete, Finish, portVars, endVars
<1>2. /\ \A m \in Names : m # n => api'[m] = api[m]
      /\ \/ api'[n] = NoPod
         \/ isBound(api'[n]) /\ isCompleted(api'[n])
         \/ /\ ~ isBound(api'[n]) /\ api'[n].uid > born[n] /\ api'[n].port = 0
            /\ api'[n].name = n
  <2>1. ASSUME NEW s \in Specs, UserCreate(n, s)
        PROVE  /\ ~ isBound(api'[n]) /\ api'[n].uid > born[n] /\ api'[n].port = 0
               /\ api'[n].name = n
               /\ \A m \in Names : m # n => api'[m] = api[m]
    <3>1. api' = [api EXCEPT ![n] = NewPod(n, s)]
      BY <2>1 DEF UserCreate
    <3>2. /\ NewPod(n, s).node = NoNode /\ NewPod(n, s).uid = born[n] + 1
          /\ NewPod(n, s).port = 0 /\ NewPod(n, s).name = n
      BY DEF NewPod
    <3> QED BY <3>1, <3>2, CycleNames DEF isBound, TypeOK
  <2>2. CASE UserDelete(n)
    BY <2>2 DEF UserDelete, TypeOK
  <2>3. CASE Finish(n)
    <3>1. api[n] \in Pod /\ isBound(api[n])
      BY <2>3 DEF Finish, Alive, TypeOK
    <3>2. /\ api'[n].node = api[n].node /\ api'[n].phase = "Done"
          /\ \A m \in Names : m # n => api'[m] = api[m]
      BY <2>3, <3>1 DEF Finish, Pod, TypeOK
    <3> QED BY <3>1, <3>2 DEF isBound, isCompleted
  <2> QED BY <2>1, <2>2, <2>3
<1>3. PortsOfTheAlive'
  <2>1. \A m \in Names : Alive(m)' => m # n /\ Alive(m) /\ api'[m] = api[m]
    BY <1>2 DEF Alive, isBound, isCompleted
  <2> QED BY <1>1, <2>1 DEF PortInv, PortsOfTheAlive
<1>4. PortsOfStatuses' /\ PortOfTheEnded' /\ PortOfTheCopy'
  BY <1>1 DEF PortInv, PortsOfStatuses, PortOfTheEnded, PortOfTheCopy
<1>5. UnboundHasNoPort'
  <2>1. ASSUME NEW m \in Names, api'[m] # NoPod, ~ isBound(api'[m])
        PROVE  /\ ~ InPool(api'[m].port)
               /\ status[m] # NoStatus /\ status[m].uid = api'[m].uid => ~ InPool(status[m].port)
    <3>1. CASE m # n
      <4>1. api'[m] = api[m] /\ api[m].name = m
        BY <1>0, <1>2, <2>1, <3>1 DEF LatestInApi
      <4> QED BY <2>1, <4>1 DEF PortInv, UnboundHasNoPort, HasStatus
    <3>2. CASE m = n
      <4>1. api'[n].uid > born[n] /\ api'[n].port = 0
        BY <1>2, <2>1, <3>2
      <4>2. status[n] # NoStatus => status[n].uid \in Nat /\ status[n].uid <= born[n]
        BY <1>0, CycleNames DEF MemoryInv, UidsKnown
      <4>3. status[n] # NoStatus => status[n].uid # api'[n].uid
        BY <4>1, <4>2, CycleNames
      <4> QED BY <3>2, <4>1, <4>3 DEF InPool, PodManagerPortStart
    <3> QED BY <3>1, <3>2
  <2>2. \A m \in Names : api'[m] # NoPod => api'[m].name = m
    BY <1>0, <1>2, EnvironmentOrder DEF LifeInv, OrderInv, LatestInApi
  <2>3. pc \in Choosing =>
          ~ InPool(cyc.pod.port) /\ (HasStatus(cyc.pod) => ~ InPool(status[cyc.pod.name].port))
    BY DEF PortInv, UnboundHasNoPort
  <2> QED BY <1>1, <2>1, <2>2, <2>3 DEF UnboundHasNoPort, HasStatus
<1> QED BY <1>3, <1>4, <1>5 DEF PortInv

(* The status deletePod takes from the map is not that of a pod that is       *)
(* alive, and no other has its port.                                          *)
LEMMA HandlerPort ==
  ASSUME TypeOK, LifeInv, PortInv, HandlesEvent
  PROVE  PortInv'
<1>0. hpc = "ready" /\ UNCHANGED <<api, pc, cyc, masked>>
  BY HandlerEffect DEF apiVars, portVars
<1>1. CASE UNCHANGED <<status, endVars>>
  BY <1>0, <1>1
     DEF PortInv, PortsOfTheAlive, PortsOfStatuses, PortOfTheEnded, PortOfTheCopy,
         UnboundHasNoPort, Alive, HasStatus, endVars
<1>2. ASSUME NEW n \in Names, status[n] \in PodStatus,
             ~ (NotEnded(n) /\ api[n].uid = status[n].uid),
             pc \in Choosing \cup Replacing \cup {"setuid"} => cyc.pod.name # n,
             status' = [status EXCEPT ![n] = NoStatus],
             IF MultiGPU(status[n].request) THEN Reclaiming(status[n])
             ELSE hpc' = "unmask" /\ ending' = status[n]
      PROVE  PortInv'
  <2>1. /\ status'[n] = NoStatus /\ status[n] # NoStatus
        /\ \A m \in Names : m # n => status'[m] = status[m]
    BY <1>2, AbsenceAssumption DEF TypeOK
  <2>2. hpc' = "unmask" => ending' = status[n]
    BY <1>2 DEF Reclaiming
  <2>3. PortsOfTheAlive'
    <3> SUFFICES ASSUME NEW m \in Names, Alive(m), InPool(api[m].port)
                 PROVE  /\ status'[m] # NoStatus
                        /\ status'[m].port = api[m].port /\ status'[m].node = api[m].node
                        /\ \/ status'[m].uid = api[m].uid
                           \/ pc = "setuid" /\ cyc.pod.name = m /\ cyc.same
                              /\ cyc.newUid = api[m].uid
      BY <1>0 DEF PortsOfTheAlive, Alive
    <3>1. /\ status[m] # NoStatus
          /\ status[m].port = api[m].port /\ status[m].node = api[m].node
          /\ \/ status[m].uid = api[m].uid
             \/ pc = "setuid" /\ cyc.pod.name = m /\ cyc.same
                /\ cyc.newUid = api[m].uid
      BY DEF PortInv, PortsOfTheAlive
    <3>2. m # n
      BY <1>2, <3>1 DEF Alive, NotEnded
    <3> QED BY <2>1, <3>1, <3>2
  <2>4. PortsOfStatuses'
    BY <1>0, <2>1 DEF PortInv, PortsOfStatuses
  <2>5. PortOfTheEnded'
    BY <1>0, <2>1, <2>2 DEF PortInv, PortsOfStatuses, PortOfTheEnded
  <2>6. PortOfTheCopy'
    <3>1. pc \in Replacing => cyc.pod.name \in Names /\ status'[cyc.pod.name] = status[cyc.pod.name]
      BY <1>2, <2>1, CycleNames
    <3> QED BY <1>0, <3>1 DEF PortInv, PortOfTheCopy
  <2>7. UnboundHasNoPort'
    <3>1. \A m \in Names : status'[m] # NoStatus => status'[m] = status[m]
      BY <2>1
    <3>2. \A m \in Names : api[m] # NoPod => api[m].name = m
      BY DEF LifeInv, OrderInv, LatestInApi
    <3> QED BY <1>0, <3>1, <3>2, CycleNames DEF PortInv, UnboundHasNoPort, HasStatus
  <2> QED BY <2>3, <2>4, <2>5, <2>6, <2>7 DEF PortInv
<1> QED BY <1>1, <1>2, HandlerEffect

(* deletePod unmasks a port that no status has. *)
LEMMA UnmaskEndedPort ==
  ASSUME TypeOK, PortInv, UnmaskEnded
  PROVE  PortInv'
<1> DEFINE x == ending.node
           p == ending.port
<1>1. /\ hpc = "unmask" /\ hpc' # "unmask" /\ UNCHANGED <<api, pc, cyc, status>>
      /\ UnmaskPort(x, p) /\ ending \in PodStatus
  BY DEF UnmaskEnded, Reclaiming, apiVars, TypeOK
<1>2. PortsOfTheAlive' /\ PortOfTheCopy' /\ UnboundHasNoPort' /\ PortOfTheEnded'
  BY <1>1
     DEF PortInv, PortsOfTheAlive, PortOfTheCopy, UnboundHasNoPort, PortOfTheEnded, Alive, HasStatus
<1>3. PortsOfStatuses'
  <2> SUFFICES ASSUME NEW m \in Names, status[m] # NoStatus, InPool(status[m].port)
               PROVE  status[m].port - PodManagerPortStart \in masked'[status[m].node]
    BY <1>1 DEF PortInv, PortsOfStatuses
  <2> DEFINE y == status[m].node
             q == status[m].port
  <2>1. y \in Nodes /\ q - PodManagerPortStart \in masked[y]
    BY DEF PortInv, PortsOfStatuses
  <2>2. CASE ~ InPool(p)
    BY <1>1, <2>1, <2>2 DEF UnmaskPort
  <2>3. CASE InPool(p)
    <3>1. x = y => p # q
      BY <1>1, <2>3 DEF PortInv, PortOfTheEnded
    <3>2. p \in Int /\ q \in Int
      BY <1>1, CycleNames DEF PodStatus, Ports, PodManagerPortStart
    <3>3. masked' = [masked EXCEPT ![x] = @ \ {p - PodManagerPortStart}]
      BY <1>1, <2>3 DEF UnmaskPort
    <3> HIDE DEF x, p, y, q
    <3>4. x = y => p - PodManagerPortStart # q - PodManagerPortStart
      BY <3>1, <3>2 DEF PodManagerPortStart
    <3>5. q - PodManagerPortStart \in masked'[y]
      BY <2>1, <3>3, <3>4 DEF TypeOK
    <3> QED BY <3>5 DEF y, q
  <2> QED BY <2>2, <2>3
<1> QED BY <1>2, <1>3 DEF PortInv

LEMMA InformerPort ==
  ASSUME TypeOK, LifeInv, PortInv, Informer
  PROVE  PortInv'
<1>1. CASE \E l \in Leaves : ReclaimCell(l)
  <2>1. /\ hpc' # "unmask" /\ UNCHANGED <<api, pc, cyc, status, masked>>
    BY <1>1 DEF ReclaimCell, Reclaiming, apiVars, portVars
  <2> QED BY <2>1 DEF PortInv, PortsOfTheAlive, PortsOfStatuses, PortOfTheEnded, PortOfTheCopy,
                      UnboundHasNoPort, Alive, HasStatus
<1> QED BY <1>1, HandlerPort, UnmaskEndedPort DEF Informer, HandlesEvent

(* The pod of a cycle has no port yet, nor has its status. *)
LEMMA NoPortYet ==
  ASSUME TypeOK, PortInv, NEW pod \in Pod,
         \/ pc \in Choosing /\ pod = cyc.pod
         \/ \E n \in Names : api[n] = pod /\ api[n] # NoPod /\ pod.name = n /\ ~ isBound(pod)
  PROVE  ~ InPool(pod.port) /\ ~ InPool(GetPodLabels(pod).port)
<1>1. ~ InPool(pod.port) /\ (HasStatus(pod) => ~ InPool(status[pod.name].port))
  BY DEF PortInv, UnboundHasNoPort
<1>2. ~ HasStatus(pod) => GetPodLabels(pod).port = 0
  BY DEF GetPodLabels
<1>3. HasStatus(pod) => GetPodLabels(pod) = status[pod.name]
  BY DEF GetPodLabels
<1> QED BY <1>1, <1>2, <1>3 DEF InPool, PodManagerPortStart

(* A step of a cycle that writes a status without a port. *)
LEMMA WritesNoPort ==
  ASSUME TypeOK, PortInv, LatestInApi, NEW pod \in Pod, InHand(pod), ~ InPool(pod.port),
         NEW ps \in PodStatus, ~ InPool(ps.port),
         status' = [status EXCEPT ![pod.name] = ps], UNCHANGED <<api, masked, hpc, ending>>,
         pc # "setuid",
         pc' \in Choosing => cyc'.pod = pod,
         pc' \in Replacing => ~ InPool(cyc'.copy.port)
  PROVE  PortInv'
<1>1. /\ pod.name \in Names /\ status'[pod.name] = ps
      /\ \A m \in Names : m # pod.name => status'[m] = status[m]
  BY DEF Pod, TypeOK
<1>2. PortsOfTheAlive'
  <2>1. \A m \in Names : Alive(m) => m # pod.name
    BY DEF Alive, InHand
  <2> QED BY <1>1, <2>1 DEF PortInv, PortsOfTheAlive, Alive
<1>3. PortsOfStatuses' /\ PortOfTheEnded'
  BY <1>1 DEF PortInv, PortsOfStatuses, PortOfTheEnded
<1>4. PortOfTheCopy'
  BY DEF PortOfTheCopy
<1>5. UnboundHasNoPort'
  <2>1. ASSUME NEW m \in Names, api[m] # NoPod, ~ isBound(api[m])
        PROVE  /\ ~ InPool(api[m].port)
               /\ status'[m] # NoStatus /\ status'[m].uid = api[m].uid => ~ InPool(status'[m].port)
    BY <1>1, <2>1 DEF PortInv, UnboundHasNoPort, HasStatus, LatestInApi
  <2>2. \A m \in Names : api[m] # NoPod => api[m].name = m
    BY DEF LatestInApi
  <2> QED BY <1>1, <2>1, <2>2 DEF UnboundHasNoPort, HasStatus
<1> QED BY <1>2, <1>3, <1>4, <1>5 DEF PortInv

(* Up to the choice of cells a cycle has a pod without a port in its hands. *)
LEMMA ChoosingPort ==
  ASSUME TypeOK, LifeInv, PortInv,
         \/ \E n \in Names : PreFilter(n)
         \/ FilterDecide \/ \E x \in Nodes : ReserveSelect(x)
  PROVE  PortInv'
<1>0. MemoryInv /\ LatestInApi
  BY LifeParts DEF LifeInv, OrderInv
<1>1. UNCHANGED <<api, masked, hpc, ending>> /\ pc # "setuid" /\ pc' \notin Replacing
  BY DEF PreFilter, FilterDecide, ReserveSelect, Panic, Replacing, apiVars, portVars,
         queueVars, endVars
<1>2. CASE \E n \in Names : PreFilter(n)
  <2>1. PICK n \in Names : PreFilter(n)
    BY <1>2
  <2>2. PICK pod \in Pod : pod = api[n]
    BY <2>1 DEF PreFilter, TypeOK
  <2>3. pod.name = n /\ pod.uid = born[n] /\ ~ isBound(pod) /\ api[n] # NoPod
    BY <1>0, <2>1, <2>2 DEF PreFilter, LatestInApi
  <2>4. InHand(pod)
    <3>1. ShadowsUpTo(n, born[n])
      BY PendingType, ByPending DEF LifeInv
    <3> QED BY <2>2, <2>3, <3>1, CycleNames DEF InHand
  <2>5. PICK ps \in PodStatus : ps = GetPodLabels(pod)
    BY LabelsUid
  <2>6. ~ InPool(pod.port) /\ ~ InPool(ps.port)
    BY <2>2, <2>3, <2>5, NoPortYet
  <2>7. status' = [status EXCEPT ![pod.name] = ps] /\ cyc'.pod = pod
    BY <2>1, <2>2, <2>3, <2>5 DEF PreFilter, IdleCycle
  <2> QED BY <1>0, <1>1, <2>4, <2>6, <2>7, WritesNoPort
<1>3. CASE FilterDecide \/ \E x \in Nodes : ReserveSelect(x)
  <2>1. pc \in Choosing
    BY <1>3 DEF FilterDecide, ReserveSelect, Choosing
  <2>2. PICK pod \in Pod : pod = cyc.pod /\ InHand(pod)
    BY <2>1, ChosenInHand
  <2>3. PICK old \in PodStatus : old = GetPodLabels(pod)
    BY LabelsUid
  <2>4. ~ InPool(pod.port) /\ ~ InPool(old.port)
    BY <2>1, <2>2, <2>3, NoPortYet
  <2>5. PICK ps \in PodStatus : status' = [status EXCEPT ![pod.name] = ps] /\ ~ InPool(ps.port)
    <3>1. CASE FilterDecide
      BY <2>2, <2>3, <2>4, <3>1 DEF FilterDecide
    <3>2. CASE \E x \in Nodes : ReserveSelect(x)
      <4>1. PICK x \in Nodes : ReserveSelect(x)
        BY <3>2
      <4> DEFINE labels == GetPodLabels(cyc.pod)
      <4>2. PICK cells \in CellChoices(x, labels) :
              status' = [status EXCEPT ![cyc.pod.name] = [labels EXCEPT !.cells = cells]]
        BY <4>1 DEF ReserveSelect
      <4>3. cells \in SUBSET Leaves /\ labels = old
        BY <2>2, <2>3 DEF CellChoices, LeavesOf
      <4> HIDE DEF labels
      <4>4. [old EXCEPT !.cells = cells] \in PodStatus
        BY <4>3 DEF PodStatus
      <4>5. [old EXCEPT !.cells = cells].port = old.port
        BY DEF PodStatus
      <4> QED BY <2>2, <2>4, <4>2, <4>3, <4>4, <4>5
    <3> QED BY <1>3, <3>1, <3>2
  <2>6. pc' \in Choosing => cyc'.pod = pod
    <3>1. cyc \in Cycle
      BY DEF TypeOK
    <3>2. CASE FilterDecide
      <4>1. pc' = "idle" \/ \E fit : cyc' = [cyc EXCEPT !.fit = fit]
        BY <3>2 DEF FilterDecide
      <4> QED BY <2>2, <3>1, <4>1 DEF Cycle, Choosing
    <3>3. CASE \E x \in Nodes : ReserveSelect(x)
      <4>1. pc' = "panicked" \/ \E x, multi : cyc' = [cyc EXCEPT !.node = x, !.multi = multi]
        BY <3>3 DEF ReserveSelect, Panic
      <4> QED BY <2>2, <3>1, <4>1 DEF Cycle, Choosing
    <3> QED BY <1>3, <3>2, <3>3
  <2> QED BY <1>0, <1>1, <2>2, <2>4, <2>5, <2>6, WritesNoPort
<1> QED BY <1>2, <1>3

(* The second lookup finds the same status, without a port. *)
LEMMA LookUpAgainPort ==
  ASSUME TypeOK, LifeInv, PortInv, LookUpAgain
  PROVE  PortInv'
<1>1. /\ pc = "assume" /\ pc' = "empty" /\ pc \in Choosing /\ cyc \in Cycle
      /\ cyc' = [cyc EXCEPT !.ps = status[cyc.pod.name], !.same = TRUE]
      /\ UNCHANGED <<api, masked, hpc, ending, status>>
  BY LookUpAgainFinds DEF Choosing, TypeOK, apiVars, queueVars, endVars, portVars
<1>2. /\ cyc.pod \in Pod /\ InHand(cyc.pod) /\ status[cyc.pod.name] \in PodStatus
      /\ HasStatus(cyc.pod) /\ LatestInApi
  BY <1>1, ChosenInHand DEF LifeInv, OrderInv
<1>3. ~ InPool(cyc.pod.port) /\ ~ InPool(status[cyc.pod.name].port)
  BY <1>1, <1>2 DEF PortInv, UnboundHasNoPort
<1>4. cyc'.pod = cyc.pod /\ status' = [status EXCEPT ![cyc.pod.name] = status[cyc.pod.name]]
  BY <1>1 DEF Cycle, TypeOK
<1> QED BY <1>1, <1>2, <1>3, <1>4, WritesNoPort DEF Replacing

(* A port drawn for a shared pod is free on its node, so no status has it. *)
LEMMA AssumeSharedPort ==
  ASSUME TypeOK, LifeInv, PortInv, AssumeSharedPod
  PROVE  PortInv'
<1>0. /\ LatestInApi /\ pc \in Choosing /\ pc = "empty" /\ UNCHANGED <<api, hpc, ending>>
      /\ cyc.node \in Nodes
  <2>1. pc = "empty" /\ UNCHANGED <<apiVars, queueVars>>
    BY AssumeAtOnce, Zenon DEF SharedAtOnce
  <2> QED BY <2>1 DEF LifeInv, OrderInv, Choosing, apiVars, queueVars, endVars, TypeOK
<1>1. PICK pod \in Pod : pod = cyc.pod /\ InHand(pod)
  BY <1>0, ChosenInHand
<1>2. ~ InPool(pod.port) /\ ~ InPool(cyc.ps.port)
  BY <1>0, <1>1, NoPortYet, ChosenInHand
<1>3. PICK ps \in PodStatus :
        /\ status' = [status EXCEPT ![pod.name] = ps] /\ ps.uid = 0
        /\ \/ /\ pc' = "panicked" /\ UNCHANGED <<cellVars, portVars>>
              /\ ps.port = cyc.ps.port
           \/ \E ii \in {-1} \cup ((0 .. PortBits - 1) \ masked[cyc.node]) :
                /\ ps.port = ii + PodManagerPortStart /\ ps.node = cyc.node
                /\ masked' = [masked EXCEPT ![cyc.node] = MaskedAfter(@, ii)]
                /\ pc' = "delete" /\ cyc'.pod = cyc.pod /\ cyc'.same = TRUE
                /\ cyc'.copy.port = ps.port /\ cyc'.copy.node = cyc.node
  BY <1>1, AssumeSharedEffect
<1>4. CASE pc' = "panicked"
  <2>1. ~ InPool(ps.port) /\ UNCHANGED masked
    BY <1>2, <1>3, <1>4 DEF portVars
  <2> QED BY <1>0, <1>1, <1>2, <1>3, <1>4, <2>1, WritesNoPort DEF Choosing, Replacing
<1>5. CASE pc' # "panicked"
  <2> DEFINE x == cyc.node
  <2>1. PICK ii \in {-1} \cup ((0 .. PortBits - 1) \ masked[x]) :
          /\ ps.port = ii + PodManagerPortStart /\ ps.node = x
          /\ masked' = [masked EXCEPT ![x] = MaskedAfter(@, ii)]
          /\ pc' = "delete" /\ cyc'.pod = cyc.pod /\ cyc'.same = TRUE
          /\ cyc'.copy.port = ps.port /\ cyc'.copy.node = x
    BY <1>3, <1>5
  <2>2. /\ pod.name \in Names /\ status'[pod.name] = ps
        /\ \A m \in Names : m # pod.name => status'[m] = status[m]
    BY <1>3 DEF Pod, TypeOK
  <2>3. \A m \in Names : api[m] # NoPod => api[m].name = m
    BY <1>0 DEF LatestInApi
  <2>4. PortsOfTheAlive'
    <3>1. \A m \in Names : Alive(m) => m # pod.name
      BY <1>1 DEF Alive, InHand
    <3> QED BY <1>0, <2>2, <3>1 DEF PortInv, PortsOfTheAlive, Alive
  <2>5. InPool(ps.port) => ii \in (0 .. PortBits - 1) \ masked[x]
    BY <2>1 DEF InPool, PodManagerPortStart
  <2>6. /\ \A y \in Nodes : masked[y] \subseteq masked'[y]
        /\ ii # -1 => ii \in masked'[x]
    BY <1>0, <2>1 DEF MaskedAfter, TypeOK
  <2>7. PortsOfStatuses'
    <3> SUFFICES ASSUME NEW m \in Names, status'[m] # NoStatus, InPool(status'[m].port)
                 PROVE  /\ status'[m].node \in Nodes
                        /\ status'[m].port - PodManagerPortStart \in masked'[status'[m].node]
                        /\ \A k \in Names \ {m} :
                             status'[k] # NoStatus /\ status'[k].node = status'[m].node
                               => status'[k].port # status'[m].port
      BY DEF PortsOfStatuses
    <3>1. ASSUME NEW k \in Names, k # pod.name, status[k] # NoStatus, InPool(status[k].port)
          PROVE  /\ status[k].node \in Nodes
                 /\ status[k].port - PodManagerPortStart \in masked[status[k].node]
                 /\ status[k].node = x => status[k].port # ps.port
      <4>1. /\ status[k].node \in Nodes
            /\ status[k].port - PodManagerPortStart \in masked[status[k].node]
        BY <3>1 DEF PortInv, PortsOfStatuses
      <4>2. ps.port - PodManagerPortStart = ii
        BY <2>1 DEF PodManagerPortStart
      <4>3. status[k].port = ps.port => InPool(ps.port)
        BY <3>1
      <4> QED BY <2>5, <4>1, <4>2, <4>3
    <3>2. CASE m = pod.name
      <4>1. status'[m] = ps /\ ps.node = x
        BY <2>1, <2>2, <3>2
      <4>2. ps.port - PodManagerPortStart = ii /\ ii # -1
        BY <2>1, <2>5, <4>1 DEF PodManagerPortStart
      <4>3. \A k \in Names \ {m} :
              status'[k] # NoStatus /\ status'[k].node = x => status'[k].port # ps.port
        BY <2>2, <3>1, <3>2, <4>1
      <4> QED BY <1>0, <2>6, <4>1, <4>2, <4>3
    <3>3. CASE m # pod.name
      <4>1. status'[m] = status[m]
        BY <2>2, <3>3
      <4>2. \A k \in Names \ {m} :
              status'[k] # NoStatus /\ status'[k].node = status[m].node
                => status'[k].port # status[m].port
        <5>1. \A k \in Names \ {m} :
                status[k] # NoStatus /\ status[k].node = status[m].node
                  => status[k].port # status[m].port
          BY <4>1 DEF PortInv, PortsOfStatuses
        <5> QED BY <2>1, <2>2, <3>1, <3>3, <4>1, <5>1
      <4> QED BY <2>6, <3>1, <3>3, <4>1, <4>2
    <3> QED BY <3>2, <3>3
  <2>8. PortOfTheCopy'
    BY <1>1, <2>1, <2>2 DEF PortOfTheCopy
  <2>10. PortOfTheEnded'
    <3>1. ps.port - PodManagerPortStart = ii
      BY <2>1 DEF PodManagerPortStart
    <3> QED BY <1>0, <2>1, <2>2, <2>5, <2>6, <3>1 DEF PortInv, PortOfTheEnded
  <2>9. UnboundHasNoPort'
    <3>1. \A m \in Names : api[m] # NoPod /\ ~ isBound(api[m]) =>
            /\ ~ InPool(api[m].port) /\ api[m].uid # 0
            /\ status[m] # NoStatus /\ status[m].uid = api[m].uid => ~ InPool(status[m].port)
      BY <2>3 DEF PortInv, UnboundHasNoPort, HasStatus, TypeOK, Pod
    <3>2. \A m \in Names : api[m] # NoPod /\ ~ isBound(api[m]) =>
            (status'[m] # NoStatus /\ status'[m].uid = api[m].uid => ~ InPool(status'[m].port))
      BY <1>3, <2>2, <3>1
    <3> QED BY <1>0, <2>1, <2>3, <3>1, <3>2 DEF UnboundHasNoPort, HasStatus, Choosing
  <2> QED BY <2>4, <2>7, <2>8, <2>9, <2>10 DEF PortInv
<1> QED BY <1>4, <1>5

(* A multi-GPU pod gets no port. *)
LEMMA AssumeMultiPort ==
  ASSUME TypeOK, LifeInv, PortInv, AssumeMultiPod
  PROVE  PortInv'
<1>0. LatestInApi /\ pc \in Choosing /\ pc = "empty" /\ UNCHANGED <<api, masked, hpc, ending>>
  BY DEF LifeInv, OrderInv, AssumeMultiPod, Choosing, apiVars, portVars, queueVars, endVars
<1>1. PICK pod \in Pod : pod = cyc.pod /\ InHand(pod)
  BY <1>0, ChosenInHand
<1>2. ~ InPool(pod.port) /\ ~ InPool(cyc.ps.port)
  BY <1>0, <1>1, NoPortYet, ChosenInHand
<1>3. PICK ps \in PodStatus :
        /\ status' = [status EXCEPT ![pod.name] = ps]
        /\ ps.port = cyc.ps.port
        /\ pc' \in {"take", "delete"} /\ cyc'.copy.port = pod.port
  BY <1>1, AssumeMultiEffect
<1> QED BY <1>0, <1>1, <1>2, <1>3, WritesNoPort DEF Choosing

(* The other steps of a cycle, up to the creation of the shadow pod. *)
LEMMA QuietPort ==
  ASSUME TypeOK, LifeInv, PortInv,
         \/ \E x \in Nodes, seen \in BOOLEAN : FilterAddNode(x, seen)
         \/ \E l \in Leaves : TakeCell(l)
         \/ ReserveDelete \/ ReserveCreateFails
  PROVE  PortInv'
<1>0. MemoryInv /\ LatestInApi /\ cyc \in Cycle
  BY LifeParts DEF LifeInv, OrderInv, TypeOK
<1>1. UNCHANGED <<status, masked, hpc, ending>> /\ pc # "setuid"
  <2>1. UNCHANGED <<status, portVars, endVars>> /\ pc # "setuid"
    BY DEF FilterAddNode, TakeCell, ReserveDelete, ReserveCreateFails, queueVars
  <2> QED BY <2>1 DEF portVars, endVars
<1>2. \A m \in Names : api'[m] = NoPod \/ api'[m] = api[m]
  BY CycleNames
     DEF FilterAddNode, TakeCell, ReserveDelete, ReserveCreateFails, apiVars, TypeOK, Replacing
<1>3. cyc'.pod = cyc.pod /\ cyc'.same = cyc.same
      /\ (pc' \in Choosing => pc \in Choosing)
      /\ (pc' \in Replacing => pc \in Replacing /\ cyc'.copy.port = cyc.copy.port
            /\ cyc'.copy.node = cyc.copy.node /\ (pc' = "take" => pc = "take"))
  <2>1. CASE \E x \in Nodes, seen \in BOOLEAN : FilterAddNode(x, seen)
    BY <1>0, <2>1 DEF FilterAddNode, Cycle, Choosing, Replacing
  <2>2. CASE \E l \in Leaves : TakeCell(l)
    <3>1. PICK l \in Leaves : TakeCell(l)
      BY <2>2
    <3> DEFINE copy == [cyc.copy EXCEPT !.memory = @ + freeMem[l]]
    <3>2. pc = "take" /\ pc' \in {"take", "delete"} /\ cyc.copy \in Pod
      BY <3>1 DEF TakeCell, TypeOK
    <3>3. /\ cyc' = [cyc EXCEPT !.left = @ \ {l}, !.copy = copy]
          /\ copy.node = cyc.copy.node /\ copy.port = cyc.copy.port
      BY <3>1, <3>2 DEF TakeCell, Pod
    <3> HIDE DEF copy
    <3>4. cyc'.pod = cyc.pod /\ cyc'.same = cyc.same /\ cyc'.copy = copy
      BY <1>0, <3>3 DEF Cycle
    <3> QED BY <3>2, <3>3, <3>4 DEF Choosing, Replacing
  <2>3. CASE ReserveDelete
    BY <2>3 DEF ReserveDelete, Choosing, Replacing
  <2>4. CASE ReserveCreateFails
    BY <1>0, <2>4 DEF ReserveCreateFails, Cycle, Choosing, Replacing
  <2> QED BY <2>1, <2>2, <2>3, <2>4
<1>4. PortsOfTheAlive'
  BY <1>1, <1>2 DEF PortInv, PortsOfTheAlive, Alive
<1>5. PortsOfStatuses' /\ PortOfTheEnded'
  BY <1>1 DEF PortInv, PortsOfStatuses, PortOfTheEnded
<1>6. PortOfTheCopy'
  <2>1. ASSUME pc' \in Replacing, InPool(cyc.copy.port)
        PROVE  /\ pc' # "take" /\ cyc.same
               /\ status[cyc.pod.name].port = cyc.copy.port
               /\ status[cyc.pod.name].node = cyc.copy.node
    BY <1>3, <2>1 DEF PortInv, PortOfTheCopy
  <2> QED BY <1>1, <1>3, <2>1 DEF PortOfTheCopy
<1>7. UnboundHasNoPort'
  <2>1. \A m \in Names : api'[m] # NoPod => api[m] # NoPod /\ api'[m] = api[m] /\ api[m].name = m
    BY <1>0, <1>2 DEF LatestInApi
  <2> QED BY <1>1, <1>3, <2>1 DEF PortInv, UnboundHasNoPort, HasStatus
<1> QED BY <1>4, <1>5, <1>6, <1>7 DEF PortInv

(* The shadow pod gets the port of a status that will have its uid. *)
LEMMA ReserveCreatePort ==
  ASSUME TypeOK, LifeInv, PortInv, ReserveCreate
  PROVE  PortInv'
<1> DEFINE n == cyc.pod.name
           shadow == [cyc.copy EXCEPT !.uid = born[n] + 1]
<1>0. MemoryInv /\ OrderInv /\ LatestInApi
  BY LifeParts DEF OrderInv
<1>1. /\ pc = "create" /\ pc' = "setuid" /\ n \in Names /\ born[n] \in Nat
      /\ UNCHANGED <<status, masked, hpc, ending>> /\ cyc \in Cycle
  BY CycleNames DEF ReserveCreate, Replacing, TypeOK, portVars, endVars
<1>2. cyc' = [cyc EXCEPT !.newUid = born[n] + 1] /\ api' = [api EXCEPT ![n] = shadow]
  BY DEF ReserveCreate
<1>3. /\ cyc.copy \in Pod /\ isBound(cyc.copy) /\ cyc.copy.name = n
      /\ status[n] # NoStatus /\ status[n].uid = 0
  BY <1>0, <1>1
     DEF MemoryInv, OrderInv, CopyOfThePod, KeptWhileReplaced, ShadowIsBound, Replacing, TypeOK
<1>4. /\ shadow.port = cyc.copy.port /\ shadow.node = cyc.copy.node /\ shadow.uid = born[n] + 1
      /\ shadow.name = n
  BY <1>3 DEF Pod
<1>5. cyc'.pod = cyc.pod /\ cyc'.newUid = born[n] + 1 /\ cyc'.same = cyc.same
  BY <1>1, <1>2 DEF Cycle
<1>6. api'[n] = shadow /\ \A m \in Names : m # n => api'[m] = api[m]
  BY <1>1, <1>2 DEF TypeOK
<1> HIDE DEF shadow
<1>7. PortsOfTheAlive'
  <2> SUFFICES ASSUME NEW m \in Names, Alive(m)', InPool(api'[m].port)
               PROVE  /\ status[m] # NoStatus
                      /\ status[m].port = api'[m].port /\ status[m].node = api'[m].node
                      /\ \/ status[m].uid = api'[m].uid
                         \/ pc' = "setuid" /\ cyc'.pod.name = m /\ cyc'.same
                            /\ cyc'.newUid = api'[m].uid
    BY <1>1 DEF PortsOfTheAlive
  <2>1. CASE m = n
    BY <1>1, <1>3, <1>4, <1>5, <1>6, <2>1 DEF PortInv, PortOfTheCopy, Replacing
  <2>2. CASE m # n
    BY <1>1, <1>6, <2>2 DEF PortInv, PortsOfTheAlive, Alive
  <2> QED BY <2>1, <2>2
<1>8. PortsOfStatuses' /\ PortOfTheEnded' /\ PortOfTheCopy'
  BY <1>1 DEF PortInv, PortsOfStatuses, PortOfTheEnded, PortOfTheCopy, Replacing
<1>9. UnboundHasNoPort'
  <2>1. isBound(api'[n])
    BY <1>3, <1>4, <1>6 DEF isBound
  <2>2. \A m \in Names : api[m] # NoPod => api[m].name = m
    BY <1>0 DEF LatestInApi
  <2> QED BY <1>1, <1>6, <2>1, <2>2 DEF PortInv, UnboundHasNoPort, HasStatus, Choosing
<1> QED BY <1>7, <1>8, <1>9 DEF PortInv
(* Assigning the uid of the shadow pod at last moves no port. *)
LEMMA ReserveSetUidPort ==
  ASSUME TypeOK, LifeInv, PortInv, ReserveSetUid
  PROVE  PortInv'
<1> DEFINE n == cyc.pod.name
<1>0. MemoryInv /\ LatestInApi
  BY LifeParts DEF LifeInv, OrderInv
<1>1. /\ pc = "setuid" /\ pc' = "idle" /\ n \in Names /\ cyc.newUid \in Nat
      /\ UNCHANGED <<api, masked, hpc, ending>>
  BY CycleNames DEF ReserveSetUid, apiVars, portVars, queueVars, endVars
<1>2. status[n] # NoStatus /\ status[n] \in PodStatus /\ status[n].uid = 0
  BY <1>0, <1>1, CycleNames DEF MemoryInv, KeptWhileReplaced
<1>3. /\ status'[n] # NoStatus
      /\ status'[n].port = status[n].port /\ status'[n].node = status[n].node
      /\ status'[n].uid = IF cyc.same THEN cyc.newUid ELSE 0
      /\ \A m \in Names : m # n => status'[m] = status[m]
  <2> DEFINE ps == [status[n] EXCEPT !.uid = cyc.newUid]
  <2>1. ps \in PodStatus
    BY <1>1, <1>2 DEF PodStatus
  <2>2. ps.uid = cyc.newUid /\ ps.port = status[n].port /\ ps.node = status[n].node
    BY <1>2 DEF PodStatus
  <2>3. status' = IF cyc.same THEN [status EXCEPT ![n] = ps] ELSE status
    BY <1>2 DEF ReserveSetUid
  <2> HIDE DEF ps
  <2> QED BY <1>1, <1>2, <2>1, <2>2, <2>3, AbsenceAssumption DEF TypeOK
<1> HIDE DEF n
<1>4. PortsOfTheAlive'
  <2> SUFFICES ASSUME NEW m \in Names, Alive(m), InPool(api[m].port)
               PROVE  /\ status'[m] # NoStatus
                      /\ status'[m].port = api[m].port /\ status'[m].node = api[m].node
                      /\ status'[m].uid = api[m].uid
    BY <1>1 DEF PortsOfTheAlive, Alive
  <2>1. /\ status[m] # NoStatus
        /\ status[m].port = api[m].port /\ status[m].node = api[m].node
        /\ \/ status[m].uid = api[m].uid
           \/ n = m /\ cyc.same /\ cyc.newUid = api[m].uid
    BY DEF PortInv, PortsOfTheAlive, n
  <2>2. api[m].uid # 0
    BY DEF Alive, TypeOK, Pod
  <2> QED BY <1>2, <1>3, <2>1, <2>2
<1>5. PortsOfStatuses' /\ PortOfTheEnded'
  <2>1. /\ \A m \in Names : status'[m] # NoStatus <=> status[m] # NoStatus
        /\ \A m \in Names : status'[m].port = status[m].port /\ status'[m].node = status[m].node
    BY <1>2, <1>3
  <2> QED BY <1>1, <2>1 DEF PortInv, PortsOfStatuses, PortOfTheEnded
<1>6. PortOfTheCopy'
  BY <1>1 DEF PortOfTheCopy, Replacing
<1>7. UnboundHasNoPort'
  <2>1. ASSUME NEW m \in Names, api[m] # NoPod, ~ isBound(api[m])
        PROVE  /\ ~ InPool(api[m].port)
               /\ status'[m] # NoStatus /\ status'[m].uid = api[m].uid => ~ InPool(status'[m].port)
    <3>1. /\ ~ InPool(api[m].port) /\ api[m].name = m /\ api[m].uid # 0
          /\ status[m] # NoStatus /\ status[m].uid = api[m].uid => ~ InPool(status[m].port)
      BY <1>0, <2>1 DEF PortInv, UnboundHasNoPort, HasStatus, LatestInApi, TypeOK, Pod
    <3>2. m = n => cyc.newUid # api[m].uid
      BY <1>0, <1>1, <2>1 DEF MemoryInv, ShadowIsBound, n
    <3> QED BY <1>3, <3>1, <3>2
  <2>2. \A m \in Names : api[m] # NoPod => api[m].name = m
    BY <1>0 DEF LatestInApi
  <2> QED BY <1>1, <2>1, <2>2 DEF UnboundHasNoPort, HasStatus, Choosing
<1> QED BY <1>4, <1>5, <1>6, <1>7 DEF PortInv

(* Every step of one life of the process keeps PortInv. *)
THEOREM PortStep == TypeOK /\ LifeInv /\ PortInv /\ [LifeNext]_vars => PortInv'
<1> SUFFICES ASSUME TypeOK, LifeInv, PortInv, [LifeNext]_vars PROVE PortInv'
  OBVIOUS
<1>1. CASE Environment
  BY <1>1, EnvironmentPort DEF Environment
<1>2. CASE Informer
  BY <1>2, InformerPort
<1>3. CASE \E n \in Names : PreFilter(n)
  BY <1>3, ChoosingPort
<1>4. CASE InCycle
  <2>1. ~ FilterBoundPod
    BY Zenon, NeverABoundPod
  <2>2. CASE FilterDecide \/ \E x \in Nodes : ReserveSelect(x)
    BY <2>2, ChoosingPort
  <2>3. CASE \/ \E x \in Nodes, seen \in BOOLEAN : FilterAddNode(x, seen)
             \/ \E l \in Leaves : TakeCell(l)
             \/ ReserveDelete \/ ReserveCreateFails
    BY <2>3, QuietPort
  <2> QED BY <1>4, <2>1, <2>2, <2>3, AssumeSharedPort, AssumeMultiPort,
             LookUpAgainPort, ReserveCreatePort, ReserveSetUidPort DEF InCycle
<1>5. CASE UNCHANGED vars
  BY <1>5
     DEF vars, apiVars, portVars, endVars, PortInv, PortsOfTheAlive, PortsOfStatuses,
         PortOfTheEnded, PortOfTheCopy, UnboundHasNoPort, Alive, HasStatus
<1> QED BY <1>1, <1>2, <1>3, <1>4, <1>5 DEF LifeNext

(* In one life of the process in which users leave a pod alone that a cycle  *)
(* has in hand, the port in an alive pod's annotation is that of its status, *)
(* masked on its node, and of no other status there.                         *)
THEOREM PortCorrect ==
  ASSUME OriginalsStay PROVE LifeSpec => []PortInv
  BY LifeCorrect, PortInit, PortStep, PTL DEF LifeSpec

(* Then two pods alive on a node never have the same pod manager port:       *)
(* deletePod unmasks the port of a status it took out before, and Reserve    *)
(* draws a port that no status has, nor the one deletePod is about to unmask. *)
THEOREM PortsStayExclusive ==
  ASSUME OriginalsStay PROVE LifeSpec => []PortsExclusive
<1>1. PortInv => PortsExclusive
  <2> SUFFICES ASSUME PortInv, NEW m \in Names, NEW n \in Names, m # n, Alive(m), Alive(n),
                      api[m].node = api[n].node, InPool(api[m].port), api[m].port = api[n].port
               PROVE  FALSE
    BY DEF PortsExclusive
  <2>1. /\ status[m] # NoStatus /\ status[n] # NoStatus
        /\ status[m].port = api[m].port /\ status[m].node = api[m].node
        /\ status[n].port = api[n].port /\ status[n].node = api[n].node
    BY DEF PortInv, PortsOfTheAlive
  <2> QED BY <2>1 DEF PortInv, PortsOfStatuses
<1> QED BY <1>1, PortCorrect, PTL
-----------------------------------------------------------------------------
(* A number of units for each of a number of leaves is a number. *)
LEMMA ProductNatural == \A m, n \in Nat : m * n \in Nat
  OBVIOUS

(* Each leaf begins with the whole of its share. *)
LEMMA ShareInit == Init => ShareInv
<1> SUFFICES ASSUME Init PROVE ShareInv
  OBVIOUS
<1>1. ASSUME NEW l \in Leaves PROVE avail[l] >= 0
  <2>1. LeavesUnder(l) \in SUBSET Leaves
    BY DEF LeavesUnder
  <2>2. Cardinality(LeavesUnder(l)) \in Nat
    BY <2>1, CountType
  <2>3. avail[l] = UNIT * Cardinality(LeavesUnder(l))
    BY TopologyAssumption DEF Init, Full
  <2>4. avail[l] \in Nat
    BY <2>2, <2>3, RequestAssumption, ProductNatural
  <2> QED BY <2>4
<1> QED BY <1>1 DEF Init, ShareInv, NeverNegative, ChosenStillFits, Placed

(* Reserving one leaf changes the share of no other. *)
LEMMA ReserveTakesOne ==
  ASSUME TypeOK, NEW l \in Leaves, NEW units \in Int, NEW memory \in Int,
         ReserveResource(l, units, memory), NEW k \in Leaves
  PROVE  avail'[k] = IF k = l THEN avail[k] - units ELSE avail[k]
<1>1. k \in Cells /\ (k \in Path[l] <=> k = l)
  BY TopologyAssumption
<1> QED BY <1>1 DEF ReserveResource

(* The informer thread gives back, and leaves the status of the pod in a      *)
(* cycle alone.                                                               *)
LEMMA InformerShare ==
  ASSUME TypeOK, LifeInv, ShareInv, Informer
  PROVE  ShareInv'
<1>1. CASE HandlesEvent
  <2>1. UNCHANGED <<pc, cyc, avail>>
    BY <1>1, HandlerEffect DEF cellVars
  <2>2. pc \in Placed => status'[cyc.pod.name] = status[cyc.pod.name]
    <3>1. pc \in Placed => pc \in Choosing /\ cyc.pod.name \in Names
      BY CycleNames DEF Placed, Choosing
    <3>2. \/ UNCHANGED status
          \/ \E n \in Names : /\ pc \in Choosing => cyc.pod.name # n
                              /\ status' = [status EXCEPT ![n] = NoStatus]
      BY <1>1, HandlerEffect
    <3> QED BY <3>1, <3>2 DEF TypeOK
  <2> QED BY <2>1, <2>2 DEF ShareInv, NeverNegative, ChosenStillFits
<1>2. CASE UnmaskEnded
  BY <1>2 DEF UnmaskEnded, cellVars, ShareInv, NeverNegative, ChosenStillFits
<1>3. ASSUME NEW l \in Leaves, ReclaimCell(l) PROVE ShareInv'
  <2>1. /\ ending \in PodStatus /\ UNCHANGED <<pc, cyc, status>>
        /\ \/ ReclaimResource(l, UNIT, FullMem)
           \/ ReclaimResource(l, ending.request, ending.memory)
    BY <1>3 DEF ReclaimCell, TypeOK
  <2>2. PICK units \in Nat, memory \in Int : ReserveResource(l, - units, - memory)
    <3>1. UNIT \in Nat /\ FullMem \in Int /\ ending.request \in Nat /\ ending.memory \in Int
      BY <2>1, RequestAssumption DEF PodStatus
    <3> QED BY <2>1, <3>1 DEF ReclaimResource
  <2>3. \A k \in Leaves : avail[k] \in Int /\ avail'[k] \in Int /\ avail'[k] >= avail[k]
    <3>1. - units \in Int /\ - memory \in Int
      OBVIOUS
    <3>2. ASSUME NEW k \in Leaves
          PROVE  avail[k] \in Int /\ avail'[k] \in Int /\ avail'[k] >= avail[k]
      <4>1. avail'[k] = IF k = l THEN avail[k] - (- units) ELSE avail[k]
        BY <2>2, <3>1, ReserveTakesOne
      <4>2. avail[k] \in Int
        BY TopologyAssumption DEF TypeOK
      <4> QED BY <4>1, <4>2
    <3> QED BY <3>2
  <2>4. NeverNegative'
    BY <2>3 DEF ShareInv, NeverNegative
  <2>5. ChosenStillFits'
    <3> SUFFICES ASSUME pc \in Placed, ~ cyc.multi, NEW k \in status[cyc.pod.name].cells
                 PROVE  avail'[k] >= status[cyc.pod.name].request
      BY <2>1 DEF ChosenStillFits
    <3>1. status[cyc.pod.name] \in PodStatus
      BY ChosenInHand DEF Placed, Choosing
    <3>2. k \in Leaves /\ avail[k] >= status[cyc.pod.name].request
          /\ status[cyc.pod.name].request \in Int
      BY <3>1 DEF ShareInv, ChosenStillFits, PodStatus
    <3> QED BY <2>3, <3>2
  <2> QED BY <2>4, <2>5 DEF ShareInv
<1> QED BY <1>1, <1>2, <1>3 DEF Informer, HandlesEvent

(* Reserve chooses a leaf whose share is at least the request. *)
LEMMA ReserveSelectShare ==
  ASSUME TypeOK, ShareInv, NEW x \in Nodes, ReserveSelect(x)
  PROVE  ShareInv'
<1>1. cyc.pod \in Pod /\ cyc \in Cycle /\ cyc.pod.name \in Names /\ UNCHANGED avail
  BY CycleNames DEF ReserveSelect, TypeOK, Choosing, cellVars
<1>2. PICK ps \in PodStatus : ps = GetPodLabels(cyc.pod)
  BY <1>1, StatusType
<1>3. PICK cells \in CellChoices(x, ps) :
        /\ status' = [status EXCEPT ![cyc.pod.name] = [ps EXCEPT !.cells = cells]]
        /\ \/ pc' = "panicked"
           \/ pc' = "assume" /\ cyc' = [cyc EXCEPT !.node = x, !.multi = MultiGPU(ps.request)]
  BY <1>2 DEF ReserveSelect, Panic
<1>4. CASE pc' = "panicked"
  BY <1>1, <1>4 DEF ShareInv, NeverNegative, ChosenStillFits, Placed
<1>5. CASE pc' # "panicked"
  <2> DEFINE new == [ps EXCEPT !.cells = cells]
  <2>1. cyc'.pod = cyc.pod /\ cyc'.multi = MultiGPU(ps.request)
    BY <1>1, <1>3, <1>5 DEF Cycle
  <2>2. new.cells = cells /\ new.request = ps.request
    BY DEF PodStatus
  <2>3. status'[cyc.pod.name] = new
    BY <1>1, <1>3 DEF TypeOK
  <2> HIDE DEF new
  <2>4. ~ MultiGPU(ps.request) => \A l \in cells : avail[l] >= ps.request
    BY DEF CellChoices, LeafFits
  <2>5. ~ cyc'.multi =>
          \A l \in status'[cyc'.pod.name].cells : avail'[l] >= status'[cyc'.pod.name].request
    BY <1>1, <2>1, <2>2, <2>3, <2>4
  <2> QED BY <1>1, <2>5 DEF ShareInv, NeverNegative, ChosenStillFits
<1> QED BY <1>4, <1>5

(* The second lookup finds the status with the leaf that was chosen. *)
LEMMA LookUpAgainShare ==
  ASSUME TypeOK, LifeInv, ShareInv, LookUpAgain
  PROVE  ShareInv'
<1>1. /\ pc \in Placed /\ cyc \in Cycle /\ UNCHANGED <<avail, status>>
      /\ cyc' = [cyc EXCEPT !.ps = status[cyc.pod.name], !.same = TRUE]
  BY LookUpAgainFinds DEF Placed, TypeOK, cellVars
<1>2. cyc'.pod = cyc.pod /\ cyc'.multi = cyc.multi
  BY <1>1 DEF Cycle
<1> QED BY <1>1, <1>2 DEF ShareInv, NeverNegative, ChosenStillFits

(* A shared pod takes its request from the leaf that was chosen for it. *)
LEMMA AssumeSharedShare ==
  ASSUME TypeOK, LifeInv, ShareInv, AssumeSharedPod
  PROVE  ShareInv'
<1> DEFINE ps     == cyc.ps
           memory == IF ps.memory = 0 THEN (ps.request * FullMem) \div UNIT ELSE ps.memory
<1>1. pc = "empty" /\ ~ cyc.multi /\ pc' \in {"panicked", "delete"}
  BY DEF AssumeSharedPod, Panic
<1>2. ps \in PodStatus /\ ps = status[cyc.pod.name]
  BY <1>1, ChosenInHand DEF Choosing
<1>3. memory \in Int
  BY <1>2, RequestAssumption, QuotientType DEF PodStatus
<1>4. \/ UNCHANGED avail
      \/ \E l \in ps.cells : ReserveResource(l, ps.request, memory)
  BY DEF AssumeSharedPod, cellVars
<1> HIDE DEF ps, memory
<1>5. NeverNegative'
  <2>1. CASE UNCHANGED avail
    BY <2>1 DEF ShareInv, NeverNegative
  <2>2. ASSUME NEW l \in ps.cells, ReserveResource(l, ps.request, memory)
        PROVE  NeverNegative'
    <3>1. l \in Leaves /\ ps.request \in Nat
      BY <1>2 DEF PodStatus
    <3>2. avail[l] >= ps.request
      BY <1>1, <1>2 DEF ShareInv, ChosenStillFits, Placed
    <3>3. ASSUME NEW k \in Leaves PROVE avail'[k] >= 0
      <4>1. avail'[k] = IF k = l THEN avail[k] - ps.request ELSE avail[k]
        BY <1>3, <2>2, <3>1, ReserveTakesOne
      <4>2. avail[k] >= 0 /\ avail[k] \in Int
        BY TopologyAssumption DEF ShareInv, NeverNegative, TypeOK
      <4> QED BY <3>1, <3>2, <4>1, <4>2
    <3> QED BY <3>3 DEF NeverNegative
  <2> QED BY <1>4, <2>1, <2>2
<1>6. ChosenStillFits'
  BY <1>1 DEF ChosenStillFits, Placed
<1> QED BY <1>5, <1>6 DEF ShareInv

(* A multi-GPU pod takes what is left of a leaf, and no more. *)
LEMMA TakeCellShare ==
  ASSUME TypeOK, ShareInv, NEW l \in Leaves, TakeCell(l)
  PROVE  ShareInv'
<1>1. l \in Cells /\ avail[l] \in Int /\ freeMem[l] \in Int
  BY TopologyAssumption DEF TypeOK
<1>2. pc' \notin Placed /\ ReserveResource(l, avail[l], freeMem[l])
  BY DEF TakeCell, Placed
<1>3. ASSUME NEW k \in Leaves PROVE avail'[k] >= 0
  <2>1. avail'[k] = IF k = l THEN avail[k] - avail[l] ELSE avail[k]
    BY <1>1, <1>2, ReserveTakesOne
  <2> QED BY <1>1, <2>1 DEF ShareInv, NeverNegative
<1> QED BY <1>2, <1>3 DEF ShareInv, NeverNegative, ChosenStillFits

(* No other step takes a share, or comes between the choice and its use. *)
LEMMA QuietShare ==
  ASSUME ShareInv, UNCHANGED avail,
         pc' \notin Placed \/ UNCHANGED <<pc, cyc, status>>
  PROVE  ShareInv'
  BY DEF ShareInv, NeverNegative, ChosenStillFits

(* Every step of one life of the process keeps ShareInv: only Reserve takes   *)
(* shares, of leaves that had them when it chose them.                       *)
THEOREM ShareStep == TypeOK /\ LifeInv /\ ShareInv /\ [LifeNext]_vars => ShareInv'
<1> SUFFICES ASSUME TypeOK, LifeInv, ShareInv, [LifeNext]_vars PROVE ShareInv'
  OBVIOUS
<1>1. CASE Environment
  BY <1>1, QuietShare DEF Environment, UserCreate, UserDelete, Finish, cellVars
<1>2. CASE Informer
  BY <1>2, InformerShare
<1>3. CASE \E n \in Names : PreFilter(n)
  BY <1>3, QuietShare DEF PreFilter, cellVars, Placed
<1>4. CASE InCycle
  <2>1. ~ FilterBoundPod
    BY Zenon, NeverABoundPod
  <2>2. CASE \E x \in Nodes, seen \in BOOLEAN : FilterAddNode(x, seen)
    BY <2>2, QuietShare DEF FilterAddNode, Placed
  <2>3. CASE FilterDecide
    BY <2>3, QuietShare DEF FilterDecide, cellVars, Placed
  <2>4. CASE AssumeMultiPod
    BY <2>4, QuietShare DEF AssumeMultiPod, cellVars, Placed
  <2>5. CASE ReserveDelete \/ ReserveCreate \/ ReserveCreateFails \/ ReserveSetUid
    BY <2>5, QuietShare
       DEF ReserveDelete, ReserveCreate, ReserveCreateFails, ReserveSetUid, cellVars, Placed
  <2> QED BY <1>4, <2>1, <2>2, <2>3, <2>4, <2>5, ReserveSelectShare, LookUpAgainShare,
             AssumeSharedShare, TakeCellShare DEF InCycle
<1>5. CASE UNCHANGED vars
  BY <1>5, QuietShare DEF vars, cellVars
<1> QED BY <1>1, <1>2, <1>3, <1>4, <1>5 DEF LifeNext

(* In one life of the process in which users leave a pod alone that a cycle  *)
(* has in hand, the leaf chosen for a shared pod still has the share when it *)
(* is reserved: the status Reserve chose it for is the one it is taken for,  *)
(* and deletePod only gives back.                                            *)
THEOREM ShareCorrect ==
  ASSUME OriginalsStay PROVE LifeSpec => []ShareInv
  BY LifeCorrect, ShareInit, ShareStep, PTL DEF LifeSpec

(* Then no leaf's remaining share is ever negative. *)
THEOREM ShareNeverNegative ==
  ASSUME OriginalsStay PROVE LifeSpec => []NeverNegative
<1>1. ShareInv => NeverNegative
  BY DEF ShareInv
<1> QED BY <1>1, ShareCorrect, PTL
-----------------------------------------------------------------------------
(* The amounts f of the cells add up: each node's cell has what its leaves have. *)
AddsUp(f) == \A x \in Nodes : f[NodeCell[x]] = Total(f, LeavesOf(x))

(* AggregatesAgree is that of what is available and of what memory is free. *)
LEMMA AggregatesAreTotals ==
  /\ AggregatesAgree <=> AddsUp(avail) /\ AddsUp(freeMem)
  /\ AggregatesAgree' <=> AddsUp(avail') /\ AddsUp(freeMem')
<1>1. AggregatesAgree <=> AddsUp(avail) /\ AddsUp(freeMem)
  BY Zenon DEF AggregatesAgree, AddsUp, Total, MapThenSumSet, MapThenFoldSet
<1>2. AggregatesAgree' <=> AddsUp(avail') /\ AddsUp(freeMem')
  BY Zenon DEF AggregatesAgree, AddsUp, Total, MapThenSumSet, MapThenFoldSet
<1> QED BY <1>1, <1>2

(* The leaves of a node are finitely many cells, and none is its node's cell. *)
LEMMA LeavesOfNode ==
  ASSUME NEW x \in Nodes
  PROVE  /\ LeavesOf(x) \in SUBSET Leaves /\ IsFiniteSet(LeavesOf(x))
         /\ LeavesOf(x) \subseteq Cells /\ NodeCell[x] \in Cells
         /\ LeavesUnder(NodeCell[x]) = LeavesOf(x)
<1>1. LeavesOf(x) \in SUBSET Leaves
  BY DEF LeavesOf
<1> QED BY <1>1, TopologyAssumption, FS_Subset

(* Amounts still add up when some leaves, with all the cells above them, are  *)
(* given or lose the same.                                                    *)
LEMMA ShiftAddsUp ==
  ASSUME NEW f \in [Cells -> Int], AddsUp(f), NEW A \in SUBSET Leaves, NEW u \in Int,
         NEW g, g = [c \in Cells |-> f[c] + u * Cardinality(A \cap LeavesUnder(c))]
  PROVE  AddsUp(g)
<1> SUFFICES ASSUME NEW x \in Nodes PROVE g[NodeCell[x]] = Total(g, LeavesOf(x))
  BY DEF AddsUp
<1> DEFINE S == LeavesOf(x)
           B == A \cap S
<1>1. S \in SUBSET Leaves /\ IsFiniteSet(S) /\ S \subseteq Cells /\ NodeCell[x] \in Cells
      /\ LeavesUnder(NodeCell[x]) = S /\ B \in SUBSET S
  BY LeavesOfNode
<1>2. ASSUME NEW l \in S
      PROVE  f[l] \in Int /\ g[l] = IF l \in B THEN f[l] + u ELSE f[l]
  <2>1. LeavesUnder(l) = {l} /\ l \in Cells
    BY <1>1, TopologyAssumption DEF LeavesUnder
  <2>2. A \cap LeavesUnder(l) = IF l \in B THEN {l} ELSE {}
    BY <2>1
  <2>3. Cardinality(A \cap LeavesUnder(l)) = IF l \in B THEN 1 ELSE 0
    BY <2>2, FS_Singleton, FS_EmptySet
  <2>4. f[l] \in Int /\ g[l] = f[l] + u * (IF l \in B THEN 1 ELSE 0)
    BY <2>1, <2>3
  <2> HIDE DEF B
  <2> QED BY <2>4
<1>3. Total(g, S) = Total(f, S) + u * Cardinality(B)
  <2>1. \A l \in S : f[l] \in Int /\ g[l] = IF l \in B THEN f[l] + u ELSE f[l]
    BY <1>2
  <2> HIDE DEF S, B
  <2> QED BY ONLY <1>1, <2>1, u \in Int, TotalShift
<1>4. g[NodeCell[x]] = f[NodeCell[x]] + u * Cardinality(B)
  BY <1>1
<1>5. f[NodeCell[x]] = Total(f, S)
  BY DEF AddsUp
<1> QED BY <1>3, <1>4, <1>5

(* Nothing adds up to nothing. *)
LEMMA NoneAddsUp == AddsUp([c \in Cells |-> 0])
<1> DEFINE z == [c \in Cells |-> 0]
<1> SUFFICES ASSUME NEW x \in Nodes PROVE z[NodeCell[x]] = Total(z, LeavesOf(x))
  BY DEF AddsUp
<1>1. \A l \in LeavesOf(x) : z[l] = 0
  BY LeavesOfNode
<1>2. z[NodeCell[x]] = 0
  BY LeavesOfNode
<1> HIDE DEF z
<1> QED BY <1>1, <1>2, LeavesOfNode, TotalZero

(* What every cell has when all the GPUs are free adds up. *)
LEMMA FullAddsUp == AddsUp(Full)
<1> DEFINE z == [c \in Cells |-> 0]
<1>1. AddsUp(z) /\ z \in [Cells -> Int] /\ Leaves \in SUBSET Leaves /\ UNIT \in Int
  BY NoneAddsUp, RequestAssumption
<1>2. Full = [c \in Cells |-> z[c] + UNIT * Cardinality(Leaves \cap LeavesUnder(c))]
  <2>1. ASSUME NEW c \in Cells
        PROVE  UNIT * Cardinality(LeavesUnder(c))
                 = z[c] + UNIT * Cardinality(Leaves \cap LeavesUnder(c))
    <3>1. Leaves \cap LeavesUnder(c) = LeavesUnder(c) /\ LeavesUnder(c) \in SUBSET Leaves
      BY DEF LeavesUnder
    <3>2. PICK k \in Nat : k = Cardinality(LeavesUnder(c))
      BY <3>1, CountType
    <3>3. PICK p \in Int : p = UNIT * k
      BY <1>1
    <3>4. UNIT * Cardinality(LeavesUnder(c)) = p
      BY <3>2, <3>3
    <3>5. UNIT * Cardinality(Leaves \cap LeavesUnder(c)) = p
      BY <3>1, <3>4
    <3>6. z[c] + p = p
      BY <3>3
    <3> QED BY ONLY <3>4, <3>5, <3>6
  <2> QED BY <2>1 DEF Full
<1> HIDE DEF z
<1> QED BY <1>1, <1>2, ShiftAddsUp

(* Reserving leaves keeps the sums, ... *)
LEMMA ReserveEachAddsUp ==
  ASSUME TypeOK, AggregatesAgree, NEW S \in SUBSET Leaves,
         NEW units \in Int, NEW memory \in Int, ReserveEach(S, units, memory)
  PROVE  AggregatesAgree'
<1> DEFINE count(c) == Cardinality(S \cap LeavesUnder(c))
<1>1. /\ avail' = [c \in Cells |-> avail[c] - units * count(c)]
      /\ freeMem' = [c \in Cells |-> freeMem[c] - memory * count(c)]
  BY DEF ReserveEach
<1>2. - units \in Int /\ - memory \in Int
  OBVIOUS
<1>3. avail \in [Cells -> Int] /\ freeMem \in [Cells -> Int]
  BY DEF TypeOK
<1>4. AddsUp(avail) /\ AddsUp(freeMem)
  BY AggregatesAreTotals
<1>5. ASSUME NEW c \in Cells
      PROVE  /\ avail[c] - units * count(c) = avail[c] + (- units) * count(c)
             /\ freeMem[c] - memory * count(c) = freeMem[c] + (- memory) * count(c)
  <2>1. S \cap LeavesUnder(c) \in SUBSET Leaves
    OBVIOUS
  <2>2. PICK k \in Nat : k = count(c)
    BY <2>1, CountType
  <2>3. avail[c] \in Int /\ freeMem[c] \in Int
    BY <1>3
  <2> HIDE DEF count
  <2> QED BY <2>2, <2>3
<1>6. /\ avail' = [c \in Cells |-> avail[c] + (- units) * count(c)]
      /\ freeMem' = [c \in Cells |-> freeMem[c] + (- memory) * count(c)]
  <2> HIDE DEF count
  <2> QED BY <1>1, <1>5
<1>7. AddsUp(avail') /\ AddsUp(freeMem')
  BY <1>2, <1>3, <1>4, <1>6, ShiftAddsUp
<1> QED BY <1>7, AggregatesAreTotals

(* ... and so does taking amounts of one leaf. *)
LEMMA ReserveResourceAddsUp ==
  ASSUME TypeOK, AggregatesAgree, NEW l \in Leaves, NEW units \in Int, NEW memory \in Int,
         ReserveResource(l, units, memory)
  PROVE  AggregatesAgree'
<1>1. ASSUME NEW c \in Cells
      PROVE  Cardinality({l} \cap LeavesUnder(c)) = IF c \in Path[l] THEN 1 ELSE 0
  <2>1. {l} \cap LeavesUnder(c) = IF c \in Path[l] THEN {l} ELSE {}
    BY DEF LeavesUnder
  <2> QED BY <2>1, FS_Singleton, FS_EmptySet
<1>2. ReserveEach({l}, units, memory)
  <2>1. ASSUME NEW c \in Cells
        PROVE  /\ (IF c \in Path[l] THEN avail[c] - units ELSE avail[c])
                    = avail[c] - units * Cardinality({l} \cap LeavesUnder(c))
               /\ (IF c \in Path[l] THEN freeMem[c] - memory ELSE freeMem[c])
                    = freeMem[c] - memory * Cardinality({l} \cap LeavesUnder(c))
    <3>1. avail[c] \in Int /\ freeMem[c] \in Int
      BY DEF TypeOK
    <3>2. CASE c \in Path[l]
      <4>1. Cardinality({l} \cap LeavesUnder(c)) = 1
        BY <1>1, <3>2
      <4> QED BY <3>1, <3>2, <4>1
    <3>3. CASE c \notin Path[l]
      <4>1. Cardinality({l} \cap LeavesUnder(c)) = 0
        BY <1>1, <3>3
      <4> QED BY <3>1, <3>3, <4>1
    <3> QED BY <3>2, <3>3
  <2> QED BY <2>1 DEF ReserveResource, ReserveEach
<1> QED BY <1>2, ReserveEachAddsUp

(* deletePod gives back whole leaves or shares of leaves, one by one. *)
LEMMA InformerAddsUp ==
  ASSUME TypeOK, AggregatesAgree, Informer PROVE AggregatesAgree'
<1>1. CASE HandleAdd \/ HandleUpdate \/ HandleDelete \/ UnmaskEnded
  <2>1. UNCHANGED cellVars
    BY <1>1, Zenon DEF HandleAdd, HandleUpdate, HandleDelete, UnmaskEnded
  <2> QED BY <2>1, AggregatesAreTotals DEF cellVars
<1>2. ASSUME NEW l \in Leaves, ReclaimCell(l) PROVE AggregatesAgree'
  <2>1. /\ ending \in PodStatus
        /\ \/ ReclaimResource(l, UNIT, FullMem)
           \/ ReclaimResource(l, ending.request, ending.memory)
    BY <1>2 DEF ReclaimCell, TypeOK
  <2>2. /\ - UNIT \in Int /\ - FullMem \in Int
        /\ - ending.request \in Int /\ - ending.memory \in Int
    BY <2>1, RequestAssumption DEF PodStatus
  <2>3. \E units, memory \in Int : ReserveResource(l, units, memory)
    BY <2>1, <2>2 DEF ReclaimResource
  <2> QED BY <2>3, ReserveResourceAddsUp
<1> QED BY <1>1, <1>2 DEF Informer

(* Filter's addNode gives the node's leaves their memory, and each cell above *)
(* them the sum.                                                             *)
LEMMA PassMemoryAddsUp ==
  ASSUME TypeOK, AggregatesAgree, NEW x \in Nodes, UNCHANGED avail,
         freeMem' = PassMemoryToParent(x)
  PROVE  AggregatesAgree'
<1>1. LeavesOf(x) \in SUBSET Leaves /\ FullMem \in Int /\ freeMem \in [Cells -> Int]
  BY LeavesOfNode, RequestAssumption DEF TypeOK
<1>2. freeMem' = [c \in Cells |->
                    freeMem[c] + FullMem * Cardinality(LeavesOf(x) \cap LeavesUnder(c))]
  BY DEF PassMemoryToParent
<1>3. AddsUp(avail) /\ AddsUp(freeMem)
  BY AggregatesAreTotals
<1>4. AddsUp(freeMem')
  BY <1>1, <1>2, <1>3, ShiftAddsUp
<1> QED BY <1>3, <1>4, AggregatesAreTotals

(* The accounts of a bound pod found in the queue are whole leaves or shares. *)
LEMMA FilterBoundPodAddsUp ==
  ASSUME TypeOK, AggregatesAgree, FilterBoundPod PROVE AggregatesAgree'
<1> DEFINE pod   == Head(boundQ[cyc.node])
           ps    == GetPodLabels(pod)
           found == {l \in pod.gpus : NodeOf[l] \in filled}
<1>1. pod \in Pod
  <2>1. cyc.node \in Nodes /\ boundQ[cyc.node] \in Seq(Pod) /\ boundQ[cyc.node] # <<>>
    BY DEF FilterBoundPod, TypeOK
  <2>2. PICK q \in Seq(Pod) : q = boundQ[cyc.node]
    BY <2>1
  <2>3. Head(q) \in Pod
    BY <2>1, <2>2, HeadTailProperties
  <2> QED BY <2>2, <2>3
<1>2. ps \in PodStatus
  BY <1>1, StatusType
<1>3. \/ UNCHANGED cellVars
      \/ ReserveEach(found, UNIT, FullMem)
      \/ ReserveEach(found, ps.request, pod.memory)
  BY DEF FilterBoundPod
<1>4. found \in SUBSET Leaves /\ pod.memory \in Int /\ ps.request \in Int
      /\ UNIT \in Int /\ FullMem \in Int
  BY <1>1, <1>2, RequestAssumption DEF Pod, PodStatus
<1> HIDE DEF pod, ps, found
<1>5. CASE UNCHANGED cellVars
  BY <1>5, AggregatesAreTotals DEF cellVars
<1> QED BY <1>3, <1>4, <1>5, ReserveEachAddsUp

(* Reserve takes a share of one leaf, ... *)
LEMMA AssumeSharedPodAddsUp ==
  ASSUME TypeOK, AggregatesAgree, AssumeSharedPod PROVE AggregatesAgree'
<1>1. CASE UNCHANGED cellVars
  BY <1>1, AggregatesAreTotals DEF cellVars
<1>2. CASE ~ UNCHANGED cellVars
  <2> DEFINE ps     == cyc.ps
             memory == IF ps.memory = 0 THEN (ps.request * FullMem) \div UNIT ELSE ps.memory
  <2>1. \E l \in ps.cells : ReserveResource(l, ps.request, memory)
    BY <1>2 DEF AssumeSharedPod
  <2>2. ps \in PodStatus
    BY DEF AssumeSharedPod, TypeOK
  <2>3. ps.cells \in SUBSET Leaves /\ ps.request \in Nat /\ ps.memory \in Int
    BY <2>2 DEF PodStatus
  <2> HIDE DEF ps
  <2>4. memory \in Int
    BY <2>3, QuotientType, RequestAssumption
  <2> HIDE DEF memory
  <2>5. PICK l \in ps.cells : ReserveResource(l, ps.request, memory)
    BY <2>1
  <2> QED BY <2>3, <2>4, <2>5, ReserveResourceAddsUp
<1> QED BY <1>1, <1>2

(* ... or all that is left of the next one. *)
LEMMA TakeCellAddsUp ==
  ASSUME TypeOK, AggregatesAgree, NEW l \in Leaves, TakeCell(l) PROVE AggregatesAgree'
<1>1. avail[l] \in Int /\ freeMem[l] \in Int
  BY TopologyAssumption DEF TypeOK
<1> QED BY <1>1, ReserveResourceAddsUp DEF TakeCell

(* Every step of a cycle. *)
LEMMA CycleAddsUp ==
  ASSUME TypeOK, AggregatesAgree, InCycle PROVE AggregatesAgree'
<1>1. CASE \E x \in Nodes, seen \in BOOLEAN : FilterAddNode(x, seen)
  <2>1. PICK x \in Nodes, seen \in BOOLEAN : FilterAddNode(x, seen)
    BY <1>1
  <2>2. UNCHANGED avail /\ (UNCHANGED freeMem \/ freeMem' = PassMemoryToParent(x))
    BY <2>1 DEF FilterAddNode, SetCellStatus
  <2>3. CASE UNCHANGED freeMem
    BY <2>2, <2>3, AggregatesAreTotals
  <2> QED BY <2>2, <2>3, PassMemoryAddsUp
<1>2. CASE \/ \E x \in Nodes : ReserveSelect(x)
           \/ FilterDecide \/ LookUpAgain \/ AssumeMultiPod
           \/ ReserveDelete \/ ReserveCreate \/ ReserveCreateFails \/ ReserveSetUid
  <2>1. UNCHANGED cellVars
    BY <1>2, Zenon DEF ReserveSelect, FilterDecide, LookUpAgain, AssumeMultiPod, ReserveDelete,
                       ReserveCreate, ReserveCreateFails, ReserveSetUid
  <2> QED BY <2>1, AggregatesAreTotals DEF cellVars
<1> QED BY <1>1, <1>2, FilterBoundPodAddsUp, AssumeSharedPodAddsUp, TakeCellAddsUp DEF InCycle

(* Every step, a restart of the process included. *)
THEOREM AggregatesStep == TypeOK /\ AggregatesAgree /\ [Next]_vars => AggregatesAgree'
<1> SUFFICES ASSUME TypeOK, AggregatesAgree, [Next]_vars PROVE AggregatesAgree'
  OBVIOUS
<1>1. CASE Environment \/ (\E n \in Names : PreFilter(n)) \/ UNCHANGED vars
  <2>1. UNCHANGED cellVars
    BY <1>1 DEF Environment, UserCreate, UserDelete, Finish, PreFilter, vars
  <2> QED BY <2>1, AggregatesAreTotals DEF cellVars
<1>2. CASE Restart
  <2>1. avail' = Full /\ freeMem' = [c \in Cells |-> 0]
    BY <1>2 DEF Restart
  <2> QED BY <2>1, FullAddsUp, NoneAddsUp, AggregatesAreTotals
<1> QED BY <1>1, <1>2, InformerAddsUp, CycleAddsUp DEF Next, LifeNext

(* The cell of a node always has the sum of what its GPUs have: the amounts   *)
(* Filter decides on for multi-GPU pods are those Reserve will find, at any   *)
(* moment and through restarts, for every topology.                           *)
THEOREM AggregatesAlwaysAgree == Spec => []AggregatesAgree
<1>1. Init => AggregatesAgree
  BY FullAddsUp, NoneAddsUp, AggregatesAreTotals DEF Init
<1> QED BY <1>1, AggregatesStep, TypeCorrect, PTL DEF Spec
================================================================================
