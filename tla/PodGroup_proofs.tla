---------------------------- MODULE PodGroup_proofs ----------------------------
(***************************************************************************)
(* Coscheduling keeps every pod in one place of the framework, and starts  *)
(* the pods of a group that need no GPU together, up to the pods Permit    *)
(* counts twice and those that are sent away while it is on its way.       *)
(***************************************************************************)
EXTENDS PodGroup, FiniteSetTheorems, SequenceTheorems, TLAPS

EventSet == Members \X {"original", "shadow"} \X {"add", "delete", "delete bound"}

(* What GroupTypeOK says of the map of groups. *)
InfosOK(infos) ==
  /\ infos \in [Groups -> Record \cup {NoRecord}]
  /\ \A g \in Groups : infos[g] # NoRecord => infos[g].key = g

(* The threshold of a group is a number of pods. *)
LEMMA MinAvailableType == ASSUME NEW p \in Members PROVE minAvailable(p) \in Nat
<1>1. \A h, t \in Nat : (2 * h * t + 10) \div 20 \in Nat
  <2> SUFFICES ASSUME NEW h \in Nat, NEW t \in Nat PROVE (2 * h * t + 10) \div 20 \in Nat
    OBVIOUS
  <2>1. PICK x \in Nat : x = 2 * h * t
    OBVIOUS
  <2> QED BY <2>1
<1>2. Label[p].headCount \in Nat /\ Label[p].threshold \in Nat
  BY GroupAssumption
<1> QED BY <1>1, <1>2 DEF minAvailable

(* What getOrCreatePodGroupInfo returns is a record, and the map stays one. *)
LEMMA InfosType ==
  ASSUME NEW infos, InfosOK(infos), NEW p \in Members, NEW ts \in Nat
  PROVE  Info(infos, p, ts) \in Record /\ InfosOK(getOrCreate(infos, p, ts))
<1>1. minAvailable(p) \in Nat /\ Key(p) \in Groups \cup {0} /\ Label[p].priority \in 0..100
  <2>1. Label[p].group \in Groups \cup {0} /\ Label[p].priority \in 0..100
    BY GroupAssumption
  <2>2. Key(p) \in Groups \cup {0}
    BY <2>1 DEF Key
  <2> QED BY <2>1, <2>2, MinAvailableType
<1>2. NewRecord(p, ts) \in Record /\ NewRecord(p, ts).key = Key(p)
  BY <1>1 DEF NewRecord, Record
<1>3. Info(infos, p, ts) \in Record /\ Info(infos, p, ts).key = Key(p)
  BY <1>1, <1>2 DEF Info, InfosOK
<1>4. InfosOK(getOrCreate(infos, p, ts))
  BY <1>1, <1>3 DEF getOrCreate, InfosOK
<1> QED BY <1>3, <1>4

(* What a comparison of the queue leaves is a map of groups too. *)
LEMMA ComparedType ==
  ASSUME GroupTypeOK, NEW p \in Members, NEW ts \in Nat, Compared(p, ts)
  PROVE  InfosOK(podGroupInfos')
<1>1. InfosOK(podGroupInfos)
  BY DEF GroupTypeOK, InfosOK
<1>2. CASE UNCHANGED podGroupInfos
  BY <1>1, <1>2 DEF InfosOK
<1>3. ASSUME NEW q \in queue,
             podGroupInfos' = getOrCreate(getOrCreate(podGroupInfos, p, ts), q, created[q])
      PROVE  InfosOK(podGroupInfos')
  <2>1. q \in Members /\ created[q] \in Nat
    BY DEF GroupTypeOK
  <2>2. InfosOK(getOrCreate(podGroupInfos, p, ts))
    BY <1>1, InfosType
  <2> QED BY <1>3, <2>1, <2>2, InfosType
<1> QED BY <1>2, <1>3 DEF Compared

(* A step that changes nothing of the pods, the groups and the cycle keeps    *)
(* their types.                                                               *)
LEMMA GroupTypeParts ==
  /\ GroupTypeOK =>
       InfosOK(podGroupInfos) /\ events \in Seq(EventSet) /\ now \in Nat
  /\ (/\ pod' \in [Members -> {"absent", "pending", "bound", "gone"}]
      /\ shadowed' \cup tracked' \subseteq {p \in Members : Label[p].needGPU}
      /\ InfosOK(podGroupInfos)'
      /\ now' \in Nat /\ created' \in [Members -> Nat]
      /\ queue' \subseteq Members /\ unschedulable' \subseteq Members
      /\ cycle' # NoCycle => \E p \in Members : cycle' \in CycleOf(p)
      /\ cache' \subseteq Pods /\ waiting' \subseteq Members /\ allowed' \subseteq Members
      /\ rejected' \subseteq Members /\ granted' \subseteq Members
      /\ away' \subseteq Members /\ missed' \subseteq Members
      /\ events' \in Seq(EventSet)
      /\ deletes' \in 0..MaxDeletes) => GroupTypeOK'
  BY DEF GroupTypeOK, InfosOK, EventSet

(* A pod of the cache is the original of a member or its shadow. *)
LEMMA PodsAre == \A p \in Members : <<p, "original">> \in Pods /\ <<p, "shadow">> \in Pods
  BY DEF Pods

(* Adding an event, and handling the first one. *)
LEMMA GroupEvents ==
  ASSUME NEW q \in Seq(EventSet)
  PROVE  /\ \A e \in EventSet :
              /\ Append(q, e) \in Seq(EventSet)
              /\ \A i \in DOMAIN Append(q, e) :
                   Append(q, e)[i] = e \/ (i \in DOMAIN q /\ Append(q, e)[i] = q[i])
         /\ q # <<>> =>
              /\ Tail(q) \in Seq(EventSet) /\ Head(q) \in EventSet
              /\ 1 \in DOMAIN q /\ Head(q) = q[1]
              /\ \A i \in DOMAIN Tail(q) : Tail(q)[i] = q[i + 1] /\ i + 1 \in DOMAIN q
<1>1. ASSUME NEW e \in EventSet
      PROVE  /\ Append(q, e) \in Seq(EventSet)
             /\ \A i \in DOMAIN Append(q, e) :
                  Append(q, e)[i] = e \/ (i \in DOMAIN q /\ Append(q, e)[i] = q[i])
  BY AppendProperties
<1>2. ASSUME q # <<>>
      PROVE  /\ Tail(q) \in Seq(EventSet) /\ Head(q) \in EventSet
             /\ 1 \in DOMAIN q /\ Head(q) = q[1]
             /\ \A i \in DOMAIN Tail(q) : Tail(q)[i] = q[i + 1] /\ i + 1 \in DOMAIN q
  BY <1>2, HeadTailProperties
<1> QED BY <1>1, <1>2

(* Unreserve keeps the types of what it changes. *)
LEMMA UnreserveType ==
  ASSUME GroupTypeOK, NEW p \in Members, NEW reject \in SUBSET Members, Unreserve(p, reject)
  PROVE  /\ cache' \subseteq Pods /\ InfosOK(podGroupInfos')
         /\ waiting' \subseteq Members /\ rejected' \subseteq Members
         /\ unschedulable' \subseteq Members /\ away' \subseteq Members
<1>1. InfosOK(podGroupInfos')
  BY GroupTypeParts, InfosType DEF Unreserve
<1>2. /\ cache' \subseteq Pods /\ waiting' \subseteq Members /\ rejected' \subseteq Members
      /\ unschedulable' \subseteq Members /\ away' \subseteq Members
  BY DEF Unreserve, SendAway, SetAside, Rejects, GroupTypeOK
<1> QED BY <1>1, <1>2

(* Users create and delete pods, and the queue is filled and popped. *)
LEMMA UsersType ==
  ASSUME GroupTypeOK, NEW p \in Members,
         UserCreate(p) \/ UserDelete(p) \/ Retry(p) \/ Pop(p) \/ Timeout(p)
  PROVE  GroupTypeOK'
<1>0. InfosOK(podGroupInfos) /\ events \in Seq(EventSet) /\ created \in [Members -> Nat]
      /\ now \in Nat
  BY GroupTypeParts DEF GroupTypeOK
<1>1. CASE UserCreate(p)
  <2>1. now' \in Nat /\ created' \in [Members -> Nat]
    BY <1>0, <1>1 DEF UserCreate
  <2>2. InfosOK(podGroupInfos')
    BY <1>1, <2>1, ComparedType DEF UserCreate
  <2> QED BY <1>1, <2>1, <2>2 DEF UserCreate, GroupTypeOK, InfosOK, waitVars, countVars
<1>2. CASE UserDelete(p)
  <2>1. PICK e \in EventSet : events' = Append(events, e)
    <3> DEFINE e == <<p, IF p \in shadowed THEN "shadow" ELSE "original",
                      IF pod[p] = "bound" THEN "delete bound" ELSE "delete">>
    <3>1. e \in EventSet
      BY DEF EventSet
    <3> QED BY <1>2, <3>1 DEF UserDelete
  <2>2. events' \in Seq(EventSet)
    BY <1>0, <2>1, GroupEvents
  <2>3. deletes' \in 0..MaxDeletes
    <3>1. deletes \in 0..MaxDeletes /\ deletes < MaxDeletes /\ deletes' = deletes + 1
      BY <1>2 DEF UserDelete, GroupTypeOK
    <3> QED BY ONLY <3>1, BoundsAssumption
  <2> QED BY <1>2, <2>2, <2>3
          DEF UserDelete, GroupTypeOK, queueVars, waitVars, countVars, EventSet
<1>3. CASE Retry(p)
  <2>1. InfosOK(podGroupInfos')
    BY <1>0, <1>3, ComparedType DEF Retry
  <2> QED BY <1>3, <2>1 DEF Retry, GroupTypeOK, InfosOK, apiVars, waitVars, countVars
<1>4. CASE Pop(p)
  <2>1. cache \in SUBSET Pods
    BY DEF GroupTypeOK
  <2>2. cycle' \in CycleOf(p)
    BY <1>4, <2>1 DEF Pop, CycleOf
  <2> QED BY <1>4, <2>2 DEF Pop, GroupTypeOK, apiVars, waitVars, countVars
<1>5. CASE Timeout(p)
  BY <1>5 DEF Timeout, SendAway, GroupTypeOK, apiVars, queueVars
<1> QED BY <1>1, <1>2, <1>3, <1>4, <1>5

(* The steps of a scheduling cycle. *)
LEMMA CycleType ==
  ASSUME GroupTypeOK, Cycle PROVE GroupTypeOK'
<1>0. InfosOK(podGroupInfos) /\ events \in Seq(EventSet) /\ created \in [Members -> Nat]
      /\ now \in Nat
  BY GroupTypeParts DEF GroupTypeOK
<1>1. cycle # NoCycle
  BY DEF Cycle, PreFilter, ReserveRegular, ReserveDelete, ReserveCreate, Permit
<1>2. PICK p \in Members : cycle \in CycleOf(p)
  BY <1>1 DEF GroupTypeOK
<1>3. cycle.pod = p /\ cycle.snapshot \in SUBSET Pods
  BY <1>2 DEF CycleOf
<1>4. \A s \in {"reserve", "recreate", "permit"} : [cycle EXCEPT !.step = s] \in CycleOf(p)
  BY <1>2 DEF CycleOf
<1>5. tracked \cup Tracks(p) \subseteq {q \in Members : Label[q].needGPU}
  BY DEF GroupTypeOK, Tracks
<1>6. CASE PreFilter
  <2>1. InfosOK(podGroupInfos')
    BY <1>0, <1>3, <1>6, InfosType DEF PreFilter
  <2>2. cycle' # NoCycle => cycle' \in CycleOf(p)
    BY <1>4, <1>6 DEF PreFilter
  <2>3. unschedulable' \subseteq Members
    BY <1>3, <1>6 DEF PreFilter, SetAside, GroupTypeOK
  <2>4. away' \subseteq Members
    BY <1>6 DEF PreFilter, GroupTypeOK
  <2> QED BY <1>3, <1>5, <1>6, <2>1, <2>2, <2>3, <2>4 DEF PreFilter, GroupTypeOK, InfosOK, waitVars
<1>7. CASE ReserveRegular
  <2>1. cache' \subseteq Pods
    BY <1>3, <1>7, PodsAre DEF ReserveRegular, GroupTypeOK
  <2>2. cycle' \in CycleOf(p)
    BY <1>4, <1>7 DEF ReserveRegular
  <2> QED BY <1>7, <2>1, <2>2 DEF ReserveRegular, GroupTypeOK, apiVars, queueVars, waitVars, countVars
<1>8. CASE ReserveDelete
  <2>1. events' \in Seq(EventSet)
    <3>1. <<p, "original", "delete">> \in EventSet
      BY DEF EventSet
    <3> QED BY <1>0, <1>3, <1>8, <3>1, GroupEvents DEF ReserveDelete
  <2>2. cycle' \in CycleOf(p)
    BY <1>4, <1>8 DEF ReserveDelete
  <2>3. shadowed' \cup tracked' \subseteq {q \in Members : Label[q].needGPU}
    BY <1>3, <1>5, <1>8 DEF ReserveDelete, GroupTypeOK
  <2>4. pod' \in [Members -> {"absent", "pending", "bound", "gone"}]
    BY <1>3, <1>8 DEF ReserveDelete, GroupTypeOK
  <2> QED BY <1>8, <2>1, <2>2, <2>3, <2>4
          DEF ReserveDelete, GroupTypeOK, EventSet, queueVars, waitVars, countVars
<1>9. CASE ReserveCreate
  <2>1. events' \in Seq(EventSet)
    <3>1. <<p, "shadow", "add">> \in EventSet
      BY DEF EventSet
    <3> QED BY <1>0, <1>3, <1>9, <3>1, GroupEvents DEF ReserveCreate
  <2>2. cycle' \in CycleOf(p)
    BY <1>4, <1>9 DEF ReserveCreate
  <2>3. cache' \subseteq Pods /\ granted' \subseteq Members
    BY <1>3, <1>9, PodsAre DEF ReserveCreate, GroupTypeOK
  <2>4. pod' \in [Members -> {"absent", "pending", "bound", "gone"}]
    BY <1>3, <1>9 DEF ReserveCreate, GroupTypeOK
  <2>5. missed' \subseteq Members
    BY <1>9 DEF ReserveCreate, GroupTypeOK
  <2> QED BY <1>9, <2>1, <2>2, <2>3, <2>4, <2>5
          DEF ReserveCreate, GroupTypeOK, EventSet, queueVars
<1>10. CASE Permit
  <2>1. InfosOK(podGroupInfos')
    BY <1>0, <1>3, <1>10, InfosType DEF Permit
  <2>2. waiting' \subseteq Members /\ allowed' \subseteq Members /\ granted' \subseteq Members
    BY <1>3, <1>10 DEF Permit, Released, GroupTypeOK
  <2>3. missed' \subseteq Members /\ away' \subseteq Members
    BY <1>10 DEF Permit, Missed, GroupTypeOK
  <2> QED BY <1>10, <2>1, <2>2, <2>3
          DEF Permit, GroupTypeOK, InfosOK, apiVars, queueVars
<1> QED BY <1>6, <1>7, <1>8, <1>9, <1>10 DEF Cycle

(* What follows Permit, and the handlers of the informer. *)
LEMMA AfterwardsType ==
  ASSUME GroupTypeOK, NEW p \in Members,
         Binding(p) \/ HandleAdd(p) \/ HandleDelete(p) \/ HandleDeleteBound(p)
  PROVE  GroupTypeOK'
<1>0. InfosOK(podGroupInfos) /\ events \in Seq(EventSet) /\ created \in [Members -> Nat]
      /\ now \in Nat /\ waiting \in SUBSET Members /\ rejected \in SUBSET Members
  BY GroupTypeParts DEF GroupTypeOK
<1>1. CASE Rejected(p)
  <2>1. Unreserve(p, rejected \ {p})
    BY <1>1 DEF Rejected
  <2>2. /\ cache' \subseteq Pods /\ InfosOK(podGroupInfos')
        /\ waiting' \subseteq Members /\ rejected' \subseteq Members
        /\ unschedulable' \subseteq Members /\ away' \subseteq Members
    BY <1>0, <2>1, UnreserveType
  <2> QED BY <1>1, <2>2 DEF Rejected, GroupTypeOK, InfosOK, apiVars
<1>2. CASE Bind(p)
  <2>1. pod' \in [Members -> {"absent", "pending", "bound", "gone"}]
    BY <1>2 DEF Bind, GroupTypeOK
  <2>2. CASE Unreserve(p, rejected)
    <3>1. /\ cache' \subseteq Pods /\ InfosOK(podGroupInfos')
          /\ waiting' \subseteq Members /\ rejected' \subseteq Members
          /\ unschedulable' \subseteq Members /\ away' \subseteq Members
      BY <1>0, <2>2, UnreserveType
    <3> QED BY <1>2, <2>1, <3>1 DEF Bind, GroupTypeOK, InfosOK
  <2>3. CASE UNCHANGED <<podGroupInfos, unschedulable, cache, waiting, rejected, away>>
    BY <1>2, <2>1, <2>3 DEF Bind, GroupTypeOK
  <2> QED BY <1>2, <2>2, <2>3 DEF Bind
<1>3. CASE HandleAdd(p)
  <2>1. events' \in Seq(EventSet)
    BY <1>0, <1>3, GroupEvents DEF HandleAdd, Event
  <2>2. InfosOK(podGroupInfos')
    BY <1>0, <1>3, InfosType DEF HandleAdd
  <2>3. cache' \subseteq Pods
    BY <1>3, PodsAre DEF HandleAdd, GroupTypeOK
  <2> QED BY <1>3, <2>1, <2>2, <2>3
          DEF HandleAdd, GroupTypeOK, InfosOK, EventSet, apiVars, queueVars, waitVars, countVars
<1>4. CASE HandleDelete(p) \/ HandleDeleteBound(p)
  <2>1. PICK which \in {"original", "shadow"} : Deleted(p, which) /\ events # <<>>
    BY <1>4 DEF HandleDelete, HandleDeleteBound, Event
  <2>2. events' \in Seq(EventSet)
    BY <1>0, <2>1, GroupEvents DEF Deleted
  <2>3. InfosOK(podGroupInfos') /\ tracked' \subseteq tracked
    BY <1>0, <2>1 DEF Deleted, Untracked, InfosOK
  <2>4. CASE HandleDelete(p)
    BY <2>2, <2>3, <2>4 DEF HandleDelete, SendAway, GroupTypeOK, InfosOK, EventSet
  <2>5. CASE HandleDeleteBound(p)
    BY <2>2, <2>3, <2>5
       DEF HandleDeleteBound, GroupTypeOK, InfosOK, EventSet, queueVars, waitVars, countVars
  <2> QED BY <1>4, <2>4, <2>5
<1> QED BY <1>1, <1>2, <1>3, <1>4 DEF Binding

(* Every step of coscheduling keeps the types. *)
LEMMA GroupTypeStep == GroupTypeOK /\ [Next]_vars => GroupTypeOK'
<1> SUFFICES ASSUME GroupTypeOK, [Next]_vars PROVE GroupTypeOK'
  OBVIOUS
<1>1. CASE UNCHANGED vars
  BY <1>1 DEF GroupTypeOK, vars, apiVars, queueVars, waitVars, countVars
<1> QED BY <1>1, UsersType, CycleType, AfterwardsType DEF Next, Users, Handlers

(* The records of groups and the cycle keep their shape, only pods that need  *)
(* a GPU have a status or a shadow, for any members, labels and groups.       *)
THEOREM GroupTypeCorrect == Spec => []GroupTypeOK
<1>1. Init => GroupTypeOK
  BY BoundsAssumption DEF Init, GroupTypeOK
<1> QED BY <1>1, GroupTypeStep, PTL DEF Spec
-----------------------------------------------------------------------------
(* The pod of the cycle, if there is one. *)
InHand == IF cycle = NoCycle THEN {} ELSE {cycle.pod}

(* OnePlace, said of the places: no two of them have a pod in common. *)
Apart ==
  /\ queue \cap (unschedulable \cup waiting \cup allowed \cup rejected \cup InHand) = {}
  /\ unschedulable \cap (waiting \cup allowed \cup rejected \cup InHand) = {}
  /\ waiting \cap (allowed \cup rejected \cup InHand) = {}
  /\ allowed \cap (rejected \cup InHand) = {}
  /\ rejected \cap InHand = {}

(* A pod that its user has not created yet is in none of them. *)
AbsentIsNowhere ==
  \A p \in Members : pod[p] = "absent" =>
    /\ p \notin queue \cup unschedulable \cup waiting \cup allowed \cup rejected \cup InHand
    /\ <<p, "original">> \notin cache

(* Only pods that left the queue, and passed Reserve, are in the cache. *)
UnassumedYet ==
  /\ \A p \in queue \cup unschedulable : <<p, "original">> \notin cache
  /\ cycle # NoCycle /\ cycle.step # "permit" => <<cycle.pod, "original">> \notin cache

FrameworkInv == Apart /\ AbsentIsNowhere /\ UnassumedYet

(* The pod of a cycle is a member, and stays in hand until the cycle ends. *)
LEMMA HandOfCycle ==
  ASSUME GroupTypeOK
  PROVE  /\ InHand \subseteq Members
         /\ cycle # NoCycle => InHand = {cycle.pod} /\ cycle.pod \in Members
         /\ cycle # NoCycle => \A s \in {"reserve", "recreate", "permit"} :
              LET next == [cycle EXCEPT !.step = s] IN
              /\ next # NoCycle /\ next.pod = cycle.pod /\ next.step = s
              /\ next.snapshot = cycle.snapshot
<1>1. CASE cycle = NoCycle
  BY <1>1 DEF InHand
<1>2. CASE cycle # NoCycle
  <2>1. PICK p \in Members : cycle \in CycleOf(p)
    BY <1>2 DEF GroupTypeOK
  <2>2. cycle.pod = p
    BY <2>1 DEF CycleOf
  <2>3. \A s \in {"reserve", "recreate", "permit"} :
          LET next == [cycle EXCEPT !.step = s] IN
          /\ next \in CycleOf(p) /\ next.pod = cycle.pod /\ next.step = s
          /\ next.snapshot = cycle.snapshot
    BY <2>1 DEF CycleOf
  <2> QED BY <1>2, <2>2, <2>3, AbsenceAssumption DEF InHand
<1> QED BY <1>1, <1>2

(* Users, the queue and timeouts. *)
LEMMA UsersPlace ==
  ASSUME GroupTypeOK, FrameworkInv, NEW p \in Members,
         UserCreate(p) \/ UserDelete(p) \/ Retry(p) \/ Pop(p) \/ Timeout(p)
  PROVE  FrameworkInv'
<1>1. CASE UserCreate(p)
  <2>1. /\ queue' = queue \cup {p} /\ pod[p] = "absent"
        /\ pod'[p] = "pending" /\ \A q \in Members : q # p => pod'[q] = pod[q]
        /\ UNCHANGED <<unschedulable, cycle, cache, waiting, allowed, rejected>>
    BY <1>1 DEF UserCreate, GroupTypeOK, waitVars
  <2>2. InHand' = InHand
    BY <2>1 DEF InHand
  <2>3. /\ p \notin unschedulable \cup waiting \cup allowed \cup rejected \cup InHand
        /\ <<p, "original">> \notin cache
    BY <2>1 DEF FrameworkInv, AbsentIsNowhere
  <2>4. Apart'
    BY <2>1, <2>2, <2>3 DEF FrameworkInv, Apart
  <2>5. AbsentIsNowhere'
    BY <2>1, <2>2, <2>3 DEF FrameworkInv, AbsentIsNowhere
  <2>6. UnassumedYet'
    BY <2>1, <2>3 DEF FrameworkInv, UnassumedYet
  <2> QED BY <2>4, <2>5, <2>6 DEF FrameworkInv
<1>2. CASE UserDelete(p)
  <2>1. /\ pod'[p] = "gone" /\ \A q \in Members : q # p => pod'[q] = pod[q]
        /\ UNCHANGED <<queue, unschedulable, cycle, cache, waiting, allowed, rejected>>
    BY <1>2 DEF UserDelete, GroupTypeOK, waitVars, queueVars
  <2> QED BY <2>1 DEF FrameworkInv, Apart, AbsentIsNowhere, UnassumedYet, InHand
<1>3. CASE Retry(p)
  <2>1. /\ p \in unschedulable /\ unschedulable' = unschedulable \ {p} /\ queue' = queue \cup {p}
        /\ UNCHANGED <<pod, cycle, cache, waiting, allowed, rejected>>
    BY <1>3 DEF Retry, waitVars, apiVars
  <2> QED BY <2>1 DEF FrameworkInv, Apart, AbsentIsNowhere, UnassumedYet, InHand
<1>4. CASE Pop(p)
  <2>1. /\ p \in queue /\ queue' = queue \ {p} /\ cycle = NoCycle
        /\ cycle' = [pod |-> p, step |-> "prefilter", snapshot |-> cache]
        /\ UNCHANGED <<pod, unschedulable, cache, waiting, allowed, rejected>>
    BY <1>4 DEF Pop, waitVars, apiVars
  <2>2. InHand = {} /\ InHand' = {p} /\ cycle'.pod = p
    <3>1. cycle' \in CycleOf(p)
      <4>1. cache \in SUBSET Pods
        BY DEF GroupTypeOK
      <4> QED BY <2>1, <4>1 DEF CycleOf
    <3>2. cycle' # NoCycle /\ cycle'.pod = p
      BY <2>1, <3>1, AbsenceAssumption
    <3> QED BY <2>1, <3>2 DEF InHand
  <2> QED BY <2>1, <2>2 DEF FrameworkInv, Apart, AbsentIsNowhere, UnassumedYet
<1>5. CASE Timeout(p)
  <2>1. /\ p \in waiting /\ waiting' = waiting \ {p} /\ rejected' = rejected \cup {p}
        /\ UNCHANGED <<pod, queue, unschedulable, cycle, cache, allowed>>
    BY <1>5 DEF Timeout, SendAway, queueVars, apiVars
  <2> QED BY <2>1 DEF FrameworkInv, Apart, AbsentIsNowhere, UnassumedYet, InHand
<1> QED BY <1>1, <1>2, <1>3, <1>4, <1>5

(* The cycle passes its pod on, or sets it aside. *)
LEMMA CyclePlace ==
  ASSUME GroupTypeOK, FrameworkInv, Cycle PROVE FrameworkInv'
<1>0. cycle # NoCycle
  BY DEF Cycle, PreFilter, ReserveRegular, ReserveDelete, ReserveCreate, Permit
<1>1. PICK p \in Members : p = cycle.pod /\ InHand = {p}
  BY <1>0, HandOfCycle
<1>2. pod[p] # "absent"
  BY <1>1 DEF FrameworkInv, AbsentIsNowhere
<1>3. \A s \in {"reserve", "recreate", "permit"} : cycle' = [cycle EXCEPT !.step = s] =>
        cycle' # NoCycle /\ cycle'.pod = p /\ cycle'.step = s /\ InHand' = {p}
  BY <1>0, <1>1, HandOfCycle DEF InHand
<1>4. cycle' = NoCycle => InHand' = {}
  BY DEF InHand
<1>5. CASE PreFilter
  <2>1. /\ <<p, "original">> \notin cache
        /\ UNCHANGED <<pod, queue, cache, waiting, allowed, rejected>>
    BY <1>1, <1>5 DEF PreFilter, waitVars, FrameworkInv, UnassumedYet
  <2>2. CASE UNCHANGED unschedulable /\ cycle' = [cycle EXCEPT !.step = "reserve"]
    BY <1>1, <1>3, <2>1, <2>2 DEF FrameworkInv, Apart, AbsentIsNowhere, UnassumedYet
  <2>3. CASE unschedulable' \subseteq unschedulable \cup {p} /\ cycle' = NoCycle
    BY <1>1, <1>2, <1>4, <2>1, <2>3 DEF FrameworkInv, Apart, AbsentIsNowhere, UnassumedYet
  <2> QED BY <1>1, <1>5, <2>2, <2>3 DEF PreFilter, SetAside
<1>6. CASE ReserveRegular
  <2>1. /\ cache' = cache \cup {<<p, "original">>}
        /\ UNCHANGED <<pod, queue, unschedulable, waiting, allowed, rejected>>
        /\ cycle' = [cycle EXCEPT !.step = "permit"]
    BY <1>1, <1>6 DEF ReserveRegular, apiVars, queueVars, waitVars
  <2> QED BY <1>1, <1>2, <1>3, <2>1 DEF FrameworkInv, Apart, AbsentIsNowhere, UnassumedYet
<1>7. CASE ReserveDelete
  <2>1. /\ UNCHANGED <<cache, queue, unschedulable, waiting, allowed, rejected>>
        /\ pod'[p] = "gone" /\ \A q \in Members : q # p => pod'[q] = pod[q]
        /\ cycle' = [cycle EXCEPT !.step = "recreate"] /\ cycle.step # "permit"
    BY <1>1, <1>7 DEF ReserveDelete, GroupTypeOK, queueVars, waitVars
  <2>2. /\ InHand' = InHand /\ cycle'.pod = p /\ <<p, "original">> \notin cache
    BY <1>0, <1>1, <1>3, <2>1 DEF FrameworkInv, UnassumedYet
  <2>3. Apart'
    BY <2>1, <2>2 DEF FrameworkInv, Apart
  <2>4. AbsentIsNowhere'
    BY <2>1, <2>2 DEF FrameworkInv, AbsentIsNowhere
  <2>5. UnassumedYet'
    BY <2>1, <2>2 DEF FrameworkInv, UnassumedYet
  <2> QED BY <2>3, <2>4, <2>5 DEF FrameworkInv
<1>8. CASE ReserveCreate
  <2>1. /\ cache' = cache \cup {<<p, "original">>}
        /\ UNCHANGED <<queue, unschedulable, waiting, allowed, rejected>>
        /\ pod'[p] = "bound" /\ \A q \in Members : q # p => pod'[q] = pod[q]
        /\ cycle' = [cycle EXCEPT !.step = "permit"]
    BY <1>1, <1>8 DEF ReserveCreate, GroupTypeOK, queueVars
  <2> QED BY <1>1, <1>2, <1>3, <2>1 DEF FrameworkInv, Apart, AbsentIsNowhere, UnassumedYet
<1>9. CASE Permit
  <2>1. /\ UNCHANGED <<pod, cache, queue, unschedulable, rejected>> /\ cycle' = NoCycle
        /\ \/ waiting' = waiting \cup {p} /\ UNCHANGED allowed
           \/ /\ waiting' = waiting \ Released(p) /\ allowed' = allowed \cup Released(p)
              /\ Released(p) \subseteq waiting \cup {p} /\ p \in Released(p)
    BY <1>1, <1>9 DEF Permit, Released, apiVars, queueVars
  <2> QED BY <1>1, <1>2, <1>4, <2>1 DEF FrameworkInv, Apart, AbsentIsNowhere, UnassumedYet
<1> QED BY <1>5, <1>6, <1>7, <1>8, <1>9 DEF Cycle

(* Unreserve forgets its pod, sets it aside, and rejects the waiting ones. *)
LEMMA UnreservePlace ==
  ASSUME GroupTypeOK, FrameworkInv, NEW p \in Members, NEW reject \in SUBSET rejected,
         Unreserve(p, reject), UNCHANGED <<queue, cycle>>,
         \A q \in Members : pod'[q] = "absent" => pod[q] = "absent",
         allowed' \subseteq allowed,
         \/ p \in rejected /\ reject = rejected \ {p}
         \/ p \in allowed /\ allowed' = allowed \ {p}
  PROVE  FrameworkInv'
<1>1. PICK R \in SUBSET waiting : waiting' = waiting \ R /\ rejected' = reject \cup R
  BY DEF Unreserve, SendAway, Rejects
<1>2. cache' = cache \ {<<p, "original">>} /\ unschedulable' \subseteq unschedulable \cup {p}
  BY DEF Unreserve, SetAside
<1>3. InHand' = InHand
  BY DEF InHand
<1>4. Apart'
  BY <1>1, <1>2, <1>3 DEF FrameworkInv, Apart
<1>5. AbsentIsNowhere'
  BY <1>1, <1>2, <1>3 DEF FrameworkInv, AbsentIsNowhere
<1>6. UnassumedYet'
  BY <1>1, <1>2 DEF FrameworkInv, UnassumedYet
<1> QED BY <1>4, <1>5, <1>6 DEF FrameworkInv

(* What follows Permit, and the handlers. *)
LEMMA AfterwardsPlace ==
  ASSUME GroupTypeOK, FrameworkInv, NEW p \in Members,
         Binding(p) \/ HandleAdd(p) \/ HandleDelete(p) \/ HandleDeleteBound(p)
  PROVE  FrameworkInv'
<1>1. CASE Rejected(p)
  <2>1. /\ Unreserve(p, rejected \ {p}) /\ p \in rejected
        /\ UNCHANGED <<pod, queue, cycle, allowed>>
    BY <1>1 DEF Rejected, apiVars
  <2> QED BY <2>1, UnreservePlace
<1>2. CASE Bind(p)
  <2>1. /\ p \in allowed /\ allowed' = allowed \ {p}
        /\ UNCHANGED <<queue, cycle>>
        /\ \A q \in Members : pod'[q] = "absent" => pod[q] = "absent"
    BY <1>2 DEF Bind, GroupTypeOK
  <2>2. CASE Unreserve(p, rejected)
    BY <2>1, <2>2, UnreservePlace
  <2>3. CASE UNCHANGED <<unschedulable, cache, waiting, rejected>>
    BY <2>1, <2>3 DEF FrameworkInv, Apart, AbsentIsNowhere, UnassumedYet, InHand
  <2> QED BY <1>2, <2>2, <2>3 DEF Bind
<1>3. CASE HandleAdd(p)
  <2>1. /\ cache' = cache \cup {<<p, "shadow">>}
        /\ UNCHANGED <<pod, queue, unschedulable, cycle, waiting, allowed, rejected>>
    BY <1>3 DEF HandleAdd, apiVars, queueVars, waitVars
  <2> QED BY <2>1 DEF FrameworkInv, Apart, AbsentIsNowhere, UnassumedYet, InHand
<1>4. CASE HandleDeleteBound(p)
  <2>1. /\ cache' \subseteq cache
        /\ UNCHANGED <<pod, queue, unschedulable, cycle, waiting, allowed, rejected>>
    BY <1>4 DEF HandleDeleteBound, queueVars, waitVars
  <2> QED BY <2>1 DEF FrameworkInv, Apart, AbsentIsNowhere, UnassumedYet, InHand
<1>5. CASE HandleDelete(p)
  <2>1. /\ queue' = queue \ {p} /\ unschedulable' = unschedulable \ {p}
        /\ waiting' = waiting \ {p} /\ rejected' = rejected \cup (waiting \cap {p})
        /\ UNCHANGED <<pod, cycle, cache, allowed>>
    BY <1>5 DEF HandleDelete, SendAway
  <2> QED BY <2>1 DEF FrameworkInv, Apart, AbsentIsNowhere, UnassumedYet, InHand
<1> QED BY <1>1, <1>2, <1>3, <1>4, <1>5 DEF Binding

(* No step puts a pod in a second place. *)
LEMMA FrameworkStep == GroupTypeOK /\ FrameworkInv /\ [Next]_vars => FrameworkInv'
<1> SUFFICES ASSUME GroupTypeOK, FrameworkInv, [Next]_vars PROVE FrameworkInv'
  OBVIOUS
<1>1. CASE UNCHANGED vars
  BY <1>1 DEF FrameworkInv, Apart, AbsentIsNowhere, UnassumedYet, InHand,
              vars, apiVars, queueVars, waitVars
<1> QED BY <1>1, UsersPlace, CyclePlace, AfterwardsPlace DEF Next, Users, Handlers

LEMMA FrameworkCorrect == Spec => [](GroupTypeOK /\ FrameworkInv)
<1>1. Init => FrameworkInv
  BY DEF Init, FrameworkInv, Apart, AbsentIsNowhere, UnassumedYet, InHand
<1> QED BY <1>1, FrameworkStep, GroupTypeCorrect, PTL DEF Spec

(* A pod is in one place of the framework, although the cycle, a goroutine of *)
(* each waiting pod and the informer move pods between these: nothing         *)
(* schedules a pod twice, whatever is deleted, times out or is rejected.      *)
THEOREM AlwaysOnePlace == Spec => []OnePlace
<1>1. GroupTypeOK /\ FrameworkInv => OnePlace
  <2> SUFFICES ASSUME FrameworkInv, NEW p \in Members
               PROVE  Cardinality({i \in 1..6 : p \in <<queue, unschedulable, waiting, allowed,
                        rejected, IF cycle = NoCycle THEN {} ELSE {cycle.pod}>>[i]}) <= 1
    BY DEF OnePlace
  <2> DEFINE places == <<queue, unschedulable, waiting, allowed, rejected,
                         IF cycle = NoCycle THEN {} ELSE {cycle.pod}>>
             S == {i \in 1..6 : p \in places[i]}
  <2>1. ASSUME NEW i \in S, NEW j \in S PROVE i = j
    <3>1. i \in 1..6 /\ j \in 1..6 /\ p \in places[i] /\ p \in places[j]
      OBVIOUS
    <3>2. \A k \in 1..6 : k = 1 \/ k = 2 \/ k = 3 \/ k = 4 \/ k = 5 \/ k = 6
      OBVIOUS
    <3>3. /\ places[1] = queue /\ places[2] = unschedulable /\ places[3] = waiting
          /\ places[4] = allowed /\ places[5] = rejected /\ places[6] = InHand
      BY DEF InHand
    <3> HIDE DEF places, S
    <3> QED BY <3>1, <3>2, <3>3 DEF FrameworkInv, Apart
  <2>2. Cardinality(S) <= 1
    <3> HIDE DEF S
    <3>1. CASE S = {}
      BY <3>1, FS_EmptySet
    <3>2. CASE S # {}
      <4>1. PICK i \in S : TRUE
        BY <3>2
      <4>2. S = {i}
        BY <2>1, <4>1
      <4>3. Cardinality(S) = 1
        BY <4>2, FS_Singleton
      <4> QED BY <4>3
    <3> QED BY <3>1, <3>2
  <2> QED BY <2>2
<1> QED BY <1>1, FrameworkCorrect, PTL
-----------------------------------------------------------------------------
(* Permit counts pods that start with the group.                             *)

(* The members of a group are labelled alike.  PreFilter sends away a pod     *)
(* whose minAvailable differs from the record's, but the record may be of a   *)
(* pod that has gone when Permit reads it.                                    *)
UniformGroups ==
  \A p, q \in Members : Label[p].group = Label[q].group => minAvailable(p) = minAvailable(q)

(* A pod that has a node starts, waits in Permit, is about to be sent away,   *)
(* or is about to enter Permit.                                               *)
AssumedKnown ==
  \A q \in Members : <<q, "original">> \in cache =>
    \/ q \in granted \cup waiting \cup rejected
    \/ cycle # NoCycle /\ cycle.step = "permit" /\ cycle.pod = q

(* A shadow pod is that of a member Reserve replaced and let start. *)
ShadowsStarted ==
  /\ \A q \in Members : <<q, "shadow">> \in cache => q \in granted \cap shadowed
  /\ \A i \in DOMAIN events :
       events[i][2] = "shadow" /\ events[i][3] = "add" => events[i][1] \in granted \cap shadowed
  /\ cycle # NoCycle /\ cycle.step = "recreate" => cycle.pod \in shadowed

(* What the cycle saw is still so, or the pod was sent away in the meantime. *)
SnapshotKnown ==
  cycle # NoCycle =>
    /\ <<cycle.pod, "original">> \notin cycle.snapshot
    /\ \A q \in Members :
         /\ <<q, "original">> \in cycle.snapshot => q \in granted \cup waiting \cup away
         /\ <<q, "shadow">> \in cycle.snapshot => q \in granted \cap shadowed

(* What RecordsAgree says of the map of groups. *)
Agreeing(infos) ==
  \A g \in Groups : infos[g] # NoRecord =>
    \A p \in InGroup(g) : infos[g].minAvailable = minAvailable(p)

(* The record of a group has the minAvailable of its members. *)
RecordsAgree == Agreeing(podGroupInfos)

GangInv == AssumedKnown /\ ShadowsStarted /\ SnapshotKnown /\ RecordsAgree /\ GangUpToMissed

(* A new entry of a group has the minAvailable of the pod it is made for.     *)
LEMMA AgreeingKept ==
  ASSUME UniformGroups, NEW infos, InfosOK(infos), Agreeing(infos),
         NEW p \in Members, NEW ts \in Nat
  PROVE  Info(infos, p, ts).minAvailable = minAvailable(p)
         /\ Agreeing(getOrCreate(infos, p, ts))
<1>1. CASE Key(p) = 0
  BY <1>1 DEF Info, NewRecord, getOrCreate
<1>2. CASE Key(p) # 0
  <2>1. Key(p) = Label[p].group /\ Key(p) \in Groups /\ p \in InGroup(Key(p))
    BY <1>2, GroupAssumption DEF Key, InGroup
  <2>2. Info(infos, p, ts).minAvailable = minAvailable(p)
    BY <1>2, <2>1 DEF Info, NewRecord, Agreeing
  <2>3. PICK r : r = Info(infos, p, ts)
    OBVIOUS
  <2>4. \A q \in InGroup(Key(p)) : minAvailable(q) = minAvailable(p)
    BY <2>1 DEF UniformGroups, InGroup
  <2>5. getOrCreate(infos, p, ts) = [infos EXCEPT ![Key(p)] = r]
    BY <1>2, <2>3 DEF getOrCreate
  <2>6. \A g \in Groups : getOrCreate(infos, p, ts)[g] = IF g = Key(p) THEN r ELSE infos[g]
    BY <2>5 DEF InfosOK
  <2> QED BY <2>2, <2>3, <2>4, <2>6 DEF Agreeing
<1> QED BY <1>1, <1>2

(* No step gives a group a record its members do not agree with. *)
LEMMA RecordsStep ==
  ASSUME UniformGroups, GroupTypeOK, RecordsAgree, [Next]_vars PROVE RecordsAgree'
<1>1. InfosOK(podGroupInfos) /\ Agreeing(podGroupInfos) /\ now \in Nat
      /\ created \in [Members -> Nat] /\ queue \subseteq Members
  BY GroupTypeParts DEF GroupTypeOK, RecordsAgree
<1>2. cycle # NoCycle => cycle.pod \in Members
  BY HandOfCycle
<1>3. SUFFICES Agreeing(podGroupInfos')
  BY DEF RecordsAgree, Agreeing
<1>4. ASSUME NEW p \in Members, NEW ts \in Nat, Compared(p, ts) PROVE Agreeing(podGroupInfos')
  <2>1. CASE UNCHANGED podGroupInfos
    BY <1>1, <2>1
  <2>2. ASSUME NEW q \in queue,
               podGroupInfos' = getOrCreate(getOrCreate(podGroupInfos, p, ts), q, created[q])
        PROVE  Agreeing(podGroupInfos')
    <3>1. q \in Members /\ created[q] \in Nat
      BY <1>1
    <3>2. PICK infos : infos = getOrCreate(podGroupInfos, p, ts)
      OBVIOUS
    <3>3. InfosOK(infos) /\ Agreeing(infos)
      BY <1>1, <3>2, InfosType, AgreeingKept
    <3> QED BY <2>2, <3>1, <3>2, <3>3, AgreeingKept
  <2> QED BY <1>4, <2>1, <2>2 DEF Compared
<1>5. ASSUME NEW p \in Members, podGroupInfos' = getOrCreate(podGroupInfos, p, now)
      PROVE  Agreeing(podGroupInfos')
  BY <1>1, <1>5, AgreeingKept
<1>6. CASE UNCHANGED podGroupInfos
  BY <1>1, <1>6
<1>7. ASSUME NEW p \in Members, UserCreate(p) \/ UserDelete(p) PROVE Agreeing(podGroupInfos')
  <2>1. now + 1 \in Nat
    BY <1>1
  <2> QED BY <1>4, <1>6, <1>7, <2>1 DEF UserCreate, UserDelete
<1>8. ASSUME Cycle PROVE Agreeing(podGroupInfos')
  BY <1>2, <1>5, <1>6, <1>8 DEF Cycle, PreFilter, ReserveRegular, ReserveDelete, ReserveCreate,
                                Permit
<1>9. ASSUME NEW p \in Members, HandleAdd(p) \/ HandleDelete(p) \/ HandleDeleteBound(p)
      PROVE  Agreeing(podGroupInfos')
  <2>1. CASE HandleAdd(p)
    BY <1>5, <1>6, <2>1 DEF HandleAdd
  <2>2. CASE \E which \in {"original", "shadow"} : Deleted(p, which)
    BY <1>1, <2>2 DEF Deleted, Agreeing, InfosOK
  <2> QED BY <1>9, <2>1, <2>2 DEF HandleDelete, HandleDeleteBound
<1>10. ASSUME NEW p \in Members, Retry(p) \/ Pop(p) \/ Timeout(p) \/ Binding(p)
       PROVE  Agreeing(podGroupInfos')
  <2>1. CASE Retry(p)
    <3>1. created[p] \in Nat
      BY <1>1
    <3> QED BY <1>4, <2>1, <3>1 DEF Retry
  <2>2. CASE Pop(p) \/ Timeout(p)
    BY <1>6, <2>2 DEF Pop, Timeout
  <2>3. CASE Binding(p)
    BY <1>5, <1>6, <2>3 DEF Binding, Rejected, Bind, Unreserve
  <2> QED BY <1>10, <2>1, <2>2, <2>3
<1>11. CASE UNCHANGED vars
  BY <1>6, <1>11 DEF vars
<1> QED BY <1>7, <1>8, <1>9, <1>10, <1>11 DEF Next, Users, Handlers

(* Reserve and Permit only ever add to the members that may start, or have a *)
(* shadow; whom Permit missed stays so until it starts.                       *)
LEMMA StartedStay ==
  ASSUME GroupTypeOK, [Next]_vars
  PROVE  /\ granted \subseteq granted' /\ shadowed \subseteq shadowed'
         /\ missed \subseteq missed' \cup granted'
<1>1. CASE Users \/ UNCHANGED vars
  BY <1>1 DEF Users, UserCreate, UserDelete, vars, apiVars, waitVars, countVars
<1>2. CASE Cycle
  <2>1. CASE PreFilter \/ ReserveRegular \/ ReserveDelete
    BY <2>1 DEF PreFilter, ReserveRegular, ReserveDelete, apiVars, waitVars, countVars
  <2>2. CASE ReserveCreate
    BY <2>2 DEF ReserveCreate
  <2>3. CASE Permit
    BY <2>3 DEF Permit, apiVars
  <2> QED BY <1>2, <2>1, <2>2, <2>3 DEF Cycle
<1>3. CASE Handlers
  BY <1>3 DEF Handlers, HandleAdd, HandleDelete, HandleDeleteBound, apiVars, waitVars, countVars
<1>4. ASSUME NEW p \in Members, Retry(p) \/ Pop(p) \/ Timeout(p) \/ Binding(p)
      PROVE  UNCHANGED <<granted, shadowed, missed>>
  BY <1>4 DEF Retry, Pop, Timeout, Binding, Rejected, Bind, apiVars, waitVars, countVars
<1> QED BY <1>1, <1>2, <1>3, <1>4 DEF Next

(* An original has a node before it starts, waits or enters Permit.           *)
LEMMA AssumedStep ==
  ASSUME GroupTypeOK, AssumedKnown, [Next]_vars PROVE AssumedKnown'
<1>0. granted \subseteq granted'
  BY StartedStay
<1>1. ASSUME UNCHANGED cycle,
             \A q \in Members : <<q, "original">> \in cache' =>
               /\ <<q, "original">> \in cache
               /\ q \in waiting \cup rejected => q \in waiting' \cup rejected'
      PROVE  AssumedKnown'
  BY <1>0, <1>1 DEF AssumedKnown
<1>2. ASSUME NEW p \in Members, \/ UserCreate(p) \/ UserDelete(p) \/ Retry(p) \/ Timeout(p)
                                \/ Binding(p) \/ HandleAdd(p) \/ HandleDelete(p)
                                \/ HandleDeleteBound(p)
      PROVE  AssumedKnown'
  <2>1. CASE UserCreate(p) \/ UserDelete(p) \/ Retry(p)
    BY <1>1, <2>1 DEF UserCreate, UserDelete, Retry, waitVars
  <2>2. CASE Timeout(p) \/ HandleDelete(p)
    BY <1>1, <2>2 DEF Timeout, HandleDelete, SendAway
  <2>3. CASE Binding(p)
    <3>1. CASE UNCHANGED <<cycle, cache, waiting, rejected>>
      BY <1>1, <3>1
    <3>2. CASE \E reject \in {rejected, rejected \ {p}} :
                 Unreserve(p, reject) /\ UNCHANGED cycle
      BY <1>1, <3>2 DEF Unreserve, SendAway, Rejects
    <3> QED BY <2>3, <3>1, <3>2 DEF Binding, Rejected, Bind
  <2>4. CASE HandleAdd(p) \/ HandleDeleteBound(p)
    <3>1. \A q \in Members : <<q, "original">> \in cache' => <<q, "original">> \in cache
      <4>1. cache' \subseteq cache \cup {<<p, "shadow">>}
        BY <2>4 DEF HandleAdd, HandleDeleteBound
      <4>2. \A q \in Members : <<q, "original">> # <<p, "shadow">>
        OBVIOUS
      <4> QED BY <4>1, <4>2
    <3>2. UNCHANGED <<cycle, waiting, rejected>>
      BY <2>4 DEF HandleAdd, HandleDeleteBound, waitVars
    <3> QED BY <1>1, <3>1, <3>2
  <2> QED BY <1>2, <2>1, <2>2, <2>3, <2>4
<1>3. ASSUME NEW p \in Members, Pop(p) PROVE AssumedKnown'
  BY <1>0, <1>3 DEF Pop, AssumedKnown, waitVars
<1>4. CASE Cycle
  <2>1. PICK p \in Members : p = cycle.pod /\ cycle # NoCycle
    BY <1>4, HandOfCycle
       DEF Cycle, PreFilter, ReserveRegular, ReserveDelete, ReserveCreate, Permit
  <2>2. CASE PreFilter \/ ReserveDelete
    <3>1. cache' = cache /\ waiting' = waiting /\ rejected' = rejected /\ cycle.step # "permit"
      BY <2>2 DEF PreFilter, ReserveDelete, waitVars
    <3> QED BY <1>0, <3>1 DEF AssumedKnown
  <2>3. CASE ReserveRegular \/ ReserveCreate
    <3>1. /\ cache' = cache \cup {<<p, "original">>} /\ cycle.step # "permit"
          /\ waiting' = waiting /\ rejected' = rejected
          /\ cycle' = [cycle EXCEPT !.step = "permit"]
      BY <2>1, <2>3 DEF ReserveRegular, ReserveCreate, waitVars
    <3>2. cycle' # NoCycle /\ cycle'.step = "permit" /\ cycle'.pod = p
      BY <2>1, <3>1, HandOfCycle
    <3> QED BY <1>0, <2>1, <3>1, <3>2 DEF AssumedKnown
  <2>4. CASE Permit
    <3>1. cache' = cache /\ rejected' = rejected /\ waiting \cup {p} \subseteq waiting' \cup granted'
      BY <2>1, <2>4 DEF Permit, Released
    <3> QED BY <1>0, <2>1, <3>1 DEF AssumedKnown
  <2> QED BY <1>4, <2>2, <2>3, <2>4 DEF Cycle
<1>5. CASE UNCHANGED vars
  BY <1>1, <1>5 DEF vars, waitVars
<1> QED BY <1>2, <1>3, <1>4, <1>5 DEF Next, Users, Handlers

(* What the informer tells of shadow pods is true when it comes.              *)
LEMMA ShadowsStep ==
  ASSUME GroupTypeOK, ShadowsStarted, [Next]_vars PROVE ShadowsStarted'
<1>0. granted \subseteq granted' /\ shadowed \subseteq shadowed' /\ events \in Seq(EventSet)
  BY StartedStay, GroupTypeParts
<1>1. CASE UNCHANGED events /\ (\A q \in Members : <<q, "shadow">> \in cache' => <<q, "shadow">> \in cache)
           /\ (cycle' # NoCycle /\ cycle'.step = "recreate" => cycle' = cycle)
  BY <1>0, <1>1 DEF ShadowsStarted
<1>2. ASSUME NEW e \in EventSet, events' = Append(events, e),
             e[2] = "shadow" /\ e[3] = "add" => e[1] \in granted' \cap shadowed',
             \A q \in Members : <<q, "shadow">> \in cache' => <<q, "shadow">> \in cache,
             cycle' # NoCycle /\ cycle'.step = "recreate" => cycle' = cycle \/ cycle'.pod \in shadowed'
      PROVE  ShadowsStarted'
  <2>1. \A i \in DOMAIN events' : events'[i] = e \/ (i \in DOMAIN events /\ events'[i] = events[i])
    BY <1>0, <1>2, GroupEvents
  <2> QED BY <1>0, <1>2, <2>1 DEF ShadowsStarted
<1>3. ASSUME events # <<>>, events' = Tail(events), UNCHANGED cycle,
             \A q \in Members : <<q, "shadow">> \in cache' =>
               <<q, "shadow">> \in cache \/ Head(events) = <<q, "shadow", "add">>
      PROVE  ShadowsStarted'
  <2>1. /\ 1 \in DOMAIN events /\ Head(events) = events[1]
        /\ \A i \in DOMAIN events' : events'[i] = events[i + 1] /\ i + 1 \in DOMAIN events
    BY <1>0, <1>3, GroupEvents
  <2> QED BY <1>0, <1>3, <2>1 DEF ShadowsStarted
<1>4. ASSUME NEW p \in Members, \/ UserCreate(p) \/ Retry(p) \/ Pop(p) \/ Timeout(p)
                                \/ Binding(p)
      PROVE  ShadowsStarted'
  <2>1. CASE UserCreate(p) \/ Retry(p) \/ Timeout(p)
    BY <1>1, <2>1 DEF UserCreate, Retry, Timeout
  <2>2. CASE Pop(p)
    <3>1. cycle'.step # "recreate"
      BY <2>2 DEF Pop
    <3> QED BY <1>1, <2>2, <3>1 DEF Pop
  <2>3. CASE Binding(p)
    BY <1>1, <2>3 DEF Binding, Rejected, Bind, Unreserve
  <2> QED BY <1>4, <2>1, <2>2, <2>3
<1>5. ASSUME NEW p \in Members, UserDelete(p) PROVE ShadowsStarted'
  <2>1. PICK event \in EventSet : events' = Append(events, event) /\ event[3] # "add"
    <3> DEFINE it == <<p, IF p \in shadowed THEN "shadow" ELSE "original",
                       IF pod[p] = "bound" THEN "delete bound" ELSE "delete">>
    <3>1. it \in EventSet /\ it[3] # "add"
      BY DEF EventSet
    <3>2. events' = Append(events, it)
      BY <1>5 DEF UserDelete
    <3> HIDE DEF it
    <3> QED BY <3>1, <3>2
  <2>2. UNCHANGED <<cycle, cache>>
    BY <1>5 DEF UserDelete
  <2>3. \A i \in DOMAIN events' :
          events'[i] = event \/ (i \in DOMAIN events /\ events'[i] = events[i])
    BY <1>0, <2>1, GroupEvents
  <2>4. \A i \in DOMAIN events' :
          events'[i][2] = "shadow" /\ events'[i][3] = "add" => events'[i][1] \in granted \cap shadowed
    BY <2>1, <2>3 DEF ShadowsStarted
  <2> QED BY <1>0, <2>2, <2>4 DEF ShadowsStarted
<1>6. ASSUME NEW p \in Members, HandleAdd(p) \/ HandleDelete(p) \/ HandleDeleteBound(p)
      PROVE  ShadowsStarted'
  <2>1. events # <<>> /\ events' = Tail(events) /\ UNCHANGED cycle
    BY <1>6 DEF HandleAdd, HandleDelete, HandleDeleteBound, Deleted, Event
  <2>2. cache' \subseteq cache \/ (cache' = cache \cup {<<p, "shadow">>}
                                 /\ Head(events) = <<p, "shadow", "add">>)
    BY <1>6 DEF HandleAdd, HandleDelete, HandleDeleteBound, Event
  <2> QED BY <1>3, <2>1, <2>2
<1>7. CASE Cycle
  <2>1. PICK p \in Members : p = cycle.pod /\ cycle # NoCycle
    BY <1>7, HandOfCycle
       DEF Cycle, PreFilter, ReserveRegular, ReserveDelete, ReserveCreate, Permit
  <2>2. \A s \in {"reserve", "recreate", "permit"} : cycle' = [cycle EXCEPT !.step = s] =>
          cycle' # NoCycle /\ cycle'.pod = p /\ cycle'.step = s
    BY <2>1, HandOfCycle
  <2>3. CASE PreFilter \/ ReserveRegular \/ Permit
    <3>1. /\ cycle' = NoCycle \/ cycle'.step # "recreate"
          /\ UNCHANGED events
      BY <2>2, <2>3 DEF PreFilter, ReserveRegular, Permit
    <3>2. \A q \in Members : <<q, "shadow">> \in cache' => <<q, "shadow">> \in cache
      BY <2>3 DEF PreFilter, ReserveRegular, Permit
    <3> QED BY <1>1, <3>1, <3>2
  <2>4. CASE ReserveDelete
    <3>1. cycle'.pod = p /\ p \in shadowed' /\ UNCHANGED cache
      BY <2>1, <2>2, <2>4 DEF ReserveDelete
    <3>2. CASE UNCHANGED events
      BY <1>0, <3>1, <3>2 DEF ShadowsStarted
    <3>3. CASE events' = Append(events, <<p, "original", "delete">>)
      <4>1. <<p, "original", "delete">> \in EventSet
        BY DEF EventSet
      <4> QED BY <1>2, <3>1, <3>3, <4>1
    <3> QED BY <2>1, <2>4, <3>2, <3>3 DEF ReserveDelete
  <2>5. CASE ReserveCreate
    <3>1. <<p, "shadow", "add">> \in EventSet
      BY DEF EventSet
    <3>2. p \in granted' \cap shadowed' /\ cycle'.step = "permit"
      BY <2>1, <2>2, <2>5 DEF ReserveCreate, ShadowsStarted
    <3>3. events' = Append(events, <<p, "shadow", "add">>)
      BY <2>1, <2>5 DEF ReserveCreate
    <3>4. \A q \in Members : <<q, "shadow">> \in cache' => <<q, "shadow">> \in cache
      BY <2>5 DEF ReserveCreate
    <3> QED BY <1>2, <3>1, <3>2, <3>3, <3>4
  <2> QED BY <1>7, <2>3, <2>4, <2>5 DEF Cycle
<1>8. CASE UNCHANGED vars
  BY <1>1, <1>8 DEF vars
<1> QED BY <1>4, <1>5, <1>6, <1>7, <1>8 DEF Next, Users, Handlers

(* Whom a cycle counts is noted when it is sent away before its Permit.       *)
LEMMA SnapshotStep ==
  ASSUME GroupTypeOK, FrameworkInv, AssumedKnown, ShadowsStarted, SnapshotKnown, [Next]_vars
  PROVE  SnapshotKnown'
<1>0. granted \subseteq granted' /\ shadowed \subseteq shadowed'
  BY StartedStay
<1>1. CASE UNCHANGED cycle /\ (cycle # NoCycle => waiting \cup away \subseteq waiting' \cup away')
  BY <1>0, <1>1 DEF SnapshotKnown
<1>2. ASSUME NEW p \in Members, \/ UserCreate(p) \/ UserDelete(p) \/ Retry(p) \/ Timeout(p)
                                \/ Binding(p) \/ HandleAdd(p) \/ HandleDelete(p)
                                \/ HandleDeleteBound(p)
      PROVE  SnapshotKnown'
  <2>1. CASE \/ UserCreate(p) \/ UserDelete(p) \/ Retry(p)
             \/ HandleAdd(p) \/ HandleDeleteBound(p)
    BY <1>1, <2>1
       DEF UserCreate, UserDelete, Retry, HandleAdd, HandleDeleteBound, waitVars, countVars
  <2>2. ASSUME NEW pods, SendAway(pods), UNCHANGED cycle PROVE SnapshotKnown'
    BY <1>1, <2>2 DEF SendAway
  <2>3. CASE Timeout(p) \/ HandleDelete(p)
    BY <2>2, <2>3 DEF Timeout, HandleDelete
  <2>4. CASE Binding(p)
    BY <1>1, <2>2, <2>4 DEF Binding, Rejected, Bind, Unreserve
  <2> QED BY <1>2, <2>1, <2>3, <2>4
<1>3. ASSUME NEW p \in Members, Pop(p) PROVE SnapshotKnown'
  <2>1. cycle'.pod = p /\ cycle'.snapshot = cache /\ away' = rejected
    BY <1>3 DEF Pop
  <2>2. cycle = NoCycle /\ p \in queue
    BY <1>3 DEF Pop
  <2>3. <<p, "original">> \notin cache
    BY <2>2 DEF FrameworkInv, UnassumedYet
  <2>4. UNCHANGED <<granted, waiting, shadowed>>
    BY <1>3 DEF Pop, waitVars, apiVars
  <2> QED BY <2>1, <2>2, <2>3, <2>4 DEF SnapshotKnown, AssumedKnown, ShadowsStarted
<1>4. CASE Cycle
  <2>1. PICK p \in Members : p = cycle.pod /\ cycle # NoCycle
    BY <1>4, HandOfCycle
       DEF Cycle, PreFilter, ReserveRegular, ReserveDelete, ReserveCreate, Permit
  <2>2. CASE cycle' = NoCycle
    BY <2>2 DEF SnapshotKnown
  <2>3. ASSUME NEW s \in {"reserve", "recreate", "permit"}, cycle' = [cycle EXCEPT !.step = s],
               UNCHANGED <<waiting, away>>
        PROVE  SnapshotKnown'
    <3>1. cycle'.pod = p /\ cycle'.snapshot = cycle.snapshot
      BY <2>1, <2>3, HandOfCycle
    <3> QED BY <1>0, <2>1, <2>3, <3>1 DEF SnapshotKnown
  <2> QED BY <1>4, <2>2, <2>3
          DEF Cycle, PreFilter, ReserveRegular, ReserveDelete, ReserveCreate, Permit, waitVars,
              countVars
<1>5. CASE UNCHANGED vars
  BY <1>1, <1>5 DEF vars, waitVars, countVars
<1> QED BY <1>2, <1>3, <1>4, <1>5 DEF Next, Users, Handlers

(* The pods of a snapshot number no more than those whose originals it has   *)
(* and, once more, those whose shadows it has.                                *)
LEMMA CountedAre ==
  ASSUME NEW S, NEW M, IsFiniteSet(M), NEW A \in SUBSET M, NEW B \in SUBSET M, NEW c \in A,
         S \subseteq M \X {"original", "shadow"}, <<c, "original">> \notin S,
         \A q \in M : /\ <<q, "original">> \in S => q \in A
                      /\ <<q, "shadow">> \in S => q \in B
  PROVE  IsFiniteSet(S) /\ Cardinality(S) + 1 <= Cardinality(A) + Cardinality(B)
<1> DEFINE O == {x \in S : x[2] = "original"}
           H == {x \in S : x[2] = "shadow"}
           first(X) == [x \in X |-> x[1]]
<1>1. S = O \cup H /\ \A x \in S : x = <<x[1], x[2]>> /\ x[1] \in M
  OBVIOUS
<1>2. IsFiniteSet(A \ {c}) /\ IsFiniteSet(A) /\ IsFiniteSet(B)
      /\ Cardinality(A \ {c}) = Cardinality(A) - 1
  BY FS_Subset, FS_RemoveElement
<1>3. first(O) \in Injection(O, A \ {c})
  <2>1. \A x \in O : x = <<x[1], "original">> /\ x[1] \in A \ {c}
    BY <1>1
  <2> QED BY <2>1 DEF Injection, IsInjective
<1>4. first(H) \in Injection(H, B)
  <2>1. \A x \in H : x = <<x[1], "shadow">> /\ x[1] \in B
    BY <1>1
  <2> QED BY <2>1 DEF Injection, IsInjective
<1>5. IsFiniteSet(O) /\ Cardinality(O) <= Cardinality(A \ {c})
  BY <1>2, <1>3, FS_Injection
<1>6. IsFiniteSet(H) /\ Cardinality(H) <= Cardinality(B)
  BY <1>2, <1>4, FS_Injection
<1> HIDE DEF O, H
<1>7. /\ Cardinality(S) = Cardinality(O) + Cardinality(H) - Cardinality(O \cap H)
      /\ IsFiniteSet(O \cap H)
  BY <1>1, <1>5, <1>6, FS_Union, FS_Intersection
<1>11. IsFiniteSet(S)
  BY <1>1, <1>5, <1>6, FS_Union
<1>8. PICK s, o, h, b, a \in Nat, i \in Nat :
        /\ s = Cardinality(S) /\ o = Cardinality(O) /\ h = Cardinality(H)
        /\ a = Cardinality(A) /\ b = Cardinality(B) /\ i = Cardinality(O \cap H)
  BY <1>2, <1>5, <1>6, <1>7, <1>11, FS_CardinalityType
<1>9. s = o + h - i /\ o <= a - 1 /\ h <= b
  BY <1>2, <1>5, <1>6, <1>7, <1>8
<1>10. s + 1 <= a + b
  BY ONLY <1>8, <1>9
<1> QED BY <1>8, <1>10, <1>11

(* What Permit lets through starts in a number the group asks for, if pods    *)
(* with a shadow count twice, and pods that were sent away count.             *)
LEMMA PermitStep ==
  ASSUME UniformGroups, GroupTypeOK, SnapshotKnown, RecordsAgree, GangUpToMissed, Permit
  PROVE  GangUpToMissed'
<1>1. PICK c \in Members : c = cycle.pod /\ cycle # NoCycle /\ cycle \in CycleOf(c)
  <2>1. cycle # NoCycle
    BY DEF Permit
  <2>2. PICK q \in Members : cycle \in CycleOf(q)
    BY <2>1 DEF GroupTypeOK
  <2> QED BY <2>1, <2>2 DEF CycleOf
<1>2. CASE UNCHANGED <<granted, missed>>
  BY <1>2 DEF Permit, apiVars, GangUpToMissed
<1>3. CASE /\ Counted(c) >= Info(podGroupInfos, c, now).minAvailable
           /\ granted' = granted \cup Released(c)
           /\ missed' = (missed \cup Missed(c)) \ granted'
  <2> DEFINE started(q) == Mates(q) \cap (granted' \cup missed')
             twice(q)   == Mates(q) \cap granted' \cap shadowed
             counted    == {x \in cycle.snapshot : x[1] \in Mates(c)}
  <2>1. Info(podGroupInfos, c, now).minAvailable = minAvailable(c)
    BY GroupTypeParts, AgreeingKept DEF GroupTypeOK, RecordsAgree
  <2>2. /\ Mates(c) \subseteq Members /\ IsFiniteSet(Mates(c)) /\ c \in Mates(c)
        /\ \A q \in Mates(c) : Mates(q) = Mates(c) /\ minAvailable(q) = minAvailable(c)
    <3>1. Mates(c) \subseteq Members /\ c \in Mates(c)
      BY DEF Mates, InGroup
    <3>2. IsFiniteSet(Mates(c))
      BY <3>1, GroupAssumption, FS_Subset
    <3> QED BY <3>1, <3>2 DEF Mates, InGroup, UniformGroups
  <2>3. IsFiniteSet(counted)
        /\ Cardinality(counted) + 1 <= Cardinality(started(c)) + Cardinality(twice(c))
    <3>1. started(c) \in SUBSET Mates(c) /\ twice(c) \in SUBSET Mates(c) /\ c \in started(c)
      BY <1>3, <2>2 DEF Released
    <3>2. counted \subseteq Mates(c) \X {"original", "shadow"}
      <4>1. cycle.snapshot \subseteq Members \X {"original", "shadow"}
        BY <1>1 DEF CycleOf, Pods
      <4> QED BY <4>1
    <3>3. <<c, "original">> \notin counted
      BY <1>1 DEF SnapshotKnown
    <3>4. ASSUME NEW q \in Mates(c), <<q, "original">> \in counted PROVE q \in started(c)
      <4>1. <<q, "original">> \in cycle.snapshot /\ q \in Members
        BY <2>2, <3>4
      <4>2. q \in granted \cup waiting \cup away
        BY <1>1, <4>1 DEF SnapshotKnown
      <4>3. CASE q \in granted \cup waiting
        BY <1>3, <4>3 DEF Released
      <4>4. CASE q \in away
        BY <1>3, <4>1, <4>4 DEF Missed
      <4> QED BY <4>2, <4>3, <4>4
    <3>5. ASSUME NEW q \in Mates(c), <<q, "shadow">> \in counted PROVE q \in twice(c)
      <4>1. <<q, "shadow">> \in cycle.snapshot /\ q \in Members
        BY <2>2, <3>5
      <4> QED BY <1>1, <1>3, <4>1 DEF SnapshotKnown
    <3> HIDE DEF started, twice, counted
    <3> QED BY <2>2, <3>1, <3>2, <3>3, <3>4, <3>5, CountedAre
  <2>4. Cardinality(counted) + 1 = Counted(c)
    BY DEF Counted, calculateBoundPods, Mates
  <2>5. Cardinality(started(c)) + Cardinality(twice(c)) >= minAvailable(c)
    <3>1. IsFiniteSet(counted) /\ IsFiniteSet(started(c)) /\ IsFiniteSet(twice(c))
      <4>1. IsFiniteSet(started(c)) /\ IsFiniteSet(twice(c))
        BY <2>2, FS_Subset
      <4> QED BY <2>3, <4>1
    <3>2. PICK n, s, t, m \in Nat :
            /\ n = Cardinality(counted) /\ s = Cardinality(started(c))
            /\ t = Cardinality(twice(c)) /\ m = minAvailable(c)
      BY <3>1, FS_CardinalityType, MinAvailableType
    <3>3. n + 1 <= s + t /\ n + 1 >= m
      BY <1>3, <2>1, <2>3, <2>4, <3>2
    <3>4. s + t >= m
      BY ONLY <3>2, <3>3
    <3> QED BY <3>2, <3>4
  <2>6. ASSUME NEW q \in granted', ~ Label[q].needGPU
        PROVE  Cardinality(started(q)) + Cardinality(twice(q)) >= minAvailable(q)
    <3>1. CASE q \in Mates(c)
      BY <2>2, <2>5, <3>1
    <3>2. CASE q \notin Mates(c)
      <4>1. Mates(q) \cap Mates(c) = {}
        <5>1. q \in Members
          BY <1>3, <2>2, <2>6 DEF GroupTypeOK, Released
        <5> QED BY <3>2, <5>1 DEF Mates, InGroup
      <4>2. Released(c) \subseteq Mates(c) /\ Missed(c) \subseteq Mates(c)
        BY <2>2 DEF Released, Missed
      <4>3. /\ started(q) = Mates(q) \cap (granted \cup missed)
            /\ twice(q) = Mates(q) \cap granted \cap shadowed /\ q \in granted
        BY <1>3, <3>2, <4>1, <4>2
      <4> QED BY <2>6, <4>3 DEF GangUpToMissed
    <3> QED BY <3>1, <3>2
  <2>7. UNCHANGED shadowed
    BY DEF Permit, apiVars
  <2> QED BY <2>6, <2>7 DEF GangUpToMissed
<1> QED BY <1>1, <1>2, <1>3 DEF Permit

(* More pods that start or were missed, and more of them with a shadow, are   *)
(* no fewer.                                                                  *)
LEMMA MoreStart ==
  ASSUME GroupTypeOK, [Next]_vars, NEW p \in Members
  PROVE  \E n, m \in Nat :
           /\ n = Cardinality(Mates(p) \cap (granted \cup missed))
                    + Cardinality(Mates(p) \cap granted \cap shadowed)
           /\ m = Cardinality(Mates(p) \cap (granted' \cup missed'))
                    + Cardinality(Mates(p) \cap granted' \cap shadowed')
           /\ n <= m
<1> DEFINE A == Mates(p) \cap (granted \cup missed)
           B == Mates(p) \cap granted \cap shadowed
           C == Mates(p) \cap (granted' \cup missed')
           D == Mates(p) \cap granted' \cap shadowed'
<1>1. A \subseteq C /\ B \subseteq D /\ C \subseteq Members /\ D \subseteq Members
  BY StartedStay DEF Mates, InGroup
<1>2. IsFiniteSet(Members)
  BY GroupAssumption
<1> HIDE DEF A, B, C, D
<1>3. IsFiniteSet(C) /\ IsFiniteSet(D)
  BY <1>1, <1>2, FS_Subset
<1>4. /\ IsFiniteSet(A) /\ Cardinality(A) <= Cardinality(C)
      /\ IsFiniteSet(B) /\ Cardinality(B) <= Cardinality(D)
  BY <1>1, <1>3, FS_Subset
<1>5. PICK a, b, c, d \in Nat : /\ a = Cardinality(A) /\ b = Cardinality(B)
                               /\ c = Cardinality(C) /\ d = Cardinality(D)
  BY <1>3, <1>4, FS_CardinalityType
<1>6. a + b <= c + d
  <2>1. a <= c /\ b <= d
    BY <1>4, <1>5
  <2> QED BY ONLY <1>5, <2>1
<1>7. \E n, m \in Nat : /\ n = Cardinality(A) + Cardinality(B)
                        /\ m = Cardinality(C) + Cardinality(D) /\ n <= m
  BY <1>5, <1>6
<1> QED BY <1>7 DEF A, B, C, D

(* Only Permit lets a pod start that needs no GPU. *)
LEMMA OnlyPermitStarts ==
  ASSUME GroupTypeOK, ShadowsStarted, [Next]_vars
  PROVE  Permit \/ \A q \in granted' : Label[q].needGPU \/ q \in granted
<1>1. CASE Users \/ UNCHANGED vars
  BY <1>1 DEF Users, UserCreate, UserDelete, vars, waitVars
<1>2. CASE Cycle
  <2>1. CASE ReserveCreate
    BY <2>1 DEF ReserveCreate, ShadowsStarted, GroupTypeOK
  <2> QED BY <1>2, <2>1 DEF Cycle, PreFilter, ReserveRegular, ReserveDelete, waitVars
<1>3. CASE Handlers
  BY <1>3 DEF Handlers, HandleAdd, HandleDelete, HandleDeleteBound, waitVars
<1>4. ASSUME NEW p \in Members, Retry(p) \/ Pop(p) \/ Timeout(p) \/ Binding(p)
      PROVE  UNCHANGED granted
  BY <1>4 DEF Retry, Pop, Timeout, Binding, Rejected, Bind, waitVars
<1> QED BY <1>1, <1>2, <1>3, <1>4 DEF Next

(* Every part of GangInv is kept.                                             *)
LEMMA GangStep ==
  ASSUME UniformGroups
  PROVE  GroupTypeOK /\ FrameworkInv /\ GangInv /\ [Next]_vars => GangInv'
<1> SUFFICES ASSUME GroupTypeOK, FrameworkInv, GangInv, [Next]_vars PROVE GangInv'
  OBVIOUS
<1>1. AssumedKnown' /\ ShadowsStarted' /\ SnapshotKnown' /\ RecordsAgree'
  BY AssumedStep, ShadowsStep, SnapshotStep, RecordsStep DEF GangInv
<1>2. CASE Permit
  BY <1>1, <1>2, PermitStep DEF GangInv
<1>3. CASE ~ Permit
  <2> SUFFICES ASSUME NEW p \in granted', ~ Label[p].needGPU
               PROVE  Cardinality(Mates(p) \cap (granted' \cup missed'))
                        + Cardinality(Mates(p) \cap granted' \cap shadowed') >= minAvailable(p)
    BY <1>1 DEF GangInv, GangUpToMissed
  <2>1. p \in granted /\ p \in Members
    BY <1>3, OnlyPermitStarts DEF GangInv, GroupTypeOK
  <2>2. PICK n, m \in Nat :
          /\ n = Cardinality(Mates(p) \cap (granted \cup missed))
                   + Cardinality(Mates(p) \cap granted \cap shadowed)
          /\ m = Cardinality(Mates(p) \cap (granted' \cup missed'))
                   + Cardinality(Mates(p) \cap granted' \cap shadowed')
          /\ n <= m
    BY <2>1, MoreStart
  <2>3. n >= minAvailable(p)
    BY <2>1, <2>2 DEF GangInv, GangUpToMissed
  <2>4. m >= minAvailable(p)
    <3>1. PICK k \in Nat : k = minAvailable(p)
      BY <2>1, MinAvailableType
    <3> QED BY <2>2, <2>3, <3>1
  <2> QED BY <2>2, <2>4
<1> QED BY <1>2, <1>3

(* The groups of pods that need no GPU start together, up to the pods Permit  *)
(* counts twice and those that were sent away after the snapshot of the cycle *)
(* was taken: for any members, labels and groups, whoever times out, is       *)
(* deleted or is rejected at whatever moment of a cycle, as long as the labels*)
(* of a group agree.                                                          *)
THEOREM GangStartsUpToMissed ==
  ASSUME UniformGroups PROVE Spec => []GangUpToMissed
<1>1. Init => GangInv
  BY DEF Init, GangInv, AssumedKnown, ShadowsStarted, SnapshotKnown, RecordsAgree, Agreeing,
         GangUpToMissed
<1>2. GangInv => GangUpToMissed
  BY DEF GangInv
<1> QED BY <1>1, <1>2, GangStep, FrameworkCorrect, PTL DEF Spec

(* A pod none of whose group needs a GPU.                                     *)
AllRegular(p) == \A q \in Mates(p) : ~ Label[q].needGPU

(* In a group without pods that need a GPU nobody is counted twice: when it   *)
(* starts, all it may lack are pods that were sent away after the snapshot of *)
(* the cycle was taken.                                                       *)
THEOREM RegularGroupsStartUpToMissed ==
  ASSUME UniformGroups
  PROVE  Spec => [](\A p \in granted : AllRegular(p) =>
                      Cardinality(Mates(p) \cap (granted \cup missed)) >= minAvailable(p))
<1>1. ASSUME GroupTypeOK, GangUpToMissed, NEW p \in granted, AllRegular(p)
      PROVE  Cardinality(Mates(p) \cap (granted \cup missed)) >= minAvailable(p)
  <2>1. p \in Mates(p) /\ p \in Members
    BY <1>1 DEF GroupTypeOK, Mates, InGroup
  <2>2. Mates(p) \cap granted \cap shadowed = {}
    BY <1>1 DEF AllRegular, GroupTypeOK
  <2>3. Cardinality(Mates(p) \cap (granted \cup missed)) \in Nat
    BY GroupAssumption, FS_Subset, FS_CardinalityType DEF Mates, InGroup
  <2>4. Cardinality(Mates(p) \cap (granted \cup missed)) + Cardinality({}) >= minAvailable(p)
    BY <1>1, <2>1, <2>2 DEF GangUpToMissed, AllRegular
  <2> QED BY <2>3, <2>4, FS_EmptySet
<1>2. GroupTypeOK /\ GangUpToMissed =>
        \A p \in granted : AllRegular(p) =>
          Cardinality(Mates(p) \cap (granted \cup missed)) >= minAvailable(p)
  BY <1>1
<1> QED BY <1>2, GroupTypeCorrect, GangStartsUpToMissed, PTL

================================================================================
