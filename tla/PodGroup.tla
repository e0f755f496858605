------------------------------- MODULE PodGroup -------------------------------
(***************************************************************************)
(* Coscheduling (pkg/scheduler/pod_group.go, scheduler.go): the pods of a  *)
(* group are to start together.  PreFilter wants enough of them to exist,  *)
(* Permit lets them wait until enough of them have a node, and Unreserve   *)
(* sends all that wait away when one has to go.                            *)
(*                                                                         *)
(* A pod that asks for no GPU is bound by the framework after Permit.  One *)
(* that asks for a GPU is replaced in Reserve, before Permit, by a shadow  *)
(* pod that is created bound.  Nodes have room here: Scheduler.tla is      *)
(* about GPUs and failures of Filter.  A member is created once.           *)
(***************************************************************************)
EXTENDS Integers, FiniteSets, Sequences

CONSTANTS
  Members, Groups,
  Label,        \* of a member: its group, headCount, threshold (in tenths),
                \* priority, and needGPU
  NoRecord, NoCycle,
  MaxDeletes    \* bound: pods their user deletes

VARIABLES
  pod,            \* the pods in the API server and in podLister, by member
  shadowed,       \* members Reserve replaces, or replaced, by a shadow pod
  tracked,        \* members that have an entry in podStatus
  podGroupInfos,
  now, created,   \* time; of a member: the timestamp of its first attempt
  queue,          \* active queue of the framework
  unschedulable,  \* what comes back into the queue later
  cycle,          \* the scheduling cycle: its pod, its step and its snapshot
  cache,          \* pods that have a node, as the framework's cache knows them
  waiting,        \* in Permit
  allowed,        \* let through by Permit, about to be bound
  rejected,       \* rejected while in Permit, Unreserve is still to be called
  events,         \* of the pod informer, not yet handled
  granted,        \* history: members that Permit, or Reserve, let start
  away,           \* history: members rejected before the cycle's Permit, maybe in its snapshot
  missed,         \* history: members that Permit counted although they were away
  deletes

apiVars   == <<pod, shadowed, tracked, now, created>>
queueVars == <<queue, unschedulable>>
waitVars  == <<waiting, allowed, rejected, granted>>
countVars == <<away, missed>>
vars == <<apiVars, queueVars, waitVars, countVars, podGroupInfos, cycle, cache, events, deletes>>

ASSUME GroupAssumption ==
  /\ Groups \subseteq Nat \ {0} /\ IsFiniteSet(Members)
  /\ Label \in [Members -> [group : Groups \cup {0}, headCount : Nat, threshold : Nat,
                            priority : 0..100, needGPU : BOOLEAN]]

ASSUME BoundsAssumption == MaxDeletes \in Nat

Record == [key : Groups \cup {0}, priority : 0..100, timestamp : Nat, minAvailable : Nat]

InGroup(g) == {p \in Members : Label[p].group = g}
Mates(p)   == InGroup(Label[p].group)
Pods       == Members \X {"original", "shadow"}
CycleOf(p) == [pod : {p}, step : {"prefilter", "reserve", "recreate", "permit"},
               snapshot : SUBSET Pods]

ASSUME AbsenceAssumption ==
  NoRecord \notin Record /\ \A p \in Members : NoCycle \notin CycleOf(p)

Init ==
  /\ pod = [p \in Members |-> "absent"] /\ shadowed = {} /\ tracked = {}
  /\ podGroupInfos = [g \in Groups |-> NoRecord]
  /\ now = 0 /\ created = [p \in Members |-> 0]
  /\ queue = {} /\ unschedulable = {} /\ cycle = NoCycle
  /\ cache = {} /\ waiting = {} /\ allowed = {} /\ rejected = {}
  /\ events = <<>> /\ granted = {} /\ away = {} /\ missed = {} /\ deletes = 0

-----------------------------------------------------------------------------
(* Groups *)

(* getPodGroupLabels: the threshold of the headCount, rounded. *)
minAvailable(p) ==
  IF Label[p].group = 0 THEN 0
  ELSE (2 * Label[p].headCount * Label[p].threshold + 10) \div 20

Key(p) == IF minAvailable(p) > 0 THEN Label[p].group ELSE 0

NewRecord(p, ts) == [key |-> Key(p), priority |-> Label[p].priority, timestamp |-> ts,
                     minAvailable |-> minAvailable(p)]

(* getOrCreatePodGroupInfo: what it returns, and what it leaves in the map. *)
(* Nothing ever marks a record as expired.                                  *)
Info(infos, p, ts) ==
  IF Key(p) # 0 /\ infos[Key(p)] # NoRecord THEN infos[Key(p)] ELSE NewRecord(p, ts)

getOrCreate(infos, p, ts) ==
  IF Key(p) = 0 THEN infos ELSE [infos EXCEPT ![Key(p)] = Info(infos, p, ts)]

caculateTotalPods(g) == Cardinality({p \in InGroup(g) : pod[p] \in {"pending", "bound"}})

(* Pods that have a node; the pod of the cycle is not among them yet.  The   *)
(* original of a pod and its shadow may both be.                             *)
calculateBoundPods(g, snapshot) == Cardinality({x \in snapshot : x[1] \in InGroup(g)})

(* Less orders pods by priority, then by time, then by the key of the group. *)
Earlier(x, y) ==
  \/ x.priority > y.priority
  \/ x.priority = y.priority /\ x.timestamp < y.timestamp
  \/ x.priority = y.priority /\ x.timestamp = y.timestamp /\ x.key < y.key

Less(p, q) == Earlier(Info(podGroupInfos, p, created[p]), Info(podGroupInfos, q, created[q]))

(* The heap compares a newcomer with one that is there, if there is one. *)
Compared(p, ts) ==
  \/ queue = {} /\ UNCHANGED podGroupInfos
  \/ \E q \in queue : podGroupInfos' =
       getOrCreate(getOrCreate(podGroupInfos, p, ts), q, created[q])

-----------------------------------------------------------------------------
(* Users and the queue *)

UserCreate(p) ==
  /\ pod[p] = "absent"
  /\ pod' = [pod EXCEPT ![p] = "pending"] /\ now' = now + 1
  /\ created' = [created EXCEPT ![p] = now'] /\ Compared(p, now')
  /\ queue' = queue \cup {p}
  /\ UNCHANGED <<shadowed, tracked, unschedulable, cycle, cache, waitVars, countVars, events,
                 deletes>>

UserDelete(p) ==
  /\ pod[p] \in {"pending", "bound"} /\ deletes < MaxDeletes
  /\ deletes' = deletes + 1 /\ pod' = [pod EXCEPT ![p] = "gone"]
  /\ events' = Append(events, <<p, IF p \in shadowed THEN "shadow" ELSE "original",
                               IF pod[p] = "bound" THEN "delete bound" ELSE "delete">>)
  /\ UNCHANGED <<shadowed, tracked, now, created, podGroupInfos, queueVars, cycle, cache,
                 waitVars, countVars>>

Retry(p) ==
  /\ p \in unschedulable
  /\ unschedulable' = unschedulable \ {p} /\ queue' = queue \cup {p}
  /\ Compared(p, created[p])
  /\ UNCHANGED <<apiVars, cycle, cache, waitVars, countVars, events, deletes>>

-----------------------------------------------------------------------------
(* The scheduling cycle *)

Pop(p) ==
  /\ cycle = NoCycle /\ p \in queue /\ \A q \in queue : ~ Less(q, p)
  /\ queue' = queue \ {p} /\ away' = rejected
  /\ cycle' = [pod |-> p, step |-> "prefilter", snapshot |-> cache]
  /\ UNCHANGED <<apiVars, podGroupInfos, unschedulable, cache, waitVars, missed, events, deletes>>

(* The framework's error function puts what is still to be scheduled aside. *)
SetAside(p) ==
  unschedulable' = IF pod[p] = "pending" THEN unschedulable \cup {p} ELSE unschedulable

EnoughPods(p, record) == caculateTotalPods(Key(p)) >= record.minAvailable

\* Mutation: a regular pod gets a status too.
Tracks_All(p) == tracked \cup {p}

(* getPodLabels stores the status of a pod that needs a GPU. *)
Tracks(p) == IF Label[p].needGPU THEN tracked \cup {p} ELSE tracked

Fits(p, record) ==
  /\ record.minAvailable = minAvailable(p) /\ record.priority = Label[p].priority
  /\ EnoughPods(p, record)

PreFilter ==
  /\ cycle # NoCycle /\ cycle.step = "prefilter"
  /\ LET p == cycle.pod IN
       /\ podGroupInfos' = getOrCreate(podGroupInfos, p, now)
       /\ tracked' = Tracks(p)
       /\ \/ /\ Key(p) = 0 \/ Fits(p, Info(podGroupInfos, p, now))
             /\ cycle' = [cycle EXCEPT !.step = "reserve"] /\ UNCHANGED <<unschedulable, away>>
          \/ /\ Key(p) # 0 /\ ~ Fits(p, Info(podGroupInfos, p, now))
             /\ cycle' = NoCycle /\ away' = {} /\ SetAside(p)
  /\ UNCHANGED <<pod, shadowed, now, created, queue, cache, waitVars, missed, events, deletes>>

(* A pod that needs no GPU passes Reserve; the framework assumes it. *)
ReserveRegular ==
  /\ cycle # NoCycle /\ cycle.step = "reserve" /\ ~ Label[cycle.pod].needGPU
  /\ cycle' = [cycle EXCEPT !.step = "permit"]
  /\ cache' = cache \cup {<<cycle.pod, "original">>}
  /\ UNCHANGED <<apiVars, podGroupInfos, queueVars, waitVars, countVars, events, deletes>>

ReserveDelete ==
  /\ cycle # NoCycle /\ cycle.step = "reserve" /\ Label[cycle.pod].needGPU
  /\ LET p == cycle.pod IN
       /\ shadowed' = shadowed \cup {p} /\ tracked' = Tracks(p)
       /\ pod' = [pod EXCEPT ![p] = "gone"]
       /\ events' = IF pod[p] = "gone" THEN events
                    ELSE Append(events, <<p, "original", "delete">>)
  /\ cycle' = [cycle EXCEPT !.step = "recreate"]
  /\ UNCHANGED <<now, created, podGroupInfos, queueVars, cache, waitVars, countVars, deletes>>

(* The shadow pod is bound from its creation on. *)
ReserveCreate ==
  /\ cycle # NoCycle /\ cycle.step = "recreate"
  /\ LET p == cycle.pod IN
       /\ pod' = [pod EXCEPT ![p] = "bound"] /\ granted' = granted \cup {p}
       /\ missed' = missed \ {p}
       /\ events' = Append(events, <<p, "shadow", "add">>)
       /\ cache' = cache \cup {<<p, "original">>}
  /\ cycle' = [cycle EXCEPT !.step = "permit"]
  /\ UNCHANGED <<shadowed, tracked, now, created, podGroupInfos, queueVars, waiting, allowed,
                 rejected, away, deletes>>

\* Mutation: the pod of the cycle is not counted.
Counted_Others(p) == calculateBoundPods(Label[p].group, cycle.snapshot)

\* Mutation: the pod of the cycle counts twice.
Counted_Twice(p) == calculateBoundPods(Label[p].group, cycle.snapshot) + 2

Counted(p) == calculateBoundPods(Label[p].group, cycle.snapshot) + 1

Released(p) == (waiting \cap Mates(p)) \cup {p}

(* Mates that are in the snapshot but not in Permit any more. *)
Missed(p) == {q \in away \cap Mates(p) : <<q, "original">> \in cycle.snapshot}

Permit ==
  /\ cycle # NoCycle /\ cycle.step = "permit"
  /\ LET p      == cycle.pod
         record == Info(podGroupInfos, p, now)
     IN /\ podGroupInfos' = getOrCreate(podGroupInfos, p, now)
        /\ \/ /\ Counted(p) < record.minAvailable
              /\ waiting' = waiting \cup {p} /\ UNCHANGED <<allowed, granted, missed>>
           \/ /\ Counted(p) >= record.minAvailable
              /\ waiting' = waiting \ Released(p) /\ allowed' = allowed \cup Released(p)
              /\ granted' = granted \cup Released(p) /\ missed' = (missed \cup Missed(p)) \ granted'
  /\ cycle' = NoCycle /\ away' = {}
  /\ UNCHANGED <<apiVars, queueVars, cache, rejected, events, deletes>>

-----------------------------------------------------------------------------
(* What follows Permit, in a goroutine for each pod *)

(* Pods that are rejected while they wait. *)
SendAway(pods) ==
  /\ waiting' = waiting \ pods
  /\ away' = IF cycle = NoCycle THEN away ELSE away \cup pods

(* The wait ends 2 seconds times the headCount after Permit, whatever the rest *)
(* of the group does.                                                          *)
Timeout(p) ==
  /\ p \in waiting /\ SendAway({p}) /\ rejected' = rejected \cup {p}
  /\ UNCHANGED <<apiVars, podGroupInfos, queueVars, cycle, cache, allowed, granted, missed,
                 events, deletes>>

\* Mutation: Unreserve rejects pods that Permit has let through.
Rejects_Allowed(p) == (waiting \cup allowed) \cap Mates(p)

Rejects(p) == waiting \cap Mates(p)

(* The framework forgets the pod, calls Unreserve, and sets it aside. *)
Unreserve(p, reject) ==
  /\ cache' = cache \ {<<p, "original">>}
  /\ podGroupInfos' = getOrCreate(podGroupInfos, p, now)
  /\ SendAway(Rejects(p)) /\ rejected' = reject \cup Rejects(p)
  /\ SetAside(p)

Rejected(p) ==
  /\ p \in rejected /\ Unreserve(p, rejected \ {p})
  /\ UNCHANGED <<apiVars, queue, cycle, allowed, granted, missed, events, deletes>>

(* There is no pending pod to bind any more if it was deleted, by its user  *)
(* or by Reserve.                                                           *)
Bind(p) ==
  /\ p \in allowed /\ allowed' = allowed \ {p}
  /\ \/ /\ pod[p] = "pending" /\ pod' = [pod EXCEPT ![p] = "bound"]
        /\ UNCHANGED <<podGroupInfos, unschedulable, cache, waiting, rejected, away>>
     \/ pod[p] # "pending" /\ Unreserve(p, rejected) /\ UNCHANGED pod
  /\ UNCHANGED <<shadowed, tracked, now, created, queue, cycle, granted, missed, events, deletes>>

-----------------------------------------------------------------------------
(* The informer: its events reach KubeShare's handlers and the framework's. *)

Event(p, which, what) == events # <<>> /\ Head(events) = <<p, which, what>>

HandleAdd(p) ==
  /\ Event(p, "shadow", "add") /\ events' = Tail(events)
  /\ cache' = cache \cup {<<p, "shadow">>}
  /\ podGroupInfos' = IF p \in tracked THEN podGroupInfos ELSE getOrCreate(podGroupInfos, p, now)
  /\ UNCHANGED <<apiVars, queueVars, cycle, waitVars, countVars, deletes>>

(* deletePod looks at the group of the status it finds under the name of the  *)
(* pod, and counts one pod less than the lister, which has dropped the pod    *)
(* already.                                                                   *)
DropsGroup(p) ==
  /\ p \in tracked /\ Label[p].group # 0
  /\ caculateTotalPods(Label[p].group) - 1 <= 0

(* deletePodStatus: the uid is that of the pod, not of an earlier one. *)
Untracked(p, which) == IF which = "original" /\ p \in shadowed THEN tracked ELSE tracked \ {p}

Deleted(p, which) ==
  /\ events' = Tail(events)
  /\ podGroupInfos' = IF DropsGroup(p) THEN [podGroupInfos EXCEPT ![Label[p].group] = NoRecord]
                      ELSE podGroupInfos
  /\ tracked' = Untracked(p, which)

HandleDeleteBound(p) ==
  /\ \E which \in {"original", "shadow"} :
       Event(p, which, "delete bound") /\ Deleted(p, which) /\ cache' = cache \ {<<p, which>>}
  /\ UNCHANGED <<pod, shadowed, now, created, queueVars, cycle, waitVars, countVars, deletes>>

(* The framework rejects a pod that waits in Permit and is deleted. *)
HandleDelete(p) ==
  /\ Event(p, "original", "delete") /\ Deleted(p, "original")
  /\ queue' = queue \ {p} /\ unschedulable' = unschedulable \ {p}
  /\ SendAway(waiting \cap {p}) /\ rejected' = rejected \cup (waiting \cap {p})
  /\ UNCHANGED <<pod, shadowed, now, created, cycle, cache, allowed, granted, missed, deletes>>

-----------------------------------------------------------------------------

Users     == \E p \in Members : UserCreate(p) \/ UserDelete(p)
Cycle     == PreFilter \/ ReserveRegular \/ ReserveDelete \/ ReserveCreate \/ Permit
Binding(p) == Rejected(p) \/ Bind(p)
Handlers  == \E p \in Members : HandleAdd(p) \/ HandleDelete(p) \/ HandleDeleteBound(p)

Next ==
  \/ Users \/ Cycle \/ Handlers
  \/ \E p \in Members : Retry(p) \/ Pop(p) \/ Timeout(p) \/ Binding(p)

(* The rest of the group has had its turn: nothing else is to happen with it. *)
LastTurn(p) ==
  /\ cycle = NoCycle /\ events = <<>>
  /\ (queue \cup unschedulable \cup allowed \cup rejected) \cap Mates(p) = {}

(* A pod that comes back is not yet to be tried again at once: what is in the *)
(* queue gets its turn between two retries of a pod of a higher priority.     *)
Spec ==
  /\ Init /\ [][Next]_vars
  /\ WF_vars(Cycle) /\ WF_vars(Handlers)
  /\ \A p \in Members : SF_vars(Pop(p)) /\ WF_vars(Retry(p)) /\ WF_vars(Binding(p))
                         /\ WF_vars(LastTurn(p) /\ Timeout(p))

-----------------------------------------------------------------------------

(* The type of the state; only pods with a GPU have a status and a shadow, and *)
(* a record is kept under its own key.                                        *)
GroupTypeOK ==
  /\ pod \in [Members -> {"absent", "pending", "bound", "gone"}]
  /\ shadowed \cup tracked \subseteq {p \in Members : Label[p].needGPU}
  /\ \A g \in Groups : podGroupInfos[g] # NoRecord => podGroupInfos[g].key = g
  /\ podGroupInfos \in [Groups -> Record \cup {NoRecord}]
  /\ now \in Nat /\ created \in [Members -> Nat]
  /\ queue \subseteq Members /\ unschedulable \subseteq Members
  /\ cycle # NoCycle => \E p \in Members : cycle \in CycleOf(p)
  /\ cache \subseteq Pods /\ waiting \subseteq Members /\ allowed \subseteq Members
  /\ rejected \cup granted \cup away \cup missed \subseteq Members
  /\ events \in Seq(Members \X {"original", "shadow"} \X {"add", "delete", "delete bound"})
  /\ deletes \in 0..MaxDeletes

(* The pods of a group start together (README, group_threshold): when one of *)
(* them may start, at least minAvailable of them may.  Permit does not keep   *)
(* this even for the pods that need no GPU ...                                *)
RegularGangHolds ==
  \A p \in granted : ~ Label[p].needGPU => Cardinality(Mates(p) \cap granted) >= minAvailable(p)

(* ... because it may count a pod that Reserve replaced twice, the original   *)
(* that waits in Permit and the shadow, and pods that were sent away after    *)
(* the snapshot of the cycle was taken, or were about to be.  But nothing     *)
(* else goes wrong: whoever times out, is deleted or sends others away while  *)
(* a pod is scheduled, these are all that a group which starts may lack.      *)
GangUpToMissed ==
  \A p \in granted : ~ Label[p].needGPU =>
    Cardinality(Mates(p) \cap (granted \cup missed)) + Cardinality(Mates(p) \cap granted \cap shadowed)
      >= minAvailable(p)

(* A pod is in one place of the framework: in the queue, put aside, in the   *)
(* cycle, in Permit or on its way out of it, although four goroutines move   *)
(* pods between these; nothing schedules a pod twice.                        *)
OnePlace ==
  \A p \in Members :
    Cardinality({i \in 1..6 : p \in <<queue, unschedulable, waiting, allowed, rejected,
      IF cycle = NoCycle THEN {} ELSE {cycle.pod}>>[i]}) <= 1

(* Enough pods of a group that stay are all bound some day, whichever of them *)
(* fail to be bound, send each other away, and come back, if from some time   *)
(* on a wait in Permit lasts until the rest of the group has had its turn.    *)
(* The timeout does not see to that: it is as long for a group whose pods     *)
(* come back from the unschedulable queue a minute apart.                     *)
GroupGetsBound ==
  \A g \in Groups :
    /\ <>[](\A p \in InGroup(g) : caculateTotalPods(g) >= minAvailable(p))
    /\ <>[][\A p \in InGroup(g) : Timeout(p) => LastTurn(p)]_vars
    => <>[](\A p \in InGroup(g) : pod[p] # "pending")

=============================================================================
