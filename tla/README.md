# KubeShare in TLA+

KubeShare lets pods share GPUs in Kubernetes: a pod asks for a fraction of a
GPU (`sharedgpu/gpu_request`) or for several whole ones, and for GPU memory
(`sharedgpu/gpu_mem`).  A scheduler-framework plugin chooses GPUs and keeps
accounts of them; per-node daemons turn its decisions into the configuration of
Gemini, which does the time slicing.  This directory holds a TLA+ model of the
part of it that can go wrong in ways a unit test would hardly reach, the TLC
runs that check it, and TLAPS proofs about it.

Paths below are relative to the repository (`pkg/...`); `PROJECT.json` maps each
definition to the lines it stands for.

## 1. The system

| component | code | state it keeps | operations | talks to |
|---|---|---|---|---|
| reservation core | `pkg/scheduler/{scheduler,pod,filter}.go` | `podStatus`, `boundPodQueue`, each cell's `available` and `freeMemory`, the port bitmap of each node | PreFilter, Filter, Reserve; filterPod, addPod, deletePod | API server (deletes and creates pods), informer (events), cells, bitmap |
| port bitmap | `pkg/lib/bitmap` | words of masked bits, position of the next search | Mask, Unmask, FindNextFromCurrent(AndSet) | reservation core |
| GPU discovery and health | `pkg/scheduler/{node,gpu}.go` | `healthy`, `uuid`, `fullMemory` of each cell; `leafCells` | addNode, updateNode, deleteNode, setCellStatus, setCellHealthy, passMemoryToParent | node informer, Prometheus, cells |
| cell construction | `pkg/scheduler/{cell,config}.go` | the cell trees, free lists by type and level, priorities of GPU models | addCell, inferCellSpec, buildCellChains | configuration file |
| cell selection and scores | `pkg/scheduler/{score,filter}.go` | none | opportunistic and guarantee scores of nodes and of cells, NormalizeScore | cells |
| coscheduling | `pkg/scheduler/{pod_group,util}.go` | `podGroupInfos` | Less, group checks of PreFilter, Permit, Unreserve, expiry | queue, framework |
| aggregator | `pkg/aggregator`, `cmd/kubeshare-aggregator` | none | exports running pods' requirements as metrics | pod lister, Prometheus |
| configuration daemon | `pkg/config`, `cmd/kubeshare-config` | the files under `/kubeshare/scheduler` | writes a GPU's config and port files | Prometheus, launcher |
| launcher | `docker/kubeshare-gemini-scheduler` | running pod managers | starts and stops a pod manager per port | files, Gemini |
| collector | `pkg/collector`, `cmd/kubeshare-collector` | none | exports the node's GPUs | NVML, Prometheus |
| query-ip, signals, logger | `cmd/kubeshare-query-ip`, `pkg/signals`, `pkg/logger` | none | one-shot helpers | |
| queue, stack, set | `pkg/lib` | containers | | core |

**How a pod travels.**  The framework's queue pops an unbound pod and calls
PreFilter, then Filter for each node, Score, and Reserve.  Reserve is where
KubeShare is unusual: it *deletes* the user's pod and *creates* a copy of it, the
shadow pod, that is already bound and carries its GPUs, memory and pod manager
port in annotations.  Meanwhile the pod informer, in a goroutine of its own,
delivers what happened some time ago: the deletion of the original pod, the
addition of the shadow pod, the end of any pod.  `podStatus` is keyed by name and
joins the two goroutines; a uid in it tells one incarnation of a name from
another, and is emptied while a pod is being replaced.  After a restart the
accounts are rebuilt: addPod queues the bound pods it is told of, and Filter
accounts them when it next looks at their node.

**What is hard here.**  Deletions and completions that arrive in the middle of a
cycle, or after the name is used again; a status found twice in one cycle and
changed in between; the creation of the shadow pod that fails after the deletion;
the process that dies between any two steps; the order of the first cycle and the
listed pods; a full or wrapped-around port bitmap; aggregates that must follow
the leaves; defaults that are set after they were compared.  Nodes that fail and come
back while the informer's handlers and Filter set the same cells under different
mutexes, with answers of Prometheus of different age.  Members of a group that are
sent away while a later one is let through on an older snapshot.  Files that are
truncated and written line by line, and read half-written, by launchers that restart,
after metrics that lag behind the pods.  Every such place is listed, at its line, under `hazards` in `PROJECT.json`, with the properties that
watch it or the reason none does yet.

**What makes each component correct.**

- reservation core: alive pods never hold more than a whole GPU or its memory,
  never share a pod manager port; what ended comes back, once, and only then; a
  pod its user wants is neither lost nor starved; a pod gets what it asked for.
- port bitmap: a search finds a free position whenever there is one.
- discovery and health: a healthy cell has a GPU of its node, memory adds up, and in
  the end the cells of a node are as healthy as the node.
- construction: levels, counts and priorities of cell types agree; a cell starts with as
  many GPUs as there are leaves below it; ids tell GPUs apart.
- coscheduling: a pod of a group starts only with enough others (with what exceptions is
  the question), and enough pods all start some day; no pod is in two places of the
  framework.
- scores: normalised scores are in range and keep the order; nodes are filled up for
  opportunistic pods and kept apart for guarantee pods, near their group.
- daemons: a running shared pod gets a pod manager and keeps it; one that ended loses
  it; a file of requirements that is whole has those of every client that runs.

## 2. The modules

| module | models | definitions |
|---|---|---|
| `RRBitmap` | `pkg/lib/bitmap` | a bitmap is its set of masked positions and the position of the next search |
| `Scheduler` | the reservation core, with the port bitmap and the discovery of GPUs in Filter | one action per step of a goroutine |
| `GpuAllocator` | what fractional allocation promises, whatever the mechanism | `Grant`, `Release` |
| `SchedulerRefinement` | `Scheduler` seen as a `GpuAllocator` | what a pod holds is what its annotations say while it is alive |
| `SchedulerInv` | the inductive invariants | `OrderInv`, `LifeInv`, `AccountInv` (`PortInv`, `ShareInv`, `GpuInv`, `FreeInv`), `CalmInv` (`RequestInv`, `ExactInv`) |
| `MCScheduler` | topologies and workloads for TLC | |
| `FiniteSums_proofs` | finite sets of naturals, and sums over finite sets | `Total` |
| `Scheduler_proofs` | a search finds what is free; types; `OrderInv` and `LifeInv` are inductive; nobody loses a pod | |
| `SchedulerAccounts_proofs` | `PortInv` and `ShareInv` are, given `LifeInv`; so are the sums of `AggregatesAgree` | |
| `SchedulerGpus_proofs` | `GpuInv` and `FreeInv` are; `Scheduler` implements `GpuAllocator`; and when all is calm `RequestInv` and `ExactInv` | |
| `CellChains` | cell types: buildCellChains and the recursive addCell | the active calls are a stack, a step is an entry or a return |
| `CellTree` | inferCellSpec and build, which make the cells | functions of the configuration, by path |
| `NodeHealth` | GPU discovery and node health, composed with both | the steps of addNode, updateNode, deleteNode, of the informer and of Filter |
| `Scoring` | distances of ids, node scores, NormalizeScore | operators, with exact arithmetic |
| `NodeScores` | the cells of `NodeHealth` as `Scoring` sees them | what is promised of scores |
| `MCNodes` | clusters for `NodeScores` | |
| `NodeHealth_proofs` | what the handlers and Filter make of the cells; ids; scores | `HealthInv`, `StateInv`, `GpuInv` |
| `PodGroup` | coscheduling: Less, PreFilter's group checks, Permit, Unreserve, and the framework around them | one action per call |
| `MCPodGroup` | a group of three | |
| `PodGroup_proofs` | `FrameworkInv` and `GangInv` are inductive | |
| `NodeDaemon` | aggregator, Prometheus' scrapes, configuration daemon, launchers | one action per step another of them could see |
| `PodManagers` | what a node promises its shared pods | `ManagersChange`, `PodChanges` |
| `MCNodeDaemon` | two pods on a GPU | |
| `CellTree_proofs` | `ChainInv` is inductive; rows of the tree, places in them and leaf cells counted | |
| `NodeDaemon_proofs` | `DaemonInv` is inductive; `NodeDaemon` implements `PodManagers` | |

The modules meet where the code does.  `NodeHealth` runs on the tree that `CellTree`
builds from the elements of `CellChains`; `NodeScores` feeds `Scoring` with that tree's
cells.  `Scheduler` takes a healthy cluster for granted and is about pods; `PodGroup`
takes room for granted and is about waiting.  The pods of `NodeDaemon` are those that
`Scheduler` bound.

### State and steps of `Scheduler`

`status[n]` is `podStatus[n]`, `avail`, `freeMem` are `cell.available` and
`cell.freeMemory` of the leaf cells and of the cells above them, `masked` and
`current` a node's `podManagerPortBitmap`, `boundQ` a node's `boundPodQueue`,
`filled` the nodes whose cells got their GPUs.  `api` is the API server, `events`
the informer's undelivered events, in order, `pc` and `cyc` the scheduling
goroutine: where it is and what its local variables hold.

A step ends where the other goroutine could see what was done, or change what was read:

| action | code |
|---|---|
| `HandleAdd`, `HandleUpdate`, `HandleDelete` | filterPod, with addPod, or with deletePod up to the end of deletePodStatus, which takes the status out of the map under `podStatusMutex` |
| `UnmaskEnded`, `ReclaimCell` | the rest of deletePod: it reads the port of the status it took out, unmasks it, and gives back its cells one by one |
| `PreFilter` | PreFilter and its getPodLabels |
| `FilterAddNode`, `FilterBoundPod`, `FilterDecide` | Filter on one node: addNode; one turn of processBoundPodQueue; the decision |
| `ReserveSelect` | Reserve up to the choice of cells, with Score's choice of a node |
| `LookUpAgain` | the getPodLabels of newAssumedSharedGPUPod and newAssumedMultiGPUPod |
| `AssumeSharedPod` | the rest of newAssumedSharedGPUPod, which writes to the status it found without the mutex |
| `AssumeMultiPod`, `TakeCell` | the same of newAssumedMultiGPUPod, and a turn of its loop |
| `ReserveDelete`, `ReserveCreate`, `ReserveCreateFails`, `ReserveSetUid` | the rest of Reserve, a call at a time |
| `Restart` | the process dies and New runs again |
| `UserCreate`, `UserDelete`, `Finish` | users and kubelets (not in the repository) |

Reserve goes on with the status it found even if deletePod took it out of the map in
between: then what Reserve assigns is seen by deletePod (`TakenOut`) and not in the map
(`Assign`), and the shadow pod has no status.  `window` is about that.

Three steps are longer than that, because their parts commute with what the informer can do
in between, or because nothing checked tells them apart:

- `AssumeSharedPod`.  Once the uid is empty deletePod cannot match the status any more.
  If it holds the status already, it read request and memory when it took it out, and has
  read the port before this step or reads it after; shares that are given back and shares
  that are taken commute.
- `ReserveSelect`: getPodLabels and the assignment of the cells.  A deletion of the pod
  handled in between would let deletePod give back cells that are assigned later.  That
  is the failure of `window` again, and `OriginalsStay` (see Environments), under which
  the other runs and the theorems stand, excludes it in the same way.
- `FilterBoundPod`: processBoundPod makes the status of a bound pod, reserves, and only then
  assigns cells and port to the status.  If the pod's deletion is handled in between,
  what was reserved is never given back.  So it can lose something but grant nothing
  twice, and a loss after a restart is in no property of `recover` (before
  any restart, and with `OriginalsStay`, no bound pod is ever left to account).

getPodLabels' effect on `podStatus` is part of every action that calls it.  The
model keeps the code's panics (`Panic`: Reserve indexes an empty list of cells).

**Abstractions.**  Shares are whole units, `UNIT` to a GPU, where the code has
float64s: their rounding is not modelled.  All GPUs are of one model and every
root cell is one node, which stays healthy once seen.  Score may choose any node
that fits and cells in any order its formulas can produce (`CellChoices`); that
is more than one run of the code does, never less.  Filter looks at nodes one
after the other (the framework may do so in parallel).  A bitmap is a set, so
races on its words are left out.  The informer misses no event.  PreFilter gets its pod
from the API server, where the framework's queue, which an informer of its own feeds,
may still pop a pod that was deleted a moment ago: such a pod is as one that is deleted
right after PreFilter, which `OriginalsStay` excludes and `window` allows.  Label errors and
namespaces are left out: every pod is well-formed.  Health and groups have modules of
their own.
Three constants describe an environment: `OriginalsStay` (no user deletes a pod while a
cycle has it in hand, from PreFilter to Reserve's own deletion), `ShadowsStay` (users and
containers leave a name alone from that deletion until Reserve has assigned the uid of the
shadow pod) and `ListedFirst` (a new process handles the listed pods before its first cycle).
`MaxUid`, `MaxRestarts`, `MaxCreateErrors` bound incarnations, crashes and
refused creations.

### State and steps of the other modules

`CellChains`: `elements` is `cellElements`, `calls` the stack of addCell, `todo` what the
`range` over the map of types has not visited yet; any order is possible.

`NodeHealth`: `cell` has `healthy`, `state`, `uuid`, `fullMemory` and `available` of each
cell, `leafCells` and `gpuInfos` are the maps of those names.  addNode is two steps,
because it asks Prometheus under one mutex and sets the cells under another
(`adding`); updateNode asks and sets under one (`updating`), and they exclude each other
only where the mutexes do.  Filter calls addNode for the nodes of its snapshot, which
may be older than what the informer has handled (`cycle`).  A node's devices are
fixed; Prometheus answers or does not (`answers`).

`PodGroup`: `podGroupInfos` is the map of that name and `tracked` the keys of
`podStatus`.  The framework is modelled as KubeShare uses it: an active queue ordered by
Less, a place for pods to be tried again, a cache of assumed and bound pods of which a
cycle takes a snapshot, waiting pods, and a goroutine per pod for what follows Permit.
Less calls getOrCreatePodGroupInfo, so queueing a pod may create a group's record:
`Compared`.  Pods do not complete, a member is created once, and nodes have room.  A wait in
Permit may time out at any moment.  Three variables are history: `granted`, who may start;
`away`, who was sent away from Permit since the snapshot of the cycle under way was taken,
or was about to be when it was; and `missed`, whom a Permit counted although they were
`away`.

`NodeDaemon`: `series` is what Prometheus has since its last scrape, `job` the daemon's
answer, the files it has still to write and the one it has open, `file` the two files of
a GPU (`Config(g)`, `Ports(g)`), `closed` the inotify events a launcher has not read,
`podlist` the launcher's dictionary of that name.  A file is truncated, gets its count, then
its lines, and is closed, each in a step, and the daemon may die after any of them.
Memory, shares and port numbers are data that nothing compares.

## 3. The runs

| run | specification | expects | what it shows |
|---|---|---|---|
| `reuse` | `LifeSpec` | pass | with `OriginalsStay`: users delete and create again whatever no cycle has in hand, also while Reserve replaces it, creations may fail, the informer is as late as it likes: `NoGpuOvercommit`, `NeverNegative`, `PortsExclusive`, `ReclaimsOnlyTheEnded`, and the inductive `LifeInv`, `AccountInv` |
| `calm` | `FairLife` | pass | with `OriginalsStay` and `ShadowsStay`: `AccountsExact`, `AggregatesAgree`, `PodKept`, `GpusAsRequested`, and the inductive `CalmInv` behind the first and the last; `EndedIsReclaimed`, `WantedIsBound` |
| `recover` | `Spec` | pass | one crash anywhere, with `OriginalsStay` and `ListedFirst`: no over-commitment of shares or memory, ports stay exclusive, and the scheduler implements `GpuAllocator` |
| `ports` | `LifeSpec` | violation | a full port pool is not refused |
| `restart` | `Spec` | violation | without `ListedFirst` a restart over-commits a GPU |
| `window` | `LifeSpec` | violation | without `OriginalsStay` a pod deleted during its Reserve gives back a share that is only about to be taken, and it is granted twice |
| `fragments` | `LifeSpec` | violation | a multi-GPU pod gets fewer GPUs than it asked for |
| `nodes` | `HealthSpec` | pass | from the configuration to healthy cells: `ElementsAgree`, `EveryTypeAdded`, `CapacityIsLeaves`, `GpuIdsDiffer`; `HealthyLeafHasGpu`, `MemoryAddsUp`, `HealthyIsOffered`, `StatusFollowsNode`; and of the scores `NormalizedInRange`, `ScoresFollowUse`, `GroupStaysTogether` |
| `roots` | `HealthSpec` | violation | of two nodes below one root cell the second never gets its GPUs |
| `groups` | `Spec` | pass | `GangUpToMissed`, `OnePlace`, `GroupGetsBound` |
| `gang` | `Spec` | violation | Permit counts a replaced pod twice, and pods without a GPU start too early |
| `daemon` | `Spec` | pass | `ConfiguredFirst`, `RunningPodIsServed`, `EndedPodIsDropped`, and `ImplementsPodManagers` |

The type invariant of each module is checked in one of its runs (`TypeOK` in `reuse`,
`HealthTypeOK`, `GroupTypeOK` and `DaemonTypeOK` in the others).

### Bounds

*`Scheduler`.*  Two pods compete in most runs because a mistake of the accounts is
between one pod and another.  One GPU of 3 units and memory 5, asked for by
(1 unit, 3 memory) and (2 units, 2 memory), makes every case of "fits" occur:
one of each fit together, two of the first exceed the memory, two of the second
the share.  `calm` has two GPUs and adds pods of two whole GPUs.  A name may have
three or four incarnations where reuse matters: the user's pod, its shadow pod,
and again; that is what a late deletion needs to meet a later pod.  A bitmap of
two or three ports wraps around, and is full in `ports`.  One crash and one refused
creation reach each of the states in which they can come.

*`nodes`.*  Three nodes are configured through five roots, with two and three levels, two
roots on one node, a root above two cells that name the same node (as
`doc/deploy.md` has it), a model below two types and a node with GPUs of two models, in
turn; two of the nodes exist, the third is configured only.  Three
changes (a node comes, fails, leaves, returns; Prometheus falls silent or answers) are
enough for a node to come, leave and return, and for an old snapshot to meet a newer event.
`Candidates`, `Scores`, `GPUs`, `Priorities` and `Whole` are the inputs the scores are tried
on: three nodes with scores negative, zero, at and above 100, and two nodes of two GPUs in
quarters.  `GroupStaysTogether` is about the cells that getLeafCellbyNode offers, in every
state: of the GPUs of node `a`, which are three levels deep, and of `b`, two levels deep and of
two models, whichever are healthy.  A node of which no cell is healthy has nothing to score.

*`groups`.*  Two of three members are enough, so that a group can be complete without the
third, and can lose one and still be; one has a GPU and so starts in Reserve.  A user
deletes one; timeouts are not bounded.  The two members without a GPU are labelled alike
and `FirstR1` (a `CONSTRAINT`) has `r1` created before `r2`, which loses nothing.  In `gang` all three are to start
together, which the pod that is counted twice makes possible with two.  A second group is not in the run:
with room on the nodes, all that another group's pods do is take turns in the queue.

*`daemon`.*  Two pods on a GPU are the least for which a torn file says some but not all.
One crash, of the daemon or of the container.  That nothing depends on the number of pods
and GPUs is what section 4 proves for the safety properties.

### Fairness

`FairLife`: the goroutine of the scheduling cycle and that of the informer are never
blocked for ever, hence `WF(InCycle)` and `WF(Informer)`.  PreFilter of a pod is
strongly fair: a pod that did not fit goes back to the queue, whose backoff and
periodic flush pop it again and again, though not while another cycle runs.
`WF(Finish(n))`: containers end; without that a pod that waits for a GPU may wait for
ever, as it should.

`HealthFairness`: the handlers and the cycle go on; pods keep coming, so that a cycle
begins after a cycle, which is how the cells of a node whose metrics came late are
filled at all.  What waits for a mutex is strongly fair, because Go's mutexes starve
nobody; so are a node's status reports (`Heartbeat`), which come whatever others do.

`PodGroup!Spec`: the cycle, the handlers, retries, bindings and timeouts happen if they
can for long enough; Pop is strongly fair, because a pod that is retried waits in backoff
and lets others have their turn, whatever its priority.  A wait in Permit may end at any
moment, and does when nothing else is to happen with the group
(`WF(LastTurn(p) /\ Timeout(p))`).  The timeout of the code is 2 seconds times the
`headCount`, and a rejected pod may stay a minute among the unschedulable: so it does not
give the rest of a group its turn, and a group may miss itself again and again.
`GroupGetsBound` therefore says in its premise that from some time on waits last until
the others had their turn; all timeouts, rejections and deletions before that are free.

`NodeDaemon!Spec`: Prometheus scrapes, the informer resyncs every 30 seconds, daemon and
launcher go on.  Reads of whole files are strongly fair: a file is half-written for
milliseconds, so a launcher that reads after each closing does not meet one for ever.

Nothing else is assumed of users, nodes or crashes.

### Environments

Some properties hold in an environment only, which a constant names.  Without it
TLC finds a counterexample, and that is a limit of the code.

| constant | says | without it |
|---|---|---|
| `OriginalsStay` | no user deletes a pod while a cycle has it in hand | `window`, with shared pods and with multi-GPU pods; `window` has it `FALSE`, all other runs `TRUE` |
| `ShadowsStay` | nobody creates, deletes or ends a pod of a name that Reserve is replacing | a pod whose end is handled between its creation and the writing of its uid (`scheduler.go:526`) is never given back, so `AccountsExact` and `EndedIsReclaimed` fail; `reuse`, `recover` and `window` have it `FALSE` |
| `ListedFirst` | a new process handles the listed pods before its first cycle | `restart` |
| `CalmStart` | no launcher makes its first read of a half-written file | `RunningPodIsServed` fails: the first read is outside of the `try` (`launcher.py`), its exception ends the launcher |
| `MaxSilences = 0` | Prometheus answers the daemon's queries | `ImplementsPodManagers` fails: no answer is taken for "no pods", the files are emptied and every pod manager of the node is stopped |

`CHECK_DEADLOCK FALSE` is said because the systems may stop: users have no more
pods to create within the bounds, all pods of a node are gone, or the process has
panicked.

**What the violated properties say of the code** is in `findings`.  In short: Filter
compares with -1 after an addition (`scheduler.go:356`); the caches' sync does not
wait for addPod (`scheduler.go:226`); deletePod reclaims the cells that Reserve was
only about to reserve, because the uid is emptied outside of the mutex (`pod.go:404`, and
`pod.go:350` for several GPUs); Filter's whole GPUs are a floor of a sum (`filter.go:55`);
setCellHealthy stops at a root that is healthy already (`node.go:226`); Permit counts
the original of a replaced pod, which waits or has just been sent away, and its shadow,
which Reserve created bound before Permit was asked (`util.go:67`).  The passing runs rule each of these
cases out, by a constant or by their workload, and show what holds without them.

**Noticed and not run**, most of them under `hazards`: the default memory of a pod
is set after its GPU was chosen (`pod.go:420`), so pods without `gpu_mem` may
over-commit memory, and the workloads give every pod a memory; deletePod counts a
group's pods when the lister has dropped the pod already, and drops the record one pod
early, while those of groups whose pods need no GPU are never dropped; a pod with a GPU
starts in Reserve, whatever Permit says of its group (`scheduler.go:521`); a shadow pod
exists before `podStatus` has its uid (`scheduler.go:526`); a pod manager of a GPU whose last shared pod
ended stays while other GPUs of the node have pods, because only the files of used
GPUs are written (`Refreshed` says so); calculateRegularPodNodeScore gives 100 to nodes
*with* GPUs where the comments at `score.go:11` and `scheduler.go:410` say the
opposite; the priority of a GPU model depends on the order of the map when two types
above it disagree; two root cells that name the same node have leaves of equal id; the
collector overwrites all but the last MIG instance of a device.

## 4. What is proved

Each theorem holds for every topology, workload, bitmap length and bound that
satisfies the assumptions named in the module of its component; for `Scheduler`:
`TopologyAssumption` (a leaf's path has the leaf and cells that are not leaves),
`RequestAssumption` (a request is at most a GPU or whole GPUs, as getPodLabels demands),
`NamesAssumption`, `AbsenceAssumption` and `BoundsAssumption`.  TLC evaluates them in
every run.  Theorems with further hypotheses have them explained below.

**In every behaviour, restarts included**

- `Scheduler_proofs!FindNextIsFree`: a search that starts at a legal position
  returns a free position of the bitmap, or -1 and then all are masked.
- `Scheduler_proofs!TypeCorrect`: `Spec => []TypeOK`.  One lemma per group of
  actions.  It is not empty: that a drawn port and the next position stay inside the
  bitmap needs `FindNextIsFree`, and the accounts stay numbers only because each
  status holds leaves and numbers at every point of a cycle.
- `Scheduler_proofs!OrderCorrect`: `Spec => []OrderInv`, and from it
- `Scheduler_proofs!ReclaimsOnlyEnded`: `Spec => ReclaimsOnlyTheEnded`.
  The property is not inductive: that deletePod may not drop a
  status is known only from the event at the head of a queue, which may have been
  appended many steps before.  `OrderInv` says of *every* event in the queue that,
  if it will call deletePod, it is not about the incarnation that is alive.  It
  needs that uids only grow (`LatestInApi`, `EventsKnown`), and that the copy
  Reserve creates has the name of the pod it deletes (`CopyOfThePod`).
  `DroppedByDeletePod` is the other half: no other step drops a status.
- `SchedulerAccounts_proofs!AggregatesAlwaysAgree`: `Spec => []AggregatesAgree`, for any
  tree of cells: reserveResource and reclaimResource change a leaf and everything
  above it by the same amount, and a new GPU's memory is passed up.

**In one life of the process** (`LifeSpec`: any step but `Restart`), with no assumption
about the informer.  They stop there for a reason: `restart` shows that a new process may
over-commit a GPU before it has handled the pods it lists.  All but `PodNeverLost` have the
hypothesis `OriginalsStay`: no user deletes a pod while a cycle has it in hand, from PreFilter
to Reserve's own deletion.  It is not decoration: newAssumedSharedGPUPod empties the uid
outside of the mutex (`pod.go:403-404`), and `window` shows the over-commitment that follows
from a deletion in between.  Users may still delete and create every other pod, and
the very name that Reserve is replacing, at any moment.

- `Scheduler_proofs!LifeCorrect`: `LifeSpec => [](TypeOK /\ LifeInv)`.  `LifeInv`
  says that podStatus is never behind the informer: for each addition of a bound pod
  that is still to be handled there is a status, without a uid or with that uid or a
  later one (`ShadowsKnown`), so addPod queues nothing (`NothingToAccount`) and no pod
  is accounted twice.  It is preserved because a deletion that could drop such a
  status comes after the addition in the queue (`AdditionsLast`, `OrderInv`), and
  because the uid that a cycle writes is not less than those still to be added
  (`LaterThanShadows`).  A pod in hand is in the API server (`PodInHand`), so that the status
  newAssumedSharedGPUPod looked up is still the map's when it empties the uid
  (`StatusInHand`).  While a pod is replaced its status has no uid (`KeptWhileReplaced`), so
  that the late deletion of the original matches nothing.
- `Scheduler_proofs!PodNeverLost`: if no creation fails (`MaxCreateErrors = 0`; with
  a failure the pod is lost, the code only logs it), a wanted pod is in the API server
  or Reserve is about to create its shadow.
- `SchedulerAccounts_proofs!PortCorrect` and `PortsStayExclusive`: `PortsExclusive` is a
  fact about annotations in the API server, and deletePod decides with `podStatus`.
  `PortInv` joins them: the port of an alive pod is that of its status
  (`PortsOfTheAlive`, which allows for the moment before Reserve assigns the uid), a
  status's port is masked and no other status of the node has it (`PortsOfStatuses`), nor
  the one that deletePod has yet to unmask of a status it took out (`PortOfTheEnded`),
  and a pod that is not bound has none (`UnboundHasNoPort`).  That a new port is no
  status's is `FindNextIsFree`.
- `SchedulerAccounts_proofs!ShareCorrect` and `ShareNeverNegative`: between the choice of
  a leaf and its reservation the informer may run.  It only gives back, and never what was
  chosen and not yet reserved (`ChosenStillFits`).
- `SchedulerGpus_proofs!GpuNeverOvercommitted` and `MemoryNeverOvercommitted`:
  `NoGpuOvercommit` and `NoMemoryOvercommit` sum what annotations say of alive pods.
  The invariants behind them, `GpuInv` and `FreeInv`, sum what the *statuses* hold of a
  leaf (`TakenOf`, `TakenMemoryOf`): with what deletePod has yet to give back of a status it
  took out (`Returning`) and with what is left it makes up no more than the leaf,
  and every alive pod's GPUs are its status's (`GpusOfTheAlive`), so it holds no
  less there.  Reserve's loop over the cells of a multi-GPU pod takes one cell at a
  time, so a status holds the cells it has been through and no others (`NotYetTaken`),
  and each cell it still has to take is whole and nobody else's.  `AccountsCorrect` puts
  the four parts together as the `AccountInv` of the run `reuse`.
- `SchedulerGpus_proofs!SchedulerImplementsAllocator`: every step is a `Grant`, a
  `Release` or nothing to `GpuAllocator`.  The abstract state is what the annotations of
  alive pods say; a pod is granted its GPUs in `ReserveCreate`, at once, and that they
  are free then is `NoGpuOvercommit` and `NoMemoryOvercommit` of the next state.

Those about memory, `AccountsCorrect` and the refinement need one hypothesis more.
`SharedAskBoth`: shared pods say how much memory they need; for one that does not, Reserve
sets a default after the choice of the GPU (`pod.go:420`), and the memory may be
over-committed.

- `SchedulerGpus_proofs!GpusAlwaysAsRequested`: a multi-GPU pod that is alive has as many
  GPUs as it asks for.  Filter decides by what is *left* of a node, while
  Reserve takes whole leaves (`filter.go:55`), which is enough in two cases: `NobodyShares`
  (every request is of whole GPUs) or `WholeNodes` (a multi-GPU pod asks for all of its
  node); in others it is not, as `fragments` shows.  `RequestInv` has a conjunct for each
  point where the number could change: a leaf is whole or taken (`Unbroken`); the nodes
  that fit keep enough whole leaves until Reserve chooses, since meanwhile the informer
  only gives back (`FitsAreWhole`); and what is chosen is what is annotated
  (`ChosenAsRequested`).
- `SchedulerGpus_proofs!AccountsAlwaysExact`: whenever the informer has caught up and no
  cycle runs, the accounts *equal* what the annotations of alive pods leave: nothing
  leaks.  `ExactInv` makes the inequalities of `GpuInv` and `FreeInv` equations
  (`SharesExact`, `MemoryExact`), and so needs to know what they do not: a status
  holds nothing before its pod was in Reserve (`HeldFromReserve`, which needs
  `FirstIsUnbound`), hence PreFilter, which overwrites statuses, loses nothing; whatever
  a status holds is a living pod's, or one's in Reserve, or an event that will drop it is
  on its way (`HeldUntilHandled`); and the uid that deletePod compares is the shadow's by
  then (`UidWhileReplaced`, `ShadowForSure`).  For ports, a masked one is some
  status's, and a status's is its pod's (`PortsExact`, `PortsAnnotated`).  Hypotheses:
  `SharedAskBoth` and `Undisturbed`, which are `OriginalsStay`, `ShadowsStay`, no refused
  creation, and one pod and its shadow to a name: each of them is needed, since Reserve keeps
  what it took when a creation fails (`scheduler.go:523`), an end handled before
  the uid is written gives nothing back (`scheduler.go:526`), and PreFilter overwrites the
  status of an earlier pod of the same name.  `CalmCorrect` has both invariants together
  as the `CalmInv` of the run `calm`, whose workload satisfies all these hypotheses.

Sums over sets are folds, and induction over them cannot be cited from the library, whose
theorems take an operator.  `FiniteSums_proofs` does it by a minimal counterexample
(`MinimalSubset`: inclusion between subsets of a finite set is well-founded): there is a
function that sums every subset (`SummationExists`), `MapThenSumSet` is it
(`TotalIsSummation`), and a sum changes by what one term changes (`TotalChange`,
`TotalSplit`, `TotalMonotone`).

**The other components**

- `CellTree_proofs!ChainElementsAgree` and `ChainEveryTypeAdded`, for every finite set of cell
  types that satisfies `TypesAssumption` and every order of the map.  `CallsInv` says
  what the recursion knows: each active call of addCell but the outermost is for the
  child of the type of the call before it, with the priority that type gives; without it
  a model could get the priority buildCellChains starts with.  `VisitedInv`: a type that
  was visited has its element, or its call is the outermost.
  `NodeHealth_proofs!NodeElementsAgree` and `NodeEveryTypeAdded` say that they stay
  true when the cells are built and used.
- `NodeHealth_proofs!HealthInvariant`: `HealthSpec => []HealthInv`, and from it
  `NodeHealthTypeOK`.  A cell has for good what build gave it (`CellRecord`), what
  is known of a node's GPUs is Prometheus' answer or nothing (`InfoInv`), and an addNode
  between its two critical sections is Filter's or that of the first event left
  (`AddPending`).
- `NodeHealth_proofs!MemoryAlwaysAddsUp`: a leaf that gets a GPU passes its
  memory to every cell above it, and those get it once, because a root is FREE only the
  first time; a cell's memory is the sum of its leaves', however often a node is added.
- `NodeHealth_proofs!HealthyAlwaysOffered` and `HealthyLeafAlwaysHasGpu`.  A root that is
  FREE has no healthy cell below it, and the cells of a root that is one node's are healthy
  together (`StateInv`), so a search that stops at an unhealthy cell misses none.  Each leaf
  of a root that is not FREE has a GPU of its node, and `leafCells` leads from the
  GPU's uuid back to it (`GpuInv`), whichever of two addNodes came last.  The
  conditions on the configuration stand inside the properties, because they are about the
  cells: `RootsAreNodes` (a root with GPUs is one node's; `roots` shows what happens
  otherwise) and, for the second, `CellsHaveGPUs` (no more leaf cells than GPUs; setCellStatus
  would leave the rest without a uuid).  Both hold in `nodes` as soon as the cells are built.
- `NodeHealth_proofs!GpuIdsAlwaysDiffer`: a leaf's id is its place in the row of its level
  below its root, or the name the configuration gives it.  `CellTree_proofs` shows that the
  rows of inferCellSpec are without repetition and hold every cell (each row is
  the children of the row above, in order), so places differ; ids on the way down differ
  because places do.  Hypothesis `LeafNamesDiffer`: if leaf cells are named
  at all, names differ and are no numbers.
- `NodeHealth_proofs!CapacityAlwaysLeaves`: the GPUs a cell starts with, which addCell
  *multiplies* out of types, are as many as the leaf cells *below* it, counted by
  induction on the level.  Hypothesis `ListedInFull`: where the configuration lists a
  cell's children, it lists as many as its type has; inferCellSpec checks that nowhere.
- `NodeHealth_proofs!AlwaysNormalizedInRange` and `ScoresAlwaysFollowUse`, for any set of
  integer scores and priorities and any number of GPUs.  They are about int64 division: it
  is monotone, and so is division that truncates towards zero (`DivMonotone`,
  `TruncatedMonotone`).  A lowest and a highest score exist (`Lowest`, `Highest`) and
  NormalizeScore subtracts the one and divides by what lies between; sums of scores are
  compared term by term (`TotalMonotone`).
- `NodeDaemon_proofs!DaemonConfiguredFirst`, `DaemonTypeCorrect` and
  `DaemonImplements`, for any number of pods and GPUs and of crashes, under the
  hypothesis `MaxSilences = 0`.  The chain of `DaemonInv`: a running pod that is on file
  or has a pod manager is in Prometheus for good, since the series is stale only towards pods
  that started later (`ExportedInv`); so what the daemon is about to write leaves out no such
  pod, and a GPU's ports are written only when its requirements are (`JobInv`); so a file of
  either kind that is whole lists every running pod that has a pod manager, whoever died
  over the other (`FileInv`, `ConfiguredFirst`).  A file that is truncated or lacks lines
  promises nothing: while the daemon writes the requirements, or after it died over
  them, running pods are off file.  A launcher stops pod managers only after a file that is not
  torn: that is the step of the refinement (`ReadAsPromised`).  `FullFile` is
  where the count pays: as many lines as pods of a finite set are all of them.  The
  abstract state is `phaseBar`, `servingBar`, `upBar`; pods that share no GPU stutter.

- `PodGroup_proofs!GroupTypeCorrect`, for any members, labels and groups.
- `PodGroup_proofs!AlwaysOnePlace`: `Spec => []OnePlace`.  `FrameworkInv` adds that a pod in
  the queue, or in a cycle before Reserve, is not in the framework's cache
  (`UnassumedYet`), and that a pod which does not exist is nowhere.
- `PodGroup_proofs!GangStartsUpToMissed`: what Permit counts is in the snapshot of its
  cycle, and in the meantime those pods may time out, be deleted or be rejected at any
  moment; `GangInv` keeps track of them.  A pod with a node starts, waits or is
  about to be sent away (`AssumedKnown`), so those in the snapshot start, wait or were sent
  away since (`SnapshotKnown`); Permit lets the first two start and the rest are
  `missed`; a record has the minAvailable of its members (`RecordsAgree`); and an entry of
  the snapshot is an original or a shadow of a member, so there are no more than members
  that start or are missed, and with a shadow once more (`CountedAre`).  That pods are missed
  is a limit of the code: Reserve makes two calls of the API server between the
  snapshot and the count.  Hypothesis: `UniformGroups`, that the pods of a group are labelled
  alike: PreFilter turns away a pod that disagrees with the record, but by the time of Permit
  the record may be another's.  `RegularGroupsStartUpToMissed`: without GPUs there are no
  shadows, and nobody counts twice.

**Only model-checked.**  Over-commitment of GPUs and memory after a restart (`recover`), and
with it the refinement over restarts: `LifeInv` is about one life of the process.
`GroupStaysTogether`, which compares priorities that a configuration gives to GPU models
with distances of ids, so that it holds for the nodes of the run and not for every cluster
(on a node whose GPUs are not equally deep a distance may be larger than to another node).
All liveness (`EndedIsReclaimed`, `WantedIsBound`, `StatusFollowsNode`,
`GroupGetsBound`, `RunningPodIsServed`, `EndedPodIsDropped`), which this prover has no
rules for.

## 5. Not modelled

- The validation of pod labels: pods are well-formed.  A change of the configuration
  file, which ends the process (`watchConfig`), and configurations that name unknown types.
- The race of Mask and Unmask on a word of the bitmap and the races on Go maps: a set
  is masked atomically, a crash is `Restart`.
- Rounding of float64 shares and scores: shares are whole units.
- A deletion the informer missed (`DeletedFinalStateUnknown`).
- `podGroupInfoGC`: it deletes records that are marked as expired, and nothing marks one.
- query-ip, signals, the logger: helpers that run once or only print.  Queue, stack
  and set: containers, a queue is a sequence.  Gemini and its hook are not in the
  repository.  `launch-backend.py` is an older launcher that nothing starts.

## 6. Plan

1. Less as a strict weak order; a condition on priorities under which a group stays together.
2. Over-commitment through restarts, under `ListedFirst`.
3. `BitmapWords`: Mask and Unmask as a read and a write of a word, by two goroutines.
4. Runs of `Scheduler`: the loss of a pod by a crash, liveness over restarts, a deletion
   the informer missed.  Two groups in `PodGroup`.
