------------------------------ MODULE NodeDaemon ------------------------------
(***************************************************************************)
(* From the pods that run on a node to the pod managers that serve them:   *)
(* the aggregator exports the requirements of running pods, Prometheus     *)
(* scrapes them (pkg/aggregator), the configuration daemon of the node     *)
(* asks Prometheus whenever its pod informer calls it and writes, for each *)
(* GPU, a file of requirements and a file of ports (pkg/config), and the   *)
(* launcher of the GPU starts and stops pod managers after the latter      *)
(* (docker/kubeshare-gemini-scheduler).                                    *)
(*                                                                         *)
(* A file is what its lines say: a count and pods.  It is written line by  *)
(* line: the launcher may read it, and the daemon may die, at any moment.  *)
(***************************************************************************)
EXTENDS Integers, FiniteSets

CONSTANTS
  Pods,         \* the pods of this node that have the label gpu_limit
  Label,        \* of a pod: its gpu, and shared (limit <= 1)
  GPUs,
  Elsewhere,    \* there is a shared pod on another node
  NoJob, NoGPU, NoFile, NoCount,
  CalmStart,    \* no launcher makes its first read of a half-written file
  MaxSilences,  \* bound: queries Prometheus does not answer
  MaxCrashes    \* bound: crashes of the daemon and of the launchers' container

VARIABLES
  phase,      \* of a pod
  series,     \* the pods whose requirements Prometheus has
  notified,   \* a handler of the daemon's informer is to be called
  job,        \* what the daemon is about to write
  file,       \* of requirements or of ports, by GPU: its count and its pods
  closed,     \* GPUs whose launcher has an inotify event to read
  launcher,   \* of a GPU: "first" read, "watch" to be added, "ready", or "dead"
  podlist,    \* of a launcher: the pods it runs a pod manager for
  silences, crashes

daemonVars   == <<notified, job>>
launcherVars == <<launcher, podlist>>
bounds       == <<silences, crashes>>
vars == <<phase, series, daemonVars, file, closed, launcherVars, bounds>>

Files == {"config", "ports"} \X GPUs

ASSUME NodeAssumption ==
  /\ Label \in [Pods -> [gpu : GPUs \cup {NoGPU}, shared : BOOLEAN]]
  /\ \A p \in Pods : Label[p].shared => Label[p].gpu # NoGPU
  /\ NoGPU \notin GPUs /\ NoFile \notin Files /\ NoCount \notin Nat /\ IsFiniteSet(Pods)
  /\ Elsewhere \in BOOLEAN /\ CalmStart \in BOOLEAN
  /\ MaxSilences \in Nat /\ MaxCrashes \in Nat

SharedPods == {p \in Pods : Label[p].shared}
On(g)      == {p \in SharedPods : Label[p].gpu = g}

Config(g) == <<"config", g>>
Ports(g)  == <<"ports", g>>

(* launcher-multigpus.sh makes the files that are not there. *)
Init ==
  /\ phase = [p \in Pods |-> "bound"] /\ series = {}
  /\ notified = TRUE /\ job = NoJob
  /\ file = [f \in Files |-> [count |-> 0, lines |-> {}]]
  /\ closed = {} /\ launcher = [g \in GPUs |-> "first"] /\ podlist = [g \in GPUs |-> {}]
  /\ silences = 0 /\ crashes = 0

-----------------------------------------------------------------------------
(* Pods, aggregator and Prometheus *)

(* The informer has no handler for deletions. *)
PodChanges(p) ==
  /\ \E f \in CASE phase[p] = "bound" -> {"running", "gone"}
                [] phase[p] = "running" -> {"ended", "gone"}
                [] phase[p] = "ended" -> {"gone"}
                [] OTHER -> {} :
       /\ phase' = [phase EXCEPT ![p] = f]
       /\ notified' = (notified \/ (f # "gone" /\ Label[p].shared))
  /\ UNCHANGED <<series, job, file, closed, launcherVars, bounds>>

\* Mutation: the aggregator lists pods in any phase.
getPods_All == {p \in Pods : phase[p] \notin {"bound", "gone"}}

(* getPods and processPod: the running pods with the label gpu_limit. *)
getPods == {p \in Pods : phase[p] = "running"}

Scrape ==
  /\ series' = getPods
  /\ UNCHANGED <<phase, daemonVars, file, closed, launcherVars, bounds>>

-----------------------------------------------------------------------------
(* Configuration daemon *)

\* Mutation: the informer does not resync.
Resync_Never == FALSE

(* Every 30 s the informer calls the handler for the shared pods it knows. *)
Resync == Elsewhere \/ \E p \in SharedPods : phase[p] # "gone"

InformerResyncs ==
  /\ Resync /\ notified' = TRUE
  /\ UNCHANGED <<phase, series, job, file, closed, launcherVars, bounds>>

(* convertData: the pods of each GPU. *)
convertData(result) == [g \in GPUs |-> On(g) \cap result]

(* writeFile writes the files of the GPUs that have pods, cleanFile all of   *)
(* them when none has.                                                       *)
ToWrite(want) ==
  LET used == {g \in GPUs : want[g] # {}} IN IF used = {} THEN GPUs ELSE used

(* queryDecision: the answer of Prometheus, or nothing when there is none. *)
queryDecision(result) ==
  \/ result = series /\ UNCHANGED silences
  \/ result = {} /\ silences < MaxSilences /\ silences' = silences + 1

Handle ==
  /\ notified /\ job = NoJob /\ notified' = FALSE
  /\ \E result \in {series, {}} :
       /\ queryDecision(result)
       /\ LET want == convertData(result) IN
            job' = [todo |-> {"config", "ports"} \X ToWrite(want), want |-> want, open |-> NoFile]
  /\ UNCHANGED <<phase, series, file, closed, launcherVars, crashes>>

\* Mutation: the files of ports come first.
NextFiles_PortsFirst(todo) ==
  LET ports == {f \in todo : f[1] = "ports"} IN IF ports = {} THEN todo ELSE ports

(* The files of requirements come first, the GPUs in any order. *)
NextFiles(todo) ==
  LET configs == {f \in todo : f[1] = "config"} IN IF configs = {} THEN todo ELSE configs

(* os.Create truncates the file, ... *)
Create(f) ==
  /\ job # NoJob /\ job.open = NoFile /\ f \in NextFiles(job.todo)
  /\ job' = [job EXCEPT !.open = f]
  /\ file' = [file EXCEPT ![f] = [count |-> NoCount, lines |-> {}]]
  /\ UNCHANGED <<phase, series, notified, closed, launcherVars, bounds>>

\* Mutation: the count is one too small.
Count_Short(pods) == IF pods = {} THEN 0 ELSE Cardinality(pods) - 1

Count(pods) == Cardinality(pods)

(* ... and then the count and the pods of its GPU are written to it. *)
WriteCount(f) ==
  /\ job # NoJob /\ job.open = f /\ file[f].count = NoCount
  /\ file' = [file EXCEPT ![f].count = Count(job.want[f[2]])]
  /\ UNCHANGED <<phase, series, daemonVars, closed, launcherVars, bounds>>

WriteLine(f) ==
  /\ job # NoJob /\ job.open = f /\ file[f].count # NoCount
  /\ \E p \in job.want[f[2]] \ file[f].lines : file' = [file EXCEPT ![f].lines = @ \cup {p}]
  /\ UNCHANGED <<phase, series, daemonVars, closed, launcherVars, bounds>>

(* The launcher gets an event, if it watches the directory of ports. *)
Closes(f) ==
  closed' = IF f[1] = "ports" /\ launcher[f[2]] = "ready" THEN closed \cup {f[2]} ELSE closed

Close(f) ==
  /\ job # NoJob /\ job.open = f /\ file[f].count # NoCount /\ file[f].lines = job.want[f[2]]
  /\ Closes(f)
  /\ job' = IF job.todo = {f} THEN NoJob ELSE [job EXCEPT !.todo = @ \ {f}, !.open = NoFile]
  /\ UNCHANGED <<phase, series, notified, file, launcherVars, bounds>>

(* The daemon dies, which closes its file, and is started again. *)
DaemonCrash ==
  /\ crashes < MaxCrashes /\ crashes' = crashes + 1
  /\ job' = NoJob /\ notified' = Resync
  /\ IF job # NoJob /\ job.open # NoFile THEN Closes(job.open) ELSE UNCHANGED closed
  /\ UNCHANGED <<phase, series, file, launcherVars, silences>>

-----------------------------------------------------------------------------
(* Launchers *)

Torn(f) == file[f].count # NoCount /\ Cardinality(file[f].lines) < file[f].count

\* Mutation: update_podmanager stops what is not listed before it finds the file torn.
update_podmanager_KillsFirst(g) ==
  IF file[Ports(g)].count = NoCount THEN podlist[g] ELSE file[Ports(g)].lines

(* update_podmanager: nothing is done with an empty file; with a torn one, the *)
(* exception comes after the listed pods were started and before any is        *)
(* stopped.                                                                    *)
update_podmanager(g) ==
  IF file[Ports(g)].count = NoCount THEN podlist[g]
  ELSE IF Torn(Ports(g)) THEN podlist[g] \cup file[Ports(g)].lines
  ELSE file[Ports(g)].lines

(* The first read is outside of the try: its exception ends the launcher. *)
FirstRead(g) ==
  /\ launcher[g] = "first"
  /\ \/ ~ Torn(Ports(g)) /\ launcher' = [launcher EXCEPT ![g] = "watch"]
        /\ podlist' = [podlist EXCEPT ![g] = update_podmanager(g)]
     \/ Torn(Ports(g)) /\ ~ CalmStart /\ launcher' = [launcher EXCEPT ![g] = "dead"]
        /\ UNCHANGED podlist
  /\ UNCHANGED <<phase, series, daemonVars, file, closed, bounds>>

AddWatch(g) ==
  /\ launcher[g] = "watch" /\ launcher' = [launcher EXCEPT ![g] = "ready"]
  /\ UNCHANGED <<phase, series, daemonVars, file, closed, podlist, bounds>>

ReadFile(g) ==
  /\ g \in closed /\ closed' = closed \ {g}
  /\ podlist' = [podlist EXCEPT ![g] = update_podmanager(g)]
  /\ UNCHANGED <<phase, series, daemonVars, file, launcher, bounds>>

(* The container is started again; its pod managers died with it. *)
ContainerCrash ==
  /\ crashes < MaxCrashes /\ crashes' = crashes + 1
  /\ launcher' = [g \in GPUs |-> "first"] /\ podlist' = [g \in GPUs |-> {}] /\ closed' = {}
  /\ UNCHANGED <<phase, series, daemonVars, file, silences>>

-----------------------------------------------------------------------------

Daemon ==
  \/ Handle
  \/ \E f \in Files : Create(f) \/ WriteCount(f) \/ WriteLine(f) \/ Close(f)
Launcher(g) == AddWatch(g) \/ ReadFile(g)

Next ==
  \/ \E p \in Pods : PodChanges(p)
  \/ Scrape \/ InformerResyncs \/ Daemon \/ DaemonCrash \/ ContainerCrash
  \/ \E g \in GPUs : FirstRead(g) \/ Launcher(g)

Whole(f) == file[f].count # NoCount /\ ~ Torn(f)

(* A file is half-written for milliseconds and rewritten every 30 seconds: a *)
(* launcher does not read it in the wrong moment for ever.                   *)
Spec ==
  /\ Init /\ [][Next]_vars
  /\ WF_vars(Scrape) /\ WF_vars(InformerResyncs) /\ WF_vars(Daemon)
  /\ \A g \in GPUs : SF_vars(FirstRead(g)) /\ WF_vars(Launcher(g)) /\ SF_vars(Whole(Ports(g)) /\ ReadFile(g))

-----------------------------------------------------------------------------

(* The type of the state; a file never has more lines than it says. *)
DaemonTypeOK ==
  /\ phase \in [Pods -> {"bound", "running", "ended", "gone"}] /\ series \subseteq Pods
  /\ notified \in BOOLEAN
  /\ \/ job = NoJob
     \/ job \in [todo : SUBSET Files, want : [GPUs -> SUBSET SharedPods], open : Files \cup {NoFile}]
  /\ file \in [Files -> [count : Nat \cup {NoCount}, lines : SUBSET SharedPods]]
  /\ \A f \in Files : IF file[f].count = NoCount THEN file[f].lines = {}
                      ELSE Cardinality(file[f].lines) <= file[f].count
  /\ closed \subseteq {g \in GPUs : launcher[g] = "ready"}
  /\ launcher \in [GPUs -> {"first", "watch", "ready", "dead"}]
  /\ podlist \in [GPUs -> SUBSET SharedPods]
  /\ silences \in 0..MaxSilences /\ crashes \in 0..MaxCrashes

Running(p) == phase[p] = "running"

(* A pod manager is started only when the requirements of its pod were on    *)
(* file, and as long as the pod runs no requirements file that is whole is   *)
(* without them: only while the daemon writes the file, or when it died over *)
(* it, the scheduler of the GPU may have a client it knows nothing about.    *)
ConfiguredFirst ==
  \A g \in GPUs : Whole(Config(g)) =>
    \A p \in podlist[g] : Running(p) => p \in file[Config(g)].lines

(* A shared pod that goes on running gets a pod manager and keeps it, in     *)
(* spite of crashes, torn files and events that come before the metrics.     *)
RunningPodIsServed ==
  \A p \in SharedPods : <>[]Running(p) => <>[](p \in podlist[Label[p].gpu])

(* The files of the GPU are written again: one of its pods runs, or none of   *)
(* the node does and the informer still knows a pod.                          *)
Refreshed(g) ==
  \/ \E p \in On(g) : Running(p)
  \/ (\A p \in SharedPods : ~ Running(p)) /\ Resync

(* The pod manager of a pod that ended, and its port, are given up. *)
EndedPodIsDropped ==
  \A p \in SharedPods :
    <>[](phase[p] \in {"ended", "gone"} /\ Refreshed(Label[p].gpu))
      => <>[](p \notin podlist[Label[p].gpu])

(* What the node promises to the pods that share its GPUs. *)
Managers == INSTANCE PodManagers WITH
  phase   <- [p \in SharedPods |-> phase[p]],
  serving <- UNION {podlist[g] : g \in GPUs},
  up      <- {p \in SharedPods : launcher[Label[p].gpu] \in {"watch", "ready"}}

(* No crash of the daemon, no torn file and no late answer of Prometheus     *)
(* stops the pod manager of a pod that runs, or starts one for a pod that     *)
(* never ran.                                                                 *)
ImplementsPodManagers == Managers!ManagersSpec

=============================================================================
