--------------------------- MODULE NodeDaemon_proofs ---------------------------
(* While Prometheus answers, a node keeps what PodManagers promises, for any  *)
(* number of pods and GPUs, whatever crashes and whoever reads torn files.    *)
EXTENDS NodeDaemon, FiniteSetTheorems, TLAPS

(* What is known of a pod has been exported, so the pod has run; and as long *)
(* as it runs Prometheus goes on having it.                                  *)
Exported(p) == phase[p] # "bound" /\ (Running(p) => p \in series)

ExportedInv ==
  /\ \A p \in series : phase[p] # "bound"
  /\ \A f \in Files : \A p \in file[f].lines : p \in On(f[2]) /\ Exported(p)
  /\ \A g \in GPUs : \A p \in podlist[g] : p \in On(g) /\ Exported(p)

(* What the daemon is about to write leaves out no running pod that is on    *)
(* file or served, and the requirements of a GPU are written before its      *)
(* ports; what is in the file it has open is a part of what it wants there.  *)
JobInv ==
  job # NoJob =>
    /\ \A g \in GPUs : \A p \in job.want[g] : p \in On(g) /\ Exported(p)
    /\ \A f \in Files : \A p \in file[f].lines : Running(p) => p \in job.want[f[2]]
    /\ \A g \in GPUs : \A p \in podlist[g] : Running(p) => p \in job.want[g]
    /\ \A g \in GPUs : Ports(g) \in job.todo /\ Config(g) \notin job.todo
         => file[Config(g)].lines = job.want[g]
    /\ job.open # NoFile =>
         /\ job.open \in job.todo
         /\ \A g \in GPUs : job.open = Ports(g) => Config(g) \notin job.todo
         /\ file[job.open].lines \subseteq job.want[job.open[2]]
         /\ file[job.open].count \in {NoCount, Cardinality(job.want[job.open[2]])}

(* A file that is not torn, neither because it is being written nor because  *)
(* the daemon died over it, leaves out no running pod that the next one has: *)
(* requirements, ports, pod managers.                                        *)
FileInv ==
  \A g \in GPUs :
    /\ Whole(Config(g)) => \A p \in file[Ports(g)].lines : Running(p) => p \in file[Config(g)].lines
    /\ Whole(Ports(g)) => \A p \in podlist[g] : Running(p) => p \in file[Ports(g)].lines

DaemonInv == DaemonTypeOK /\ ExportedInv /\ JobInv /\ FileInv /\ ConfiguredFirst

Contents == [count : Nat \cup {NoCount}, lines : SUBSET SharedPods]
Jobs == [todo : SUBSET Files, want : [GPUs -> SUBSET SharedPods], open : Files \cup {NoFile}]
-----------------------------------------------------------------------------

LEMMA FileFacts ==
  /\ \A g \in GPUs : Config(g) \in Files /\ Ports(g) \in Files
  /\ \A g \in GPUs : Config(g)[2] = g /\ Ports(g)[2] = g
  /\ \A g, h \in GPUs : Config(g) # Ports(h)
  /\ \A g, h \in GPUs : (Config(g) = Config(h) <=> g = h) /\ (Ports(g) = Ports(h) <=> g = h)
  /\ \A f \in Files : f[2] \in GPUs /\ (f = Config(f[2]) \/ f = Ports(f[2]))
  /\ \A f \in Files : (f[1] = "config" <=> f = Config(f[2])) /\ f # NoFile
  BY NodeAssumption DEF Files, Config, Ports

LEMMA OnFinite ==
  \A g \in GPUs : On(g) \subseteq SharedPods /\ IsFiniteSet(On(g))
  <1> TAKE g \in GPUs
  <1>1. On(g) \subseteq SharedPods /\ SharedPods \subseteq Pods
    BY DEF On, SharedPods
  <1> QED
    BY <1>1, FS_Subset, NodeAssumption

(* A file of ports that has as many lines as there are pods has all of them. *)
LEMMA FullFile ==
  ASSUME NEW W, IsFiniteSet(W), NEW lines \in SUBSET W
  PROVE  /\ Cardinality(W) \in Nat /\ Cardinality(lines) \in Nat
         /\ Cardinality(lines) <= Cardinality(W)
         /\ Cardinality(lines) >= Cardinality(W) => lines = W
  <1>1. IsFiniteSet(lines) /\ Cardinality(lines) <= Cardinality(W)
        /\ (Cardinality(lines) = Cardinality(W) => lines = W)
    BY FS_Subset
  <1>2. Cardinality(W) \in Nat /\ Cardinality(lines) \in Nat
    BY <1>1, FS_CardinalityType
  <1> QED
    BY <1>1, <1>2

LEMMA DaemonInitInv == Init => DaemonInv
  <1> SUFFICES ASSUME Init PROVE DaemonInv
    OBVIOUS
  <1> USE DEF Init
  <1>1. DaemonTypeOK
    <2>1. Cardinality({}) = 0
      BY FS_EmptySet
    <2>2. silences \in 0..MaxSilences /\ crashes \in 0..MaxCrashes
      BY NodeAssumption
    <2>3. phase \in [Pods -> {"bound", "running", "ended", "gone"}] /\ series \subseteq Pods
      OBVIOUS
    <2>4. file \in [Files -> [count : Nat \cup {NoCount}, lines : SUBSET SharedPods]]
      OBVIOUS
    <2>5. \A f \in Files : IF file[f].count = NoCount THEN file[f].lines = {}
                           ELSE Cardinality(file[f].lines) <= file[f].count
      <3> TAKE f \in Files
      <3>1. file[f].count = 0 /\ file[f].lines = {}
        OBVIOUS
      <3>2. Cardinality(file[f].lines) = 0
        BY <2>1, <3>1
      <3> HIDE DEF Init
      <3> QED
        BY <3>1, <3>2
    <2>6. /\ launcher \in [GPUs -> {"first", "watch", "ready", "dead"}]
          /\ podlist \in [GPUs -> SUBSET SharedPods]
      OBVIOUS
    <2> QED
      BY <2>2, <2>3, <2>4, <2>5, <2>6 DEF DaemonTypeOK
  <1>2. ExportedInv
    BY DEF ExportedInv
  <1>3. JobInv
    BY DEF JobInv
  <1>4. FileInv
    BY FileFacts DEF FileInv
  <1>5. ConfiguredFirst
    BY DEF ConfiguredFirst
  <1> QED
    BY <1>1, <1>2, <1>3, <1>4, <1>5 DEF DaemonInv

(* Nothing but the daemon's plans change: what is known of the files stays. *)
LEMMA FilesUnchanged ==
  ASSUME FileInv, ConfiguredFirst, UNCHANGED <<phase, file, podlist>>
  PROVE  FileInv' /\ ConfiguredFirst'
  <1>1. \A f : Whole(f)' = Whole(f)
    BY DEF Whole, Torn
  <1> QED
    BY <1>1 DEF FileInv, ConfiguredFirst, Running

(* ... and so does what is known of the pods, and of the plans. *)
LEMMA PodsUnchanged ==
  ASSUME ExportedInv, JobInv, UNCHANGED <<phase, series, file, podlist>>, job' \in {job, NoJob}
  PROVE  ExportedInv' /\ JobInv'
  <1>1. \A p : Exported(p)' = Exported(p) /\ Running(p)' = Running(p)
    BY DEF Exported, Running
  <1>2. ExportedInv'
    BY <1>1 DEF ExportedInv
  <1>3. JobInv'
    BY <1>1 DEF JobInv
  <1> QED
    BY <1>2, <1>3

(* A pod that starts to run has no entry anywhere yet. *)
LEMMA PodChangesInv ==
  ASSUME DaemonInv, NEW p \in Pods, PodChanges(p)
  PROVE  DaemonInv'
  <1> USE DEF DaemonInv
  <1>1. /\ phase' \in [Pods -> {"bound", "running", "ended", "gone"}]
        /\ notified' \in BOOLEAN
        /\ \A q \in Pods : /\ phase[q] # "bound" => phase'[q] # "bound"
                           /\ phase[q] # "bound" /\ Running(q)' => Running(q)
    BY DEF PodChanges, DaemonTypeOK, Running
  <1>2. UNCHANGED <<series, job, file, closed, launcherVars, bounds>>
    BY DEF PodChanges
  <1> USE <1>2 DEF launcherVars, bounds
  <1>3. DaemonTypeOK'
    BY <1>1 DEF DaemonTypeOK
  <1>4. series \subseteq Pods /\ \A g \in GPUs : On(g) \subseteq Pods
    BY DEF DaemonTypeOK, On, SharedPods
  <1>9. \A q \in Pods : Exported(q) => Exported(q)' /\ (Running(q)' => Running(q))
    BY <1>1 DEF Exported
  <1>5. ExportedInv'
    BY <1>1, <1>4, <1>9, FileFacts DEF ExportedInv
  <1>6. JobInv'
    <2>1. \A f \in Files : \A q \in file[f].lines : Running(q)' => Running(q)
      BY <1>4, <1>9, FileFacts DEF ExportedInv
    <2>2. \A g \in GPUs : \A q \in podlist[g] : Running(q)' => Running(q)
      BY <1>4, <1>9 DEF ExportedInv
    <2>3. job # NoJob => \A g \in GPUs : \A q \in job.want[g] : q \in On(g) /\ Exported(q)'
      BY <1>4, <1>9 DEF JobInv
    <2> QED
      BY <2>1, <2>2, <2>3 DEF JobInv
  <1>7. FileInv' /\ ConfiguredFirst'
    <2>1. \A g \in GPUs : \A q \in file[Ports(g)].lines \cup podlist[g] : Running(q)' => Running(q)
      BY <1>4, <1>9, FileFacts DEF ExportedInv
    <2>2. \A f : Whole(f)' = Whole(f)
      BY DEF Whole, Torn
    <2> QED
      BY <2>1, <2>2 DEF FileInv, ConfiguredFirst
  <1> QED
    BY <1>3, <1>5, <1>6, <1>7

LEMMA ScrapeInv ==
  ASSUME DaemonInv, Scrape
  PROVE  DaemonInv'
  <1> USE DEF DaemonInv
  <1>1. series' = {p \in Pods : Running(p)}
    BY DEF Scrape, getPods, Running
  <1>2. UNCHANGED <<phase, notified, job, file, closed, launcher, podlist, silences, crashes>>
    BY DEF Scrape, daemonVars, launcherVars, bounds
  <1> USE <1>2
  <1>3. DaemonTypeOK'
    BY <1>1 DEF DaemonTypeOK
  <1>4. \A g \in GPUs : On(g) \subseteq Pods
    BY DEF On, SharedPods
  <1>5. \A q \in Pods : Running(q)' = Running(q) /\ (Exported(q) => Exported(q)')
    BY <1>1 DEF Exported, Running
  <1>6. ExportedInv'
    BY <1>1, <1>4, <1>5, FileFacts DEF ExportedInv, Running
  <1>7. JobInv'
    <2>1. job # NoJob => \A g \in GPUs : \A q \in job.want[g] : q \in On(g) /\ Exported(q)'
      BY <1>4, <1>5 DEF JobInv
    <2> QED
      BY <2>1 DEF JobInv, Running
  <1>8. FileInv' /\ ConfiguredFirst'
    BY FilesUnchanged
  <1> QED
    BY <1>3, <1>6, <1>7, <1>8

LEMMA InformerResyncsInv ==
  ASSUME DaemonInv, InformerResyncs
  PROVE  DaemonInv'
  <1> USE DEF DaemonInv
  <1>1. /\ notified' = TRUE
        /\ UNCHANGED <<phase, series, job, file, closed, launcher, podlist, silences, crashes>>
    BY DEF InformerResyncs, launcherVars, bounds
  <1> USE <1>1
  <1>2. DaemonTypeOK'
    BY DEF DaemonTypeOK
  <1>3. ExportedInv' /\ JobInv'
    BY PodsUnchanged
  <1>4. FileInv' /\ ConfiguredFirst'
    BY FilesUnchanged
  <1> QED
    BY <1>2, <1>3, <1>4

(* The answer of Prometheus has every running pod that is on file. *)
LEMMA HandleInv ==
  ASSUME MaxSilences = 0, DaemonInv, Handle
  PROVE  DaemonInv'
  <1> USE DEF DaemonInv
  <1> DEFINE want == convertData(series)
             new == [todo |-> {"config", "ports"} \X ToWrite(want), want |-> want, open |-> NoFile]
  <1>1. /\ job' = new /\ notified' = FALSE /\ silences' = silences
        /\ UNCHANGED <<phase, series, file, closed, launcher, podlist, crashes>>
    <2>1. ~ silences < MaxSilences
      BY DEF DaemonTypeOK
    <2>2. PICK result \in {series, {}} :
            /\ queryDecision(result)
            /\ job' = [todo |-> {"config", "ports"} \X ToWrite(convertData(result)),
                       want |-> convertData(result), open |-> NoFile]
      BY DEF Handle
    <2>3. result = series /\ silences' = silences
      BY <2>1, <2>2 DEF queryDecision
    <2> QED
      BY <2>2, <2>3 DEF Handle, launcherVars
  <1>2. /\ want \in [GPUs -> SUBSET SharedPods]
        /\ \A g \in GPUs : want[g] = On(g) \cap series
    BY OnFinite DEF convertData
  <1>3. ToWrite(want) \subseteq GPUs
    BY DEF ToWrite
  <1>4. /\ new \in Jobs /\ new.want = want /\ new.open = NoFile
        /\ \A g : Ports(g) \in new.todo => Config(g) \in new.todo
    <2> HIDE DEF want
    <2> QED
      BY <1>2, <1>3 DEF Jobs, Files, Config, Ports
  <1> HIDE DEF want, new
  <1>5. DaemonTypeOK'
    BY <1>1, <1>4 DEF DaemonTypeOK, Jobs
  <1>9. \A p : Exported(p)' = Exported(p) /\ Running(p)' = Running(p)
    BY <1>1 DEF Exported, Running
  <1>6. ExportedInv'
    BY <1>1, <1>9 DEF ExportedInv
  <1>7. JobInv'
    <2>1. \A g \in GPUs : \A p \in want[g] : p \in On(g) /\ Exported(p)
      BY <1>2, OnFinite DEF ExportedInv, Exported
    <2>2. /\ \A f \in Files : \A p \in file[f].lines : Running(p) => p \in want[f[2]]
          /\ \A g \in GPUs : \A p \in podlist[g] : Running(p) => p \in want[g]
      BY <1>2, FileFacts DEF ExportedInv, Exported
    <2> QED
      BY <1>1, <1>4, <1>9, <2>1, <2>2 DEF JobInv
  <1>8. FileInv' /\ ConfiguredFirst'
    BY <1>1, FilesUnchanged
  <1> QED
    BY <1>5, <1>6, <1>7, <1>8

-----------------------------------------------------------------------------

(* A new file is empty, and tells nobody anything. *)
LEMMA CreateInv ==
  ASSUME DaemonInv, NEW f \in Files, Create(f)
  PROVE  DaemonInv'
  <1> USE DEF DaemonInv
  <1> DEFINE new == [job EXCEPT !.open = f]
             empty == [count |-> NoCount, lines |-> {}]
  <1>1. /\ job # NoJob /\ job \in Jobs /\ f \in NextFiles(job.todo)
        /\ file' = [file EXCEPT ![f] = empty] /\ job' = new
        /\ UNCHANGED <<phase, series, notified, closed, launcher, podlist, silences, crashes>>
    BY DEF Create, launcherVars, bounds, DaemonTypeOK, Jobs
  <1>2. /\ new \in Jobs /\ new.want = job.want /\ new.open = f /\ new.todo = job.todo
    BY <1>1 DEF Jobs
  <1>3. /\ empty \in Contents /\ empty.count = NoCount /\ empty.lines = {}
    BY DEF Contents
  <1> HIDE DEF new, empty
  <1>4. /\ file' \in [Files -> Contents]
        /\ file'[f].count = NoCount /\ file'[f].lines = {}
        /\ \A x \in Files \ {f} : file'[x] = file[x]
    BY <1>1, <1>3 DEF DaemonTypeOK, Contents
  <1>5. \A x \in Files : file'[x].lines \subseteq file[x].lines
    BY <1>4
  <1>6. /\ f \in job.todo
        /\ \A g \in GPUs : f = Ports(g) => Config(g) \notin job.todo
    BY <1>1, FileFacts DEF NextFiles, Config, Ports
  <1>7. DaemonTypeOK'
    BY <1>1, <1>2, <1>4 DEF DaemonTypeOK, Jobs, Contents
  <1>8. \A p : Exported(p)' = Exported(p) /\ Running(p)' = Running(p)
    BY <1>1 DEF Exported, Running
  <1>9. ExportedInv'
    BY <1>1, <1>5, <1>8 DEF ExportedInv
  <1>10. JobInv'
    <2>1. \A g \in GPUs : Ports(g) \in job.todo /\ Config(g) \notin job.todo
            => file'[Config(g)].lines = job.want[g]
      BY <1>4, <1>6, <1>1, FileFacts DEF JobInv
    <2>2. \A x \in Files : \A p \in file'[x].lines : Running(p) => p \in job.want[x[2]]
      BY <1>1, <1>5 DEF JobInv
    <2> QED
      BY <1>1, <1>2, <1>4, <1>6, <1>8, <2>1, <2>2 DEF JobInv
  <1>11. \A x \in Files : Whole(x)' => x # f /\ Whole(x)
    BY <1>4 DEF Whole, Torn
  <1>12. FileInv' /\ ConfiguredFirst'
    BY <1>1, <1>4, <1>5, <1>8, <1>11, FileFacts DEF FileInv, ConfiguredFirst
  <1> QED
    BY <1>7, <1>9, <1>10, <1>12

(* While the daemon writes the lines of a file, the file is torn until it     *)
(* lists all pods of the GPU that the daemon was told of.                     *)
LEMMA WriteInv ==
  ASSUME DaemonInv, NEW f \in Files, NEW lines \in SUBSET job.want[f[2]],
         job # NoJob, job.open = f,
         file' = [file EXCEPT ![f] = [count |-> Cardinality(job.want[f[2]]), lines |-> lines]],
         UNCHANGED <<phase, series, daemonVars, closed, launcherVars, bounds>>
  PROVE  DaemonInv'
  <1> USE DEF DaemonInv
  <1> DEFINE want == job.want[f[2]]
             n == Cardinality(want)
             new == [count |-> n, lines |-> lines]
  <1>1. /\ UNCHANGED <<phase, series, notified, job, closed, launcher, podlist, silences, crashes>>
        /\ file' = [file EXCEPT ![f] = new]
    BY DEF daemonVars, launcherVars, bounds
  <1>2. /\ job \in Jobs /\ want \subseteq On(f[2]) /\ f # NoFile /\ f \in job.todo /\ f[2] \in GPUs
        /\ \A g \in GPUs : f = Ports(g) => Config(g) \notin job.todo
    BY FileFacts DEF DaemonTypeOK, Jobs, JobInv
  <1>3. IsFiniteSet(want) /\ want \subseteq SharedPods
    BY <1>2, OnFinite, FS_Subset
  <1>4. /\ n \in Nat /\ Cardinality(lines) \in Nat /\ Cardinality(lines) <= n
        /\ Cardinality(lines) >= n => lines = want
    BY <1>3, FullFile
  <1>5. n # NoCount
    BY <1>4, NodeAssumption
  <1>a. lines \subseteq want
    OBVIOUS
  <1> HIDE DEF n, want
  <1>6. new \in Contents /\ new.count = n /\ new.lines = lines
    BY <1>3, <1>4, <1>a DEF Contents
  <1> HIDE DEF new
  <1>7. /\ file' \in [Files -> Contents]
        /\ file'[f].count = n /\ file'[f].lines = lines
        /\ \A x \in Files \ {f} : file'[x] = file[x]
    BY <1>1, <1>6 DEF DaemonTypeOK, Contents
  <1>8. DaemonTypeOK'
    <2>1. \A x \in Files : IF file'[x].count = NoCount THEN file'[x].lines = {}
                           ELSE Cardinality(file'[x].lines) <= file'[x].count
      <3> TAKE x \in Files
      <3>1. CASE x = f
        BY <1>4, <1>5, <1>7, <3>1
      <3>2. CASE x # f
        BY <1>7, <3>2 DEF DaemonTypeOK
      <3> QED
        BY <3>1, <3>2
    <2> QED
      BY <1>1, <1>7, <2>1 DEF DaemonTypeOK, Contents
  <1>9. \A p : Exported(p)' = Exported(p) /\ Running(p)' = Running(p)
    BY <1>1 DEF Exported, Running
  <1>10. want = job.want[f[2]] /\ \A p \in want : p \in On(f[2]) /\ Exported(p)
    BY <1>2 DEF JobInv, want
  <1>11. ExportedInv'
    <2>1. \A x \in Files : \A p \in file'[x].lines : p \in On(x[2]) /\ Exported(p)
      BY <1>7, <1>10, <1>a DEF ExportedInv
    <2> QED
      BY <1>1, <1>9, <2>1 DEF ExportedInv
  <1>12. JobInv'
    <2>1. \A x \in Files : \A p \in file'[x].lines : Running(p) => p \in job.want[x[2]]
      BY <1>7, <1>10, <1>a DEF JobInv
    <2>2. \A g \in GPUs : Ports(g) \in job.todo /\ Config(g) \notin job.todo
            => file'[Config(g)].lines = job.want[g]
      BY <1>2, <1>7, FileFacts DEF JobInv
    <2>3. /\ file'[f].lines \subseteq job.want[f[2]]
          /\ file'[f].count \in {NoCount, Cardinality(job.want[f[2]])}
      BY <1>7, <1>10, <1>a DEF n
    <2> QED
      BY <1>1, <1>2, <1>9, <2>1, <2>2, <2>3 DEF JobInv
  <1>13. Whole(f)' => lines = want
    BY <1>4, <1>5, <1>7 DEF Whole, Torn
  <1>14. \A x \in Files \ {f} : Whole(x)' = Whole(x)
    BY <1>7 DEF Whole, Torn
  <1>15. /\ \A p \in podlist[f[2]] : Running(p) => p \in want
         /\ \A p \in file[Ports(f[2])].lines : Running(p) => p \in want
    BY <1>2, <1>10, FileFacts DEF JobInv
  <1>16. CASE f = Config(f[2])
    <2>1. \A g \in GPUs : Ports(g) # f /\ (Config(g) = f => g = f[2])
      BY <1>2, <1>16, FileFacts
    <2>2. \A g \in GPUs : file'[Ports(g)] = file[Ports(g)] /\ Whole(Ports(g))' = Whole(Ports(g))
      BY <1>7, <1>14, <2>1, FileFacts
    <2>3. ASSUME NEW g \in GPUs, Whole(Config(g))'
          PROVE  \A p \in podlist[g] \cup file[Ports(g)].lines :
                   Running(p) => p \in file'[Config(g)].lines
      <3>1. CASE Config(g) = f
        BY <1>7, <1>13, <1>15, <2>1, <2>3, <3>1
      <3>2. CASE Config(g) # f
        BY <1>7, <1>14, <2>3, <3>2, FileFacts DEF FileInv, ConfiguredFirst
      <3> QED
        BY <3>1, <3>2
    <2>4. FileInv'
      BY <1>1, <1>9, <2>2, <2>3 DEF FileInv
    <2>5. ConfiguredFirst'
      BY <1>1, <1>9, <2>3 DEF ConfiguredFirst
    <2> QED
      BY <1>8, <1>11, <1>12, <2>4, <2>5
  <1>17. CASE f = Ports(f[2])
    <2>1. \A g \in GPUs : Config(g) # f /\ (Ports(g) = f => g = f[2])
      BY <1>2, <1>17, FileFacts
    <2>2. \A g \in GPUs : /\ file'[Config(g)] = file[Config(g)]
                          /\ Whole(Config(g))' = Whole(Config(g))
      BY <1>7, <1>14, <2>1, FileFacts
    <2>3. file[Config(f[2])].lines = want
      BY <1>2, <1>10, <1>17 DEF JobInv
    <2>4. ASSUME NEW g \in GPUs
          PROVE  /\ Whole(Config(g)) => \A p \in file'[Ports(g)].lines :
                      Running(p) => p \in file[Config(g)].lines
                 /\ Whole(Ports(g))' => \A p \in podlist[g] : Running(p) => p \in file'[Ports(g)].lines
      <3>1. CASE Ports(g) = f
        BY <1>7, <1>13, <1>15, <1>a, <2>1, <2>3, <3>1
      <3>2. CASE Ports(g) # f
        BY <1>7, <1>14, <3>2, FileFacts DEF FileInv
      <3> QED
        BY <3>1, <3>2
    <2>5. FileInv'
      BY <1>1, <1>9, <2>2, <2>4 DEF FileInv
    <2>6. ConfiguredFirst'
      BY <1>1, <1>9, <2>2 DEF ConfiguredFirst
    <2> QED
      BY <1>8, <1>11, <1>12, <2>5, <2>6
  <1> QED
    BY <1>16, <1>17, FileFacts

LEMMA WriteCountInv ==
  ASSUME DaemonInv, NEW f \in Files, WriteCount(f)
  PROVE  DaemonInv'
  <1>1. /\ job # NoJob /\ job.open = f /\ file[f].count = NoCount
        /\ file' = [file EXCEPT ![f].count = Cardinality(job.want[f[2]])]
        /\ UNCHANGED <<phase, series, daemonVars, closed, launcherVars, bounds>>
    BY DEF WriteCount, Count
  <1>2. file[f] \in Contents /\ file[f].lines = {}
    BY <1>1 DEF DaemonInv, DaemonTypeOK, Contents
  <1> DEFINE n == Cardinality(job.want[f[2]])
  <1>3. [file[f] EXCEPT !.count = n] = [count |-> n, lines |-> {}]
    <2> HIDE DEF n
    <2> QED
      BY <1>2 DEF Contents
  <1>4. file' = [file EXCEPT ![f] = [count |-> n, lines |-> {}]]
    <2>1. file' = [file EXCEPT ![f] = [file[f] EXCEPT !.count = n]]
      BY <1>1, Zenon
    <2> QED
      BY <1>3, <2>1, Zenon
  <1>5. {} \in SUBSET job.want[f[2]]
    OBVIOUS
  <1> QED
    BY <1>1, <1>4, <1>5, WriteInv

LEMMA WriteLineInv ==
  ASSUME DaemonInv, NEW f \in Files, WriteLine(f)
  PROVE  DaemonInv'
  <1>1. /\ job # NoJob /\ job.open = f /\ file[f].count # NoCount
        /\ UNCHANGED <<phase, series, daemonVars, closed, launcherVars, bounds>>
    BY DEF WriteLine
  <1>2. PICK p \in job.want[f[2]] : file' = [file EXCEPT ![f].lines = @ \cup {p}]
    BY DEF WriteLine
  <1>3. /\ file[f] \in Contents
        /\ file[f].lines \subseteq job.want[f[2]] /\ file[f].count = Cardinality(job.want[f[2]])
    BY <1>1, FileFacts DEF DaemonInv, DaemonTypeOK, Contents, JobInv
  <1> DEFINE lines == file[f].lines \cup {p}
  <1>4. lines \in SUBSET job.want[f[2]]
    BY <1>3
  <1> DEFINE n == Cardinality(job.want[f[2]])
  <1>5. file' = [file EXCEPT ![f] = [count |-> n, lines |-> lines]]
    <2>1. [file[f] EXCEPT !.lines = lines] = [count |-> n, lines |-> lines]
      <3> HIDE DEF lines
      <3>1. file[f].count = n /\ file[f] \in Contents
        BY <1>3
      <3> HIDE DEF n
      <3> QED
        BY <3>1 DEF Contents
    <2>2. file' = [file EXCEPT ![f] = [file[f] EXCEPT !.lines = lines]]
      BY <1>2, Zenon
    <2> QED
      BY <2>1, <2>2, Zenon
  <1> HIDE DEF lines
  <1> QED
    BY <1>1, <1>4, <1>5, WriteInv

-----------------------------------------------------------------------------

(* Plans and events change, no file does. *)
LEMMA CloseInv ==
  ASSUME DaemonInv, NEW f \in Files, Close(f)
  PROVE  DaemonInv'
  <1> USE DEF DaemonInv
  <1> DEFINE rest == [job EXCEPT !.todo = @ \ {f}, !.open = NoFile]
  <1>1. /\ job # NoJob /\ job \in Jobs /\ job' \in {NoJob, rest}
        /\ file[f].lines = job.want[f[2]]
        /\ closed' \subseteq {x \in GPUs : launcher[x] = "ready"}
        /\ UNCHANGED <<phase, series, notified, file, launcher, podlist, silences, crashes>>
    BY FileFacts DEF Close, Closes, launcherVars, bounds, DaemonTypeOK, Jobs
  <1>2. /\ rest \in Jobs /\ rest.want = job.want /\ rest.open = NoFile
        /\ rest.todo = job.todo \ {f}
    BY <1>1 DEF Jobs
  <1> HIDE DEF rest
  <1>3. DaemonTypeOK'
    BY <1>1, <1>2 DEF DaemonTypeOK, Jobs
  <1>4. \A p : Exported(p)' = Exported(p) /\ Running(p)' = Running(p)
    BY <1>1 DEF Exported, Running
  <1>5. ExportedInv'
    BY <1>1, <1>4 DEF ExportedInv
  <1>6. JobInv'
    <2>1. \A g \in GPUs : Ports(g) \in rest.todo /\ Config(g) \notin rest.todo
            => file[Config(g)].lines = job.want[g]
      BY <1>1, <1>2, FileFacts DEF JobInv
    <2> QED
      BY <1>1, <1>2, <1>4, <2>1 DEF JobInv
  <1>7. FileInv' /\ ConfiguredFirst'
    BY <1>1, FilesUnchanged
  <1> QED
    BY <1>3, <1>5, <1>6, <1>7

LEMMA DaemonCrashInv ==
  ASSUME DaemonInv, DaemonCrash
  PROVE  DaemonInv'
  <1> USE DEF DaemonInv
  <1>1. /\ job' = NoJob /\ notified' \in BOOLEAN /\ crashes' \in 0..MaxCrashes
        /\ UNCHANGED <<phase, series, file, launcher, podlist, silences>>
    BY NodeAssumption DEF DaemonCrash, Resync, launcherVars, DaemonTypeOK
  <1>2. closed' \subseteq {x \in GPUs : launcher[x] = "ready"}
    <2>1. job # NoJob /\ job.open # NoFile => job.open \in Files
      BY DEF DaemonTypeOK
    <2> QED
      BY <2>1, FileFacts DEF DaemonCrash, Closes, DaemonTypeOK
  <1>3. DaemonTypeOK'
    BY <1>1, <1>2 DEF DaemonTypeOK
  <1>4. ExportedInv' /\ JobInv'
    BY <1>1, PodsUnchanged
  <1>5. FileInv' /\ ConfiguredFirst'
    BY <1>1, FilesUnchanged
  <1> QED
    BY <1>3, <1>4, <1>5

(* A launcher takes its pods from the file; while that is torn it stops none. *)
LEMMA UpdateInv ==
  ASSUME DaemonInv, NEW g \in GPUs,
         podlist' = [podlist EXCEPT ![g] = update_podmanager(g)],
         UNCHANGED <<phase, series, daemonVars, file, silences, crashes>>,
         launcher' \in [GPUs -> {"first", "watch", "ready", "dead"}],
         closed' \subseteq {x \in GPUs : launcher'[x] = "ready"}
  PROVE  DaemonInv'
  <1> USE DEF DaemonInv
  <1> DEFINE new == update_podmanager(g)
  <1>1. /\ UNCHANGED <<phase, series, notified, job, file, silences, crashes>>
        /\ podlist' = [podlist EXCEPT ![g] = new]
    BY DEF daemonVars
  <1>2. /\ new \subseteq podlist[g] \cup file[Ports(g)].lines
        /\ Whole(Ports(g)) => new = file[Ports(g)].lines
    BY DEF update_podmanager, Whole
  <1> HIDE DEF new
  <1>3. /\ podlist' \in [GPUs -> SUBSET SharedPods] /\ podlist'[g] = new
        /\ \A x \in GPUs \ {g} : podlist'[x] = podlist[x]
    BY <1>1, <1>2, FileFacts DEF DaemonTypeOK
  <1>4. \A x \in GPUs : podlist'[x] \subseteq podlist[x] \cup file[Ports(x)].lines
    BY <1>2, <1>3
  <1>5. DaemonTypeOK'
    <2>1. /\ launcher' \in [GPUs -> {"first", "watch", "ready", "dead"}]
          /\ closed' \subseteq {x \in GPUs : launcher'[x] = "ready"}
          /\ podlist' \in [GPUs -> SUBSET SharedPods]
      BY <1>3
    <2> HIDE DEF new
    <2> QED
      BY <1>1, <2>1 DEF DaemonTypeOK
  <1>6. \A p : Exported(p)' = Exported(p) /\ Running(p)' = Running(p)
    BY <1>1 DEF Exported, Running
  <1>7. ExportedInv' /\ JobInv'
    <2>1. \A x \in GPUs : \A p \in podlist'[x] : p \in On(x) /\ Exported(p)
      BY <1>4, FileFacts DEF ExportedInv
    <2>2. job # NoJob => \A x \in GPUs : \A p \in podlist'[x] : Running(p) => p \in job.want[x]
      BY <1>4, FileFacts DEF JobInv
    <2>3. ExportedInv'
      BY <1>1, <1>6, <2>1 DEF ExportedInv
    <2>4. JobInv'
      BY <1>1, <1>6, <2>2 DEF JobInv
    <2> QED
      BY <2>3, <2>4
  <1>8. \A f : Whole(f)' = Whole(f)
    BY <1>1 DEF Whole, Torn
  <1>9. FileInv'
    <2> SUFFICES ASSUME NEW x \in GPUs, Whole(Ports(x))
                 PROVE  \A p \in podlist'[x] : Running(p) => p \in file[Ports(x)].lines
      BY <1>1, <1>6, <1>8 DEF FileInv
    <2>1. CASE x = g
      BY <1>2, <1>3, <2>1
    <2>2. CASE x # g
      BY <1>3, <2>2 DEF FileInv
    <2> QED
      BY <2>1, <2>2
  <1>10. ConfiguredFirst'
    BY <1>1, <1>4, <1>6, <1>8 DEF ConfiguredFirst, FileInv
  <1> QED
    BY <1>5, <1>7, <1>9, <1>10

LEMMA FirstReadInv ==
  ASSUME DaemonInv, NEW g \in GPUs, FirstRead(g)
  PROVE  DaemonInv'
  <1>1. /\ UNCHANGED <<phase, series, daemonVars, file, closed, silences, crashes>>
        /\ launcher[g] = "first" /\ g \notin closed
        /\ launcher' \in [GPUs -> {"first", "watch", "ready", "dead"}]
        /\ \A x \in GPUs \ {g} : launcher'[x] = launcher[x]
    BY DEF FirstRead, bounds, DaemonInv, DaemonTypeOK
  <1>2. closed' \subseteq {x \in GPUs : launcher'[x] = "ready"}
    BY <1>1 DEF DaemonInv, DaemonTypeOK
  <1>3. CASE podlist' = [podlist EXCEPT ![g] = update_podmanager(g)]
    BY <1>1, <1>2, <1>3, UpdateInv
  <1>4. CASE UNCHANGED podlist
    <2>1. UNCHANGED <<phase, series, notified, job, file, podlist, silences, crashes>>
      BY <1>1, <1>4 DEF daemonVars
    <2>2. DaemonTypeOK'
      BY <1>1, <1>2, <2>1 DEF DaemonInv, DaemonTypeOK
    <2>3. ExportedInv' /\ JobInv'
      BY <2>1, PodsUnchanged DEF DaemonInv
    <2>4. FileInv' /\ ConfiguredFirst'
      BY <2>1, FilesUnchanged DEF DaemonInv
    <2> QED
      BY <2>2, <2>3, <2>4 DEF DaemonInv
  <1> QED
    BY <1>3, <1>4 DEF FirstRead

LEMMA ReadFileInv ==
  ASSUME DaemonInv, NEW g \in GPUs, ReadFile(g)
  PROVE  DaemonInv'
  <1>1. /\ UNCHANGED <<phase, series, daemonVars, file, launcher, silences, crashes>>
        /\ podlist' = [podlist EXCEPT ![g] = update_podmanager(g)]
        /\ closed' \subseteq closed
    BY DEF ReadFile, bounds
  <1>2. /\ launcher' \in [GPUs -> {"first", "watch", "ready", "dead"}]
        /\ closed' \subseteq {x \in GPUs : launcher'[x] = "ready"}
    BY <1>1 DEF DaemonInv, DaemonTypeOK
  <1> QED
    BY <1>1, <1>2, UpdateInv

LEMMA AddWatchInv ==
  ASSUME DaemonInv, NEW g \in GPUs, AddWatch(g)
  PROVE  DaemonInv'
  <1> USE DEF DaemonInv
  <1>1. /\ UNCHANGED <<phase, series, notified, job, file, closed, podlist, silences, crashes>>
        /\ launcher' = [launcher EXCEPT ![g] = "ready"]
    BY DEF AddWatch, daemonVars, bounds
  <1>2. DaemonTypeOK'
    BY <1>1 DEF DaemonTypeOK
  <1>3. ExportedInv' /\ JobInv'
    BY <1>1, PodsUnchanged
  <1>4. FileInv' /\ ConfiguredFirst'
    BY <1>1, FilesUnchanged
  <1> QED
    BY <1>2, <1>3, <1>4

(* The pod managers of the node die. *)
LEMMA ContainerCrashInv ==
  ASSUME DaemonInv, ContainerCrash
  PROVE  DaemonInv'
  <1> USE DEF DaemonInv
  <1>1. /\ UNCHANGED <<phase, series, notified, job, file, silences>>
        /\ crashes' \in 0..MaxCrashes /\ closed' = {}
        /\ launcher' = [x \in GPUs |-> "first"] /\ podlist' = [x \in GPUs |-> {}]
    BY NodeAssumption DEF ContainerCrash, daemonVars, DaemonTypeOK
  <1>2. DaemonTypeOK'
    BY <1>1 DEF DaemonTypeOK
  <1>3. \A p : Exported(p)' = Exported(p) /\ Running(p)' = Running(p)
    BY <1>1 DEF Exported, Running
  <1>4. ExportedInv' /\ JobInv'
    BY <1>1, <1>3 DEF ExportedInv, JobInv
  <1>5. \A f : Whole(f)' = Whole(f)
    BY <1>1 DEF Whole, Torn
  <1>6. FileInv' /\ ConfiguredFirst'
    BY <1>1, <1>3, <1>5 DEF FileInv, ConfiguredFirst
  <1> QED
    BY <1>2, <1>4, <1>6

LEMMA DaemonNextInv ==
  ASSUME MaxSilences = 0, DaemonInv, [Next]_vars
  PROVE  DaemonInv'
  <1>1. CASE UNCHANGED vars
    <2>1. UNCHANGED <<phase, series, notified, job, file, closed, launcher, podlist,
                      silences, crashes>>
      BY <1>1 DEF vars, daemonVars, launcherVars, bounds
    <2>2. DaemonTypeOK'
      BY <2>1 DEF DaemonInv, DaemonTypeOK
    <2>3. ExportedInv' /\ JobInv'
      BY <2>1, PodsUnchanged DEF DaemonInv
    <2>4. FileInv' /\ ConfiguredFirst'
      BY <2>1, FilesUnchanged DEF DaemonInv
    <2> QED
      BY <2>2, <2>3, <2>4 DEF DaemonInv
  <1>2. CASE \E p \in Pods : PodChanges(p)
    BY <1>2, PodChangesInv
  <1>3. CASE Scrape \/ InformerResyncs \/ DaemonCrash \/ ContainerCrash
    BY <1>3, ScrapeInv, InformerResyncsInv, DaemonCrashInv, ContainerCrashInv
  <1>4. CASE Daemon
    BY <1>4, HandleInv, CreateInv, WriteCountInv, WriteLineInv, CloseInv
      DEF Daemon
  <1>5. CASE \E g \in GPUs : FirstRead(g) \/ Launcher(g)
    BY <1>5, FirstReadInv, AddWatchInv, ReadFileInv DEF Launcher
  <1> QED
    BY <1>1, <1>2, <1>3, <1>4, <1>5 DEF Next

(* The inductive invariant, for any number of pods and GPUs. *)
THEOREM DaemonInvariant ==
  ASSUME MaxSilences = 0
  PROVE  Spec => []DaemonInv
  <1>1. Init => DaemonInv
    BY DaemonInitInv
  <1>2. DaemonInv /\ [Next]_vars => DaemonInv'
    BY DaemonNextInv
  <1> QED
    BY <1>1, <1>2, PTL DEF Spec

(* While Prometheus answers, no pod manager is started before the requirements *)
(* of its pod are on file for the scheduler of the GPU, and as long as the pod *)
(* runs no requirements file is whole without them; the files are written line *)
(* by line, and the daemon may die in the middle.                              *)
THEOREM DaemonConfiguredFirst ==
  ASSUME MaxSilences = 0
  PROVE  Spec => []ConfiguredFirst
  <1>1. DaemonInv => ConfiguredFirst
    BY DEF DaemonInv
  <1> QED
    BY <1>1, DaemonInvariant, PTL

(* The state of the node keeps its type. *)
THEOREM DaemonTypeCorrect ==
  ASSUME MaxSilences = 0
  PROVE  Spec => []DaemonTypeOK
  <1>1. DaemonInv => DaemonTypeOK
    BY DEF DaemonInv
  <1> QED
    BY <1>1, DaemonInvariant, PTL
-----------------------------------------------------------------------------

phaseBar   == [p \in SharedPods |-> phase[p]]
servingBar == UNION {podlist[g] : g \in GPUs}
upBar      == {p \in SharedPods : launcher[Label[p].gpu] \in {"watch", "ready"}}

LEMMA SharedPodsHaveGPU == \A p \in SharedPods : p \in Pods /\ Label[p].gpu \in GPUs
  BY NodeAssumption DEF SharedPods

(* The pod managers of a GPU are those of the pods that share it. *)
LEMMA ServingIsPodlist ==
  ASSUME DaemonInv
  PROVE  \A p : p \in servingBar <=> p \in SharedPods /\ p \in podlist[Label[p].gpu]
  <1>1. \A g \in GPUs : \A p \in podlist[g] : p \in SharedPods /\ Label[p].gpu = g
    BY DEF DaemonInv, ExportedInv, On
  <1> QED
    BY <1>1, SharedPodsHaveGPU DEF servingBar

LEMMA ServingIsPodlistNext ==
  ASSUME DaemonInv'
  PROVE  \A p : p \in servingBar' <=> p \in SharedPods /\ p \in podlist'[Label[p].gpu]
  <1>1. \A g \in GPUs : \A p \in podlist'[g] : p \in SharedPods /\ Label[p].gpu = g
    BY DEF DaemonInv, ExportedInv, On
  <1> QED
    BY <1>1, SharedPodsHaveGPU DEF servingBar

(* A pod manager is started for a pod that ran, and stopped, while the        *)
(* launcher is up, for one that does not run.                                 *)
ServedAsPromised(p) ==
  LET g == Label[p].gpu IN
  /\ p \in podlist'[g] \ podlist[g] => launcher'[g] \in {"watch", "ready"} /\ phase[p] # "bound"
  /\ p \in podlist[g] \ podlist'[g] /\ launcher'[g] \in {"watch", "ready"} => ~ Running(p)

LEMMA ReadAsPromised ==
  ASSUME DaemonInv, NEW g \in GPUs, launcher'[g] \in {"watch", "ready"},
         podlist' = [podlist EXCEPT ![g] = update_podmanager(g)]
  PROVE  \A p \in SharedPods : ServedAsPromised(p)
  <1> DEFINE new == update_podmanager(g)
  <1>1. /\ new \subseteq podlist[g] \cup file[Ports(g)].lines
        /\ \A p \in podlist[g] : Running(p) => p \in new
    BY DEF update_podmanager, DaemonInv, FileInv, Whole
  <1> HIDE DEF new
  <1>2. podlist'[g] = new /\ \A x \in GPUs \ {g} : podlist'[x] = podlist[x]
    BY DEF DaemonInv, DaemonTypeOK, new
  <1> TAKE p \in SharedPods
  <1>3. Label[p].gpu \in GPUs
    BY SharedPodsHaveGPU
  <1>4. CASE Label[p].gpu = g
    <2>1. \A q \in file[Ports(g)].lines : phase[q] # "bound"
      BY FileFacts DEF DaemonInv, ExportedInv, Exported
    <2> QED
      BY <1>1, <1>2, <1>4, <2>1 DEF ServedAsPromised
  <1>5. CASE Label[p].gpu # g
    BY <1>2, <1>3, <1>5 DEF ServedAsPromised
  <1> QED
    BY <1>4, <1>5

(* A step of the launchers, or of their container, leaves the pods alone. *)
LEMMA LauncherStep ==
  ASSUME DaemonInv, UNCHANGED phase,
         \/ UNCHANGED podlist
         \/ ContainerCrash
         \/ \E g \in GPUs : FirstRead(g) \/ ReadFile(g)
  PROVE  \A p \in SharedPods : ServedAsPromised(p)
  <1>1. CASE UNCHANGED podlist
    BY <1>1 DEF ServedAsPromised
  <1>2. CASE ContainerCrash
    BY <1>2, SharedPodsHaveGPU DEF ContainerCrash, ServedAsPromised
  <1>3. ASSUME NEW g \in GPUs, FirstRead(g), ~ UNCHANGED podlist
        PROVE  \A p \in SharedPods : ServedAsPromised(p)
    <2>1. /\ launcher' = [launcher EXCEPT ![g] = "watch"]
          /\ podlist' = [podlist EXCEPT ![g] = update_podmanager(g)]
      BY <1>3 DEF FirstRead
    <2>2. launcher'[g] \in {"watch", "ready"}
      BY <2>1 DEF DaemonInv, DaemonTypeOK
    <2> QED
      BY <2>1, <2>2, ReadAsPromised
  <1>4. ASSUME NEW g \in GPUs, ReadFile(g)
        PROVE  \A p \in SharedPods : ServedAsPromised(p)
    <2>1. /\ launcher' = launcher /\ g \in closed
          /\ podlist' = [podlist EXCEPT ![g] = update_podmanager(g)]
      BY <1>4 DEF ReadFile
    <2>2. launcher'[g] \in {"watch", "ready"}
      BY <2>1 DEF DaemonInv, DaemonTypeOK
    <2> QED
      BY <2>1, <2>2, ReadAsPromised
  <1> QED
    BY <1>1, <1>2, <1>3, <1>4

LEMMA NextKinds ==
  ASSUME [Next]_vars
  PROVE  \/ (\E p \in Pods : PodChanges(p)) /\ UNCHANGED <<podlist, launcher>>
         \/ /\ UNCHANGED phase
            /\ \/ UNCHANGED podlist
               \/ ContainerCrash
               \/ \E g \in GPUs : FirstRead(g) \/ ReadFile(g)
  <1>1. CASE UNCHANGED vars
    BY <1>1 DEF vars, launcherVars
  <1>2. CASE \E p \in Pods : PodChanges(p)
    BY <1>2 DEF PodChanges, launcherVars
  <1>3. CASE Scrape \/ InformerResyncs \/ DaemonCrash \/ ContainerCrash
    BY <1>3 DEF Scrape, InformerResyncs, DaemonCrash, ContainerCrash, launcherVars
  <1>4. CASE Daemon
    BY <1>4 DEF Daemon, Handle, Create, WriteCount, WriteLine, Close, launcherVars
  <1>5. CASE \E g \in GPUs : FirstRead(g) \/ Launcher(g)
    BY <1>5 DEF FirstRead, Launcher, AddWatch, ReadFile
  <1> QED
    BY <1>1, <1>2, <1>3, <1>4, <1>5 DEF Next

LEMMA ManagersInitStep == Init => Managers!ManagersInit
  <1> SUFFICES ASSUME Init PROVE Managers!ManagersInit
    OBVIOUS
  <1>1. phaseBar = [p \in SharedPods |-> "bound"]
    BY SharedPodsHaveGPU DEF Init, phaseBar
  <1>2. servingBar = {} /\ upBar = {}
    BY SharedPodsHaveGPU DEF Init, servingBar, upBar
  <1> QED
    BY <1>1, <1>2 DEF Managers!ManagersInit, phaseBar, servingBar, upBar

LEMMA ManagersNextStep ==
  ASSUME DaemonInv, DaemonInv', [Next]_vars
  PROVE  [Managers!PodChanges \/ Managers!ManagersChange]_Managers!managerVars
  <1> USE DEF phaseBar, servingBar, upBar
  <1>1. CASE (\E p \in Pods : PodChanges(p)) /\ UNCHANGED <<podlist, launcher>>
    <2>1. servingBar' = servingBar /\ upBar' = upBar
      BY <1>1
    <2>2. PICK p \in Pods : PodChanges(p)
      BY <1>1
    <2>3. PICK f \in {"running", "ended", "gone"} :
            /\ phase[p] \in {"bound", "running"} \/ f = "gone"
            /\ f = "running" => phase[p] = "bound"
            /\ phase' = [phase EXCEPT ![p] = f]
      BY <2>2 DEF PodChanges
    <2>4. phase \in [Pods -> {"bound", "running", "ended", "gone"}]
      BY DEF DaemonInv, DaemonTypeOK
    <2>5. CASE p \in SharedPods
      <3>1. phaseBar' = [phaseBar EXCEPT ![p] = f]
        BY <2>3, <2>4, <2>5, SharedPodsHaveGPU
      <3>2. phaseBar[p] = phase[p]
        BY <2>5
      <3> HIDE DEF phaseBar
      <3>3. /\ phaseBar[p] \in {"bound", "running"} \/ f = "gone"
            /\ f = "running" => phaseBar[p] = "bound"
            /\ phaseBar' = [phaseBar EXCEPT ![p] = f]
        BY <2>3, <3>1, <3>2
      <3> USE DEF phaseBar
      <3>4. Managers!PodChanges
        BY <2>1, <2>5, <3>3 DEF Managers!PodChanges
      <3> QED
        BY <3>4
    <2>6. CASE p \notin SharedPods
      <3>1. phaseBar' = phaseBar
        BY <2>3, <2>4, <2>6, SharedPodsHaveGPU
      <3> QED
        BY <2>1, <3>1 DEF Managers!managerVars
    <2> QED
      BY <2>5, <2>6
  <1>2. CASE /\ UNCHANGED phase
             /\ \/ UNCHANGED podlist
                \/ ContainerCrash
                \/ \E g \in GPUs : FirstRead(g) \/ ReadFile(g)
    <2>1. \A p \in SharedPods : ServedAsPromised(p)
      BY <1>2, LauncherStep
    <2>2. /\ \A p : p \in servingBar <=> p \in SharedPods /\ p \in podlist[Label[p].gpu]
          /\ \A p : p \in servingBar' <=> p \in SharedPods /\ p \in podlist'[Label[p].gpu]
      BY ServingIsPodlist, ServingIsPodlistNext
    <2>3. /\ \A p : p \in upBar <=> p \in SharedPods /\ launcher[Label[p].gpu] \in {"watch", "ready"}
          /\ \A p : p \in upBar' <=> p \in SharedPods /\ launcher'[Label[p].gpu] \in {"watch", "ready"}
      OBVIOUS
    <2>4. phaseBar' = phaseBar /\ \A p \in SharedPods : phaseBar[p] = phase[p]
      BY <1>2
    <2> HIDE DEF phaseBar, servingBar, upBar
    <2>5. /\ \A p \in servingBar' \ servingBar : p \in upBar' /\ phaseBar[p] # "bound"
          /\ \A p \in servingBar \ servingBar' : p \in upBar' => phaseBar[p] # "running"
          /\ servingBar' \subseteq SharedPods /\ upBar' \subseteq SharedPods
          /\ phaseBar' = phaseBar
      BY <2>1, <2>2, <2>3, <2>4 DEF ServedAsPromised, Running
    <2>6. Managers!ManagersChange
      BY <2>5 DEF Managers!ManagersChange, phaseBar, servingBar, upBar
    <2> QED
      BY <2>6
  <1> QED
    BY <1>1, <1>2, NextKinds

(* While Prometheus answers, the daemon and the launchers of a node implement *)
(* what PodManagers promises: whatever crashes and however late the metrics   *)
(* are, no pod manager of a running pod is stopped and none is started for a  *)
(* pod that never ran.                                                        *)
THEOREM DaemonImplements ==
  ASSUME MaxSilences = 0
  PROVE  Spec => ImplementsPodManagers
  <1>1. Init => Managers!ManagersInit
    BY ManagersInitStep
  <1>2. DaemonInv /\ DaemonInv' /\ [Next]_vars
          => [Managers!PodChanges \/ Managers!ManagersChange]_Managers!managerVars
    BY ManagersNextStep
  <1>3. Spec => []DaemonInv
    BY DaemonInvariant
  <1> QED
    BY <1>1, <1>2, <1>3, PTL DEF Spec, ImplementsPodManagers, Managers!ManagersSpec

=============================================================================
