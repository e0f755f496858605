SPECIFICATION Spec
CONSTANTS
  p1 = p1
  p2 = p2
  gpu1 = gpu1
  Pods = {p1, p2}
  GPUs = {gpu1}
  Label <- MCLabel
  NoJob = NoJob
  NoGPU = NoGPU
  NoFile = NoFile
  NoCount = NoCount
  Elsewhere = TRUE
  CalmStart = TRUE
  MaxSilences = 0
  MaxCrashes = 1
CHECK_DEADLOCK FALSE
INVARIANTS DaemonTypeOK ConfiguredFirst
PROPERTIES ImplementsPodManagers RunningPodIsServed EndedPodIsDropped
