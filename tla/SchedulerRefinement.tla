-------------------------- MODULE SchedulerRefinement --------------------------
(***************************************************************************)
(* The scheduler implements GpuAllocator: what a pod holds is what its     *)
(* annotations name while it is alive, so a grant is the creation of the   *)
(* shadow pod and a release is the pod's end.  All the scheduler's own     *)
(* steps, on its copy of the accounts, are invisible.                      *)
(***************************************************************************)
EXTENDS Scheduler

HeldBy(n) == [l \in Leaves |-> [share |-> ShareOf(n, l), memory |-> MemoryOf(n, l)]]

Allocator == INSTANCE GpuAllocator WITH
  Pods <- Names, Gpus <- Leaves, Units <- UNIT, Memory <- FullMem,
  held <- [n \in Names |-> HeldBy(n)]

(* The reservation protocol grants nothing that another alive pod holds and  *)
(* never changes what a pod was granted, through deletions, reuse of names   *)
(* and failed creations.                                                     *)
ImplementsAllocator == Allocator!Spec
================================================================================
