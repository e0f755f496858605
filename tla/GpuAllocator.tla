----------------------------- MODULE GpuAllocator -----------------------------
(***************************************************************************)
(* What fractional GPU allocation promises, whatever the mechanism: a pod  *)
(* is granted shares and memory of some GPUs at once, only while every one *)
(* of them has that much left, keeps exactly them, and gives them back.    *)
(***************************************************************************)
EXTENDS Integers, FiniteSetsExt

CONSTANTS Pods, Gpus, Units, Memory

VARIABLE held   \* held[p][g]: what pod p holds of GPU g

Nothing == [g \in Gpus |-> [share |-> 0, memory |-> 0]]

Grants == [Gpus -> [share : 0 .. Units, memory : 0 .. Memory]]

Left(g) ==
  [share  |-> Units  - MapThenSumSet(LAMBDA p : held[p][g].share, Pods),
   memory |-> Memory - MapThenSumSet(LAMBDA p : held[p][g].memory, Pods)]

Init == held = [p \in Pods |-> Nothing]

Grant(p) ==
  /\ held[p] = Nothing
  /\ held' = [held EXCEPT ![p] = held'[p]]
  /\ held'[p] \in Grants
  /\ \A g \in Gpus : /\ held'[p][g].share <= Left(g).share
                     /\ held'[p][g].memory <= Left(g).memory

Release(p) == held' = [held EXCEPT ![p] = Nothing]

Next == \E p \in Pods : Grant(p) \/ Release(p)

Spec == Init /\ [][Next]_held
=============================================================================
