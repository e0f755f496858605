----------------------------- MODULE PodManagers ------------------------------
(***************************************************************************)
(* What a node promises to the pods that share its GPUs: a pod manager is  *)
(* started for a pod that runs, or has run, and while the launcher of the  *)
(* GPU is up it is stopped only when its pod does not run any more.        *)
(***************************************************************************)
CONSTANT SharedPods

VARIABLES
  phase,     \* of a pod: "bound", "running", "ended" or "gone"
  serving,   \* the pods that have a pod manager
  up         \* the pods whose GPU has a launcher

managerVars == <<phase, serving, up>>

ManagersInit ==
  /\ phase = [p \in SharedPods |-> "bound"] /\ serving = {} /\ up = {}

PodChanges ==
  /\ \E p \in SharedPods, f \in {"running", "ended", "gone"} :
       /\ phase[p] \in {"bound", "running"} \/ f = "gone"
       /\ f = "running" => phase[p] = "bound"
       /\ phase' = [phase EXCEPT ![p] = f]
  /\ UNCHANGED <<serving, up>>

ManagersChange ==
  /\ \A p \in serving' \ serving : p \in up' /\ phase[p] # "bound"
  /\ \A p \in serving \ serving' : p \in up' => phase[p] # "running"
  /\ serving' \subseteq SharedPods /\ up' \subseteq SharedPods
  /\ UNCHANGED phase

ManagersSpec == ManagersInit /\ [][PodChanges \/ ManagersChange]_managerVars

=============================================================================
