------------------------------ MODULE MCPodGroup ------------------------------
(* A group with a pod that needs a GPU and two that do not, of which two are *)
(* to start together, or all.                                                *)
EXTENDS PodGroup, TLC

CONSTANTS s1, r1, r2

Labelled(threshold) ==
  [p \in Members |->
    [group |-> 1, headCount |-> 3, threshold |-> threshold, priority |-> 0,
     needGPU |-> p = s1]]

TwoTogether == Labelled(7)
AllTogether == Labelled(10)

(* r1 and r2 are alike: of the orders in which their user creates them, one. *)
FirstR1 == pod[r2] # "absent" => pod[r1] # "absent"
=============================================================================
