----------------------------- MODULE MCNodeDaemon -----------------------------
(* Two pods that share a GPU, on a node with one. *)
EXTENDS NodeDaemon, TLC

CONSTANTS p1, p2, gpu1

MCLabel == [p \in Pods |-> [gpu |-> gpu1, shared |-> TRUE]]
=============================================================================
