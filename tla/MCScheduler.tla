----------------------------- MODULE MCScheduler -----------------------------
(***************************************************************************)
(* Small topologies and workloads for Scheduler: one node with one or two  *)
(* GPUs.  The cells are the GPUs and the node's cell above them.           *)
(***************************************************************************)
EXTENDS SchedulerInv, TLC

CONSTANTS n1, g1, g2, g3, a, b, c

OneGpu  == {g1}
TwoGpus == {g1, g2}
ThreeGpus == {g1, g2, g3}
MCNodes == {n1}
MCCells == Leaves \cup {n1}
MCPath  == [l \in Leaves |-> {l, n1}]
MCNodeOf == [l \in Leaves |-> n1]
MCNodeCell == [x \in Nodes |-> x]

Ask(request, memory) == [request |-> request, memory |-> memory]

\* A third and two thirds of a GPU of memory 5.  One of each share a GPU; two
\* of the first have too little memory, two of the second too little share.
SharedSpecs == {Ask(1, 3), Ask(2, 2)}

\* ... and two whole GPUs.
MixedSpecs == SharedSpecs \cup {Ask(6, 0)}

\* One GPU, or two, of a node of two.
OneMulti == {Ask(1, 1), Ask(2, 0)}

\* Half a GPU with all of its memory, and half a GPU with no memory said.
DefaultMemorySpecs == {Ask(1, 3), Ask(1, 0)}

\* Half GPUs and two whole ones, on a node of three.
FragmentSpecs == {Ask(1, 1), Ask(4, 0)}
HalfSpecs     == {Ask(1, 1)}

\* One name used again after its shadow pod, and one used once.
ReuseA == (a :> 4) @@ (b :> 2)

\* One name may be used again after its pod was deleted, the other once.
CreatedAgain == (a :> 3) @@ (b :> 2)
Once         == [n \in Names |-> 2]

\* a always asks for two thirds of a GPU, b for either share: fewer cases of
\* what is asked, for longer histories of one name.
AskedByName == api'[a] # NoPod => api'[a].spec = Ask(2, 2)
ReuseSpec   == Init /\ [][LifeNext /\ AskedByName]_vars

Symmetric == Permutations(Names) \cup Permutations(Leaves)
=============================================================================
