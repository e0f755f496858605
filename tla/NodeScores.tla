------------------------------ MODULE NodeScores ------------------------------
(***************************************************************************)
(* How Score and NormalizeScore see the cells that buildCellChains and     *)
(* setNodeStatus made.                                                     *)
(***************************************************************************)
EXTENDS NodeHealth, Scoring

CONSTANTS
  Candidates,         \* nodes whose scores are normalised together
  GPUs,               \* of each of two nodes whose use is compared
  Scores, Priorities  \* bounds: the scores and priorities that are tried

ASSUME CandidatesAssumption ==
  /\ IsFiniteSet(Candidates) /\ GPUs \in Nat
  /\ Scores \subseteq Int /\ Priorities \subseteq Int

(* Pods are scored once the cells are built.  What their scores are depends   *)
(* on no state after that.                                                    *)
ScoringBegins == Built /\ changes = 0 /\ cycle = [n \in Nodes |-> "absent"]

(* The framework stops a cycle in which a score is not between 0 and 100; and *)
(* the scaling may make scores equal, but never turns two of them round.      *)
NormalizedInRange ==
  ScoringBegins => \A score \in [Candidates -> Scores] : LET norm == NormalizeScore(score) IN
    \A m, n \in Candidates :
      /\ norm[n] \in 0..100
      /\ score[m] <= score[n] => norm[m] <= norm[n]

(* Opportunistic pods fill up GPUs that are in use, guarantee pods keep away  *)
(* from them: of two nodes with the same GPUs, whatever their models, the one *)
(* of which no GPU is less used never scores worse for the former, and never  *)
(* better for the latter.                                                     *)
ScoresFollowUse ==
  ScoringBegins => \A p \in [1..GPUs -> Priorities], u, v \in [1..GPUs -> 0..Whole] :
    LET cells(w) == [i \in 1..GPUs |-> [id |-> <<i>>, priority |-> p[i], used |-> w[i]]] IN
    (\A i \in 1..GPUs : u[i] <= v[i]) =>
      /\ OpportunisticPodNodeScore(cells(u)) <= OpportunisticPodNodeScore(cells(v))
      /\ GuaranteePodNodeScore(cells(u), <<>>) >= GuaranteePodNodeScore(cells(v), <<>>)

(* The cells that Score is given of a node, the healthy ones, when all their   *)
(* GPUs are free.                                                             *)
CellsOn(n) ==
  LET paths == SetToSeq(getLeafCellbyNode(n))
  IN [i \in DOMAIN paths |-> [id |-> cell[paths[i]].id, used |-> 0,
                             priority |-> elements[cell[paths[i]].leafCellType].priority]]

(* When a GPU holds a pod of a group, its node scores higher than any other   *)
(* for the group's guarantee pods, however deep the GPUs of the two nodes are *)
(* in the tree, whatever their models, and whichever are healthy: the ids of  *)
(* inferCellSpec and the distance of Score fit together.  (GPUs of one node   *)
(* that are not equally deep below it may be farther from each other than     *)
(* from another node's.)                                                      *)
GroupStaysTogether ==
  LET offering == {n \in Nodes : getLeafCellbyNode(n) # {}}
      score(n, p) == GuaranteePodNodeScore(CellsOn(n), <<cell[p].id>>)
  IN \A p \in Leaves : cell[p].node \in offering =>
       \A n \in offering \ {cell[p].node} : score(cell[p].node, p) > score(n, p)
=============================================================================
