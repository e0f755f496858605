------------------------------- MODULE Scoring -------------------------------
(***************************************************************************)
(* How nodes are scored (pkg/scheduler/score.go and scheduler.go): the     *)
(* distance of two cells, Score for opportunistic and guarantee pods, and  *)
(* NormalizeScore.                                                         *)
(*                                                                         *)
(* A cell list is a sequence of [id, priority, used]: the parts of the id, *)
(* the priority of the GPU model, and the used part of the GPU in units of *)
(* which Whole make a GPU.  float64 is exact here; int64(x) truncates.     *)
(***************************************************************************)
EXTENDS Integers, Sequences, Functions

CONSTANT Whole

ASSUME ScoringAssumption == Whole \in Nat \ {0}

SumSeq(s) == FoldFunction(+, 0, s)

Abs(i) == IF i < 0 THEN -i ELSE i
Truncated(num, den) == IF num < 0 THEN -((-num) \div den) ELSE num \div den

-----------------------------------------------------------------------------
(* getCellIDDistance *)

\* Numbers differ by their difference; names, or a name and a number, by 100.
PartDistance(x, y) ==
  IF x \in Nat /\ y \in Nat THEN Abs(x - y) ELSE IF x = y THEN 0 ELSE 100

\* A part that the shorter id does not have.
PartAlone(x) == IF x \in Nat THEN x ELSE 100

(* The ids are compared from their last parts on. *)
getCellIDDistance(x, y) ==
  LET longer  == IF Len(x) < Len(y) THEN y ELSE x
      shorter == IF Len(x) < Len(y) THEN x ELSE y
      extra   == Len(longer) - Len(shorter)
  IN SumSeq([i \in DOMAIN longer |->
       IF i > extra THEN PartDistance(longer[i], shorter[i - extra]) ELSE PartAlone(longer[i])])

-----------------------------------------------------------------------------
(* Score *)

\* Mutation: free GPUs count for the node.
FreePenalty_Bonus(free) == - 100 * free

FreePenalty(free) == 100 * free

(* The mean of priority and usage, less the share of free GPUs. *)
OpportunisticPodNodeScore(cells) ==
  LET n     == Len(cells)
      free  == SumSeq([i \in DOMAIN cells |-> IF cells[i].used = 0 THEN 1 ELSE 0])
      total == SumSeq([i \in DOMAIN cells |-> Whole * cells[i].priority + 100 * cells[i].used])
  IN IF n = 0 THEN 0 ELSE Truncated(n * total - Whole * FreePenalty(free), Whole * n * n)

\* Mutation: a group that has one cell counts as a group without cells.
Locality_FromSecond(id, group) ==
  IF Len(group) <= 1 THEN 0
  ELSE SumSeq([j \in DOMAIN group |-> getCellIDDistance(id, group[j])])

(* The distances to the cells of the group. *)
Locality(id, group) == SumSeq([j \in DOMAIN group |-> getCellIDDistance(id, group[j])])

(* The mean of priority less usage and less the mean distance to the group's *)
(* cells.                                                                    *)
GuaranteePodNodeScore(cells, group) ==
  LET n == Len(cells)
      nGroup == IF Len(group) = 0 THEN 1 ELSE Len(group)
      total == SumSeq([i \in DOMAIN cells |->
                 nGroup * (Whole * cells[i].priority - 100 * cells[i].used)
                 - 100 * Whole * Locality(cells[i].id, group)])
  IN IF n = 0 THEN 0 ELSE Truncated(total, Whole * nGroup * n)

-----------------------------------------------------------------------------
(* NormalizeScore *)

MinScore(score) == CHOOSE v \in {score[n] : n \in DOMAIN score} : \A n \in DOMAIN score : v <= score[n]
MaxScore(score) == CHOOSE v \in {score[n] : n \in DOMAIN score} : \A n \in DOMAIN score : v >= score[n]

Shifted(score) ==
  LET reverse == IF MinScore(score) < 0 THEN - MinScore(score) ELSE 0
  IN [n \in DOMAIN score |-> score[n] + reverse]

\* Mutation: the scores that were not negative are scaled from zero.
Scaled_FromZero(score) ==
  LET ratio == MaxScore(score) - MinScore(score)
  IN [n \in DOMAIN score |-> (100 * score[n]) \div (IF ratio = 0 THEN 100 ELSE ratio)]

Scaled(score) ==
  LET ratio == MaxScore(score) - MinScore(score)
  IN [n \in DOMAIN score |->
        (100 * (score[n] - MinScore(score))) \div (IF ratio = 0 THEN 100 ELSE ratio)]

NormalizeScore(score) ==
  LET shifted == Shifted(score)
  IN IF MaxScore(shifted) <= 100 THEN shifted ELSE Scaled(shifted)

=============================================================================
