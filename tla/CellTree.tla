------------------------------- MODULE CellTree -------------------------------
(***************************************************************************)
(* The cell tree (pkg/scheduler/config.go and cell.go): inferCellSpec      *)
(* completes what the configuration says of each root cell, and build      *)
(* makes a cell of every entry.                                            *)
(*                                                                         *)
(* A cell is its path: the position of its root in the configuration, then *)
(* the position in the children at each level.                             *)
(***************************************************************************)
EXTENDS CellChains, SequencesExt, FiniteSets

CONSTANTS
  RootTypes,  \* the types of the configuration's cells, in their order
  GivenID,    \* the ids it gives to some cells, by path; NoID where it names a
              \* cell without an id
  NoID, NoNode

ASSUME RootsAssumption ==
  /\ RootTypes \in Seq(Configured)
  /\ IsFiniteSet(Types) /\ IsFiniteSet(DOMAIN GivenID)
  /\ \A p \in DOMAIN GivenID : Len(p) = 1 \/ Front(p) \in DOMAIN GivenID

TypeOf[p \in Seq(Nat) \ {<<>>}] ==
  IF Len(p) = 1 THEN RootTypes[p[1]] ELSE Child(TypeOf[Front(p)])

(* The children that are listed, or as many as the type says. *)
ChildNumber(p) ==
  LET listed == {q \in DOMAIN GivenID : Len(q) = Len(p) + 1 /\ IsPrefix(p, q)}
  IN IF TypeOf[p] \notin Configured THEN 0
     ELSE IF listed # {} THEN Cardinality(listed)
     ELSE CellTypes[TypeOf[p]].childCellNumber

ChildPaths(p) == [k \in 1..ChildNumber(p) |-> Append(p, k)]

(* inferCellSpec's queue: the cells of every root that are d - 1 levels below *)
(* it, in their order.                                                        *)
Below(row) == [r \in DOMAIN row |->
                 FlattenSeq([i \in DOMAIN row[r] |-> ChildPaths(row[r][i])])]
Row[d \in Nat \ {0}] ==
  IF d = 1 THEN [r \in DOMAIN RootTypes |-> << <<r>> >>] ELSE Below(Row[d - 1])

Cells == UNION {ToSet(Row[d][r]) : d \in 1..Cardinality(Types), r \in DOMAIN RootTypes}

\* Mutation: a cell without an id is numbered among its siblings.
Position_Sibling(p) == Last(p)

(* A cell without an id is numbered along its whole level; a root, in the list. *)
Position(p) ==
  IF Len(p) = 1 THEN p[1]
  ELSE LET row == Row[Len(p)][p[1]] IN CHOOSE i \in DOMAIN row : row[i] = p

(* The parts of the id; "/" separates them in the code. *)
CellID[p \in Cells] ==
  LET own == IF p \in DOMAIN GivenID /\ GivenID[p] # NoID THEN GivenID[p] ELSE Position(p)
  IN IF Len(p) = 1 THEN <<own>> ELSE Append(CellID[Front(p)], own)

LeafType(p) == elements[TypeOf[p]].leafCellType
Capacity(p) == elements[TypeOf[p]].leafCellNumber
LevelOf(p)  == elements[TypeOf[p]].level

(* buildChildCell passes the node's name down from the node-level cell, and a *)
(* cell above it has no node.                                                 *)
NodeOf(p) ==
  LET nodeLevel == {k \in DOMAIN p : elements[TypeOf[SubSeq(p, 1, k)]].isNode}
  IN IF elements[TypeOf[p]].isMultiNodes \/ nodeLevel = {} THEN NoNode
     ELSE LET k == CHOOSE k \in nodeLevel : \A j \in nodeLevel : j <= k
          IN Last(CellID[SubSeq(p, 1, k)])
=============================================================================
