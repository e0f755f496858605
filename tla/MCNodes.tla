-------------------------------- MODULE MCNodes --------------------------------
(* Small clusters for NodeHealth. *)
EXTENDS NodeScores, TLC

CONSTANTS
  a, b, c, X, Y, Z

MCScores     == {-250, -1, 0, 60, 100, 101, 730}
MCPriorities == {0, 10, 100}

MCModels == {X, Y, Z}

NodeType(child, number, priority) ==
  [childCellType |-> child, childCellNumber |-> number, childCellPriority |-> priority,
   isNodeLevel |-> TRUE]
Group(child, number, priority) == [NodeType(child, number, priority) EXCEPT !.isNodeLevel = FALSE]

Device(id, model, memory) == << [uuid |-> id, model |-> model, memory |-> memory] >>

(* Node a has two switches with an X each; node b has two X and a Z.  Node c,  *)
(* configured as doc/deploy.md's 2-V100-NODE (two cells that both name it) and *)
(* with a Z, is not there yet.                                                 *)
MCCellTypes ==
  [XX |-> NodeType("Switch", 2, 0), Switch |-> Group(X, 1, 10), Z1 |-> NodeType(Z, 1, 30),
   X2 |-> NodeType(X, 2, 10), Y2 |-> NodeType(Y, 2, 20), Y2s |-> Group("Y2", 2, 0)]
MCRootTypes == <<"XX", "X2", "Z1", "Y2s", "Z1">>
MCGivenID == (<<1>> :> a) @@ (<<2>> :> b) @@ (<<3>> :> b)
             @@ (<<4>> :> NoID) @@ (<<4, 1>> :> c) @@ (<<4, 2>> :> c) @@ (<<5>> :> c)
MCHardware ==
  (a :> <<Device("a1", X, 1), Device("a2", X, 1)>>)
  @@ (b :> <<Device("b1", X, 1), Device("b2", Z, 2), Device("b3", X, 1)>>)

(* One cell above two nodes, as doc/deploy.md's 3-GTX1080-NODE. *)
RootsCellTypes == [X1 |-> NodeType(X, 1, 10), X1s |-> Group("X1", 2, 0)]
RootsRootTypes == <<"X1s">>
RootsGivenID == (<<1>> :> NoID) @@ (<<1, 1>> :> a) @@ (<<1, 2>> :> b)
RootsHardware == (a :> <<Device("a1", X, 1)>>) @@ (b :> <<Device("b1", X, 1)>>)
=============================================================================
