------------------------------ MODULE CellChains ------------------------------
(***************************************************************************)
(* Cell types (pkg/scheduler/cell.go): buildCellChains turns the cellTypes *)
(* of the configuration into cell elements, which say of each type its     *)
(* level, its GPU model and how many GPUs it has.                          *)
(*                                                                         *)
(* cellTypes is a Go map: its types are visited in any order.  addCell is  *)
(* recursive; its calls are a stack, a step is one entry or one return.    *)
(***************************************************************************)
EXTENDS Integers, Sequences

CONSTANTS
  CellTypes,  \* cellTypes: what is configured for a type, by type
  Models,     \* GPU models: types that are children and not configured
  NoType, NoElement

Configured == DOMAIN CellTypes
Types      == Configured \cup Models

CellTypeSpec == [childCellType : Types, childCellNumber : Nat,
                 childCellPriority : Int, isNodeLevel : BOOLEAN]

Element == [level : Nat, priority : Int, childCellType : Types \cup {NoType},
            childCellNumber : Nat, leafCellType : Models, leafCellNumber : Nat,
            isNode : BOOLEAN, isMultiNodes : BOOLEAN]

(* A type that is nobody's child and not configured does not exist.  A chain *)
(* of types that came back to itself would be followed for ever.             *)
ASSUME TypesAssumption ==
  /\ CellTypes \in [Configured -> CellTypeSpec]
  /\ Models \cap Configured = {}
  /\ NoType \notin Types /\ NoElement \notin Element

VARIABLES
  elements,  \* cellElements, or NoElement; gpuPriority is a model's priority here
  calls,     \* the calls of addCell that are active, the innermost one last
  todo       \* types of the map that are still to be visited

chainVars == <<elements, calls, todo>>

Child(t) == CellTypes[t].childCellType
Added(t) == elements[t] # NoElement
Top      == calls[Len(calls)]
Return   == calls' = SubSeq(calls, 1, Len(calls) - 1)

ChainInit ==
  /\ elements = [t \in Types |-> NoElement]
  /\ calls = <<>>
  /\ todo = Configured

(* The loop of buildCellChains calls addCell for the next type. *)
VisitType(t) ==
  /\ calls = <<>> /\ t \in todo
  /\ calls' = <<[type |-> t, priority |-> 1]>>
  /\ todo' = todo \ {t}
  /\ UNCHANGED elements

(* The type has been added before, for a type above it. *)
AlreadyAdded ==
  /\ calls # <<>> /\ Added(Top.type)
  /\ Return
  /\ UNCHANGED <<elements, todo>>

(* A type that is not configured is a GPU model. *)
AddLeaf ==
  /\ calls # <<>> /\ ~ Added(Top.type) /\ Top.type \notin Configured
  /\ elements' = [elements EXCEPT ![Top.type] =
       [level |-> 1, priority |-> Top.priority,
        childCellType |-> NoType, childCellNumber |-> 0,
        leafCellType |-> Top.type, leafCellNumber |-> 1,
        isNode |-> FALSE, isMultiNodes |-> FALSE]]
  /\ Return
  /\ UNCHANGED todo

\* Mutation: the type itself is forgotten when its child is added.
AddChildFirst_Instead ==
  /\ calls # <<>> /\ ~ Added(Top.type) /\ Top.type \in Configured
  /\ ~ Added(Child(Top.type))
  /\ calls' = << [type |-> Child(Top.type), priority |-> CellTypes[Top.type].childCellPriority] >>
  /\ UNCHANGED <<elements, todo>>

(* The child comes first; its priority is what this type says of it. *)
AddChildFirst ==
  /\ calls # <<>> /\ ~ Added(Top.type) /\ Top.type \in Configured
  /\ ~ Added(Child(Top.type))
  /\ calls' = Append(calls, [type |-> Child(Top.type),
                             priority |-> CellTypes[Top.type].childCellPriority])
  /\ UNCHANGED <<elements, todo>>

\* Mutation: the GPUs of a type are its children.
Above_Flat(t) ==
  LET child == elements[Child(t)] IN
  [level |-> child.level + 1, priority |-> child.priority,
   childCellType |-> Child(t), childCellNumber |-> CellTypes[t].childCellNumber,
   leafCellType |-> child.leafCellType, leafCellNumber |-> CellTypes[t].childCellNumber,
   isNode |-> CellTypes[t].isNodeLevel,
   isMultiNodes |-> child.isNode \/ child.isMultiNodes]

(* The element of a type whose child has been added. *)
Above(t) ==
  LET child == elements[Child(t)] IN
  [level |-> child.level + 1, priority |-> child.priority,
   childCellType |-> Child(t), childCellNumber |-> CellTypes[t].childCellNumber,
   leafCellType |-> child.leafCellType,
   leafCellNumber |-> child.leafCellNumber * CellTypes[t].childCellNumber,
   isNode |-> CellTypes[t].isNodeLevel,
   isMultiNodes |-> child.isNode \/ child.isMultiNodes]

AddAbove ==
  /\ calls # <<>> /\ ~ Added(Top.type) /\ Top.type \in Configured
  /\ Added(Child(Top.type))
  /\ elements' = [elements EXCEPT ![Top.type] = Above(Top.type)]
  /\ Return
  /\ UNCHANGED todo

AddCell == AlreadyAdded \/ AddLeaf \/ AddChildFirst \/ AddAbove

ChainNext == AddCell \/ \E t \in Configured : VisitType(t)
ChainSpec == ChainInit /\ [][ChainNext]_chainVars

ChainsBuilt == todo = {} /\ calls = <<>>

-----------------------------------------------------------------------------

ChainTypeOK ==
  /\ elements \in [Types -> Element \cup {NoElement}]
  /\ calls \in Seq([type : Types, priority : Int])
  /\ todo \subseteq Configured

(* Whatever the order of the map, an element agrees with its child's: levels *)
(* and GPUs count up from the model, whose priority is one that a type above *)
(* it gives, never the one buildCellChains starts with.                      *)
ElementsAgree ==
  /\ \A t \in Configured : Added(t) =>
       LET e == elements[t]  child == elements[Child(t)] IN
       /\ Added(Child(t))
       /\ e.level = child.level + 1 /\ e.priority = child.priority
       /\ e.leafCellType = child.leafCellType
       /\ e.leafCellNumber = child.leafCellNumber * e.childCellNumber
       /\ e.childCellType = Child(t) /\ e.childCellNumber = CellTypes[t].childCellNumber
       /\ e.isNode = CellTypes[t].isNodeLevel
       /\ e.isMultiNodes <=> child.isNode \/ child.isMultiNodes
  /\ \A m \in Models : Added(m) =>
       /\ elements[m].level = 1 /\ elements[m].leafCellNumber = 1
       /\ elements[m].leafCellType = m
       /\ ~ elements[m].isNode /\ ~ elements[m].isMultiNodes
       /\ \E t \in Configured : Child(t) = m /\ elements[m].priority = CellTypes[t].childCellPriority

(* When buildCellChains returns, every configured type and all below it have *)
(* an element: what build and filterNode look up is there.                   *)
EveryTypeAdded ==
  ChainsBuilt => \A t \in Configured : Added(t) /\ Added(Child(t))
=============================================================================
