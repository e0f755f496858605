---------------------------- MODULE CellTree_proofs ----------------------------
(* What buildCellChains, inferCellSpec and build make of a configuration, for *)
(* every one.                                                                 *)
EXTENDS CellTree, FiniteSums_proofs, SequenceTheorems, TLAPS

(* In whatever order buildCellChains visits the map of cell types, the        *)
(* elements agree and none is missing at the end.                             *)


(* Only the outermost call is for a type of the map; every other one is for  *)
(* the child of the type of the call before it, with the priority given there. *)
CallsInv ==
  \A i \in 1..Len(calls) :
    IF i = 1 THEN calls[i].type \in Configured
    ELSE /\ calls[i - 1].type \in Configured
         /\ calls[i].type = Child(calls[i - 1].type)
         /\ calls[i].priority = CellTypes[calls[i - 1].type].childCellPriority

(* A type that was visited has been added, or its call is still active. *)
VisitedInv ==
  \A t \in Configured : t \in todo \/ Added(t) \/ (calls # <<>> /\ calls[1].type = t)

ChainInv == ChainTypeOK /\ CallsInv /\ VisitedInv /\ ElementsAgree

Call == [type : Types, priority : Int]

-----------------------------------------------------------------------------

(* The innermost call of a stack, and the stack it returns to. *)
LEMMA StackFacts ==
  ASSUME calls \in Seq(Call), calls # <<>>
  PROVE  /\ Len(calls) \in Nat \ {0} /\ Top \in Call /\ Top = calls[Len(calls)]
         /\ SubSeq(calls, 1, Len(calls) - 1) \in Seq(Call)
         /\ Len(SubSeq(calls, 1, Len(calls) - 1)) = Len(calls) - 1
         /\ \A i \in 1..Len(calls) - 1 : SubSeq(calls, 1, Len(calls) - 1)[i] = calls[i]
  <1> DEFINE n == Len(calls)
  <1>1. n \in Nat \ {0} /\ \A i \in 1..n : calls[i] \in Call
    BY EmptySeq, ElementOfSeq
  <1>2. Top \in Call /\ Top = calls[n]
    BY <1>1 DEF Top
  <1>3. /\ SubSeq(calls, 1, n - 1) \in Seq(Call)
        /\ Len(SubSeq(calls, 1, n - 1)) = n - 1
        /\ \A i \in 1..n - 1 : SubSeq(calls, 1, n - 1)[i] = calls[i]
    <2>1. n - 1 \in Int /\ \A i \in 1..n - 1 : calls[i] \in Call
      BY <1>1
    <2>2. /\ SubSeq(calls, 1, n - 1) \in Seq(Call)
          /\ Len(SubSeq(calls, 1, n - 1)) = IF 1 <= n - 1 THEN n - 1 - 1 + 1 ELSE 0
          /\ \A i \in 1..n - 1 - 1 + 1 : SubSeq(calls, 1, n - 1)[i] = calls[1 + i - 1]
      BY <2>1, SubSeqProperties
    <2>3. n - 1 - 1 + 1 = n - 1 /\ \A i \in 1..n - 1 : 1 + i - 1 = i
      BY <1>1
    <2> HIDE DEF n
    <2>4. (IF 1 <= n - 1 THEN n - 1 - 1 + 1 ELSE 0) = n - 1
      BY <1>1
    <2>5. \A i \in 1..n - 1 : SubSeq(calls, 1, n - 1)[i] = calls[i]
      BY <2>2, <2>3
    <2>6. Len(SubSeq(calls, 1, n - 1)) = n - 1
      <3> DEFINE len == IF 1 <= n - 1 THEN n - 1 - 1 + 1 ELSE 0
      <3>1. Len(SubSeq(calls, 1, n - 1)) = len
        BY <2>2
      <3>2. len = n - 1
        BY <2>4
      <3> HIDE DEF len
      <3> QED
        BY <3>1, <3>2
    <2> QED
      BY <2>2, <2>5, <2>6
  <1> QED
    BY <1>1, <1>2, <1>3

(* A return keeps what is known of the calls that remain. *)
LEMMA ReturnKeepsCalls ==
  ASSUME ChainTypeOK, CallsInv, calls # <<>>, Return
  PROVE  /\ calls' \in Seq(Call) /\ CallsInv'
         /\ calls' # <<>> => calls'[1] = calls[1]
         /\ calls' = <<>> => Top.type = calls[1].type
  <1>1. calls \in Seq(Call)
    BY DEF ChainTypeOK, Call
  <1> DEFINE n == Len(calls)
  <1>2. /\ n \in Nat \ {0} /\ calls' \in Seq(Call) /\ Len(calls') = n - 1
        /\ \A i \in 1..n - 1 : calls'[i] = calls[i]
    BY <1>1, StackFacts DEF Return
  <1>3. CallsInv'
    <2> SUFFICES ASSUME NEW i \in 1..Len(calls')
                 PROVE  IF i = 1 THEN calls'[i].type \in Configured
                        ELSE /\ calls'[i - 1].type \in Configured
                             /\ calls'[i].type = Child(calls'[i - 1].type)
                             /\ calls'[i].priority
                                  = CellTypes[calls'[i - 1].type].childCellPriority
      BY DEF CallsInv, Configured, Child
    <2>1. i \in 1..n /\ i \in 1..n - 1 /\ calls'[i] = calls[i]
      BY <1>2
    <2>2. i # 1 => i - 1 \in 1..n - 1 /\ calls'[i - 1] = calls[i - 1]
      BY <1>2
    <2> QED
      BY <2>1, <2>2 DEF CallsInv
  <1>4. calls' # <<>> => calls'[1] = calls[1]
    BY <1>2
  <1>5. calls' = <<>> => Top.type = calls[1].type
    <2> SUFFICES ASSUME calls' = <<>> PROVE n = 1
      BY DEF Top
    <2>1. Len(calls') = 0
      OBVIOUS
    <2> QED
      BY <1>2, <2>1
  <1> QED
    BY <1>2, <1>3, <1>4, <1>5

(* The element of a type above an element. *)
LEMMA AboveType ==
  ASSUME ChainTypeOK, NEW t \in Configured, Added(Child(t))
  PROVE  Above(t) \in Element
  <1> DEFINE child == elements[Child(t)]
  <1>1. /\ CellTypes[t] \in CellTypeSpec /\ Child(t) \in Types /\ child \in Element
    BY TypesAssumption DEF ChainTypeOK, Added, Child, CellTypeSpec
  <1>2. \A x, y \in Nat : x * y \in Nat
    OBVIOUS
  <1>3. /\ child.level + 1 \in Nat /\ child.priority \in Int /\ child.leafCellType \in Models
        /\ CellTypes[t].childCellNumber \in Nat /\ child.leafCellNumber \in Nat
        /\ CellTypes[t].isNodeLevel \in BOOLEAN
        /\ (child.isNode \/ child.isMultiNodes) \in BOOLEAN
    BY <1>1 DEF Element, CellTypeSpec
  <1>4. child.leafCellNumber * CellTypes[t].childCellNumber \in Nat
    BY <1>2, <1>3
  <1> QED
    BY <1>1, <1>3, <1>4 DEF Above, Element

(* The invariant holds before the first type is visited. *)
LEMMA ChainInitInv == ChainInit => ChainInv
  <1> SUFFICES ASSUME ChainInit PROVE ChainInv
    OBVIOUS
  <1>1. ChainTypeOK
    BY DEF ChainInit, ChainTypeOK
  <1>2. CallsInv
    BY DEF ChainInit, CallsInv
  <1>3. VisitedInv
    BY DEF ChainInit, VisitedInv
  <1>4. \A t \in Types : ~ Added(t)
    BY DEF ChainInit, Added
  <1>5. ElementsAgree
    BY <1>4 DEF ElementsAgree, Types
  <1> QED
    BY <1>1, <1>2, <1>3, <1>5 DEF ChainInv

(* While no element is added, the elements go on agreeing. *)
LEMMA UnchangedElements ==
  ASSUME ElementsAgree, UNCHANGED elements
  PROVE  ElementsAgree' /\ \A t : Added(t)' <=> Added(t)
  BY DEF ElementsAgree, Added, Child, Configured

LEMMA VisitTypeInv ==
  ASSUME ChainInv, NEW t \in Configured, VisitType(t)
  PROVE  ChainInv'
  <1> USE DEF ChainInv
  <1> DEFINE call == [type |-> t, priority |-> 1]
  <1>1. calls = <<>> /\ calls' = <<call>> /\ todo' = todo \ {t} /\ elements' = elements
    BY DEF VisitType
  <1>2. call \in Call /\ call.type = t
    BY DEF Call, Types
  <1>3. ChainTypeOK'
    BY <1>1, <1>2 DEF ChainTypeOK, Call, Configured
  <1>4. CallsInv'
    BY <1>1, <1>2 DEF CallsInv, Configured
  <1>5. VisitedInv'
    BY <1>1, <1>2 DEF VisitedInv, Added, Configured
  <1>6. ElementsAgree'
    BY <1>1, UnchangedElements
  <1> QED
    BY <1>3, <1>4, <1>5, <1>6

LEMMA AlreadyAddedInv ==
  ASSUME ChainInv, AlreadyAdded
  PROVE  ChainInv'
  <1> USE DEF ChainInv
  <1>1. calls # <<>> /\ Added(Top.type) /\ Return /\ elements' = elements /\ todo' = todo
    BY DEF AlreadyAdded
  <1>2. /\ calls' \in Seq(Call) /\ CallsInv'
        /\ calls' # <<>> => calls'[1] = calls[1]
        /\ calls' = <<>> => Top.type = calls[1].type
    BY <1>1, ReturnKeepsCalls
  <1>3. ChainTypeOK'
    BY <1>1, <1>2 DEF ChainTypeOK, Call, Configured
  <1>4. VisitedInv'
    BY <1>1, <1>2 DEF VisitedInv, Added, Configured
  <1>5. ElementsAgree'
    BY <1>1, UnchangedElements
  <1> QED
    BY <1>2, <1>3, <1>4, <1>5

LEMMA AddChildFirstInv ==
  ASSUME ChainInv, AddChildFirst
  PROVE  ChainInv'
  <1> USE DEF ChainInv
  <1> DEFINE n == Len(calls)
             t == Top.type
             call == [type |-> Child(t), priority |-> CellTypes[t].childCellPriority]
  <1>1. /\ calls # <<>> /\ t \in Configured /\ calls' = Append(calls, call)
        /\ elements' = elements /\ todo' = todo
    BY DEF AddChildFirst
  <1>2. calls \in Seq(Call) /\ n \in Nat \ {0} /\ Top = calls[n]
    BY <1>1, StackFacts DEF ChainTypeOK, Call
  <1>3. call \in Call
    BY <1>1, TypesAssumption DEF Call, Child, CellTypeSpec
  <1> HIDE DEF call
  <1>4. /\ Len(calls') = n + 1 /\ calls' \in Seq(Call) /\ calls'[n + 1] = call
        /\ \A i \in 1..n : calls'[i] = calls[i]
    BY <1>1, <1>2, <1>3
  <1>5. ChainTypeOK'
    BY <1>1, <1>4 DEF ChainTypeOK, Call, Configured
  <1>6. CallsInv'
    <2> SUFFICES ASSUME NEW i \in 1..Len(calls')
                 PROVE  IF i = 1 THEN calls'[i].type \in Configured
                        ELSE /\ calls'[i - 1].type \in Configured
                             /\ calls'[i].type = Child(calls'[i - 1].type)
                             /\ calls'[i].priority
                                  = CellTypes[calls'[i - 1].type].childCellPriority
      BY DEF CallsInv, Configured, Child
    <2>1. CASE i \in 1..n
      <3>1. calls'[i] = calls[i] /\ (i # 1 => calls'[i - 1] = calls[i - 1])
        BY <1>2, <1>4, <2>1
      <3> QED
        BY <2>1, <3>1 DEF CallsInv
    <2>2. CASE i = n + 1
      <3>1. i # 1 /\ calls'[i - 1] = Top /\ calls'[i] = call
        BY <1>2, <1>4, <2>2
      <3> QED
        BY <1>1, <3>1 DEF call
    <2> QED
      BY <1>2, <1>4, <2>1, <2>2
  <1>7. VisitedInv'
    BY <1>1, <1>2, <1>4 DEF VisitedInv, Added, Configured
  <1>8. ElementsAgree'
    BY <1>1, UnchangedElements
  <1> QED
    BY <1>5, <1>6, <1>7, <1>8
(* An element is added for the type of the innermost call, and the call       *)
(* returns: the type has an element now, and the others keep theirs.          *)
LEMMA AddedNow ==
  ASSUME ChainInv, calls # <<>>, NEW e \in Element,
         elements' = [elements EXCEPT ![Top.type] = e], Return, todo' = todo
  PROVE  /\ ChainTypeOK' /\ CallsInv' /\ VisitedInv'
         /\ Top.type \in Types /\ elements'[Top.type] = e /\ e # NoElement
         /\ \A t \in Types \ {Top.type} : elements'[t] = elements[t] /\ (Added(t)' <=> Added(t))
  <1> USE DEF ChainInv
  <1>1. Top \in Call /\ Top.type \in Types
    BY StackFacts DEF ChainTypeOK, Call
  <1>2. /\ calls' \in Seq(Call) /\ CallsInv'
        /\ calls' # <<>> => calls'[1] = calls[1]
        /\ calls' = <<>> => Top.type = calls[1].type
    BY ReturnKeepsCalls
  <1>3. elements' \in [Types -> Element \cup {NoElement}]
    BY <1>1 DEF ChainTypeOK
  <1>4. ChainTypeOK'
    BY <1>2, <1>3 DEF ChainTypeOK, Call, Configured, Types, Element
  <1> DEFINE top == Top.type
  <1>5. /\ top \in Types /\ elements'[top] = e
        /\ \A t \in Types \ {top} : elements'[t] = elements[t]
    BY <1>1 DEF ChainTypeOK
  <1>6. e # NoElement
    BY TypesAssumption
  <1> HIDE DEF top
  <1>7. \A t \in Types \ {top} : Added(t)' <=> Added(t)
    BY <1>5 DEF Added
  <1>8. \A t \in Configured : Added(t) \/ t = top => Added(t)'
    BY <1>5, <1>6 DEF Added, Types
  <1>9. VisitedInv'
    <2> SUFFICES ASSUME NEW t \in Configured, t \notin todo'
                 PROVE  Added(t)' \/ (calls' # <<>> /\ calls'[1].type = t)
      BY DEF VisitedInv, Configured
    <2>1. Added(t) \/ calls[1].type = t
      BY DEF VisitedInv
    <2> QED
      BY <2>1, <1>2, <1>8 DEF top
  <1> QED
    BY <1>2, <1>4, <1>5, <1>6, <1>7, <1>9 DEF top

(* What a type's element and its child's have in common. *)
Agrees(e, child, t) ==
  /\ e.level = child.level + 1 /\ e.priority = child.priority
  /\ e.leafCellType = child.leafCellType
  /\ e.leafCellNumber = child.leafCellNumber * e.childCellNumber
  /\ e.childCellType = Child(t) /\ e.childCellNumber = CellTypes[t].childCellNumber
  /\ e.isNode = CellTypes[t].isNodeLevel
  /\ e.isMultiNodes <=> child.isNode \/ child.isMultiNodes

ModelAgrees(e, m) ==
  /\ e.level = 1 /\ e.leafCellNumber = 1 /\ e.leafCellType = m
  /\ ~ e.isNode /\ ~ e.isMultiNodes
  /\ \E t \in Configured : Child(t) = m /\ e.priority = CellTypes[t].childCellPriority

LEMMA AgreeIsAgrees ==
  ElementsAgree <=>
    /\ \A t \in Configured : Added(t) => Added(Child(t)) /\ Agrees(elements[t], elements[Child(t)], t)
    /\ \A m \in Models : Added(m) => ModelAgrees(elements[m], m)
  BY DEF ElementsAgree, Agrees, ModelAgrees

LEMMA AgreeIsAgreesNext ==
  ElementsAgree' <=>
    /\ \A t \in Configured : Added(t)' =>
         Added(Child(t))' /\ Agrees(elements'[t], elements'[Child(t)], t)
    /\ \A m \in Models : Added(m)' => ModelAgrees(elements'[m], m)
  BY DEF ElementsAgree, Agrees, ModelAgrees, Added, Child, Configured

LEMMA ChildIsType == \A t \in Configured : t \in Types /\ Child(t) \in Types
  BY TypesAssumption DEF Child, CellTypeSpec, Types

LEMMA AddLeafInv ==
  ASSUME ChainInv, AddLeaf
  PROVE  ChainInv'
  <1> USE DEF ChainInv
  <1> DEFINE n == Len(calls)
             m == Top.type
             e == [level |-> 1, priority |-> Top.priority,
                   childCellType |-> NoType, childCellNumber |-> 0,
                   leafCellType |-> m, leafCellNumber |-> 1,
                   isNode |-> FALSE, isMultiNodes |-> FALSE]
  <1>1. /\ calls # <<>> /\ ~ Added(m) /\ m \notin Configured /\ Return /\ todo' = todo
        /\ elements' = [elements EXCEPT ![m] = e]
    BY DEF AddLeaf
  <1>2. Top \in Call /\ n \in Nat \ {0} /\ Top = calls[n]
    BY <1>1, StackFacts DEF ChainTypeOK, Call
  <1>3. m \in Models /\ Top.priority \in Int
    BY <1>1, <1>2 DEF Call, Types
  <1>4. e \in Element
    BY <1>3 DEF Element
  <1>5. \E t \in Configured : Child(t) = m /\ Top.priority = CellTypes[t].childCellPriority
    <2>1. n # 1
      BY <1>1, <1>2 DEF CallsInv
    <2>2. n \in 1..Len(calls)
      BY <1>2
    <2>3. \A i \in 1..Len(calls) : i # 1 =>
            /\ calls[i - 1].type \in Configured
            /\ calls[i].type = Child(calls[i - 1].type)
            /\ calls[i].priority = CellTypes[calls[i - 1].type].childCellPriority
      BY DEF CallsInv
    <2> HIDE DEF n
    <2>4. /\ calls[n - 1].type \in Configured
          /\ calls[n].type = Child(calls[n - 1].type)
          /\ calls[n].priority = CellTypes[calls[n - 1].type].childCellPriority
      BY <2>1, <2>2, <2>3
    <2> QED
      BY <1>2, <2>4
  <1>6. ModelAgrees(e, m)
    BY <1>5 DEF ModelAgrees
  <1> HIDE DEF e, m
  <1>7. /\ ChainTypeOK' /\ CallsInv' /\ VisitedInv' /\ elements'[m] = e
        /\ \A t \in Types \ {m} : elements'[t] = elements[t] /\ (Added(t)' <=> Added(t))
    BY <1>1, <1>4, AddedNow DEF m
  <1>8. ElementsAgree'
    <2>1. ASSUME NEW t \in Configured, Added(t)'
          PROVE  Added(Child(t))' /\ Agrees(elements'[t], elements'[Child(t)], t)
      <3>1. t # m /\ t \in Types /\ Child(t) \in Types
        BY <1>1, ChildIsType
      <3>2. Added(t) /\ elements'[t] = elements[t]
        BY <1>7, <2>1, <3>1
      <3>3. Added(Child(t)) /\ Agrees(elements[t], elements[Child(t)], t)
        BY <3>2, AgreeIsAgrees
      <3>4. Child(t) # m
        BY <1>1, <3>3
      <3> QED
        BY <1>7, <3>1, <3>2, <3>3, <3>4
    <2>2. ASSUME NEW x \in Models, Added(x)'
          PROVE  ModelAgrees(elements'[x], x)
      <3>1. CASE x = m
        BY <1>6, <1>7, <3>1
      <3>2. CASE x # m
        <4>1. x \in Types \ {m}
          BY <3>2 DEF Types
        <4>2. Added(x) /\ elements'[x] = elements[x]
          BY <1>7, <2>2, <4>1
        <4> QED
          BY <4>2, AgreeIsAgrees
      <3> QED
        BY <3>1, <3>2
    <2> QED
      BY <2>1, <2>2, AgreeIsAgreesNext
  <1> QED
    BY <1>7, <1>8

LEMMA AddAboveInv ==
  ASSUME ChainInv, AddAbove
  PROVE  ChainInv'
  <1> USE DEF ChainInv
  <1> DEFINE top == Top.type
             e == Above(top)
  <1>1. /\ calls # <<>> /\ ~ Added(top) /\ top \in Configured /\ Added(Child(top))
        /\ Return /\ todo' = todo /\ elements' = [elements EXCEPT ![top] = e]
    BY DEF AddAbove
  <1>2. e \in Element
    BY <1>1, AboveType
  <1>3. Agrees(e, elements[Child(top)], top)
    BY DEF Agrees, Above
  <1> HIDE DEF e, top
  <1>4. /\ ChainTypeOK' /\ CallsInv' /\ VisitedInv' /\ elements'[top] = e
        /\ \A t \in Types \ {top} : elements'[t] = elements[t] /\ (Added(t)' <=> Added(t))
    BY <1>1, <1>2, AddedNow DEF top
  <1>5. ElementsAgree'
    <2>1. ASSUME NEW t \in Configured, Added(t)'
          PROVE  Added(Child(t))' /\ Agrees(elements'[t], elements'[Child(t)], t)
      <3>1. t \in Types /\ Child(t) \in Types
        BY ChildIsType
      <3>2. Added(Child(t)) /\ (t # top => Agrees(elements[t], elements[Child(t)], t))
        BY <1>1, <1>4, <2>1, <3>1, AgreeIsAgrees
      <3>3. Child(t) # top
        BY <1>1, <3>2
      <3>4. Added(Child(t))' /\ elements'[Child(t)] = elements[Child(t)]
        BY <1>4, <3>1, <3>2, <3>3
      <3>5. CASE t = top
        BY <1>3, <1>4, <3>4, <3>5
      <3>6. CASE t # top
        BY <1>4, <3>1, <3>2, <3>4, <3>6
      <3> QED
        BY <3>5, <3>6
    <2>2. ASSUME NEW x \in Models, Added(x)'
          PROVE  ModelAgrees(elements'[x], x)
      <3>1. x \in Types \ {top}
        BY <1>1, TypesAssumption DEF Types
      <3>2. Added(x) /\ elements'[x] = elements[x]
        BY <1>4, <2>2, <3>1
      <3> QED
        BY <3>2, AgreeIsAgrees
    <2> QED
      BY <2>1, <2>2, AgreeIsAgreesNext
  <1> QED
    BY <1>4, <1>5

LEMMA ChainNextInv == ChainInv /\ [ChainNext]_chainVars => ChainInv'
  <1> SUFFICES ASSUME ChainInv, [ChainNext]_chainVars PROVE ChainInv'
    OBVIOUS
  <1>1. CASE UNCHANGED chainVars
    <2>1. ElementsAgree'
      BY <1>1, UnchangedElements DEF ChainInv, chainVars
    <2>2. ChainTypeOK' /\ CallsInv' /\ VisitedInv'
      BY <1>1 DEF ChainInv, chainVars, ChainTypeOK, CallsInv, VisitedInv, Added, Child, Configured
    <2> QED
      BY <2>1, <2>2 DEF ChainInv
  <1>2. CASE ChainNext
    BY <1>2, AlreadyAddedInv, AddLeafInv, AddChildFirstInv, AddAboveInv, VisitTypeInv
      DEF ChainNext, AddCell
  <1> QED
    BY <1>1, <1>2

(* The inductive invariant, for every configuration of cell types. *)
THEOREM ChainsInvariant == ChainSpec => []ChainInv
  BY ChainInitInv, ChainNextInv, PTL DEF ChainSpec

(* The elements, the stack of calls and the map keep their types. *)
THEOREM ChainsTypeOK == ChainSpec => []ChainTypeOK
  <1>1. ChainInv => ChainTypeOK
    BY DEF ChainInv
  <1> QED
    BY <1>1, ChainsInvariant, PTL

(* Whatever the order of the map, elements agree with their children's: the   *)
(* number of GPUs NewCell builds a tree for is the number its types say.      *)
THEOREM ChainElementsAgree == ChainSpec => []ElementsAgree
  <1>1. ChainInv => ElementsAgree
    BY DEF ChainInv
  <1> QED
    BY <1>1, ChainsInvariant, PTL

LEMMA ChainInvAdds == ChainInv => EveryTypeAdded
  <1> SUFFICES ASSUME ChainInv, ChainsBuilt, NEW t \in Configured
               PROVE  Added(t) /\ Added(Child(t))
    BY DEF EveryTypeAdded
  <1>1. Added(t)
    BY DEF ChainInv, ChainsBuilt, VisitedInv
  <1> QED
    BY <1>1, AgreeIsAgrees DEF ChainInv

(* When buildCellChains returns, no configured type and no child of one lacks *)
(* an element.                                                                *)
THEOREM ChainEveryTypeAdded == ChainSpec => []EveryTypeAdded
  BY ChainInvAdds, ChainsInvariant, PTL


-----------------------------------------------------------------------------
(* Induction over the naturals, on sets. *)

(* A nonempty set of naturals has a least element. *)
LEMMA LeastNatural ==
  ASSUME NEW S \in SUBSET Nat, S # {}
  PROVE  \E m \in S : \A k \in S : m <= k
  <1>0. \E x \in S : TRUE
    OBVIOUS
  <1>1. PICK x \in S : TRUE
    BY <1>0
  <1> DEFINE T == {k \in S : k <= x}
  <1>2. T \in SUBSET Nat /\ x \in T /\ T \in SUBSET (0..x) /\ x \in Nat
    <2>1. x \in Nat
      OBVIOUS
    <2>2. x \in T /\ \A k \in T : k \in 0..x
      BY <2>1
    <2> QED
      BY <2>1, <2>2
  <1>3. \A k \in Nat : k \in S /\ k \notin T => x < k
    BY <1>2
  <1>a. T \in SUBSET S
    OBVIOUS
  <1> HIDE DEF T
  <1>4. IsFiniteSet(T) /\ T # {}
    <2>1. IsFiniteSet(0..x)
      BY <1>2, FS_Interval
    <2> QED
      BY <2>1, <1>2, FS_Subset
  <1> DEFINE m == Min(T)
  <1>5. m \in T /\ \A y \in T : m <= y
    BY <1>2, <1>4, MinOfNaturals
  <1> HIDE DEF m
  <1>6. m \in S /\ m \in Nat /\ m <= x
    BY <1>2, <1>5, <1>a
  <1>7. ASSUME NEW k \in S PROVE m <= k
    <2>1. k \in Nat
      OBVIOUS
    <2>2. CASE k \in T
      BY <2>2, <1>5
    <2>3. CASE k \notin T
      BY <2>1, <2>3, <1>2, <1>3, <1>6
    <2> QED
      BY <2>2, <2>3
  <1> QED
    BY <1>6, <1>7

(* A set with zero and the successors of its members has every natural. *)
LEMMA InductionOnSets ==
  ASSUME NEW S, 0 \in S, \A n \in Nat : n \in S => n + 1 \in S
  PROVE  \A n \in Nat : n \in S
  <1> DEFINE T == Nat \ S
  <1> SUFFICES ASSUME T # {} PROVE FALSE
    OBVIOUS
  <1>1. PICK m \in T : \A k \in T : m <= k
    <2>1. T \in SUBSET Nat
      OBVIOUS
    <2> HIDE DEF T
    <2> QED
      BY <2>1, LeastNatural
  <1>2. m \in Nat /\ m # 0 /\ m \notin S
    BY <1>1
  <1>3. m - 1 \in Nat /\ m - 1 \notin T /\ (m - 1) + 1 = m
    BY <1>1, <1>2
  <1> QED
    BY <1>2, <1>3

(* The part of a path that leads to the parent, and the path to a child. *)
LEMMA FrontFacts ==
  ASSUME NEW S, NEW p \in Seq(S), Len(p) > 1
  PROVE  /\ Front(p) \in Seq(S) /\ Front(p) # <<>> /\ Len(Front(p)) = Len(p) - 1
         /\ \A k \in 1..Len(p) - 1 : Front(p)[k] = p[k]
         /\ Len(p) \in Nat /\ Last(p) = p[Len(p)] /\ Last(p) \in S
         /\ p = Append(Front(p), Last(p))
  <1> DEFINE n == Len(p)
             m == n - 1
  <1>1. n \in Nat /\ n > 1 /\ \A i \in 1..n : p[i] \in S
    BY ElementOfSeq
  <1>2. m \in Nat /\ m >= 1 /\ m + 1 = n
    BY <1>1
  <1>3. \A i \in 1..m : p[i] \in S
    BY <1>1
  <1>a. Front(p) = SubSeq(p, 1, m)
    BY DEF Front
  <1>b. p[n] = Last(p) /\ p[n] \in S
    BY <1>1 DEF Last
  <1>c. DOMAIN p = 1..n
    OBVIOUS
  <1> HIDE DEF m
  <1>4. /\ SubSeq(p, 1, m) \in Seq(S)
        /\ Len(SubSeq(p, 1, m)) = IF 1 <= m THEN m - 1 + 1 ELSE 0
        /\ \A i \in 1..m - 1 + 1 : SubSeq(p, 1, m)[i] = p[1 + i - 1]
    BY <1>2, <1>3, SubSeqProperties
  <1>5. (IF 1 <= m THEN m - 1 + 1 ELSE 0) = m /\ m - 1 + 1 = m
    BY <1>2
  <1>6. Len(Front(p)) = m /\ Front(p) \in Seq(S)
    BY <1>4, <1>5, <1>a
  <1>7. \A k \in 1..m : Front(p)[k] = p[k]
    <2> TAKE k \in 1..m
    <2>1. 1 + k - 1 = k /\ k \in 1..m - 1 + 1
      BY <1>2
    <2> QED
      BY <1>4, <2>1, <1>a
  <1>8. Front(p) # <<>>
    BY <1>6, <1>2
  <1>9. p = Append(Front(p), Last(p))
    <2> DEFINE q == Append(Front(p), Last(p))
    <2>1. q \in Seq(S) /\ Len(q) = m + 1 /\ q[m + 1] = Last(p) /\ \A k \in 1..m : q[k] = Front(p)[k]
      BY <1>6, <1>b, AppendProperties
    <2>2. Len(q) = n
      BY <2>1, <1>2
    <2>3. \A k \in 1..n : p[k] = q[k]
      BY <2>1, <1>2, <1>7, <1>b
    <2> HIDE DEF q
    <2> QED
      BY <2>1, <2>2, <2>3, SeqEqual DEF q
  <1> QED
    BY <1>1, <1>2, <1>6, <1>7, <1>8, <1>9, <1>b DEF m

-----------------------------------------------------------------------------
(* The type of a path's cell is well defined, by recursion on the length. *)

PathsUpTo(n) == {p \in Seq(Nat) \ {<<>>} : Len(p) <= n}

TypesUpTo(f, n) ==
  f = [p \in PathsUpTo(n) |-> IF Len(p) = 1 THEN RootTypes[p[1]] ELSE Child(f[Front(p)])]

(* The parent of a path that is not a root's is shorter by one. *)
LEMMA ParentPath ==
  ASSUME NEW n \in Nat, NEW p \in PathsUpTo(n), Len(p) # 1
  PROVE  Front(p) \in PathsUpTo(n) /\ Len(Front(p)) = Len(p) - 1 /\ Len(p) > 1
  <1>1. p \in Seq(Nat) /\ p # <<>> /\ Len(p) \in Nat \ {0} /\ Len(p) <= n
    BY EmptySeq DEF PathsUpTo
  <1>2. Len(p) > 1
    BY <1>1
  <1>3. Front(p) \in Seq(Nat) /\ Front(p) # <<>> /\ Len(Front(p)) = Len(p) - 1
    BY <1>1, <1>2, FrontFacts
  <1>4. Len(p) - 1 <= n
    BY <1>1
  <1> QED
    BY <1>2, <1>3, <1>4 DEF PathsUpTo

LEMMA TypesUpToExist == \A n \in Nat : \E f : TypesUpTo(f, n)
  <1> DEFINE P == {n \in Nat : \E f : TypesUpTo(f, n)}
  <1>1. 0 \in P
    <2>1. PathsUpTo(0) = {}
      <3>1. \A p \in Seq(Nat) \ {<<>>} : Len(p) \in Nat \ {0}
        BY EmptySeq
      <3>2. \A p \in Seq(Nat) \ {<<>>} : ~ (Len(p) <= 0)
        BY <3>1
      <3> QED
        BY <3>2 DEF PathsUpTo
    <2> DEFINE f == [p \in {} |-> {}]
    <2>2. TypesUpTo(f, 0)
      BY <2>1 DEF TypesUpTo
    <2> QED
      BY <2>2
  <1>2. ASSUME NEW n \in Nat, n \in P PROVE n + 1 \in P
    <2>1. PICK f : TypesUpTo(f, n)
      BY <1>2
    <2> DEFINE g == [p \in PathsUpTo(n + 1) |->
                      IF Len(p) = 1 THEN RootTypes[p[1]] ELSE Child(f[Front(p)])]
    <2>2. ASSUME NEW p \in PathsUpTo(n + 1), Len(p) # 1
          PROVE  f[Front(p)] = g[Front(p)]
      <3> DEFINE q == Front(p)
      <3>1. n + 1 \in Nat
        OBVIOUS
      <3>2. q \in PathsUpTo(n + 1) /\ Len(q) = Len(p) - 1 /\ Len(p) > 1
        BY <3>1, <2>2, ParentPath
      <3>3. Len(p) \in Nat /\ Len(p) <= n + 1
        BY DEF PathsUpTo
      <3>4. Len(q) <= n
        BY <3>2, <3>3
      <3>5. q \in PathsUpTo(n)
        BY <3>2, <3>4 DEF PathsUpTo
      <3> HIDE DEF q
      <3>6. f[q] = IF Len(q) = 1 THEN RootTypes[q[1]] ELSE Child(f[Front(q)])
        BY <3>5, <2>1 DEF TypesUpTo
      <3>7. g[q] = IF Len(q) = 1 THEN RootTypes[q[1]] ELSE Child(f[Front(q)])
        BY <3>2
      <3> QED
        BY <3>6, <3>7 DEF q
    <2>3. TypesUpTo(g, n + 1)
      BY <2>2, Zenon DEF TypesUpTo
    <2> HIDE DEF g
    <2> QED
      BY <2>3
  <1> HIDE DEF P
  <1>3. \A n \in Nat : n \in P
    BY <1>1, <1>2, InductionOnSets
  <1> QED
    BY <1>3 DEF P

LEMMA TypesUpToAgree ==
  ASSUME NEW n \in Nat, NEW m \in Nat, n <= m,
         NEW f, NEW g, TypesUpTo(f, n), TypesUpTo(g, m)
  PROVE  \A p \in PathsUpTo(n) : f[p] = g[p]
  <1> DEFINE P == {k \in Nat : \A p \in PathsUpTo(n) : Len(p) <= k => f[p] = g[p]}
  <1>0. \A p \in PathsUpTo(n) : Len(p) \in Nat \ {0}
    BY EmptySeq DEF PathsUpTo
  <1>1. 0 \in P
    BY <1>0
  <1>2. ASSUME NEW k \in Nat, k \in P PROVE k + 1 \in P
    <2>1. ASSUME NEW p \in PathsUpTo(n), Len(p) <= k + 1 PROVE f[p] = g[p]
      <3>1. p \in PathsUpTo(m)
        BY <1>0 DEF PathsUpTo
      <3>2. f[p] = IF Len(p) = 1 THEN RootTypes[p[1]] ELSE Child(f[Front(p)])
        BY DEF TypesUpTo
      <3>3. g[p] = IF Len(p) = 1 THEN RootTypes[p[1]] ELSE Child(g[Front(p)])
        BY <3>1 DEF TypesUpTo
      <3>4. ASSUME Len(p) # 1 PROVE f[Front(p)] = g[Front(p)]
        <4>1. Front(p) \in PathsUpTo(n) /\ Len(Front(p)) = Len(p) - 1
          BY <3>4, ParentPath
        <4>2. Len(Front(p)) <= k
          BY <4>1, <2>1, <1>0
        <4> QED
          BY <4>1, <4>2, <1>2
      <3> QED
        BY <3>2, <3>3, <3>4
    <2> QED
      BY <2>1
  <1> HIDE DEF P
  <1>3. \A k \in Nat : k \in P
    BY <1>1, <1>2, InductionOnSets
  <1>4. n \in P
    BY <1>3
  <1> QED
    BY <1>4 DEF P, PathsUpTo

(* A root has the type that is configured; any other cell, its parent's child type. *)
LEMMA TypeOfPath ==
  ASSUME NEW p \in Seq(Nat), p # <<>>
  PROVE  TypeOf[p] = IF Len(p) = 1 THEN RootTypes[p[1]] ELSE Child(TypeOf[Front(p)])
  <1> DEFINE Paths == Seq(Nat) \ {<<>>}
             Step(f) == [q \in Paths |-> IF Len(q) = 1 THEN RootTypes[q[1]] ELSE Child(f[Front(q)])]
             part(n) == CHOOSE f : TypesUpTo(f, n)
             all == [q \in Paths |-> part(Len(q))[q]]
  <1>1. \A n \in Nat : TypesUpTo(part(n), n)
    BY TypesUpToExist, Zenon
  <1> HIDE DEF part
  <1>2. ASSUME NEW q \in Paths
        PROVE  all[q] = IF Len(q) = 1 THEN RootTypes[q[1]] ELSE Child(all[Front(q)])
    <2> DEFINE n == Len(q)
               r == Front(q)
    <2>1. n \in Nat /\ q \in PathsUpTo(n) /\ q \in Seq(Nat) /\ q # <<>>
      BY DEF PathsUpTo
    <2>2. all[q] = part(n)[q]
      OBVIOUS
    <2>3. part(n)[q] = IF n = 1 THEN RootTypes[q[1]] ELSE Child(part(n)[r])
      BY <2>1, <1>1 DEF TypesUpTo
    <2>4. ASSUME n # 1 PROVE part(n)[r] = all[r]
      <3>1. r \in PathsUpTo(n) /\ Len(r) = n - 1 /\ n > 1
        BY <2>1, <2>4, ParentPath
      <3>2. r \in Paths /\ n - 1 \in Nat /\ n - 1 <= n
        BY <3>1, <2>1 DEF PathsUpTo
      <3>3. r \in PathsUpTo(n - 1)
        BY <3>1, <3>2 DEF PathsUpTo
      <3>4. part(n - 1)[r] = part(n)[r]
        BY <3>2, <3>3, <2>1, <1>1, TypesUpToAgree
      <3>5. all[r] = part(n - 1)[r]
        BY <3>1, <3>2
      <3> QED
        BY <3>4, <3>5
    <2> HIDE DEF n, r
    <2> QED
      BY <2>2, <2>3, <2>4 DEF n, r
  <1>3. all = Step(all)
    BY <1>2, Zenon
  <1> HIDE DEF all
  <1>4. TypeOf = CHOOSE f : f = Step(f)
    BY Zenon DEF TypeOf
  <1>5. TypeOf = Step(TypeOf)
    <2>1. \E f : f = Step(f)
      BY <1>3
    <2> HIDE DEF Step
    <2> QED
      BY <2>1, <1>4, Zenon
  <1>6. p \in Paths
    OBVIOUS
  <1> DEFINE T == TypeOf
  <1>7. T = Step(T)
    BY <1>5
  <1> HIDE DEF T
  <1>8. T[p] = IF Len(p) = 1 THEN RootTypes[p[1]] ELSE Child(T[Front(p)])
    BY <1>6, <1>7, Zenon
  <1> QED
    BY <1>8 DEF T

-----------------------------------------------------------------------------
(* The cells of a root, row by row. *)

FirstRow == [r \in DOMAIN RootTypes |-> << <<r>> >>]

RowsUpTo(f, n) == f = [d \in 1..n |-> IF d = 1 THEN FirstRow ELSE Below(f[d - 1])]

LEMMA RowsUpToExist == \A n \in Nat : \E f : RowsUpTo(f, n)
  <1> DEFINE P == {n \in Nat : \E f : RowsUpTo(f, n)}
  <1>1. 0 \in P
    <2> DEFINE f == [d \in {} |-> {}]
    <2>1. RowsUpTo(f, 0)
      <3>1. 1..0 = {}
        OBVIOUS
      <3> QED
        BY <3>1 DEF RowsUpTo
    <2> QED
      BY <2>1
  <1>2. ASSUME NEW n \in Nat, n \in P PROVE n + 1 \in P
    <2>1. PICK f : RowsUpTo(f, n)
      BY <1>2
    <2> DEFINE g == [d \in 1..n + 1 |-> IF d = 1 THEN FirstRow ELSE Below(f[d - 1])]
    <2>2. ASSUME NEW d \in 1..n + 1, d # 1 PROVE f[d - 1] = g[d - 1]
      <3>1. d - 1 \in 1..n /\ d - 1 \in 1..n + 1
        BY <2>2
      <3> DEFINE e == d - 1
      <3> HIDE DEF e
      <3>2. f[e] = IF e = 1 THEN FirstRow ELSE Below(f[e - 1])
        BY <3>1, <2>1 DEF RowsUpTo, e
      <3>3. g[e] = IF e = 1 THEN FirstRow ELSE Below(f[e - 1])
        BY <3>1 DEF e
      <3> QED
        BY <3>2, <3>3 DEF e
    <2>3. RowsUpTo(g, n + 1)
      BY <2>2, Zenon DEF RowsUpTo
    <2> HIDE DEF g
    <2> QED
      BY <2>3
  <1> HIDE DEF P
  <1>3. \A n \in Nat : n \in P
    BY <1>1, <1>2, InductionOnSets
  <1> QED
    BY <1>3 DEF P

LEMMA RowsUpToAgree ==
  ASSUME NEW n \in Nat, NEW m \in Nat, n <= m,
         NEW f, NEW g, RowsUpTo(f, n), RowsUpTo(g, m)
  PROVE  \A d \in 1..n : f[d] = g[d]
  <1> DEFINE P == {k \in Nat : \A d \in 1..n : d <= k => f[d] = g[d]}
  <1>1. 0 \in P
    OBVIOUS
  <1>2. ASSUME NEW k \in Nat, k \in P PROVE k + 1 \in P
    <2>1. ASSUME NEW d \in 1..n, d <= k + 1 PROVE f[d] = g[d]
      <3>1. d \in 1..m
        OBVIOUS
      <3>2. f[d] = IF d = 1 THEN FirstRow ELSE Below(f[d - 1])
        BY DEF RowsUpTo
      <3>3. g[d] = IF d = 1 THEN FirstRow ELSE Below(g[d - 1])
        BY <3>1 DEF RowsUpTo
      <3>4. ASSUME d # 1 PROVE f[d - 1] = g[d - 1]
        <4>1. d - 1 \in 1..n /\ d - 1 <= k
          BY <3>4, <2>1
        <4> QED
          BY <4>1, <1>2
      <3> QED
        BY <3>2, <3>3, <3>4
    <2> QED
      BY <2>1
  <1> HIDE DEF P
  <1>3. n \in P
    BY <1>1, <1>2, InductionOnSets
  <1> QED
    BY <1>3 DEF P

(* The first row is the roots; a row is all children of the row above it. *)
LEMMA RowOfRoots ==
  ASSUME NEW n \in Nat \ {0}
  PROVE  Row[n] = IF n = 1 THEN FirstRow ELSE Below(Row[n - 1])
  <1> DEFINE Step(h) == [d \in Nat \ {0} |-> IF d = 1 THEN FirstRow ELSE Below(h[d - 1])]
             part(d) == CHOOSE f : RowsUpTo(f, d)
             all == [d \in Nat \ {0} |-> part(d)[d]]
  <1>1. \A d \in Nat : RowsUpTo(part(d), d)
    BY RowsUpToExist, Zenon
  <1> HIDE DEF part
  <1>2. ASSUME NEW d \in Nat \ {0}
        PROVE  all[d] = IF d = 1 THEN FirstRow ELSE Below(all[d - 1])
    <2>1. all[d] = part(d)[d]
      OBVIOUS
    <2>2. part(d)[d] = IF d = 1 THEN FirstRow ELSE Below(part(d)[d - 1])
      BY <1>1 DEF RowsUpTo
    <2>3. ASSUME d # 1 PROVE part(d)[d - 1] = all[d - 1]
      <3> DEFINE e == d - 1
      <3>1. e \in Nat \ {0} /\ e <= d /\ e \in 1..e /\ e \in Nat /\ d \in Nat
        BY <2>3
      <3> HIDE DEF e
      <3>2. part(e)[e] = part(d)[e]
        BY <3>1, <1>1, RowsUpToAgree
      <3>3. all[e] = part(e)[e]
        BY <3>1
      <3> QED
        BY <3>2, <3>3 DEF e
    <2> QED
      BY <2>1, <2>2, <2>3
  <1>3. all = Step(all)
    BY <1>2, Zenon
  <1> HIDE DEF all
  <1>4. Row = CHOOSE f : f = Step(f)
    BY Zenon DEF Row, FirstRow
  <1> DEFINE T == Row
  <1>5. T = Step(T)
    <2>1. \E f : f = Step(f)
      BY <1>3
    <2> HIDE DEF Step
    <2> QED
      BY <2>1, <1>4, Zenon
  <1> HIDE DEF T
  <1>6. T[n] = IF n = 1 THEN FirstRow ELSE Below(T[n - 1])
    BY <1>5, Zenon
  <1> QED
    BY <1>6 DEF T

(* What a sequence of sequences has is in one of them. *)
LEMMA FlattenFacts ==
  ASSUME NEW T, NEW s \in Seq(Seq(T))
  PROVE  /\ FlattenSeq(s) \in Seq(T)
         /\ ToSet(FlattenSeq(s)) = UNION {ToSet(s[i]) : i \in DOMAIN s}
  <1> DEFINE n == Len(s)
             Step(h, k) == [i \in 1..k |-> IF i = 1 THEN s[i] ELSE h[i - 1] \o s[i]]
             flatten == CHOOSE h : h = Step(h, n)
             P == {k \in Nat : \E h : h = Step(h, k)}
  <1>1. n \in Nat /\ DOMAIN s = 1..n /\ \A i \in 1..n : s[i] \in Seq(T)
    BY ElementOfSeq
  <1>2. 0 \in P
    <2> DEFINE h == [i \in {} |-> {}]
    <2>1. h = Step(h, 0)
      <3>1. 1..0 = {}
        OBVIOUS
      <3> QED
        BY <3>1
    <2> QED
      BY <2>1, Zenon
  <1>3. ASSUME NEW k \in Nat, k \in P PROVE k + 1 \in P
    <2>1. PICK h : h = Step(h, k)
      BY <1>3
    <2> DEFINE g == Step(h, k + 1)
    <2>2. ASSUME NEW i \in 1..k + 1, i # 1 PROVE h[i - 1] = g[i - 1]
      <3> DEFINE j == i - 1
      <3>1. j \in 1..k /\ j \in 1..k + 1
        BY <2>2
      <3> HIDE DEF j
      <3>2. h[j] = IF j = 1 THEN s[j] ELSE h[j - 1] \o s[j]
        BY <3>1, <2>1
      <3>3. g[j] = IF j = 1 THEN s[j] ELSE h[j - 1] \o s[j]
        BY <3>1
      <3> QED
        BY <3>2, <3>3 DEF j
    <2>3. g = Step(g, k + 1)
      BY <2>2, Zenon
    <2>4. k + 1 \in Nat
      OBVIOUS
    <2> HIDE DEF g, Step
    <2> QED
      BY <2>3, <2>4, Zenon
  <1>4. \E h : h = Step(h, n)
    <2> HIDE DEF P
    <2>1. n \in P
      BY <1>1, <1>2, <1>3, InductionOnSets
    <2> QED
      BY <2>1 DEF P
  <1>5. flatten = Step(flatten, n)
    <2> HIDE DEF Step
    <2> QED
      BY <1>4, Zenon
  <1>6. FlattenSeq(s) = IF n = 0 THEN s ELSE flatten[n]
    BY Zenon DEF FlattenSeq
  <1> HIDE DEF flatten
  <1> DEFINE Q == {k \in Nat : k \in 1..n =>
               /\ flatten[k] \in Seq(T)
               /\ ToSet(flatten[k]) = UNION {ToSet(s[i]) : i \in 1..k}}
  <1>7. 0 \in Q
    OBVIOUS
  <1>8. ASSUME NEW k \in Nat, k \in Q PROVE k + 1 \in Q
    <2> SUFFICES ASSUME k + 1 \in 1..n
                 PROVE  /\ flatten[k + 1] \in Seq(T)
                        /\ ToSet(flatten[k + 1]) = UNION {ToSet(s[i]) : i \in 1..k + 1}
      OBVIOUS
    <2>1. flatten[k + 1] = IF k + 1 = 1 THEN s[k + 1] ELSE flatten[k] \o s[k + 1]
      <3> DEFINE j == k + 1
      <3>1. j - 1 = k
        OBVIOUS
      <3> HIDE DEF j
      <3>2. flatten[j] = IF j = 1 THEN s[j] ELSE flatten[j - 1] \o s[j]
        BY <1>5 DEF j
      <3> QED
        BY <3>1, <3>2 DEF j
    <2>2. s[k + 1] \in Seq(T)
      BY <1>1
    <2>3. CASE k = 0
      <3>1. flatten[k + 1] = s[k + 1] /\ 1..k + 1 = {k + 1}
        BY <2>1, <2>3
      <3> QED
        BY <3>1, <2>2
    <2>4. CASE k # 0
      <3>0. k \in 1..n /\ k + 1 # 1
        BY <2>4
      <3>1. k \in 1..n /\ flatten[k + 1] = flatten[k] \o s[k + 1]
        <4> HIDE DEF Q, Step
        <4> QED
          BY <2>1, <3>0
      <3>2. /\ flatten[k] \in Seq(T)
            /\ ToSet(flatten[k]) = UNION {ToSet(s[i]) : i \in 1..k}
        BY <3>1, <1>8
      <3>3. ToSet(flatten[k] \o s[k + 1]) = ToSet(flatten[k]) \cup ToSet(s[k + 1])
        <4> DEFINE a == flatten[k]
                   b == s[k + 1]
        <4>1. a \in Seq(T) /\ b \in Seq(T)
          BY <3>2, <2>2
        <4> HIDE DEF a, b
        <4>2. Range(a \o b) = Range(a) \cup Range(b)
          BY <4>1, RangeConcatenation
        <4>3. ToSet(a \o b) = ToSet(a) \cup ToSet(b)
          BY <4>2, Zenon DEF ToSet, Range
        <4> QED
          BY <4>3 DEF a, b
      <3>4. 1..k + 1 = (1..k) \cup {k + 1}
        OBVIOUS
      <3>5. UNION {ToSet(s[i]) : i \in 1..k + 1}
              = (UNION {ToSet(s[i]) : i \in 1..k}) \cup ToSet(s[k + 1])
        BY <3>4, Zenon
      <3>6. flatten[k] \o s[k + 1] \in Seq(T)
        BY <3>2, <2>2, ConcatProperties
      <3> QED
        BY <3>1, <3>2, <3>3, <3>5, <3>6
    <2> QED
      BY <2>3, <2>4
  <1>9. n \in Q
    <2> HIDE DEF Q
    <2> QED
      BY <1>1, <1>7, <1>8, InductionOnSets
  <1>10. CASE n = 0
    <2> HIDE DEF Q, P, Step
    <2>1. s = <<>> /\ FlattenSeq(s) = s /\ DOMAIN s = {}
      BY <1>1, <1>6, <1>10, EmptySeq
    <2>2. ToSet(FlattenSeq(s)) = {} /\ FlattenSeq(s) = <<>>
      BY <2>1, Zenon DEF ToSet
    <2>3. UNION {ToSet(s[i]) : i \in DOMAIN s} = {}
      BY <2>1, Zenon
    <2>4. <<>> \in Seq(T)
      BY EmptySeq
    <2> QED
      BY <2>2, <2>3, <2>4
  <1>11. CASE n # 0
    <2>1. n \in 1..n /\ FlattenSeq(s) = flatten[n]
      BY <1>1, <1>6, <1>11
    <2> QED
      BY <2>1, <1>9, <1>1
  <1> QED
    BY <1>10, <1>11

LEMMA ChildNumberType == \A p : ChildNumber(p) \in Nat
  <1> TAKE p
  <1> DEFINE listed == {q \in DOMAIN GivenID : Len(q) = Len(p) + 1 /\ IsPrefix(p, q)}
  <1>1. IsFiniteSet(listed)
    BY RootsAssumption, FS_Subset
  <1>2. Cardinality(listed) \in Nat
    BY <1>1, FS_CardinalityType
  <1>3. TypeOf[p] \in Configured => CellTypes[TypeOf[p]].childCellNumber \in Nat
    BY TypesAssumption DEF CellTypeSpec
  <1> HIDE DEF listed
  <1>4. ChildNumber(p) = IF TypeOf[p] \notin Configured THEN 0
                         ELSE IF listed # {} THEN Cardinality(listed)
                         ELSE CellTypes[TypeOf[p]].childCellNumber
    BY Zenon DEF ChildNumber, listed
  <1> QED
    BY <1>2, <1>3, <1>4

Path == Seq(Nat) \ {<<>>}

(* The paths of a cell's children. *)
LEMMA ChildPathsAre ==
  ASSUME NEW p \in Path
  PROVE  /\ ChildPaths(p) \in Seq(Path)
         /\ ToSet(ChildPaths(p)) = {Append(p, k) : k \in 1..ChildNumber(p)}
  <1> DEFINE n == ChildNumber(p)
  <1>1. n \in Nat
    BY ChildNumberType
  <1>2. ASSUME NEW k \in 1..n PROVE Append(p, k) \in Path
    <2>1. p \in Seq(Nat) /\ k \in Nat
      BY DEF Path
    <2>2. Append(p, k) \in Seq(Nat) /\ Append(p, k) # <<>>
      BY <2>1, AppendProperties
    <2> QED
      BY <2>2 DEF Path
  <1>3. ChildPaths(p) = [k \in 1..n |-> Append(p, k)]
    BY DEF ChildPaths
  <1> HIDE DEF n
  <1>4. [k \in 1..n |-> Append(p, k)] \in Seq(Path)
    BY <1>1, <1>2
  <1>5. ToSet(ChildPaths(p)) = {Append(p, k) : k \in 1..n}
    BY <1>3, Zenon DEF ToSet
  <1> QED
    BY <1>3, <1>4, <1>5 DEF n

(* A cell of a row is a child of a cell of the row above it. *)
LEMMA BelowFacts ==
  ASSUME NEW row, NEW r \in DOMAIN row, row[r] \in Seq(Path)
  PROVE  /\ Below(row)[r] \in Seq(Path) /\ DOMAIN Below(row) = DOMAIN row
         /\ \A p : p \in ToSet(Below(row)[r])
               <=> \E q \in ToSet(row[r]) : \E k \in 1..ChildNumber(q) : p = Append(q, k)
  <1> DEFINE s == row[r]
             t == [i \in DOMAIN s |-> ChildPaths(s[i])]
  <1>1. Below(row)[r] = FlattenSeq(t) /\ DOMAIN Below(row) = DOMAIN row
    BY DEF Below
  <1>2. DOMAIN s = 1..Len(s) /\ Len(s) \in Nat /\ \A i \in DOMAIN s : s[i] \in Path
    BY LenProperties
  <1>3. \A i \in DOMAIN s : ChildPaths(s[i]) \in Seq(Path)
    BY <1>2, ChildPathsAre
  <1>4. t \in Seq(Seq(Path)) /\ DOMAIN t = DOMAIN s
    <2>1. t = [i \in 1..Len(s) |-> ChildPaths(s[i])]
      BY <1>2
    <2> HIDE DEF s
    <2> QED
      BY <2>1, <1>2, <1>3
  <1>5. \A i \in DOMAIN s : ToSet(t[i]) = {Append(s[i], k) : k \in 1..ChildNumber(s[i])}
    BY <1>2, ChildPathsAre
  <1>6. FlattenSeq(t) \in Seq(Path) /\ ToSet(FlattenSeq(t)) = UNION {ToSet(t[i]) : i \in DOMAIN t}
    <2> HIDE DEF t
    <2> QED
      BY <1>4, FlattenFacts
  <1> HIDE DEF t, s
  <1>7. ASSUME NEW p
        PROVE  p \in ToSet(FlattenSeq(t))
                 <=> \E q \in ToSet(s) : \E k \in 1..ChildNumber(q) : p = Append(q, k)
    <2>1. p \in ToSet(FlattenSeq(t)) <=> \E i \in DOMAIN s : p \in ToSet(t[i])
      BY <1>4, <1>6, Zenon
    <2>2. p \in ToSet(FlattenSeq(t))
            <=> \E i \in DOMAIN s : \E k \in 1..ChildNumber(s[i]) : p = Append(s[i], k)
      BY <2>1, <1>5, Zenon
    <2> QED
      BY <2>2, Zenon DEF ToSet
  <1> QED
    BY <1>1, <1>6, <1>7 DEF s

LEMMA RowType ==
  \A d \in Nat \ {0} : DOMAIN Row[d] = DOMAIN RootTypes
                       /\ \A r \in DOMAIN RootTypes : Row[d][r] \in Seq(Path)
  <1> DEFINE Typed(d) == DOMAIN Row[d] = DOMAIN RootTypes
                         /\ \A r \in DOMAIN RootTypes : Row[d][r] \in Seq(Path)
             P == {d \in Nat : d # 0 => Typed(d)}
  <1>1. 0 \in P
    OBVIOUS
  <1>2. ASSUME NEW d \in Nat, d \in P PROVE d + 1 \in P
    <2>0. d + 1 \in Nat \ {0} /\ (d + 1) - 1 = d
      OBVIOUS
    <2>1. CASE d = 0
      <3>1. Row[d + 1] = FirstRow
        BY <2>0, <2>1, RowOfRoots
      <3>2. \A r \in DOMAIN RootTypes : << <<r>> >> \in Seq(Path)
        <4>1. DOMAIN RootTypes \in SUBSET Nat
          BY RootsAssumption
        <4> QED
          BY <4>1 DEF Path
      <3> QED
        BY <2>0, <3>1, <3>2 DEF FirstRow
    <2>2. CASE d # 0
      <3>1. Row[d + 1] = Below(Row[d])
        BY <2>0, <2>2, RowOfRoots
      <3>2. Typed(d)
        BY <1>2, <2>2
      <3>3. \A r \in DOMAIN RootTypes : Below(Row[d])[r] \in Seq(Path)
        BY <3>2, BelowFacts
      <3>4. DOMAIN Below(Row[d]) = DOMAIN Row[d]
        BY DEF Below
      <3> QED
        BY <2>0, <3>1, <3>2, <3>3, <3>4
    <2> QED
      BY <2>1, <2>2
  <1> HIDE DEF P
  <1>3. \A d \in Nat : d \in P
    BY <1>1, <1>2, InductionOnSets
  <1> QED
    BY <1>3 DEF P

(* The cells of row d are the roots, or the children of those of row d - 1. *)
LEMMA RowMembers ==
  ASSUME NEW r \in DOMAIN RootTypes, NEW d \in Nat \ {0}
  PROVE  /\ ToSet(Row[1][r]) = {<<r>>}
         /\ d > 1 => \A p : p \in ToSet(Row[d][r]) <=>
              \E q \in ToSet(Row[d - 1][r]) : \E k \in 1..ChildNumber(q) : p = Append(q, k)
  <1>1. ToSet(Row[1][r]) = {<<r>>}
    <2>1. Row[1] = FirstRow
      BY RowOfRoots
    <2>2. Row[1][r] = << <<r>> >>
      BY <2>1 DEF FirstRow
    <2> QED
      BY <2>2 DEF ToSet
  <1>2. ASSUME d > 1
        PROVE  \A p : p \in ToSet(Row[d][r]) <=>
                 \E q \in ToSet(Row[d - 1][r]) : \E k \in 1..ChildNumber(q) : p = Append(q, k)
    <2> DEFINE e == d - 1
    <2>1. e \in Nat \ {0} /\ d # 1
      BY <1>2
    <2>2. Row[d] = Below(Row[e])
      BY <2>1, RowOfRoots
    <2> DEFINE row == Row[e]
    <2>3. r \in DOMAIN row /\ row[r] \in Seq(Path)
      BY <2>1, RowType
    <2> HIDE DEF row
    <2>4. \A p : p \in ToSet(Below(row)[r])
            <=> \E q \in ToSet(row[r]) : \E k \in 1..ChildNumber(q) : p = Append(q, k)
      BY <2>3, BelowFacts
    <2> QED
      BY <2>2, <2>4, Zenon DEF row
  <1> QED
    BY <1>1, <1>2

(* The paths of row d below root r begin with r and are d long. *)
LEMMA RowPaths ==
  \A d \in Nat \ {0} : \A r \in DOMAIN RootTypes : \A p \in ToSet(Row[d][r]) :
    p \in Path /\ Len(p) = d /\ p[1] = r
  <1> DEFINE Is(d) == \A r \in DOMAIN RootTypes : \A p \in ToSet(Row[d][r]) :
                        p \in Path /\ Len(p) = d /\ p[1] = r
             P == {d \in Nat : d # 0 => Is(d)}
  <1>1. 0 \in P
    OBVIOUS
  <1>2. ASSUME NEW d \in Nat, d \in P PROVE d + 1 \in P
    <2> DEFINE e == d + 1
    <2>0. e \in Nat \ {0} /\ e - 1 = d
      OBVIOUS
    <2> SUFFICES ASSUME NEW r \in DOMAIN RootTypes, NEW p \in ToSet(Row[e][r])
                 PROVE  p \in Path /\ Len(p) = e /\ p[1] = r
      BY <2>0
    <2>1. CASE d = 0
      <3>1. p = <<r>> /\ e = 1
        BY <2>0, <2>1, RowMembers
      <3>2. r \in Nat
        BY RootsAssumption
      <3> QED
        BY <3>1, <3>2 DEF Path
    <2>2. CASE d # 0
      <3> HIDE DEF e
      <3>0. e > 1
        BY <2>0, <2>2
      <3>b. \E q \in ToSet(Row[e - 1][r]) : \E k \in 1..ChildNumber(q) : p = Append(q, k)
        <4>1. \A x : x \in ToSet(Row[e][r]) <=>
                \E q \in ToSet(Row[e - 1][r]) : \E k \in 1..ChildNumber(q) : x = Append(q, k)
          BY <2>0, <3>0, RowMembers
        <4> QED
          BY <4>1
      <3>1. PICK q \in ToSet(Row[d][r]) : \E k \in 1..ChildNumber(q) : p = Append(q, k)
        BY <2>0, <3>b
      <3>a. PICK k \in 1..ChildNumber(q) : p = Append(q, k)
        BY <3>1
      <3>2. q \in Path /\ Len(q) = d /\ q[1] = r
        BY <1>2, <2>2
      <3>3. q \in Seq(Nat) /\ q # <<>> /\ k \in Nat
        BY <3>2, ChildNumberType DEF Path
      <3>4. p \in Seq(Nat) /\ Len(p) = Len(q) + 1 /\ p[1] = q[1] /\ p # <<>>
        BY <3>a, <3>3, AppendProperties
      <3> QED
        BY <3>2, <3>4, <2>0 DEF Path
    <2> QED
      BY <2>1, <2>2
  <1> HIDE DEF P
  <1>3. \A d \in Nat : d \in P
    BY <1>1, <1>2, InductionOnSets
  <1> QED
    BY <1>3 DEF P

(* Where a path ends and how it goes on: what Front and Append have to do with each other. *)
LEMMA FrontOfAppend ==
  ASSUME NEW q \in Path, NEW k \in Nat
  PROVE  /\ Append(q, k) \in Path /\ Len(Append(q, k)) = Len(q) + 1 /\ Len(q) \in Nat \ {0}
         /\ Front(Append(q, k)) = q /\ Last(Append(q, k)) = k
         /\ \A i \in 1..Len(q) : Append(q, k)[i] = q[i]
  <1> DEFINE p == Append(q, k)
  <1>1. q \in Seq(Nat) /\ q # <<>> /\ Len(q) \in Nat \ {0}
    BY EmptySeq DEF Path
  <1>2. /\ p \in Seq(Nat) /\ p # <<>> /\ Len(p) = Len(q) + 1
        /\ \A i \in 1..Len(q) : p[i] = q[i]
    BY <1>1, AppendProperties
  <1>3. Len(p) > 1
    BY <1>1, <1>2
  <1> HIDE DEF p
  <1>4. Front(p) \in Seq(Nat) /\ Last(p) \in Nat /\ p = Append(Front(p), Last(p))
    BY <1>2, <1>3, FrontFacts
  <1>5. Append(Front(p), Last(p)) = Append(q, k)
    BY <1>4 DEF p
  <1>6. Front(p) = q /\ Last(p) = k
    BY <1>1, <1>4, <1>5, AppendInjective
  <1> QED
    BY <1>1, <1>2, <1>6 DEF p, Path

Depth == Cardinality(Types)

LEMMA DepthType == Depth \in Nat
  BY RootsAssumption, FS_CardinalityType DEF Depth

(* A cell is one of the row as deep as it is. *)
LEMMA CellInRow ==
  ASSUME NEW p
  PROVE  p \in Cells <=> /\ p \in Path /\ Len(p) \in 1..Depth /\ p[1] \in DOMAIN RootTypes
                         /\ p \in ToSet(Row[Len(p)][p[1]])
  <1> DEFINE sets == {ToSet(Row[d][r]) : d \in 1..Depth, r \in DOMAIN RootTypes}
  <1>a. Cells = UNION sets
    BY DEF Cells, Depth
  <1>b. ASSUME NEW d \in 1..Depth, NEW r \in DOMAIN RootTypes
        PROVE  ToSet(Row[d][r]) \in sets
    OBVIOUS
  <1>c. ASSUME NEW s \in sets
        PROVE  \E d \in 1..Depth : \E r \in DOMAIN RootTypes : s = ToSet(Row[d][r])
    OBVIOUS
  <1> HIDE DEF sets
  <1>2. ASSUME NEW d \in 1..Depth, NEW r \in DOMAIN RootTypes, p \in ToSet(Row[d][r])
        PROVE  p \in Path /\ Len(p) = d /\ p[1] = r
    <2>1. d \in Nat \ {0}
      BY DepthType
    <2> QED
      BY <2>1, <1>2, RowPaths
  <1>3. CASE p \in Cells
    <2>1. PICK s \in sets : p \in s
      BY <1>3, <1>a
    <2>2. PICK d \in 1..Depth : \E r \in DOMAIN RootTypes : s = ToSet(Row[d][r])
      BY <1>c
    <2>3. PICK r \in DOMAIN RootTypes : s = ToSet(Row[d][r])
      BY <2>2
    <2>4. p \in ToSet(Row[d][r])
      BY <2>1, <2>3
    <2>5. p \in Path /\ Len(p) = d /\ p[1] = r
      BY <2>4, <1>2
    <2> QED
      BY <1>3, <2>4, <2>5
  <1>4. CASE p \in Path /\ Len(p) \in 1..Depth /\ p[1] \in DOMAIN RootTypes
             /\ p \in ToSet(Row[Len(p)][p[1]])
    <2>1. ToSet(Row[Len(p)][p[1]]) \in sets
      BY <1>4, <1>b
    <2> QED
      BY <1>4, <2>1, <1>a
  <1> QED
    BY <1>3, <1>4

(* A cell that is not a root is a child of a cell. *)
LEMMA ParentOfCell ==
  ASSUME NEW p \in Cells, Len(p) > 1
  PROVE  /\ Front(p) \in Cells /\ Last(p) \in 1..ChildNumber(Front(p))
         /\ TypeOf[Front(p)] \in Configured /\ TypeOf[p] = Child(TypeOf[Front(p)])
         /\ Front(p)[1] = p[1]
  <1> DEFINE d == Len(p)
             e == d - 1
             r == p[1]
  <1>1. /\ p \in Path /\ d \in 1..Depth /\ r \in DOMAIN RootTypes
        /\ p \in ToSet(Row[d][r])
    BY CellInRow
  <1>2. d \in Nat \ {0} /\ d > 1 /\ e \in Nat \ {0} /\ e \in 1..Depth
    BY <1>1, DepthType
  <1>3. \A x : x \in ToSet(Row[d][r]) <=>
          \E q \in ToSet(Row[e][r]) : \E k \in 1..ChildNumber(q) : x = Append(q, k)
    BY <1>1, <1>2, RowMembers
  <1>4. PICK q \in ToSet(Row[e][r]) : \E k \in 1..ChildNumber(q) : p = Append(q, k)
    BY <1>1, <1>3
  <1>5. PICK k \in 1..ChildNumber(q) : p = Append(q, k)
    BY <1>4
  <1>6. q \in Path /\ Len(q) = e /\ q[1] = r
    BY <1>1, <1>2, RowPaths
  <1>7. k \in Nat /\ ChildNumber(q) \in Nat /\ k >= 1 /\ k <= ChildNumber(q)
    BY ChildNumberType
  <1>8. Front(p) = q /\ Last(p) = k
    BY <1>5, <1>6, <1>7, FrontOfAppend
  <1>9. q \in Cells
    BY <1>1, <1>2, <1>6, CellInRow
  <1>10. TypeOf[q] \in Configured
    <2>1. SUFFICES ASSUME TypeOf[q] \notin Configured PROVE ChildNumber(q) = 0
      BY <1>7
    <2> QED
      BY <2>1 DEF ChildNumber
  <1>11. TypeOf[p] = Child(TypeOf[Front(p)])
    BY <1>1, <1>2, TypeOfPath DEF Path
  <1> QED
    BY <1>6, <1>8, <1>9, <1>10, <1>11

LEMMA TypeOfCell ==
  ASSUME NEW p \in Cells
  PROVE  TypeOf[p] \in Types /\ (Len(p) = 1 => TypeOf[p] = RootTypes[p[1]] /\ TypeOf[p] \in Configured)
  <1>1. p \in Path /\ p[1] \in DOMAIN RootTypes /\ Len(p) \in 1..Depth
    BY CellInRow
  <1>2. CASE Len(p) = 1
    <2>1. TypeOf[p] = RootTypes[p[1]]
      BY <1>1, <1>2, TypeOfPath DEF Path
    <2>2. RootTypes[p[1]] \in Configured
      BY <1>1, RootsAssumption
    <2> QED
      BY <2>1, <2>2 DEF Types
  <1>3. CASE Len(p) # 1
    <2>0. Len(p) \in Nat \ {0}
      BY <1>1, EmptySeq DEF Path
    <2>1. Len(p) > 1
      BY <2>0, <1>3
    <2>2. TypeOf[Front(p)] \in Configured /\ TypeOf[p] = Child(TypeOf[Front(p)])
      BY <2>1, ParentOfCell
    <2> QED
      BY <2>2, <1>3, ChildIsType
  <1> QED
    BY <1>2, <1>3

LEMMA FiniteImage ==
  ASSUME NEW S, IsFiniteSet(S), NEW f
  PROVE  IsFiniteSet({f[x] : x \in S})
  <1> DEFINE T == {f[x] : x \in S}
             g == [x \in S |-> f[x]]
  <1>1. g \in Surjection(S, T)
    BY DEF Surjection
  <1> HIDE DEF T, g
  <1>2. IsFiniteSet(T)
    BY <1>1, FS_Surjection
  <1> QED
    BY <1>2 DEF T

LEMMA CellsFinite == IsFiniteSet(Cells)
  <1> DEFINE rowOf(d) == [r \in DOMAIN RootTypes |-> ToSet(Row[d][r])]
             sets(d) == {rowOf(d)[r] : r \in DOMAIN RootTypes}
             level == [d \in 1..Depth |-> UNION sets(d)]
  <1>0. DOMAIN RootTypes = 1..Len(RootTypes) /\ Len(RootTypes) \in Nat
    BY RootsAssumption
  <1>1. IsFiniteSet(DOMAIN RootTypes) /\ IsFiniteSet(1..Depth)
    BY <1>0, DepthType, FS_Interval
  <1>2. ASSUME NEW d \in 1..Depth PROVE IsFiniteSet(UNION sets(d))
    <2>1. IsFiniteSet(sets(d))
      <3> HIDE DEF rowOf
      <3> QED
        BY <1>1, FiniteImage
    <2>2. ASSUME NEW r \in DOMAIN RootTypes PROVE IsFiniteSet(rowOf(d)[r])
      <3> DEFINE s == Row[d][r]
      <3>1. d \in Nat \ {0}
        BY DepthType
      <3>2. s \in Seq(Path)
        BY <3>1, RowType
      <3>3. DOMAIN s = 1..Len(s) /\ Len(s) \in Nat
        BY <3>2
      <3>4. IsFiniteSet(DOMAIN s)
        BY <3>3, FS_Interval
      <3> HIDE DEF s
      <3>5. IsFiniteSet(ToSet(s))
        BY <3>4, FiniteImage DEF ToSet
      <3> QED
        BY <3>5 DEF s
    <2>3. \A T \in sets(d) : IsFiniteSet(T)
      BY <2>2
    <2> HIDE DEF sets
    <2> QED
      BY <2>1, <2>3, FS_UNION
  <1>3. IsFiniteSet({level[d] : d \in 1..Depth})
    <2> HIDE DEF level
    <2> QED
      BY <1>1, FiniteImage
  <1>4. \A T \in {level[d] : d \in 1..Depth} : IsFiniteSet(T)
    BY <1>2
  <1>5. Cells = UNION {level[d] : d \in 1..Depth}
    BY DEF Cells, Depth
  <1> HIDE DEF level
  <1> QED
    BY <1>3, <1>4, <1>5, FS_UNION


-----------------------------------------------------------------------------
(* The cells above a cell, and their levels. *)

LEMMA PathType ==
  ASSUME NEW p \in Path
  PROVE  /\ p \in Seq(Nat) /\ p # <<>> /\ Len(p) \in Nat \ {0} /\ DOMAIN p = 1..Len(p)
         /\ p[1] \in Nat /\ SubSeq(p, 1, Len(p)) = p /\ Len(p) \in DOMAIN p /\ 1 \in DOMAIN p
         /\ SubSeq(p, 1, 1) = <<p[1]>>
  <1>1. p \in Seq(Nat) /\ p # <<>> /\ Len(p) \in Nat \ {0} /\ DOMAIN p = 1..Len(p)
    BY EmptySeq DEF Path
  <1>2. SubSeq(p, 1, Len(p)) = p
    BY <1>1, SubSeqFull
  <1>3. 1 \in DOMAIN p /\ Len(p) \in DOMAIN p /\ p[1] \in Nat
    BY <1>1
  <1>4. SubSeq(p, 1, 1) = <<p[1]>>
    <2> DEFINE s == SubSeq(p, 1, 1)
    <2>1. s \in Seq(Nat) /\ Len(s) = 1 /\ s[1] = p[1]
      BY <1>1, <1>3, SubSeqProperties
    <2> HIDE DEF s
    <2>2. s = <<p[1]>>
      BY <2>1
    <2> QED
      BY <2>2 DEF s
  <1> QED
    BY <1>1, <1>2, <1>3, <1>4

LEMMA PrefixFacts ==
  ASSUME NEW p \in Path, NEW k \in DOMAIN p
  PROVE  /\ SubSeq(p, 1, k) \in Path /\ Len(SubSeq(p, 1, k)) = k
         /\ \A i \in 1..k : SubSeq(p, 1, k)[i] = p[i]
         /\ SubSeq(p, 1, k)[1] = p[1]
         /\ k > 1 => Front(SubSeq(p, 1, k)) = SubSeq(p, 1, k - 1)
         /\ IsPrefix(SubSeq(p, 1, k), p)
         /\ \A j \in 1..k : SubSeq(SubSeq(p, 1, k), 1, j) = SubSeq(p, 1, j)
  <1> DEFINE s == SubSeq(p, 1, k)
  <1>1. /\ p \in Seq(Nat) /\ Len(p) \in Nat /\ k \in 1..Len(p) /\ k \in Nat \ {0}
        /\ \A i \in 1..Len(p) : p[i] \in Nat
    BY PathType
  <1>2. s \in Seq(Nat) /\ Len(s) = k /\ \A i \in 1..k : s[i] = p[i]
    <2>1. \A i \in 1..k : p[i] \in Nat
      BY <1>1
    <2> QED
      BY <1>1, <2>1, SubSeqProperties
  <1>3. s \in Path
    <2>1. s # <<>>
      BY <1>1, <1>2
    <2> QED
      BY <2>1, <1>2 DEF Path
  <1>4. \A j \in 1..k : SubSeq(s, 1, j) = SubSeq(p, 1, j)
    BY <1>1, <1>2
  <1>5. ASSUME k > 1 PROVE Front(s) = SubSeq(p, 1, k - 1)
    BY <1>1, <1>2, <1>4, <1>5 DEF Front
  <1>6. IsPrefix(s, p)
    BY <1>1, <1>2, <1>4 DEF IsPrefix
  <1> HIDE DEF s
  <1>7. s[1] = p[1]
    BY <1>1, <1>2
  <1> QED
    BY <1>2, <1>3, <1>4, <1>5, <1>6, <1>7 DEF s

(* A path that begins another is what the other begins with. *)
LEMMA PrefixIsSubSeq ==
  ASSUME NEW p \in Path, NEW q \in Path
  PROVE  /\ IsPrefix(p, q) <=> Len(p) \in DOMAIN q /\ p = SubSeq(q, 1, Len(p))
         /\ IsPrefix(p, p)
         /\ IsPrefix(p, q) => p[1] = q[1]
  <1>1. SubSeq(p, 1, Len(p)) = p /\ Len(p) \in Nat \ {0} /\ DOMAIN q = 1..Len(q) /\ Len(q) \in Nat
    BY PathType
  <1>2. IsPrefix(p, q) <=> Len(p) \in DOMAIN q /\ p = SubSeq(q, 1, Len(p))
    BY <1>1 DEF IsPrefix
  <1>3. IsPrefix(p, p)
    BY <1>1 DEF IsPrefix
  <1>4. ASSUME IsPrefix(p, q) PROVE p[1] = q[1]
    <2>1. Len(p) \in DOMAIN q /\ p = SubSeq(q, 1, Len(p))
      BY <1>2, <1>4
    <2>2. SubSeq(q, 1, Len(p))[1] = q[1]
      BY <2>1, PrefixFacts
    <2> QED
      BY <2>1, <2>2
  <1> QED
    BY <1>2, <1>3, <1>4

(* When buildCellChains has returned, what a cell's element says is about its *)
(* level and its GPU model: a level less than its parent's, and the same model. *)
LEMMA CellElements ==
  ASSUME ChainInv, ChainsBuilt, NEW p \in Cells
  PROVE  /\ elements[TypeOf[p]] \in Element
         /\ LevelOf(p) \in Nat \ {0} /\ LeafType(p) \in Models /\ Capacity(p) \in Nat
         /\ TypeOf[p] \in Models => LevelOf(p) = 1 /\ Capacity(p) = 1
         /\ TypeOf[p] \in Configured => LevelOf(p) > 1
         /\ Len(p) > 1 => /\ LevelOf(Front(p)) = LevelOf(p) + 1
                          /\ LeafType(Front(p)) = LeafType(p)
                          /\ Capacity(Front(p)) = Capacity(p) * CellTypes[TypeOf[Front(p)]].childCellNumber
  <1> DEFINE t == TypeOf[p]
  <1>1. t \in Types /\ (Len(p) = 1 => t \in Configured)
    BY TypeOfCell
  <1>2. \A s \in Configured : Added(s) /\ Added(Child(s))
    <2>1. EveryTypeAdded
      BY ChainInvAdds
    <2> QED
      BY <2>1 DEF EveryTypeAdded
  <1>3. Len(p) \in Nat \ {0}
    BY CellInRow, PathType
  <1>4. Len(p) > 1 => TypeOf[Front(p)] \in Configured /\ t = Child(TypeOf[Front(p)])
    BY ParentOfCell
  <1>5. Added(t)
    <2>1. \A n \in Nat \ {0} : n = 1 \/ n > 1
      OBVIOUS
    <2> HIDE DEF t
    <2> QED
      BY <1>1, <1>2, <1>3, <1>4, <2>1
  <1>6. ChainTypeOK /\ ElementsAgree
    BY DEF ChainInv
  <1>7. elements[t] \in Element
    BY <1>1, <1>5, <1>6 DEF ChainTypeOK, Added
  <1>8. elements[t].level \in Nat /\ elements[t].leafCellType \in Models /\ elements[t].leafCellNumber \in Nat
    BY <1>7 DEF Element
  <1>9. ASSUME t \in Models PROVE elements[t].level = 1 /\ elements[t].leafCellNumber = 1
    BY <1>5, <1>6, <1>9 DEF ElementsAgree
  <1>10. ASSUME t \in Configured PROVE elements[t].level > 1
    <2>1. elements[t].level = elements[Child(t)].level + 1 /\ Added(Child(t)) /\ Child(t) \in Types
      BY <1>5, <1>6, <1>10, ChildIsType DEF ElementsAgree
    <2>2. elements[Child(t)] \in Element
      BY <2>1, <1>6 DEF ChainTypeOK, Added
    <2>3. elements[Child(t)].level \in Nat
      BY <2>2 DEF Element
    <2>4. elements[Child(t)].level # 0
      <3>1. CASE Child(t) \in Models
        BY <2>1, <3>1, <1>6 DEF ElementsAgree
      <3>2. CASE Child(t) \in Configured
        <4>1. LET c == Child(t) IN
              Added(c) /\ elements[c].level = elements[Child(c)].level + 1
              /\ Added(Child(c)) /\ Child(c) \in Types
          BY <2>1, <3>2, <1>6, ChildIsType DEF ElementsAgree
        <4>2. elements[Child(Child(t))] \in Element
          BY <4>1, <1>6 DEF ChainTypeOK, Added
        <4>3. elements[Child(Child(t))].level \in Nat
          BY <4>2 DEF Element
        <4> QED
          BY <4>1, <4>3
      <3> QED
        BY <2>1, <3>1, <3>2 DEF Types
    <2> QED
      BY <2>1, <2>3, <2>4
  <1>11. elements[t].level # 0
    BY <1>1, <1>9, <1>10, <1>8 DEF Types
  <1>12. ASSUME Len(p) > 1
         PROVE  LET u == TypeOf[Front(p)] IN
                /\ elements[u].level = elements[t].level + 1
                /\ elements[u].leafCellType = elements[t].leafCellType
                /\ elements[u].leafCellNumber = elements[t].leafCellNumber * CellTypes[u].childCellNumber
    <2>1. LET u == TypeOf[Front(p)] IN u \in Configured /\ t = Child(u) /\ Added(u)
      BY <1>2, <1>4, <1>12
    <2> HIDE DEF t
    <2> QED
      BY <2>1, <1>6 DEF ElementsAgree
  <1> QED
    BY <1>7, <1>8, <1>9, <1>10, <1>11, <1>12 DEF LevelOf, LeafType, Capacity

(* What a cell's path begins with are cells, all of one GPU model; levels count down. *)
LEMMA CellsAbove ==
  ASSUME ChainInv, ChainsBuilt, NEW p \in Cells, NEW k \in DOMAIN p
  PROVE  LET q == SubSeq(p, 1, k) IN
         /\ q \in Cells /\ Len(q) = k /\ LeafType(q) = LeafType(p)
         /\ LevelOf(q) = LevelOf(p) + (Len(p) - k)
         /\ k < Len(p) => TypeOf[q] \in Configured
  <1>0. p \in Path /\ Len(p) \in Nat \ {0} /\ DOMAIN p = 1..Len(p)
    BY CellInRow, PathType
  <1> DEFINE n == Len(p)
             Is(q, j) == /\ q \in Cells /\ LeafType(q) = LeafType(p) /\ LevelOf(q) = LevelOf(p) + j
                         /\ j > 0 => TypeOf[q] \in Configured
             P == {j \in Nat : j < n => Is(SubSeq(p, 1, n - j), j)}
  <1>1. 0 \in P
    <2>1. SubSeq(p, 1, n - 0) = p /\ LevelOf(p) = LevelOf(p) + 0
      <3>1. n - 0 = n /\ LevelOf(p) \in Nat
        BY <1>0, CellElements
      <3> QED
        BY <3>1, <1>0, PathType
    <2>2. Is(p, 0)
      BY <2>1
    <2>3. Is(SubSeq(p, 1, n - 0), 0)
      BY <2>1, <2>2, Zenon
    <2> HIDE DEF Is
    <2> QED
      BY <2>3
  <1>2. ASSUME NEW j \in Nat, j \in P PROVE j + 1 \in P
    <2> SUFFICES ASSUME j + 1 < n PROVE Is(SubSeq(p, 1, n - (j + 1)), j + 1)
      OBVIOUS
    <2> DEFINE q == SubSeq(p, 1, n - j)
               u == SubSeq(p, 1, n - (j + 1))
    <2>1. n - j \in DOMAIN p /\ n - j > 1 /\ (n - j) - 1 = n - (j + 1) /\ j < n
      BY <1>0
    <2>2. Len(q) = n - j /\ Front(q) = u
      BY <2>1, <1>0, PrefixFacts
    <2>3. Is(q, j)
      BY <2>1, <1>2
    <2> HIDE DEF q, u, n
    <2>4. u \in Cells /\ TypeOf[u] \in Configured
      BY <2>1, <2>2, <2>3, ParentOfCell
    <2>5. LevelOf(u) = LevelOf(q) + 1 /\ LeafType(u) = LeafType(q)
      BY <2>1, <2>2, <2>3, CellElements
    <2>6. LevelOf(p) \in Nat
      BY CellElements
    <2>7. LevelOf(u) = LevelOf(p) + (j + 1) /\ LeafType(u) = LeafType(p)
      BY <2>3, <2>5, <2>6
    <2> QED
      BY <2>4, <2>7 DEF u
  <1> HIDE DEF P
  <1>3. \A j \in Nat : j \in P
    BY <1>1, <1>2, InductionOnSets
  <1>4. n - k \in Nat /\ n - k < n /\ n - (n - k) = k /\ (k < n => n - k > 0)
    BY <1>0
  <1>5. Is(SubSeq(p, 1, k), n - k)
    BY <1>3, <1>4 DEF P
  <1>6. Len(SubSeq(p, 1, k)) = k
    BY <1>0, PrefixFacts
  <1> QED
    BY <1>4, <1>5, <1>6

(* No leaf cell is below another. *)
LEMMA LeavesApart ==
  ASSUME ChainInv, ChainsBuilt, NEW p \in Cells, NEW q \in Cells,
         LevelOf(p) = LevelOf(q), IsPrefix(p, q)
  PROVE  p = q
  <1>1. p \in Path /\ q \in Path
    BY CellInRow
  <1>2. Len(p) \in DOMAIN q /\ p = SubSeq(q, 1, Len(p)) /\ Len(q) \in Nat /\ Len(p) \in Nat
    BY <1>1, PrefixIsSubSeq, PathType
  <1>3. LevelOf(p) = LevelOf(q) + (Len(q) - Len(p)) /\ LevelOf(q) \in Nat
    BY <1>2, CellsAbove, CellElements
  <1>4. Len(p) = Len(q)
    BY <1>2, <1>3
  <1> QED
    BY <1>1, <1>2, <1>4, PathType


-----------------------------------------------------------------------------
(* The ids of the cells. *)

(* The part of its id that is a cell's own: the id it is given, or its number. *)
OwnPart(p) == IF p \in DOMAIN GivenID /\ GivenID[p] # NoID THEN GivenID[p] ELSE Position(p)

(* The recursion is well founded: an id is the own parts of the cells above,  *)
(* one after the other.                                                       *)
LEMMA CellIDIs ==
  ASSUME NEW p \in Cells
  PROVE  CellID[p] = IF Len(p) = 1 THEN <<OwnPart(p)>> ELSE Append(CellID[Front(p)], OwnPart(p))
  <1> DEFINE Step(f) == [q \in Cells |-> IF Len(q) = 1 THEN <<OwnPart(q)>>
                                         ELSE Append(f[Front(q)], OwnPart(q))]
             all == [q \in Cells |-> [k \in 1..Len(q) |-> OwnPart(SubSeq(q, 1, k))]]
  <1>1. ASSUME NEW q \in Cells
        PROVE  all[q] = IF Len(q) = 1 THEN <<OwnPart(q)>> ELSE Append(all[Front(q)], OwnPart(q))
    <2>1. q \in Path /\ Len(q) \in Nat \ {0} /\ SubSeq(q, 1, Len(q)) = q
      BY CellInRow, PathType
    <2> DEFINE s == [k \in 1..Len(q) |-> OwnPart(SubSeq(q, 1, k))]
    <2>2. all[q] = s
      OBVIOUS
    <2>3. s[Len(q)] = OwnPart(q)
      <3>1. \A n \in Nat \ {0} : n \in 1..n
        OBVIOUS
      <3>2. s[Len(q)] = OwnPart(SubSeq(q, 1, Len(q)))
        BY <2>1, <3>1, Zenon
      <3> QED
        BY <2>1, <3>2, Zenon
    <2>4. CASE Len(q) = 1
      BY <2>2, <2>3, <2>4
    <2>5. CASE Len(q) # 1
      <3> DEFINE n == Len(q) - 1
                 f == Front(q)
                 t == [k \in 1..n |-> OwnPart(SubSeq(q, 1, k))]
      <3>1. f \in Cells /\ f = SubSeq(q, 1, n) /\ n \in DOMAIN q /\ n \in Nat \ {0} /\ n + 1 = Len(q)
        BY <2>1, <2>5, ParentOfCell, PathType DEF Front
      <3>2. Len(f) = n /\ \A k \in 1..n : SubSeq(f, 1, k) = SubSeq(q, 1, k)
        BY <2>1, <3>1, PrefixFacts
      <3>3. all[f] = t
        <4>1. all[f] = [k \in 1..Len(f) |-> OwnPart(SubSeq(f, 1, k))]
          BY <3>1
        <4> HIDE DEF all, f
        <4> QED
          BY <3>2, <4>1
      <3>4. s = Append(t, OwnPart(q))
        <4> DEFINE own == [k \in 1..n + 1 |-> OwnPart(SubSeq(q, 1, k))]
        <4>1. s = own /\ own[n + 1] = OwnPart(q)
          BY <2>3, <3>1
        <4> HIDE DEF s, n
        <4>2. t = [k \in 1..n |-> own[k]]
          BY <3>1
        <4> HIDE DEF t
        <4>3. own = Append(t, own[n + 1])
          <5>1. DOMAIN own = 1..n + 1 /\ n \in Nat
            BY <3>1
          <5>2. own = [k \in 1..n + 1 |-> own[k]]
            OBVIOUS
          <5> HIDE DEF own
          <5> QED
            BY <4>2, <5>1, <5>2
        <4> QED
          BY <4>1, <4>3
      <3> HIDE DEF all, s, t, f
      <3> QED
        BY <2>2, <2>5, <3>3, <3>4 DEF f
    <2> QED
      BY <2>4, <2>5
  <1>2. all = Step(all)
    BY <1>1, Zenon
  <1> HIDE DEF all
  <1>3. CellID = CHOOSE f : f = Step(f)
    BY Zenon DEF CellID, OwnPart
  <1> DEFINE ids == CellID
  <1>4. ids = Step(ids)
    <2>1. \E f : f = Step(f)
      BY <1>2
    <2> HIDE DEF Step
    <2> QED
      BY <2>1, <1>3, Zenon
  <1> HIDE DEF ids
  <1>5. ids[p] = IF Len(p) = 1 THEN <<OwnPart(p)>> ELSE Append(ids[Front(p)], OwnPart(p))
    BY <1>4, Zenon
  <1> QED
    BY <1>5 DEF ids

Parts == {OwnPart(p) : p \in Cells}

(* An id has a part for each level, and a cell's own part is the last. *)
LEMMA IdParts ==
  ASSUME NEW p \in Cells
  PROVE  CellID[p] \in Seq(Parts) /\ Len(CellID[p]) = Len(p) /\ CellID[p][Len(p)] = OwnPart(p)
  <1> DEFINE Has(q) == /\ CellID[q] \in Seq(Parts) /\ Len(CellID[q]) = Len(q)
                       /\ CellID[q][Len(q)] = OwnPart(q)
             P == {n \in Nat : \A q \in Cells : Len(q) <= n => Has(q)}
  <1>1. \A q \in Cells : Len(q) \in Nat \ {0} /\ OwnPart(q) \in Parts
    BY CellInRow, PathType DEF Parts
  <1>2. 0 \in P
    BY <1>1
  <1>3. ASSUME NEW n \in Nat, n \in P PROVE n + 1 \in P
    <2>1. ASSUME NEW q \in Cells, Len(q) <= n + 1 PROVE Has(q)
      <3>1. CASE Len(q) = 1
        <4>1. CellID[q] = <<OwnPart(q)>>
          BY <3>1, CellIDIs
        <4> QED
          BY <1>1, <3>1, <4>1
      <3>2. CASE Len(q) # 1
        <4>1. CellID[q] = Append(CellID[Front(q)], OwnPart(q))
          BY <3>2, CellIDIs
        <4>2. q \in Seq(Nat) /\ Len(q) > 1 /\ Len(q) \in Nat
          <5>1. \A k \in Nat \ {0} : k # 1 => k > 1
            OBVIOUS
          <5>2. q \in Seq(Nat)
            BY CellInRow DEF Path
          <5>3. Len(q) \in Nat \ {0}
            BY <1>1
          <5> QED
            BY <3>2, <5>1, <5>2, <5>3
        <4>3. Front(q) \in Cells /\ Len(Front(q)) = Len(q) - 1
          BY <4>2, ParentOfCell, FrontFacts
        <4>4. Has(Front(q))
          BY <1>3, <2>1, <4>2, <4>3
        <4> DEFINE a == CellID[Front(q)]
                   x == OwnPart(q)
        <4>5. a \in Seq(Parts) /\ x \in Parts /\ Len(a) + 1 = Len(q)
          BY <1>1, <4>2, <4>3, <4>4
        <4> HIDE DEF a, x
        <4>6. /\ Append(a, x) \in Seq(Parts) /\ Len(Append(a, x)) = Len(a) + 1
              /\ Append(a, x)[Len(a) + 1] = x
          BY <4>5, AppendProperties
        <4> QED
          BY <4>1, <4>5, <4>6 DEF a, x
      <3> QED
        BY <3>1, <3>2
    <2> HIDE DEF Has
    <2> QED
      BY <2>1
  <1> HIDE DEF P
  <1>4. Len(p) \in P
    BY <1>1, <1>2, <1>3, InductionOnSets
  <1> QED
    BY <1>1, <1>4 DEF P

(* The number of a cell is its place in its row. *)
LEMMA PlaceInRow ==
  ASSUME NEW p \in Cells, Len(p) # 1
  PROVE  Position(p) \in Nat /\ Row[Len(p)][p[1]][Position(p)] = p
  <1> DEFINE row == Row[Len(p)][p[1]]
  <1>1. /\ Len(p) \in Nat \ {0} /\ p \in ToSet(row) /\ p[1] \in DOMAIN RootTypes
    BY CellInRow, PathType
  <1>2. row \in Seq(Path)
    BY <1>1, RowType
  <1>3. Position(p) = CHOOSE i \in DOMAIN row : row[i] = p
    BY Zenon DEF Position
  <1> HIDE DEF row
  <1>4. \E i \in DOMAIN row : row[i] = p
    BY <1>1 DEF ToSet
  <1>5. Position(p) \in DOMAIN row /\ row[Position(p)] = p
    BY <1>3, <1>4
  <1> QED
    BY <1>2, <1>5 DEF row

(* Cells of one level of a root that are numbered have different ids. *)
LEMMA IdsOfRow ==
  ASSUME NEW p \in Cells, NEW q \in Cells, p # q, p[1] = q[1], Len(p) = Len(q),
         OwnPart(p) = OwnPart(q) => OwnPart(p) = Position(p) /\ OwnPart(q) = Position(q)
  PROVE  CellID[p] # CellID[q]
  <1>1. p \in Path /\ q \in Path
    BY CellInRow
  <1>2. Len(p) # 1
    <2> SUFFICES ASSUME Len(p) = 1 PROVE p = q
      OBVIOUS
    <2>1. SubSeq(p, 1, 1) = p /\ SubSeq(q, 1, 1) = q
      BY <1>1, PathType
    <2> QED
      BY <1>1, <2>1, PathType
  <1> SUFFICES ASSUME CellID[p] = CellID[q] PROVE FALSE
    OBVIOUS
  <1>3. OwnPart(p) = OwnPart(q)
    BY IdParts
  <1>4. Position(p) = Position(q)
    BY <1>3
  <1> DEFINE row == Row[Len(p)][p[1]]
  <1>5. row[Position(p)] = p /\ row[Position(q)] = q
    BY <1>2, PlaceInRow
  <1> HIDE DEF row
  <1> QED
    BY <1>4, <1>5


-----------------------------------------------------------------------------
(* The leaf cells below a cell, counted. *)

(* Where the configuration lists the children of a cell, it lists as many as  *)
(* the cell's type has.                                                       *)
ListedInFull ==
  \A p \in Cells : TypeOf[p] \in Configured => ChildNumber(p) = CellTypes[TypeOf[p]].childCellNumber

LeafCells(p) == {q \in Cells : LevelOf(q) = 1 /\ IsPrefix(p, q)}

(* What begins with a child of p begins with p and goes on with the child.    *)
LEMMA PrefixOfChild ==
  ASSUME NEW p \in Path, NEW q \in Path, NEW k \in Nat
  PROVE  IsPrefix(Append(p, k), q) <=> IsPrefix(p, q) /\ Len(p) < Len(q) /\ q[Len(p) + 1] = k
  <1> DEFINE m == Len(p)
             a == Append(p, k)
             s == SubSeq(q, 1, m + 1)
  <1>1. /\ m \in Nat \ {0} /\ Len(q) \in Nat \ {0} /\ DOMAIN q = 1..Len(q)
        /\ m + 1 \in Nat \ {0} /\ (m + 1) - 1 = m /\ m + 1 > 1
    BY PathType
  <1>2. /\ a \in Path /\ Len(a) = m + 1 /\ Front(a) = p /\ Last(a) = k
    BY FrontOfAppend
  <1>3. a[m + 1] = k
    BY <1>2 DEF Last
  <1>4. ASSUME m + 1 \in DOMAIN q
        PROVE  /\ s \in Path /\ Len(s) = m + 1 /\ Front(s) = SubSeq(q, 1, m) /\ s[m + 1] = q[m + 1]
               /\ s = Append(Front(s), Last(s)) /\ Last(s) = q[m + 1]
    <2> DEFINE n == m + 1
    <2>1. n \in DOMAIN q /\ n > 1 /\ n - 1 = m /\ n \in 1..n
      BY <1>1, <1>4
    <2> HIDE DEF n
    <2>2. LET t == SubSeq(q, 1, n) IN
          t \in Path /\ Len(t) = n /\ Front(t) = SubSeq(q, 1, n - 1) /\ t[n] = q[n]
      BY <2>1, PrefixFacts
    <2>3. s \in Path /\ Len(s) = n /\ Front(s) = SubSeq(q, 1, m) /\ s[n] = q[n]
      BY <2>1, <2>2 DEF n
    <2> HIDE DEF s
    <2>4. s \in Seq(Nat) /\ Len(s) > 1
      BY <2>1, <2>3 DEF Path
    <2>5. s = Append(Front(s), Last(s)) /\ Last(s) = s[Len(s)]
      BY <2>4, FrontFacts
    <2> QED
      BY <2>3, <2>5 DEF n
  <1>5. m < Len(q) <=> m + 1 \in DOMAIN q
    BY <1>1
  <1>6. IsPrefix(a, q) <=> m + 1 \in DOMAIN q /\ a = s
    BY <1>2, PrefixIsSubSeq
  <1>7. IsPrefix(p, q) <=> m \in DOMAIN q /\ p = SubSeq(q, 1, m)
    BY PrefixIsSubSeq
  <1>8. m + 1 \in DOMAIN q => m \in DOMAIN q
    BY <1>1
  <1> HIDE DEF m, a, s
  <1>9. ASSUME IsPrefix(a, q) PROVE IsPrefix(p, q) /\ m < Len(q) /\ q[m + 1] = k
    BY <1>2, <1>3, <1>4, <1>5, <1>6, <1>7, <1>8, <1>9
  <1>10. ASSUME IsPrefix(p, q), m < Len(q), q[m + 1] = k PROVE IsPrefix(a, q)
    BY <1>4, <1>5, <1>6, <1>7, <1>10 DEF a
  <1> QED
    BY <1>9, <1>10 DEF m, a

(* There are as many types as there are levels. *)
LEMMA LevelsAreTypes ==
  ASSUME ChainInv, NEW t \in Types, Added(t)
  PROVE  elements[t].level \in Nat /\ elements[t].level <= Depth
  <1> DEFINE LevelIs(u, n) == Added(u) /\ elements[u].level = n
             Below1(S, n) == /\ IsFiniteSet(S) /\ Cardinality(S) = n
                             /\ \A s \in S : elements[s].level \in Nat /\ elements[s].level <= n
             P == {n \in Nat : \A u \in Types : LevelIs(u, n) =>
                                 \E S \in SUBSET Types : Below1(S, n)}
  <1>1. \A u \in Types : Added(u) => elements[u].level \in Nat
    BY DEF ChainInv, ChainTypeOK, Added, Element
  <1>2. 0 \in P
    <2>1. Below1({}, 0)
      BY FS_EmptySet
    <2> HIDE DEF Below1
    <2> QED
      BY <2>1
  <1>3. ASSUME NEW n \in Nat, n \in P PROVE n + 1 \in P
    <2>1. ASSUME NEW u \in Types, LevelIs(u, n + 1) PROVE \E S \in SUBSET Types : Below1(S, n + 1)
      <3>1. \E S \in SUBSET Types : Below1(S, n)
        <4>1. CASE u \in Configured
          <5>1. /\ Child(u) \in Types /\ Added(Child(u)) /\ elements[Child(u)].level \in Nat
                /\ elements[u].level = elements[Child(u)].level + 1
            BY <1>1, <2>1, <4>1, ChildIsType DEF ChainInv, ElementsAgree
          <5>2. LevelIs(Child(u), n)
            BY <2>1, <5>1
          <5> HIDE DEF LevelIs, Below1
          <5> QED
            BY <1>3, <5>1, <5>2
        <4>2. CASE u \in Models
          <5>1. n = 0
            BY <2>1, <4>2 DEF ChainInv, ElementsAgree
          <5>2. Below1({}, 0)
            BY FS_EmptySet
          <5> HIDE DEF Below1
          <5> QED
            BY <5>1, <5>2
        <4> QED
          BY <4>1, <4>2 DEF Types
      <3>2. PICK S \in SUBSET Types : Below1(S, n)
        BY <3>1
      <3>3. u \notin S
        BY <2>1, <3>2
      <3>4. Below1(S \cup {u}, n + 1)
        <4>1. IsFiniteSet(S \cup {u}) /\ Cardinality(S \cup {u}) = n + 1
          BY <3>2, <3>3, FS_AddElement
        <4>2. ASSUME NEW s \in S \cup {u}
              PROVE  elements[s].level \in Nat /\ elements[s].level <= n + 1
          BY <2>1, <3>2
        <4> QED
          BY <4>1, <4>2
      <3>5. S \cup {u} \in SUBSET Types
        OBVIOUS
      <3> HIDE DEF Below1
      <3> QED
        BY <3>4, <3>5
    <2> QED
      BY <2>1
  <1> DEFINE l == elements[t].level
  <1>4. l \in Nat
    BY <1>1
  <1>5. l \in P
    <2> HIDE DEF P, l
    <2> QED
      BY <1>2, <1>3, <1>4, InductionOnSets
  <1>6. PICK S \in SUBSET Types : Below1(S, l)
    BY <1>5
  <1>7. Cardinality(S) <= Depth /\ Cardinality(S) = l
    BY <1>6, RootsAssumption, FS_Subset DEF Depth
  <1> QED
    BY <1>4, <1>7

(* Every child of a cell is a cell: the rows go on until there are none.      *)
LEMMA ChildrenAreCells ==
  ASSUME ChainInv, ChainsBuilt, NEW p \in Cells, TypeOf[p] \in Configured,
         NEW k \in 1..ChildNumber(p)
  PROVE  /\ Append(p, k) \in Cells /\ k \in Nat
         /\ TypeOf[Append(p, k)] = Child(TypeOf[p])
         /\ LevelOf(p) = LevelOf(Append(p, k)) + 1
  <1> DEFINE a == Append(p, k)
             r == p[1]
  <1>1. /\ p \in Path /\ Len(p) \in Nat \ {0} /\ r \in DOMAIN RootTypes
        /\ p \in ToSet(Row[Len(p)][r]) /\ 1 \in DOMAIN p /\ SubSeq(p, 1, 1) = <<r>>
    BY CellInRow, PathType
  <1>2. k \in Nat
    BY ChildNumberType
  <1>3. /\ a \in Path /\ Len(a) = Len(p) + 1 /\ Front(a) = p /\ Last(a) = k
        /\ \A i \in 1..Len(p) : a[i] = p[i]
    BY <1>1, <1>2, FrontOfAppend
  <1>4. Len(p) + 1 <= Depth
    <2>1. /\ <<r>> \in Cells
          /\ LevelOf(<<r>>) = LevelOf(p) + (Len(p) - 1)
      <3>1. LET q == SubSeq(p, 1, 1) IN q \in Cells /\ LevelOf(q) = LevelOf(p) + (Len(p) - 1)
        BY <1>1, CellsAbove
      <3> QED
        BY <1>1, <3>1, Zenon
    <2>2. LevelOf(p) > 1 /\ LevelOf(p) \in Nat
      BY CellElements
    <2>3. TypeOf[<<r>>] \in Types /\ elements[TypeOf[<<r>>]] \in Element
      BY <2>1, TypeOfCell, CellElements
    <2>4. Added(TypeOf[<<r>>])
      BY <2>3, TypesAssumption DEF Added
    <2>5. LevelOf(<<r>>) \in Nat /\ LevelOf(<<r>>) <= Depth
      BY <2>3, <2>4, LevelsAreTypes DEF LevelOf
    <2> DEFINE l == LevelOf(<<r>>)
    <2>6. l = LevelOf(p) + (Len(p) - 1) /\ l \in Nat /\ l <= Depth
      BY <2>1, <2>5
    <2> DEFINE n == Len(p)
               m == LevelOf(p)
    <2>7. l = m + (n - 1) /\ l <= Depth /\ m > 1 /\ m \in Nat /\ n \in Nat /\ Depth \in Nat
      BY <1>1, <2>2, <2>6, DepthType
    <2> HIDE DEF l, r, m, n
    <2>8. n + 1 <= Depth
      BY <2>7
    <2> QED
      BY <2>8 DEF n
  <1>5. a[1] = r
    BY <1>1, <1>3
  <1>6. a \in ToSet(Row[Len(p) + 1][r])
    <2> DEFINE d == Len(p) + 1
    <2>1. d \in Nat \ {0} /\ d > 1 /\ d - 1 = Len(p)
      BY <1>1
    <2> HIDE DEF d, r
    <2>2. \A x : x \in ToSet(Row[d][r]) <=>
            \E q \in ToSet(Row[d - 1][r]) : \E j \in 1..ChildNumber(q) : x = Append(q, j)
      BY <1>1, <2>1, RowMembers
    <2> QED
      BY <1>1, <2>1, <2>2 DEF d
  <1>7. a \in Cells
    <2>1. Len(p) + 1 \in 1..Depth
      BY <1>1, <1>4, DepthType
    <2> HIDE DEF a, r
    <2> QED
      BY <1>1, <1>3, <1>5, <1>6, <2>1, CellInRow
  <1>8. Len(a) > 1
    BY <1>1, <1>3
  <1> HIDE DEF a
  <1>9. TypeOf[a] = Child(TypeOf[p]) /\ LevelOf(p) = LevelOf(a) + 1
    BY <1>3, <1>7, <1>8, ParentOfCell, CellElements
  <1> QED
    BY <1>2, <1>7, <1>9 DEF a

(* The leaf cells below a cell are those below its children. *)
LEMMA LeavesOfChildren ==
  ASSUME ChainInv, ChainsBuilt, NEW p \in Cells, TypeOf[p] \in Configured
  PROVE  /\ \A q : q \in LeafCells(p) <=> \E k \in 1..ChildNumber(p) : q \in LeafCells(Append(p, k))
         /\ \A i, j \in 1..ChildNumber(p) : i # j =>
              LeafCells(Append(p, i)) \cap LeafCells(Append(p, j)) = {}
  <1> DEFINE n == ChildNumber(p)
             m == Len(p)
  <1>1. p \in Path /\ m \in Nat \ {0}
    BY CellInRow, PathType
  <1>2. n \in Nat /\ \A k \in 1..n : k \in Nat
    BY ChildNumberType
  <1>3. \A q \in Cells : q \in Path
    BY CellInRow
  <1>4. \A q \in Cells : \A k \in 1..n :
          IsPrefix(Append(p, k), q) <=> IsPrefix(p, q) /\ m < Len(q) /\ q[m + 1] = k
    BY <1>1, <1>2, <1>3, PrefixOfChild
  <1>5. ASSUME NEW q \in Cells, LevelOf(q) = 1, IsPrefix(p, q)
        PROVE  m < Len(q) /\ q[m + 1] \in 1..n
    <2>1. q \in Path /\ Len(q) \in Nat \ {0} /\ DOMAIN q = 1..Len(q)
      BY <1>3, PathType
    <2>2. m \in DOMAIN q /\ p = SubSeq(q, 1, m)
      BY <1>1, <1>5, <2>1, PrefixIsSubSeq
    <2>3. m # Len(q)
      <3> SUFFICES ASSUME m = Len(q) PROVE LevelOf(p) = 1
        BY CellElements
      <3>1. SubSeq(q, 1, Len(q)) = q
        BY <2>1, PathType
      <3>2. p = q
        BY <2>2, <3>1
      <3> QED
        BY <1>5, <3>2
    <2>4. m + 1 \in DOMAIN q /\ m < Len(q) /\ m + 1 > 1 /\ (m + 1) - 1 = m
      <3>1. \A i, l \in Nat \ {0} : i \in 1..l /\ i # l =>
              i + 1 \in 1..l /\ i < l /\ i + 1 > 1 /\ (i + 1) - 1 = i
        OBVIOUS
      <3> QED
        BY <1>1, <2>1, <2>2, <2>3, <3>1, Zenon
    <2> DEFINE e == m + 1
               s == SubSeq(q, 1, e)
    <2>5. e \in DOMAIN q /\ e > 1 /\ e - 1 = m /\ e \in Nat \ {0}
      BY <1>1, <2>4
    <2> HIDE DEF e, m
    <2>6. /\ s \in Path /\ Len(s) = e /\ Front(s) = SubSeq(q, 1, e - 1)
          /\ \A i \in 1..e : s[i] = q[i]
      BY <2>1, <2>5, PrefixFacts
    <2>7. s \in Cells
      BY <2>5, CellsAbove
    <2> HIDE DEF s
    <2>8. Front(s) = p /\ Len(s) > 1 /\ e \in 1..e
      BY <2>2, <2>5, <2>6
    <2>9. Last(s) \in 1..ChildNumber(p)
      BY <2>7, <2>8, ParentOfCell
    <2>10. Last(s) = q[e]
      BY <2>6, <2>8 DEF Last
    <2> QED
      BY <2>4, <2>9, <2>10 DEF e
  <1> HIDE DEF m, n
  <1>6. ASSUME NEW q
        PROVE  q \in LeafCells(p) <=> \E k \in 1..n : q \in LeafCells(Append(p, k))
    <2>1. ASSUME q \in LeafCells(p) PROVE \E k \in 1..n : q \in LeafCells(Append(p, k))
      <3>1. q \in Cells /\ LevelOf(q) = 1 /\ IsPrefix(p, q)
        BY <2>1 DEF LeafCells
      <3> DEFINE k == q[m + 1]
      <3>2. m < Len(q) /\ k \in 1..n
        BY <1>5, <3>1
      <3>3. IsPrefix(Append(p, k), q)
        BY <1>4, <3>1, <3>2
      <3> HIDE DEF k
      <3>4. q \in LeafCells(Append(p, k))
        BY <3>1, <3>3 DEF LeafCells
      <3> QED
        BY <3>2, <3>4
    <2>2. ASSUME NEW k \in 1..n, q \in LeafCells(Append(p, k)) PROVE q \in LeafCells(p)
      BY <1>4, <2>2 DEF LeafCells
    <2> QED
      BY <2>1, <2>2
  <1>7. ASSUME NEW i \in 1..n, NEW j \in 1..n, i # j,
               NEW q \in LeafCells(Append(p, i)) \cap LeafCells(Append(p, j))
        PROVE  FALSE
    BY <1>4, <1>7 DEF LeafCells
  <1> QED
    BY <1>6, <1>7 DEF n

(* As many disjoint sets of one size. *)
LEMMA EqualParts ==
  ASSUME NEW n \in Nat, NEW c \in Nat, NEW part,
         \A k \in 1..n : IsFiniteSet(part[k]) /\ Cardinality(part[k]) = c,
         \A i, j \in 1..n : i # j => part[i] \cap part[j] = {}
  PROVE  /\ IsFiniteSet(UNION {part[k] : k \in 1..n})
         /\ Cardinality(UNION {part[k] : k \in 1..n}) = c * n
  <1> DEFINE all(m) == UNION {part[k] : k \in 1..m}
             P == {m \in Nat : m <= n => IsFiniteSet(all(m)) /\ Cardinality(all(m)) = c * m}
  <1>1. 0 \in P
    <2>1. 1..0 = {}
      OBVIOUS
    <2>2. all(0) = {}
      BY <2>1, Zenon
    <2>3. IsFiniteSet(all(0)) /\ Cardinality(all(0)) = 0
      BY <2>2, FS_EmptySet
    <2>4. c * 0 = 0
      OBVIOUS
    <2> QED
      BY <2>3, <2>4
  <1>2. ASSUME NEW m \in Nat, m \in P PROVE m + 1 \in P
    <2> SUFFICES ASSUME m + 1 <= n
                 PROVE  IsFiniteSet(all(m + 1)) /\ Cardinality(all(m + 1)) = c * (m + 1)
      OBVIOUS
    <2>1. IsFiniteSet(all(m)) /\ Cardinality(all(m)) = c * m
      BY <1>2
    <2>2. m + 1 \in 1..n /\ 1..m + 1 = (1..m) \cup {m + 1} /\ \A k \in 1..m : k \in 1..n /\ k # m + 1
      OBVIOUS
    <2>3. IsFiniteSet(part[m + 1]) /\ Cardinality(part[m + 1]) = c
      BY <2>2
    <2>4. all(m + 1) = all(m) \cup part[m + 1]
      BY <2>2, Zenon
    <2>5. all(m) \cap part[m + 1] = {}
      <3> SUFFICES ASSUME NEW x \in all(m), x \in part[m + 1] PROVE FALSE
        BY Zenon
      <3>1. \E k \in 1..m : x \in part[k]
        BY Zenon
      <3> HIDE DEF all
      <3> QED
        BY <2>2, <3>1
    <2> HIDE DEF all
    <2>6. IsFiniteSet(all(m + 1))
          /\ Cardinality(all(m + 1)) = Cardinality(all(m)) + c - Cardinality({})
      BY <2>1, <2>3, <2>4, <2>5, FS_Union
    <2>7. c * m + c - 0 = c * (m + 1)
      OBVIOUS
    <2> QED
      BY <2>1, <2>6, <2>7, FS_EmptySet
  <1> HIDE DEF P
  <1>3. n \in P
    BY <1>1, <1>2, InductionOnSets
  <1> QED
    BY <1>3 DEF P

(* What the elements multiply out is what there is below a cell. *)
LEMMA LeavesCounted ==
  ASSUME ChainInv, ChainsBuilt, ListedInFull
  PROVE  \A p \in Cells : IsFiniteSet(LeafCells(p)) /\ Capacity(p) = Cardinality(LeafCells(p))
  <1> DEFINE Counted(p) == IsFiniteSet(LeafCells(p)) /\ Capacity(p) = Cardinality(LeafCells(p))
             P == {n \in Nat : \A p \in Cells : LevelOf(p) <= n => Counted(p)}
  <1>0. \A p \in Cells : /\ LevelOf(p) \in Nat \ {0} /\ Capacity(p) \in Nat
                         /\ TypeOf[p] \in Configured \cup Models
    BY CellElements, TypeOfCell DEF Types
  <1>1. 0 \in P
    BY <1>0
  <1>2. ASSUME NEW n \in Nat, n \in P PROVE n + 1 \in P
    <2>1. ASSUME NEW p \in Cells, LevelOf(p) <= n + 1, TypeOf[p] \in Models PROVE Counted(p)
      <3>1. LevelOf(p) = 1 /\ Capacity(p) = 1
        BY <2>1, CellElements
      <3>2. p \in LeafCells(p)
        BY <3>1, CellInRow, PrefixIsSubSeq DEF LeafCells
      <3>3. \A q \in LeafCells(p) : q = p
        BY <3>1, LeavesApart DEF LeafCells
      <3>4. LeafCells(p) = {p}
        BY <3>2, <3>3
      <3> QED
        BY <3>1, <3>4, FS_Singleton
    <2>2. ASSUME NEW p \in Cells, LevelOf(p) <= n + 1, TypeOf[p] \in Configured PROVE Counted(p)
      <3> DEFINE t == TypeOf[p]
                 m == ChildNumber(p)
                 c == elements[Child(t)].leafCellNumber
                 part == [k \in 1..m |-> LeafCells(Append(p, k))]
      <3>1. m \in Nat /\ m = CellTypes[t].childCellNumber
        BY <2>2, ChildNumberType DEF ListedInFull
      <3>2. Added(t) /\ Added(Child(t)) /\ Child(t) \in Types
        BY <2>2, ChildIsType, ChainInvAdds DEF EveryTypeAdded
      <3>3. /\ elements[t].leafCellNumber = c * elements[t].childCellNumber
            /\ elements[t].childCellNumber = CellTypes[t].childCellNumber
        BY <2>2, <3>2 DEF ChainInv, ElementsAgree
      <3>4. c \in Nat
        BY <3>2 DEF ChainInv, ChainTypeOK, Added, Element
      <3>5. Capacity(p) = c * m
        BY <3>1, <3>3 DEF Capacity
      <3>6. ASSUME NEW k \in 1..m PROVE IsFiniteSet(part[k]) /\ Cardinality(part[k]) = c
        <4>1. /\ Append(p, k) \in Cells /\ TypeOf[Append(p, k)] = Child(t)
              /\ LevelOf(p) = LevelOf(Append(p, k)) + 1
          BY <2>2, ChildrenAreCells
        <4>2. LevelOf(Append(p, k)) <= n
          BY <1>0, <2>2, <4>1
        <4>3. Counted(Append(p, k))
          BY <1>2, <4>1, <4>2
        <4>4. Capacity(Append(p, k)) = c
          BY <4>1 DEF Capacity
        <4> HIDE DEF c
        <4> QED
          BY <4>3, <4>4
      <3>7. \A i, j \in 1..m : i # j => part[i] \cap part[j] = {}
        BY <2>2, LeavesOfChildren
      <3>8. LeafCells(p) = UNION {part[k] : k \in 1..m}
        <4>1. \A q : q \in LeafCells(p) <=> \E k \in 1..m : q \in part[k]
          BY <2>2, LeavesOfChildren
        <4> HIDE DEF part, m
        <4> QED
          BY <4>1
      <3> HIDE DEF part, m, c
      <3>9. IsFiniteSet(UNION {part[k] : k \in 1..m}) /\ Cardinality(UNION {part[k] : k \in 1..m}) = c * m
        <4>1. \A k \in 1..m : IsFiniteSet(part[k]) /\ Cardinality(part[k]) = c
          BY <3>6
        <4>2. m \in Nat
          BY <3>1
        <4> QED
          BY <3>4, <3>7, <4>1, <4>2, EqualParts, Zenon
      <3> QED
        BY <3>5, <3>8, <3>9, Zenon
    <2> HIDE DEF Counted
    <2>3. \A p \in Cells : LevelOf(p) <= n + 1 => Counted(p)
      BY <1>0, <2>1, <2>2
    <2> QED
      BY <2>3
  <1> HIDE DEF P
  <1>3. \A n \in Nat : n \in P
    BY <1>1, <1>2, InductionOnSets
  <1>4. ASSUME NEW p \in Cells PROVE Counted(p)
    <2>1. LevelOf(p) \in P /\ LevelOf(p) <= LevelOf(p)
      BY <1>0, <1>3
    <2> QED
      BY <2>1 DEF P
  <1> QED
    BY <1>4


=============================================================================
