--------------------------- MODULE NodeHealth_proofs ---------------------------
(***************************************************************************)
(* What setNodeStatus makes of the cells, for every configuration, every   *)
(* number of nodes and GPUs, and whatever comes when: memory adds up, and  *)
(* what is healthy has a GPU and is offered.                               *)
(***************************************************************************)
EXTENDS NodeScores, CellTree_proofs

-----------------------------------------------------------------------------
(* The GPUs and the answers of Prometheus. *)

LEMMA SumIsTotal == \A f, S : SumFunctionOnSet(f, S) = Total(f, S)
  BY Zenon DEF SumFunctionOnSet, FoldFunctionOnSet, Total, MapThenSumSet

(* A finite set as a sequence has each of its members once. *)
LEMMA SetToSeqFacts ==
  ASSUME NEW S, IsFiniteSet(S)
  PROVE  /\ Cardinality(S) \in Nat
         /\ SetToSeq(S) \in Seq(S) /\ Len(SetToSeq(S)) = Cardinality(S)
         /\ \A i, j \in 1..Cardinality(S) : SetToSeq(S)[i] = SetToSeq(S)[j] => i = j
         /\ S = {} => SetToSeq(S) = <<>>
  <1> DEFINE n == Cardinality(S)
             s == SetToSeq(S)
  <1>1. n \in Nat /\ ExistsBijection(1..n, S)
    BY FS_CardinalityType
  <1>2. \E f \in [1..n -> S] : IsInjective(f)
    <2>1. PICK f \in Bijection(1..n, S) : TRUE
      BY <1>1 DEF ExistsBijection
    <2>2. f \in [1..n -> S] /\ IsInjective(f)
      BY <2>1 DEF Bijection, Injection, IsInjective
    <2> QED
      BY <2>2
  <1>3. s \in [1..n -> S] /\ IsInjective(s)
    BY <1>2 DEF SetToSeq
  <1> HIDE DEF s
  <1>4. s \in Seq(S) /\ Len(s) = n
    BY <1>1, <1>3
  <1>5. \A i, j \in 1..n : s[i] = s[j] => i = j
    BY <1>3 DEF IsInjective
  <1>6. S = {} => s = <<>>
    <2>1. S = {} => n = 0
      BY FS_EmptySet
    <2> QED
      BY <2>1, <1>4, EmptySeq
  <1> QED
    BY <1>1, <1>4, <1>5, <1>6 DEF s

LEMMA DevicesFacts ==
  ASSUME NEW n \in Nodes
  PROVE  /\ IsFiniteSet(ToSet(getDevices(n))) /\ ToSet(getDevices(n)) \subseteq GPU
         /\ \A g \in ToSet(getDevices(n)) :
              g.uuid \in UUIDs /\ g.model \in Models /\ g.memory \in Nat
  <1> DEFINE R == [uuid : UUIDs, model : Models, memory : Nat]
             T == Seq(R) \ {<<>>}
             h == Hardware[n]
             d == getDevices(n)
  <1>a. h \in Seq(T)
    <2> HIDE DEF h
    <2>1. Hardware[n] \in Seq(T)
      BY HealthAssumption, Zenon
    <2> QED
      BY <2>1 DEF h
  <1>b. \A e \in T : e \in Seq(R) /\ e # <<>>
    OBVIOUS
  <1> HIDE DEF T, R
  <1>1. DOMAIN h = 1..Len(h) /\ Len(h) \in Nat /\ \A i \in 1..Len(h) : h[i] \in T
    <2> HIDE DEF h
    <2> QED
      BY <1>a, LenProperties, ElementOfSeq
  <1>2. DOMAIN d = 1..Len(h) /\ \A i \in 1..Len(h) : d[i] = Last(h[i])
    BY <1>1 DEF getDevices
  <1>3. \A i \in 1..Len(h) : h[i] \in Seq(R) /\ h[i] # <<>>
    <2> HIDE DEF h
    <2> QED
      BY <1>1, <1>b
  <1>4. ASSUME NEW i \in 1..Len(h) PROVE d[i] \in R /\ d[i] \in GPU
    <2>1. Len(h[i]) \in Nat \ {0} /\ DOMAIN h[i] = 1..Len(h[i])
      BY <1>3, EmptySeq
    <2>2. d[i] = h[i][Len(h[i])]
      BY <1>2 DEF Last
    <2>3. d[i] \in R
      <3> HIDE DEF h, d
      <3>1. h[i] \in Seq(R) /\ Len(h[i]) \in 1..Len(h[i])
        BY <1>3, <2>1
      <3> QED
        BY <2>2, <3>1, ElementOfSeq
    <2>4. d[i] \in ToSet(h[i])
      BY <2>1, <2>2 DEF ToSet
    <2>5. h[i] \in ToSet(h)
      BY <1>1 DEF ToSet
    <2>6. d[i] \in UNION {ToSet(e) : e \in ToSet(h)}
      BY <2>4, <2>5
    <2> QED
      BY <2>3, <2>6 DEF GPU
  <1> HIDE DEF d, h
  <1>5. ToSet(d) = {d[i] : i \in 1..Len(h)}
    BY <1>2 DEF ToSet
  <1>6. IsFiniteSet(ToSet(d))
    <2>1. IsFiniteSet(1..Len(h))
      BY <1>1, FS_Interval
    <2>2. IsFiniteSet({d[i] : i \in 1..Len(h)})
      BY <2>1, FiniteImage
    <2> QED
      BY <2>2, <1>5
  <1>7. \A g \in ToSet(d) : g \in R /\ g \in GPU
    BY <1>4, <1>5
  <1> QED
    BY <1>6, <1>7 DEF d, R

(* What Prometheus may tell of a node's GPUs of a model: nothing, or all of them. *)
Answer(n, m) == SetToSeq(DevicesOf(n, m))

LEMMA AnswerFacts ==
  ASSUME NEW n \in Nodes, NEW m \in Models
  PROVE  /\ IsFiniteSet(DevicesOf(n, m)) /\ Cardinality(DevicesOf(n, m)) \in Nat
         /\ Answer(n, m) \in Seq(GPU) /\ Len(Answer(n, m)) = Cardinality(DevicesOf(n, m))
         /\ \A i \in 1..Len(Answer(n, m)) : Answer(n, m)[i] \in DevicesOf(n, m)
         /\ \A i, j \in 1..Len(Answer(n, m)) : Answer(n, m)[i] = Answer(n, m)[j] => i = j
         /\ queryGPUCapacity(n)[m] \in {<<>>, Answer(n, m)}
         /\ DevicesOf(n, m) = {} => Answer(n, m) = <<>>
         /\ \A g \in DevicesOf(n, m) : /\ g.uuid \in UUIDs /\ g.model = m /\ g.memory \in Nat
                                       /\ g \in ToSet(getDevices(n)) /\ g \in GPU
  <1> DEFINE D == DevicesOf(n, m)
  <1>1. D \subseteq ToSet(getDevices(n)) /\ IsFiniteSet(D) /\ D \subseteq GPU
    <2>1. D \in SUBSET ToSet(getDevices(n))
      BY DEF DevicesOf
    <2> QED
      BY <2>1, DevicesFacts, FS_Subset
  <1>2. \A g \in D : g.uuid \in UUIDs /\ g.model = m /\ g.memory \in Nat
    BY <1>1, DevicesFacts DEF DevicesOf
  <1>3. queryGPUCapacity(n)[m] \in {<<>>, Answer(n, m)}
    <2>1. queryGPUCapacity(n)[m] = SetToSeq({g \in ToSet(getDevices(n)) : answers /\ g.model = m})
      BY DEF queryGPUCapacity
    <2>2. CASE answers = TRUE
      BY <2>1, <2>2 DEF Answer, DevicesOf
    <2>3. CASE answers # TRUE
      <3>1. CASE answers
        BY <2>1, <3>1 DEF Answer, DevicesOf
      <3>2. CASE ~ answers
        <4>1. {g \in ToSet(getDevices(n)) : answers /\ g.model = m} = {}
          BY <3>2
        <4>2. SetToSeq({}) = <<>>
          BY FS_EmptySet, SetToSeqFacts
        <4> QED
          BY <2>1, <4>1, <4>2
      <3> QED
        BY <3>1, <3>2
    <2> QED
      BY <2>2, <2>3
  <1> HIDE DEF D
  <1>4. /\ Cardinality(D) \in Nat /\ SetToSeq(D) \in Seq(D) /\ Len(SetToSeq(D)) = Cardinality(D)
        /\ \A i, j \in 1..Cardinality(D) : SetToSeq(D)[i] = SetToSeq(D)[j] => i = j
        /\ D = {} => SetToSeq(D) = <<>>
    BY <1>1, SetToSeqFacts
  <1>5. SetToSeq(D) \in Seq(GPU) /\ \A i \in 1..Len(SetToSeq(D)) : SetToSeq(D)[i] \in D
    BY <1>1, <1>4, SeqMonotonic
  <1> QED
    BY <1>1, <1>2, <1>3, <1>4, <1>5 DEF D, Answer

-----------------------------------------------------------------------------
(* The cells, once they are built: what they are is fixed, and what changes   *)
(* has its type.                                                              *)

CellRecord(p) ==
  [id : {CellID[p]}, node : {NodeOf(p)}, level : {LevelOf(p)},
   leafCellType : {LeafType(p)}, available : {Capacity(p)}, healthy : BOOLEAN,
   state : {"FREE", "FILLED"}, uuid : UUIDs \cup {NoUUID}, fullMemory : Nat]

TreeInv ==
  /\ ChainInv
  /\ Built =>
       /\ ChainsBuilt /\ DOMAIN cell = Cells /\ cell = [p \in Cells |-> cell[p]]
       /\ \A p \in Cells : cell[p] \in CellRecord(p)

InfoInv ==
  /\ gpuInfos \in [Nodes -> [Models -> Seq(GPU)]]
  /\ \A n \in Nodes : \A m \in Models : gpuInfos[n][m] \in {<<>>, Answer(n, m)}

LeafInv == leafCells \in [UUIDs -> Leaves \cup {NoCell}]

Event == [kind : {"add", "update", "delete"}, node : Nodes, ready : BOOLEAN]

(* While the handler of a new node runs, its event is the first that is left. *)
AddPending == adding # NoAdd => adding.filter \/ Pending("add")

CallInv ==
  /\ AddPending
  /\ node \in [Nodes -> Status] /\ cycle \in [Nodes -> Status]
  /\ answers \in BOOLEAN /\ updating \in BOOLEAN /\ changes \in 0..MaxChanges
  /\ events \in Seq(Event)
  /\ adding \in [node : Nodes, ready : BOOLEAN, filter : BOOLEAN] \cup {NoAdd}

LEMMA RecordFields ==
  ASSUME NEW p, NEW r \in CellRecord(p)
  PROVE  /\ r.id = CellID[p] /\ r.node = NodeOf(p) /\ r.level = LevelOf(p)
         /\ r.leafCellType = LeafType(p) /\ r.available = Capacity(p)
         /\ r.healthy \in BOOLEAN /\ r.state \in {"FREE", "FILLED"}
         /\ r.uuid \in UUIDs \cup {NoUUID} /\ r.fullMemory \in Nat
  BY DEF CellRecord

(* What the tree is, for those who walk it. *)
LEMMA Tree ==
  ASSUME TreeInv, Built
  PROVE  /\ ChainInv /\ ChainsBuilt /\ DOMAIN cell = Cells /\ IsFiniteSet(Cells)
         /\ Leaves = {p \in Cells : LevelOf(p) = 1} /\ IsFiniteSet(Leaves)
         /\ \A p \in Cells : /\ cell[p] \in CellRecord(p) /\ p \in Path
                             /\ cell[p].leafCellType = LeafType(p) /\ LeafType(p) \in Models
                             /\ cell[p].level = LevelOf(p) /\ cell[p].node = NodeOf(p)
                             /\ <<p[1]>> \in Cells /\ LeafType(<<p[1]>>) = LeafType(p)
                             /\ \A k \in DOMAIN p : SubSeq(p, 1, k) \in Cells
  <1>1. ChainInv /\ ChainsBuilt /\ DOMAIN cell = Cells /\ \A p \in Cells : cell[p] \in CellRecord(p)
    BY DEF TreeInv
  <1>2. \A p \in Cells : /\ cell[p].leafCellType = LeafType(p)
                         /\ cell[p].level = LevelOf(p) /\ cell[p].node = NodeOf(p)
    BY <1>1, RecordFields
  <1>3. Leaves = {p \in Cells : LevelOf(p) = 1}
    BY <1>1, <1>2 DEF Leaves
  <1>4. IsFiniteSet(Leaves)
    BY <1>3, CellsFinite, FS_Subset
  <1>5. ASSUME NEW p \in Cells
        PROVE  /\ p \in Path /\ LeafType(p) \in Models /\ <<p[1]>> \in Cells
               /\ LeafType(<<p[1]>>) = LeafType(p)
               /\ \A k \in DOMAIN p : SubSeq(p, 1, k) \in Cells
    <2>1. p \in Path
      BY CellInRow
    <2>2. 1 \in DOMAIN p /\ SubSeq(p, 1, 1) = <<p[1]>>
      BY <2>1, PathType
    <2>3. \A k \in DOMAIN p : SubSeq(p, 1, k) \in Cells /\ LeafType(SubSeq(p, 1, k)) = LeafType(p)
      BY <1>1, CellsAbove
    <2>4. LeafType(p) \in Models
      BY <1>1, CellElements
    <2>5. SubSeq(p, 1, 1) \in Cells /\ LeafType(SubSeq(p, 1, 1)) = LeafType(p)
      BY <2>2, <2>3
    <2> QED
      BY <2>1, <2>2, <2>3, <2>4, <2>5
  <1> QED
    BY <1>1, <1>2, <1>3, <1>4, <1>5, CellsFinite

-----------------------------------------------------------------------------
(* One walk of setNodeStatus. *)

FreeLeaves(n, h) ==
  {p \in Reached(n, h) : cell[p].level = 1 /\ cell[<<p[1]>>].state = "FREE"}

Rank(n, h, p) == 1 + Cardinality({q \in FreeLeaves(n, h) : PoppedBefore(q, p)})

Given(n, h) == GivenGPUs(n, Reached(n, h))

Memories(n, h) == [q \in DOMAIN Given(n, h) |-> Given(n, h)[q].memory]

GivenBelow(n, h, p) == {q \in DOMAIN Given(n, h) : IsPrefix(p, q)}

LEMMA GivenFacts ==
  ASSUME TreeInv, Built, InfoInv, NEW n \in Nodes, NEW h \in BOOLEAN
  PROVE  /\ Reached(n, h) \subseteq Cells
         /\ FreeLeaves(n, h) \subseteq Reached(n, h) \cap Leaves
         /\ DOMAIN Given(n, h) \subseteq FreeLeaves(n, h)
         /\ \A p \in FreeLeaves(n, h) :
              LET gpus == gpuInfos[n][LeafType(p)] IN
              /\ Rank(n, h, p) \in Nat \ {0}
              /\ gpus \in {<<>>, Answer(n, LeafType(p))} /\ gpus \in Seq(GPU)
              /\ p \in DOMAIN Given(n, h) <=> Rank(n, h, p) <= Len(gpus)
              /\ p \in DOMAIN Given(n, h) =>
                   /\ Rank(n, h, p) \in 1..Len(gpus)
                   /\ Given(n, h)[p] = gpus[Rank(n, h, p)]
                   /\ Given(n, h)[p] = Answer(n, LeafType(p))[Rank(n, h, p)]
                   /\ Given(n, h)[p] \in DevicesOf(n, LeafType(p))
                   /\ Given(n, h)[p].uuid \in UUIDs /\ Given(n, h)[p].memory \in Nat
  <1> DEFINE F == FreeLeaves(n, h)
             gpus(p) == gpuInfos[n][cell[p].leafCellType]
  <1>1. DOMAIN cell = Cells /\ IsFiniteSet(Cells) /\ Leaves = {p \in Cells : LevelOf(p) = 1}
        /\ \A p \in Cells : /\ cell[p].leafCellType = LeafType(p) /\ LeafType(p) \in Models
                            /\ cell[p].level = LevelOf(p)
    BY Tree
  <1>2. Reached(n, h) \subseteq Cells
    BY <1>1 DEF Reached
  <1>3. F \subseteq Reached(n, h) /\ F \subseteq Cells /\ F \subseteq Leaves
    BY <1>1, <1>2 DEF FreeLeaves
  <1>4. Given(n, h) = [p \in {q \in F : Rank(n, h, q) <= Len(gpus(q))} |-> gpus(p)[Rank(n, h, p)]]
    BY Zenon DEF Given, GivenGPUs, FreeLeaves, Rank
  <1>5. DOMAIN Given(n, h) = {q \in F : Rank(n, h, q) <= Len(gpus(q))}
        /\ \A p \in DOMAIN Given(n, h) : Given(n, h)[p] = gpus(p)[Rank(n, h, p)]
    <2> HIDE DEF F, gpus
    <2> QED
      BY <1>4
  <1>6. ASSUME NEW p \in F
        PROVE  /\ Rank(n, h, p) \in Nat \ {0}
               /\ gpus(p) = gpuInfos[n][LeafType(p)] /\ gpus(p) \in Seq(GPU)
               /\ gpus(p) \in {<<>>, Answer(n, LeafType(p))}
    <2>1. {q \in F : PoppedBefore(q, p)} \in SUBSET Cells
      BY <1>3
    <2>2. Cardinality({q \in F : PoppedBefore(q, p)}) \in Nat
      BY <1>1, <2>1, FS_Subset, FS_CardinalityType
    <2>3. Rank(n, h, p) \in Nat \ {0}
      BY <2>2 DEF Rank
    <2>4. p \in Cells /\ gpus(p) = gpuInfos[n][LeafType(p)] /\ LeafType(p) \in Models
      BY <1>1, <1>3
    <2> QED
      BY <2>3, <2>4 DEF InfoInv
  <1>7. ASSUME NEW p \in F, p \in DOMAIN Given(n, h)
        PROVE  LET m == LeafType(p) IN
               /\ Rank(n, h, p) \in 1..Len(gpus(p))
               /\ Given(n, h)[p] = gpus(p)[Rank(n, h, p)]
               /\ Given(n, h)[p] = Answer(n, m)[Rank(n, h, p)]
               /\ Given(n, h)[p] \in DevicesOf(n, m)
               /\ Given(n, h)[p].uuid \in UUIDs /\ Given(n, h)[p].memory \in Nat
    <2> DEFINE m == LeafType(p)
               r == Rank(n, h, p)
    <2>1. r <= Len(gpus(p)) /\ Given(n, h)[p] = gpus(p)[r]
      BY <1>5, <1>7
    <2>2. m \in Models
      BY <1>1, <1>3
    <2> HIDE DEF gpus, m, r
    <2>3. r \in Nat \ {0} /\ gpus(p) \in Seq(GPU) /\ gpus(p) \in {<<>>, Answer(n, m)}
      BY <1>6 DEF m, r
    <2>4. Len(gpus(p)) \in Nat /\ r \in 1..Len(gpus(p))
      BY <2>1, <2>3
    <2>5. gpus(p) = Answer(n, m)
      BY <2>3, <2>4, EmptySeq
    <2>6. Given(n, h)[p] \in DevicesOf(n, m)
      BY <2>1, <2>2, <2>4, <2>5, AnswerFacts
    <2>7. Given(n, h)[p].uuid \in UUIDs /\ Given(n, h)[p].memory \in Nat
      BY <2>2, <2>6, AnswerFacts
    <2> QED
      BY <2>1, <2>4, <2>5, <2>6, <2>7 DEF m, r
  <1>8. DOMAIN Given(n, h) \subseteq F
    BY <1>5
  <1>9. \A p \in F : p \in DOMAIN Given(n, h) <=> Rank(n, h, p) <= Len(gpus(p))
    BY <1>5
  <1> HIDE DEF F, gpus
  <1>10. ASSUME NEW p \in F
         PROVE  LET g == gpuInfos[n][LeafType(p)] IN
                /\ Rank(n, h, p) \in Nat \ {0}
                /\ g \in {<<>>, Answer(n, LeafType(p))} /\ g \in Seq(GPU)
                /\ p \in DOMAIN Given(n, h) <=> Rank(n, h, p) <= Len(g)
                /\ p \in DOMAIN Given(n, h) =>
                     /\ Rank(n, h, p) \in 1..Len(g)
                     /\ Given(n, h)[p] = g[Rank(n, h, p)]
                     /\ Given(n, h)[p] = Answer(n, LeafType(p))[Rank(n, h, p)]
                     /\ Given(n, h)[p] \in DevicesOf(n, LeafType(p))
                     /\ Given(n, h)[p].uuid \in UUIDs /\ Given(n, h)[p].memory \in Nat
    <2>1. gpus(p) = gpuInfos[n][LeafType(p)]
      BY <1>6
    <2> QED
      BY <2>1, <1>6, <1>7, <1>9
  <1> QED
    BY <1>2, <1>3, <1>8, <1>10 DEF F


(* What a walk leaves of every cell: those it reached change, and only those. *)
CellAfter(n, h, p) ==
  [cell[p] EXCEPT
     !.healthy = h,
     !.state = IF cell[<<p[1]>>].state = "FREE" THEN "FILLED" ELSE @,
     !.uuid = IF p \in DOMAIN Given(n, h) THEN Given(n, h)[p].uuid ELSE @,
     !.fullMemory = @ + SumFunctionOnSet(Memories(n, h), GivenBelow(n, h, p))]

Holders(n, h, u) == {q \in DOMAIN Given(n, h) : Given(n, h)[q].uuid = u}

LEMMA SetNodeStatusIs ==
  ASSUME NEW n, NEW h, SetNodeStatus(n, h)
  PROVE  /\ cell' = [p \in DOMAIN cell |-> IF p \notin Reached(n, h) THEN cell[p] ELSE CellAfter(n, h, p)]
         /\ leafCells' = [u \in UUIDs |->
              IF Holders(n, h, u) = {} THEN leafCells[u] ELSE CHOOSE q \in Holders(n, h, u) : TRUE]
  BY Zenon DEF SetNodeStatus, CellAfter, Memories, GivenBelow, Gets, Given, Holders

LEMMA MemoriesType ==
  ASSUME TreeInv, Built, InfoInv, NEW n \in Nodes, NEW h \in BOOLEAN
  PROVE  /\ DOMAIN Memories(n, h) = DOMAIN Given(n, h)
         /\ \A q \in DOMAIN Given(n, h) : Memories(n, h)[q] \in Nat
         /\ \A p : /\ IsFiniteSet(GivenBelow(n, h, p))
                   /\ SumFunctionOnSet(Memories(n, h), GivenBelow(n, h, p)) \in Nat
  <1>1. DOMAIN Given(n, h) \in SUBSET Cells /\ IsFiniteSet(Cells)
    BY GivenFacts, Tree
  <1>2. \A q \in DOMAIN Given(n, h) : Memories(n, h)[q] \in Nat
    BY GivenFacts DEF Memories
  <1>3. ASSUME NEW p
        PROVE  /\ IsFiniteSet(GivenBelow(n, h, p))
               /\ SumFunctionOnSet(Memories(n, h), GivenBelow(n, h, p)) \in Nat
    <2>1. GivenBelow(n, h, p) \in SUBSET Cells
      BY <1>1 DEF GivenBelow
    <2>2. IsFiniteSet(GivenBelow(n, h, p))
      BY <1>1, <2>1, FS_Subset
    <2>3. \A q \in GivenBelow(n, h, p) : Memories(n, h)[q] \in Nat
      BY <1>2 DEF GivenBelow
    <2>4. Total(Memories(n, h), GivenBelow(n, h, p)) \in Nat
      BY <2>2, <2>3, TotalOfNaturals
    <2> QED
      BY <2>2, <2>4, SumIsTotal
  <1> QED
    BY <1>2, <1>3 DEF Memories

LEMMA WalkChanges ==
  ASSUME TreeInv, Built, InfoInv, NEW n \in Nodes, NEW h \in BOOLEAN, SetNodeStatus(n, h)
  PROVE  /\ DOMAIN cell' = Cells /\ cell' = [p \in Cells |-> cell'[p]]
         /\ \A p \in Cells : cell'[p] \in CellRecord(p)
         /\ \A p \in Cells \ Reached(n, h) : cell'[p] = cell[p]
         /\ \A p \in Reached(n, h) :
              /\ cell'[p].healthy = h
              /\ cell'[p].state = IF cell[<<p[1]>>].state = "FREE" THEN "FILLED" ELSE cell[p].state
              /\ cell'[p].uuid = IF p \in DOMAIN Given(n, h) THEN Given(n, h)[p].uuid ELSE cell[p].uuid
              /\ cell'[p].fullMemory = cell[p].fullMemory
                                       + SumFunctionOnSet(Memories(n, h), GivenBelow(n, h, p))
  <1>1. DOMAIN cell = Cells /\ \A p \in Cells : cell[p] \in CellRecord(p)
    BY Tree
  <1>2. cell' = [p \in Cells |-> IF p \notin Reached(n, h) THEN cell[p] ELSE CellAfter(n, h, p)]
    BY <1>1, SetNodeStatusIs
  <1>3. DOMAIN cell' = Cells
        /\ \A p \in Cells : cell'[p] = IF p \notin Reached(n, h) THEN cell[p] ELSE CellAfter(n, h, p)
    BY <1>2
  <1>4. Reached(n, h) \subseteq Cells
    BY GivenFacts
  <1>5. ASSUME NEW p \in Reached(n, h)
        PROVE  LET r == CellAfter(n, h, p) IN
               /\ r \in CellRecord(p) /\ r.healthy = h
               /\ r.state = IF cell[<<p[1]>>].state = "FREE" THEN "FILLED" ELSE cell[p].state
               /\ r.uuid = IF p \in DOMAIN Given(n, h) THEN Given(n, h)[p].uuid ELSE cell[p].uuid
               /\ r.fullMemory = cell[p].fullMemory
                                 + SumFunctionOnSet(Memories(n, h), GivenBelow(n, h, p))
    <2>1. p \in Cells /\ cell[p] \in CellRecord(p)
      BY <1>1, <1>4
    <2>2. p \in DOMAIN Given(n, h) => Given(n, h)[p].uuid \in UUIDs
      BY GivenFacts
    <2>3. SumFunctionOnSet(Memories(n, h), GivenBelow(n, h, p)) \in Nat
      BY MemoriesType
    <2> DEFINE sum == SumFunctionOnSet(Memories(n, h), GivenBelow(n, h, p))
    <2>4. cell[p].fullMemory + sum \in Nat
      <3>1. cell[p].fullMemory \in Nat
        BY <2>1, RecordFields
      <3> HIDE DEF sum
      <3> QED
        BY <2>3, <3>1 DEF sum
    <2> HIDE DEF sum
    <2> QED
      BY <2>1, <2>2, <2>4 DEF CellRecord, CellAfter, sum
  <1> DEFINE after(p) == IF p \notin Reached(n, h) THEN cell[p] ELSE CellAfter(n, h, p)
             f == [p \in Cells |-> after(p)]
  <1>6. cell' = [p \in Cells |-> cell'[p]]
    <2>1. cell' = f
      BY <1>2
    <2>2. f = [p \in Cells |-> f[p]]
      OBVIOUS
    <2> HIDE DEF f
    <2> QED
      BY <2>1, <2>2
  <1>7. \A p \in Cells \ Reached(n, h) : cell'[p] = cell[p]
    BY <1>3
  <1>8. \A p \in Reached(n, h) : cell'[p] = CellAfter(n, h, p)
    BY <1>3, <1>4
  <1>9. \A p \in Cells : cell'[p] \in CellRecord(p)
    <2> TAKE p \in Cells
    <2>1. CASE p \in Reached(n, h)
      BY <2>1, <1>5, <1>8
    <2>2. CASE p \notin Reached(n, h)
      BY <2>2, <1>1, <1>7
    <2> QED
      BY <2>1, <2>2
  <1> QED
    BY <1>3, <1>5, <1>6, <1>7, <1>8, <1>9


(* A walk before the cells are built finds nothing. *)
LEMMA WalkOfNothing ==
  ASSUME ~ Built, LeafInv, NEW n, NEW h, SetNodeStatus(n, h)
  PROVE  cell' = cell /\ leafCells' = leafCells
  <1>1. cell = <<>> /\ DOMAIN cell = {}
    BY DEF Built
  <1>2. Reached(n, h) = {} /\ FreeLeaves(n, h) = {}
    BY <1>1 DEF Reached, FreeLeaves
  <1>3. DOMAIN Given(n, h) = {}
    BY <1>2 DEF Given, GivenGPUs
  <1>4. \A u : Holders(n, h, u) = {}
    BY <1>3 DEF Holders
  <1>5. leafCells' = [u \in UUIDs |-> leafCells[u]]
    BY <1>4, SetNodeStatusIs
  <1>6. leafCells' = leafCells
    BY <1>5 DEF LeafInv
  <1>7. cell' \in [{} -> {}]
    BY <1>1, SetNodeStatusIs
  <1>8. cell' = <<>>
    <2>1. {} = 1..0
      OBVIOUS
    <2>2. cell' \in [1..0 -> {}]
      BY <1>7, <2>1
    <2>3. cell' \in Seq({}) /\ Len(cell') = 0
      BY <2>2
    <2> QED
      BY <2>3, EmptySeq
  <1> QED
    BY <1>1, <1>6, <1>8

(* A step builds the cells, walks through them, asks Prometheus, or does      *)
(* nothing to what the cells are.                                             *)
Walks  == \E n \in Nodes, h \in BOOLEAN : SetNodeStatus(n, h) /\ UNCHANGED <<chainVars, gpuInfos>>
Asks   == \E n \in Nodes : getGPUByNode(n) /\ UNCHANGED <<chainVars, cell, leafCells>>
Idles  == UNCHANGED <<chainVars, cell, leafCells, gpuInfos>>

LEMMA StepKinds ==
  ASSUME CallInv, [HealthNext]_<<chainVars, healthVars>>
  PROVE  Chains \/ Build \/ Walks \/ Asks \/ Idles
  <1>1. CASE UNCHANGED <<chainVars, healthVars>>
    BY <1>1 DEF Idles, healthVars
  <1>2. CASE CycleBegins
    BY <1>2 DEF Idles, CycleBegins
  <1>3. CASE PrometheusChanges
    BY <1>3 DEF Idles, PrometheusChanges
  <1>4. ASSUME NEW n \in Nodes, Heartbeat(n) PROVE Idles
    BY <1>4 DEF Idles, Heartbeat
  <1>5. ASSUME NEW n \in Nodes, NEW s \in Status, NodeChanges(n, s) PROVE Idles
    BY <1>5 DEF Idles, NodeChanges
  <1>6. ASSUME NEW n \in Nodes, FilterAddNode(n) PROVE Asks
    BY <1>6 DEF Asks, FilterAddNode
  <1>7. events # <<>> => Head(events).node \in Nodes /\ Head(events).ready \in BOOLEAN
    <2>1. events # <<>> => Head(events) \in Event
      BY HeadTailProperties DEF CallInv
    <2> QED
      BY <2>1 DEF Event
  <1>8. CASE HandleAdd
    BY <1>7, <1>8 DEF Asks, HandleAdd, Pending
  <1>9. CASE UpdateNodeQuery
    BY <1>7, <1>9 DEF Asks, UpdateNodeQuery, Pending
  <1>10. CASE AddNode
    <2>1. adding.node \in Nodes /\ adding.ready \in BOOLEAN
      BY <1>10 DEF AddNode, CallInv
    <2> QED
      BY <2>1, <1>10 DEF Walks, AddNode
  <1>11. CASE UpdateNode
    BY <1>7, <1>11 DEF Walks, UpdateNode, Pending
  <1>12. CASE DeleteNode
    <2>1. FALSE \in BOOLEAN
      OBVIOUS
    <2> QED
      BY <2>1, <1>7, <1>12 DEF Walks, DeleteNode, Pending
  <1> QED
    BY <1>1, <1>2, <1>3, <1>4, <1>5, <1>6, <1>8, <1>9, <1>10, <1>11, <1>12 DEF HealthNext

(* What the cells are does not change with what is in them. *)
LEMMA RecordsStay ==
  ASSUME UNCHANGED elements
  PROVE  \A p : /\ CellRecord(p)' = CellRecord(p) /\ LevelOf(p)' = LevelOf(p)
                /\ LeafType(p)' = LeafType(p)
  BY DEF CellRecord, LevelOf, LeafType, Capacity, NodeOf

LEMMA BuildTree ==
  ASSUME TreeInv, Build
  PROVE  TreeInv'
  <1>1. ChainInv' /\ ChainsBuilt'
    <2>1. UNCHANGED chainVars
      BY DEF Build
    <2>2. ChainInv'
      BY <2>1, ChainNextInv DEF TreeInv
    <2>3. ChainsBuilt'
      BY DEF Build, ChainsBuilt, chainVars
    <2> QED
      BY <2>2, <2>3
  <1>2. cell' = [p \in Cells |-> NewCell(p)]
    BY DEF Build
  <1>3. DOMAIN cell' = Cells /\ \A p \in Cells : cell'[p] = NewCell(p)
    BY <1>2
  <1>4. cell' = [p \in Cells |-> cell'[p]]
    BY <1>2, <1>3
  <1>5. \A p \in Cells : NewCell(p) \in CellRecord(p)
    BY DEF NewCell, CellRecord
  <1>6. \A p : CellRecord(p)' = CellRecord(p)
    BY RecordsStay DEF Build, chainVars
  <1> QED
    BY <1>1, <1>3, <1>4, <1>5, <1>6 DEF TreeInv

LEMMA TreeNext ==
  ASSUME TreeInv, InfoInv, LeafInv, Chains \/ Build \/ Walks \/ Asks \/ Idles
  PROVE  TreeInv' /\ InfoInv' /\ LeafInv'
  <1>1. CASE Chains
    <2>1. ~ Built /\ cell' = cell /\ leafCells' = leafCells /\ gpuInfos' = gpuInfos
      BY <1>1 DEF Chains, healthVars
    <2>2. ChainInv'
      BY <1>1, ChainNextInv DEF Chains, TreeInv
    <2>3. TreeInv'
      BY <2>1, <2>2 DEF TreeInv, Built
    <2> QED
      BY <2>1, <2>3 DEF InfoInv, LeafInv, Leaves
  <1>2. CASE Build
    <2>1. TreeInv'
      BY <1>2, BuildTree
    <2>2. gpuInfos' = gpuInfos /\ leafCells' = leafCells /\ Leaves = {}
      BY <1>2 DEF Build, Built, Leaves
    <2>3. leafCells \in [UUIDs -> {NoCell}]
      BY <2>2 DEF LeafInv
    <2>4. leafCells' \in [UUIDs -> Leaves' \cup {NoCell}]
      BY <2>2, <2>3
    <2> QED
      BY <2>1, <2>2, <2>4 DEF InfoInv, LeafInv
  <1>3. CASE Walks
    <2>1. PICK n \in Nodes, h \in BOOLEAN : SetNodeStatus(n, h) /\ UNCHANGED <<chainVars, gpuInfos>>
      BY <1>3 DEF Walks
    <2>2. InfoInv'
      BY <2>1 DEF InfoInv
    <2>3. ChainInv' /\ (ChainsBuilt <=> ChainsBuilt')
      BY <2>1, ChainNextInv DEF TreeInv, ChainsBuilt, chainVars
    <2>4. CASE ~ Built
      BY <2>1, <2>2, <2>3, <2>4, WalkOfNothing DEF TreeInv, LeafInv, Leaves, Built
    <2>5. CASE Built
      <3>1. DOMAIN cell' = Cells /\ cell' = [p \in Cells |-> cell'[p]]
            /\ \A p \in Cells : cell'[p] \in CellRecord(p)
        BY <2>1, <2>5, WalkChanges
      <3>2. \A p : CellRecord(p)' = CellRecord(p) /\ LevelOf(p)' = LevelOf(p)
        BY <2>1, RecordsStay DEF chainVars
      <3>3. TreeInv'
        BY <2>3, <2>5, <3>1, <3>2 DEF TreeInv
      <3>4. Leaves' = Leaves
        <4>1. \A p \in Cells : cell'[p].level = LevelOf(p)
          BY <3>1, RecordFields
        <4>2. Leaves' = {p \in Cells : LevelOf(p) = 1}
          BY <3>1, <4>1 DEF Leaves
        <4> QED
          BY <4>2, <2>5, Tree
      <3>5. \A u \in UUIDs : Holders(n, h, u) \subseteq Leaves
        BY <2>1, <2>5, GivenFacts DEF Holders
      <3>6. leafCells' \in [UUIDs -> Leaves \cup {NoCell}]
        BY <2>1, <3>5, SetNodeStatusIs DEF LeafInv
      <3> QED
        BY <2>2, <3>3, <3>4, <3>6 DEF LeafInv
    <2> QED
      BY <2>4, <2>5
  <1>4. ASSUME UNCHANGED <<chainVars, cell, leafCells>> PROVE TreeInv' /\ LeafInv'
    <2>1. ChainInv' /\ (ChainsBuilt <=> ChainsBuilt')
      BY <1>4, ChainNextInv DEF TreeInv, ChainsBuilt, chainVars
    <2>2. \A p : CellRecord(p)' = CellRecord(p)
      BY <1>4, RecordsStay DEF chainVars
    <2> QED
      BY <1>4, <2>1, <2>2 DEF TreeInv, LeafInv, Leaves, Built
  <1>5. CASE Asks
    <2>1. PICK n \in Nodes : getGPUByNode(n) /\ UNCHANGED <<chainVars, cell, leafCells>>
      BY <1>5 DEF Asks
    <2>2. \A m \in Models : queryGPUCapacity(n)[m] \in {<<>>, Answer(n, m)} /\ Answer(n, m) \in Seq(GPU)
      BY AnswerFacts
    <2>3. queryGPUCapacity(n) \in [Models -> Seq(GPU)]
      <3>1. \A m \in Models : queryGPUCapacity(n)[m] \in Seq(GPU)
        BY <2>2, EmptySeq
      <3> QED
        BY <3>1 DEF queryGPUCapacity
    <2>4. InfoInv'
      BY <2>1, <2>2, <2>3 DEF InfoInv, getGPUByNode
    <2> QED
      BY <1>4, <2>1, <2>4
  <1>6. CASE Idles
    BY <1>4, <1>6 DEF Idles, InfoInv
  <1> QED
    BY <1>1, <1>2, <1>3, <1>5, <1>6


-----------------------------------------------------------------------------
(* Nodes, events and calls. *)

LEMMA CallNext ==
  ASSUME CallInv, [HealthNext]_<<chainVars, healthVars>>
  PROVE  CallInv'
  <1>0. /\ changes \in Nat /\ MaxChanges \in Nat
        /\ events # <<>> => /\ Head(events) \in Event /\ Tail(events) \in Seq(Event)
                            /\ Head(events).node \in Nodes /\ Head(events).ready \in BOOLEAN
    <2>1. events # <<>> => Head(events) \in Event /\ Tail(events) \in Seq(Event)
      BY HeadTailProperties DEF CallInv
    <2> QED
      BY <2>1, HealthAssumption DEF CallInv, Event
  <1>0a. ASSUME NEW e \in Event, events' = Append(events, e), adding' = adding
         PROVE  events' \in Seq(Event) /\ AddPending'
    <2>1. events \in Seq(Event) /\ AddPending
      BY DEF CallInv
    <2>2. /\ events' \in Seq(Event) /\ events' # <<>>
          /\ events # <<>> => events'[1] = events[1]
      BY <2>1, <1>0a, AppendProperties, EmptySeq
    <2>3. events # <<>> => Head(events') = Head(events)
      BY <2>1, <2>2
    <2> QED
      BY <2>1, <2>2, <2>3, <1>0a DEF AddPending, Pending
  <1>0b. ASSUME UNCHANGED <<events, adding>> PROVE AddPending'
    BY <1>0b DEF CallInv, AddPending, Pending
  <1>1. CASE UNCHANGED <<chainVars, healthVars>>
    BY <1>0b, <1>1 DEF CallInv, healthVars
  <1>2. CASE Chains
    BY <1>0b, <1>2 DEF CallInv, Chains, healthVars
  <1>3. CASE Build
    BY <1>0b, <1>3 DEF CallInv, Build
  <1>4. CASE CycleBegins
    BY <1>0b, <1>4 DEF CallInv, CycleBegins
  <1>5. CASE PrometheusChanges
    <2>1. changes' \in 0..MaxChanges
      BY <1>0, <1>5 DEF PrometheusChanges
    <2> QED
      BY <1>0b, <1>5, <2>1 DEF CallInv, PrometheusChanges
  <1>6. ASSUME NEW n \in Nodes, Heartbeat(n) PROVE CallInv'
    <2>1. [kind |-> "update", node |-> n, ready |-> node[n] = "ready"] \in Event
      BY DEF Event
    <2>2. events' \in Seq(Event) /\ AddPending'
      BY <1>6, <2>1, <1>0a DEF CallInv, Heartbeat, Enqueue
    <2> QED
      BY <1>6, <2>2 DEF CallInv, Heartbeat
  <1>7. ASSUME NEW n \in Nodes, NEW s \in Status, NodeChanges(n, s) PROVE CallInv'
    <2> DEFINE kind == CASE node[n] = "absent" -> "add" [] s = "absent" -> "delete" [] OTHER -> "update"
    <2>1. kind \in {"add", "update", "delete"}
      <3>1. CASE node[n] = "absent" /\ s # "absent"
        BY <3>1
      <3>2. CASE node[n] # "absent" /\ s = "absent"
        BY <3>2
      <3>3. CASE node[n] # "absent" /\ s # "absent"
        BY <3>3
      <3>4. node[n] # s
        BY <1>7 DEF NodeChanges
      <3> QED
        BY <3>1, <3>2, <3>3, <3>4
    <2> HIDE DEF kind
    <2>2. [kind |-> kind, node |-> n, ready |-> s = "ready"] \in Event
      BY <2>1 DEF Event
    <2>3. events' = Append(events, [kind |-> kind, node |-> n, ready |-> s = "ready"])
      BY <1>7 DEF NodeChanges, Enqueue, kind
    <2>3a. adding' = adding
      BY <1>7 DEF NodeChanges
    <2>4. events' \in Seq(Event) /\ AddPending'
      BY <2>2, <2>3, <2>3a, <1>0a
    <2>5. changes' \in 0..MaxChanges
      BY <1>0, <1>7 DEF NodeChanges
    <2> QED
      BY <1>7, <2>4, <2>5 DEF CallInv, NodeChanges
  <1>8. ASSUME NEW n \in Nodes, FilterAddNode(n) PROVE CallInv'
    <2>1. cycle' \in [Nodes -> Status]
      BY <1>8 DEF FilterAddNode, CallInv, Status
    <2>2. AddPending'
      BY <1>8 DEF FilterAddNode, AddPending
    <2> QED
      BY <1>8, <2>1, <2>2 DEF FilterAddNode, CallInv
  <1>9. CASE HandleAdd
    <2>1. AddPending'
      BY <1>9 DEF HandleAdd, AddPending, Pending
    <2> QED
      BY <1>0, <1>9, <2>1 DEF HandleAdd, Pending, CallInv
  <1>10. CASE UpdateNodeQuery
    BY <1>0b, <1>10 DEF UpdateNodeQuery, CallInv
  <1>11. CASE AddNode
    <2>1. AddPending'
      BY <1>11 DEF AddNode, AddPending
    <2>2. events' \in Seq(Event)
      <3>1. adding.filter \/ events # <<>>
        BY <1>11 DEF AddNode, CallInv, AddPending, Pending
      <3> QED
        BY <1>0, <1>11, <3>1 DEF AddNode, CallInv
    <2> QED
      BY <1>11, <2>1, <2>2 DEF AddNode, CallInv
  <1>12. ASSUME Pending("update") \/ Pending("delete"), adding' = adding
         PROVE  AddPending'
    <2>1. ~ Pending("add")
      BY <1>12 DEF Pending
    <2>2. adding # NoAdd => adding.filter
      BY <2>1 DEF CallInv, AddPending
    <2> QED
      BY <2>2, <1>12 DEF AddPending
  <1>13. CASE UpdateNode
    BY <1>0, <1>12, <1>13 DEF UpdateNode, Pending, CallInv
  <1>14. CASE DeleteNode
    BY <1>0, <1>12, <1>14 DEF DeleteNode, Pending, CallInv
  <1> QED
    BY <1>1, <1>2, <1>3, <1>4, <1>5, <1>6, <1>7, <1>8, <1>9, <1>10, <1>11, <1>13, <1>14
    DEF HealthNext


HealthInv == TreeInv /\ InfoInv /\ LeafInv /\ CallInv

LEMMA HealthInitInv == HealthInit => HealthInv
  <1> SUFFICES ASSUME HealthInit PROVE HealthInv
    OBVIOUS
  <1>1. TreeInv
    BY ChainInitInv DEF HealthInit, TreeInv, Built
  <1>2. \A n \in Nodes : gpuInfos[n] = NothingKnown
    BY DEF HealthInit
  <1>3. NothingKnown \in [Models -> Seq(GPU)] /\ \A m \in Models : NothingKnown[m] = <<>>
    BY EmptySeq DEF NothingKnown
  <1>4. InfoInv
    BY <1>2, <1>3 DEF HealthInit, InfoInv
  <1>5. LeafInv
    BY DEF HealthInit, LeafInv
  <1>6. CallInv
    <2>1. events \in Seq(Event) /\ AddPending
      BY EmptySeq DEF HealthInit, AddPending
    <2>2. node \in [Nodes -> Status] /\ cycle \in [Nodes -> Status]
      BY DEF HealthInit, Status
    <2>3. changes \in 0..MaxChanges
      BY HealthAssumption DEF HealthInit
    <2> QED
      BY <2>1, <2>2, <2>3 DEF HealthInit, CallInv
  <1> QED
    BY <1>1, <1>4, <1>5, <1>6 DEF HealthInv

LEMMA HealthNextInv == HealthInv /\ [HealthNext]_<<chainVars, healthVars>> => HealthInv'
  BY StepKinds, TreeNext, CallNext DEF HealthInv

THEOREM HealthInvariant == HealthSpec => []HealthInv
  BY HealthInitInv, HealthNextInv, PTL DEF HealthSpec

(* Every cell, what is known of the GPUs, the nodes' events and the calls     *)
(* keep their types: the leaf cell of a uuid is a leaf cell, and a cell's     *)
(* memory never falls below zero.                                             *)
THEOREM NodeHealthTypeOK == HealthSpec => []HealthTypeOK
  <1>1. HealthInv => HealthTypeOK
    <2> SUFFICES ASSUME HealthInv PROVE HealthTypeOK
      OBVIOUS
    <2>1. ChainTypeOK
      BY DEF HealthInv, TreeInv, ChainInv
    <2>2. ASSUME Built, NEW p \in DOMAIN cell
          PROVE  /\ cell[p].state \in {"FREE", "FILLED"} /\ cell[p].healthy \in BOOLEAN
                 /\ cell[p].uuid \in UUIDs \cup {NoUUID} /\ cell[p].fullMemory \in Nat
      <3>1. cell[p] \in CellRecord(p)
        BY <2>2, Tree DEF HealthInv
      <3> QED
        BY <3>1, RecordFields
    <2> QED
      BY <2>1, <2>2 DEF HealthTypeOK, HealthInv, InfoInv, LeafInv, CallInv, Event
  <1> QED
    BY <1>1, HealthInvariant, PTL

(* The elements that the cells are built from agree, and go on to. *)
THEOREM NodeElementsAgree == HealthSpec => []ElementsAgree
  <1>1. HealthInv => ElementsAgree
    BY DEF HealthInv, TreeInv, ChainInv
  <1> QED
    BY <1>1, HealthInvariant, PTL

(* No element is missing when the cells are built, or later. *)
THEOREM NodeEveryTypeAdded == HealthSpec => []EveryTypeAdded
  <1>1. HealthInv => EveryTypeAdded
    BY ChainInvAdds DEF HealthInv, TreeInv
  <1> QED
    BY <1>1, HealthInvariant, PTL


-----------------------------------------------------------------------------
(* Memory adds up. *)

(* A walk that reaches a cell has reached those above it. *)
LEMMA ReachedAbove ==
  ASSUME TreeInv, Built, NEW n, NEW h, NEW q \in Reached(n, h), NEW p \in Path, IsPrefix(p, q)
  PROVE  p \in Reached(n, h)
  <1>1. q \in Cells /\ DOMAIN cell = Cells /\ q \in Path
    BY Tree DEF Reached
  <1>2. Len(p) \in DOMAIN q /\ p = SubSeq(q, 1, Len(p)) /\ p[1] = q[1]
    BY <1>1, PrefixIsSubSeq
  <1>3. p \in Cells
    BY <1>1, <1>2, Tree
  <1>4. DOMAIN p = 1..Len(p) /\ DOMAIN q = 1..Len(q) /\ Len(p) \in Nat /\ Len(q) \in Nat
    BY <1>1, PathType
  <1>5. \A k \in DOMAIN p : k \in DOMAIN q /\ SubSeq(p, 1, k) = SubSeq(q, 1, k)
    <2>1. \A j \in 1..Len(p) : SubSeq(SubSeq(q, 1, Len(p)), 1, j) = SubSeq(q, 1, j)
      BY <1>1, <1>2, PrefixFacts
    <2> QED
      BY <1>2, <1>4, <2>1
  <1>6. \A k \in DOMAIN q : LET here == cell[SubSeq(q, 1, k)] IN OnTheWay(here, n) /\ here.healthy # h
    BY DEF Reached
  <1>7. \A k \in DOMAIN p : LET here == cell[SubSeq(p, 1, k)] IN OnTheWay(here, n) /\ here.healthy # h
    BY <1>5, <1>6
  <1> QED
    BY <1>1, <1>2, <1>3, <1>7 DEF Reached

(* The leaf cells that a walk gives a GPU, below a leaf cell: itself, or none. *)
LEMMA GivenBelowLeaf ==
  ASSUME TreeInv, Built, InfoInv, NEW n \in Nodes, NEW h \in BOOLEAN, NEW q \in Leaves
  PROVE  SumFunctionOnSet(Memories(n, h), GivenBelow(n, h, q))
           = IF q \in DOMAIN Given(n, h) THEN Memories(n, h)[q] ELSE 0
  <1>1. q \in Cells /\ LevelOf(q) = 1 /\ q \in Path /\ ChainInv /\ ChainsBuilt
    BY Tree
  <1>2. \A r \in DOMAIN Given(n, h) : r \in Cells /\ LevelOf(r) = 1 /\ r \in Path
    BY GivenFacts, Tree
  <1>3. \A r \in DOMAIN Given(n, h) : IsPrefix(q, r) <=> r = q
    BY <1>1, <1>2, LeavesApart, PrefixIsSubSeq
  <1>4. CASE q \in DOMAIN Given(n, h)
    <2>1. GivenBelow(n, h, q) = {q}
      BY <1>3, <1>4 DEF GivenBelow
    <2>2. Memories(n, h)[q] \in Nat /\ IsFiniteSet({q})
      <3>1. Memories(n, h)[q] \in Nat
        BY <1>4, MemoriesType
      <3> QED
        BY <3>1, FS_Singleton
    <2> DEFINE m == Memories(n, h)
    <2>3. SumFunctionOnSet(m, GivenBelow(n, h, q)) = Total(m, {q})
      BY <2>1, SumIsTotal
    <2> HIDE DEF m
    <2>4. Total(m, {q}) = m[q] + Total(m, {q} \ {q})
      <3>1. \A x \in {q} : m[x] \in Int
        BY <2>2 DEF m
      <3> QED
        BY <2>2, <3>1, TotalSplit
    <2>5. {q} \ {q} = {} /\ Total(m, {}) = 0
      BY TotalEmpty
    <2>6. Total(m, {q}) = m[q]
      BY <2>2, <2>4, <2>5 DEF m
    <2> QED
      BY <1>4, <2>3, <2>6 DEF m
  <1>5. CASE q \notin DOMAIN Given(n, h)
    <2>1. GivenBelow(n, h, q) = {}
      BY <1>3, <1>5 DEF GivenBelow
    <2> QED
      BY <1>5, <2>1, TotalEmpty, SumIsTotal
  <1> QED
    BY <1>4, <1>5

LEMMA LeavesUnderType ==
  ASSUME TreeInv, Built, NEW p
  PROVE  LeavesUnder(p) \subseteq Leaves /\ IsFiniteSet(LeavesUnder(p))
  <1>1. LeavesUnder(p) \in SUBSET Leaves
    BY DEF LeavesUnder
  <1> QED
    BY <1>1, Tree, FS_Subset

LEMMA WalkKeepsLeaves ==
  ASSUME TreeInv, Built, InfoInv, NEW n \in Nodes, NEW h \in BOOLEAN, SetNodeStatus(n, h)
  PROVE  Leaves' = Leaves /\ \A p : LeavesUnder(p)' = LeavesUnder(p)
  <1>1. DOMAIN cell' = Cells /\ \A p \in Cells : cell'[p] \in CellRecord(p)
    BY WalkChanges
  <1>2. \A p \in Cells : cell'[p].level = LevelOf(p)
    BY <1>1, RecordFields
  <1>3. Leaves' = Leaves
    <2>1. Leaves' = {p \in Cells : LevelOf(p) = 1}
      BY <1>1, <1>2 DEF Leaves
    <2> QED
      BY <2>1, Tree
  <1> QED
    BY <1>3 DEF LeavesUnder

LEMMA MemoryWalk ==
  ASSUME TreeInv, Built, InfoInv, MemoryAddsUp,
         NEW n \in Nodes, NEW h \in BOOLEAN, SetNodeStatus(n, h)
  PROVE  MemoryAddsUp'
  <1> DEFINE f == [q \in Leaves |-> cell[q].fullMemory]
             g == [q \in Leaves |-> cell'[q].fullMemory]
             m == Memories(n, h)
  <1>1. /\ Leaves \subseteq Cells /\ DOMAIN cell = Cells /\ DOMAIN cell' = Cells
        /\ \A p \in Cells : p \in Path /\ cell[p] \in CellRecord(p)
    BY Tree, WalkChanges
  <1>2. \A q \in Leaves : f[q] \in Int /\ f[q] = cell[q].fullMemory /\ g[q] = cell'[q].fullMemory
    BY <1>1, RecordFields
  <1>3. \A q \in Cells \ Reached(n, h) : cell'[q] = cell[q]
    BY WalkChanges
  <1>4. \A q \in Reached(n, h) :
          cell'[q].fullMemory = cell[q].fullMemory + SumFunctionOnSet(m, GivenBelow(n, h, q))
    BY WalkChanges
  <1>5. DOMAIN Given(n, h) \subseteq Reached(n, h) \cap Leaves
    BY GivenFacts
  <1>6. Leaves' = Leaves /\ \A p : LeavesUnder(p)' = LeavesUnder(p)
    BY WalkKeepsLeaves
  <1> HIDE DEF f, g, m
  <1>7. ASSUME NEW p \in Cells
        PROVE  cell'[p].fullMemory = SumFunctionOnSet(g, LeavesUnder(p))
    <2> DEFINE S == LeavesUnder(p)
               A == GivenBelow(n, h, p)
    <2>1. S \subseteq Leaves /\ IsFiniteSet(S) /\ \A q \in S : IsPrefix(p, q)
      BY LeavesUnderType DEF LeavesUnder
    <2>2. cell[p].fullMemory = Total(f, S)
      BY <1>1, SumIsTotal DEF MemoryAddsUp, f
    <2>3. CASE p \notin Reached(n, h)
      <3>1. \A q \in S : q \notin Reached(n, h)
        BY <1>1, <2>1, <2>3, ReachedAbove
      <3>2. \A q \in S : g[q] = f[q] /\ f[q] \in Int
        BY <1>1, <1>2, <1>3, <2>1, <3>1
      <3> HIDE DEF S
      <3>3. Total(g, S) = Total(f, S)
        BY <2>1, <3>2, TotalEqual
      <3> QED
        BY <1>3, <2>2, <2>3, <3>3, SumIsTotal DEF S
    <2>4. CASE p \in Reached(n, h)
      <3>1. A \in SUBSET S
        BY <1>5 DEF GivenBelow, LeavesUnder
      <3>2. \A q \in A : m[q] \in Int
        BY MemoriesType DEF GivenBelow, m
      <3>3. ASSUME NEW q \in S PROVE g[q] = IF q \in A THEN f[q] + m[q] ELSE f[q]
        <4>1. q \in Leaves /\ q \in Cells /\ (q \in A <=> q \in DOMAIN Given(n, h))
          BY <1>1, <2>1 DEF GivenBelow
        <4>2. SumFunctionOnSet(m, GivenBelow(n, h, q)) = IF q \in DOMAIN Given(n, h) THEN m[q] ELSE 0
          BY <4>1, GivenBelowLeaf DEF m
        <4>3. CASE q \in A
          <5>1. q \in Reached(n, h)
            BY <1>5, <4>1, <4>3
          <5> QED
            BY <1>2, <1>4, <4>1, <4>2, <4>3, <5>1
        <4>4. CASE q \notin A /\ q \in Reached(n, h)
          <5>1. cell'[q].fullMemory = f[q] + 0 /\ f[q] \in Int
            BY <1>2, <1>4, <4>1, <4>2, <4>4
          <5> QED
            BY <1>2, <4>1, <4>4, <5>1
        <4>5. CASE q \notin A /\ q \notin Reached(n, h)
          BY <1>2, <1>3, <4>1, <4>5
        <4> QED
          BY <4>3, <4>4, <4>5
      <3>4. \A q \in S : f[q] \in Int
        BY <1>2, <2>1
      <3> HIDE DEF S, A
      <3>5. Total(g, S) = Total(f, S) + Total(m, A)
        <4>1. \A q \in A : m[q] \in Int /\ g[q] = f[q] + m[q]
          BY <3>1, <3>2, <3>3
        <4>2. \A q \in S \ A : g[q] = f[q]
          BY <3>3
        <4> QED
          BY <2>1, <3>1, <3>4, <4>1, <4>2, TotalAdd
      <3> QED
        BY <1>4, <2>2, <2>4, <3>5, SumIsTotal DEF S, A
    <2> QED
      BY <2>3, <2>4
  <1>8. MemoryAddsUp' <=> \A p \in DOMAIN cell' : cell'[p].fullMemory =
          SumFunctionOnSet([q \in Leaves' |-> cell'[q].fullMemory], LeavesUnder(p)')
    BY DEF MemoryAddsUp
  <1> QED
    BY <1>1, <1>6, <1>7, <1>8 DEF g


LEMMA MemoryBuild ==
  ASSUME Build
  PROVE  MemoryAddsUp'
  <1>1. cell' = [p \in Cells |-> NewCell(p)]
    BY DEF Build
  <1>2. DOMAIN cell' = Cells /\ \A p \in Cells : cell'[p].fullMemory = 0
    BY <1>1 DEF NewCell
  <1> DEFINE g == [q \in Leaves' |-> cell'[q].fullMemory]
  <1>3. ASSUME NEW p \in DOMAIN cell' PROVE cell'[p].fullMemory = SumFunctionOnSet(g, LeavesUnder(p)')
    <2> DEFINE S == LeavesUnder(p)'
    <2>1. S \in SUBSET Leaves' /\ Leaves' \in SUBSET Cells
      BY <1>2 DEF LeavesUnder, Leaves
    <2>2. IsFiniteSet(S)
      BY <2>1, CellsFinite, FS_Subset
    <2>3. \A q \in S : g[q] = 0
      BY <1>2, <2>1
    <2> HIDE DEF S, g
    <2>4. Total(g, S) = 0
      BY <2>2, <2>3, TotalZero
    <2> QED
      BY <1>2, <1>3, <2>4, SumIsTotal DEF S
  <1> QED
    BY <1>3 DEF MemoryAddsUp

LEMMA MemoryNext ==
  ASSUME HealthInv, MemoryAddsUp, [HealthNext]_<<chainVars, healthVars>>
  PROVE  MemoryAddsUp'
  <1>1. Chains \/ Build \/ Walks \/ Asks \/ Idles
    BY StepKinds DEF HealthInv
  <1>2. ASSUME cell' = cell PROVE MemoryAddsUp'
    BY <1>2 DEF MemoryAddsUp, LeavesUnder, Leaves
  <1>3. CASE Walks
    <2>1. PICK n \in Nodes, h \in BOOLEAN : SetNodeStatus(n, h)
      BY <1>3 DEF Walks
    <2>2. CASE Built
      BY <2>1, <2>2, MemoryWalk DEF HealthInv
    <2>3. CASE ~ Built
      BY <1>2, <2>1, <2>3, WalkOfNothing DEF HealthInv
    <2> QED
      BY <2>2, <2>3
  <1> QED
    BY <1>1, <1>2, <1>3, MemoryBuild DEF Chains, Asks, Idles, healthVars

(* However often nodes went and came back, and whatever Prometheus answered,  *)
(* a cell's memory is that of the leaf cells below it.                        *)
THEOREM MemoryAlwaysAddsUp == HealthSpec => []MemoryAddsUp
  <1>1. HealthInit => MemoryAddsUp
    BY DEF HealthInit, MemoryAddsUp
  <1> QED
    BY <1>1, HealthInvariant, MemoryNext, PTL DEF HealthSpec


-----------------------------------------------------------------------------
(* The order in which a walk comes to the leaf cells. *)

LEMMA PoppedIs ==
  ASSUME NEW p \in Path, NEW q \in Path
  PROVE  PoppedBefore(q, p) <=>
           /\ q[1] = p[1]
           /\ \E k \in 1..Len(p) : k <= Len(q) /\ q[k] > p[k] /\ \A i \in 1..k - 1 : q[i] = p[i]
  <1>1. /\ p \in Seq(Nat) /\ q \in Seq(Nat) /\ Len(p) \in Nat /\ Len(q) \in Nat
        /\ DOMAIN p = 1..Len(p) /\ DOMAIN q = 1..Len(q)
    BY PathType
  <1>2. ASSUME NEW k \in DOMAIN p \cap DOMAIN q
        PROVE  SubSeq(q, 1, k - 1) = SubSeq(p, 1, k - 1) <=> \A i \in 1..k - 1 : q[i] = p[i]
    <2> DEFINE j == k - 1
               s == SubSeq(q, 1, j)
               t == SubSeq(p, 1, j)
    <2>1. j \in Nat /\ \A i \in 1..j : q[i] \in Nat /\ p[i] \in Nat
      BY <1>1
    <2> HIDE DEF j
    <2>2. s \in Seq(Nat) /\ Len(s) = j /\ \A i \in 1..j : s[i] = q[i]
      <3>1. s \in Seq(Nat) /\ Len(s) = (IF 1 <= j THEN j - 1 + 1 ELSE 0)
            /\ \A i \in 1..j - 1 + 1 : s[i] = q[1 + i - 1]
        BY <2>1, SubSeqProperties
      <3> HIDE DEF s
      <3> QED
        BY <2>1, <3>1
    <2>3. t \in Seq(Nat) /\ Len(t) = j /\ \A i \in 1..j : t[i] = p[i]
      <3>1. t \in Seq(Nat) /\ Len(t) = (IF 1 <= j THEN j - 1 + 1 ELSE 0)
            /\ \A i \in 1..j - 1 + 1 : t[i] = p[1 + i - 1]
        BY <2>1, SubSeqProperties
      <3> HIDE DEF t
      <3> QED
        BY <2>1, <3>1
    <2> HIDE DEF s, t
    <2>4. s = t <=> \A i \in 1..j : s[i] = t[i]
      BY <2>2, <2>3, SeqEqual
    <2> QED
      BY <2>2, <2>3, <2>4 DEF s, t, j
  <1>3. \A k : k \in DOMAIN p \cap DOMAIN q <=> k \in 1..Len(p) /\ k <= Len(q)
    BY <1>1
  <1>4. PoppedBefore(q, p) <=>
          /\ q[1] = p[1]
          /\ \E k \in DOMAIN p \cap DOMAIN q : q[k] > p[k] /\ \A i \in 1..k - 1 : q[i] = p[i]
    BY <1>2, Zenon DEF PoppedBefore
  <1> QED
    BY <1>3, <1>4, Zenon

(* It is a strict order, and total on paths none of which begins another. *)
LEMMA PoppedOrder ==
  /\ \A p \in Path : ~ PoppedBefore(p, p)
  /\ \A a, b, c \in Path : PoppedBefore(a, b) /\ PoppedBefore(b, c) => PoppedBefore(a, c)
  /\ \A p, q \in Path : p[1] = q[1] /\ ~ IsPrefix(p, q) /\ ~ IsPrefix(q, p)
       => PoppedBefore(p, q) \/ PoppedBefore(q, p)
  <1>1. ASSUME NEW p \in Path, PoppedBefore(p, p) PROVE FALSE
    <2>1. PICK k \in 1..Len(p) : p[k] > p[k]
      BY <1>1, PoppedIs
    <2>2. p[k] \in Nat
      BY PathType
    <2> QED
      BY <2>1, <2>2
  <1>2. ASSUME NEW a \in Path, NEW b \in Path, NEW c \in Path, PoppedBefore(a, b), PoppedBefore(b, c)
        PROVE  PoppedBefore(a, c)
    <2>1. PICK k \in 1..Len(b) : k <= Len(a) /\ a[k] > b[k] /\ \A i \in 1..k - 1 : a[i] = b[i]
      BY <1>2, PoppedIs
    <2>2. PICK j \in 1..Len(c) : j <= Len(b) /\ b[j] > c[j] /\ \A i \in 1..j - 1 : b[i] = c[i]
      BY <1>2, PoppedIs
    <2>3. /\ Len(a) \in Nat /\ Len(b) \in Nat /\ Len(c) \in Nat
          /\ \A i \in 1..Len(a) : a[i] \in Nat
          /\ \A i \in 1..Len(b) : b[i] \in Nat
          /\ \A i \in 1..Len(c) : c[i] \in Nat
      <3>1. \A x \in Path : Len(x) \in Nat /\ \A i \in 1..Len(x) : x[i] \in Nat
        <4> TAKE x \in Path
        <4>1. x \in Seq(Nat) /\ Len(x) \in Nat
          BY PathType
        <4> QED
          BY <4>1, ElementOfSeq
      <3> QED
        BY <3>1
    <2>4. a[1] = c[1]
      BY <1>2, PoppedIs
    <2>5. \E l \in 1..Len(c) : l <= Len(a) /\ a[l] > c[l] /\ \A i \in 1..l - 1 : a[i] = c[i]
      <3>1. CASE k < j
        <4>1. k \in 1..Len(c) /\ b[k] = c[k] /\ \A i \in 1..k - 1 : a[i] = c[i]
          BY <2>1, <2>2, <2>3, <3>1
        <4> QED
          BY <2>1, <4>1
      <3>2. CASE k = j
        <4>1. a[j] > c[j]
          <5>1. a[j] \in Nat /\ b[j] \in Nat /\ c[j] \in Nat
            BY <2>1, <2>2, <2>3, <3>2
          <5> QED
            BY <5>1, <2>1, <2>2, <3>2
        <4>2. \A i \in 1..j - 1 : a[i] = c[i]
          BY <2>1, <2>2, <3>2
        <4> QED
          BY <2>1, <3>2, <4>1, <4>2
      <3>3. CASE j < k
        <4>1. j <= Len(a) /\ a[j] = b[j] /\ \A i \in 1..j - 1 : a[i] = c[i]
          BY <2>1, <2>2, <2>3, <3>3
        <4> QED
          BY <2>2, <4>1
      <3> QED
        BY <2>3, <3>1, <3>2, <3>3
    <2> QED
      BY <2>4, <2>5, PoppedIs
  <1>3. ASSUME NEW p \in Path, NEW q \in Path, p[1] = q[1], ~ IsPrefix(p, q), ~ IsPrefix(q, p)
        PROVE  PoppedBefore(p, q) \/ PoppedBefore(q, p)
    <2>1. /\ Len(p) \in Nat \ {0} /\ Len(q) \in Nat \ {0}
          /\ p \in Seq(Nat) /\ q \in Seq(Nat)
          /\ \A i \in 1..Len(p) : p[i] \in Nat
          /\ \A i \in 1..Len(q) : q[i] \in Nat
      BY PathType
    <2> DEFINE D == {k \in 1..Len(p) : k <= Len(q) /\ p[k] # q[k]}
    <2>2. D # {}
      <3>1. ASSUME NEW a \in Path, NEW b \in Path, Len(a) <= Len(b), \A i \in 1..Len(a) : a[i] = b[i]
            PROVE  IsPrefix(a, b)
        <4>1. Len(a) \in DOMAIN b /\ Len(a) \in Nat
          BY <3>1, PathType
        <4>2. /\ SubSeq(b, 1, Len(a)) \in Path /\ Len(SubSeq(b, 1, Len(a))) = Len(a)
              /\ \A i \in 1..Len(a) : SubSeq(b, 1, Len(a))[i] = b[i]
          BY <4>1, PrefixFacts
        <4> DEFINE s == SubSeq(b, 1, Len(a))
        <4> HIDE DEF s
        <4>3. s \in Seq(Nat) /\ a \in Seq(Nat) /\ Len(s) = Len(a) /\ \A i \in 1..Len(a) : s[i] = a[i]
          BY <3>1, <4>2, PathType DEF s
        <4>4. s = a
          BY <4>3, SeqEqual
        <4> QED
          BY <4>1, <4>4, PrefixIsSubSeq DEF s
      <3>2. SUFFICES ASSUME D = {} PROVE FALSE
        OBVIOUS
      <3>3. \A k \in 1..Len(p) : k <= Len(q) => p[k] = q[k]
        BY <3>2
      <3>4. CASE Len(p) <= Len(q)
        BY <1>3, <2>1, <3>1, <3>3, <3>4
      <3>5. CASE Len(q) <= Len(p)
        BY <1>3, <2>1, <3>1, <3>3, <3>5
      <3> QED
        BY <2>1, <3>4, <3>5
    <2>3. PICK k \in D : \A j \in D : k <= j
      <3>1. D \in SUBSET Nat
        BY <2>1
      <3> HIDE DEF D
      <3> QED
        BY <2>2, <3>1, LeastNatural
    <2>4. \A i \in 1..k - 1 : p[i] = q[i]
      BY <2>1, <2>3
    <2>5. p[k] > q[k] \/ q[k] > p[k]
      BY <2>1
    <2> QED
      BY <1>3, <2>1, <2>4, <2>5, PoppedIs
  <1> QED
    BY <1>1, <1>2, <1>3


(* The leaf cells of one root have different ranks, none of them greater than *)
(* the number of its leaf cells.                                              *)
LEMMA Ranks ==
  ASSUME TreeInv, Built, NEW n \in Nodes, NEW h \in BOOLEAN, NEW p \in FreeLeaves(n, h)
  PROVE  /\ Rank(n, h, p) <= Cardinality(LeavesUnder(<<p[1]>>))
         /\ \A q \in FreeLeaves(n, h) : q[1] = p[1] /\ q # p => Rank(n, h, q) # Rank(n, h, p)
  <1> DEFINE F == FreeLeaves(n, h)
             Before(q) == {r \in F : PoppedBefore(r, q)}
             L == LeavesUnder(<<p[1]>>)
  <1>1. ChainInv /\ ChainsBuilt
        /\ \A q \in F : q \in Leaves /\ q \in Cells /\ q \in Path /\ LevelOf(q) = 1
    <2>1. ChainInv /\ ChainsBuilt /\ DOMAIN cell = Cells
          /\ Leaves = {q \in Cells : LevelOf(q) = 1} /\ \A q \in Cells : q \in Path
      BY Tree
    <2>2. F \subseteq Leaves
      BY <2>1 DEF FreeLeaves, Reached, Leaves
    <2> QED
      BY <2>1, <2>2
  <1>2. \A q \in F : IsFiniteSet(Before(q)) /\ Cardinality(Before(q)) \in Nat
    <2>1. \A q \in F : Before(q) \in SUBSET Cells
      BY <1>1
    <2> QED
      BY <2>1, CellsFinite, FS_Subset, FS_CardinalityType
  <1>3. \A q \in F : Rank(n, h, q) = 1 + Cardinality(Before(q))
    BY DEF Rank
  <1>4. \A q, r \in F : q # r => ~ IsPrefix(q, r)
    BY <1>1, LeavesApart
  <1>5. Rank(n, h, p) <= Cardinality(L)
    <2>1. p \in L /\ \A q \in F : q[1] = p[1] => q \in L
      <3>1. ASSUME NEW q \in F, q[1] = p[1] PROVE q \in L
        <4>1. 1 \in DOMAIN q /\ <<p[1]>> = SubSeq(q, 1, 1) /\ q \in Path
          BY <1>1, <3>1, PathType
        <4>2. IsPrefix(<<p[1]>>, q)
          BY <4>1, PrefixFacts
        <4> QED
          BY <1>1, <4>2 DEF LeavesUnder
      <3> QED
        BY <3>1
    <2>2. IsFiniteSet(L)
      BY LeavesUnderType
    <2>3. Before(p) \in SUBSET (L \ {p})
      BY <1>1, <2>1, PoppedOrder, PoppedIs
    <2>4. IsFiniteSet(L \ {p}) /\ Cardinality(L \ {p}) = Cardinality(L) - 1 /\ Cardinality(L) \in Nat
      BY <2>1, <2>2, FS_RemoveElement, FS_CardinalityType
    <2>5. Cardinality(Before(p)) <= Cardinality(L \ {p})
      BY <2>3, <2>4, FS_Subset
    <2> HIDE DEF Before, L, F
    <2>6. Cardinality(Before(p)) \in Nat
      BY <1>2 DEF F
    <2> QED
      BY <1>3, <2>4, <2>5, <2>6 DEF F
  <1>6. ASSUME NEW q \in F, NEW r \in F, PoppedBefore(q, r) PROVE Rank(n, h, q) # Rank(n, h, r)
    <2>1. Before(q) \in SUBSET Before(r)
      BY <1>1, <1>6, PoppedOrder
    <2>2. q \in Before(r) /\ q \notin Before(q)
      BY <1>1, <1>6, PoppedOrder
    <2>3. Cardinality(Before(q)) # Cardinality(Before(r))
      <3> HIDE DEF Before
      <3> QED
        BY <1>2, <2>1, <2>2, FS_Subset
    <2> HIDE DEF Before
    <2> QED
      BY <1>2, <1>3, <2>3
  <1>7. ASSUME NEW q \in F, q[1] = p[1], q # p PROVE Rank(n, h, q) # Rank(n, h, p)
    <2>1. PoppedBefore(q, p) \/ PoppedBefore(p, q)
      BY <1>1, <1>4, <1>7, PoppedOrder
    <2> QED
      BY <1>6, <2>1
  <1> QED
    BY <1>5, <1>7


-----------------------------------------------------------------------------
(* The health of the cells below one root. *)

(* Some node has GPUs of the model. *)
Known(m) == \E n \in Nodes : DevicesOf(n, m) # {}

(* A root that is FREE has no healthy cell, one that is not is of a model     *)
(* that there is; and when it is a node's, its cells are healthy together.    *)
StateInv ==
  Built => \A p \in Cells : LET root == cell[<<p[1]>>] IN
    /\ root.state = "FREE" => ~ cell[p].healthy
    /\ root.state = "FILLED" => Known(LeafType(p))
    /\ RootsAreNodes => cell[p].healthy = root.healthy

LEMMA CellsOfRoot ==
  ASSUME TreeInv, Built, NEW p \in Cells
  PROVE  /\ <<p[1]>> \in Cells /\ LeafType(<<p[1]>>) = LeafType(p) /\ IsPrefix(<<p[1]>>, p)
         /\ <<p[1]>>[1] = p[1] /\ <<p[1]>> \in Path /\ p \in Path
         /\ \A k \in DOMAIN p : SubSeq(p, 1, k) \in Cells /\ SubSeq(p, 1, k)[1] = p[1]
         /\ \A q \in Cells : q[1] = p[1] => LeafType(q) = LeafType(p)
  <1>1. /\ p \in Path /\ <<p[1]>> \in Cells /\ LeafType(<<p[1]>>) = LeafType(p)
        /\ \A k \in DOMAIN p : SubSeq(p, 1, k) \in Cells
    BY Tree
  <1>2. 1 \in DOMAIN p /\ SubSeq(p, 1, 1) = <<p[1]>>
    BY <1>1, PathType
  <1>3. /\ \A k \in DOMAIN p : SubSeq(p, 1, k)[1] = p[1]
        /\ IsPrefix(SubSeq(p, 1, 1), p)
    BY <1>1, <1>2, PrefixFacts
  <1>4. \A q \in Cells : LeafType(<<q[1]>>) = LeafType(q)
    BY Tree
  <1>5. <<p[1]>> \in Path /\ <<p[1]>>[1] = p[1]
    BY <1>1, Tree
  <1> QED
    BY <1>1, <1>2, <1>3, <1>4, <1>5

LEMMA NodeOfRoot ==
  ASSUME TreeInv, Built, RootsAreNodes, NEW p \in Cells, Known(LeafType(p))
  PROVE  cell[p].node # NoNode /\ cell[p].node = cell[<<p[1]>>].node
  <1>1. p \in DOMAIN cell /\ cell[p].leafCellType = LeafType(p)
    BY Tree
  <1>2. PICK n \in Nodes : DevicesOf(n, LeafType(p)) # {}
    BY DEF Known
  <1> QED
    BY <1>1, <1>2 DEF RootsAreNodes

(* A walk from a FREE root is made only for a model that the node has. *)
LEMMA ReachedRoot ==
  ASSUME TreeInv, Built, InfoInv, NEW n \in Nodes, NEW h \in BOOLEAN, NEW p \in Reached(n, h)
  PROVE  /\ p \in Cells /\ <<p[1]>> \in Reached(n, h)
         /\ cell[<<p[1]>>].healthy # h /\ cell[p].healthy # h
         /\ cell[<<p[1]>>].node \in {n, NoNode}
         /\ cell[<<p[1]>>].state = "FREE" =>
              /\ gpuInfos[n][LeafType(p)] = Answer(n, LeafType(p))
              /\ DevicesOf(n, LeafType(p)) # {}
  <1>1. p \in Cells
    BY Tree DEF Reached
  <1>2. /\ p \in Path /\ <<p[1]>> \in Cells /\ LeafType(<<p[1]>>) = LeafType(p)
        /\ <<p[1]>> \in Path /\ IsPrefix(<<p[1]>>, p)
    BY <1>1, CellsOfRoot
  <1>3. cell[<<p[1]>>].leafCellType = LeafType(p) /\ LeafType(p) \in Models
    BY <1>1, <1>2, Tree
  <1>4. <<p[1]>> \in Reached(n, h)
    BY <1>2, ReachedAbove
  <1>5. /\ Len(p) \in DOMAIN p /\ SubSeq(p, 1, Len(p)) = p
        /\ 1 \in DOMAIN p /\ SubSeq(p, 1, 1) = <<p[1]>>
    BY <1>2, PathType
  <1>6. \A k \in DOMAIN p : LET here == cell[SubSeq(p, 1, k)] IN OnTheWay(here, n) /\ here.healthy # h
    BY DEF Reached
  <1>7. cell[p].healthy # h /\ cell[<<p[1]>>].healthy # h /\ cell[<<p[1]>>].node \in {n, NoNode}
    BY <1>5, <1>6 DEF OnTheWay
  <1>8. ASSUME cell[<<p[1]>>].state = "FREE"
        PROVE  gpuInfos[n][LeafType(p)] = Answer(n, LeafType(p)) /\ DevicesOf(n, LeafType(p)) # {}
    <2>1. gpuInfos[n][LeafType(p)] # <<>>
      BY <1>3, <1>8 DEF Reached
    <2>2. gpuInfos[n][LeafType(p)] \in {<<>>, Answer(n, LeafType(p))}
      BY <1>3 DEF InfoInv
    <2>3. DevicesOf(n, LeafType(p)) # {}
      BY <1>3, <2>1, <2>2, AnswerFacts
    <2> QED
      BY <2>1, <2>2, <2>3
  <1> QED
    BY <1>1, <1>4, <1>7, <1>8

(* Of a root that is a node's, a walk reaches every cell or none. *)
LEMMA ReachedTogether ==
  ASSUME TreeInv, Built, InfoInv, StateInv, RootsAreNodes,
         NEW n \in Nodes, NEW h \in BOOLEAN, NEW p \in Cells
  PROVE  /\ p \in Reached(n, h) <=> <<p[1]>> \in Reached(n, h)
         /\ p \in Reached(n, h) => Known(LeafType(p)) /\ cell[p].node = n
  <1>1. /\ p \in Path /\ <<p[1]>> \in Cells /\ LeafType(<<p[1]>>) = LeafType(p) /\ <<p[1]>>[1] = p[1]
        /\ \A k \in DOMAIN p : SubSeq(p, 1, k) \in Cells /\ SubSeq(p, 1, k)[1] = p[1]
        /\ \A q \in Cells : q[1] = p[1] => LeafType(q) = LeafType(p)
    BY CellsOfRoot
  <1>2. ASSUME <<p[1]>> \in Reached(n, h)
        PROVE  Known(LeafType(p)) /\ cell[p].node = n /\ p \in Reached(n, h)
    <2>1. /\ cell[<<p[1]>>].healthy # h /\ cell[<<p[1]>>].node \in {n, NoNode}
          /\ cell[<<p[1]>>].state = "FREE" => DevicesOf(n, LeafType(p)) # {}
      BY <1>1, <1>2, ReachedRoot
    <2>2. Known(LeafType(p))
      <3>1. cell[<<p[1]>>].state \in {"FREE", "FILLED"}
        BY <1>1, Tree, RecordFields
      <3> QED
        BY <2>1, <3>1 DEF StateInv, Known
    <2>3. \A q \in Cells : q[1] = p[1] => cell[q].node = n
      <3>1. ASSUME NEW q \in Cells, q[1] = p[1] PROVE cell[q].node = n
        <4>1. LeafType(q) = LeafType(p)
          BY <1>1, <3>1
        <4>2. cell[q].node # NoNode /\ cell[q].node = cell[<<p[1]>>].node
          BY <2>2, <3>1, <4>1, NodeOfRoot
        <4> QED
          BY <2>1, <4>2
      <3> QED
        BY <3>1
    <2>4. \A q \in Cells : q[1] = p[1] => cell[q].healthy # h
      BY <2>1 DEF StateInv
    <2>5. \A k \in DOMAIN p : LET here == cell[SubSeq(p, 1, k)] IN OnTheWay(here, n) /\ here.healthy # h
      BY <1>1, <2>3, <2>4 DEF OnTheWay
    <2>6. cell[<<p[1]>>].state = "FREE" => gpuInfos[n][cell[<<p[1]>>].leafCellType] # <<>>
      BY <1>1, <1>2 DEF Reached
    <2>7. p \in Reached(n, h)
      BY <2>5, <2>6, Tree DEF Reached
    <2> QED
      BY <1>1, <2>2, <2>3, <2>7
  <1>3. ASSUME p \in Reached(n, h) PROVE <<p[1]>> \in Reached(n, h)
    BY <1>3, ReachedRoot
  <1> QED
    BY <1>2, <1>3

LEMMA StaticPrime ==
  ASSUME TreeInv, Built, TreeInv', Built', UNCHANGED elements, Leaves' = Leaves,
         \A p : LeavesUnder(p)' = LeavesUnder(p)
  PROVE  /\ RootsAreNodes' <=> RootsAreNodes
         /\ CellsHaveGPUs' <=> CellsHaveGPUs
         /\ \A p \in Cells : cell'[p].node = cell[p].node /\ cell'[p].leafCellType = cell[p].leafCellType
  <1>1. DOMAIN cell = Cells /\ DOMAIN cell' = Cells
    BY DEF TreeInv
  <1>2. ASSUME NEW p \in Cells
        PROVE  cell'[p].node = cell[p].node /\ cell'[p].leafCellType = cell[p].leafCellType
    <2>1. cell[p] \in CellRecord(p) /\ cell'[p] \in CellRecord(p)
      BY RecordsStay DEF TreeInv
    <2> QED
      BY <2>1, RecordFields
  <1>3. \A p \in Cells : <<p[1]>> \in Cells
    BY Tree
  <1>4. RootsAreNodes' <=> RootsAreNodes
    BY <1>1, <1>2, <1>3 DEF RootsAreNodes
  <1>5. Roots' = Roots /\ Roots \subseteq Cells
    BY <1>1 DEF Roots
  <1>6. CellsHaveGPUs' <=> CellsHaveGPUs
    BY <1>2, <1>5 DEF CellsHaveGPUs
  <1> QED
    BY <1>2, <1>4, <1>6


LEMMA StateWalk ==
  ASSUME TreeInv, Built, InfoInv, LeafInv, StateInv,
         NEW n \in Nodes, NEW h \in BOOLEAN, SetNodeStatus(n, h), UNCHANGED <<chainVars, gpuInfos>>
  PROVE  StateInv'
  <1>1. TreeInv'
    BY TreeNext DEF Walks
  <1> SUFFICES ASSUME Built', NEW p \in Cells
               PROVE  LET root == cell'[<<p[1]>>] IN
                      /\ root.state = "FREE" => ~ cell'[p].healthy
                      /\ root.state = "FILLED" => Known(LeafType(p))
                      /\ RootsAreNodes' => cell'[p].healthy = root.healthy
    BY RecordsStay DEF StateInv, chainVars
  <1> DEFINE r == <<p[1]>>
  <1>2. r \in Cells /\ LeafType(r) = LeafType(p)
    BY CellsOfRoot
  <1>3. RootsAreNodes' <=> RootsAreNodes
    BY <1>1, WalkKeepsLeaves, StaticPrime DEF chainVars
  <1>4. /\ \A q \in Cells \ Reached(n, h) : cell'[q] = cell[q]
        /\ \A q \in Reached(n, h) :
             /\ cell'[q].healthy = h
             /\ cell'[q].state = IF cell[<<q[1]>>].state = "FREE" THEN "FILLED" ELSE cell[q].state
    BY WalkChanges
  <1>5. /\ cell[r].state = "FREE" => ~ cell[p].healthy
        /\ cell[r].state = "FILLED" => Known(LeafType(p))
        /\ RootsAreNodes => cell[p].healthy = cell[r].healthy
    BY DEF StateInv
  <1>6. cell[r].state \in {"FREE", "FILLED"}
    BY <1>2, Tree, RecordFields
  <1>7. <<r[1]>> = r
    BY CellsOfRoot
  <1> HIDE DEF r
  <1>8. CASE r \in Reached(n, h)
    <2>1. cell'[r].state = "FILLED" /\ cell'[r].healthy = h
      BY <1>4, <1>6, <1>7, <1>8
    <2>2. Known(LeafType(p))
      <3>1. CASE cell[r].state = "FREE"
        <4>1. DevicesOf(n, LeafType(r)) # {}
          BY <1>7, <1>8, <3>1, ReachedRoot
        <4> QED
          BY <1>2, <4>1 DEF Known
      <3> QED
        BY <1>5, <1>6, <3>1
    <2>3. RootsAreNodes => cell'[p].healthy = h
      <3>1. RootsAreNodes => p \in Reached(n, h)
        BY <1>8, ReachedTogether DEF r
      <3> QED
        BY <1>4, <3>1
    <2> QED
      BY <1>3, <2>1, <2>2, <2>3 DEF r
  <1>9. CASE r \notin Reached(n, h)
    <2>1. p \notin Reached(n, h)
      BY <1>9, ReachedRoot DEF r
    <2>2. cell'[p] = cell[p] /\ cell'[r] = cell[r]
      BY <1>2, <1>4, <1>9, <2>1
    <2> QED
      BY <1>3, <1>5, <2>2 DEF r
  <1> QED
    BY <1>8, <1>9

LEMMA StateNext ==
  ASSUME HealthInv, StateInv, [HealthNext]_<<chainVars, healthVars>>
  PROVE  StateInv'
  <1>1. Chains \/ Build \/ Walks \/ Asks \/ Idles
    BY StepKinds DEF HealthInv
  <1>2. ASSUME UNCHANGED <<chainVars, cell>> PROVE StateInv'
    BY <1>2, RecordsStay DEF StateInv, RootsAreNodes, Built, chainVars
  <1>3. CASE Chains
    BY <1>3 DEF StateInv, Chains, healthVars, Built
  <1>4. CASE Build
    <2>1. cell' = [p \in Cells |-> NewCell(p)] /\ UNCHANGED chainVars
      BY <1>4 DEF Build
    <2>2. \A p \in Cells : cell'[p].healthy = FALSE /\ cell'[p].state = "FREE"
      BY <2>1 DEF NewCell
    <2>3. \A p \in Cells : <<p[1]>> \in Cells
      <3>1. TreeInv' /\ ChainInv /\ ChainsBuilt
        BY <1>4, BuildTree DEF HealthInv, TreeInv, Build
      <3>2. ASSUME NEW p \in Cells PROVE <<p[1]>> \in Cells
        <4>1. 1 \in DOMAIN p /\ SubSeq(p, 1, 1) = <<p[1]>>
          BY CellInRow, PathType
        <4> QED
          BY <3>1, <4>1, CellsAbove
      <3> QED
        BY <3>2
    <2> QED
      BY <2>2, <2>3 DEF StateInv
  <1>5. CASE Walks
    <2>1. PICK n \in Nodes, h \in BOOLEAN : SetNodeStatus(n, h) /\ UNCHANGED <<chainVars, gpuInfos>>
      BY <1>5 DEF Walks
    <2>2. CASE Built
      BY <2>1, <2>2, StateWalk DEF HealthInv
    <2>3. CASE ~ Built
      BY <1>2, <2>1, <2>3, WalkOfNothing DEF HealthInv
    <2> QED
      BY <2>2, <2>3
  <1> QED
    BY <1>1, <1>2, <1>3, <1>4, <1>5 DEF Asks, Idles

LEMMA StateInit == HealthInit => StateInv
  BY DEF HealthInit, StateInv, Built

LEMMA OfferedFromState ==
  ASSUME HealthInv, StateInv
  PROVE  HealthyIsOffered
  <1> SUFFICES ASSUME RootsAreNodes, NEW n \in Nodes, NEW p \in Leaves
               PROVE  p \in getLeafCellbyNode(n) <=> cell[p].node = n /\ cell[p].healthy
    BY DEF HealthyIsOffered, getLeafCellbyNode
  <1>1. Built
    BY DEF Leaves, Built
  <1>2. p \in Cells /\ TreeInv
    BY <1>1, Tree DEF HealthInv
  <1>3. /\ p \in Path /\ <<p[1]>> \in Cells
        /\ \A k \in DOMAIN p : SubSeq(p, 1, k) \in Cells /\ SubSeq(p, 1, k)[1] = p[1]
        /\ \A q \in Cells : q[1] = p[1] => LeafType(q) = LeafType(p)
    BY <1>1, <1>2, CellsOfRoot
  <1>4. Len(p) \in DOMAIN p /\ SubSeq(p, 1, Len(p)) = p
    BY <1>3, PathType
  <1>5. p \in getLeafCellbyNode(n) <=>
          \A k \in DOMAIN p : LET q == SubSeq(p, 1, k) IN cell[q].healthy /\ cell[q].node \in {n, NoNode}
    BY DEF getLeafCellbyNode
  <1>6. ASSUME cell[p].healthy PROVE Known(LeafType(p))
    <2>1. cell[<<p[1]>>].state \in {"FREE", "FILLED"}
      BY <1>1, <1>2, <1>3, Tree, RecordFields
    <2> QED
      BY <1>1, <1>2, <1>6, <2>1 DEF StateInv
  <1>7. ASSUME p \in getLeafCellbyNode(n) PROVE cell[p].node = n /\ cell[p].healthy
    <2>1. cell[p].healthy /\ cell[p].node \in {n, NoNode}
      BY <1>4, <1>5, <1>7
    <2> QED
      BY <1>1, <1>2, <1>6, <2>1, NodeOfRoot
  <1>8. ASSUME cell[p].node = n, cell[p].healthy PROVE p \in getLeafCellbyNode(n)
    <2>1. \A q \in Cells : q[1] = p[1] => cell[q].node = cell[p].node
      BY <1>1, <1>2, <1>3, <1>6, <1>8, NodeOfRoot
    <2>2. \A q \in Cells : q[1] = p[1] => cell[q].healthy = cell[p].healthy
      BY <1>1, <1>2 DEF StateInv
    <2> QED
      BY <1>3, <1>5, <1>8, <2>1, <2>2
  <1> QED
    BY <1>7, <1>8

(* Whatever came when, the search for a node's cells finds every healthy GPU  *)
(* of the node and no other.                                                  *)
THEOREM HealthyAlwaysOffered == HealthSpec => []HealthyIsOffered
  <1>1. HealthInit => HealthInv /\ StateInv
    BY HealthInitInv, StateInit
  <1>2. (HealthInv /\ StateInv) /\ [HealthNext]_<<chainVars, healthVars>> => (HealthInv /\ StateInv)'
    BY HealthNextInv, StateNext
  <1>3. HealthInv /\ StateInv => HealthyIsOffered
    BY OfferedFromState
  <1> QED
    BY <1>1, <1>2, <1>3, PTL DEF HealthSpec


-----------------------------------------------------------------------------
(* The GPUs of the leaf cells. *)

(* When no cell is short of GPUs, each leaf cell of a root that is not FREE   *)
(* has one of its own: one of its node, that is found by its uuid.            *)
GpuInv ==
  Built /\ RootsAreNodes /\ CellsHaveGPUs =>
    \A p \in Leaves : cell[<<p[1]>>].state = "FILLED" =>
      /\ cell[p].node \in Nodes
      /\ \E g \in DevicesOf(cell[p].node, LeafType(p)) : cell[p].uuid = g.uuid
      /\ leafCells[cell[p].uuid] = p

LEMMA SameDevice ==
  ASSUME NEW m \in Nodes, NEW n \in Nodes, NEW s, NEW t,
         NEW g \in DevicesOf(m, s), NEW h \in DevicesOf(n, t), g.uuid = h.uuid
  PROVE  m = n /\ g = h /\ s = t
  <1>1. g \in ToSet(getDevices(m)) /\ g.model = s /\ h \in ToSet(getDevices(n)) /\ h.model = t
    BY DEF DevicesOf
  <1> QED
    BY <1>1, HealthAssumption

LEMMA OneRoot ==
  ASSUME TreeInv, Built, RootsAreNodes, CellsHaveGPUs, NEW p \in Cells, NEW q \in Cells,
         LeafType(p) = LeafType(q), Known(LeafType(p)),
         cell[p].node = cell[q].node, cell[p].node \in Nodes
  PROVE  p[1] = q[1]
  <1>1. /\ <<p[1]>> \in Cells /\ <<q[1]>> \in Cells
        /\ LeafType(<<p[1]>>) = LeafType(p) /\ LeafType(<<q[1]>>) = LeafType(q)
        /\ <<p[1]>>[1] = p[1] /\ <<q[1]>>[1] = q[1]
    BY CellsOfRoot
  <1>2. cell[<<p[1]>>].node = cell[p].node /\ cell[<<q[1]>>].node = cell[q].node
    BY NodeOfRoot
  <1>3. /\ <<p[1]>> \in Roots /\ <<q[1]>> \in Roots
        /\ cell[<<p[1]>>].leafCellType = LeafType(p) /\ cell[<<q[1]>>].leafCellType = LeafType(q)
    BY <1>1, Tree DEF Roots
  <1>4. <<p[1]>> = <<q[1]>>
    BY <1>2, <1>3 DEF CellsHaveGPUs
  <1> QED
    BY <1>1, <1>4

(* A leaf cell that a walk comes to while its root is FREE is given a GPU. *)
LEMMA EachIsGiven ==
  ASSUME TreeInv, Built, InfoInv, StateInv, RootsAreNodes, CellsHaveGPUs,
         NEW n \in Nodes, NEW h \in BOOLEAN, NEW p \in FreeLeaves(n, h)
  PROVE  p \in DOMAIN Given(n, h) /\ cell[p].node = n /\ Known(LeafType(p))
  <1>1. p \in Cells /\ p \in Reached(n, h) /\ cell[<<p[1]>>].state = "FREE"
    BY ReachedRoot DEF FreeLeaves
  <1>2. Known(LeafType(p)) /\ cell[p].node = n
    BY <1>1, ReachedTogether
  <1>3. gpuInfos[n][LeafType(p)] = Answer(n, LeafType(p))
    BY <1>1, ReachedRoot
  <1>4. LeafType(p) \in Models /\ <<p[1]>> \in Cells /\ LeafType(<<p[1]>>) = LeafType(p)
    BY <1>1, Tree
  <1>5. cell[<<p[1]>>].leafCellType = LeafType(p) /\ <<p[1]>> \in Roots
    BY <1>4, Tree DEF Roots
  <1>6. cell[<<p[1]>>].node = n
    BY <1>1, <1>2, NodeOfRoot
  <1>7. Cardinality(LeavesUnder(<<p[1]>>)) <= Cardinality(DevicesOf(n, LeafType(p)))
    BY <1>5, <1>6 DEF CellsHaveGPUs
  <1>8. Rank(n, h, p) <= Cardinality(LeavesUnder(<<p[1]>>)) /\ Rank(n, h, p) \in Nat
    BY Ranks, GivenFacts
  <1>9. /\ Cardinality(LeavesUnder(<<p[1]>>)) \in Nat
        /\ Cardinality(DevicesOf(n, LeafType(p))) \in Nat
        /\ Len(Answer(n, LeafType(p))) = Cardinality(DevicesOf(n, LeafType(p)))
    BY <1>4, LeavesUnderType, FS_CardinalityType, AnswerFacts
  <1>10. Rank(n, h, p) <= Len(gpuInfos[n][LeafType(p)])
    BY <1>3, <1>7, <1>8, <1>9
  <1> QED
    BY <1>2, <1>10, GivenFacts

(* No GPU is given to two leaf cells. *)
LEMMA GivenApart ==
  ASSUME TreeInv, Built, InfoInv, StateInv, RootsAreNodes, CellsHaveGPUs,
         NEW n \in Nodes, NEW h \in BOOLEAN,
         NEW p \in DOMAIN Given(n, h), NEW q \in DOMAIN Given(n, h),
         Given(n, h)[p].uuid = Given(n, h)[q].uuid
  PROVE  p = q
  <1>1. p \in FreeLeaves(n, h) /\ q \in FreeLeaves(n, h)
    BY GivenFacts
  <1>2. /\ p \in Cells /\ q \in Cells /\ cell[p].node = n /\ cell[q].node = n
        /\ Known(LeafType(p)) /\ Known(LeafType(q))
    BY <1>1, EachIsGiven, ReachedRoot DEF FreeLeaves
  <1>3. /\ Given(n, h)[p] \in DevicesOf(n, LeafType(p))
        /\ Given(n, h)[q] \in DevicesOf(n, LeafType(q))
    BY <1>1, GivenFacts
  <1>4. Given(n, h)[p] = Given(n, h)[q] /\ LeafType(p) = LeafType(q)
    BY <1>3, SameDevice
  <1>5. p[1] = q[1]
    BY <1>2, <1>4, OneRoot
  <1> DEFINE a == Answer(n, LeafType(p))
  <1>6. LeafType(p) \in Models
    BY <1>2, Tree
  <1>7. /\ gpuInfos[n][LeafType(p)] = a
        /\ Rank(n, h, p) \in 1..Len(a) /\ Given(n, h)[p] = a[Rank(n, h, p)]
        /\ Rank(n, h, q) \in 1..Len(a) /\ Given(n, h)[q] = a[Rank(n, h, q)]
    <2>1. gpuInfos[n][LeafType(p)] = a
      BY <1>1, ReachedRoot DEF FreeLeaves
    <2> QED
      BY <1>1, <1>4, <2>1, GivenFacts
  <1>8. Rank(n, h, p) = Rank(n, h, q)
    <2>1. \A i, j \in 1..Len(a) : a[i] = a[j] => i = j
      BY <1>6, AnswerFacts
    <2> HIDE DEF a
    <2> QED
      BY <1>4, <1>7, <2>1
  <1> QED
    BY <1>1, <1>5, <1>8, Ranks

LEMMA GpuWalk ==
  ASSUME TreeInv, Built, InfoInv, LeafInv, StateInv, GpuInv,
         NEW n \in Nodes, NEW h \in BOOLEAN, SetNodeStatus(n, h), UNCHANGED <<chainVars, gpuInfos>>
  PROVE  GpuInv'
  <1>1. TreeInv'
    BY TreeNext DEF Walks
  <1>2. Leaves' = Leaves /\ \A p : LeavesUnder(p)' = LeavesUnder(p)
    BY WalkKeepsLeaves
  <1>3. Built' => /\ RootsAreNodes' <=> RootsAreNodes
                  /\ CellsHaveGPUs' <=> CellsHaveGPUs
                  /\ \A p \in Cells : cell'[p].node = cell[p].node
    BY <1>1, <1>2, StaticPrime DEF chainVars
  <1> SUFFICES ASSUME Built', RootsAreNodes, CellsHaveGPUs, NEW p \in Leaves,
                      cell'[<<p[1]>>].state = "FILLED"
               PROVE  /\ cell'[p].node \in Nodes
                      /\ \E g \in DevicesOf(cell'[p].node, LeafType(p)) : cell'[p].uuid = g.uuid
                      /\ leafCells'[cell'[p].uuid] = p
    BY <1>2, <1>3, RecordsStay DEF GpuInv, chainVars
  <1> DEFINE r == <<p[1]>>
  <1>4. p \in Cells /\ r \in Cells /\ LeafType(r) = LeafType(p) /\ cell[p].level = 1
        /\ LeafType(p) \in Models
    BY Tree
  <1>5. /\ \A q \in Cells \ Reached(n, h) : cell'[q] = cell[q]
        /\ \A q \in Reached(n, h) :
             /\ cell'[q].uuid = IF q \in DOMAIN Given(n, h) THEN Given(n, h)[q].uuid ELSE cell[q].uuid
    BY WalkChanges
  <1>6. leafCells' = [u \in UUIDs |->
          IF Holders(n, h, u) = {} THEN leafCells[u] ELSE CHOOSE q \in Holders(n, h, u) : TRUE]
    BY SetNodeStatusIs
  <1>7. cell'[p].node = cell[p].node
    BY <1>3, <1>4
  <1>8. cell[r].state \in {"FREE", "FILLED"}
    BY <1>4, Tree, RecordFields
  <1>9. CASE cell[r].state = "FREE"
    <2>1. r \in Reached(n, h)
      BY <1>4, <1>5, <1>9
    <2>2. p \in FreeLeaves(n, h)
      BY <1>4, <1>9, <2>1, ReachedTogether DEF FreeLeaves
    <2>3. p \in DOMAIN Given(n, h) /\ cell[p].node = n
      BY <2>2, EachIsGiven
    <2>4. /\ Given(n, h)[p] \in DevicesOf(n, LeafType(p)) /\ Given(n, h)[p].uuid \in UUIDs
          /\ p \in Reached(n, h)
      BY <2>2, <2>3, GivenFacts
    <2> DEFINE u == Given(n, h)[p].uuid
    <2>5. cell'[p].uuid = u
      BY <1>5, <2>3, <2>4
    <2>6. Holders(n, h, u) = {p}
      BY <2>3, GivenApart DEF Holders
    <2>7. leafCells'[u] = p
      BY <1>6, <2>4, <2>6
    <2> QED
      BY <1>7, <2>3, <2>4, <2>5, <2>7
  <1>10. CASE cell[r].state = "FILLED"
    <2>1. /\ cell[p].node \in Nodes /\ leafCells[cell[p].uuid] = p
          /\ \E g \in DevicesOf(cell[p].node, LeafType(p)) : cell[p].uuid = g.uuid
      BY <1>10 DEF GpuInv
    <2>2. PICK g \in DevicesOf(cell[p].node, LeafType(p)) : cell[p].uuid = g.uuid
      BY <2>1
    <2>3. p \notin DOMAIN Given(n, h)
      BY <1>10, GivenFacts DEF FreeLeaves
    <2>4. cell'[p].uuid = cell[p].uuid
      BY <1>4, <1>5, <2>3
    <2>5. g.uuid \in UUIDs
      BY <1>4, <2>1, <2>2, AnswerFacts
    <2>6. Holders(n, h, g.uuid) = {}
      <3> SUFFICES ASSUME NEW q \in Holders(n, h, g.uuid) PROVE FALSE
        OBVIOUS
      <3>1. q \in FreeLeaves(n, h) /\ Given(n, h)[q].uuid = g.uuid /\ q \in DOMAIN Given(n, h)
        BY GivenFacts DEF Holders
      <3>2. Given(n, h)[q] \in DevicesOf(n, LeafType(q))
        BY <3>1, GivenFacts
      <3>3. n = cell[p].node /\ LeafType(q) = LeafType(p)
        BY <2>1, <2>2, <3>1, <3>2, SameDevice
      <3>4. q \in Cells /\ cell[q].node = n /\ Known(LeafType(q)) /\ cell[<<q[1]>>].state = "FREE"
        BY <3>1, EachIsGiven, ReachedRoot DEF FreeLeaves
      <3>5. p[1] = q[1]
        BY <1>4, <2>1, <3>3, <3>4, OneRoot
      <3> QED
        BY <1>10, <3>4, <3>5
    <2>7. leafCells'[cell'[p].uuid] = p
      BY <1>6, <2>1, <2>2, <2>4, <2>5, <2>6
    <2> QED
      BY <1>7, <2>1, <2>4, <2>7
  <1> QED
    BY <1>8, <1>9, <1>10


LEMMA GpuNext ==
  ASSUME HealthInv, StateInv, GpuInv, [HealthNext]_<<chainVars, healthVars>>
  PROVE  GpuInv'
  <1>1. Chains \/ Build \/ Walks \/ Asks \/ Idles
    BY StepKinds DEF HealthInv
  <1>2. ASSUME UNCHANGED <<chainVars, cell, leafCells>> PROVE GpuInv'
    <2>1. \A p : LeafType(p)' = LeafType(p)
      BY <1>2, RecordsStay DEF chainVars
    <2>2. (RootsAreNodes' <=> RootsAreNodes) /\ (CellsHaveGPUs' <=> CellsHaveGPUs)
      BY <1>2 DEF RootsAreNodes, CellsHaveGPUs, Roots, LeavesUnder, Leaves
    <2> QED
      BY <1>2, <2>1, <2>2 DEF GpuInv, Leaves, Built
  <1>3. CASE Chains
    BY <1>3 DEF GpuInv, Chains, healthVars, Built
  <1>4. CASE Build
    <2>1. cell' = [p \in Cells |-> NewCell(p)]
      BY <1>4 DEF Build
    <2>2. DOMAIN cell' = Cells /\ \A p \in Cells : cell'[p].state = "FREE"
      BY <2>1 DEF NewCell
    <2>3. \A p \in Cells : <<p[1]>> \in Cells
      <3>1. ChainInv /\ ChainsBuilt
        BY <1>4 DEF HealthInv, TreeInv, Build
      <3>2. ASSUME NEW p \in Cells PROVE <<p[1]>> \in Cells
        <4>1. 1 \in DOMAIN p /\ SubSeq(p, 1, 1) = <<p[1]>>
          BY CellInRow, PathType
        <4> QED
          BY <3>1, <4>1, CellsAbove
      <3> QED
        BY <3>2
    <2>4. Leaves' \subseteq Cells
      BY <2>2 DEF Leaves
    <2> QED
      BY <2>2, <2>3, <2>4 DEF GpuInv
  <1>5. CASE Walks
    <2>1. PICK n \in Nodes, h \in BOOLEAN : SetNodeStatus(n, h) /\ UNCHANGED <<chainVars, gpuInfos>>
      BY <1>5 DEF Walks
    <2>2. CASE Built
      BY <2>1, <2>2, GpuWalk DEF HealthInv
    <2>3. CASE ~ Built
      BY <1>2, <2>1, <2>3, WalkOfNothing DEF HealthInv
    <2> QED
      BY <2>2, <2>3
  <1> QED
    BY <1>1, <1>2, <1>3, <1>4, <1>5 DEF Asks, Idles

LEMMA GpuFromState ==
  ASSUME HealthInv, StateInv, GpuInv
  PROVE  HealthyLeafHasGpu
  <1> SUFFICES ASSUME RootsAreNodes, CellsHaveGPUs, NEW p \in Leaves, cell[p].healthy
               PROVE  /\ cell[p].uuid \in {g.uuid : g \in ToSet(getDevices(cell[p].node))}
                      /\ leafCells[cell[p].uuid] = p
    BY DEF HealthyLeafHasGpu
  <1>1. Built
    BY DEF Leaves, Built
  <1>2. p \in Cells /\ <<p[1]>> \in Cells /\ LeafType(p) \in Models
    BY <1>1, Tree DEF HealthInv
  <1>3. cell[<<p[1]>>].state = "FILLED"
    <2>1. cell[<<p[1]>>].state \in {"FREE", "FILLED"}
      BY <1>1, <1>2, Tree, RecordFields DEF HealthInv
    <2> QED
      BY <1>1, <1>2, <2>1 DEF StateInv
  <1>4. /\ cell[p].node \in Nodes /\ leafCells[cell[p].uuid] = p
        /\ \E g \in DevicesOf(cell[p].node, LeafType(p)) : cell[p].uuid = g.uuid
    BY <1>1, <1>3 DEF GpuInv
  <1> QED
    BY <1>2, <1>4, AnswerFacts

(* However nodes came and went, and whatever Prometheus answered and when: if *)
(* no cell is short of GPUs, a healthy leaf cell has a GPU of its node that   *)
(* no other leaf cell has, since leafCells leads from its uuid back to it.    *)
THEOREM HealthyLeafAlwaysHasGpu == HealthSpec => []HealthyLeafHasGpu
  <1> DEFINE Inv == HealthInv /\ StateInv /\ GpuInv
  <1>1. HealthInit => Inv
    BY HealthInitInv, StateInit DEF GpuInv, HealthInit, Built
  <1>2. Inv /\ [HealthNext]_<<chainVars, healthVars>> => Inv'
    BY HealthNextInv, StateNext, GpuNext
  <1>3. Inv => HealthyLeafHasGpu
    BY GpuFromState
  <1> QED
    BY <1>1, <1>2, <1>3, PTL DEF HealthSpec

-----------------------------------------------------------------------------
(* The ids of the leaf cells. *)

NamedLeaves == {p \in DOMAIN GivenID : TypeOf[p] \in Models /\ GivenID[p] # NoID}

(* If the configuration names leaf cells, it does not name two below a root   *)
(* alike, nor one by a number, which may be another's.                        *)
LeafNamesDiffer ==
  \A p \in NamedLeaves :
    /\ GivenID[p] \notin Nat
    /\ \A q \in NamedLeaves : p[1] = q[1] /\ GivenID[p] = GivenID[q] => p = q

(* The leaf cells of a root are equally deep. *)
LEMMA LeafDepth ==
  ASSUME TreeInv, Built, NEW p \in Leaves
  PROVE  /\ p \in Cells /\ TypeOf[p] \in Models /\ cell[p].id = CellID[p]
         /\ Len(p) \in Nat /\ LevelOf(<<p[1]>>) = Len(p)
  <1>1. p \in Cells /\ LevelOf(p) = 1 /\ ChainInv /\ ChainsBuilt /\ cell[p] \in CellRecord(p)
    BY Tree
  <1>2. cell[p].id = CellID[p]
    BY <1>1, RecordFields
  <1>3. TypeOf[p] \in Models
    BY <1>1, TypeOfCell, CellElements DEF Types
  <1>4. 1 \in DOMAIN p /\ SubSeq(p, 1, 1) = <<p[1]>> /\ Len(p) \in Nat
    BY <1>1, CellInRow, PathType
  <1>5. LevelOf(SubSeq(p, 1, 1)) = LevelOf(p) + (Len(p) - 1)
    BY <1>1, <1>4, CellsAbove
  <1>6. LevelOf(<<p[1]>>) = 1 + (Len(p) - 1)
    BY <1>1, <1>4, <1>5, Zenon
  <1> DEFINE n == Len(p)
  <1>7. n \in Nat => 1 + (n - 1) = n
    OBVIOUS
  <1> HIDE DEF n
  <1>8. LevelOf(<<p[1]>>) = Len(p)
    BY <1>4, <1>6, <1>7, Zenon DEF n
  <1> QED
    BY <1>1, <1>2, <1>3, <1>4, <1>8, Zenon

LEMMA IdsOfLeaves ==
  ASSUME LeafNamesDiffer, HealthInv
  PROVE  GpuIdsDiffer
  <1> SUFFICES ASSUME NEW p \in Leaves, NEW q \in Leaves, p[1] = q[1], p # q
               PROVE  cell[p].id # cell[q].id
    BY DEF GpuIdsDiffer
  <1>1. Built /\ TreeInv
    BY DEF Leaves, Built, HealthInv
  <1>2. /\ p \in Cells /\ TypeOf[p] \in Models /\ cell[p].id = CellID[p]
        /\ q \in Cells /\ TypeOf[q] \in Models /\ cell[q].id = CellID[q] /\ Len(p) = Len(q)
    BY <1>1, LeafDepth
  <1>3. Len(p) # 1
    <2>1. CASE Len(p) = 1
      <3>1. TypeOf[p] \in Configured
        BY <1>2, <2>1, TypeOfCell
      <3> QED
        BY <1>2, <3>1, TypesAssumption
    <2> QED
      BY <2>1
  <1>4. Position(p) \in Nat /\ Position(q) \in Nat
    BY <1>2, <1>3, PlaceInRow
  <1>5. ASSUME OwnPart(p) = OwnPart(q)
        PROVE  OwnPart(p) = Position(p) /\ OwnPart(q) = Position(q)
    <2>1. CASE p \in NamedLeaves
      <3>1. OwnPart(p) = GivenID[p] /\ GivenID[p] \notin Nat
        BY <2>1 DEF OwnPart, NamedLeaves, LeafNamesDiffer
      <3>2. q \in NamedLeaves /\ OwnPart(q) = GivenID[q]
        BY <1>2, <1>4, <1>5, <3>1 DEF OwnPart, NamedLeaves
      <3> QED
        BY <1>5, <2>1, <3>1, <3>2 DEF LeafNamesDiffer
    <2>2. CASE p \notin NamedLeaves
      <3>1. OwnPart(p) = Position(p)
        BY <1>2, <2>2 DEF OwnPart, NamedLeaves
      <3>2. q \notin NamedLeaves
        BY <1>4, <1>5, <3>1 DEF OwnPart, NamedLeaves, LeafNamesDiffer
      <3> QED
        BY <1>2, <3>1, <3>2 DEF OwnPart, NamedLeaves
    <2> QED
      BY <2>1, <2>2
  <1> QED
    BY <1>2, <1>5, IdsOfRow

(* Whatever names the configuration gives to nodes, and twice to one, no two  *)
(* GPUs below a root have the same id: each is numbered along its whole row.  *)
THEOREM GpuIdsAlwaysDiffer ==
  ASSUME LeafNamesDiffer
  PROVE  HealthSpec => []GpuIdsDiffer
  <1>1. HealthInv => GpuIdsDiffer
    BY IdsOfLeaves
  <1> QED
    BY <1>1, HealthInvariant, PTL


-----------------------------------------------------------------------------
(* The GPUs of a cell. *)

LEMMA CapacityCounted ==
  ASSUME ListedInFull, HealthInv
  PROVE  CapacityIsLeaves
  <1> SUFFICES ASSUME NEW p \in DOMAIN cell
               PROVE  cell[p].available = Cardinality(LeavesUnder(p))
    BY DEF CapacityIsLeaves
  <1>1. Built /\ TreeInv
    BY DEF Built, HealthInv
  <1>2. /\ p \in Cells /\ cell[p] \in CellRecord(p) /\ ChainInv /\ ChainsBuilt
        /\ Leaves = {q \in Cells : LevelOf(q) = 1}
    BY <1>1, Tree
  <1>3. cell[p].available = Capacity(p)
    BY <1>2, RecordFields
  <1>4. LeavesUnder(p) = LeafCells(p)
    BY <1>2 DEF LeavesUnder, LeafCells
  <1> QED
    BY <1>2, <1>3, <1>4, LeavesCounted

(* Whatever the types and in whatever order their map was visited: the number *)
(* of GPUs that addCell multiplied out for a cell is the number of leaf cells *)
(* that the tree has below it, if no list of children is short or too long.   *)
THEOREM CapacityAlwaysLeaves ==
  ASSUME ListedInFull
  PROVE  HealthSpec => []CapacityIsLeaves
  <1>1. HealthInv => CapacityIsLeaves
    BY CapacityCounted
  <1> QED
    BY <1>1, HealthInvariant, PTL


-----------------------------------------------------------------------------
(* Division, as int64's. *)

LEMMA DivFacts ==
  ASSUME NEW a \in Int, NEW d \in Nat \ {0}
  PROVE  /\ a \div d \in Int
         /\ d * (a \div d) <= a /\ a < d * (a \div d) + d
  OBVIOUS

LEMMA Cancel ==
  ASSUME NEW d \in Nat \ {0}, NEW x \in Int, NEW y \in Int, d * x < d * y + d
  PROVE  x <= y
  <1> SUFFICES ASSUME x >= y + 1 PROVE FALSE
    OBVIOUS
  <1> DEFINE e == x - (y + 1)
  <1>1. e \in Nat /\ x = e + (y + 1)
    OBVIOUS
  <1>2. d * e \in Nat
    BY <1>1
  <1> HIDE DEF e
  <1>3. d * x = d * e + d * y + d
    BY <1>1
  <1> QED
    BY <1>2, <1>3

LEMMA DivMonotone ==
  ASSUME NEW a \in Int, NEW b \in Int, NEW d \in Nat \ {0}, a <= b
  PROVE  a \div d <= b \div d
  <1> DEFINE x == a \div d
             y == b \div d
  <1>1. x \in Int /\ y \in Int /\ d * x <= a /\ b < d * y + d
    BY DivFacts
  <1> HIDE DEF x, y
  <1>2. d * x \in Int /\ d * y \in Int
    BY <1>1
  <1>3. d * x < d * y + d
    BY <1>1, <1>2
  <1>4. x <= y
    BY <1>1, <1>3, Cancel
  <1> QED
    BY <1>4 DEF x, y

LEMMA TruncatedMonotone ==
  ASSUME NEW a \in Int, NEW b \in Int, NEW d \in Nat \ {0}, a <= b
  PROVE  Truncated(a, d) <= Truncated(b, d)
  <1>1. a \div d \in Int /\ b \div d \in Int /\ (-a) \div d \in Int /\ (-b) \div d \in Int
    BY DivFacts
  <1>2. \A c \in Nat : 0 \div d <= c \div d
    BY DivMonotone
  <1>3. 0 \div d = 0
    OBVIOUS
  <1>4. CASE a < 0 /\ b < 0
    <2>1. (-b) \div d <= (-a) \div d
      BY DivMonotone
    <2> DEFINE x == (-a) \div d
               y == (-b) \div d
    <2>2. Truncated(a, d) = -x /\ Truncated(b, d) = -y
      BY <1>4 DEF Truncated
    <2> HIDE DEF x, y
    <2> QED
      BY <1>1, <2>1, <2>2 DEF x, y
  <1>5. CASE a < 0 /\ b >= 0
    <2>1. -a \in Nat /\ b \in Nat
      BY <1>5
    <2>2. 0 <= (-a) \div d /\ 0 <= b \div d
      BY <1>2, <1>3, <2>1
    <2> DEFINE x == (-a) \div d
               y == b \div d
    <2>3. Truncated(a, d) = -x /\ Truncated(b, d) = y
      BY <1>5 DEF Truncated
    <2> HIDE DEF x, y
    <2> QED
      BY <1>1, <2>2, <2>3 DEF x, y
  <1>6. CASE a >= 0
    <2>1. b >= 0
      BY <1>6
    <2> QED
      BY <1>6, <2>1, DivMonotone DEF Truncated
  <1> QED
    BY <1>4, <1>5, <1>6

-----------------------------------------------------------------------------
(* Score *)

LEMMA SumSeqIsTotal == \A s : SumSeq(s) = Total(s, DOMAIN s)
  BY Zenon DEF SumSeq, FoldFunction, FoldFunctionOnSet, Total, MapThenSumSet

CellsUsed(n, p, w) == [i \in 1..n |-> [id |-> <<i>>, priority |-> p[i], used |-> w[i]]]

OpportunisticSum(n, p, w) == Total([i \in 1..n |-> Whole * p[i] + 100 * w[i]], 1..n)
GuaranteeSum(n, p, w) == Total([i \in 1..n |-> Whole * p[i] - 100 * w[i]], 1..n)
FreeSum(n, w) == Total([i \in 1..n |-> IF w[i] = 0 THEN 1 ELSE 0], 1..n)

LEMMA ScoresAre ==
  ASSUME NEW n \in Nat, NEW p \in [1..n -> Int], NEW w \in [1..n -> 0..Whole]
  PROVE  /\ OpportunisticPodNodeScore(CellsUsed(n, p, w)) =
              IF n = 0 THEN 0
              ELSE Truncated(n * OpportunisticSum(n, p, w) - Whole * (100 * FreeSum(n, w)), Whole * n * n)
         /\ GuaranteePodNodeScore(CellsUsed(n, p, w), <<>>) =
              IF n = 0 THEN 0 ELSE Truncated(GuaranteeSum(n, p, w), Whole * 1 * n)
  <1> DEFINE c == CellsUsed(n, p, w)
  <1>1. /\ Len(c) = n /\ DOMAIN c = 1..n
        /\ \A i \in 1..n : c[i].priority = p[i] /\ c[i].used = w[i] /\ c[i].id = <<i>>
    BY DEF CellsUsed
  <1> HIDE DEF c
  <1>2. SumSeq([i \in DOMAIN c |-> IF c[i].used = 0 THEN 1 ELSE 0]) = FreeSum(n, w)
    <2>1. [i \in DOMAIN c |-> IF c[i].used = 0 THEN 1 ELSE 0] = [i \in 1..n |-> IF w[i] = 0 THEN 1 ELSE 0]
      BY <1>1
    <2> DEFINE f == [i \in 1..n |-> IF w[i] = 0 THEN 1 ELSE 0]
    <2>2. SumSeq(f) = Total(f, 1..n)
      BY SumSeqIsTotal
    <2> QED
      BY <2>1, <2>2 DEF FreeSum
  <1>3. SumSeq([i \in DOMAIN c |-> Whole * c[i].priority + 100 * c[i].used]) = OpportunisticSum(n, p, w)
    <2> DEFINE f == [i \in 1..n |-> Whole * p[i] + 100 * w[i]]
               g == [i \in DOMAIN c |-> Whole * c[i].priority + 100 * c[i].used]
    <2>1. f = g
      BY <1>1, Zenon
    <2>2. SumSeq(f) = Total(f, 1..n)
      BY SumSeqIsTotal
    <2> QED
      BY <2>1, <2>2, Zenon DEF OpportunisticSum
  <1>4. OpportunisticPodNodeScore(c) =
          IF n = 0 THEN 0
          ELSE Truncated(n * OpportunisticSum(n, p, w) - Whole * (100 * FreeSum(n, w)), Whole * n * n)
    BY <1>1, <1>2, <1>3, Zenon DEF OpportunisticPodNodeScore, FreePenalty
  <1> DEFINE local(id) == Locality(id, <<>>)
             group == IF Len(<<>>) = 0 THEN 1 ELSE Len(<<>>)
             g == [i \in DOMAIN c |-> group * (Whole * c[i].priority - 100 * c[i].used) - 100 * Whole * local(c[i].id)]
  <1>5. \A id : local(id) = 0
    <2>1. DOMAIN <<>> = {}
      BY EmptySeq
    <2>2. ASSUME NEW id PROVE local(id) = 0
      <3> DEFINE f == [j \in DOMAIN <<>> |-> getCellIDDistance(id, <<>>[j])]
      <3>1. DOMAIN f = {}
        BY <2>1, Zenon
      <3> HIDE DEF f
      <3>2. SumSeq(f) = 0
        BY <3>1, SumSeqIsTotal, TotalEmpty
      <3> QED
        BY <3>2 DEF f, Locality
    <2> QED
      BY <2>2
  <1>a. group = 1
    BY EmptySeq, Zenon
  <1>b. GuaranteePodNodeScore(c, <<>>) = IF Len(c) = 0 THEN 0 ELSE Truncated(SumSeq(g), Whole * group * Len(c))
    BY Zenon DEF GuaranteePodNodeScore
  <1> HIDE DEF local, group
  <1>6. SumSeq(g) = GuaranteeSum(n, p, w)
    <2> DEFINE f == [i \in 1..n |-> Whole * p[i] - 100 * w[i]]
    <2>1. ASSUME NEW i \in 1..n PROVE g[i] = f[i]
      <3>1. p[i] \in Int /\ w[i] \in Int /\ Whole \in Int
        BY ScoringAssumption
      <3>2. g[i] = 1 * (Whole * p[i] - 100 * w[i]) - 100 * Whole * 0
        BY <1>1, <1>5, <1>a
      <3>3. Whole * p[i] - 100 * w[i] \in Int
        BY <3>1
      <3> DEFINE x == Whole * p[i] - 100 * w[i]
      <3> HIDE DEF x
      <3>4. 1 * x - 100 * Whole * 0 = x
        BY <3>1, <3>3 DEF x
      <3> QED
        BY <3>2, <3>4 DEF x
    <2>2. DOMAIN g = 1..n /\ DOMAIN f = 1..n
      BY <1>1
    <2>3. f = g
      BY <2>1, <2>2
    <2>4. SumSeq(f) = Total(f, 1..n)
      BY SumSeqIsTotal
    <2> QED
      BY <2>3, <2>4, Zenon DEF GuaranteeSum
  <1>7. GuaranteePodNodeScore(c, <<>>) =
          IF n = 0 THEN 0 ELSE Truncated(GuaranteeSum(n, p, w), Whole * 1 * n)
    BY <1>1, <1>6, <1>a, <1>b, Zenon
  <1> QED
    BY <1>4, <1>7 DEF c

(* A node that is used more has the higher score for opportunistic pods, and  *)
(* the lower one for guarantee pods.                                          *)
LEMMA ScoresFollow ==
  ASSUME NEW n \in Nat, NEW p \in [1..n -> Int],
         NEW u \in [1..n -> 0..Whole], NEW v \in [1..n -> 0..Whole], \A i \in 1..n : u[i] <= v[i]
  PROVE  /\ OpportunisticPodNodeScore(CellsUsed(n, p, u)) <= OpportunisticPodNodeScore(CellsUsed(n, p, v))
         /\ GuaranteePodNodeScore(CellsUsed(n, p, u), <<>>) >= GuaranteePodNodeScore(CellsUsed(n, p, v), <<>>)
  <1>0. Whole \in Nat \ {0} /\ IsFiniteSet(1..n)
    BY ScoringAssumption, FS_Interval
  <1>1. \A i \in 1..n : /\ u[i] \in Nat /\ v[i] \in Nat /\ u[i] <= v[i]
                        /\ p[i] \in Int /\ Whole * p[i] \in Int
    <2>1. ASSUME NEW i \in 1..n
          PROVE  /\ u[i] \in Nat /\ v[i] \in Nat /\ u[i] <= v[i]
                 /\ p[i] \in Int /\ Whole * p[i] \in Int
      <3>1. u[i] \in 0..Whole /\ v[i] \in 0..Whole /\ u[i] <= v[i] /\ p[i] \in Int
        OBVIOUS
      <3> QED
        BY <1>0, <3>1
    <2> QED
      BY <2>1
  <1>2. OpportunisticSum(n, p, u) <= OpportunisticSum(n, p, v)
        /\ OpportunisticSum(n, p, u) \in Int /\ OpportunisticSum(n, p, v) \in Int
    <2> DEFINE f == [i \in 1..n |-> Whole * p[i] + 100 * u[i]]
               g == [i \in 1..n |-> Whole * p[i] + 100 * v[i]]
    <2>1. \A i \in 1..n : f[i] \in Int /\ g[i] \in Int /\ f[i] <= g[i]
      <3>1. ASSUME NEW i \in 1..n PROVE f[i] \in Int /\ g[i] \in Int /\ f[i] <= g[i]
        <4> DEFINE x == Whole * p[i]
        <4>1. f[i] = x + 100 * u[i] /\ g[i] = x + 100 * v[i]
          OBVIOUS
        <4>2. x \in Int /\ u[i] \in Nat /\ v[i] \in Nat /\ u[i] <= v[i]
          BY <1>1
        <4>3. \A y \in Int, k, l \in Nat : k <= l =>
                /\ y + 100 * k \in Int /\ y + 100 * l \in Int
                /\ y + 100 * k <= y + 100 * l
          OBVIOUS
        <4> DEFINE k == u[i]
                   l == v[i]
        <4> HIDE DEF x, f, g, k, l
        <4>4. f[i] = x + 100 * k /\ g[i] = x + 100 * l
          BY <4>1 DEF k, l
        <4>5. x \in Int /\ k \in Nat /\ l \in Nat /\ k <= l
          BY <4>2 DEF k, l
        <4> QED
          BY ONLY <4>3, <4>4, <4>5
      <3> QED
        BY <3>1
    <2> HIDE DEF f, g
    <2>2. Total(f, 1..n) <= Total(g, 1..n) /\ Total(f, 1..n) \in Int /\ Total(g, 1..n) \in Int
      BY <1>0, <2>1, TotalMonotone, TotalType
    <2> QED
      BY <2>2 DEF f, g, OpportunisticSum
  <1>3. GuaranteeSum(n, p, v) <= GuaranteeSum(n, p, u)
        /\ GuaranteeSum(n, p, u) \in Int /\ GuaranteeSum(n, p, v) \in Int
    <2> DEFINE f == [i \in 1..n |-> Whole * p[i] - 100 * u[i]]
               g == [i \in 1..n |-> Whole * p[i] - 100 * v[i]]
    <2>1. \A i \in 1..n : f[i] \in Int /\ g[i] \in Int /\ g[i] <= f[i]
      <3>1. ASSUME NEW i \in 1..n PROVE f[i] \in Int /\ g[i] \in Int /\ g[i] <= f[i]
        <4> DEFINE x == Whole * p[i]
        <4>1. f[i] = x - 100 * u[i] /\ g[i] = x - 100 * v[i]
          OBVIOUS
        <4>2. x \in Int /\ u[i] \in Nat /\ v[i] \in Nat /\ u[i] <= v[i]
          BY <1>1
        <4>3. \A y \in Int, k, l \in Nat : k <= l =>
                /\ y - 100 * k \in Int /\ y - 100 * l \in Int
                /\ y - 100 * l <= y - 100 * k
          OBVIOUS
        <4> DEFINE k == u[i]
                   l == v[i]
        <4> HIDE DEF x, f, g, k, l
        <4>4. f[i] = x - 100 * k /\ g[i] = x - 100 * l
          BY <4>1 DEF k, l
        <4>5. x \in Int /\ k \in Nat /\ l \in Nat /\ k <= l
          BY <4>2 DEF k, l
        <4> QED
          BY ONLY <4>3, <4>4, <4>5
      <3> QED
        BY <3>1
    <2> HIDE DEF f, g
    <2>2. Total(g, 1..n) <= Total(f, 1..n) /\ Total(f, 1..n) \in Int /\ Total(g, 1..n) \in Int
      BY <1>0, <2>1, TotalMonotone, TotalType
    <2> QED
      BY <2>2 DEF f, g, GuaranteeSum
  <1>4. FreeSum(n, v) <= FreeSum(n, u) /\ FreeSum(n, u) \in Int /\ FreeSum(n, v) \in Int
    <2> DEFINE f == [i \in 1..n |-> IF u[i] = 0 THEN 1 ELSE 0]
               g == [i \in 1..n |-> IF v[i] = 0 THEN 1 ELSE 0]
    <2>1. \A i \in 1..n : f[i] \in Int /\ g[i] \in Int /\ g[i] <= f[i]
      <3>1. ASSUME NEW i \in 1..n PROVE f[i] \in Int /\ g[i] \in Int /\ g[i] <= f[i]
        <4>1. f[i] = (IF u[i] = 0 THEN 1 ELSE 0) /\ g[i] = (IF v[i] = 0 THEN 1 ELSE 0)
          OBVIOUS
        <4>2. u[i] \in Nat /\ v[i] \in Nat /\ u[i] <= v[i]
          BY <1>1
        <4>3. \A k, l \in Nat : k <= l =>
                (IF l = 0 THEN 1 ELSE 0) <= (IF k = 0 THEN 1 ELSE 0)
          OBVIOUS
        <4>4. \A k \in Nat : (IF k = 0 THEN 1 ELSE 0) \in Int
          OBVIOUS
        <4> HIDE DEF f, g
        <4> QED
          BY <4>1, <4>2, <4>3, <4>4, Zenon
      <3> QED
        BY <3>1
    <2> HIDE DEF f, g
    <2>2. Total(g, 1..n) <= Total(f, 1..n) /\ Total(f, 1..n) \in Int /\ Total(g, 1..n) \in Int
      BY <1>0, <2>1, TotalMonotone, TotalType
    <2> QED
      BY <2>2 DEF f, g, FreeSum
  <1>5. ASSUME n # 0
        PROVE  /\ Truncated(n * OpportunisticSum(n, p, u) - Whole * (100 * FreeSum(n, u)), Whole * n * n)
                    <= Truncated(n * OpportunisticSum(n, p, v) - Whole * (100 * FreeSum(n, v)), Whole * n * n)
               /\ Truncated(GuaranteeSum(n, p, v), Whole * 1 * n)
                    <= Truncated(GuaranteeSum(n, p, u), Whole * 1 * n)
    <2> DEFINE a == OpportunisticSum(n, p, u)
               b == OpportunisticSum(n, p, v)
               e == FreeSum(n, u)
               f == FreeSum(n, v)
    <2>1. \A x, y \in Nat \ {0} : x * y \in Nat \ {0}
      OBVIOUS
    <2>2. Whole * n * n \in Nat \ {0} /\ Whole * 1 * n \in Nat \ {0} /\ n \in Nat \ {0}
      BY <1>0, <1>5, <2>1
    <2>3. a \in Int /\ b \in Int /\ a <= b /\ e \in Int /\ f \in Int /\ f <= e
      BY <1>2, <1>4
    <2> HIDE DEF a, b, e, f
    <2>4. \A k \in Nat, x, y \in Int : x <= y => k * x <= k * y /\ k * x \in Int /\ k * y \in Int
      <3>1. ASSUME NEW k \in Nat, NEW x \in Int, NEW y \in Int, x <= y PROVE k * x <= k * y
        <4>1. y - x \in Nat
          BY <3>1
        <4> DEFINE z == y - x
        <4>2. k * z \in Nat /\ y = x + z
          BY <4>1
        <4> HIDE DEF z
        <4>3. z \in Nat
          BY <4>1 DEF z
        <4>4. k * (x + z) = k * x + k * z
          BY <4>3
        <4> QED
          BY <4>2, <4>4
      <3> QED
        BY <3>1
    <2>5. 100 * f <= 100 * e /\ 100 * f \in Int /\ 100 * e \in Int
      BY <2>3
    <2>6. n * a <= n * b /\ n * a \in Int /\ n * b \in Int
      BY <2>2, <2>3, <2>4
    <2>7. /\ Whole * (100 * f) <= Whole * (100 * e)
          /\ Whole * (100 * f) \in Int /\ Whole * (100 * e) \in Int
      BY <1>0, <2>4, <2>5
    <2> DEFINE x == n * a - Whole * (100 * e)
               y == n * b - Whole * (100 * f)
               d == Whole * n * n
    <2>8. x \in Int /\ y \in Int /\ x <= y /\ d \in Nat \ {0}
      BY <2>2, <2>6, <2>7
    <2> HIDE DEF x, y, d
    <2>9. Truncated(x, d) <= Truncated(y, d)
      BY <2>8, TruncatedMonotone
    <2>10. Truncated(GuaranteeSum(n, p, v), Whole * 1 * n)
             <= Truncated(GuaranteeSum(n, p, u), Whole * 1 * n)
      BY <1>3, <2>2, TruncatedMonotone
    <2> QED
      BY <2>9, <2>10, Zenon DEF x, y, d, a, b, e, f
  <1>6. \A x, y : x <= y <=> y >= x
    BY Zenon
  <1>7. \A w \in [1..n -> 0..Whole] :
          /\ OpportunisticPodNodeScore(CellsUsed(n, p, w)) =
               IF n = 0 THEN 0
               ELSE Truncated(n * OpportunisticSum(n, p, w) - Whole * (100 * FreeSum(n, w)), Whole * n * n)
          /\ GuaranteePodNodeScore(CellsUsed(n, p, w), <<>>) =
               IF n = 0 THEN 0 ELSE Truncated(GuaranteeSum(n, p, w), Whole * 1 * n)
    <2>1. ASSUME NEW w \in [1..n -> 0..Whole]
          PROVE  /\ OpportunisticPodNodeScore(CellsUsed(n, p, w)) =
                      IF n = 0 THEN 0
                      ELSE Truncated(n * OpportunisticSum(n, p, w) - Whole * (100 * FreeSum(n, w)), Whole * n * n)
                 /\ GuaranteePodNodeScore(CellsUsed(n, p, w), <<>>) =
                      IF n = 0 THEN 0 ELSE Truncated(GuaranteeSum(n, p, w), Whole * 1 * n)
      BY ScoresAre
    <2> QED
      BY <2>1, Zenon
  <1>8. CASE n = 0
    <2>1. /\ OpportunisticPodNodeScore(CellsUsed(n, p, u)) = 0
          /\ OpportunisticPodNodeScore(CellsUsed(n, p, v)) = 0
          /\ GuaranteePodNodeScore(CellsUsed(n, p, u), <<>>) = 0
          /\ GuaranteePodNodeScore(CellsUsed(n, p, v), <<>>) = 0
      BY <1>7, <1>8, Zenon
    <2>2. 0 <= 0 /\ 0 >= 0
      OBVIOUS
    <2> QED
      BY <2>1, <2>2, Zenon
  <1>9. CASE n # 0
    <2> DEFINE o(w) == Truncated(n * OpportunisticSum(n, p, w) - Whole * (100 * FreeSum(n, w)), Whole * n * n)
               g(w) == Truncated(GuaranteeSum(n, p, w), Whole * 1 * n)
    <2>1. o(u) <= o(v) /\ g(v) <= g(u)
      BY <1>5, <1>9, Zenon
    <2>2. /\ OpportunisticPodNodeScore(CellsUsed(n, p, u)) = o(u)
          /\ OpportunisticPodNodeScore(CellsUsed(n, p, v)) = o(v)
          /\ GuaranteePodNodeScore(CellsUsed(n, p, u), <<>>) = g(u)
          /\ GuaranteePodNodeScore(CellsUsed(n, p, v), <<>>) = g(v)
      BY <1>7, <1>9, Zenon
    <2> HIDE DEF o, g
    <2> QED
      BY <1>6, <2>1, <2>2, Zenon
  <1> QED
    BY <1>8, <1>9

(* A finite set of scores has a lowest and a highest one. *)
LEMMA Lowest ==
  ASSUME NEW S, IsFiniteSet(S), S # {}, NEW f, \A x \in S : f[x] \in Int
  PROVE  \E lo \in S : \A x \in S : f[lo] <= f[x]
  <1> DEFINE B == {T \in SUBSET S : T # {} /\ ~ \E lo \in T : \A x \in T : f[lo] <= f[x]}
  <1> SUFFICES ASSUME B # {} PROVE FALSE
    <2>1. S \in SUBSET S /\ S # {} /\ B = {}
      OBVIOUS
    <2> QED
      BY ONLY <2>1
  <1>1. PICK T \in B : \A U \in B : U \subseteq T => U = T
    <2>1. B \in SUBSET SUBSET S
      OBVIOUS
    <2> HIDE DEF B
    <2> QED
      BY <2>1, MinimalSubset
  <1>2. T \in SUBSET S /\ T # {} /\ ~ \E lo \in T : \A x \in T : f[lo] <= f[x]
    OBVIOUS
  <1>3. PICK y \in T : TRUE
    BY <1>2
  <1> DEFINE R == T \ {y}
  <1>4. R \in SUBSET S /\ R \subseteq T /\ R # T
    BY <1>2, <1>3
  <1>5. f[y] \in Int
    BY <1>2, <1>3
  <1>6. CASE R = {}
    <2>1. \A x \in T : x = y
      BY <1>6
    <2>2. f[y] <= f[y]
      BY <1>5
    <2> QED
      BY <1>2, <1>3, <2>1, <2>2
  <1>7. CASE R # {}
    <2>1. R \notin B
      BY <1>1, <1>4
    <2>2. PICK lo \in R : \A x \in R : f[lo] <= f[x]
      BY <1>4, <1>7, <2>1
    <2>3. f[lo] \in Int /\ \A x \in R : f[x] \in Int
      BY <1>4, <2>2
    <2>4. \A x \in T : x = y \/ x \in R
      OBVIOUS
    <2> HIDE DEF R, B
    <2>5. CASE f[lo] <= f[y]
      <3>1. \A x \in T : f[lo] <= f[x]
        BY <2>2, <2>4, <2>5
      <3> QED
        BY <1>2, <1>4, <2>2, <3>1
    <2>6. CASE f[y] <= f[lo]
      <3>1. \A a, b, c \in Int : a <= b /\ b <= c => a <= c
        OBVIOUS
      <3>2. \A x \in R : f[y] <= f[x]
        BY <1>5, <2>2, <2>3, <2>6, <3>1
      <3>3. f[y] <= f[y]
        BY <1>5
      <3>4. \A x \in T : f[y] <= f[x]
        BY <2>4, <3>2, <3>3
      <3> QED
        BY <1>2, <1>3, <3>4
    <2> QED
      BY <1>5, <2>3, <2>5, <2>6
  <1> QED
    BY <1>6, <1>7

LEMMA Highest ==
  ASSUME NEW S, IsFiniteSet(S), S # {}, NEW f, \A x \in S : f[x] \in Int
  PROVE  \E hi \in S : \A x \in S : f[x] <= f[hi]
  <1> DEFINE g == [x \in S |-> - f[x]]
  <1>1. \A x \in S : g[x] = - f[x] /\ g[x] \in Int
    OBVIOUS
  <1> HIDE DEF g
  <1>2. PICK hi \in S : \A x \in S : g[hi] <= g[x]
    BY <1>1, Lowest
  <1>3. \A a, b \in Int : - a <= - b => b <= a
    OBVIOUS
  <1> QED
    BY <1>1, <1>2, <1>3

LEMMA MinScoreIs ==
  ASSUME NEW S, IsFiniteSet(S), S # {}, NEW f \in [S -> Int]
  PROVE  /\ \E n \in S : MinScore(f) = f[n]
         /\ \A n \in S : MinScore(f) <= f[n]
  <1>1. PICK lo \in S : \A x \in S : f[lo] <= f[x]
    BY Lowest
  <1>2. f[lo] \in {f[n] : n \in DOMAIN f} /\ DOMAIN f = S
    OBVIOUS
  <1>3. \E v \in {f[n] : n \in DOMAIN f} : \A n \in DOMAIN f : v <= f[n]
    BY <1>1, <1>2, Zenon
  <1>4. MinScore(f) \in {f[n] : n \in DOMAIN f} /\ \A n \in DOMAIN f : MinScore(f) <= f[n]
    BY <1>3, Zenon DEF MinScore
  <1> QED
    BY <1>2, <1>4

LEMMA MaxScoreIs ==
  ASSUME NEW S, IsFiniteSet(S), S # {}, NEW f \in [S -> Int]
  PROVE  /\ \E n \in S : MaxScore(f) = f[n]
         /\ \A n \in S : f[n] <= MaxScore(f)
  <1>1. PICK hi \in S : \A x \in S : f[x] <= f[hi]
    BY Highest
  <1>2. f[hi] \in {f[n] : n \in DOMAIN f} /\ DOMAIN f = S
    OBVIOUS
  <1>0. \A a, b : a <= b <=> b >= a
    BY Zenon
  <1>3. \E v \in {f[n] : n \in DOMAIN f} : \A n \in DOMAIN f : v >= f[n]
    BY <1>0, <1>1, <1>2, Zenon
  <1>4. MaxScore(f) \in {f[n] : n \in DOMAIN f} /\ \A n \in DOMAIN f : MaxScore(f) >= f[n]
    BY <1>3, Zenon DEF MaxScore
  <1> QED
    BY <1>0, <1>2, <1>4

(* What NormalizeScore gives is between 0 and 100, and in the same order. *)
LEMMA NormalizedScores ==
  ASSUME NEW S, IsFiniteSet(S), NEW f \in [S -> Int], NEW m \in S, NEW n \in S
  PROVE  /\ NormalizeScore(f)[n] \in 0..100
         /\ f[m] <= f[n] => NormalizeScore(f)[m] <= NormalizeScore(f)[n]
  <1> DEFINE r == IF MinScore(f) < 0 THEN - MinScore(f) ELSE 0
             s == Shifted(f)
  <1>1. MinScore(f) \in Int /\ \A x \in S : f[x] \in Int /\ MinScore(f) <= f[x]
    BY MinScoreIs
  <1>2. r \in Nat /\ \A x \in S : f[x] + r \in Nat
    BY <1>1
  <1>3. s = [x \in S |-> f[x] + r]
    BY DEF Shifted
  <1> HIDE DEF r, s
  <1>4. /\ s \in [S -> Int] /\ DOMAIN s = S
        /\ \A x \in S : s[x] \in Nat /\ s[x] = f[x] + r
    BY <1>2, <1>3
  <1>5. \A x \in S : s[x] <= MaxScore(s) /\ MinScore(s) <= s[x]
    BY <1>4, MinScoreIs, MaxScoreIs
  <1>6. MaxScore(s) \in Nat /\ MinScore(s) \in Nat
    BY <1>4, MinScoreIs, MaxScoreIs
  <1>7. f[m] <= f[n] => s[m] <= s[n]
    BY <1>1, <1>2, <1>4
  <1>8. CASE MaxScore(s) <= 100
    <2>1. NormalizeScore(f) = s
      BY <1>8 DEF NormalizeScore, s
    <2>2. s[n] \in Nat /\ s[n] <= MaxScore(s)
      BY <1>4, <1>5
    <2> QED
      BY <1>6, <1>7, <1>8, <2>1, <2>2
  <1>9. CASE ~ (MaxScore(s) <= 100)
    <2> DEFINE lo == MinScore(s)
               ratio == MaxScore(s) - lo
               d == IF ratio = 0 THEN 100 ELSE ratio
    <2>1. NormalizeScore(f) = Scaled(s)
      BY <1>9 DEF NormalizeScore, s
    <2>2. Scaled(s) = [x \in S |-> (100 * (s[x] - lo)) \div d]
      BY <1>4, Zenon DEF Scaled
    <2>3. NormalizeScore(f)[m] = (100 * (s[m] - lo)) \div d /\ NormalizeScore(f)[n] = (100 * (s[n] - lo)) \div d
      BY <2>1, <2>2, Zenon
    <2>4. ratio \in Nat /\ \A x \in S : s[x] - lo \in 0..ratio
      BY <1>4, <1>5, <1>6
    <2> DEFINE a == s[m] - lo
               b == s[n] - lo
    <2>5. a \in 0..ratio /\ b \in 0..ratio /\ (f[m] <= f[n] => a <= b)
      BY <1>4, <1>6, <1>7, <2>4
    <2> HIDE DEF a, b, lo, ratio
    <2>6. d \in Nat \ {0} /\ 100 * b <= 100 * d /\ 0 <= 100 * b
          /\ 100 * a \in Int /\ 100 * b \in Int /\ 100 * d \in Int
      BY <2>4, <2>5 DEF a, b
    <2>7. 100 * a <= 100 * b => (100 * a) \div d <= (100 * b) \div d
      <3> HIDE DEF d
      <3> QED
        BY <2>6, DivMonotone
    <2>8. f[m] <= f[n] => 100 * a <= 100 * b
      BY <2>5
    <2>9. 0 \div d <= (100 * b) \div d /\ (100 * b) \div d <= (100 * d) \div d
      <3> HIDE DEF d
      <3> QED
        BY <2>6, DivMonotone
    <2>10. 0 \div d = 0 /\ (100 * d) \div d = 100
      <3>1. d \in Nat \ {0}
        BY <2>6
      <3> HIDE DEF d
      <3> QED
        BY <3>1
    <2>11. (100 * b) \div d \in Int
      <3> HIDE DEF d
      <3> QED
        BY <2>6, DivFacts
    <2> DEFINE y == (100 * b) \div d
    <2>12. y \in 0..100
      <3> HIDE DEF d, y
      <3>1. y \in Int /\ 0 <= y /\ y <= 100
        BY <2>9, <2>10, <2>11 DEF y
      <3> QED
        BY <3>1
    <2> HIDE DEF d
    <2> QED
      BY <2>3, <2>7, <2>8, <2>12, Zenon DEF a, b
  <1> QED
    BY <1>8, <1>9

(* Whatever scores the plugin gives, the framework gets scores it accepts, in *)
(* the order of those given.                                                  *)
THEOREM AlwaysNormalizedInRange == HealthSpec => []NormalizedInRange
  <1>1. NormalizedInRange
    <2>1. \A score \in [Candidates -> Scores] : score \in [Candidates -> Int]
      BY CandidatesAssumption
    <2>2. IsFiniteSet(Candidates)
      BY CandidatesAssumption
    <2>3. ASSUME NEW score \in [Candidates -> Scores], NEW m \in Candidates, NEW n \in Candidates
          PROVE  /\ NormalizeScore(score)[n] \in 0..100
                 /\ score[m] <= score[n] => NormalizeScore(score)[m] <= NormalizeScore(score)[n]
      BY <2>1, <2>2, NormalizedScores
    <2> QED
      BY <2>3, Zenon DEF NormalizedInRange
  <1> QED
    BY <1>1, PTL

(* Opportunistic pods gather where GPUs are used, guarantee pods keep away,   *)
(* whatever the models of a node's GPUs and however many it has.              *)
THEOREM ScoresAlwaysFollowUse == HealthSpec => []ScoresFollowUse
  <1>1. ScoresFollowUse
    <2>1. \A p \in [1..GPUs -> Priorities] : p \in [1..GPUs -> Int]
      BY CandidatesAssumption
    <2>2. GPUs \in Nat
      BY CandidatesAssumption
    <2>3. ASSUME NEW p \in [1..GPUs -> Priorities], NEW u \in [1..GPUs -> 0..Whole],
                 NEW v \in [1..GPUs -> 0..Whole], \A i \in 1..GPUs : u[i] <= v[i]
          PROVE  /\ OpportunisticPodNodeScore(CellsUsed(GPUs, p, u)) <= OpportunisticPodNodeScore(CellsUsed(GPUs, p, v))
                 /\ GuaranteePodNodeScore(CellsUsed(GPUs, p, u), <<>>) >= GuaranteePodNodeScore(CellsUsed(GPUs, p, v), <<>>)
      BY <2>1, <2>2, <2>3, ScoresFollow
    <2> QED
      BY <2>3, Zenon DEF ScoresFollowUse, CellsUsed
  <1> QED
    BY <1>1, PTL


===============================================================================
