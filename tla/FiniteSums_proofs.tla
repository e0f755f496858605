-------------------------- MODULE FiniteSums_proofs --------------------------
(***************************************************************************)
(* Finite sets of naturals have a least element, and sums over finite sets *)
(* do not depend on the order of the terms: what one term adds, what       *)
(* changes when a term does, and how sums compare.                         *)
(*                                                                         *)
(* Everything is by induction on finite sets, in the form of a minimal     *)
(* counterexample: inclusion between the subsets of a finite set is        *)
(* well-founded.                                                           *)
(***************************************************************************)
EXTENDS Integers, FiniteSetsExt, FiniteSetTheorems, WellFoundedInduction, TLAPS

(* Among subsets of a finite set there is one that contains no other. *)
LEMMA MinimalSubset ==
  ASSUME NEW S, IsFiniteSet(S), NEW B \in SUBSET SUBSET S, B # {}
  PROVE  \E T \in B : \A U \in B : U \subseteq T => U = T
<1>1. B \subseteq FiniteSubsetsOf(S)
  BY FS_Subset DEF FiniteSubsetsOf
<1>2. PICK T \in B : \A U \in B : ~ (<<U, T>> \in StrictSubsetOrdering(S))
  BY <1>1, FS_StrictSubsetOrderingWellFounded, WFMin
<1>3. ASSUME NEW U \in B, U \subseteq T, U # T PROVE FALSE
  <2> DEFINE ss == <<U, T>>
  <2>1. ss \in (SUBSET S) \X (SUBSET S) /\ ss[1] = U /\ ss[2] = T
    OBVIOUS
  <2> HIDE DEF ss
  <2>2. ss \in StrictSubsetOrdering(S)
    BY <2>1, <1>3 DEF StrictSubsetOrdering
  <2> QED BY <1>2, <2>2 DEF ss
<1> QED BY <1>3

(* A nonempty finite set of naturals has a least element, and Min is one:  *)
(* an element whose set of lower elements is minimal for inclusion is the  *)
(* least one, and inclusion between finite sets is well-founded.           *)
LEMMA MinOfNaturals ==
  ASSUME NEW S \in SUBSET Nat, IsFiniteSet(S), S # {}
  PROVE  Min(S) \in S /\ \A y \in S : Min(S) <= y
<1> DEFINE UpTo(x) == {y \in S : y <= x}
           T == {UpTo(x) : x \in S}
<1>1. T \subseteq FiniteSubsetsOf(S) /\ T # {}
  <2>1. ASSUME NEW x \in S PROVE UpTo(x) \in FiniteSubsetsOf(S)
    <3>1. UpTo(x) \in SUBSET S
      OBVIOUS
    <3> QED BY <3>1, FS_Subset DEF FiniteSubsetsOf
  <2>2. \A u \in T : u \in FiniteSubsetsOf(S)
    <3>1. \A u \in T : \E x \in S : u = UpTo(x)
      OBVIOUS
    <3> HIDE DEF T, UpTo
    <3> QED BY <2>1, <3>1
  <2>3. T # {}
    BY \E x \in S : TRUE
  <2> QED BY <2>2, <2>3
<1>2. PICK t \in T : \A u \in T : ~ (<<u, t>> \in StrictSubsetOrdering(S))
  BY <1>1, FS_StrictSubsetOrderingWellFounded, WFMin
<1>3. PICK x \in S : t = UpTo(x)
  BY <1>2
<1>4. ASSUME NEW y \in S, y < x PROVE FALSE
  <2>1. UpTo(y) \subseteq UpTo(x)
    <3>1. \A z \in S : z <= y => z <= x
      BY <1>4
    <3> QED BY <3>1
  <2>2. x \in UpTo(x) /\ x \notin UpTo(y)
    <3>1. x <= x /\ ~ (x <= y)
      BY <1>4
    <3> QED BY <3>1
  <2>3. UpTo(x) \in SUBSET S /\ UpTo(y) \in SUBSET S /\ UpTo(y) \in T
    OBVIOUS
  <2>4. <<UpTo(y), UpTo(x)>> \in StrictSubsetOrdering(S)
    <3> HIDE DEF T, UpTo
    <3> DEFINE ss == <<UpTo(y), UpTo(x)>>
    <3>1. ss \in (SUBSET S) \X (SUBSET S) /\ ss[1] = UpTo(y) /\ ss[2] = UpTo(x)
      BY <2>3
    <3> HIDE DEF ss
    <3> QED BY <3>1, <2>1, <2>2 DEF StrictSubsetOrdering
  <2> QED BY <2>3, <2>4, <1>2, <1>3
<1>5. \A y \in S : x <= y
  BY <1>4
<1> QED
  BY <1>5 DEF Min

-----------------------------------------------------------------------------
(* The sum of a function over a set, as the community modules fold it. *)
Total(f, S) == MapThenSumSet(LAMBDA x : f[x], S)

(* G says what every part of S sums up to, whatever is added first. *)
Summation(G, f, S) ==
  /\ G \in [SUBSET S -> Int]
  /\ G[{}] = 0
  /\ \A T \in SUBSET S : \A x \in T : G[T] = f[x] + G[T \ {x}]

(* There is one for each finite set: it is built one element at a time. *)
LEMMA SummationExists ==
  ASSUME NEW S, IsFiniteSet(S), NEW f, \A x \in S : f[x] \in Int
  PROVE  \E G : Summation(G, f, S)
<1> DEFINE B == {T \in SUBSET S : ~ \E G : Summation(G, f, T)}
<1> SUFFICES ASSUME B # {} PROVE FALSE
  <2>1. S \in SUBSET S /\ B = {}
    OBVIOUS
  <2> QED BY ONLY <2>1
<1>1. PICK T \in B : \A U \in B : U \subseteq T => U = T
  <2>1. B \in SUBSET SUBSET S
    OBVIOUS
  <2> HIDE DEF B
  <2> QED BY <2>1, MinimalSubset
<1>2. T \in SUBSET S /\ ~ \E G : Summation(G, f, T)
  OBVIOUS
<1>3. CASE T = {}
  <2> DEFINE G == [s \in SUBSET T |-> 0]
  <2>1. Summation(G, f, T)
    BY <1>3 DEF Summation
  <2> QED BY <1>2, <2>1
<1>4. CASE T # {}
  <2>1. PICK x \in T : TRUE
    BY <1>4
  <2> DEFINE R == T \ {x}
  <2>2. R \in SUBSET S /\ R \subseteq T /\ R # T
    BY <2>1, <1>2
  <2>3. PICK H : Summation(H, f, R)
    BY <1>1, <2>2
  <2> DEFINE G == [s \in SUBSET T |-> IF x \in s THEN f[x] + H[s \ {x}] ELSE H[s]]
  <2>4. f[x] \in Int
    BY <1>2, <2>1
  <2>5. \A s \in SUBSET R : H[s] \in Int
    BY <2>3 DEF Summation
  <2>6. \A s \in SUBSET T : s \ {x} \in SUBSET R /\ (x \notin s => s \in SUBSET R)
    OBVIOUS
  <2>7. G \in [SUBSET T -> Int] /\ G[{}] = 0
    BY <2>3, <2>4, <2>5, <2>6 DEF Summation
  <2>8. ASSUME NEW s \in SUBSET T, NEW y \in s PROVE G[s] = f[y] + G[s \ {y}]
    <3>1. f[y] \in Int /\ s \ {y} \in SUBSET T
      BY <1>2
    <3>2. CASE y = x
      <4>1. G[s] = f[x] + H[s \ {x}] /\ G[s \ {y}] = H[s \ {x}]
        BY <3>1, <3>2
      <4> QED BY <3>2, <4>1
    <3>3. CASE y # x /\ x \in s
      <4>1. G[s] = f[x] + H[s \ {x}] /\ G[s \ {y}] = f[x] + H[(s \ {y}) \ {x}]
        BY <3>1, <3>3
      <4>2. (s \ {y}) \ {x} = (s \ {x}) \ {y}
        OBVIOUS
      <4>3. s \ {x} \in SUBSET R /\ y \in s \ {x} /\ (s \ {x}) \ {y} \in SUBSET R
        BY <3>3
      <4>4. H[s \ {x}] = f[y] + H[(s \ {x}) \ {y}]
        BY <2>3, <4>3 DEF Summation
      <4>5. PICK h \in Int : h = H[(s \ {x}) \ {y}]
        BY <2>5, <4>3
      <4>6. G[s] = f[x] + (f[y] + h) /\ G[s \ {y}] = f[x] + h
        <5> HIDE DEF G, R
        <5> QED BY <4>1, <4>2, <4>4, <4>5
      <4> HIDE DEF G, R
      <4> QED BY <2>4, <3>1, <4>6
    <3>4. CASE x \notin s
      <4>1. G[s] = H[s] /\ G[s \ {y}] = H[s \ {y}]
        BY <3>1, <3>4
      <4>2. s \in SUBSET R
        BY <3>4
      <4> HIDE DEF G
      <4> QED BY <2>3, <4>1, <4>2 DEF Summation
    <3> QED BY <3>2, <3>3, <3>4
  <2> HIDE DEF G
  <2>9. Summation(G, f, T)
    BY <2>7, <2>8 DEF Summation
  <2> QED BY <1>2, <2>9
<1> QED BY <1>3, <1>4

(* The recursive function of the fold is one, because the order is free. *)
LEMMA TotalIsSummation ==
  ASSUME NEW S, IsFiniteSet(S), NEW f, \A x \in S : f[x] \in Int,
         NEW G, Summation(G, f, S)
  PROVE  Total(f, S) = G[S]
<1> DEFINE first(s) == CHOOSE x \in s : TRUE
           Step(g) == [s \in SUBSET S |->
                         IF s = {} THEN 0 ELSE f[first(s)] + g[s \ {first(s)}]]
           iter == CHOOSE g : g = Step(g)
<1>1. Total(f, S) = iter[S]
  BY Zenon DEF Total, MapThenSumSet, MapThenFoldSet
<1>2. \A s \in SUBSET S : s # {} => first(s) \in s
  OBVIOUS
<1>3. G = Step(G)
  <2>1. G = [s \in SUBSET S |-> G[s]]
    BY DEF Summation
  <2>2. ASSUME NEW s \in SUBSET S
        PROVE  G[s] = IF s = {} THEN 0 ELSE f[first(s)] + G[s \ {first(s)}]
    <3> HIDE DEF first
    <3> QED BY <1>2 DEF Summation
  <2> HIDE DEF first
  <2> QED BY <2>1, <2>2
<1>4. iter = Step(iter)
  <2> HIDE DEF Step
  <2> QED BY <1>3
<1>5. ASSUME iter[S] # G[S] PROVE FALSE
  <2> HIDE DEF iter, first
  <2> DEFINE B == {s \in SUBSET S : iter[s] # G[s]}
  <2>1. B # {} /\ B \in SUBSET SUBSET S
    BY <1>5
  <2>2. PICK s \in B : \A u \in B : u \subseteq s => u = s
    <3> HIDE DEF B
    <3> QED BY <2>1, MinimalSubset
  <2>3. s \in SUBSET S /\ iter[s] # G[s]
    OBVIOUS
  <2>4. iter[s] = IF s = {} THEN 0 ELSE f[first(s)] + iter[s \ {first(s)}]
    BY <1>4, <2>3
  <2>5. s # {}
    BY <2>3, <2>4 DEF Summation
  <2>6. first(s) \in s
    BY <1>2, <2>3, <2>5
  <2>7. s \ {first(s)} \in SUBSET S /\ s \ {first(s)} # s /\ s \ {first(s)} \subseteq s
    BY <2>3, <2>6
  <2>8. iter[s \ {first(s)}] = G[s \ {first(s)}]
    BY <2>2, <2>7
  <2>9. G[s] = f[first(s)] + G[s \ {first(s)}]
    BY <2>3, <2>6 DEF Summation
  <2> QED BY <2>3, <2>4, <2>5, <2>8, <2>9
<1> QED BY <1>1, <1>5

LEMMA TotalType ==
  ASSUME NEW S, IsFiniteSet(S), NEW f, \A x \in S : f[x] \in Int
  PROVE  Total(f, S) \in Int
<1>1. PICK G : Summation(G, f, S)
  BY SummationExists
<1>2. Total(f, S) = G[S]
  BY <1>1, TotalIsSummation
<1> QED BY <1>1, <1>2 DEF Summation

LEMMA TotalEmpty == ASSUME NEW f PROVE Total(f, {}) = 0
<1>1. PICK G : Summation(G, f, {})
  BY SummationExists, FS_EmptySet
<1>2. Total(f, {}) = G[{}]
  BY <1>1, TotalIsSummation, FS_EmptySet
<1> QED BY <1>1, <1>2 DEF Summation

LEMMA TotalSplit ==
  ASSUME NEW S, IsFiniteSet(S), NEW f, \A x \in S : f[x] \in Int, NEW x \in S
  PROVE  Total(f, S) = f[x] + Total(f, S \ {x})
<1>1. PICK G : Summation(G, f, S)
  BY SummationExists
<1> DEFINE R == S \ {x}
           H == [s \in SUBSET R |-> G[s]]
<1>2. R \in SUBSET S /\ S \in SUBSET S /\ IsFiniteSet(R) /\ \A y \in R : f[y] \in Int
  BY FS_Subset
<1>3. Summation(H, f, R)
  <2>1. ASSUME NEW T \in SUBSET R, NEW y \in T PROVE H[T] = f[y] + H[T \ {y}]
    BY <1>1, <1>2 DEF Summation
  <2>2. H \in [SUBSET R -> Int] /\ H[{}] = 0
    BY <1>1, <1>2 DEF Summation
  <2> HIDE DEF H
  <2> QED BY <2>1, <2>2 DEF Summation
<1>4. Total(f, S) = G[S]
  BY <1>1, TotalIsSummation
<1>5. Total(f, R) = H[R]
  <2> HIDE DEF R, H
  <2> QED BY <1>2, <1>3, TotalIsSummation
<1>6. H[R] = G[S \ {x}]
  OBVIOUS
<1>7. G[S] = f[x] + G[S \ {x}]
  BY <1>1 DEF Summation
<1> QED BY <1>4, <1>5, <1>6, <1>7

(* Functions that agree on a set have the same total over it. *)
LEMMA TotalEqual ==
  ASSUME NEW S, IsFiniteSet(S), NEW f, NEW g,
         \A x \in S : f[x] \in Int /\ g[x] = f[x]
  PROVE  Total(g, S) = Total(f, S)
<1>1. PICK G : Summation(G, f, S)
  BY SummationExists
<1>2. Summation(G, g, S)
  BY <1>1 DEF Summation
<1>3. Total(f, S) = G[S]
  BY <1>1, TotalIsSummation
<1>4. Total(g, S) = G[S]
  BY <1>2, TotalIsSummation
<1> QED BY <1>3, <1>4

(* One term changes. *)
LEMMA TotalChange ==
  ASSUME NEW S, IsFiniteSet(S), NEW f, NEW g, NEW x \in S,
         \A y \in S : f[y] \in Int /\ g[y] \in Int,
         \A y \in S \ {x} : g[y] = f[y]
  PROVE  Total(g, S) = Total(f, S) - f[x] + g[x]
<1> DEFINE R == S \ {x}
<1>1. IsFiniteSet(R) /\ \A y \in R : f[y] \in Int /\ g[y] = f[y]
  BY FS_Subset
<1>2. Total(f, S) = f[x] + Total(f, R)
  BY TotalSplit
<1>3. Total(g, S) = g[x] + Total(g, R)
  BY TotalSplit
<1>4. Total(g, R) = Total(f, R) /\ Total(f, R) \in Int
  <2> HIDE DEF R
  <2> QED BY <1>1, TotalEqual, TotalType
<1> HIDE DEF R
<1>5. f[x] \in Int /\ g[x] \in Int
  OBVIOUS
<1> QED BY <1>2, <1>3, <1>4, <1>5

(* No term is greater, nor is the total. *)
LEMMA TotalMonotone ==
  ASSUME NEW S, IsFiniteSet(S), NEW f, NEW g,
         \A x \in S : f[x] \in Int /\ g[x] \in Int /\ f[x] <= g[x]
  PROVE  Total(f, S) <= Total(g, S)
<1>1. PICK F : Summation(F, f, S)
  BY SummationExists
<1>2. PICK G : Summation(G, g, S)
  BY SummationExists
<1> DEFINE B == {T \in SUBSET S : ~ (F[T] <= G[T])}
<1>3. ASSUME B # {} PROVE FALSE
  <2>1. B \in SUBSET SUBSET S
    OBVIOUS
  <2>2. PICK T \in B : \A U \in B : U \subseteq T => U = T
    <3> HIDE DEF B
    <3> QED BY <2>1, <1>3, MinimalSubset
  <2>3. T \in SUBSET S /\ ~ (F[T] <= G[T])
    OBVIOUS
  <2>4. T # {}
    <3>1. F[{}] = 0 /\ G[{}] = 0 /\ 0 <= 0
      BY <1>1, <1>2 DEF Summation
    <3> HIDE DEF B
    <3> QED BY <2>3, <3>1
  <2>5. PICK x \in T : TRUE
    BY <2>4
  <2> DEFINE R == T \ {x}
  <2>6. R \in SUBSET S /\ R \subseteq T /\ R # T
    BY <2>3, <2>5
  <2>7. F[R] <= G[R]
    BY <2>2, <2>6
  <2>8. F[T] = f[x] + F[R] /\ G[T] = g[x] + G[R]
    BY <1>1, <1>2, <2>3 DEF Summation
  <2>9. F[R] \in Int /\ G[R] \in Int
    BY <1>1, <1>2, <2>6 DEF Summation
  <2>10. f[x] \in Int /\ g[x] \in Int /\ f[x] <= g[x]
    BY <2>3
  <2>11. PICK a \in Int, b \in Int, c \in Int, d \in Int :
           a = f[x] /\ b = g[x] /\ c = F[R] /\ d = G[R]
    <3> HIDE DEF R
    <3> QED BY <2>9, <2>10
  <2>12. F[T] = a + c /\ G[T] = b + d /\ a <= b /\ c <= d
    <3> HIDE DEF R
    <3> QED BY <2>7, <2>8, <2>10, <2>11
  <2> QED BY <2>3, <2>12
<1>4. F[S] <= G[S]
  BY <1>3
<1>5. Total(f, S) = F[S]
  BY <1>1, TotalIsSummation
<1>6. Total(g, S) = G[S]
  BY <1>2, TotalIsSummation
<1> QED BY <1>4, <1>5, <1>6

(* A sum of zeros. *)
LEMMA TotalZero ==
  ASSUME NEW S, IsFiniteSet(S), NEW f, \A x \in S : f[x] = 0
  PROVE  Total(f, S) = 0
<1> DEFINE G == [T \in SUBSET S |-> 0]
<1>1. Summation(G, f, S)
  <2>1. G \in [SUBSET S -> Int] /\ G[{}] = 0
    OBVIOUS
  <2>2. ASSUME NEW T \in SUBSET S, NEW x \in T PROVE G[T] = f[x] + G[T \ {x}]
    <3>1. G[T] = 0 /\ G[T \ {x}] = 0 /\ f[x] = 0
      OBVIOUS
    <3> QED BY <3>1
  <2> QED BY <2>1, <2>2 DEF Summation
<1>2. \A x \in S : f[x] \in Int
  OBVIOUS
<1>3. Total(f, S) = G[S]
  <2> HIDE DEF G
  <2> QED BY <1>1, <1>2, TotalIsSummation
<1> QED BY <1>3

(* A sum of naturals is at least each of them. *)
LEMMA TotalOfNaturals ==
  ASSUME NEW S, IsFiniteSet(S), NEW f, \A x \in S : f[x] \in Nat
  PROVE  Total(f, S) \in Nat /\ \A x \in S : f[x] <= Total(f, S)
<1>1. ASSUME NEW T \in SUBSET S PROVE Total(f, T) \in Int /\ 0 <= Total(f, T)
  <2> DEFINE z == [x \in S |-> 0]
  <2>1. IsFiniteSet(T) /\ \A x \in T : f[x] \in Int /\ z[x] \in Int /\ z[x] <= f[x] /\ z[x] = 0
    BY FS_Subset
  <2> HIDE DEF z
  <2>2. Total(z, T) <= Total(f, T) /\ Total(z, T) = 0
    BY <2>1, TotalMonotone, TotalZero
  <2>3. Total(f, T) \in Int
    BY <2>1, TotalType
  <2> QED BY <2>2, <2>3
<1>2. ASSUME NEW x \in S PROVE f[x] <= Total(f, S)
  <2>1. Total(f, S) = f[x] + Total(f, S \ {x})
    BY TotalSplit
  <2>2. S \ {x} \in SUBSET S
    OBVIOUS
  <2>3. Total(f, S \ {x}) \in Int /\ 0 <= Total(f, S \ {x})
    BY <1>1, <2>2
  <2> QED BY <2>1, <2>3
<1>3. S \in SUBSET S
  OBVIOUS
<1>4. Total(f, S) \in Int /\ 0 <= Total(f, S)
  BY <1>1, <1>3
<1> QED BY <1>2, <1>4

(* The terms of some elements grow by the same amount. *)
LEMMA TotalShift ==
  ASSUME NEW S, IsFiniteSet(S), NEW f, NEW g, NEW A \in SUBSET S, NEW u \in Int,
         \A x \in S : f[x] \in Int /\ g[x] = IF x \in A THEN f[x] + u ELSE f[x]
  PROVE  Total(g, S) = Total(f, S) + u * Cardinality(A)
<1>1. PICK F : Summation(F, f, S)
  BY SummationExists
<1> DEFINE G == [T \in SUBSET S |-> F[T] + u * Cardinality(A \cap T)]
<1>2. \A T \in SUBSET S : IsFiniteSet(A \cap T) /\ Cardinality(A \cap T) \in Nat
  <2>1. \A T \in SUBSET S : A \cap T \in SUBSET S
    OBVIOUS
  <2> QED BY <2>1, FS_Subset, FS_CardinalityType
<1>3. Summation(G, g, S)
  <2>1. \A k \in Nat : u * k \in Int /\ u * (k + 1) = u * k + u
    OBVIOUS
  <2>2. G \in [SUBSET S -> Int]
    <3>1. ASSUME NEW T \in SUBSET S PROVE F[T] + u * Cardinality(A \cap T) \in Int
      <4>1. PICK k \in Nat : k = Cardinality(A \cap T)
        BY <1>2
      <4>2. PICK p \in Int : p = u * k
        BY <2>1
      <4>3. PICK v \in Int : v = F[T]
        BY <1>1 DEF Summation
      <4>4. v + p \in Int
        OBVIOUS
      <4> QED BY <4>1, <4>2, <4>3, <4>4
    <3> QED BY <3>1
  <2>3. G[{}] = 0
    <3>1. A \cap {} = {}
      OBVIOUS
    <3>2. Cardinality(A \cap {}) = 0
      BY <3>1, FS_EmptySet
    <3>3. G[{}] = F[{}] + u * Cardinality(A \cap {})
      OBVIOUS
    <3>4. F[{}] = 0
      BY <1>1 DEF Summation
    <3> HIDE DEF G
    <3>5. G[{}] = 0 + u * 0
      BY <3>2, <3>3, <3>4
    <3> QED BY <3>5
  <2>4. ASSUME NEW T \in SUBSET S, NEW x \in T PROVE G[T] = g[x] + G[T \ {x}]
    <3> DEFINE R == T \ {x}
    <3>1. R \in SUBSET S /\ F[T] = f[x] + F[R] /\ F[R] \in Int /\ f[x] \in Int
      BY <1>1 DEF Summation
    <3>2. PICK k \in Nat : k = Cardinality(A \cap R)
      BY <1>2, <3>1
    <3>3. G[T] = F[T] + u * Cardinality(A \cap T) /\ G[R] = F[R] + u * k
      BY <3>1, <3>2
    <3>4. CASE x \in A
      <4>1. A \cap T = (A \cap R) \cup {x} /\ x \notin A \cap R
        BY <3>4
      <4>2. Cardinality(A \cap T) = k + 1
        BY <1>2, <3>1, <3>2, <4>1, FS_AddElement
      <4>3. g[x] = f[x] + u /\ u * (k + 1) = u * k + u /\ u * k \in Int
        BY <2>1, <3>4
      <4>4. PICK v \in Int, a \in Int, p \in Int : v = F[R] /\ a = f[x] /\ p = u * k
        <5> HIDE DEF R
        <5> QED BY <3>1, <4>3
      <4>5. G[T] = (a + v) + (p + u) /\ G[R] = v + p /\ g[x] = a + u
        <5> HIDE DEF R, G
        <5> QED BY <3>1, <3>3, <4>2, <4>3, <4>4
      <4> HIDE DEF R, G
      <4>6. G[T] = g[x] + G[R]
        BY <4>5
      <4> QED BY <4>6 DEF R
    <3>5. CASE x \notin A
      <4>1. A \cap T = A \cap R
        BY <3>5
      <4>2. g[x] = f[x] /\ u * k \in Int
        BY <2>1, <3>5
      <4>3. PICK v \in Int, a \in Int, p \in Int : v = F[R] /\ a = f[x] /\ p = u * k
        <5> HIDE DEF R
        <5> QED BY <3>1, <4>2
      <4>4. G[T] = (a + v) + p /\ G[R] = v + p /\ g[x] = a
        <5> HIDE DEF R, G
        <5> QED BY <3>1, <3>2, <3>3, <4>1, <4>2, <4>3
      <4> HIDE DEF R, G
      <4>5. G[T] = g[x] + G[R]
        BY <4>4
      <4> QED BY <4>5 DEF R
    <3> QED BY <3>4, <3>5
  <2> HIDE DEF G
  <2> QED BY <2>2, <2>3, <2>4 DEF Summation
<1>4. \A x \in S : g[x] \in Int
  OBVIOUS
<1>5. Total(g, S) = G[S]
  <2> HIDE DEF G
  <2> QED BY <1>3, <1>4, TotalIsSummation
<1>6. Total(f, S) = F[S]
  BY <1>1, TotalIsSummation
<1>7. A \cap S = A
  OBVIOUS
<1> QED BY <1>5, <1>6, <1>7

(* To some of the terms others are added. *)
LEMMA TotalAdd ==
  ASSUME NEW S, IsFiniteSet(S), NEW f, NEW g, NEW h, NEW A \in SUBSET S,
         \A x \in S : f[x] \in Int,
         \A x \in A : h[x] \in Int /\ g[x] = f[x] + h[x],
         \A x \in S \ A : g[x] = f[x]
  PROVE  Total(g, S) = Total(f, S) + Total(h, A)
<1>0. IsFiniteSet(A) /\ \A x \in A : f[x] \in Int /\ h[x] \in Int
  BY FS_Subset
<1>1. PICK F : Summation(F, f, S)
  BY SummationExists
<1>2. PICK H : Summation(H, h, A)
  BY <1>0, SummationExists
<1> DEFINE G == [T \in SUBSET S |-> F[T] + H[A \cap T]]
<1>3. Summation(G, g, S)
  <2>1. \A T \in SUBSET S : F[T] \in Int /\ H[A \cap T] \in Int
    <3>1. \A T \in SUBSET S : A \cap T \in SUBSET A
      OBVIOUS
    <3> QED BY <1>1, <1>2, <3>1 DEF Summation
  <2>2. G \in [SUBSET S -> Int]
    <3>1. ASSUME NEW T \in SUBSET S PROVE F[T] + H[A \cap T] \in Int
      <4>1. PICK v \in Int, w \in Int : v = F[T] /\ w = H[A \cap T]
        BY <2>1
      <4>2. v + w \in Int
        OBVIOUS
      <4> QED BY <4>1, <4>2
    <3> QED BY <3>1
  <2>3. G[{}] = 0
    <3>1. A \cap {} = {} /\ {} \in SUBSET S
      OBVIOUS
    <3>2. F[{}] = 0 /\ H[{}] = 0
      BY <1>1, <1>2 DEF Summation
    <3>3. G[{}] = F[{}] + H[{}]
      BY <3>1
    <3> QED BY <3>2, <3>3
  <2>4. ASSUME NEW T \in SUBSET S, NEW x \in T PROVE G[T] = g[x] + G[T \ {x}]
    <3> DEFINE R == T \ {x}
    <3>1. R \in SUBSET S /\ F[T] = f[x] + F[R] /\ F[R] \in Int /\ f[x] \in Int
      BY <1>1, <2>1 DEF Summation
    <3>2. G[T] = F[T] + H[A \cap T] /\ G[R] = F[R] + H[A \cap R]
      BY <3>1
    <3>3. H[A \cap R] \in Int
      BY <2>1, <3>1
    <3>4. CASE x \in A
      <4>1. (A \cap T) \ {x} = A \cap R /\ x \in A \cap T /\ A \cap T \in SUBSET A
        BY <3>4
      <4>2. H[A \cap T] = h[x] + H[A \cap R]
        BY <1>2, <4>1 DEF Summation
      <4>3. g[x] = f[x] + h[x] /\ h[x] \in Int
        BY <3>4
      <4> HIDE DEF G, R
      <4>4. PICK v \in Int, a \in Int, b \in Int, w \in Int :
              v = F[R] /\ a = f[x] /\ b = h[x] /\ w = H[A \cap R]
        BY <3>1, <3>3, <4>3
      <4>5. G[T] = (a + v) + (b + w) /\ G[R] = v + w /\ g[x] = a + b
        BY <3>1, <3>2, <4>2, <4>3, <4>4
      <4>6. G[T] = g[x] + G[R]
        BY <4>5
      <4> QED BY <4>6 DEF R
    <3>5. CASE x \notin A
      <4>1. A \cap T = A \cap R
        BY <3>5
      <4>2. g[x] = f[x]
        BY <3>5
      <4> HIDE DEF G, R
      <4>3. PICK v \in Int, a \in Int, w \in Int : v = F[R] /\ a = f[x] /\ w = H[A \cap R]
        BY <3>1, <3>3
      <4>4. G[T] = (a + v) + w /\ G[R] = v + w /\ g[x] = a
        BY <3>1, <3>2, <4>1, <4>2, <4>3
      <4>5. G[T] = g[x] + G[R]
        BY <4>4
      <4> QED BY <4>5 DEF R
    <3> QED BY <3>4, <3>5
  <2> HIDE DEF G
  <2> QED BY <2>2, <2>3, <2>4 DEF Summation
<1>4. \A x \in S : g[x] \in Int
  <2>1. \A x \in S : x \in A \/ x \in S \ A
    OBVIOUS
  <2>2. \A x \in A : f[x] + h[x] \in Int
    BY <1>0
  <2> QED BY <2>1, <2>2
<1>5. Total(g, S) = G[S]
  <2> HIDE DEF G
  <2> QED BY <1>3, <1>4, TotalIsSummation
<1>6. Total(f, S) = F[S] /\ Total(h, A) = H[A]
  BY <1>0, <1>1, <1>2, TotalIsSummation
<1>7. A \cap S = A /\ S \in SUBSET S
  OBVIOUS
<1>8. G[S] = F[S] + H[A]
  BY <1>7
<1> HIDE DEF G
<1> QED BY <1>5, <1>6, <1>8

==============================================================================
