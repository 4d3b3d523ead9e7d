------------------------------ MODULE SumProofs ------------------------------
(***************************************************************************)
(* Sums of natural numbers over finite sets: what the folds of the         *)
(* community modules compute.  A fold is a recursive function over the     *)
(* subsets of a set, which exists because the set is finite; it takes the  *)
(* elements in an order nobody knows, which makes no difference to a sum.  *)
(***************************************************************************)
EXTENDS Functions, FiniteSetTheorems, TLAPS

\* What holds of a set if it holds of all smaller ones holds of all subsets of
\* a finite set.
LEMMA SubsetInduction ==
    ASSUME NEW S, IsFiniteSet(S), NEW T,
           \A s \in SUBSET S : (\A u \in SUBSET s : u # s => u \in T) => s \in T
    PROVE  \A s \in SUBSET S : s \in T
  <1> SUFFICES ASSUME (SUBSET S) \ T # {} PROVE FALSE
    OBVIOUS
  <1>1. IsWellFoundedOn(StrictSubsetOrdering(S), SUBSET S)
    <2>1. IsWellFoundedOn(StrictSubsetOrdering(S), FiniteSubsetsOf(S))
      BY FS_StrictSubsetOrderingWellFounded
    <2>2. FiniteSubsetsOf(S) = SUBSET S
      BY FS_FiniteSubsetsOfFinite
    <2> HIDE DEF FiniteSubsetsOf
    <2>3. QED
      BY <2>1, <2>2
  <1>2. PICK s \in (SUBSET S) \ T :
           \A u \in (SUBSET S) \ T : ~(<<u, s>> \in StrictSubsetOrdering(S))
    <2> DEFINE B == (SUBSET S) \ T
    <2>1. B \subseteq SUBSET S /\ B # {}
      OBVIOUS
    <2> HIDE DEF B
    <2>2. \E s \in B : \A u \in B : ~(<<u, s>> \in StrictSubsetOrdering(S))
      BY <1>1, <2>1, WFMin
    <2>3. QED
      BY <2>2 DEF B
  <1>3. ASSUME NEW u \in SUBSET s, u # s PROVE u \in T
    <2>1. <<u, s>> \in StrictSubsetOrdering(S)
      BY <1>3 DEF StrictSubsetOrdering
    <2>2. QED
      BY <1>2, <2>1
  <1>4. QED
    BY <1>2, <1>3

\* The element a fold takes from a set first.
First(s) == CHOOSE x \in s : TRUE

\* g is the fold at s.
FoldsAt(g, f, s) ==
    g[s] = IF s = {} THEN 0 ELSE f[First(s)] + g[s \ {First(s)}]

IsFold(g, f, S) ==
    /\ g \in [SUBSET S -> Nat]
    /\ \A s \in SUBSET S : FoldsAt(g, f, s)

LEMMA FirstIsIn == ASSUME NEW s, s # {} PROVE First(s) \in s
  BY DEF First

LEMMA FoldExists ==
    ASSUME NEW S, IsFiniteSet(S), NEW f, \A x \in S : f[x] \in Nat
    PROVE  \E g \in [SUBSET S -> Nat] : \A s \in SUBSET S : FoldsAt(g, f, s)
  <1> DEFINE Upto(g, u) ==
                \A s \in SUBSET S :
                   Cardinality(s) <= Cardinality(u) => FoldsAt(g, f, s)
             T == {u \in SUBSET S : \E g \in [SUBSET S -> Nat] : Upto(g, u)}
  <1>1. \A s \in SUBSET S : /\ IsFiniteSet(s) /\ Cardinality(s) \in Nat
                            /\ Cardinality(s) <= Cardinality(S)
    BY FS_Subset, FS_CardinalityType
  <1>2. ASSUME NEW u \in SUBSET S, \A w \in SUBSET u : w # u => w \in T
        PROVE  u \in T
    <2>1. CASE u = {}
      <3> DEFINE g == [s \in SUBSET S |-> 0]
      <3>1. \A s \in SUBSET S : Cardinality(s) <= Cardinality(u) => s = {}
        BY <1>1, <2>1, FS_EmptySet
      <3>2. Upto(g, u)
        BY <3>1 DEF FoldsAt
      <3>3. g \in [SUBSET S -> Nat]
        OBVIOUS
      <3>4. QED
        BY <3>2, <3>3
    <2>2. CASE u # {}
      <3> DEFINE w == u \ {First(u)}
      <3>1. /\ w \in SUBSET S /\ w \in T
            /\ Cardinality(u) = Cardinality(w) + 1
        <4>1. First(u) \in u /\ w \in SUBSET S /\ w \in SUBSET u /\ w # u
          BY <2>2, FirstIsIn
        <4>2. Cardinality(w) = Cardinality(u) - 1
          BY <1>1, <4>1, FS_RemoveElement
        <4> HIDE DEF T, w
        <4>3. w \in T
          BY <1>2, <4>1
        <4>4. Cardinality(u) \in Nat
          BY <1>1
        <4>5. QED
          BY <4>1, <4>2, <4>3, <4>4
      <3>2. PICK g \in [SUBSET S -> Nat] : Upto(g, w)
        BY <3>1
      <3> DEFINE h == [s \in SUBSET S |->
                          IF Cardinality(s) = Cardinality(u)
                          THEN f[First(s)] + g[s \ {First(s)}] ELSE g[s]]
      <3>3. \A s \in SUBSET S : s # {} =>
               /\ First(s) \in s /\ f[First(s)] \in Nat
               /\ s \ {First(s)} \in SUBSET S
               /\ Cardinality(s \ {First(s)}) = Cardinality(s) - 1
        BY <1>1, FirstIsIn, FS_RemoveElement
      <3>4. Cardinality({}) = 0 /\ Cardinality(u) # 0
        BY <1>1, <3>1, FS_EmptySet
      <3>5. h \in [SUBSET S -> Nat]
        <4>1. ASSUME NEW s \in SUBSET S PROVE h[s] \in Nat
          <5>1. CASE Cardinality(s) = Cardinality(u)
            <6>1. s # {}
              BY <3>4, <5>1
            <6>2. f[First(s)] \in Nat /\ g[s \ {First(s)}] \in Nat
              BY <3>2, <3>3, <6>1
            <6>3. QED
              BY <5>1, <6>2
          <5>2. CASE Cardinality(s) # Cardinality(u)
            BY <3>2, <5>2
          <5>3. QED
            BY <5>1, <5>2
        <4>2. QED
          BY <4>1
      <3>6. ASSUME NEW s \in SUBSET S, Cardinality(s) <= Cardinality(u)
            PROVE  FoldsAt(h, f, s)
        <4>1. CASE s = {}
          BY <3>2, <3>4, <4>1, <1>1, <3>1 DEF FoldsAt
        <4>2. CASE s # {}
          <5>1. /\ s \ {First(s)} \in SUBSET S
                /\ Cardinality(s \ {First(s)}) = Cardinality(s) - 1
            BY <3>3, <4>2
          <5>2. h[s \ {First(s)}] = g[s \ {First(s)}]
            BY <1>1, <3>6, <5>1
          <5>3. h[s] = f[First(s)] + g[s \ {First(s)}]
            <6>1. CASE Cardinality(s) = Cardinality(u)
              BY <6>1
            <6>2. CASE Cardinality(s) # Cardinality(u)
              <7>1. Cardinality(s) <= Cardinality(w)
                BY <1>1, <3>1, <3>6, <6>2
              <7>2. QED
                BY <3>2, <4>2, <6>2, <7>1 DEF FoldsAt
            <6>3. QED
              BY <6>1, <6>2
          <5>4. QED
            BY <4>2, <5>2, <5>3 DEF FoldsAt
        <4>3. QED
          BY <4>1, <4>2
      <3>7. QED
        BY <3>5, <3>6
    <2>3. QED
      BY <2>1, <2>2
  <1> HIDE DEF T
  <1>3. S \in T
    BY <1>2, SubsetInduction
  <1>4. QED
    BY <1>1, <1>3 DEF T

\* What is summed: the fold over the subsets of the indices.
LEMMA SumIsFold ==
    ASSUME NEW S, IsFiniteSet(S), NEW f, \A x \in S : f[x] \in Nat
    PROVE  \E g \in [SUBSET S -> Nat] :
              /\ SumFunctionOnSet(f, S) = g[S]
              /\ \A s \in SUBSET S : FoldsAt(g, f, s)
  <1> DEFINE F(g) == [s \in SUBSET S |->
                         IF s = {} THEN 0
                         ELSE f[First(s)] + g[s \ {First(s)}]]
             iter == CHOOSE g : g = F(g)
  <1>1. PICK h \in [SUBSET S -> Nat] : \A s \in SUBSET S : FoldsAt(h, f, s)
    BY FoldExists
  <1>2. h = F(h)
    BY <1>1 DEF FoldsAt
  <1>3. iter = F(iter)
    BY <1>2
  <1>4. SumFunctionOnSet(f, S) = iter[S]
    BY DEF SumFunctionOnSet, FoldFunctionOnSet, MapThenFoldSet, First
  <1> HIDE DEF iter
  <1>5. \A s \in SUBSET S : FoldsAt(iter, f, s)
    BY <1>3 DEF FoldsAt
  <1>6. \A s \in SUBSET S : iter[s] \in Nat
    <2> DEFINE T == {s \in SUBSET S : iter[s] \in Nat}
    <2>1. ASSUME NEW s \in SUBSET S, \A u \in SUBSET s : u # s => u \in T
          PROVE  s \in T
      <3>1. CASE s = {}
        <4>1. FoldsAt(iter, f, s)
          BY <1>5
        <4>2. QED
          BY <3>1, <4>1 DEF FoldsAt
      <3>2. CASE s # {}
        <4>1. /\ First(s) \in s /\ f[First(s)] \in Nat
              /\ s \ {First(s)} \in SUBSET s /\ s \ {First(s)} # s
          BY <3>2, FirstIsIn
        <4>2. iter[s \ {First(s)}] \in Nat
          BY <2>1, <4>1
        <4>3. iter[s] = f[First(s)] + iter[s \ {First(s)}]
          BY <1>5, <3>2 DEF FoldsAt
        <4>4. QED
          BY <4>1, <4>2, <4>3
      <3>3. QED
        BY <3>1, <3>2
    <2> HIDE DEF T
    <2>2. \A s \in SUBSET S : s \in T
      BY <2>1, SubsetInduction
    <2>3. QED
      BY <2>2 DEF T
  <1>7. iter \in [SUBSET S -> Nat]
    BY <1>3, <1>6
  <1>8. QED
    BY <1>4, <1>5, <1>7

\* It makes no difference which element is taken first.
LEMMA FoldAnyOrder ==
    ASSUME NEW S, IsFiniteSet(S), NEW f, \A x \in S : f[x] \in Nat,
           NEW g, IsFold(g, f, S), NEW s \in SUBSET S, NEW x \in s
    PROVE  g[s] = f[x] + g[s \ {x}]
  <1> USE DEF IsFold
  <1> DEFINE T == {u \in SUBSET S : \A y \in u : g[u] = f[y] + g[u \ {y}]}
  <1>1. ASSUME NEW v \in SUBSET S, \A u \in SUBSET v : u # v => u \in T
        PROVE  v \in T
    <2>1. ASSUME NEW z \in v PROVE g[v] = f[z] + g[v \ {z}]
      <3> DEFINE y == First(v)
                 rest == v \ {z, y}
      <3>1. y \in v /\ g[v] = f[y] + g[v \ {y}]
        BY FirstIsIn, <2>1 DEF FoldsAt
      <3>2. CASE z = y
        BY <3>1, <3>2
      <3>3. CASE z # y
        <4>1. /\ v \ {y} \in T /\ v \ {z} \in T
              /\ z \in v \ {y} /\ y \in v \ {z}
          <5> HIDE DEF T, y
          <5>1. QED
            BY <1>1, <3>1, <3>3
        <4>2. (v \ {y}) \ {z} = rest /\ (v \ {z}) \ {y} = rest
          OBVIOUS
        <4>3. g[v \ {y}] = f[z] + g[rest] /\ g[v \ {z}] = f[y] + g[rest]
          <5> HIDE DEF y, rest
          <5>1. QED
            BY <4>1, <4>2
        <4>4. f[z] \in Nat /\ f[y] \in Nat /\ g[rest] \in Nat
          <5>1. z \in S /\ y \in S /\ rest \in SUBSET S
            BY <3>1
          <5>2. QED
            BY <5>1
        <4> HIDE DEF y, rest
        <4>5. QED
          BY <3>1, <4>3, <4>4
      <3>4. QED
        BY <3>2, <3>3
    <2>2. QED
      BY <2>1
  <1> HIDE DEF T
  <1>2. \A u \in SUBSET S : u \in T
    BY <1>1, SubsetInduction
  <1>3. QED
    BY <1>2 DEF T

LEMMA SumOfNone == ASSUME NEW f PROVE SumFunctionOnSet(f, {}) = 0
  <1>1. IsFiniteSet({}) /\ {} \in SUBSET {}
    BY FS_EmptySet
  <1>2. PICK g \in [SUBSET {} -> Nat] :
           /\ SumFunctionOnSet(f, {}) = g[{}]
           /\ \A s \in SUBSET {} : FoldsAt(g, f, s)
    BY <1>1, SumIsFold
  <1>3. QED
    BY <1>1, <1>2 DEF FoldsAt

LEMMA SumType ==
    ASSUME NEW S, IsFiniteSet(S), NEW f, \A x \in S : f[x] \in Nat
    PROVE  SumFunctionOnSet(f, S) \in Nat
  <1>1. PICK g \in [SUBSET S -> Nat] :
           SumFunctionOnSet(f, S) = g[S]
    BY SumIsFold
  <1>2. QED
    BY <1>1

\* A sum is what is added for one of the indices, and for all others.
LEMMA SumStep ==
    ASSUME NEW S, IsFiniteSet(S), NEW f, \A x \in S : f[x] \in Nat, NEW x \in S
    PROVE  SumFunctionOnSet(f, S) = f[x] + SumFunctionOnSet(f, S \ {x})
  <1> DEFINE R == S \ {x}
  <1>1. PICK g \in [SUBSET S -> Nat] :
           /\ SumFunctionOnSet(f, S) = g[S]
           /\ \A s \in SUBSET S : FoldsAt(g, f, s)
    BY SumIsFold
  <1>2. IsFiniteSet(R) /\ R \in SUBSET S
    BY FS_Subset
  <1>3. PICK h \in [SUBSET R -> Nat] :
           /\ SumFunctionOnSet(f, R) = h[R]
           /\ \A s \in SUBSET R : FoldsAt(h, f, s)
    BY <1>2, SumIsFold
  <1>4. g[R] = h[R]
    <2> DEFINE T == {s \in SUBSET R : g[s] = h[s]}
    <2>1. ASSUME NEW s \in SUBSET R, \A u \in SUBSET s : u # s => u \in T
          PROVE  s \in T
      <3>1. FoldsAt(g, f, s) /\ FoldsAt(h, f, s)
        BY <1>1, <1>2, <1>3
      <3>2. CASE s = {}
        BY <3>1, <3>2 DEF FoldsAt
      <3>3. CASE s # {}
        <4>1. s \ {First(s)} \in SUBSET s /\ s \ {First(s)} # s
          BY <3>3, FirstIsIn
        <4>2. g[s \ {First(s)}] = h[s \ {First(s)}]
          BY <2>1, <4>1
        <4>3. QED
          BY <3>1, <3>3, <4>2 DEF FoldsAt
      <3>4. QED
        BY <3>2, <3>3
    <2> HIDE DEF T, R
    <2>2. \A s \in SUBSET R : s \in T
      BY <1>2, <2>1, SubsetInduction
    <2>3. QED
      BY <2>2 DEF T
  <1>5. g[S] = f[x] + g[R]
    <2>1. IsFold(g, f, S) /\ S \in SUBSET S
      BY <1>1 DEF IsFold
    <2>2. QED
      BY <2>1, FoldAnyOrder
  <1>6. QED
    BY <1>1, <1>3, <1>4, <1>5

\* The sum of a sum is the sum of the sums.
LEMMA SumPlus ==
    ASSUME NEW S, IsFiniteSet(S), NEW f, NEW g, NEW h,
           \A x \in S : f[x] \in Nat /\ g[x] \in Nat /\ h[x] = f[x] + g[x]
    PROVE  SumFunctionOnSet(h, S)
              = SumFunctionOnSet(f, S) + SumFunctionOnSet(g, S)
  <1> DEFINE Sum(e, s) == SumFunctionOnSet(e, s)
             T == {s \in SUBSET S : Sum(h, s) = Sum(f, s) + Sum(g, s)}
  <1> HIDE DEF Sum
  <1>1. ASSUME NEW s \in SUBSET S, \A u \in SUBSET s : u # s => u \in T
        PROVE  s \in T
    <2>1. CASE s = {}
      BY <2>1, SumOfNone DEF Sum
    <2>2. CASE s # {}
      <3>1. PICK x \in s : TRUE
        BY <2>2
      <3> DEFINE r == s \ {x}
      <3>2. IsFiniteSet(s) /\ IsFiniteSet(r)
        BY FS_Subset
      <3>3. \A y \in s : f[y] \in Nat /\ g[y] \in Nat /\ h[y] \in Nat
        OBVIOUS
      <3>4. /\ Sum(f, s) = f[x] + Sum(f, r)
            /\ Sum(g, s) = g[x] + Sum(g, r)
            /\ Sum(h, s) = h[x] + Sum(h, r)
        BY <3>2, <3>3, SumStep DEF Sum
      <3>5. Sum(f, r) \in Nat /\ Sum(g, r) \in Nat
        BY <3>2, <3>3, SumType DEF Sum
      <3>6. r \in T
        <4> HIDE DEF T
        <4>1. QED
          BY <1>1
      <3>7. h[x] = f[x] + g[x] /\ f[x] \in Nat /\ g[x] \in Nat
        OBVIOUS
      <3> HIDE DEF r
      <3>8. QED
        BY <3>4, <3>5, <3>6, <3>7
    <2>3. QED
      BY <2>1, <2>2
  <1> HIDE DEF T
  <1>2. S \in T
    BY <1>1, SubsetInduction
  <1>3. QED
    BY <1>2 DEF T, Sum

\* What is summed is not more than the sum.
LEMMA SumBounds ==
    ASSUME NEW S, IsFiniteSet(S), NEW f, \A x \in S : f[x] \in Nat, NEW x \in S
    PROVE  f[x] <= SumFunctionOnSet(f, S)
  <1>1. IsFiniteSet(S \ {x})
    BY FS_Subset
  <1>2. SumFunctionOnSet(f, S \ {x}) \in Nat
    BY <1>1, SumType
  <1>3. SumFunctionOnSet(f, S) = f[x] + SumFunctionOnSet(f, S \ {x})
    BY SumStep
  <1>4. QED
    BY <1>2, <1>3

\* Indices for which nothing is added may be left out.
LEMMA SumWithoutZeros ==
    ASSUME NEW S, IsFiniteSet(S), NEW f, \A x \in S : f[x] \in Nat,
           NEW Z \in SUBSET S, \A x \in Z : f[x] = 0
    PROVE  SumFunctionOnSet(f, S) = SumFunctionOnSet(f, S \ Z)
  <1> DEFINE Sum(s) == SumFunctionOnSet(f, s)
             T == {s \in SUBSET Z : Sum(S) = Sum(S \ s)}
  <1> HIDE DEF Sum
  <1>1. ASSUME NEW s \in SUBSET Z, \A u \in SUBSET s : u # s => u \in T
        PROVE  s \in T
    <2>1. CASE s = {}
      BY <2>1
    <2>2. CASE s # {}
      <3>1. PICK x \in s : TRUE
        BY <2>2
      <3> DEFINE r == s \ {x}
      <3>2. Sum(S) = Sum(S \ r)
        <4>1. r \in T
          <5> HIDE DEF T
          <5>1. QED
            BY <1>1
        <4>2. QED
          BY <4>1
      <3>3. /\ IsFiniteSet(S \ r) /\ IsFiniteSet(S \ s)
            /\ x \in S \ r /\ (S \ r) \ {x} = S \ s
            /\ f[x] = 0
            /\ \A y \in S \ r : f[y] \in Nat
            /\ \A y \in S \ s : f[y] \in Nat
        BY FS_Subset
      <3>4. Sum(S \ s) \in Nat
        BY <3>3, SumType DEF Sum
      <3> HIDE DEF r
      <3>5. Sum(S \ r) = f[x] + Sum((S \ r) \ {x})
        BY <3>3, SumStep DEF Sum
      <3>6. QED
        BY <3>2, <3>3, <3>4, <3>5
    <2>3. QED
      BY <2>1, <2>2
  <1> HIDE DEF T
  <1>2. IsFiniteSet(Z)
    BY FS_Subset
  <1>3. Z \in T
    BY <1>1, <1>2, SubsetInduction
  <1>4. QED
    BY <1>3 DEF T, Sum

LEMMA SumOfZeros ==
    ASSUME NEW S, IsFiniteSet(S), NEW f, \A x \in S : f[x] = 0
    PROVE  SumFunctionOnSet(f, S) = 0
  <1>1. SumFunctionOnSet(f, S) = SumFunctionOnSet(f, S \ S)
    BY SumWithoutZeros
  <1>2. S \ S = {}
    OBVIOUS
  <1>3. QED
    BY <1>1, <1>2, SumOfNone

\* Only what f is on S makes a difference.
LEMMA SumAgrees ==
    ASSUME NEW S, IsFiniteSet(S), NEW f, NEW h,
           \A x \in S : f[x] \in Nat /\ h[x] = f[x]
    PROVE  SumFunctionOnSet(h, S) = SumFunctionOnSet(f, S)
  <1> DEFINE g == [x \in S |-> 0]
  <1>1. \A x \in S : g[x] \in Nat /\ g[x] = 0 /\ h[x] = f[x] + g[x]
    OBVIOUS
  <1> HIDE DEF g
  <1>2. SumFunctionOnSet(g, S) = 0
    BY <1>1, SumOfZeros
  <1>3. SumFunctionOnSet(h, S)
           = SumFunctionOnSet(f, S) + SumFunctionOnSet(g, S)
    BY <1>1, SumPlus
  <1>4. SumFunctionOnSet(f, S) \in Nat
    BY SumType
  <1>5. QED
    BY <1>2, <1>3, <1>4

\* The sum if all but one are zero.
LEMMA SumOfOne ==
    ASSUME NEW S, IsFiniteSet(S), NEW f, NEW x \in S, f[x] \in Nat,
           \A y \in S \ {x} : f[y] = 0
    PROVE  SumFunctionOnSet(f, S) = f[x]
  <1>1. SumFunctionOnSet(f, S \ {x}) = 0
    BY FS_Subset, SumOfZeros
  <1>2. SumFunctionOnSet(f, S) = f[x] + SumFunctionOnSet(f, S \ {x})
    BY SumStep
  <1>3. QED
    BY <1>1, <1>2

\* The sum if only what is added for x changes.
LEMMA SumOfChange ==
    ASSUME NEW S, IsFiniteSet(S), NEW f, NEW h, NEW x \in S,
           \A y \in S : f[y] \in Nat /\ h[y] \in Nat,
           \A y \in S \ {x} : h[y] = f[y]
    PROVE  SumFunctionOnSet(h, S) = SumFunctionOnSet(f, S) - f[x] + h[x]
  <1> DEFINE R == S \ {x}
  <1>1. IsFiniteSet(R) /\ \A y \in R : f[y] \in Nat /\ h[y] = f[y]
    BY FS_Subset
  <1>2. /\ SumFunctionOnSet(f, S) = f[x] + SumFunctionOnSet(f, R)
        /\ SumFunctionOnSet(h, S) = h[x] + SumFunctionOnSet(h, R)
    BY SumStep
  <1> HIDE DEF R
  <1>3. /\ SumFunctionOnSet(h, R) = SumFunctionOnSet(f, R)
        /\ SumFunctionOnSet(f, R) \in Nat
    BY <1>1, SumAgrees, SumType
  <1>4. QED
    BY <1>2, <1>3

\* The sum of ones counts them.
LEMMA SumOfOnes ==
    ASSUME NEW S, IsFiniteSet(S), NEW f, \A x \in S : f[x] = 1
    PROVE  SumFunctionOnSet(f, S) = Cardinality(S)
  <1> DEFINE Sum(s) == SumFunctionOnSet(f, s)
             T == {s \in SUBSET S : Sum(s) = Cardinality(s)}
  <1> HIDE DEF Sum
  <1>1. ASSUME NEW s \in SUBSET S, \A u \in SUBSET s : u # s => u \in T
        PROVE  s \in T
    <2>1. CASE s = {}
      BY <2>1, SumOfNone, FS_EmptySet DEF Sum
    <2>2. CASE s # {}
      <3>1. PICK x \in s : TRUE
        BY <2>2
      <3> DEFINE r == s \ {x}
      <3>2. Sum(r) = Cardinality(r)
        <4>1. r \in T
          <5> HIDE DEF T
          <5>1. QED
            BY <1>1
        <4>2. QED
          BY <4>1
      <3>3. IsFiniteSet(s) /\ f[x] = 1 /\ \A y \in s : f[y] \in Nat
        BY FS_Subset
      <3>4. Sum(s) = f[x] + Sum(r)
        BY <3>3, SumStep DEF Sum
      <3>5. Cardinality(r) = Cardinality(s) - 1 /\ Cardinality(s) \in Nat
        BY <3>3, FS_RemoveElement, FS_CardinalityType
      <3> HIDE DEF r
      <3>6. QED
        BY <3>2, <3>3, <3>4, <3>5
    <2>3. QED
      BY <2>1, <2>2
  <1> HIDE DEF T
  <1>2. S \in T
    BY <1>1, SubsetInduction
  <1>3. QED
    BY <1>2 DEF T, Sum
=============================================================================
