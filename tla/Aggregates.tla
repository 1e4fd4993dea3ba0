----------------------------- MODULE Aggregates -----------------------------
(***************************************************************************)
(* Facts about sums and selections that the proofs keep needing, for any     *)
(* finite set and any sequence.  They are inductions over data; they are     *)
(* done here by a minimal counterexample, from WFMin and the order of the    *)
(* naturals or the strict subsets of a finite set, and stated with sets and   *)
(* functions in place of predicates.                                        *)
(***************************************************************************)
EXTENDS Integers, Sequences, FiniteSetTheorems, FiniteSetsExt, Selections, TLAPS

-----------------------------------------------------------------------------
(* Induction on the natural numbers for a set T of them that need not be     *)
(* given by a predicate: a least number outside T would have a predecessor.  *)
LEMMA NatInduction0 ==
  ASSUME NEW T, 0 \in T, \A n \in Nat : n \in T => n + 1 \in T
  PROVE  Nat \subseteq T
<1> DEFINE Bad == Nat \ T
<1> SUFFICES ASSUME Bad # {} PROVE FALSE
  OBVIOUS
<1> DEFINE R == OpToRel(<, Nat)
<1>1. PICK x \in Bad : \A y \in Bad : ~ (<<y, x>> \in R)
  <2>1. IsWellFoundedOn(R, Nat)
    BY NatLessThanWellFounded
  <2>2. Bad \subseteq Nat
    OBVIOUS
  <2> HIDE DEF Bad, R
  <2> QED BY <2>1, <2>2, WFMin
<1>2. x # 0 /\ x \in Nat
  OBVIOUS
<1>3. x - 1 \in Bad
  BY <1>2
<1>4. <<x - 1, x>> \in R
  BY <1>2 DEF OpToRel
<1> QED BY <1>1, <1>3, <1>4

(* Induction on the subsets of a finite set: a minimal subset outside G would*)
(* have all its own subsets in G.                                            *)
LEMMA SubsetInduction ==
  ASSUME NEW S, IsFiniteSet(S), NEW G,
         \A T \in SUBSET S : (\A U \in SUBSET T : U # T => U \in G) => T \in G
  PROVE  SUBSET S \subseteq G
<1> DEFINE Bad == (SUBSET S) \ G
<1> SUFFICES ASSUME Bad # {} PROVE FALSE
  OBVIOUS
<1> DEFINE R == StrictSubsetOrdering(S)
<1>1. PICK x \in Bad : \A y \in Bad : ~ (<<y, x>> \in R)
  <2>1. IsWellFoundedOn(R, SUBSET S)
    <3>1. IsWellFoundedOn(StrictSubsetOrdering(S), FiniteSubsetsOf(S))
      BY FS_StrictSubsetOrderingWellFounded
    <3>2. FiniteSubsetsOf(S) = SUBSET S
      BY FS_FiniteSubsetsOfFinite
    <3> QED BY <3>1, <3>2
  <2>2. Bad \subseteq SUBSET S
    OBVIOUS
  <2> HIDE DEF Bad, R
  <2> QED BY <2>1, <2>2, WFMin
<1>2. PICK y \in SUBSET x : y # x /\ y \notin G
  OBVIOUS
<1>3. y \in Bad
  BY <1>2
<1>4. <<y, x>> \in R
  BY <1>2 DEF StrictSubsetOrdering
<1> QED BY <1>1, <1>3, <1>4

(* A computation of N steps: step[i] takes the i-th result to the next one,  *)
(* and every result is in R.                                                 *)
Steps(step, N, R) == \A i \in 1 .. N : \A r \in R : step[i][r] \in R

IsRun(f, N, R, base, step) ==
  /\ f \in [0 .. N -> R] /\ f[0] = base
  /\ \A i \in 1 .. N : f[i] = step[i][f[i - 1]]

(* Such a computation exists, from any base.                                 *)
LEMMA NatRecursion ==
  ASSUME NEW N \in Nat, NEW R, NEW base \in R, NEW step, Steps(step, N, R)
  PROVE  \E f : IsRun(f, N, R, base, step)
<1> USE DEF Steps
<1> DEFINE Upto(n) == {f \in [0 .. n -> R] :
                        /\ f[0] = base
                        /\ \A i \in 1 .. n : f[i] = step[i][f[i - 1]]}
           T == {n \in Nat : n <= N => Upto(n) # {}}
<1>1. 0 \in T
  <2>1. [i \in 0 .. 0 |-> base] \in Upto(0)
    OBVIOUS
  <2> QED BY <2>1
<1>2. ASSUME NEW n \in Nat, n \in T
      PROVE  n + 1 \in T
  <2> SUFFICES ASSUME n + 1 <= N PROVE Upto(n + 1) # {}
    <3> HIDE DEF Upto
    <3> QED BY <1>2
  <2>0. Upto(n) # {}
    <3> HIDE DEF Upto
    <3> QED BY <1>2
  <2>1. PICK f \in Upto(n) : TRUE
    BY <2>0
  <2> DEFINE g == [i \in 0 .. n + 1 |-> IF i = n + 1 THEN step[n + 1][f[n]] ELSE f[i]]
  <2>2. g \in [0 .. n + 1 -> R]
    BY <2>1
  <2>3. g[0] = base
    BY <2>1
  <2>4. \A i \in 1 .. n + 1 : g[i] = step[i][g[i - 1]]
    BY <2>1
  <2> QED BY <2>2, <2>3, <2>4
<1>3. N \in T
  <2> HIDE DEF T
  <2> QED BY <1>1, <1>2, NatInduction0
<1>4. PICK f \in Upto(N) : TRUE
  BY <1>3
<1> QED BY <1>4 DEF IsRun

(* h folds step over the subsets of T, taking the elements in pick's order,  *)
(* as MapThenFoldSet does.                                                   *)
IsFold(h, T, R, base, step, pick) ==
  /\ h \in [SUBSET T -> R]
  /\ \A U \in SUBSET T :
       h[U] = IF U = {} THEN base ELSE step[pick[U]][h[U \ {pick[U]}]]

Picks(pick, S) == \A T \in SUBSET S : T # {} => pick[T] \in T

(* A fold over a smaller set is the restriction of one over a larger set.    *)
LEMMA FoldUnique ==
  ASSUME NEW S, IsFiniteSet(S), NEW T, NEW R, NEW base, NEW step, NEW pick,
         Picks(pick, S), S \subseteq T,
         NEW g, IsFold(g, S, R, base, step, pick),
         NEW h, IsFold(h, T, R, base, step, pick)
  PROVE  \A U \in SUBSET S : g[U] = h[U]
<1> DEFINE G == {U \in SUBSET S : g[U] = h[U]}
<1>1. ASSUME NEW U \in SUBSET S, \A V \in SUBSET U : V # U => V \in G
      PROVE  U \in G
  <2>1. CASE U = {}
    BY <2>1 DEF IsFold
  <2>2. CASE U # {}
    <3>1. pick[U] \in U
      BY <2>2 DEF Picks
    <3>2. U \ {pick[U]} \in G
      BY <1>1, <3>1
    <3>3. g[U] = step[pick[U]][g[U \ {pick[U]}]]
      BY <2>2 DEF IsFold
    <3>4. h[U] = step[pick[U]][h[U \ {pick[U]}]]
      BY <2>2 DEF IsFold
    <3> QED BY <3>2, <3>3, <3>4
  <2> QED BY <2>1, <2>2
<1>2. SUBSET S \subseteq G
  <2> HIDE DEF G
  <2> QED BY <1>1, SubsetInduction
<1> QED BY <1>2

(* A finite set has a fold in any order.                                     *)
LEMMA FoldExists ==
  ASSUME NEW S, IsFiniteSet(S), NEW R, NEW base \in R, NEW step, NEW pick,
         Picks(pick, S), \A x \in S : \A r \in R : step[x][r] \in R
  PROVE  \E h : IsFold(h, S, R, base, step, pick)
<1> DEFINE Fold(h, T) == IsFold(h, T, R, base, step, pick)
           G == {T \in SUBSET S : \E h : Fold(h, T)}
<1>1. ASSUME NEW T \in SUBSET S, \A U \in SUBSET T : U # T => U \in G
      PROVE  T \in G
  <2> DEFINE F(U) == CHOOSE h : Fold(h, U)
             p(U) == U \ {pick[U]}
             h == [U \in SUBSET T |-> IF U # T THEN F(U)[U]
                                      ELSE IF T = {} THEN base
                                      ELSE step[pick[T]][F(p(T))[p(T)]]]
  <2>0. \A U \in SUBSET T : U # {} => /\ pick[U] \in U
                                       /\ p(U) \in SUBSET T /\ p(U) \in SUBSET U /\ p(U) # T
                                       /\ p(U) # U
    BY DEF Picks
  <2>1. ASSUME NEW U \in SUBSET T, U # T PROVE Fold(F(U), U)
    <3>1. \E hh : Fold(hh, U)
      BY <1>1, <2>1
    <3> HIDE DEF Fold
    <3> QED BY <3>1
  <2>2. ASSUME NEW U \in SUBSET T, U # T PROVE F(U)[U] \in R
    <3>1. Fold(F(U), U)
      BY <2>1, <2>2
    <3> HIDE DEF F
    <3> QED BY <3>1 DEF IsFold
  <2>3. ASSUME NEW U \in SUBSET T, U # T, U # {}
        PROVE  F(U)[U] = step[pick[U]][F(p(U))[p(U)]]
    <3>1. p(U) \in SUBSET U /\ p(U) \in SUBSET T /\ p(U) # T
      BY <2>0, <2>3
    <3>2. Fold(F(U), U) /\ Fold(F(p(U)), p(U))
      <4> HIDE DEF F, p, Fold
      <4> QED BY <2>1, <2>3, <3>1
    <3>3. F(p(U))[p(U)] = F(U)[p(U)]
      <4>1. IsFiniteSet(p(U)) /\ Picks(pick, p(U))
        BY <3>1, FS_Subset DEF Picks
      <4>2. \A V \in SUBSET p(U) : F(p(U))[V] = F(U)[V]
        <5> HIDE DEF F, p
        <5> QED BY <4>1, <3>1, <3>2, FoldUnique
      <4> HIDE DEF F, p
      <4> QED BY <4>2
    <3>4. F(U)[U] = step[pick[U]][F(U)[p(U)]]
      <4> HIDE DEF F
      <4> QED BY <3>2, <2>3 DEF IsFold
    <3> HIDE DEF F, p
    <3> QED BY <3>3, <3>4
  <2>4. h \in [SUBSET T -> R]
    <3>1. T # {} => F(p(T))[p(T)] \in R
      <4> HIDE DEF F, p
      <4> QED BY <2>0, <2>2
    <3>2. T # {} => pick[T] \in S
      BY <2>0
    <3> HIDE DEF F, p
    <3> QED BY <2>2, <3>1, <3>2
  <2>5. ASSUME NEW U \in SUBSET T
        PROVE  h[U] = IF U = {} THEN base ELSE step[pick[U]][h[p(U)]]
    <3>1. CASE U = {}
      <4>1. CASE U = T
        BY <3>1, <4>1
      <4>2. CASE U # T
        <5>1. Fold(F(U), U)
          BY <4>2, <2>1
        <5>2. F(U)[U] = base
          <6> HIDE DEF F
          <6> QED BY <5>1, <3>1 DEF IsFold
        <5> QED BY <5>2, <3>1, <4>2
      <4> QED BY <4>1, <4>2
    <3>2. CASE U # {}
      <4>1. h[p(U)] = F(p(U))[p(U)]
        <5> HIDE DEF F, p
        <5> QED BY <2>0, <3>2
      <4>2. h[U] = step[pick[U]][F(p(U))[p(U)]]
        <5> HIDE DEF F, p
        <5> QED BY <2>3, <3>2
      <4> HIDE DEF h, F, p
      <4> QED BY <4>1, <4>2, <3>2
    <3> QED BY <3>1, <3>2
  <2>6. Fold(h, T)
    <3> HIDE DEF h
    <3> QED BY <2>4, <2>5 DEF IsFold
  <2> HIDE DEF h, Fold
  <2> QED BY <2>6
<1>2. SUBSET S \subseteq G
  <2> HIDE DEF G
  <2> QED BY <1>1, SubsetInduction
<1> QED BY <1>2

(* The fold that SumFunctionOnSet takes: additions in CHOOSE's order.        *)
AnyOf(S) == [T \in SUBSET S |-> CHOOSE x \in T : TRUE]
Adding(f, S) == [x \in S |-> [r \in Int |-> f[x] + r]]

SumIs(h, f, S) == IsFold(h, S, Int, 0, Adding(f, S), AnyOf(S))

(* CHOOSE picks an element of every set that has one.                        *)
LEMMA AnyPicks == \A S : Picks(AnyOf(S), S)
BY DEF Picks, AnyOf

(* SumFunctionOnSet is that fold, defined on every finite set.               *)
LEMMA SumIsFold ==
  ASSUME NEW S, IsFiniteSet(S), NEW f, \A x \in S : f[x] \in Int
  PROVE  \E h : SumIs(h, f, S) /\ SumFunctionOnSet(f, S) = h[S]
<1>1. Picks(AnyOf(S), S)
  BY AnyPicks
<1>2. \A x \in S : \A r \in Int : Adding(f, S)[x][r] \in Int
  BY DEF Adding
<1>3. PICK h : SumIs(h, f, S)
  <2>1. 0 \in Int
    OBVIOUS
  <2> QED BY <1>1, <1>2, <2>1, FoldExists DEF SumIs
<1> DEFINE Eq(i) == i = [s \in SUBSET S |->
                          IF s = {} THEN 0
                          ELSE f[CHOOSE x \in s : TRUE] + i[s \ {CHOOSE x \in s : TRUE}]]
<1>4. Eq(h)
  BY <1>3 DEF SumIs, IsFold, Adding, AnyOf
<1>5. ASSUME NEW i, Eq(i) PROVE i[S] = h[S]
  <2> DEFINE G == {U \in SUBSET S : i[U] = h[U]}
  <2>1. ASSUME NEW U \in SUBSET S, \A V \in SUBSET U : V # U => V \in G
        PROVE  U \in G
    BY <1>4, <1>5, <2>1, SMTT(30)
  <2>2. SUBSET S \subseteq G
    <3> HIDE DEF G
    <3> QED BY <2>1, SubsetInduction
  <2> QED BY <2>2
<1>6. SumFunctionOnSet(f, S) = (CHOOSE i : Eq(i))[S]
  BY DEF SumFunctionOnSet, FoldFunctionOnSet, MapThenFoldSet
<1>7. Eq(CHOOSE i : Eq(i))
  <2> HIDE DEF Eq
  <2> QED BY <1>4
<1>8. (CHOOSE i : Eq(i))[S] = h[S]
  <2> HIDE DEF Eq
  <2> QED BY <1>5, <1>7
<1> HIDE DEF Eq
<1> QED BY <1>3, <1>6, <1>8

(* A sum is an integer, 0 on the empty set, and takes out some element.      *)
LEMMA SumUnfolds ==
  ASSUME NEW S, IsFiniteSet(S), NEW f, \A x \in S : f[x] \in Int
  PROVE  /\ SumFunctionOnSet(f, S) \in Int
         /\ S = {} => SumFunctionOnSet(f, S) = 0
         /\ S # {} => \E x \in S :
              SumFunctionOnSet(f, S) = f[x] + SumFunctionOnSet(f, S \ {x})
<1>1. PICK h : SumIs(h, f, S) /\ SumFunctionOnSet(f, S) = h[S]
  BY SumIsFold
<1>2. SumFunctionOnSet(f, S) \in Int /\ (S = {} => SumFunctionOnSet(f, S) = 0)
  BY <1>1 DEF SumIs, IsFold
<1>3. ASSUME S # {}
      PROVE \E x \in S : SumFunctionOnSet(f, S) = f[x] + SumFunctionOnSet(f, S \ {x})
  <2> DEFINE x == CHOOSE x \in S : TRUE
  <2>1. x \in S
    BY <1>3
  <2> DEFINE T == S \ {x}
  <2>2. T \subseteq S /\ IsFiniteSet(T) /\ \A y \in T : f[y] \in Int
    BY FS_Subset
  <2>3. PICK k : SumIs(k, f, T) /\ SumFunctionOnSet(f, T) = k[T]
    <3> HIDE DEF T
    <3> QED BY <2>2, SumIsFold
  <2>4. k[T] = h[T]
    <3> DEFINE G == {U \in SUBSET T : k[U] = h[U]}
    <3>1. ASSUME NEW U \in SUBSET T, \A V \in SUBSET U : V # U => V \in G
          PROVE  U \in G
      <4>1. CASE U = {}
        BY <4>1, <1>1, <2>3 DEF SumIs, IsFold
      <4>2. CASE U # {}
        <5> DEFINE y == CHOOSE y \in U : TRUE
        <5>1. y \in U
          BY <4>2
        <5>2. k[U] = f[y] + k[U \ {y}]
          BY <2>3, <4>2, <5>1 DEF SumIs, IsFold, Adding, AnyOf
        <5>3. h[U] = f[y] + h[U \ {y}]
          BY <1>1, <2>2, <4>2, <5>1 DEF SumIs, IsFold, Adding, AnyOf
        <5>4. U \ {y} \in G
          BY <3>1, <5>1
        <5> QED BY <5>2, <5>3, <5>4
      <4> QED BY <4>1, <4>2
    <3>2. SUBSET T \subseteq G
      <4> HIDE DEF G, T
      <4> QED BY <2>2, <3>1, SubsetInduction
    <3> QED BY <3>2
  <2>5. h[S] = f[x] + h[T]
    BY <1>1, <1>3, <2>1 DEF SumIs, IsFold, Adding, AnyOf
  <2> QED BY <1>1, <2>1, <2>3, <2>4, <2>5
<1> QED BY <1>2, <1>3

(* ... and any element: the order of the additions does not matter.          *)
LEMMA SumRemoves ==
  ASSUME NEW S, IsFiniteSet(S), NEW f, \A x \in S : f[x] \in Int, NEW a \in S
  PROVE  SumFunctionOnSet(f, S) = f[a] + SumFunctionOnSet(f, S \ {a})
<1> DEFINE Sum(T) == SumFunctionOnSet(f, T)
           G == {T \in SUBSET S : \A x \in T : Sum(T) = f[x] + Sum(T \ {x})}
<1>1. \A T \in SUBSET S : /\ IsFiniteSet(T) /\ \A x \in T : f[x] \in Int
                          /\ Sum(T) \in Int
  BY FS_Subset, SumUnfolds
<1>2. ASSUME NEW T \in SUBSET S, \A U \in SUBSET T : U # T => U \in G
      PROVE  T \in G
  <2> SUFFICES ASSUME NEW x \in T PROVE Sum(T) = f[x] + Sum(T \ {x})
    OBVIOUS
  <2>1. PICK y \in T : Sum(T) = f[y] + Sum(T \ {y})
    BY <1>1, SumUnfolds
  <2>2. CASE x = y
    BY <2>1, <2>2
  <2>3. CASE x # y
    <3> DEFINE R == (T \ {x}) \ {y}
    <3>1. Sum(T \ {y}) = f[x] + Sum(R)
      <4>1. T \ {y} \in G /\ x \in T \ {y} /\ (T \ {y}) \ {x} = R
        BY <1>2, <2>3
      <4> QED BY <4>1
    <3>2. Sum(T \ {x}) = f[y] + Sum(R)
      <4>1. T \ {x} \in G /\ y \in T \ {x}
        BY <1>2, <2>3
      <4> QED BY <4>1
    <3>3. Sum(R) \in Int /\ f[x] \in Int /\ f[y] \in Int
      <4>1. R \in SUBSET S
        OBVIOUS
      <4> HIDE DEF R, Sum
      <4> QED BY <1>1, <4>1
    <3> HIDE DEF R, Sum
    <3> QED BY <2>1, <3>1, <3>2, <3>3
  <2> QED BY <2>2, <2>3
<1>3. SUBSET S \subseteq G
  <2> HIDE DEF G
  <2> QED BY <1>2, SubsetInduction
<1>4. S \in SUBSET S
  OBVIOUS
<1> QED BY <1>3, <1>4

(* A sum over one more element has one more addend.                          *)
LEMMA SumAdds ==
  ASSUME NEW S, IsFiniteSet(S), NEW a, a \notin S, NEW f,
         \A x \in S \cup {a} : f[x] \in Int
  PROVE  SumFunctionOnSet(f, S \cup {a}) = f[a] + SumFunctionOnSet(f, S)
<1> DEFINE T == S \cup {a}
<1>1. IsFiniteSet(T) /\ a \in T /\ T \ {a} = S /\ \A x \in T : f[x] \in Int
  BY FS_AddElement
<1> HIDE DEF T
<1>2. SumFunctionOnSet(f, T) = f[a] + SumFunctionOnSet(f, T \ {a})
  BY <1>1, SumRemoves
<1> QED BY <1>1, <1>2 DEF T

(* Functions that agree on a set have the same sum over it.                  *)
LEMMA SumAgrees ==
  ASSUME NEW S, IsFiniteSet(S), NEW f, NEW g,
         \A x \in S : f[x] \in Int /\ g[x] = f[x]
  PROVE  SumFunctionOnSet(g, S) = SumFunctionOnSet(f, S)
<1> DEFINE F(T) == SumFunctionOnSet(f, T)
           H(T) == SumFunctionOnSet(g, T)
           G == {T \in SUBSET S : H(T) = F(T)}
<1>1. \A T \in SUBSET S : IsFiniteSet(T)
  BY FS_Subset
<1>2. ASSUME NEW T \in SUBSET S, \A U \in SUBSET T : U # T => U \in G
      PROVE  T \in G
  <2>0. IsFiniteSet(T) /\ (\A x \in T : f[x] \in Int) /\ (\A x \in T : g[x] \in Int)
    BY <1>1
  <2>1. CASE T = {}
    <3>1. F(T) = 0 /\ H(T) = 0
      BY <2>0, <2>1, SumUnfolds
    <3> QED BY <3>1
  <2>2. CASE T # {}
    <3>1. PICK x \in T : F(T) = f[x] + F(T \ {x})
      BY <2>0, <2>2, SumUnfolds
    <3>2. H(T) = g[x] + H(T \ {x})
      BY <2>0, SumRemoves
    <3>3. T \ {x} \in G
      BY <1>2
    <3>4. g[x] = f[x]
      OBVIOUS
    <3>5. H(T) = F(T)
      BY <3>1, <3>2, <3>3, <3>4
    <3> HIDE DEF F, H
    <3> QED BY <3>5
  <2> QED BY <2>1, <2>2
<1>3. SUBSET S \subseteq G
  <2> HIDE DEF G
  <2> QED BY <1>2, SubsetInduction
<1>4. S \in SUBSET S
  OBVIOUS
<1> QED BY <1>3, <1>4

(* Changing one addend changes the sum by the difference.                    *)
LEMMA SumChanges ==
  ASSUME NEW S, IsFiniteSet(S), NEW f, NEW g, NEW a \in S,
         \A x \in S : f[x] \in Int /\ g[x] \in Int,
         \A x \in S \ {a} : g[x] = f[x]
  PROVE  SumFunctionOnSet(g, S) = SumFunctionOnSet(f, S) - f[a] + g[a]
<1> DEFINE T == S \ {a}
<1>1. IsFiniteSet(T) /\ \A x \in T : f[x] \in Int /\ g[x] = f[x]
  BY FS_Subset
<1>2. SumFunctionOnSet(g, S) = g[a] + SumFunctionOnSet(g, T)
  BY SumRemoves
<1>3. SumFunctionOnSet(f, S) = f[a] + SumFunctionOnSet(f, T)
  BY SumRemoves
<1>4. SumFunctionOnSet(g, T) = SumFunctionOnSet(f, T)
  <2> HIDE DEF T
  <2> QED BY <1>1, SumAgrees
<1>5. SumFunctionOnSet(f, T) \in Int
  <2> HIDE DEF T
  <2> QED BY <1>1, SumUnfolds
<1>6. f[a] \in Int /\ g[a] \in Int
  OBVIOUS
<1> HIDE DEF T
<1> QED BY <1>2, <1>3, <1>4, <1>5, <1>6

(* A sum of zeros is zero.                                                   *)
LEMMA SumZero ==
  ASSUME NEW S, IsFiniteSet(S), NEW f, \A x \in S : f[x] = 0
  PROVE  SumFunctionOnSet(f, S) = 0
<1> DEFINE Sum(T) == SumFunctionOnSet(f, T)
           G == {T \in SUBSET S : Sum(T) = 0}
<1>1. ASSUME NEW T \in SUBSET S, \A U \in SUBSET T : U # T => U \in G
      PROVE  T \in G
  <2>1. IsFiniteSet(T) /\ \A x \in T : f[x] \in Int
    BY FS_Subset
  <2>2. T = {} => Sum(T) = 0
    BY <2>1, SumUnfolds
  <2>3. T # {} => \E x \in T : Sum(T) = f[x] + Sum(T \ {x})
    BY <2>1, SumUnfolds
  <2>4. \A x \in T : Sum(T \ {x}) = 0 /\ f[x] = 0
    BY <1>1
  <2>5. T # {} => Sum(T) = 0
    <3>1. SUFFICES ASSUME T # {} PROVE Sum(T) = 0
      OBVIOUS
    <3>2. PICK x \in T : Sum(T) = f[x] + Sum(T \ {x})
      BY <2>3, <3>1
    <3>3. Sum(T \ {x}) = 0 /\ f[x] = 0
      BY <2>4
    <3> HIDE DEF Sum
    <3> QED BY <3>2, <3>3
  <2> QED BY <2>2, <2>5
<1>2. SUBSET S \subseteq G
  <2> HIDE DEF G
  <2> QED BY <1>1, SubsetInduction
<1>3. S \in SUBSET S
  OBVIOUS
<1> QED BY <1>2, <1>3

(* A sum over two sets without a common element is the sum of both sums.     *)
LEMMA SumUnion ==
  ASSUME NEW A, IsFiniteSet(A), NEW B, IsFiniteSet(B), A \cap B = {},
         NEW f, \A x \in A \cup B : f[x] \in Int
  PROVE  SumFunctionOnSet(f, A \cup B) = SumFunctionOnSet(f, A) + SumFunctionOnSet(f, B)
<1> DEFINE Sum(T) == SumFunctionOnSet(f, T)
           G == {T \in SUBSET B : Sum(A \cup T) = Sum(A) + Sum(T)}
<1>1. \A T \in SUBSET B : IsFiniteSet(T) /\ IsFiniteSet(A \cup T)
  BY FS_Subset, FS_Union
<1>2. ASSUME NEW T \in SUBSET B, \A U \in SUBSET T : U # T => U \in G
      PROVE  T \in G
  <2>1. CASE T = {}
    <3>1. Sum(T) = 0 /\ Sum(A) \in Int
      BY <1>1, <2>1, SumUnfolds
    <3>2. A \cup T = A
      BY <2>1
    <3>4. Sum(A \cup T) = Sum(A)
      BY <3>2
    <3>3. Sum(A \cup T) = Sum(A) + Sum(T)
      <4> HIDE DEF Sum
      <4> QED
        BY <3>1, <3>4
    <3> QED
      BY <3>3
  <2>2. CASE T # {}
    <3>1. PICK a \in T : TRUE
      BY <2>2
    <3>2. a \notin A /\ (A \cup T) \ {a} = A \cup (T \ {a}) /\ T \ {a} \in SUBSET B
      OBVIOUS
    <3>3. Sum(A \cup (T \ {a})) = Sum(A) + Sum(T \ {a})
      <4>1. T \ {a} \in G
        BY <1>2
      <4> QED
        BY <4>1
    <3>4. Sum(T) = f[a] + Sum(T \ {a})
      BY <1>1, SumRemoves
    <3>5. Sum(A \cup T) = f[a] + Sum((A \cup T) \ {a})
      <4>1. IsFiniteSet(A \cup T) /\ a \in A \cup T /\ \A x \in A \cup T : f[x] \in Int
        BY <1>1
      <4> QED
        BY <4>1, SumRemoves
    <3>6. Sum(A) \in Int /\ Sum(T \ {a}) \in Int /\ f[a] \in Int
      <4>1. IsFiniteSet(T \ {a}) /\ IsFiniteSet(A)
        BY <1>1, <3>2
      <4> QED
        BY <4>1, SumUnfolds
    <3>8. Sum((A \cup T) \ {a}) = Sum(A \cup (T \ {a}))
      BY <3>2
    <3>7. Sum(A \cup T) = Sum(A) + Sum(T)
      <4> HIDE DEF Sum
      <4> QED
        BY <3>3, <3>4, <3>5, <3>6, <3>8
    <3> QED
      BY <3>7
  <2> QED
    BY <2>1, <2>2
<1>3. SUBSET B \subseteq G
  <2> HIDE DEF G
  <2> QED
    BY <1>2, SubsetInduction
<1> QED
  BY <1>3

(* v holds the sums of f over parts of I that have no element in common.     *)
SumsOfParts(v, f, part, P, I) ==
  /\ \A x \in I : f[x] \in Int
  /\ \A p \in P : part[p] \in SUBSET I /\ v[p] = SumFunctionOnSet(f, part[p])
  /\ \A p, q \in P : p # q => part[p] \cap part[q] = {}

(* The sum of the sums over the parts of a partition is the sum over the     *)
(* whole.                                                                   *)
LEMMA SumOfSums ==
  ASSUME NEW P, IsFiniteSet(P), NEW I, IsFiniteSet(I), NEW part, NEW f, NEW v,
         SumsOfParts(v, f, part, P, I)
  PROVE  SumFunctionOnSet(v, P) = SumFunctionOnSet(f, UNION {part[p] : p \in P})
<1> DEFINE Sum(T) == SumFunctionOnSet(f, T)
           All(T) == UNION {part[p] : p \in T}
           V(T) == SumFunctionOnSet(v, T)
           G == {T \in SUBSET P : V(T) = Sum(All(T))}
<1> USE DEF SumsOfParts
<1>1. \A T \in SUBSET P : IsFiniteSet(T) /\ All(T) \in SUBSET I /\ IsFiniteSet(All(T))
  BY FS_Subset
<1>2. \A p \in P : v[p] \in Int
  <2> SUFFICES ASSUME NEW p \in P PROVE v[p] \in Int
    OBVIOUS
  <2>1. IsFiniteSet(part[p]) /\ \A x \in part[p] : f[x] \in Int
    BY FS_Subset
  <2>2. SumFunctionOnSet(f, part[p]) \in Int
    BY <2>1, SumUnfolds
  <2> QED
    BY <2>2
<1>3. ASSUME NEW T \in SUBSET P, \A U \in SUBSET T : U # T => U \in G
      PROVE  T \in G
  <2>1. CASE T = {}
    <3>1. V(T) = 0
      BY <1>1, <2>1, SumUnfolds
    <3>2. All(T) = {}
      BY <2>1
    <3>3. Sum(All(T)) = 0
      BY <1>1, <3>2, SumUnfolds
    <3> QED
      BY <3>1, <3>3
  <2>2. CASE T # {}
    <3>1. PICK a \in T : TRUE
      BY <2>2
    <3>2. V(T \ {a}) = Sum(All(T \ {a}))
      <4>1. T \ {a} \in G
        BY <1>3
      <4> QED
        BY <4>1
    <3>3. V(T) = v[a] + V(T \ {a})
      BY <1>1, <1>2, SumRemoves
    <3>4. All(T) = part[a] \cup All(T \ {a})
      OBVIOUS
    <3>5. part[a] \cap All(T \ {a}) = {}
      OBVIOUS
    <3>6. Sum(part[a] \cup All(T \ {a})) = Sum(part[a]) + Sum(All(T \ {a}))
      <4> DEFINE A == part[a]
                 B == All(T \ {a})
      <4>1. A \in SUBSET I /\ B \in SUBSET I /\ A \cap B = {}
        BY <1>1, <3>5
      <4> HIDE DEF A, B
      <4>2. IsFiniteSet(A) /\ IsFiniteSet(B) /\ \A x \in A \cup B : f[x] \in Int
        BY <4>1, FS_Subset
      <4>3. Sum(A \cup B) = Sum(A) + Sum(B)
        BY <4>1, <4>2, SumUnion
      <4> QED
        BY <4>3 DEF A, B
    <3>7. v[a] = Sum(part[a])
      OBVIOUS
    <3> HIDE DEF Sum, All, V
    <3>8. V(T) = Sum(All(T))
      BY <3>2, <3>3, <3>4, <3>6, <3>7
    <3> QED
      BY <3>8
  <2> QED
    BY <2>1, <2>2
<1>4. SUBSET P \subseteq G
  <2> HIDE DEF G
  <2> QED
    BY <1>3, SubsetInduction
<1> QED
  BY <1>4

-----------------------------------------------------------------------------
(* Minima, maxima and selections.                                          *)

(* A set of naturals that is not empty has its Min.                          *)
LEMMA LeastExists ==
  ASSUME NEW S \in SUBSET Nat, S # {}
  PROVE  Min(S) \in S /\ \A y \in S : Min(S) <= y
<1> DEFINE R == OpToRel(<, Nat)
<1>1. PICK x \in S : \A y \in S : ~ (<<y, x>> \in R)
  <2>1. IsWellFoundedOn(R, Nat)
    BY NatLessThanWellFounded
  <2> HIDE DEF R
  <2> QED BY <2>1, WFMin
<1>2. \A y \in S : x <= y
  <2> SUFFICES ASSUME NEW y \in S PROVE x <= y
    OBVIOUS
  <2>1. ~(<<y, x>> \in R)
    BY <1>1
  <2> QED BY <2>1 DEF OpToRel
<1>3. \E z \in S : \A y \in S : z <= y
  BY <1>2
<1> QED BY <1>3 DEF Min

(* The greatest element of a set of integers is its Max, and the least its   *)
(* Min.                                                                     *)
LEMMA MaxIs ==
  ASSUME NEW S \in SUBSET Int, NEW m \in S, \A y \in S : m >= y
  PROVE  Max(S) = m
<1>1. \E x \in S : \A y \in S : x >= y
  OBVIOUS
<1>2. PICK x \in S : x = Max(S) /\ \A y \in S : x >= y
  BY <1>1 DEF Max
<1>3. x \in Int /\ m \in Int /\ x >= m /\ m >= x
  BY <1>2
<1>4. x = m
  BY <1>3
<1> QED
  BY <1>2, <1>4

LEMMA MinIs ==
  ASSUME NEW S \in SUBSET Int, NEW m \in S, \A y \in S : m <= y
  PROVE  Min(S) = m
<1>1. \E x \in S : \A y \in S : x <= y
  OBVIOUS
<1>2. PICK x \in S : x = Min(S) /\ \A y \in S : x <= y
  BY <1>1 DEF Min
<1>3. x \in Int /\ m \in Int /\ x <= m /\ m <= x
  BY <1>2
<1>4. x = m
  BY <1>3
<1> QED
  BY <1>2, <1>4

(* A finite set of integers that is not empty has its Max.                   *)
LEMMA GreatestExists ==
  ASSUME NEW S \in SUBSET Int, IsFiniteSet(S), S # {}
  PROVE  Max(S) \in S /\ \A y \in S : Max(S) >= y
<1> DEFINE G == {T \in SUBSET S : T # {} => \E x \in T : \A y \in T : x >= y}
<1>1. ASSUME NEW T \in SUBSET S, \A U \in SUBSET T : U # T => U \in G PROVE T \in G
  <2> SUFFICES ASSUME T # {} PROVE \E x \in T : \A y \in T : x >= y
    OBVIOUS
  <2>1. PICK a \in T : TRUE
    OBVIOUS
  <2>2. T \ {a} \in G
    BY <1>1, ZenonT(30)
  <2>3. CASE T \ {a} = {}
    <3>1. T = {a}
      BY <2>3
    <3> QED
      BY <3>1
  <2>4. CASE T \ {a} # {}
    <3>1. PICK x \in T \ {a} : \A y \in T \ {a} : x >= y
      BY <2>2, <2>4
    <3>2. x >= a \/ a >= x
      OBVIOUS
    <3>3. CASE x >= a
      BY <3>1, <3>3
    <3>4. CASE a >= x
      BY <3>1, <3>4
    <3> QED
      BY <3>2, <3>3, <3>4
  <2> QED
    BY <2>3, <2>4
<1>2. S \in G
  <2> HIDE DEF G
  <2> QED
    BY <1>1, SubsetInduction
<1>3. \E x \in S : \A y \in S : x >= y
  BY <1>2
<1> QED
  BY <1>3 DEF Max

(* What the function inside Only is.                                         *)
Kept(s, keep, f) ==
  f = [n \in 0 .. Len(s) |->
         IF n = 0 THEN <<>>
         ELSE IF s[n] \in keep THEN Append(f[n - 1], s[n]) ELSE f[n - 1]]

(* The comprehension keeps the elements of the list that are in the set.     *)
LEMMA OnlyFacts ==
  ASSUME NEW T, NEW s \in Seq(T), NEW keep
  PROVE  /\ Only(s, keep) \in Seq(T) /\ Len(Only(s, keep)) <= Len(s)
         /\ Range(Only(s, keep)) = Range(s) \cap keep
<1> DEFINE N == Len(s)
           step == [n \in 1 .. N |-> [r \in Seq(T) |->
                      IF s[n] \in keep THEN Append(r, s[n]) ELSE r]]
<1>1. N \in Nat /\ <<>> \in Seq(T) /\ \A n \in 1 .. N : s[n] \in T
  OBVIOUS
<1>2. \A n \in 1 .. N : \A r \in Seq(T) : step[n][r] \in Seq(T)
  BY <1>1
<1>3. PICK f \in [0 .. N -> Seq(T)] : f[0] = <<>> /\ \A n \in 1 .. N : f[n] = step[n][f[n - 1]]
  <2> HIDE DEF N, step
  <2>1. Steps(step, N, Seq(T))
    BY <1>2 DEF Steps
  <2>2. \E f : IsRun(f, N, Seq(T), <<>>, step)
    BY <1>1, <2>1, NatRecursion
  <2> QED BY <2>2 DEF IsRun
<1>4. Kept(s, keep, f)
  <2>1. \A n \in 1 .. N : f[n - 1] \in Seq(T)
    BY <1>1, <1>3
  <2>2. \A n \in 1 .. N : f[n] = IF s[n] \in keep THEN Append(f[n - 1], s[n]) ELSE f[n - 1]
    BY <1>3, <2>1
  <2> HIDE DEF step
  <2>3. f = [n \in 0 .. N |->
               IF n = 0 THEN <<>>
               ELSE IF s[n] \in keep THEN Append(f[n - 1], s[n]) ELSE f[n - 1]]
    <3>1. \A n \in 0 .. N :
            f[n] = IF n = 0 THEN <<>>
                   ELSE IF s[n] \in keep THEN Append(f[n - 1], s[n]) ELSE f[n - 1]
      <4> SUFFICES ASSUME NEW n \in 0 .. N
                   PROVE  f[n] = IF n = 0 THEN <<>>
                                 ELSE IF s[n] \in keep THEN Append(f[n - 1], s[n]) ELSE f[n - 1]
        OBVIOUS
      <4>1. n # 0 => n \in 1 .. N
        BY <1>1
      <4> QED BY <1>3, <2>2, <4>1
    <3>2. f = [n \in 0 .. N |-> f[n]]
      BY <1>3
    <3> HIDE DEF N
    <3> QED BY <3>1, <3>2
  <2> QED BY <2>3 DEF Kept
<1> DEFINE g == CHOOSE g : Kept(s, keep, g)
<1>5. Kept(s, keep, g)
  BY <1>4
<1>6. Only(s, keep) = g[N]
  BY DEF Only, Kept
<1> HIDE DEF g
<1> DEFINE G == {n \in Nat : n <= N =>
                   /\ g[n] \in Seq(T) /\ Len(g[n]) <= n
                   /\ Range(g[n]) = {s[i] : i \in 1 .. n} \cap keep}
<1>7. 0 \in G
  <2>1. g[0] = <<>>
    BY <1>1, <1>5 DEF Kept
  <2>2. <<>> \in Seq(T) /\ Len(<<>>) <= 0 /\ Range(<<>>) = {}
    BY DEF Range
  <2>3. {s[i] : i \in 1 .. 0} = {}
    OBVIOUS
  <2> QED BY <2>1, <2>2, <2>3
<1>8. ASSUME NEW n \in Nat, n \in G PROVE n + 1 \in G
  <2> SUFFICES ASSUME n + 1 <= N
               PROVE  /\ g[n + 1] \in Seq(T) /\ Len(g[n + 1]) <= n + 1
                      /\ Range(g[n + 1]) = {s[i] : i \in 1 .. n + 1} \cap keep
    OBVIOUS
  <2>1. /\ g[n] \in Seq(T) /\ Len(g[n]) <= n /\ Range(g[n]) = {s[i] : i \in 1 .. n} \cap keep
        /\ s[n + 1] \in T
    BY <1>1, <1>8
  <2>2. g[n + 1] = IF s[n + 1] \in keep THEN Append(g[n], s[n + 1]) ELSE g[n]
    <3>1. n + 1 \in 0 .. N /\ n + 1 # 0 /\ (n + 1) - 1 = n
      BY <1>1
    <3> QED BY <1>5, <3>1 DEF Kept
  <2>3. {s[i] : i \in 1 .. n + 1} = {s[i] : i \in 1 .. n} \cup {s[n + 1]}
    <3>1. 1 .. n + 1 = 1 .. n \cup {n + 1}
      OBVIOUS
    <3> QED BY <3>1
  <2>4. CASE s[n + 1] \in keep
    <3> DEFINE r == g[n]
    <3>1. /\ Append(r, s[n + 1]) \in Seq(T) /\ Len(Append(r, s[n + 1])) = Len(r) + 1
          /\ Len(r) \in Nat
      BY <2>1
    <3>2. Range(Append(r, s[n + 1])) = Range(r) \cup {s[n + 1]}
      <4> HIDE DEF r
      <4>1. r \in Seq(T)
        BY <2>1 DEF r
      <4>2. DOMAIN Append(r, s[n + 1]) = DOMAIN r \cup {Len(r) + 1}
        BY <2>1, <4>1
      <4>3. /\ \A i \in DOMAIN r : Append(r, s[n + 1])[i] = r[i]
            /\ Append(r, s[n + 1])[Len(r) + 1] = s[n + 1]
        BY <2>1, <4>1
      <4> QED BY <4>2, <4>3 DEF Range
    <3> QED BY <2>1, <2>2, <2>3, <2>4, <3>1, <3>2
  <2>5. CASE s[n + 1] \notin keep
    BY <2>1, <2>2, <2>3, <2>5
  <2> QED BY <2>4, <2>5
<1>9. N \in G
  <2> HIDE DEF G
  <2> QED BY <1>1, <1>7, <1>8, NatInduction0
<1>10. Range(s) = {s[i] : i \in 1 .. N}
  BY DEF Range
<1> QED
  BY <1>1, <1>6, <1>9, <1>10
=============================================================================
