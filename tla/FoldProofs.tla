----------------------------- MODULE FoldProofs -----------------------------
(***************************************************************************)
(* What the folds and sums of the model's operators compute, for data of   *)
(* every size.  The community modules define a fold by recursion over the  *)
(* subsets of a finite set and take the elements in some order; here the   *)
(* recursion is shown to have a solution, and a sum of numbers not to      *)
(* depend on the order.  Induction is over a set of naturals, which the    *)
(* provers can instantiate.                                                *)
(***************************************************************************)
EXTENDS Sequences, Functions, FiniteSetsExt, FiniteSetTheorems, NaturalsInduction, TLAPS

\* Induction over the naturals, for a set of them.
LEMMA NatSetInduction ==
    ASSUME NEW T, T \subseteq Nat, 0 \in T, \A n \in T : n + 1 \in T
    PROVE  \A n \in Nat : n \in T
  <1> DEFINE U == Nat \ T
             R == OpToRel(<, Nat)
  <1> SUFFICES ASSUME U # {} PROVE FALSE
    OBVIOUS
  <1>1. \E k \in U : \A m \in U : ~(<<m, k>> \in R)
    <2>1. IsWellFoundedOn(R, Nat)
      BY NatLessThanWellFounded DEF R
    <2>2. U \subseteq Nat
      OBVIOUS
    <2> HIDE DEF U, R
    <2> QED BY <2>1, <2>2, WFMin
  <1>2. PICK k \in U : \A m \in U : ~(<<m, k>> \in R)
    BY <1>1
  <1>3. \A m \in U : ~(m < k)
    BY <1>2 DEF OpToRel
  <1>4. k # 0 /\ k - 1 \in Nat /\ k - 1 < k
    OBVIOUS
  <1>5. k - 1 \in T
    BY <1>3, <1>4
  <1> QED BY <1>5, <1>4

\* One step of a fold of the set s: choose c[s], fold the rest, combine.
FoldStep(g, base, c, G, s) == g[s] = IF s = {} THEN base ELSE G[<<c[s], g[s \ {c[s]}]>>]

\* A subset of a finite set, and the rest of it once an element is taken out.
LEMMA SubsetRest ==
    ASSUME NEW S, IsFiniteSet(S), NEW s \in SUBSET S
    PROVE  /\ IsFiniteSet(s) /\ Cardinality(s) \in Nat
           /\ \A x \in s : Cardinality(s \ {x}) = Cardinality(s) - 1
           /\ Cardinality(s) = 0 <=> s = {}
           /\ Cardinality(s) <= Cardinality(S)
  <1>1. IsFiniteSet(s) /\ Cardinality(s) <= Cardinality(S)
    BY FS_Subset
  <1>2. Cardinality(s) \in Nat /\ (Cardinality(s) = 0 <=> s = {})
    BY <1>1, FS_CardinalityType, FS_EmptySet
  <1>3. \A x \in s : Cardinality(s \ {x}) = Cardinality(s) - 1
    BY <1>1, FS_RemoveElement
  <1> QED BY <1>1, <1>2, <1>3

\* A fold over the subsets of a finite set is defined.
LEMMA FoldExists ==
    ASSUME NEW S, IsFiniteSet(S), NEW V, NEW base \in V, NEW c, NEW G \in [S \X V -> V],
           \A s \in SUBSET S : s # {} => c[s] \in s
    PROVE  \E g \in [SUBSET S -> V] : \A s \in SUBSET S : FoldStep(g, base, c, G, s)
  <1> DEFINE Small(n) == {s \in SUBSET S : Cardinality(s) <= n}
             Good(n, g) == g \in [Small(n) -> V] /\ \A s \in Small(n) : FoldStep(g, base, c, G, s)
             T == {n \in Nat : \E g : Good(n, g)}
  <1>a. ASSUME NEW n \in Nat, NEW s \in Small(n + 1), s # {}
        PROVE  c[s] \in S /\ s \ {c[s]} \in Small(n)
    <2>1. s \in SUBSET S /\ Cardinality(s) <= n + 1
      OBVIOUS
    <2>2. Cardinality(s) \in Nat /\ \A x \in s : Cardinality(s \ {x}) = Cardinality(s) - 1
      BY <2>1, SubsetRest
    <2>3. c[s] \in s
      BY <1>a, <2>1, Zenon
    <2>4. s \ {c[s]} \in SUBSET S /\ c[s] \in S
      BY <2>1, <2>3
    <2>5. Cardinality(s \ {c[s]}) = Cardinality(s) - 1
      BY <2>2, <2>3
    <2> QED BY <2>1, <2>2, <2>4, <2>5
  <1>b. ASSUME NEW n \in Nat, NEW s \in Small(n) PROVE n = 0 => s = {}
    <2>1. s \in SUBSET S /\ Cardinality(s) <= n
      OBVIOUS
    <2>2. Cardinality(s) \in Nat /\ (Cardinality(s) = 0 => s = {})
      BY <2>1, FS_Subset, FS_CardinalityType, FS_EmptySet
    <2> QED BY <2>1, <2>2
  <1>c. ASSUME NEW n \in Nat, NEW s \in Small(n) PROVE s \in Small(n + 1)
    <2>1. s \in SUBSET S /\ Cardinality(s) <= n
      OBVIOUS
    <2>2. Cardinality(s) \in Nat
      BY <2>1, SubsetRest, Zenon
    <2> QED BY <2>1, <2>2
  <1>d. \A n \in Nat : {} \in Small(n)
    BY FS_EmptySet
  <1> HIDE DEF Small
  <1>2. 0 \in T
    <2> DEFINE g == [s \in Small(0) |-> base]
    <2>1. \A s \in Small(0) : s = {}
      BY <1>b
    <2>2. Good(0, g)
      BY <2>1 DEF FoldStep
    <2> HIDE DEF g, Good
    <2> QED BY <2>2
  <1>3. ASSUME NEW n \in T PROVE n + 1 \in T
    <2>0. n \in Nat /\ n + 1 \in Nat /\ n + 1 # 0 /\ n + 1 - 1 = n
      OBVIOUS
    <2>1. PICK g : Good(n, g)
      OBVIOUS
    <2> DEFINE h == [s \in Small(n + 1) |->
                        IF s \in Small(n) THEN g[s] ELSE G[<<c[s], g[s \ {c[s]}]>>]]
    <2>2. \A s \in Small(n + 1) : s # {} => c[s] \in S /\ s \ {c[s]} \in Small(n)
      BY <1>a, <2>0, Zenon
    <2>3. \A s \in Small(n) : s \in Small(n + 1) /\ (s # {} => s \ {c[s]} \in Small(n))
      BY <1>c, <2>0, <2>2
    <2>4. \A s \in Small(n + 1) : s \notin Small(n) => s # {}
      BY <1>d, <2>0
    <2>5. \A s \in Small(n + 1) : h[s] \in V
      BY <2>1, <2>2, <2>4
    <2>6. \A s \in Small(n + 1) : FoldStep(h, base, c, G, s)
      <3> SUFFICES ASSUME NEW s \in Small(n + 1) PROVE FoldStep(h, base, c, G, s)
        OBVIOUS
      <3>1. s # {} => h[s \ {c[s]}] = g[s \ {c[s]}]
        BY <2>2, <2>3
      <3>2. CASE s \in Small(n)
        BY <3>1, <3>2, <2>1, <2>3 DEF FoldStep
      <3>3. CASE s \notin Small(n)
        BY <3>1, <3>3, <2>4 DEF FoldStep
      <3> QED BY <3>2, <3>3
    <2>7. Good(n + 1, h)
      BY <2>5, <2>6
    <2> HIDE DEF h, Good
    <2> QED BY <2>0, <2>7
  <1>4. Cardinality(S) \in T
    <2> HIDE DEF T
    <2>1. T \subseteq Nat
      BY DEF T
    <2>2. Cardinality(S) \in Nat
      BY FS_CardinalityType
    <2> QED BY <1>2, <1>3, <2>1, <2>2, NatSetInduction
  <1>5. PICK g : Good(Cardinality(S), g)
    BY <1>4
  <1>6. Small(Cardinality(S)) = SUBSET S
    BY FS_Subset DEF Small
  <1> QED BY <1>5, <1>6

\* Induction over the subsets of a finite set, an element at a time.
LEMMA SubsetInduction ==
    ASSUME NEW S, IsFiniteSet(S), NEW c, NEW J, {} \in J,
           \A s \in SUBSET S : s # {} => c[s] \in s,
           \A s \in SUBSET S : s # {} /\ s \ {c[s]} \in J => s \in J
    PROVE  \A s \in SUBSET S : s \in J
  <1> DEFINE T == {n \in Nat : \A s \in SUBSET S : Cardinality(s) = n => s \in J}
  <1>1. ASSUME NEW s \in SUBSET S
        PROVE  /\ Cardinality(s) \in Nat /\ (Cardinality(s) = 0 <=> s = {})
               /\ \A x \in s : Cardinality(s \ {x}) = Cardinality(s) - 1
    BY SubsetRest
  <1>2. 0 \in T
    BY <1>1
  <1>3. ASSUME NEW n \in T PROVE n + 1 \in T
    <2>0. n \in Nat
      OBVIOUS
    <2>1. ASSUME NEW s \in SUBSET S, Cardinality(s) = n + 1 PROVE s \in J
      <3>1. s # {}
        BY <1>1, <2>0, <2>1
      <3>2. c[s] \in s
        BY <3>1
      <3>3. s \ {c[s]} \in SUBSET S /\ Cardinality(s \ {c[s]}) = n
        BY <1>1, <2>0, <2>1, <3>2
      <3>4. s \ {c[s]} \in J
        BY <3>3
      <3> QED BY <3>1, <3>4
    <2> QED BY <2>0, <2>1
  <1> HIDE DEF T
  <1>4. \A n \in Nat : n \in T
    BY <1>2, <1>3, NatSetInduction DEF T
  <1> QED BY <1>1, <1>4 DEF T

\* A finite set of numbers has a greatest.
LEMMA MaxOf ==
    ASSUME NEW S \in SUBSET Nat, IsFiniteSet(S), S # {}
    PROVE  Max(S) \in S /\ \A y \in S : y <= Max(S)
  <1> DEFINE c == [s \in SUBSET S |-> CHOOSE x \in s : TRUE]
             J == {s \in SUBSET S : s = {} \/ \E x \in s : \A y \in s : x >= y}
  <1>1. \A s \in SUBSET S : s # {} => c[s] \in s
    OBVIOUS
  <1>2. {} \in J
    OBVIOUS
  <1>3. ASSUME NEW s \in SUBSET S, s # {}, s \ {c[s]} \in J PROVE s \in J
    <2> DEFINE z == c[s]
    <2>1. z \in s /\ z \in Nat
      BY <1>1, <1>3
    <2>2. s \ {z} = {} \/ \E x \in s \ {z} : \A y \in s \ {z} : x >= y
      BY <1>3
    <2> HIDE DEF z
    <2>3. CASE s \ {z} = {}
      <3>1. \A y \in s : z >= y
        BY <2>1, <2>3
      <3> QED BY <2>1, <3>1
    <2>4. CASE \E x \in s \ {z} : \A y \in s \ {z} : x >= y
      <3>1. PICK x \in s \ {z} : \A y \in s \ {z} : x >= y
        BY <2>4
      <3>2. x \in Nat /\ x \in s
        OBVIOUS
      <3>3. CASE x >= z
        <4>1. \A y \in s : x >= y
          BY <3>1, <3>3
        <4> QED BY <3>2, <4>1
      <3>4. CASE ~(x >= z)
        <4>1. \A y \in s : z >= y
          BY <2>1, <3>1, <3>2, <3>4
        <4> QED BY <2>1, <4>1
      <3> QED BY <3>3, <3>4
    <2> QED BY <2>2, <2>3, <2>4
  <1>4. S \in J
    <2>1. \A s \in SUBSET S : s # {} /\ s \ {c[s]} \in J => s \in J
      BY <1>3
    <2> HIDE DEF c, J
    <2>2. \A s \in SUBSET S : s \in J
      BY <1>1, <1>2, <2>1, SubsetInduction
    <2> QED BY <2>2
  <1>5. \E x \in S : \A y \in S : x >= y
    BY <1>4
  <1>6. Max(S) \in S /\ \A y \in S : Max(S) >= y
    BY <1>5 DEF Max
  <1> QED BY <1>6

----------------------------------------------------------------------------
(* Sums (SumFunctionOnSet and SumFunction of module Functions). *)

Pick(s) == CHOOSE x \in s : TRUE
IsSum(g, f, S) == g = [s \in SUBSET S |-> IF s = {} THEN 0 ELSE f[Pick(s)] + g[s \ {Pick(s)}]]

\* The definition, unfolded.
LEMMA SumUnfolds ==
    ASSUME NEW f, NEW S
    PROVE  SumFunctionOnSet(f, S) = (CHOOSE g : IsSum(g, f, S))[S]
  BY Zenon DEF SumFunctionOnSet, FoldFunctionOnSet, MapThenFoldSet, IsSum, Pick

\* The recursion has a solution.
LEMMA SumExists ==
    ASSUME NEW S, IsFiniteSet(S), NEW f, \A x \in S : f[x] \in Int
    PROVE  \E g \in [SUBSET S -> Int] : IsSum(g, f, S)
  <1> DEFINE c == [s \in SUBSET S |-> Pick(s)]
             G == [p \in S \X Int |-> f[p[1]] + p[2]]
  <1>1. G \in [S \X Int -> Int]
    OBVIOUS
  <1>2. \A s \in SUBSET S : s # {} => c[s] \in s
    BY DEF Pick
  <1>3. PICK g \in [SUBSET S -> Int] : \A s \in SUBSET S : FoldStep(g, 0, c, G, s)
    <2> HIDE DEF c, G
    <2>1. 0 \in Int
      OBVIOUS
    <2> QED BY <1>1, <1>2, <2>1, FoldExists, Zenon
  <1>4. ASSUME NEW s \in SUBSET S
        PROVE  g[s] = IF s = {} THEN 0 ELSE f[Pick(s)] + g[s \ {Pick(s)}]
    <2>1. s # {} => c[s] = Pick(s) /\ Pick(s) \in S /\ g[s \ {Pick(s)}] \in Int
      BY <1>2
    <2>2. g[s] = IF s = {} THEN 0 ELSE G[<<c[s], g[s \ {c[s]}]>>]
      BY <1>3 DEF FoldStep
    <2>3. s # {} => G[<<Pick(s), g[s \ {Pick(s)}]>>] = f[Pick(s)] + g[s \ {Pick(s)}]
      BY <2>1
    <2> HIDE DEF c, G
    <2> QED BY <2>1, <2>2, <2>3
  <1> HIDE DEF c, G
  <1>5. IsSum(g, f, S)
    BY <1>4 DEF IsSum
  <1> QED BY <1>5

\* A sum over a set and over its subsets agree: the recursion has one solution.
LEMMA SumUnique ==
    ASSUME NEW S, IsFiniteSet(S), NEW R \in SUBSET S, NEW f, NEW g, NEW h, IsSum(g, f, S), IsSum(h, f, R)
    PROVE  \A s \in SUBSET R : g[s] = h[s]
  <1> DEFINE T == {n \in Nat : \A s \in SUBSET R : Cardinality(s) = n => g[s] = h[s]}
  <1>0. ASSUME NEW s \in SUBSET R
        PROVE  /\ s \in SUBSET S /\ Cardinality(s) \in Nat
               /\ Cardinality(s) = 0 => s = {}
               /\ s # {} => /\ Pick(s) \in s /\ s \ {Pick(s)} \in SUBSET R
                            /\ Cardinality(s \ {Pick(s)}) = Cardinality(s) - 1
    <2>1. s \in SUBSET S
      OBVIOUS
    <2>2. /\ Cardinality(s) \in Nat
          /\ Cardinality(s) = 0 => s = {}
          /\ \A x \in s : Cardinality(s \ {x}) = Cardinality(s) - 1
      BY <2>1, SubsetRest
    <2>3. s # {} => Pick(s) \in s
      BY DEF Pick
    <2> QED BY <2>1, <2>2, <2>3
  <1>1. ASSUME NEW s \in SUBSET R
        PROVE  /\ g[s] = IF s = {} THEN 0 ELSE f[Pick(s)] + g[s \ {Pick(s)}]
               /\ h[s] = IF s = {} THEN 0 ELSE f[Pick(s)] + h[s \ {Pick(s)}]
    BY <1>0 DEF IsSum
  <1>2. 0 \in T
    BY <1>0, <1>1
  <1>3. ASSUME NEW n \in T PROVE n + 1 \in T
    <2>1. ASSUME NEW s \in SUBSET R, Cardinality(s) = n + 1 PROVE g[s] = h[s]
      <3>1. CASE s = {}
        BY <1>1, <3>1
      <3>2. CASE s # {}
        <4>1. s \ {Pick(s)} \in SUBSET R /\ Cardinality(s \ {Pick(s)}) = n
          BY <1>0, <2>1, <3>2
        <4>2. g[s \ {Pick(s)}] = h[s \ {Pick(s)}]
          BY <4>1
        <4> QED BY <1>1, <3>2, <4>2
      <3> QED BY <3>1, <3>2
    <2> QED BY <2>1
  <1> HIDE DEF T
  <1>4. \A n \in Nat : n \in T
    BY <1>2, <1>3, NatSetInduction DEF T
  <1> QED BY <1>0, <1>4 DEF T

\* What a sum is: nothing for no index, and an index more or less is its value
\* more or less, whatever the order.
LEMMA SumPick ==
    ASSUME NEW S, IsFiniteSet(S), NEW f, \A x \in S : f[x] \in Int
    PROVE  /\ SumFunctionOnSet(f, S) \in Int
           /\ SumFunctionOnSet(f, {}) = 0
           /\ S # {} => SumFunctionOnSet(f, S) = f[Pick(S)] + SumFunctionOnSet(f, S \ {Pick(S)})
  <1> DEFINE g(R) == CHOOSE q : IsSum(q, f, R)
  <1>1. ASSUME NEW R \in SUBSET S
        PROVE  IsSum(g(R), f, R) /\ SumFunctionOnSet(f, R) = g(R)[R]
    <2>1. IsFiniteSet(R) /\ \A x \in R : f[x] \in Int
      BY FS_Subset
    <2>2. \E q : IsSum(q, f, R)
      BY <2>1, SumExists
    <2> QED BY <2>2, SumUnfolds
  <1>2. PICK q \in [SUBSET S -> Int] : IsSum(q, f, S)
    BY SumExists
  <1> HIDE DEF g
  <1>3. ASSUME NEW R \in SUBSET S PROVE g(R)[R] = q[R]
    BY <1>1, <1>2, SumUnique
  <1>4. {} \in SUBSET S /\ S \in SUBSET S /\ S \ {Pick(S)} \in SUBSET S
    OBVIOUS
  <1>5. ASSUME NEW R \in SUBSET S PROVE SumFunctionOnSet(f, R) = q[R]
    BY <1>1, <1>3
  <1>6. ASSUME NEW R \in SUBSET S
        PROVE  q[R] = IF R = {} THEN 0 ELSE f[Pick(R)] + q[R \ {Pick(R)}]
    BY <1>2 DEF IsSum
  <1>7. q[{}] = 0
    BY <1>4, <1>6
  <1>8. S # {} => q[S] = f[Pick(S)] + q[S \ {Pick(S)}]
    BY <1>4, <1>6
  <1> QED BY <1>2, <1>4, <1>5, <1>7, <1>8

\* An index more or less is its value more or less, whatever the order of the sum.
LEMMA SumRemove ==
    ASSUME NEW S, IsFiniteSet(S), NEW f, \A x \in S : f[x] \in Int
    PROVE  \A y \in S : SumFunctionOnSet(f, S) = f[y] + SumFunctionOnSet(f, S \ {y})
  <1> DEFINE Sum(R) == SumFunctionOnSet(f, R)
             Any(R) == \A y \in R : Sum(R) = f[y] + Sum(R \ {y})
             T == {n \in Nat : \A R \in SUBSET S : Cardinality(R) = n => Any(R)}
  <1>1. ASSUME NEW R \in SUBSET S
        PROVE  /\ Sum(R) \in Int /\ (R # {} => Sum(R) = f[Pick(R)] + Sum(R \ {Pick(R)}))
               /\ Cardinality(R) \in Nat /\ (Cardinality(R) = 0 <=> R = {})
               /\ \A x \in R : Cardinality(R \ {x}) = Cardinality(R) - 1
    <2>1. IsFiniteSet(R) /\ \A x \in R : f[x] \in Int
      BY FS_Subset
    <2> QED BY <2>1, SumPick, SubsetRest
  <1> HIDE DEF Sum
  <1>2. 0 \in T
    BY <1>1
  <1>3. ASSUME NEW n \in T PROVE n + 1 \in T
    <2>0. n \in Nat
      OBVIOUS
    <2>1. ASSUME NEW R \in SUBSET S, Cardinality(R) = n + 1, NEW y \in R
          PROVE  Sum(R) = f[y] + Sum(R \ {y})
      <3> DEFINE x == Pick(R)
      <3>1. x \in R
        BY DEF Pick
      <3>2. Sum(R) = f[x] + Sum(R \ {x})
        BY <1>1
      <3>3. CASE x = y
        BY <3>2, <3>3
      <3>4. CASE x # y
        <4> DEFINE P == R \ {x}
                   Q == R \ {y}
        <4>1. P \in SUBSET S /\ Q \in SUBSET S /\ y \in P /\ x \in Q /\ P \ {y} = Q \ {x}
          BY <3>1, <3>4
        <4>0. \A z \in R : Cardinality(R \ {z}) = Cardinality(R) - 1
          BY <1>1
        <4>2. Cardinality(P) = n /\ Cardinality(Q) = n
          BY <2>0, <2>1, <3>1, <4>0
        <4>3. f[x] \in Int /\ f[y] \in Int /\ Sum(P \ {y}) \in Int
          BY <1>1, <4>1
        <4> HIDE DEF P, Q
        <4>4. Sum(P) = f[y] + Sum(P \ {y}) /\ Sum(Q) = f[x] + Sum(Q \ {x})
          BY <4>1, <4>2
        <4>5. Sum(R) = f[x] + Sum(P)
          BY <3>2 DEF P
        <4>6. Sum(P \ {y}) = Sum(Q \ {x})
          BY <4>1
        <4>7. Sum(R) = f[y] + Sum(Q)
          BY <4>3, <4>4, <4>5, <4>6
        <4> QED BY <4>7 DEF Q
      <3> QED BY <3>3, <3>4
    <2> QED BY <2>1
  <1> HIDE DEF T
  <1>4. \A n \in Nat : n \in T
    BY <1>2, <1>3, NatSetInduction DEF T
  <1>5. Any(S)
    <2>1. S \in SUBSET S /\ Cardinality(S) \in Nat
      BY <1>1
    <2> QED BY <1>4, <2>1 DEF T
  <1> QED BY <1>5 DEF Sum

\* A sum of naturals is one.
LEMMA SumNat ==
    ASSUME NEW S, IsFiniteSet(S), NEW f, \A x \in S : f[x] \in Nat
    PROVE  SumFunctionOnSet(f, S) \in Nat
  <1> DEFINE F(R) == SumFunctionOnSet(f, R)
             T == {n \in Nat : \A R \in SUBSET S : Cardinality(R) = n => F(R) >= 0}
  <1>1. ASSUME NEW R \in SUBSET S
        PROVE  /\ F(R) \in Int /\ F({}) = 0 /\ \A y \in R : F(R) = f[y] + F(R \ {y})
               /\ Cardinality(R) \in Nat /\ (Cardinality(R) = 0 <=> R = {})
               /\ \A x \in R : R \ {x} \in SUBSET S /\ Cardinality(R \ {x}) = Cardinality(R) - 1
    <2>1. IsFiniteSet(R) /\ \A x \in R : f[x] \in Int
      BY FS_Subset
    <2>2. F(R) \in Int /\ F({}) = 0
      BY <2>1, SumPick
    <2>3. \A y \in R : F(R) = f[y] + F(R \ {y})
      BY <2>1, SumRemove
    <2> QED BY <2>2, <2>3, SubsetRest
  <1> HIDE DEF F
  <1>2. 0 \in T
    <2>1. ASSUME NEW R \in SUBSET S, Cardinality(R) = 0 PROVE F(R) >= 0
      <3>1. R = {} /\ F({}) = 0
        BY <1>1, <2>1
      <3> QED BY <3>1
    <2> QED BY <2>1
  <1>3. ASSUME NEW n \in T PROVE n + 1 \in T
    <2>0. n \in Nat
      OBVIOUS
    <2>1. ASSUME NEW R \in SUBSET S, Cardinality(R) = n + 1 PROVE F(R) >= 0
      <3>1. PICK x \in R : TRUE
        BY <1>1, <2>0, <2>1
      <3>2. R \ {x} \in SUBSET S /\ Cardinality(R \ {x}) = Cardinality(R) - 1
        BY <1>1
      <3>3. F(R \ {x}) >= 0 /\ F(R \ {x}) \in Int
        BY <1>1, <2>0, <2>1, <3>2
      <3>4. F(R) = f[x] + F(R \ {x}) /\ f[x] \in Nat
        BY <1>1
      <3> QED BY <3>3, <3>4
    <2> QED BY <2>0, <2>1
  <1> HIDE DEF T
  <1>4. \A n \in Nat : n \in T
    BY <1>2, <1>3, NatSetInduction DEF T
  <1>5. S \in SUBSET S /\ Cardinality(S) \in Nat /\ F(S) \in Int
    BY <1>1
  <1> QED BY <1>4, <1>5 DEF T, F

\* A sum is no larger than one that has, under e, an index with no smaller value for
\* each of its own.
LEMMA SumInject ==
    ASSUME NEW D, IsFiniteSet(D), NEW E, IsFiniteSet(E), NEW e, NEW f, NEW g,
           \A x \in D : e[x] \in E, \A x, y \in D : e[x] = e[y] => x = y,
           \A x \in D : f[x] \in Nat /\ f[x] <= g[e[x]], \A z \in E : g[z] \in Nat
    PROVE  SumFunctionOnSet(f, D) <= SumFunctionOnSet(g, E)
  <1> DEFINE F(R) == SumFunctionOnSet(f, R)
             H(Q) == SumFunctionOnSet(g, Q)
             Over(R, Q) == \A x \in R : e[x] \in Q
             T == {n \in Nat : \A R \in SUBSET D : Cardinality(R) = n =>
                                 \A Q \in SUBSET E : Over(R, Q) => F(R) <= H(Q)}
  <1>1. ASSUME NEW R \in SUBSET D
        PROVE  /\ F(R) \in Int /\ F({}) = 0 /\ \A y \in R : F(R) = f[y] + F(R \ {y})
               /\ Cardinality(R) \in Nat /\ (Cardinality(R) = 0 <=> R = {})
               /\ \A x \in R : R \ {x} \in SUBSET D /\ Cardinality(R \ {x}) = Cardinality(R) - 1
    <2>1. IsFiniteSet(R) /\ \A x \in R : f[x] \in Int
      BY FS_Subset
    <2>2. F(R) \in Int /\ F({}) = 0
      BY <2>1, SumPick
    <2>3. \A y \in R : F(R) = f[y] + F(R \ {y})
      BY <2>1, SumRemove
    <2> QED BY <2>2, <2>3, SubsetRest
  <1>2. ASSUME NEW Q \in SUBSET E
        PROVE  H(Q) \in Nat /\ \A y \in Q : H(Q) = g[y] + H(Q \ {y})
    <2>1. IsFiniteSet(Q) /\ \A z \in Q : g[z] \in Nat
      BY FS_Subset
    <2>2. \A y \in Q : H(Q) = g[y] + H(Q \ {y})
      <3>1. Q \in SUBSET Q /\ \A z \in Q : g[z] \in Int
        BY <2>1
      <3> QED BY <2>1, <3>1, SumRemove
    <2>3. H(Q) \in Nat
      BY <2>1, SumNat
    <2> QED BY <2>2, <2>3
  <1> HIDE DEF F, H
  <1>3. 0 \in T
    <2>1. ASSUME NEW R \in SUBSET D, Cardinality(R) = 0, NEW Q \in SUBSET E PROVE F(R) <= H(Q)
      <3>1. R = {} /\ F({}) = 0
        BY <1>1, <2>1
      <3> QED BY <1>2, <3>1
    <2> QED BY <2>1
  <1>4. ASSUME NEW n \in T PROVE n + 1 \in T
    <2>0. n \in Nat
      OBVIOUS
    <2>1. ASSUME NEW R \in SUBSET D, Cardinality(R) = n + 1, NEW Q \in SUBSET E, Over(R, Q)
          PROVE  F(R) <= H(Q)
      <3>1. PICK x \in R : TRUE
        BY <1>1, <2>0, <2>1
      <3>2. R \ {x} \in SUBSET D /\ Cardinality(R \ {x}) = Cardinality(R) - 1
        BY <1>1
      <3>3. e[x] \in Q /\ Q \ {e[x]} \in SUBSET E /\ Over(R \ {x}, Q \ {e[x]})
        BY <2>1
      <3>4. F(R \ {x}) <= H(Q \ {e[x]})
        BY <2>0, <2>1, <3>2, <3>3
      <3>5. F(R \ {x}) \in Int /\ H(Q \ {e[x]}) \in Nat
        BY <1>1, <1>2, <3>2, <3>3
      <3>6. F(R) = f[x] + F(R \ {x}) /\ f[x] \in Nat /\ g[e[x]] \in Nat /\ f[x] <= g[e[x]]
        BY <1>1, <3>3
      <3>7. H(Q) = g[e[x]] + H(Q \ {e[x]})
        BY <1>2, <3>3
      <3> QED BY <3>4, <3>5, <3>6, <3>7
    <2> QED BY <2>0, <2>1
  <1> HIDE DEF T
  <1>5. \A n \in Nat : n \in T
    BY <1>3, <1>4, NatSetInduction DEF T
  <1>6. D \in SUBSET D /\ Cardinality(D) \in Nat /\ E \in SUBSET E /\ Over(D, E)
    BY <1>1
  <1> QED BY <1>5, <1>6 DEF T, F, H

\* The sum over two sets apart.
LEMMA SumDisjoint ==
    ASSUME NEW A, IsFiniteSet(A), NEW B, IsFiniteSet(B), A \cap B = {}, NEW f,
           \A x \in A \cup B : f[x] \in Int
    PROVE  SumFunctionOnSet(f, A \cup B) = SumFunctionOnSet(f, A) + SumFunctionOnSet(f, B)
  <1> DEFINE F(R) == SumFunctionOnSet(f, R)
             T == {n \in Nat : \A R \in SUBSET B : Cardinality(R) = n => F(A \cup R) = F(A) + F(R)}
  <1>1. ASSUME NEW R \in SUBSET (A \cup B)
        PROVE  /\ F(R) \in Int /\ F({}) = 0 /\ \A y \in R : F(R) = f[y] + F(R \ {y})
               /\ Cardinality(R) \in Nat /\ (Cardinality(R) = 0 <=> R = {})
               /\ \A x \in R : Cardinality(R \ {x}) = Cardinality(R) - 1
    <2>1. IsFiniteSet(A \cup B)
      BY FS_Union
    <2>2. IsFiniteSet(R) /\ \A x \in R : f[x] \in Int
      BY <2>1, FS_Subset
    <2>3. F(R) \in Int /\ F({}) = 0
      BY <2>2, SumPick
    <2>4. \A y \in R : F(R) = f[y] + F(R \ {y})
      BY <2>2, SumRemove
    <2> QED BY <2>1, <2>3, <2>4, SubsetRest
  <1> HIDE DEF F
  <1>2. 0 \in T
    <2>1. ASSUME NEW R \in SUBSET B, Cardinality(R) = 0 PROVE F(A \cup R) = F(A) + F(R)
      <3>0. A \in SUBSET (A \cup B) /\ R \in SUBSET (A \cup B)
        OBVIOUS
      <3>1. R = {} /\ F({}) = 0 /\ F(A) \in Int
        BY <1>1, <2>1, <3>0
      <3>2. A \cup R = A
        BY <3>1
      <3> QED BY <3>1, <3>2
    <2> QED BY <2>1
  <1>3. ASSUME NEW n \in T PROVE n + 1 \in T
    <2>0. n \in Nat
      OBVIOUS
    <2>1. ASSUME NEW R \in SUBSET B, Cardinality(R) = n + 1 PROVE F(A \cup R) = F(A) + F(R)
      <3>0. A \in SUBSET (A \cup B) /\ R \in SUBSET (A \cup B) /\ (A \cup R) \in SUBSET (A \cup B)
        OBVIOUS
      <3>1. PICK x \in R : TRUE
        BY <1>1, <2>0, <2>1, <3>0
      <3>2. R \ {x} \in SUBSET B /\ R \ {x} \in SUBSET (A \cup B) /\ x \in A \cup R
            /\ (A \cup R) \ {x} = A \cup (R \ {x})
        OBVIOUS
      <3>3. Cardinality(R \ {x}) = Cardinality(R) - 1
        BY <1>1, <3>0
      <3>4. F(A \cup (R \ {x})) = F(A) + F(R \ {x})
        BY <2>0, <2>1, <3>2, <3>3
      <3>5. F(R) = f[x] + F(R \ {x})
        BY <1>1, <3>0
      <3>6. F(A \cup R) = f[x] + F((A \cup R) \ {x})
        BY <1>1, <3>0, <3>2
      <3>7. F((A \cup R) \ {x}) = F(A \cup (R \ {x}))
        BY <3>2
      <3>8. F(A) \in Int /\ F(R \ {x}) \in Int /\ f[x] \in Int
        BY <1>1, <3>0, <3>2
      <3> HIDE DEF T
      <3> QED BY <3>4, <3>5, <3>6, <3>7, <3>8
    <2> QED BY <2>0, <2>1
  <1> HIDE DEF T
  <1>4. \A n \in Nat : n \in T
    BY <1>2, <1>3, NatSetInduction DEF T
  <1>5. B \in SUBSET B /\ Cardinality(B) \in Nat
    BY SubsetRest
  <1> QED BY <1>4, <1>5 DEF T, F

\* e takes the indices D of f to the indices E of g with the same values, d back.
Matches(D, E, e, d, f, g) ==
    /\ \A x \in D : e[x] \in E /\ d[e[x]] = x /\ f[x] \in Nat /\ f[x] = g[e[x]]
    /\ \A z \in E : d[z] \in D /\ e[d[z]] = z /\ g[z] \in Nat

\* Sums of the same values are equal.
LEMMA SumMatch ==
    ASSUME NEW D, IsFiniteSet(D), NEW E, IsFiniteSet(E), NEW e, NEW d, NEW f, NEW g,
           Matches(D, E, e, d, f, g)
    PROVE  SumFunctionOnSet(f, D) = SumFunctionOnSet(g, E)
  <1>0. /\ \A x \in D : e[x] \in E /\ d[e[x]] = x /\ f[x] \in Nat /\ f[x] = g[e[x]]
        /\ \A z \in E : d[z] \in D /\ e[d[z]] = z /\ g[z] \in Nat
    BY DEF Matches
  <1>1. \A x, y \in D : e[x] = e[y] => x = y
    BY <1>0, Zenon
  <1>2. \A x, y \in E : d[x] = d[y] => x = y
    BY <1>0, Zenon
  <1>3. \A x \in D : f[x] \in Nat /\ f[x] <= g[e[x]]
    BY <1>0
  <1>4. \A z \in E : g[z] \in Nat /\ g[z] <= f[d[z]]
    <2> SUFFICES ASSUME NEW z \in E PROVE g[z] \in Nat /\ g[z] <= f[d[z]]
      OBVIOUS
    <2>1. d[z] \in D /\ e[d[z]] = z
      BY <1>0
    <2>2. f[d[z]] = g[z] /\ g[z] \in Nat
      BY <1>0, <2>1
    <2> QED BY <2>2
  <1>5. SumFunctionOnSet(f, D) <= SumFunctionOnSet(g, E)
    BY <1>0, <1>1, <1>3, SumInject
  <1>6. SumFunctionOnSet(g, E) <= SumFunctionOnSet(f, D)
    BY <1>0, <1>2, <1>4, SumInject
  <1>7. SumFunctionOnSet(g, E) \in Nat /\ SumFunctionOnSet(f, D) \in Nat
    BY <1>0, SumNat
  <1> QED BY <1>5, <1>6, <1>7

\* Equal values have equal sums.
LEMMA SumSame ==
    ASSUME NEW D, IsFiniteSet(D), NEW f, NEW g, \A x \in D : f[x] \in Nat /\ f[x] = g[x]
    PROVE  SumFunctionOnSet(f, D) = SumFunctionOnSet(g, D)
  <1> DEFINE e == [x \in D |-> x]
  <1>1. Matches(D, D, e, e, f, g)
    BY DEF Matches
  <1> HIDE DEF e
  <1> QED BY <1>1, SumMatch

\* A sum with and without an index.
LEMMA SumSplit ==
    ASSUME NEW D, IsFiniteSet(D), NEW k, NEW f, \A x \in D : f[x] \in Nat
    PROVE  /\ SumFunctionOnSet(f, D \ {k}) \in Nat
           /\ SumFunctionOnSet(f, D) = (IF k \in D THEN f[k] ELSE 0) + SumFunctionOnSet(f, D \ {k})
  <1> DEFINE R == D \ {k}
  <1>1. IsFiniteSet(R) /\ \A x \in R : f[x] \in Nat
    BY FS_Subset
  <1>2. SumFunctionOnSet(f, R) \in Nat
    <2> HIDE DEF R
    <2> QED BY <1>1, SumNat
  <1>3. CASE k \in D
    <2>1. \A x \in D : f[x] \in Int
      OBVIOUS
    <2>2. SumFunctionOnSet(f, D) = f[k] + SumFunctionOnSet(f, D \ {k})
      BY <1>3, <2>1, SumRemove
    <2> QED BY <1>2, <1>3, <2>2
  <1>4. CASE k \notin D
    <2>1. R = D
      BY <1>4
    <2> HIDE DEF R
    <2> QED BY <1>2, <1>4, <2>1 DEF R
  <1> QED BY <1>2, <1>3, <1>4

\* A sum in which one index is new or has another value.
LEMMA SumPut ==
    ASSUME NEW D, IsFiniteSet(D), NEW k, NEW f, NEW g, \A x \in D : f[x] \in Nat,
           g[k] \in Nat, \A x \in D \ {k} : g[x] = f[x]
    PROVE  SumFunctionOnSet(g, D \cup {k}) = g[k] + SumFunctionOnSet(f, D \ {k})
  <1> DEFINE R == D \ {k}
             E == D \cup {k}
  <1>1. IsFiniteSet(R)
    BY FS_Subset
  <1>2. IsFiniteSet(E)
    BY FS_AddElement
  <1>3. \A x \in R : f[x] \in Nat /\ f[x] = g[x]
    OBVIOUS
  <1>4. k \in E /\ E \ {k} = R /\ \A x \in E : g[x] \in Int
    OBVIOUS
  <1>5. SumFunctionOnSet(f, R) = SumFunctionOnSet(g, R)
    <2> HIDE DEF R
    <2> QED BY <1>1, <1>3, SumSame
  <1>6. SumFunctionOnSet(g, E) = g[k] + SumFunctionOnSet(g, R)
    <2> HIDE DEF E, R
    <2>2. SumFunctionOnSet(g, E) = g[k] + SumFunctionOnSet(g, E \ {k})
      BY <1>2, <1>4, SumRemove
    <2> QED BY <1>4, <2>2
  <1> QED BY <1>5, <1>6

\* A sum of zeros.
LEMMA SumZero ==
    ASSUME NEW S, IsFiniteSet(S), NEW f, \A x \in S : f[x] = 0
    PROVE  SumFunctionOnSet(f, S) = 0
  <1> DEFINE T == {n \in Nat : \A R \in SUBSET S : Cardinality(R) = n => SumFunctionOnSet(f, R) = 0}
  <1>1. ASSUME NEW R \in SUBSET S
        PROVE  /\ SumFunctionOnSet(f, {}) = 0
               /\ \A y \in R : SumFunctionOnSet(f, R) = 0 + SumFunctionOnSet(f, R \ {y})
               /\ Cardinality(R) \in Nat /\ (Cardinality(R) = 0 <=> R = {})
               /\ \A x \in R : Cardinality(R \ {x}) = Cardinality(R) - 1
    <2>1. IsFiniteSet(R) /\ (\A x \in R : f[x] \in Int) /\ \A x \in R : f[x] = 0
      BY FS_Subset
    <2>2. SumFunctionOnSet(f, {}) = 0
      BY <2>1, SumPick
    <2>3. \A y \in R : SumFunctionOnSet(f, R) = f[y] + SumFunctionOnSet(f, R \ {y})
      BY <2>1, SumRemove
    <2> QED BY <2>1, <2>2, <2>3, SubsetRest
  <1>2. 0 \in T
    BY <1>1
  <1>3. ASSUME NEW n \in T PROVE n + 1 \in T
    <2>0. n \in Nat
      OBVIOUS
    <2>1. ASSUME NEW R \in SUBSET S, Cardinality(R) = n + 1 PROVE SumFunctionOnSet(f, R) = 0
      <3>1. PICK x \in R : TRUE
        BY <1>1, <2>0, <2>1
      <3>2. R \ {x} \in SUBSET S /\ Cardinality(R \ {x}) = n
        BY <1>1, <2>0, <2>1
      <3>3. SumFunctionOnSet(f, R \ {x}) = 0
        BY <3>2
      <3>4. SumFunctionOnSet(f, R) = 0 + SumFunctionOnSet(f, R \ {x})
        BY <1>1
      <3> QED BY <3>3, <3>4
    <2> QED BY <2>0, <2>1
  <1> HIDE DEF T
  <1>4. \A n \in Nat : n \in T
    BY <1>2, <1>3, NatSetInduction DEF T
  <1>5. S \in SUBSET S /\ Cardinality(S) \in Nat
    BY <1>1
  <1> QED BY <1>4, <1>5 DEF T

\* The sum of a sequence, of one element and of two sequences joined.
LEMMA SumSequences ==
    ASSUME NEW u \in Seq(Nat), NEW v \in Seq(Nat), NEW x \in Nat
    PROVE  /\ SumFunction(u) \in Nat /\ SumFunction(<<>>) = 0 /\ SumFunction(<<x>>) = x
           /\ SumFunction(u \o v) = SumFunction(u) + SumFunction(v)
  <1> DEFINE m == Len(u)
             n == Len(v)
             w == u \o v
             A == 1..m
             B == (m + 1)..(m + n)
             C == 1..n
  <1>0. m \in Nat /\ n \in Nat /\ DOMAIN u = A /\ DOMAIN v = C /\ DOMAIN w = 1..(m + n)
        /\ w \in Seq(Nat) /\ \A i \in A : u[i] \in Nat
    OBVIOUS
  <1>1. /\ \A i \in A : u[i] \in Nat /\ u[i] = w[i]
        /\ \A i \in C : v[i] \in Nat /\ v[i] = w[i + m]
    OBVIOUS
  <1>2. A \cup B = 1..(m + n) /\ A \cap B = {}
    BY <1>0
  <1>3. IsFiniteSet(A) /\ IsFiniteSet(B) /\ IsFiniteSet(C)
    BY <1>0, FS_Interval
  <1> DEFINE e == [i \in C |-> i + m]
             d == [i \in B |-> i - m]
  <1>4. /\ \A i \in C : e[i] \in B /\ d[e[i]] = i /\ v[i] \in Nat /\ v[i] = w[e[i]]
        /\ \A i \in B : d[i] \in C /\ e[d[i]] = i
    BY <1>0, <1>1
  <1>5. \A i \in A \cup B : w[i] \in Nat
    BY <1>0, <1>2
  <1> HIDE DEF m, n, w, A, B, C, d, e
  <1>6. SumFunctionOnSet(v, C) = SumFunctionOnSet(w, B)
    <2>1. \A i \in B : d[i] \in C /\ e[d[i]] = i /\ w[i] \in Nat
      BY <1>4, <1>5
    <2>2. Matches(C, B, e, d, v, w)
      BY <1>4, <2>1 DEF Matches
    <2> QED BY <1>3, <2>2, SumMatch
  <1>7. SumFunctionOnSet(u, A) = SumFunctionOnSet(w, A)
    BY <1>1, <1>3, SumSame
  <1>8. SumFunctionOnSet(w, A \cup B) = SumFunctionOnSet(w, A) + SumFunctionOnSet(w, B)
    <2>1. \A i \in A \cup B : w[i] \in Int
      BY <1>5
    <2> QED BY <1>2, <1>3, <2>1, SumDisjoint
  <1>9. SumFunction(w) = SumFunction(u) + SumFunction(v)
    BY <1>0, <1>2, <1>6, <1>7, <1>8 DEF SumFunction
  <1>10. SumFunction(u) \in Nat
    BY <1>0, <1>3, SumNat DEF SumFunction
  <1>11. SumFunction(<<>>) = 0
    <2>1. IsFiniteSet({}) /\ DOMAIN <<>> = {} /\ \A i \in {} : <<>>[i] \in Int
      BY FS_EmptySet
    <2> QED BY <2>1, SumPick DEF SumFunction
  <1>12. SumFunction(<<x>>) = x
    <2> DEFINE o == <<x>>
    <2>1. DOMAIN o = {1} /\ o[1] = x /\ {1} \ {1} = {}
      OBVIOUS
    <2> HIDE DEF o
    <2>2. IsFiniteSet({1}) /\ \A i \in {1} : o[i] \in Int
      <3>1. IsFiniteSet({1})
        BY FS_Singleton, Zenon
      <3> QED BY <2>1, <3>1
    <2>3. SumFunctionOnSet(o, {1}) = o[1] + SumFunctionOnSet(o, {1} \ {1})
      BY <2>2, SumRemove
    <2>4. SumFunctionOnSet(o, {}) = 0
      BY <2>2, SumPick
    <2>5. SumFunctionOnSet(o, {1}) = x
      <3>1. SumFunctionOnSet(o, {1} \ {1}) = 0
        BY <2>1, <2>4, Zenon
      <3> QED BY <2>1, <2>3, <3>1
    <2>6. SumFunction(o) = x
      BY <2>1, <2>5 DEF SumFunction
    <2> QED BY <2>6 DEF o
  <1> QED BY <1>9, <1>10, <1>11, <1>12 DEF w
=============================================================================
