---------------------------- MODULE Sums_proofs ----------------------------
(***************************************************************************)
(* Sums over finite sets and sequences. The models add up with             *)
(* SumFunction of the community modules, a fold: it picks an element,      *)
(* takes it out and adds what is left. What a sum is can therefore only be *)
(* proved by induction on the set, which is done here once: a claim about  *)
(* all subsets of a finite set is refuted by a smallest counterexample     *)
(* (SmallestSubset), and one about all numbers by the smallest             *)
(* (SmallestNumber). The proofs about the models cite the lemmas of the    *)
(* second half, and those at the end about division and about the rounding *)
(* of amounts to the units of a column.                                    *)
(***************************************************************************)
EXTENDS Functions, Decimal, FiniteSetTheorems, TLAPS

(* Among the subsets of a finite set that have a property one contains no  *)
(* other.                                                                  *)
LEMMA SmallestSubset ==
  ASSUME NEW S, IsFiniteSet(S), NEW T \in SUBSET SUBSET S, T # {}
  PROVE  \E s \in T : \A t \in T : t \subseteq s => t = s
<1>1. FiniteSubsetsOf(S) = SUBSET S
  BY FS_FiniteSubsetsOfFinite
<1>2. IsWellFoundedOn(StrictSubsetOrdering(S), SUBSET S)
  BY <1>1, FS_StrictSubsetOrderingWellFounded
<1>3. PICK s \in T : \A t \in T : <<t, s>> \notin StrictSubsetOrdering(S)
  BY <1>2, WFMin
<1> QED
  BY <1>3 DEF StrictSubsetOrdering

(* Every set of numbers has a smallest.                                    *)
LEMMA SmallestNumber ==
  ASSUME NEW T \in SUBSET Nat, T # {}
  PROVE  \E m \in T : \A n \in T : m <= n
<1> DEFINE R == OpToRel(<, Nat)
<1>1. IsWellFoundedOn(R, Nat) /\ \A m, n \in Nat : n < m => <<n, m>> \in R
  BY NatLessThanWellFounded DEF OpToRel
<1> HIDE DEF R
<1>2. PICK m \in T : \A n \in T : <<n, m>> \notin R
  BY <1>1, WFMin
<1>3. ASSUME NEW n \in T PROVE m <= n
  <2>1. m \in Nat /\ n \in Nat
    OBVIOUS
  <2>2. ~(n < m)
    BY <1>1, <1>2, <2>1
  <2> QED
    BY <2>1, <2>2
<1> QED
  BY <1>3

-----------------------------------------------------------------------------
(* What SumFunctionOnSet computes.                                         *)

\* The element the fold takes out of s first, and one step of the fold, when g
\* has the sums of the smaller sets.
Pick(s) == CHOOSE x \in s : TRUE

Grown(f, g, s) == IF s = {} THEN 0 ELSE f[Pick(s)] + g[s \ {Pick(s)}]

\* The function of all subsets of S that the sum is defined by.
Sums(f, S) == CHOOSE g : g = [s \in SUBSET S |-> Grown(f, g, s)]

(* What the fold picks is there.                                           *)
LEMMA PickIn ==
  ASSUME NEW s, s # {}
  PROVE  Pick(s) \in s
BY DEF Pick

(* The community module's definition, unfolded.                            *)
LEMMA SumDef ==
  ASSUME NEW f, NEW S
  PROVE  SumFunctionOnSet(f, S) = Sums(f, S)[S]
BY DEF SumFunctionOnSet, FoldFunctionOnSet, MapThenFoldSet, Sums, Grown, Pick

(* There is a function that the fold defines: the sums of the sets of at   *)
(* most n elements give those of n + 1.                                    *)
LEMMA SumsExist ==
  ASSUME NEW S, IsFiniteSet(S), NEW f
  PROVE  \E g : g = [s \in SUBSET S |-> Grown(f, g, s)]
<1> DEFINE Good(n) == \E g : \A s \in SUBSET S : Cardinality(s) <= n => g[s] = Grown(f, g, s)
           N == 0 .. Cardinality(S)
<1>1. \A s \in SUBSET S : IsFiniteSet(s) /\ Cardinality(s) \in N
  BY FS_Subset, FS_CardinalityType
<1>2. Good(0)
  <2> DEFINE g == [s \in SUBSET S |-> 0]
  <2>1. ASSUME NEW s \in SUBSET S, Cardinality(s) <= 0 PROVE g[s] = Grown(f, g, s)
    <3>1. s = {}
      BY <1>1, <2>1, FS_EmptySet
    <3> QED
      BY <3>1 DEF Grown
  <2> HIDE DEF g
  <2> QED
    BY <2>1
<1>3. ASSUME NEW n \in Nat, Good(n) PROVE Good(n + 1)
  <2>1. PICK g : \A s \in SUBSET S : Cardinality(s) <= n => g[s] = Grown(f, g, s)
    BY <1>3
  <2> DEFINE h == [s \in SUBSET S |-> IF Cardinality(s) <= n THEN g[s] ELSE Grown(f, g, s)]
  <2>2. ASSUME NEW s \in SUBSET S, Cardinality(s) <= n + 1 PROVE h[s] = Grown(f, h, s)
    <3>1. h[s] = Grown(f, g, s)
      BY <2>1
    <3>2. CASE s = {}
      BY <3>1, <3>2 DEF Grown
    <3>3. CASE s # {}
      <4>1. s \ {Pick(s)} \in SUBSET S /\ Cardinality(s \ {Pick(s)}) <= n
        BY <1>1, <2>2, <3>3, PickIn, FS_RemoveElement
      <4>2. h[s \ {Pick(s)}] = g[s \ {Pick(s)}]
        BY <4>1
      <4> QED
        BY <3>1, <3>3, <4>2 DEF Grown
    <3> QED
      BY <3>2, <3>3
  <2> HIDE DEF h
  <2> QED
    BY <2>2
<1> HIDE DEF Good
<1>4. ASSUME NEW m \in Nat, ~Good(m) PROVE FALSE
  <2> DEFINE Bad == {n \in Nat : ~Good(n)}
  <2>1. Bad \in SUBSET Nat /\ Bad # {}
    BY <1>4
  <2>2. PICK n \in Bad : \A k \in Bad : n <= k
    BY <2>1, SmallestNumber
  <2>3. n # 0 /\ n - 1 \in Nat /\ Good(n - 1)
    BY <1>2, <2>2
  <2> QED
    BY <1>3, <2>2, <2>3
<1>5. Good(Cardinality(S))
  BY <1>1, <1>4, FS_CardinalityType
<1>6. PICK g : \A s \in SUBSET S : g[s] = Grown(f, g, s)
  BY <1>1, <1>5 DEF Good
<1> DEFINE h == [s \in SUBSET S |-> g[s]]
<1>7. ASSUME NEW s \in SUBSET S PROVE h[s] = Grown(f, h, s)
  BY <1>6, PickIn DEF Grown
<1>8. h = [s \in SUBSET S |-> Grown(f, h, s)]
  BY <1>7
<1> HIDE DEF h
<1> QED
  BY <1>8

(* So the function chosen is one.                                          *)
LEMMA SumsEquation ==
  ASSUME NEW S, IsFiniteSet(S), NEW f, NEW s \in SUBSET S
  PROVE  Sums(f, S)[s] = Grown(f, Sums(f, S), s)
<1>1. Sums(f, S) = [u \in SUBSET S |-> Grown(f, Sums(f, S), u)]
  BY SumsExist DEF Sums
<1> QED
  BY <1>1

(* Only the elements summed matter.                                        *)
LEMMA SumsLocal ==
  ASSUME NEW S, IsFiniteSet(S), NEW T, IsFiniteSet(T), NEW f, NEW h,
         NEW W \in SUBSET (S \cap T), \A x \in W : f[x] = h[x]
  PROVE  Sums(f, S)[W] = Sums(h, T)[W]
<1> DEFINE Bad == {s \in SUBSET W : Sums(f, S)[s] # Sums(h, T)[s]}
<1> SUFFICES ASSUME Bad # {} PROVE FALSE
  OBVIOUS
<1>1. Bad \in SUBSET SUBSET W /\ IsFiniteSet(W)
  BY FS_Subset
<1>2. PICK s \in Bad : \A t \in Bad : t \subseteq s => t = s
  <2> HIDE DEF Bad
  <2> QED
    BY <1>1, SmallestSubset
<1>3. /\ Sums(f, S)[s] = Grown(f, Sums(f, S), s)
      /\ Sums(h, T)[s] = Grown(h, Sums(h, T), s)
  BY SumsEquation
<1>4. s # {}
  BY <1>2, <1>3 DEF Grown
<1>5. Pick(s) \in s /\ s \ {Pick(s)} \notin Bad
  BY <1>2, <1>4, PickIn
<1>6. Sums(f, S)[s \ {Pick(s)}] = Sums(h, T)[s \ {Pick(s)}] /\ f[Pick(s)] = h[Pick(s)]
  BY <1>5
<1> QED
  BY <1>2, <1>3, <1>4, <1>6 DEF Grown

(* The two equations of the sum.                                           *)
LEMMA SumEmpty ==
  ASSUME NEW f
  PROVE  SumFunctionOnSet(f, {}) = 0
<1>1. Sums(f, {})[{}] = Grown(f, Sums(f, {}), {})
  BY SumsEquation, FS_EmptySet
<1> QED
  BY <1>1, SumDef DEF Grown

LEMMA SumPick ==
  ASSUME NEW S, IsFiniteSet(S), S # {}, NEW f
  PROVE  SumFunctionOnSet(f, S) = f[Pick(S)] + SumFunctionOnSet(f, S \ {Pick(S)})
<1>1. Sums(f, S)[S] = f[Pick(S)] + Sums(f, S)[S \ {Pick(S)}]
  BY SumsEquation DEF Grown
<1>2. IsFiniteSet(S \ {Pick(S)})
  BY FS_RemoveElement
<1>3. Sums(f, S)[S \ {Pick(S)}] = Sums(f, S \ {Pick(S)})[S \ {Pick(S)}]
  BY <1>2, SumsLocal
<1> QED
  BY <1>1, <1>3, SumDef

(* The sum of equal terms is the same.                                     *)
LEMMA SumSame ==
  ASSUME NEW S, IsFiniteSet(S), NEW f, NEW h, \A x \in S : f[x] = h[x]
  PROVE  SumFunctionOnSet(f, S) = SumFunctionOnSet(h, S)
<1>1. Sums(f, S)[S] = Sums(h, S)[S]
  BY SumsLocal
<1> QED
  BY <1>1, SumDef

(* The sum of integers is an integer.                                      *)
LEMMA SumInt ==
  ASSUME NEW S, IsFiniteSet(S), NEW f, \A x \in S : f[x] \in Int
  PROVE  SumFunctionOnSet(f, S) \in Int
<1> DEFINE Bad == {s \in SUBSET S : SumFunctionOnSet(f, s) \notin Int}
<1> SUFFICES ASSUME Bad # {} PROVE FALSE
  OBVIOUS
<1>1. PICK s \in Bad : \A t \in Bad : t \subseteq s => t = s
  <2>1. Bad \in SUBSET SUBSET S
    OBVIOUS
  <2> HIDE DEF Bad
  <2> QED
    BY <2>1, SmallestSubset
<1>2. s # {}
  <2>1. SumFunctionOnSet(f, {}) = 0
    BY SumEmpty
  <2>2. SumFunctionOnSet(f, s) # 0
    BY <1>1
  <2> QED
    BY <2>1, <2>2
<1>3. Pick(s) \in s /\ s \ {Pick(s)} \notin Bad
  BY <1>1, <1>2, PickIn
<1>4. SumFunctionOnSet(f, s \ {Pick(s)}) \in Int /\ f[Pick(s)] \in Int
  BY <1>3
<1>5. SumFunctionOnSet(f, s) = f[Pick(s)] + SumFunctionOnSet(f, s \ {Pick(s)})
  <2>1. IsFiniteSet(s)
    BY FS_Subset
  <2> QED
    BY <1>2, <2>1, SumPick
<1> QED
  BY <1>1, <1>4, <1>5

(* The sum of natural numbers is a natural number.                         *)
LEMMA SumNat ==
  ASSUME NEW S, IsFiniteSet(S), NEW f, \A x \in S : f[x] \in Nat
  PROVE  SumFunctionOnSet(f, S) \in Nat
<1> DEFINE Bad == {s \in SUBSET S : SumFunctionOnSet(f, s) \notin Nat}
<1> SUFFICES ASSUME Bad # {} PROVE FALSE
  OBVIOUS
<1>1. PICK s \in Bad : \A t \in Bad : t \subseteq s => t = s
  <2>1. Bad \in SUBSET SUBSET S
    OBVIOUS
  <2> HIDE DEF Bad
  <2> QED
    BY <2>1, SmallestSubset
<1>2. s # {}
  <2>1. SumFunctionOnSet(f, {}) = 0
    BY SumEmpty
  <2>2. SumFunctionOnSet(f, s) # 0
    BY <1>1
  <2> QED
    BY <2>1, <2>2
<1>3. Pick(s) \in s /\ s \ {Pick(s)} \notin Bad
  BY <1>1, <1>2, PickIn
<1>4. SumFunctionOnSet(f, s \ {Pick(s)}) \in Nat /\ f[Pick(s)] \in Nat
  BY <1>3
<1>5. SumFunctionOnSet(f, s) = f[Pick(s)] + SumFunctionOnSet(f, s \ {Pick(s)})
  <2>1. IsFiniteSet(s)
    BY FS_Subset
  <2> QED
    BY <1>2, <2>1, SumPick
<1> QED
  BY <1>1, <1>4, <1>5

(* Any term can be taken out of the sum, in whatever order it is made.     *)
LEMMA SumSplit ==
  ASSUME NEW S, IsFiniteSet(S), NEW f, \A x \in S : f[x] \in Int, NEW x \in S
  PROVE  SumFunctionOnSet(f, S) = f[x] + SumFunctionOnSet(f, S \ {x})
<1> DEFINE Sum(s) == SumFunctionOnSet(f, s)
           Bad == {s \in SUBSET S : \E y \in s : Sum(s) # f[y] + Sum(s \ {y})}
<1> SUFFICES ASSUME Bad # {} PROVE FALSE
  OBVIOUS
<1>1. PICK s \in Bad : \A t \in Bad : t \subseteq s => t = s
  <2>1. Bad \in SUBSET SUBSET S
    OBVIOUS
  <2> HIDE DEF Bad
  <2> QED
    BY <2>1, SmallestSubset
<1>2. PICK y \in s : Sum(s) # f[y] + Sum(s \ {y})
  BY <1>1
<1> DEFINE z == Pick(s)
<1>3. z \in s /\ IsFiniteSet(s) /\ IsFiniteSet(s \ {y})
  BY <1>2, PickIn, FS_Subset
<1>4. Sum(s) = f[z] + Sum(s \ {z})
  BY <1>2, <1>3, SumPick
<1>5. y # z
  BY <1>2, <1>4
<1>6. s \ {z} \notin Bad /\ s \ {y} \notin Bad
  BY <1>1, <1>3
<1>7. /\ Sum(s \ {z}) = f[y] + Sum((s \ {z}) \ {y})
      /\ Sum(s \ {y}) = f[z] + Sum((s \ {y}) \ {z})
  BY <1>3, <1>5, <1>6
<1>8. (s \ {z}) \ {y} = (s \ {y}) \ {z}
  OBVIOUS
<1>9. Sum((s \ {z}) \ {y}) \in Int /\ f[y] \in Int /\ f[z] \in Int
  <2>1. IsFiniteSet((s \ {z}) \ {y})
    BY FS_Subset
  <2>2. Sum((s \ {z}) \ {y}) \in Int
    BY <2>1, SumInt
  <2> QED
    BY <1>3, <2>2
<1>10. Sum(s \ {z}) = f[y] + Sum((s \ {z}) \ {y})
  BY <1>7
<1>11. Sum(s \ {y}) = f[z] + Sum((s \ {z}) \ {y})
  BY <1>7, <1>8
<1> HIDE DEF Sum, z
<1> QED
  BY <1>2, <1>4, <1>9, <1>10, <1>11

-----------------------------------------------------------------------------
(* Sums of functions.                                                      *)

(* The sum of a function is that of its values.                            *)
LEMMA FunctionSum ==
  ASSUME NEW S, NEW f, DOMAIN f = S
  PROVE  SumFunction(f) = SumFunctionOnSet(f, S)
BY DEF SumFunction

(* No terms, integer terms, natural terms.                                 *)
LEMMA FunctionSumEmpty ==
  ASSUME NEW f, DOMAIN f = {}
  PROVE  SumFunction(f) = 0
BY FunctionSum, SumEmpty

LEMMA FunctionSumInt ==
  ASSUME NEW S, IsFiniteSet(S), NEW f \in [S -> Int]
  PROVE  SumFunction(f) \in Int
<1>1. SumFunctionOnSet(f, S) \in Int
  BY SumInt
<1> QED
  BY <1>1, FunctionSum

LEMMA FunctionSumNat ==
  ASSUME NEW S, IsFiniteSet(S), NEW f \in [S -> Nat]
  PROVE  SumFunction(f) \in Nat
<1>1. SumFunctionOnSet(f, S) \in Nat
  BY SumNat
<1> QED
  BY <1>1, FunctionSum

(* Terms that are all zero.                                                *)
LEMMA FunctionSumZero ==
  ASSUME NEW S, IsFiniteSet(S), NEW f, DOMAIN f = S, \A x \in S : f[x] = 0
  PROVE  SumFunction(f) = 0
<1> DEFINE Bad == {s \in SUBSET S : SumFunctionOnSet(f, s) # 0}
<1>1. Bad = {}
  <2> SUFFICES ASSUME Bad # {} PROVE FALSE
    OBVIOUS
  <2>1. PICK s \in Bad : \A t \in Bad : t \subseteq s => t = s
    <3>1. Bad \in SUBSET SUBSET S
      OBVIOUS
    <3> HIDE DEF Bad
    <3> QED
      BY <3>1, SmallestSubset
  <2>2. s # {}
    BY <2>1, SumEmpty
  <2>3. Pick(s) \in s /\ s \ {Pick(s)} \notin Bad
    BY <2>1, <2>2, PickIn
  <2>4. SumFunctionOnSet(f, s \ {Pick(s)}) = 0 /\ f[Pick(s)] = 0
    BY <2>3
  <2>5. SumFunctionOnSet(f, s) = f[Pick(s)] + SumFunctionOnSet(f, s \ {Pick(s)})
    <3>1. IsFiniteSet(s)
      BY FS_Subset
    <3> QED
      BY <2>2, <3>1, SumPick
  <2> QED
    BY <2>1, <2>4, <2>5
<1> QED
  BY <1>1, FunctionSum

(* When one term changes the sum changes with it.                          *)
LEMMA SumChange ==
  ASSUME NEW S, IsFiniteSet(S), NEW f \in [S -> Int], NEW h \in [S -> Int], NEW x \in S,
         \A y \in S \ {x} : h[y] = f[y]
  PROVE  SumFunction(h) = SumFunction(f) - f[x] + h[x]
<1> DEFINE rest == SumFunctionOnSet(f, S \ {x})
<1>1. IsFiniteSet(S \ {x})
  BY FS_RemoveElement
<1>2. rest \in Int
  BY <1>1, SumInt
<1>3. SumFunctionOnSet(h, S \ {x}) = rest
  BY <1>1, SumSame
<1>4. SumFunctionOnSet(f, S) = f[x] + rest
  BY SumSplit
<1>5. SumFunctionOnSet(h, S) = h[x] + rest
  BY <1>3, SumSplit
<1>6. SumFunction(f) = f[x] + rest /\ SumFunction(h) = h[x] + rest
  BY <1>4, <1>5, FunctionSum
<1> HIDE DEF rest
<1> QED
  BY <1>2, <1>6

(* The terms of a sequence from the second on sum to the same when they    *)
(* move up by one place.                                                   *)
LEMMA SumShift ==
  ASSUME NEW n \in Nat, NEW f, NEW g,
         \A i \in 1 .. n : f[i + 1] \in Int /\ g[i] = f[i + 1]
  PROVE  SumFunctionOnSet(f, 2 .. n + 1) = SumFunctionOnSet(g, 1 .. n)
<1> DEFINE F(k) == SumFunctionOnSet(f, 2 .. k + 1)
           G(k) == SumFunctionOnSet(g, 1 .. k)
           Bad == {k \in 0 .. n : F(k) # G(k)}
<1> SUFFICES ASSUME Bad # {} PROVE FALSE
  OBVIOUS
<1>1. PICK k \in Bad : \A j \in Bad : k <= j
  <2>1. Bad \in SUBSET Nat
    OBVIOUS
  <2> HIDE DEF Bad
  <2> QED
    BY <2>1, SmallestNumber
<1>2. k \in 0 .. n /\ F(k) # G(k)
  BY <1>1
<1>3. k # 0
  <2>1. 2 .. 0 + 1 = {} /\ 1 .. 0 = {}
    OBVIOUS
  <2>2. F(0) = G(0)
    BY <2>1, SumEmpty
  <2> QED
    BY <1>2, <2>2
<1>4. k - 1 \in 0 .. n /\ k \in 1 .. n /\ F(k - 1) = G(k - 1)
  <2>1. k - 1 \in 0 .. n /\ k \in 1 .. n
    BY <1>2, <1>3
  <2>2. k - 1 \notin Bad
    BY <1>1, <1>2
  <2> QED
    BY <2>1, <2>2
<1>5. F(k) = f[k + 1] + F(k - 1)
  <2>1. k + 1 \in 2 .. k + 1 /\ (2 .. k + 1) \ {k + 1} = 2 .. (k - 1) + 1
    BY <1>4
  <2>2. IsFiniteSet(2 .. k + 1)
    BY <1>4, FS_Interval
  <2>3. \A i \in 2 .. k + 1 : f[i] \in Int
    <3> TAKE i \in 2 .. k + 1
    <3>1. i - 1 \in 1 .. n /\ i = (i - 1) + 1
      BY <1>4
    <3> QED
      BY <3>1
  <2>4. SumFunctionOnSet(f, 2 .. k + 1)
          = f[k + 1] + SumFunctionOnSet(f, (2 .. k + 1) \ {k + 1})
    BY <2>1, <2>2, <2>3, SumSplit
  <2> QED
    BY <2>1, <2>4
<1>6. G(k) = g[k] + G(k - 1)
  <2>1. k \in 1 .. k /\ (1 .. k) \ {k} = 1 .. k - 1
    BY <1>4
  <2>2. IsFiniteSet(1 .. k)
    BY <1>4, FS_Interval
  <2>3. \A i \in 1 .. k : g[i] \in Int
    <3> TAKE i \in 1 .. k
    <3>1. i \in 1 .. n
      BY <1>4
    <3> QED
      BY <3>1
  <2>4. SumFunctionOnSet(g, 1 .. k) = g[k] + SumFunctionOnSet(g, (1 .. k) \ {k})
    BY <2>1, <2>2, <2>3, SumSplit
  <2> QED
    BY <2>1, <2>4
<1>7. g[k] = f[k + 1]
  BY <1>4
<1> QED
  BY <1>2, <1>4, <1>5, <1>6, <1>7

(* The sum over a sequence is its first term and the sum over its tail.    *)
LEMMA SumTail ==
  ASSUME NEW n \in Nat, NEW f \in [1 .. n + 1 -> Int], NEW g \in [1 .. n -> Int],
         \A i \in 1 .. n : g[i] = f[i + 1]
  PROVE  SumFunction(f) = f[1] + SumFunction(g)
<1>1. IsFiniteSet(1 .. n + 1)
  BY FS_Interval
<1>2. SumFunctionOnSet(f, 1 .. n + 1) = f[1] + SumFunctionOnSet(f, 2 .. n + 1)
  <2>1. 1 \in 1 .. n + 1 /\ (1 .. n + 1) \ {1} = 2 .. n + 1
    OBVIOUS
  <2>2. SumFunctionOnSet(f, 1 .. n + 1) = f[1] + SumFunctionOnSet(f, (1 .. n + 1) \ {1})
    BY <1>1, <2>1, SumSplit
  <2> QED
    BY <2>1, <2>2
<1>3. SumFunctionOnSet(f, 2 .. n + 1) = SumFunctionOnSet(g, 1 .. n)
  <2>1. \A i \in 1 .. n : f[i + 1] \in Int /\ g[i] = f[i + 1]
    OBVIOUS
  <2> QED
    BY <2>1, SumShift
<1> QED
  BY <1>2, <1>3, FunctionSum

(* The sum of a function that adds up two others.                          *)
LEMMA SumPlus ==
  ASSUME NEW S, IsFiniteSet(S), NEW f \in [S -> Int], NEW g \in [S -> Int], NEW h,
         DOMAIN h = S, \A x \in S : h[x] = f[x] + g[x]
  PROVE  SumFunction(h) = SumFunction(f) + SumFunction(g)
<1> DEFINE F(s) == SumFunctionOnSet(f, s)
           G(s) == SumFunctionOnSet(g, s)
           H(s) == SumFunctionOnSet(h, s)
           Bad == {s \in SUBSET S : H(s) # F(s) + G(s)}
<1>1. Bad = {}
  <2> SUFFICES ASSUME Bad # {} PROVE FALSE
    OBVIOUS
  <2>1. PICK s \in Bad : \A t \in Bad : t \subseteq s => t = s
    <3>1. Bad \in SUBSET SUBSET S
      OBVIOUS
    <3> HIDE DEF Bad
    <3> QED
      BY <3>1, SmallestSubset
  <2>2. s # {}
    <3>1. H({}) = F({}) + G({})
      BY SumEmpty
    <3>2. H(s) # F(s) + G(s)
      BY <2>1
    <3> QED
      BY <3>1, <3>2
  <2>3. PICK x \in s : TRUE
    BY <2>2
  <2>4. IsFiniteSet(s) /\ IsFiniteSet(s \ {x}) /\ s \ {x} \notin Bad /\ s \ {x} \in SUBSET S
    BY <2>1, <2>3, FS_Subset
  <2>5. H(s \ {x}) = F(s \ {x}) + G(s \ {x}) /\ F(s \ {x}) \in Int /\ G(s \ {x}) \in Int
    <3>1. F(s \ {x}) \in Int /\ G(s \ {x}) \in Int
      BY <2>4, SumInt
    <3> QED
      BY <2>4, <3>1
  <2>6. F(s) = f[x] + F(s \ {x}) /\ G(s) = g[x] + G(s \ {x}) /\ H(s) = h[x] + H(s \ {x})
    <3>1. \A y \in s : f[y] \in Int /\ g[y] \in Int /\ h[y] \in Int
      BY <2>1
    <3> QED
      BY <2>3, <2>4, <3>1, SumSplit
  <2>7. f[x] \in Int /\ g[x] \in Int /\ h[x] = f[x] + g[x]
    BY <2>1, <2>3
  <2>8. H(s) # F(s) + G(s)
    BY <2>1
  <2> HIDE DEF F, G, H
  <2> QED
    BY <2>5, <2>6, <2>7, <2>8
<1> QED
  BY <1>1, FunctionSum

(* A sum is no less than another that is no less term by term.             *)
LEMMA SumMonotone ==
  ASSUME NEW S, IsFiniteSet(S), NEW f \in [S -> Int], NEW h \in [S -> Int],
         \A x \in S : f[x] <= h[x]
  PROVE  SumFunction(f) <= SumFunction(h)
<1> DEFINE F(s) == SumFunctionOnSet(f, s)
           H(s) == SumFunctionOnSet(h, s)
           Bad == {s \in SUBSET S : ~(F(s) <= H(s))}
<1>1. Bad = {}
  <2> SUFFICES ASSUME Bad # {} PROVE FALSE
    OBVIOUS
  <2>1. PICK s \in Bad : \A t \in Bad : t \subseteq s => t = s
    <3>1. Bad \in SUBSET SUBSET S
      OBVIOUS
    <3> HIDE DEF Bad
    <3> QED
      BY <3>1, SmallestSubset
  <2>2. s # {}
    <3>1. F({}) <= H({})
      BY SumEmpty
    <3>2. ~(F(s) <= H(s))
      BY <2>1
    <3> QED
      BY <3>1, <3>2
  <2>3. PICK x \in s : TRUE
    BY <2>2
  <2>4. IsFiniteSet(s) /\ IsFiniteSet(s \ {x}) /\ s \ {x} \notin Bad /\ s \ {x} \in SUBSET S
    BY <2>1, <2>3, FS_Subset
  <2>5. F(s \ {x}) <= H(s \ {x}) /\ F(s \ {x}) \in Int /\ H(s \ {x}) \in Int
    <3>1. F(s \ {x}) \in Int /\ H(s \ {x}) \in Int
      BY <2>4, SumInt
    <3> QED
      BY <2>4, <3>1
  <2>6. F(s) = f[x] + F(s \ {x}) /\ H(s) = h[x] + H(s \ {x})
    BY <2>1, <2>3, <2>4, SumSplit
  <2>7. f[x] \in Int /\ h[x] \in Int /\ f[x] <= h[x]
    BY <2>1, <2>3
  <2>8. ~(F(s) <= H(s))
    BY <2>1
  <2> HIDE DEF F, H
  <2> QED
    BY <2>5, <2>6, <2>7, <2>8
<1> QED
  BY <1>1, FunctionSum

(* The same factor in every term.                                          *)
LEMMA SumScale ==
  ASSUME NEW S, IsFiniteSet(S), NEW f \in [S -> Int], NEW k \in Int, NEW h,
         DOMAIN h = S, \A x \in S : h[x] = k * f[x]
  PROVE  SumFunction(h) = k * SumFunction(f)
<1> DEFINE F(s) == SumFunctionOnSet(f, s)
           H(s) == SumFunctionOnSet(h, s)
           Bad == {s \in SUBSET S : H(s) # k * F(s)}
<1>1. Bad = {}
  <2> SUFFICES ASSUME Bad # {} PROVE FALSE
    OBVIOUS
  <2>1. PICK s \in Bad : \A t \in Bad : t \subseteq s => t = s
    <3>1. Bad \in SUBSET SUBSET S
      OBVIOUS
    <3> HIDE DEF Bad
    <3> QED
      BY <3>1, SmallestSubset
  <2>2. s # {}
    <3>1. H({}) = 0 /\ F({}) = 0
      BY SumEmpty
    <3>2. H({}) = k * F({})
      BY <3>1
    <3>3. H(s) # k * F(s)
      BY <2>1
    <3> QED
      BY <3>2, <3>3
  <2>3. PICK x \in s : TRUE
    BY <2>2
  <2>4. IsFiniteSet(s) /\ IsFiniteSet(s \ {x}) /\ s \ {x} \notin Bad /\ s \ {x} \in SUBSET S
    BY <2>1, <2>3, FS_Subset
  <2>5. H(s \ {x}) = k * F(s \ {x}) /\ F(s \ {x}) \in Int
    BY <2>4, SumInt
  <2>6. F(s) = f[x] + F(s \ {x}) /\ H(s) = h[x] + H(s \ {x})
    <3>1. \A y \in s : f[y] \in Int /\ h[y] \in Int
      <4>1. \A a \in Int : k * a \in Int
        OBVIOUS
      <4> QED
        BY <2>1, <4>1
    <3> QED
      BY <2>3, <2>4, <3>1, SumSplit
  <2>7. f[x] \in Int /\ h[x] = k * f[x]
    BY <2>1, <2>3
  <2>8. H(s) # k * F(s)
    BY <2>1
  <2>9. \A a, b \in Int : k * a + k * b = k * (a + b)
    OBVIOUS
  <2> HIDE DEF F, H
  <2> QED
    BY <2>5, <2>6, <2>7, <2>8, <2>9
<1> QED
  BY <1>1, FunctionSum

\* The terms of f, and zero for the rest of S.
Extended(f, S) == [x \in S |-> IF x \in DOMAIN f THEN f[x] ELSE 0]

LEMMA SumRestrict ==
  ASSUME NEW S, IsFiniteSet(S), NEW f, DOMAIN f \subseteq S, \A x \in DOMAIN f : f[x] \in Int
  PROVE  SumFunction(Extended(f, S)) = SumFunction(f)
<1>0. PICK T, h : T = DOMAIN f /\ h = Extended(f, S)
  OBVIOUS
<1> USE <1>0
<1>3. /\ T \in SUBSET S /\ DOMAIN h = S /\ \A x \in T : f[x] \in Int
      /\ \A x \in S : h[x] = IF x \in T THEN f[x] ELSE 0
  BY DEF Extended
<1> USE <1>3
<1> DEFINE F(s) == SumFunctionOnSet(f, s)
           H(s) == SumFunctionOnSet(h, s)
           Bad == {s \in SUBSET S : H(s) # F(s \cap T)}
<1>1. Bad = {}
  <2> SUFFICES ASSUME Bad # {} PROVE FALSE
    OBVIOUS
  <2>1. PICK s \in Bad : \A t \in Bad : t \subseteq s => t = s
    <3>1. Bad \in SUBSET SUBSET S
      OBVIOUS
    <3> HIDE DEF Bad
    <3> QED
      BY <3>1, SmallestSubset
  <2>2. s # {}
    <3>1. H({}) = F({})
      BY SumEmpty
    <3>2. H(s) # F(s \cap T) /\ {} \cap T = {}
      BY <2>1
    <3> QED
      BY <3>1, <3>2
  <2>3. PICK x \in s : TRUE
    BY <2>2
  <2>4. /\ IsFiniteSet(s) /\ IsFiniteSet(s \ {x}) /\ s \ {x} \notin Bad /\ s \ {x} \in SUBSET S
        /\ IsFiniteSet(s \cap T) /\ IsFiniteSet((s \ {x}) \cap T)
    BY <2>1, <2>3, FS_Subset
  <2>5. H(s \ {x}) = F((s \ {x}) \cap T) /\ F((s \ {x}) \cap T) \in Int
    <3>1. F((s \ {x}) \cap T) \in Int
      <4>1. \A y \in (s \ {x}) \cap T : f[y] \in Int
        OBVIOUS
      <4> QED
        BY <2>4, <4>1, SumInt
    <3> QED
      BY <2>4, <3>1
  <2>6. H(s) = h[x] + H(s \ {x})
    <3>1. \A y \in s : h[y] \in Int
      BY <2>1
    <3> QED
      BY <2>3, <2>4, <3>1, SumSplit
  <2>7. H(s) # F(s \cap T)
    BY <2>1
  <2>8. CASE x \in T
    <3>1. F(s \cap T) = f[x] + F((s \cap T) \ {x})
      <4>1. x \in s \cap T /\ \A y \in s \cap T : f[y] \in Int
        BY <2>3, <2>8
      <4> QED
        BY <2>4, <4>1, SumSplit
    <3>2. (s \cap T) \ {x} = (s \ {x}) \cap T
      OBVIOUS
    <3>3. h[x] = f[x]
      BY <2>1, <2>3, <2>8
    <3> HIDE DEF F, H, Bad
    <3> QED
      BY <2>5, <2>6, <2>7, <3>1, <3>2, <3>3
  <2>9. CASE x \notin T
    <3>1. s \cap T = (s \ {x}) \cap T /\ h[x] = 0
      BY <2>1, <2>3, <2>9
    <3>2. F(s \cap T) = F((s \ {x}) \cap T)
      BY <3>1
    <3>3. H(s) = 0 + H(s \ {x}) /\ H(s \ {x}) \in Int
      BY <2>5, <2>6, <3>1
    <3> HIDE DEF F, H, Bad
    <3>4. H(s) = H(s \ {x})
      BY <3>3
    <3> QED
      BY <2>5, <2>7, <3>2, <3>4
  <2>10. x \in T \/ x \notin T
    OBVIOUS
  <2> HIDE DEF F, H, Bad
  <2> QED
    BY <2>8, <2>9, <2>10
<1>2. H(S) = F(T)
  <2>1. S \cap T = T
    OBVIOUS
  <2> QED
    BY <1>1, <2>1
<1> QED
  BY <1>2, FunctionSum

(* As often the same term as there are elements.                           *)
LEMMA SumConstant ==
  ASSUME NEW S, IsFiniteSet(S), NEW k \in Int, NEW h, DOMAIN h = S, \A x \in S : h[x] = k
  PROVE  SumFunction(h) = k * Cardinality(S)
<1> DEFINE H(s) == SumFunctionOnSet(h, s)
           Bad == {s \in SUBSET S : H(s) # k * Cardinality(s)}
<1>1. Bad = {}
  <2> SUFFICES ASSUME Bad # {} PROVE FALSE
    OBVIOUS
  <2>1. PICK s \in Bad : \A t \in Bad : t \subseteq s => t = s
    <3>1. Bad \in SUBSET SUBSET S
      OBVIOUS
    <3> HIDE DEF Bad
    <3> QED
      BY <3>1, SmallestSubset
  <2>2. s # {}
    <3>1. H({}) = 0 /\ Cardinality({}) = 0
      BY SumEmpty, FS_EmptySet
    <3>2. H({}) = k * Cardinality({})
      BY <3>1
    <3>3. H(s) # k * Cardinality(s)
      BY <2>1
    <3> QED
      BY <3>2, <3>3
  <2>3. PICK x \in s : TRUE
    BY <2>2
  <2>4. IsFiniteSet(s) /\ IsFiniteSet(s \ {x}) /\ s \ {x} \notin Bad /\ s \ {x} \in SUBSET S
    BY <2>1, <2>3, FS_Subset
  <2>5. PICK c \in Int : c = Cardinality(s \ {x}) /\ Cardinality(s) = c + 1
    <3>1. Cardinality(s) \in Nat /\ Cardinality(s \ {x}) = Cardinality(s) - 1
      BY <2>3, <2>4, FS_RemoveElement, FS_CardinalityType
    <3>2. PICK n \in Nat : n = Cardinality(s)
      BY <3>1
    <3> QED
      BY <3>1, <3>2
  <2>6. H(s \ {x}) = k * c
    BY <2>4, <2>5
  <2>7. H(s) = h[x] + H(s \ {x}) /\ h[x] = k
    <3>1. \A y \in s : h[y] \in Int /\ h[y] = k
      BY <2>1
    <3> QED
      BY <2>3, <2>4, <3>1, SumSplit
  <2>8. H(s) # k * (c + 1)
    BY <2>1, <2>5
  <2> HIDE DEF H
  <2> QED
    BY <2>6, <2>7, <2>8
<1> QED
  BY <1>1, FunctionSum

\* The terms of q that belong to group k.
GroupOf(q, g, k) == [x \in DOMAIN q |-> IF g[x] = k THEN q[x] ELSE 0]

(* Terms counted group by group: where the quantities of no group exceed   *)
(* its limit, the weighted sum does not exceed that of the limits.         *)
Grouped(S, K, g, q, w, c, u, v) ==
  /\ IsFiniteSet(S) /\ IsFiniteSet(K)
  /\ g \in [S -> K] /\ q \in [S -> Nat] /\ w \in [K -> Nat] /\ c \in [K -> Nat]
  /\ \A k \in K : SumFunction(GroupOf(q, g, k)) <= c[k]
  /\ u \in [S -> Int] /\ \A x \in S : u[x] = w[g[x]] * q[x]
  /\ v \in [K -> Int] /\ \A k \in K : v[k] = w[k] * c[k]

LEMMA SumGrouped ==
  ASSUME NEW S, NEW K, NEW g, NEW q, NEW w, NEW c, NEW u, NEW v,
         Grouped(S, K, g, q, w, c, u, v)
  PROVE  SumFunction(u) <= SumFunction(v)
<1> USE DEF Grouped
<1> DEFINE Part(L) == [x \in S |-> IF g[x] \in L THEN u[x] ELSE 0]
           One(k) == [x \in S |-> IF g[x] = k THEN u[x] ELSE 0]
           V(L) == SumFunctionOnSet(v, L)
           Bad == {L \in SUBSET K : ~(SumFunction(Part(L)) <= V(L))}
<1>1. \A L, k : Part(L) \in [S -> Int] /\ One(k) \in [S -> Int]
  OBVIOUS
<1>2. ASSUME NEW k \in K
      PROVE  SumFunction(One(k)) \in Int /\ SumFunction(One(k)) <= v[k]
  <2>1. PICK h : h = [x \in S |-> IF g[x] = k THEN q[x] ELSE 0]
    OBVIOUS
  <2>2. h \in [S -> Int] /\ h \in [S -> Nat]
    BY <2>1
  <2>3. PICK m \in Nat, d \in Nat, t \in Nat : m = w[k] /\ d = c[k] /\ t = SumFunction(h) /\ t <= d
    <3>1. SumFunction(h) \in Nat
      BY <2>2, FunctionSumNat
    <3>2. SumFunction(h) <= c[k]
      <4>1. h = GroupOf(q, g, k)
        BY <2>1 DEF GroupOf
      <4> QED
        BY <4>1
    <3>3. w[k] \in Nat /\ c[k] \in Nat
      OBVIOUS
    <3> QED
      BY <3>1, <3>2, <3>3
  <2>4. SumFunction(One(k)) = m * t
    <3>1. \A x \in S : One(k)[x] = m * h[x]
      <4>1. ASSUME NEW x \in S PROVE One(k)[x] = m * h[x]
        <5>1. CASE g[x] = k
          BY <2>1, <2>3, <5>1
        <5>2. CASE g[x] # k
          <6>1. h[x] = 0 /\ One(k)[x] = 0 /\ m * 0 = 0
            BY <2>1, <5>2
          <6> QED
            BY <6>1
        <5> QED
          BY <5>1, <5>2
      <4> QED
        BY <4>1
    <3>2. DOMAIN One(k) = S
      OBVIOUS
    <3>3. IsFiniteSet(S) /\ m \in Int
      OBVIOUS
    <3> HIDE DEF One, Grouped
    <3>4. PICK o : o = One(k)
      OBVIOUS
    <3>5. SumFunction(o) = m * SumFunction(h)
      BY <2>2, <3>1, <3>2, <3>3, <3>4, SumScale
    <3> QED
      BY <2>3, <3>4, <3>5
  <2>5. m * t <= m * d /\ m * t \in Int
    <3>1. \A e \in Nat : m * (t + e) = m * t + m * e /\ m * e \in Nat
      OBVIOUS
    <3>2. d - t \in Nat /\ d = t + (d - t)
      BY <2>3
    <3> QED
      BY <3>1, <3>2
  <2> HIDE DEF One
  <2> QED
    BY <2>3, <2>4, <2>5
<1>3. Bad = {}
  <2> SUFFICES ASSUME Bad # {} PROVE FALSE
    OBVIOUS
  <2>1. PICK L \in Bad : \A M \in Bad : M \subseteq L => M = L
    <3>1. Bad \in SUBSET SUBSET K
      OBVIOUS
    <3> HIDE DEF Bad
    <3> QED
      BY <3>1, SmallestSubset
  <2>2. L # {}
    <3>1. V({}) = 0
      BY SumEmpty
    <3>2. SumFunction(Part({})) = 0
      <4>1. DOMAIN Part({}) = S /\ \A x \in S : Part({})[x] = 0
        OBVIOUS
      <4> HIDE DEF Part
      <4> QED
        BY <4>1, FunctionSumZero
    <3>3. {} \notin Bad
      <4> HIDE DEF Part, V
      <4> QED
        BY <3>1, <3>2
    <3> HIDE DEF Bad
    <3> QED
      BY <2>1, <3>3
  <2>3. PICK k \in L : TRUE
    BY <2>2
  <2>4. /\ k \in K /\ L \in SUBSET K /\ L \ {k} \in SUBSET K /\ L \ {k} \notin Bad
        /\ IsFiniteSet(L) /\ IsFiniteSet(L \ {k})
    BY <2>1, <2>3, FS_Subset
  <2>5. SumFunction(Part(L \ {k})) <= V(L \ {k})
    BY <2>4
  <2>6. V(L) = v[k] + V(L \ {k}) /\ v[k] \in Int /\ V(L \ {k}) \in Int
    <3>1. \A y \in L : v[y] \in Int
      BY <2>4
    <3> QED
      BY <2>3, <2>4, <3>1, SumSplit, SumInt
  <2>7. SumFunction(Part(L)) = SumFunction(Part(L \ {k})) + SumFunction(One(k))
    <3>1. DOMAIN Part(L) = S /\ \A x \in S : Part(L)[x] = Part(L \ {k})[x] + One(k)[x]
      BY <2>3
    <3>2. Part(L \ {k}) \in [S -> Int] /\ One(k) \in [S -> Int]
      BY <1>1
    <3> HIDE DEF Part, One
    <3>3. PICK a, b, e : a = Part(L) /\ b = Part(L \ {k}) /\ e = One(k)
      OBVIOUS
    <3>4. DOMAIN a = S /\ \A x \in S : a[x] = b[x] + e[x]
      BY <3>1, <3>3
    <3>5. b \in [S -> Int] /\ e \in [S -> Int]
      BY <3>2, <3>3
    <3>6. SumFunction(a) = SumFunction(b) + SumFunction(e)
      BY <3>4, <3>5, SumPlus
    <3> QED
      BY <3>3, <3>6
  <2>8. SumFunction(Part(L \ {k})) \in Int
    <3>1. Part(L \ {k}) \in [S -> Int]
      BY <1>1
    <3> HIDE DEF Part
    <3> QED
      BY <3>1, FunctionSumInt
  <2>9. ~(SumFunction(Part(L)) <= V(L))
    BY <2>1
  <2>10. SumFunction(One(k)) \in Int /\ SumFunction(One(k)) <= v[k]
    BY <1>2, <2>4
  <2> HIDE DEF Part, One, V
  <2> QED
    BY <2>5, <2>6, <2>7, <2>8, <2>9, <2>10
<1>4. SumFunction(Part(K)) <= V(K)
  BY <1>3
<1>5. Part(K) = u
  OBVIOUS
<1>6. SumFunction(v) = V(K)
  BY FunctionSum
<1> QED
  BY <1>4, <1>5, <1>6

(* Where each term is within a limit and half a unit more, so is the sum,  *)
(* with half a unit for each.                                              *)
LEMMA SumWithin ==
  ASSUME NEW S, IsFiniteSet(S), NEW d \in [S -> Nat], NEW u \in [S -> Nat],
         NEW total \in Int, NEW owed \in Int,
         \A x \in S : 2 * total * d[x] <= 2 * owed * u[x] + total
  PROVE  2 * total * SumFunction(d) <= 2 * owed * SumFunction(u) + total * Cardinality(S)
<1>1. PICK a \in Int, b \in Int : a = 2 * total /\ b = 2 * owed
  OBVIOUS
<1>2. \A m, n \in Int : m * n \in Int
  OBVIOUS
<1>3. PICK f, g, h, j : /\ f = [x \in S |-> a * d[x]] /\ g = [x \in S |-> b * u[x]]
                        /\ h = [x \in S |-> total] /\ j = [x \in S |-> g[x] + h[x]]
  OBVIOUS
<1>4. d \in [S -> Int] /\ u \in [S -> Int]
  OBVIOUS
<1>5. f \in [S -> Int] /\ g \in [S -> Int] /\ h \in [S -> Int]
  BY <1>2, <1>3, <1>4
<1>6. j \in [S -> Int]
  BY <1>3, <1>5
<1>7. SumFunction(f) = a * SumFunction(d) /\ SumFunction(g) = b * SumFunction(u)
  BY <1>3, <1>4, SumScale
<1>8. SumFunction(h) = total * Cardinality(S)
  BY <1>3, SumConstant
<1>9. SumFunction(j) = SumFunction(g) + SumFunction(h)
  BY <1>3, <1>5, SumPlus
<1>10. \A x \in S : f[x] <= j[x]
  BY <1>1, <1>3
<1>11. SumFunction(f) <= SumFunction(j)
  BY <1>5, <1>6, <1>10, SumMonotone
<1> QED
  BY <1>1, <1>7, <1>8, <1>9, <1>11

-----------------------------------------------------------------------------
(* Division.                                                               *)

(* The quotient is the one number whose multiple leaves less than b.       *)
LEMMA Quotient ==
  ASSUME NEW a \in Int, NEW b \in Nat \ {0}
  PROVE  /\ a \div b \in Int /\ a % b \in 0 .. b - 1
         /\ a = b * (a \div b) + (a % b)
OBVIOUS

LEMMA Multiples ==
  ASSUME NEW b \in Nat \ {0}, NEW c \in Int, NEW d \in Int, c < d
  PROVE  b * c + b <= b * d
<1>1. PICK k \in Nat : d = c + 1 + k
  <2>1. d - c - 1 \in Nat /\ d = c + 1 + (d - c - 1)
    OBVIOUS
  <2> QED
    BY <2>1
<1>2. b * d = b * c + b + b * k
  BY <1>1
<1>3. b * k \in Nat /\ b * c \in Int
  BY <1>1
<1> QED
  BY <1>2, <1>3

LEMMA QuotientIs ==
  ASSUME NEW a \in Int, NEW b \in Nat \ {0}, NEW q \in Int, NEW k \in 0 .. b - 1, a = b * q + k
  PROVE  a \div b = q /\ a % b = k
<1>1. PICK p \in Int, m \in 0 .. b - 1 : p = a \div b /\ m = a % b /\ a = b * p + m
  BY Quotient
<1>2. ~(p < q)
  <2> SUFFICES ASSUME p < q PROVE FALSE
    OBVIOUS
  <2>1. b * p + b <= b * q /\ b * p \in Int /\ b * q \in Int
    BY <1>1, Multiples
  <2> QED
    BY <1>1, <2>1
<1>3. ~(q < p)
  <2> SUFFICES ASSUME q < p PROVE FALSE
    OBVIOUS
  <2>1. b * q + b <= b * p /\ b * p \in Int /\ b * q \in Int
    BY <1>1, Multiples
  <2> QED
    BY <1>1, <2>1
<1>4. p = q
  BY <1>1, <1>2, <1>3
<1>5. b * q \in Int
  OBVIOUS
<1> QED
  BY <1>1, <1>4, <1>5

-----------------------------------------------------------------------------
(* Rounding to the units of a column: an amount, a sum and its parts.      *)

LEMMA QuotientType ==
  ASSUME NEW a \in Int, NEW b \in Nat \ {0}
  PROVE  a \div b \in Int /\ (a >= 0 => a \div b \in Nat)
OBVIOUS

LEMMA RoundType ==
  /\ \A n \in Nat : Round(n) \in Nat
  /\ \A n \in Int : Round(n) \in Int
<1> DEFINE half(n) == (2 * n + Parts) \div (2 * Parts)
<1>1. 2 * Parts \in Nat \ {0}
  BY PartsAssumption
<1>2. ASSUME NEW n \in Nat PROVE half(n) \in Nat
  <2>1. 2 * n + Parts \in Nat
    BY PartsAssumption
  <2> QED
    BY <1>1, <2>1, QuotientType
<1>3. ASSUME NEW n \in Nat PROVE Round(n) = half(n)
  BY DEF Round
<1>4. ASSUME NEW n \in Int, n < 0 PROVE Round(n) \in Int
  <2>1. Round(n) = -half(-n)
    BY <1>4, PartsAssumption DEF Round
  <2>2. half(-n) \in Nat
    BY <1>2, <1>4
  <2> HIDE DEF half
  <2> QED
    BY <2>1, <2>2
<1> HIDE DEF half
<1> QED
  BY <1>2, <1>3, <1>4

(* A withdrawal is rounded as the deposit of the same amount.              *)
LEMMA RoundOdd ==
  ASSUME NEW n \in Nat \ {0}
  PROVE  Round(-n) = -Round(n)
BY PartsAssumption DEF Round

\* n rounded with halves up, which for positive n is what the column does.
HalfUp(n) == (2 * n + Parts) \div (2 * Parts)

LEMMA HalfUpIs ==
  ASSUME NEW n \in Int
  PROVE  \E q \in Int, k \in 0 .. 2 * Parts - 1 :
           q = HalfUp(n) /\ 2 * n + Parts = (2 * Parts) * q + k
<1>1. PICK a \in Int, b \in Nat \ {0} : a = 2 * n + Parts /\ b = 2 * Parts
  BY PartsAssumption
<1>2. a \div b \in Int /\ a % b \in 0 .. b - 1 /\ a = b * (a \div b) + (a % b)
  BY <1>1, Quotient
<1>3. HalfUp(n) = a \div b
  BY <1>1 DEF HalfUp
<1> QED
  BY <1>1, <1>2, <1>3

(* A negative n differs from it where it is a half, by one.                *)
LEMMA RoundIs ==
  ASSUME NEW n \in Int
  PROVE  /\ HalfUp(n) \in Int /\ Round(n) \in {HalfUp(n), HalfUp(n) - 1}
         /\ ~IsHalf(n) => Round(n) = HalfUp(n)
<1>0. Parts \in Nat \ {0} /\ 2 * Parts \in Nat \ {0}
  BY PartsAssumption
<1>1. PICK q \in Int, k \in 0 .. 2 * Parts - 1 :
        q = HalfUp(n) /\ 2 * n + Parts = (2 * Parts) * q + k
  BY HalfUpIs
<1>2. CASE n >= 0
  BY <1>1, <1>2 DEF Round, HalfUp
<1>3. CASE n < 0 /\ k # 0
  <2>1. /\ (2 * Parts) * q \in Int /\ (2 * Parts) * (-q) = -((2 * Parts) * q)
    BY <1>0, <1>1
  <2>2. Parts - 2 * n = (2 * Parts) * (-q) + (2 * Parts - k)
    BY <1>0, <1>1, <2>1
  <2>3. (Parts - 2 * n) \div (2 * Parts) = -q
    <3>1. 2 * Parts - k \in 0 .. 2 * Parts - 1 /\ -q \in Int /\ Parts - 2 * n \in Int
      BY <1>0, <1>1, <1>3
    <3> QED
      BY <1>0, <2>2, <3>1, QuotientIs
  <2>4. Round(n) = -(-q)
    BY <1>3, <2>3 DEF Round
  <2> QED
    BY <1>1, <2>4
<1>4. CASE n < 0 /\ k = 0
  <2>1. /\ (2 * Parts) * q \in Int
        /\ (2 * Parts) * (1 - q) = 2 * Parts - (2 * Parts) * q
    BY <1>0, <1>1
  <2>2. Parts - 2 * n = (2 * Parts) * (1 - q) + 0
    BY <1>0, <1>1, <1>4, <2>1
  <2>3. (Parts - 2 * n) \div (2 * Parts) = 1 - q
    <3>1. 0 \in 0 .. 2 * Parts - 1 /\ 1 - q \in Int /\ Parts - 2 * n \in Int
      BY <1>0, <1>1
    <3> QED
      BY <1>0, <2>2, <3>1, QuotientIs
  <2>4. Round(n) = q - 1
    <3>1. Round(n) = -(1 - q)
      BY <1>4, <2>3 DEF Round
    <3> QED
      BY <1>1, <3>1
  <2>5. IsHalf(n)
    <3>1. PICK m \in Int, j \in 0 .. Parts - 1 : j = n % Parts /\ n = Parts * m + j
      BY <1>0, Quotient
    <3>2. PICK c \in Int : c = 2 * q - 2 * m - 1
      BY <3>1
    <3>3. 2 * j = Parts * c
      <4>1. 2 * n + Parts = 2 * (Parts * q)
        BY <1>0, <1>1, <1>4
      <4>2. Parts * c = 2 * (Parts * q) - 2 * (Parts * m) - Parts
        BY <1>0, <3>1, <3>2
      <4>3. Parts * m \in Int /\ Parts * q \in Int
        BY <1>0, <3>1
      <4> QED
        BY <1>0, <3>1, <4>1, <4>2, <4>3
    <3>4. c # 0
      BY <3>1, <3>2
    <3>5. ~(c < 0)
      <4> SUFFICES ASSUME c < 0 PROVE FALSE
        OBVIOUS
      <4>1. Parts * c + Parts <= Parts * 0
        BY <1>0, <3>2, Multiples
      <4> QED
        BY <1>0, <3>1, <3>3, <4>1
    <3>6. ~(1 < c)
      <4> SUFFICES ASSUME 1 < c PROVE FALSE
        OBVIOUS
      <4>1. Parts * 1 + Parts <= Parts * c
        BY <1>0, <3>2, Multiples
      <4> QED
        BY <1>0, <3>1, <3>3, <4>1
    <3>7. c = 1
      BY <3>2, <3>4, <3>5, <3>6
    <3> QED
      BY <1>0, <3>1, <3>3, <3>7 DEF IsHalf
  <2> QED
    BY <1>1, <2>4, <2>5
<1> QED
  BY <1>1, <1>2, <1>3, <1>4

(* Whole units can be added before or after.                               *)
LEMMA UnitsAside ==
  ASSUME NEW n \in Int, NEW t \in Int
  PROVE  /\ Parts * t + n \in Int
         /\ HalfUp(Parts * t + n) = t + HalfUp(n)
         /\ IsHalf(Parts * t + n) <=> IsHalf(n)
<1>0. Parts \in Nat \ {0} /\ 2 * Parts \in Nat \ {0} /\ Parts * t \in Int
  BY PartsAssumption
<1>1. PICK q \in Int, k \in 0 .. 2 * Parts - 1 :
        q = HalfUp(n) /\ 2 * n + Parts = (2 * Parts) * q + k
  BY HalfUpIs
<1>2. HalfUp(Parts * t + n) = t + q
  <2>1. (2 * Parts) * (t + q) = 2 * (Parts * t) + (2 * Parts) * q /\ (2 * Parts) * q \in Int
    BY <1>0, <1>1
  <2>2. 2 * (Parts * t + n) + Parts = (2 * Parts) * (t + q) + k
    <3>1. PICK a \in Int, b \in Int : a = Parts * t /\ b = (2 * Parts) * q
      BY <1>0, <2>1
    <3>2. 2 * n + Parts = b + k /\ (2 * Parts) * (t + q) = 2 * a + b
      BY <1>1, <2>1, <3>1
    <3>3. 2 * (a + n) + Parts = 2 * a + (2 * n + Parts)
      BY <1>0, <3>1
    <3> QED
      BY <1>1, <3>1, <3>2, <3>3
  <2>3. 2 * (Parts * t + n) + Parts \in Int /\ t + q \in Int
    BY <1>0, <1>1
  <2> QED
    BY <1>0, <1>1, <2>2, <2>3, QuotientIs DEF HalfUp
<1>3. (Parts * t + n) % Parts = n % Parts
  <2>1. PICK m \in Int, j \in 0 .. Parts - 1 : j = n % Parts /\ n = Parts * m + j
    BY <1>0, Quotient
  <2>2. Parts * (t + m) = Parts * t + Parts * m /\ Parts * m \in Int
    BY <1>0, <2>1
  <2>3. Parts * t + n = Parts * (t + m) + j
    BY <1>0, <2>1, <2>2
  <2>4. Parts * t + n \in Int /\ t + m \in Int
    BY <1>0, <2>1
  <2> QED
    BY <1>0, <2>1, <2>3, <2>4, QuotientIs
<1> QED
  BY <1>0, <1>1, <1>2, <1>3 DEF IsHalf

(* The column rounds the sum and the record its amount: the two come to    *)
(* the same, but for a unit where the amount is a half.                    *)
LEMMA PlusIs ==
  ASSUME NEW n \in Int, NEW t \in Int
  PROVE  /\ Plus(t, n) \in Int /\ Round(n) \in Int
         /\ Plus(t, n) - t - Round(n) \in -1 .. 1
         /\ ~IsHalf(n) => Plus(t, n) = t + Round(n)
<1>1. PICK m \in Int : m = Parts * t + n
  BY UnitsAside
<1>2. HalfUp(m) = t + HalfUp(n) /\ (IsHalf(m) <=> IsHalf(n)) /\ Plus(t, n) = Round(m)
  BY <1>1, UnitsAside DEF Plus
<1>3. /\ HalfUp(n) \in Int /\ HalfUp(m) \in Int
      /\ Round(n) \in {HalfUp(n), HalfUp(n) - 1} /\ Round(m) \in {HalfUp(m), HalfUp(m) - 1}
      /\ ~IsHalf(n) => Round(n) = HalfUp(n) /\ Round(m) = HalfUp(m)
  BY <1>1, <1>2, RoundIs
<1> HIDE DEF HalfUp, IsHalf, Plus, Round
<1> QED
  BY <1>2, <1>3

(* The rounded deposit pays for what it covers.                            *)
LEMMA RoundCovers ==
  ASSUME NEW n \in Nat, NEW s \in Nat, Parts * s <= n
  PROVE  s <= Round(n)
<1>0. Parts \in Nat \ {0} /\ 2 * Parts \in Nat \ {0}
  BY PartsAssumption
<1>1. PICK q \in Int, k \in 0 .. 2 * Parts - 1 :
        q = HalfUp(n) /\ 2 * n + Parts = (2 * Parts) * q + k
  BY HalfUpIs
<1>2. Round(n) = q
  BY <1>1 DEF Round, HalfUp
<1>3. ~(q < s)
  <2> SUFFICES ASSUME q < s PROVE FALSE
    OBVIOUS
  <2>1. (2 * Parts) * q + 2 * Parts <= (2 * Parts) * s
    BY <1>0, <1>1, Multiples
  <2>2. (2 * Parts) * s = 2 * (Parts * s) /\ Parts * s \in Int /\ (2 * Parts) * q \in Int
    BY <1>0, <1>1
  <2> QED
    BY <1>0, <1>1, <2>1, <2>2
<1> QED
  BY <1>1, <1>2, <1>3

(* A record and a total that are not negative never differ.                *)
LEMMA PlusNat ==
  ASSUME NEW t \in Nat, NEW n \in Nat
  PROVE  Plus(t, n) = t + Round(n) /\ Round(n) \in Nat
<1>1. PICK m \in Nat : m = Parts * t + n
  BY PartsAssumption
<1>2. Round(n) = HalfUp(n) /\ Round(m) = HalfUp(m)
  BY <1>1 DEF Round, HalfUp
<1>3. HalfUp(m) = t + HalfUp(n) /\ Plus(t, n) = Round(m)
  BY <1>1, UnitsAside DEF Plus
<1> QED
  BY <1>2, <1>3, RoundType

(* An amount is a half when the opposite one is.                           *)
LEMMA HalfOdd ==
  ASSUME NEW n \in Int, IsHalf(-n)
  PROVE  IsHalf(n)
<1>0. Parts \in Nat \ {0}
  BY PartsAssumption
<1>1. PICK m \in Int : m = -n
  OBVIOUS
<1>2. PICK q \in Int, k \in 0 .. Parts - 1 : k = m % Parts /\ m = Parts * q + k
  BY <1>0, Quotient
<1>3. 2 * k = Parts
  BY <1>1, <1>2 DEF IsHalf
<1>4. PICK c \in Int : c = -q - 1
  BY <1>2
<1>5. n = Parts * c + k
  <2>1. Parts * c = -(Parts * q) - Parts /\ Parts * q \in Int
    BY <1>0, <1>2, <1>4
  <2> QED
    BY <1>0, <1>1, <1>2, <1>3, <2>1
<1>6. n % Parts = k
  BY <1>0, <1>2, <1>5, QuotientIs
<1> QED
  BY <1>3, <1>6 DEF IsHalf

(* What is taken off a total is rounded as what is added.                  *)
LEMMA MinusIs ==
  ASSUME NEW n \in Nat, NEW t \in Int
  PROVE  /\ Plus(t, -n) \in Int /\ Round(n) \in Int
         /\ Plus(t, -n) - t + Round(n) \in -1 .. 1
         /\ ~IsHalf(n) => Plus(t, -n) = t - Round(n)
<1>0. PICK m \in Int : m = -n /\ (n = 0 => m = 0)
  OBVIOUS
<1>1. PICK d \in Int, p \in Int : m = -n /\ d = Round(n) /\ p = Plus(t, m)
  <2>1. Round(n) \in Int /\ Plus(t, m) \in Int
    BY RoundType, PlusIs
  <2> QED
    BY <1>0, <2>1
<1>2. Round(m) = -d
  <2>1. CASE n = 0
    <3>1. Round(0) = 0
      <4>1. PICK k \in Nat : k = 2 * Parts /\ Parts \in 0 .. k - 1 /\ k # 0
        BY PartsAssumption
      <4>2. Parts = k * 0 + Parts
        BY <4>1
      <4>3. Parts \div k = 0
        BY <4>1, <4>2, QuotientIs, PartsAssumption
      <4> QED
        BY <4>1, <4>3, PartsAssumption DEF Round
    <3>2. m = 0
      BY <1>0, <2>1
    <3> QED
      BY <1>1, <2>1, <3>1, <3>2
  <2>2. CASE n # 0
    BY <1>1, <2>2, RoundOdd
  <2> QED
    BY <2>1, <2>2
<1>3. p - t - (-d) \in -1 .. 1 /\ (~IsHalf(m) => p = t + (-d))
  BY <1>1, <1>2, PlusIs
<1>4. IsHalf(m) => IsHalf(n)
  BY <1>1, HalfOdd
<1> QED
  BY <1>1, <1>3, <1>4

(* Rounding moves an amount by half a unit at most.                        *)
LEMMA RoundNear ==
  ASSUME NEW n \in Int
  PROVE  2 * n - Parts <= (2 * Parts) * Round(n) /\ (2 * Parts) * Round(n) <= 2 * n + Parts
<1>0. Parts \in Nat \ {0} /\ 2 * Parts \in Nat \ {0}
  BY PartsAssumption
<1>1. ASSUME NEW m \in Nat
      PROVE  \E q \in Int : /\ q = Round(m)
                            /\ 2 * m - Parts <= (2 * Parts) * q /\ (2 * Parts) * q <= 2 * m + Parts
  <2>1. PICK q \in Int, k \in 0 .. 2 * Parts - 1 :
          q = HalfUp(m) /\ 2 * m + Parts = (2 * Parts) * q + k
    <3>1. m \in Int
      OBVIOUS
    <3> QED
      BY <3>1, HalfUpIs
  <2>2. q = Round(m)
    BY <2>1 DEF Round, HalfUp
  <2>3. (2 * Parts) * q \in Int
    BY <1>0, <2>1
  <2> QED
    BY <1>0, <2>1, <2>2, <2>3
<1>2. CASE n >= 0
  BY <1>1, <1>2
<1>3. CASE n < 0
  <2>1. PICK m \in Nat \ {0} : m = -n
    BY <1>3
  <2>2. PICK q \in Int : /\ q = Round(m)
                         /\ 2 * m - Parts <= (2 * Parts) * q /\ (2 * Parts) * q <= 2 * m + Parts
    BY <1>1, <2>1
  <2>3. -m = n
    BY <2>1
  <2>4. Round(n) = -q
    BY <2>1, <2>2, <2>3, RoundOdd
  <2>5. (2 * Parts) * (-q) = -((2 * Parts) * q) /\ (2 * Parts) * q \in Int
    BY <1>0, <2>2
  <2> QED
    BY <1>0, <2>1, <2>2, <2>4, <2>5
<1> QED
  BY <1>2, <1>3

(* The total takes a difference and rounds it once, the record rounds its  *)
(* two amounts one by one: they come to the same but for a unit.           *)
LEMMA PlusDifference ==
  ASSUME NEW total \in Int, NEW paid \in Int, NEW t \in Int
  PROVE  Plus(t, total - paid) - t - (Round(total) - Round(paid)) \in -1 .. 1
<1>0. Parts \in Nat \ {0} /\ 2 * Parts \in Nat \ {0}
  BY PartsAssumption
<1>1. PICK m \in Int : m = Parts * t + (total - paid)
  BY <1>0
<1>2. PICK p \in Int, a \in Int, b \in Int : p = Round(m) /\ a = Round(total) /\ b = Round(paid)
  BY RoundType
<1>3. p = Plus(t, total - paid)
  BY <1>1, <1>2 DEF Plus
<1>4. PICK pp \in Int, aa \in Int, bb \in Int, tt \in Int :
        /\ pp = (2 * Parts) * p /\ aa = (2 * Parts) * a /\ bb = (2 * Parts) * b
        /\ tt = (2 * Parts) * t
  BY <1>0, <1>2
<1>5. /\ 2 * m - Parts <= pp /\ pp <= 2 * m + Parts
      /\ 2 * total - Parts <= aa /\ aa <= 2 * total + Parts
      /\ 2 * paid - Parts <= bb /\ bb <= 2 * paid + Parts
  BY <1>2, <1>4, RoundNear
<1>6. 2 * m = tt + 2 * total - 2 * paid
  <2>1. tt = 2 * (Parts * t) /\ Parts * t \in Int
    BY <1>0, <1>4
  <2> QED
    BY <1>1, <2>1
<1>7. PICK d \in Int : d = p - t - (a - b)
  BY <1>2
<1>8. PICK dd \in Int : dd = (2 * Parts) * d
  BY <1>0, <1>7
<1>9. dd = pp - tt - (aa - bb)
  BY <1>0, <1>2, <1>4, <1>7, <1>8
<1>10. -(3 * Parts) <= dd /\ dd <= 3 * Parts
  BY <1>0, <1>1, <1>4, <1>5, <1>6, <1>9
<1>11. ~(1 < d)
  <2> SUFFICES ASSUME 1 < d PROVE FALSE
    OBVIOUS
  <2>1. (2 * Parts) * 1 + 2 * Parts <= (2 * Parts) * d
    BY <1>0, <1>7, Multiples
  <2> QED
    BY <1>0, <1>8, <1>10, <2>1
<1>12. ~(d < -1)
  <2> SUFFICES ASSUME d < -1 PROVE FALSE
    OBVIOUS
  <2>1. (2 * Parts) * d + 2 * Parts <= (2 * Parts) * (-1)
    BY <1>0, <1>7, Multiples
  <2> QED
    BY <1>0, <1>8, <1>10, <2>1
<1>13. d \in -1 .. 1
  BY <1>7, <1>11, <1>12
<1>14. d = Plus(t, total - paid) - t - (Round(total) - Round(paid))
  BY <1>2, <1>3, <1>7
<1> QED
  BY <1>13, <1>14
=============================================================================
