--------------------------- MODULE MetricsProofs ----------------------------
(***************************************************************************)
(* Proofs about the counters of Counters and the metrics of Metrics beside *)
(* them, for every finite set of nodes, any calls and any number of        *)
(* crashes.                                                                *)
(*                                                                         *)
(* The first part is about sums over finite sets, the SumFunctionOnSet and *)
(* SumFunction of Functions.  They are defined by recursion over a set; an *)
(* induction over a finite set is the existence of a least subset among    *)
(* those that a claim fails for.                                           *)
(***************************************************************************)
EXTENDS Metrics, FiniteSetTheorems, WellFoundedInduction, TLAPS

(***************************************************************************)
(* Sums                                                                    *)
(***************************************************************************)

(* A set of subsets of a finite set, unless it is empty, has a least one.  *)
LEMMA LeastSubset ==
  ASSUME NEW S, IsFiniteSet(S), NEW Bad \in SUBSET SUBSET S, Bad # {}
  PROVE  \E T \in Bad : \A U \in Bad : U \subseteq T => U = T
<1>1. IsWellFoundedOn(StrictSubsetOrdering(S), FiniteSubsetsOf(S))
  BY FS_StrictSubsetOrderingWellFounded, Zenon
<1>2. FiniteSubsetsOf(S) = SUBSET S
  BY FS_FiniteSubsetsOfFinite, Zenon
<1>3. \E T \in Bad : \A U \in Bad : ~ (<<U, T>> \in StrictSubsetOrdering(S))
  <2>1. Bad \subseteq FiniteSubsetsOf(S)
    BY <1>2, Zenon
  <2> QED BY <1>1, <2>1, WFMin, Zenon
<1> QED BY <1>3, Zenon DEF StrictSubsetOrdering

Pick(s) == CHOOSE x \in s : TRUE
Rest(s) == s \ {Pick(s)}

LEMMA Picked ==
  ASSUME NEW s, s # {}
  PROVE  Pick(s) \in s /\ Rest(s) \subseteq s /\ Rest(s) # s
BY Zenon DEF Pick, Rest

Solves(g, f, S) ==
  g = [s \in SUBSET S |-> IF s = {} THEN 0 ELSE f[Pick(s)] + g[Rest(s)]]

LEMMA SumIsSolution ==
  ASSUME NEW f, NEW S
  PROVE  SumFunctionOnSet(f, S) = (CHOOSE g : Solves(g, f, S))[S]
BY Zenon DEF SumFunctionOnSet, FoldFunctionOnSet, MapThenFoldSet, Pick, Rest, Solves

LEMMA SolutionsAgree ==
  ASSUME NEW S, IsFiniteSet(S), NEW f, NEW g, Solves(g, f, S),
         NEW V, V \subseteq S, NEW h, Solves(h, f, V)
  PROVE  g[V] = h[V]
<1> DEFINE Bad == {T \in SUBSET V : g[T] # h[T]}
<1> SUFFICES \A T \in SUBSET V : g[T] = h[T]
  BY Zenon
<1> SUFFICES ASSUME Bad # {} PROVE FALSE
  BY Zenon
<1>1. PICK T \in Bad : \A W \in Bad : W \subseteq T => W = T
  <2>1. Bad \in SUBSET SUBSET S
    BY Zenon
  <2> HIDE DEF Bad
  <2> QED BY <2>1, LeastSubset
<1>2. T \in SUBSET S /\ T \in SUBSET V
  BY <1>1, Zenon
<1>3. /\ g[T] = IF T = {} THEN 0 ELSE f[Pick(T)] + g[Rest(T)]
      /\ h[T] = IF T = {} THEN 0 ELSE f[Pick(T)] + h[Rest(T)]
  BY <1>2, Zenon DEF Solves
<1>4. T # {} => g[Rest(T)] = h[Rest(T)]
  BY <1>1, Picked, Zenon
<1> QED BY <1>1, <1>3, <1>4, Zenon

LEMMA SolutionExists ==
  ASSUME NEW S, IsFiniteSet(S), NEW f
  PROVE  \E g : Solves(g, f, S)
<1> DEFINE Bad == {T \in SUBSET S : ~ \E g : Solves(g, f, T)}
           G(T) == CHOOSE g : Solves(g, f, T)
<1> SUFFICES ASSUME Bad # {} PROVE FALSE
  BY Zenon
<1>1. PICK T \in Bad : \A W \in Bad : W \subseteq T => W = T
  <2>1. Bad \in SUBSET SUBSET S
    BY Zenon
  <2> HIDE DEF Bad
  <2> QED BY <2>1, LeastSubset
<1>2. \A W \in SUBSET T : W # T => Solves(G(W), f, W)
  BY <1>1, Zenon
<1> DEFINE top == IF T = {} THEN 0 ELSE f[Pick(T)] + G(Rest(T))[Rest(T)]
           g == [s \in SUBSET T |-> IF s = T THEN top ELSE G(s)[s]]
<1>3. ASSUME NEW s \in SUBSET T, s # T, s # {}
      PROVE  G(s)[s] = f[Pick(s)] + G(Rest(s))[Rest(s)]
  <2>1. Rest(s) \in SUBSET T /\ Rest(s) # T /\ Rest(s) \in SUBSET s
    BY <1>3, Picked, Zenon
  <2>2. Solves(G(s), f, s) /\ Solves(G(Rest(s)), f, Rest(s))
    BY <1>2, <1>3, <2>1, Zenon
  <2> HIDE DEF G
  <2>3. s \in SUBSET S /\ IsFiniteSet(s)
    BY <1>1, FS_Subset, Zenon
  <2>4. G(s)[Rest(s)] = G(Rest(s))[Rest(s)]
    BY <2>1, <2>2, <2>3, SolutionsAgree
  <2>5. G(s)[s] = f[Pick(s)] + G(s)[Rest(s)]
    BY <1>3, <2>2, Zenon DEF Solves
  <2> QED BY <2>4, <2>5, Zenon
<1>4. ASSUME NEW s \in SUBSET T, s # T, s = {} PROVE G(s)[s] = 0
  <2>1. Solves(G(s), f, s)
    BY <1>2, <1>4, Zenon
  <2> HIDE DEF G
  <2> QED BY <1>4, <2>1, Zenon DEF Solves
<1> HIDE DEF G
<1>5. ASSUME NEW s \in SUBSET T
      PROVE  g[s] = IF s = {} THEN 0 ELSE f[Pick(s)] + g[Rest(s)]
  <2>1. s # {} => Rest(s) \in SUBSET T /\ Rest(s) # T
    BY Picked, Zenon
  <2>2. s # {} => g[Rest(s)] = G(Rest(s))[Rest(s)]
    BY <2>1, Zenon
  <2>3. CASE s = T
    BY <2>2, <2>3, Zenon
  <2>4. CASE s # T
    BY <1>3, <1>4, <2>2, <2>4, Zenon
  <2> QED BY <2>3, <2>4, Zenon
<1>6. Solves(g, f, T)
  <2>1. g = [s \in SUBSET T |-> g[s]]
    BY Zenon
  <2>2. [s \in SUBSET T |-> g[s]]
          = [s \in SUBSET T |-> IF s = {} THEN 0 ELSE f[Pick(s)] + g[Rest(s)]]
    <3> HIDE DEF g
    <3> QED BY <1>5, Zenon
  <2> HIDE DEF g
  <2> QED BY <2>1, <2>2, Zenon DEF Solves
<1> QED BY <1>1, <1>6, Zenon

(* The sum of no values is 0, any other takes out one and adds the rest.   *)
LEMMA SumUnfolds ==
  ASSUME NEW S, IsFiniteSet(S), NEW f
  PROVE  SumFunctionOnSet(f, S) =
           IF S = {} THEN 0 ELSE f[Pick(S)] + SumFunctionOnSet(f, Rest(S))
<1> DEFINE G(T) == CHOOSE g : Solves(g, f, T)
<1>1. S # {} => Rest(S) \in SUBSET S /\ IsFiniteSet(Rest(S))
  BY Picked, FS_Subset, Zenon
<1>2. Solves(G(S), f, S) /\ (S # {} => Solves(G(Rest(S)), f, Rest(S)))
  BY <1>1, SolutionExists, Zenon
<1>3. \A T : SumFunctionOnSet(f, T) = G(T)[T]
  BY SumIsSolution, Zenon
<1> HIDE DEF G
<1>4. S # {} => G(S)[Rest(S)] = G(Rest(S))[Rest(S)]
  BY <1>1, <1>2, SolutionsAgree
<1>5. G(S)[S] = IF S = {} THEN 0 ELSE f[Pick(S)] + G(S)[Rest(S)]
  BY <1>2, Zenon DEF Solves
<1> QED BY <1>3, <1>4, <1>5, Zenon

LEMMA SumEmpty ==
  ASSUME NEW f
  PROVE  SumFunctionOnSet(f, {}) = 0
BY SumUnfolds, FS_EmptySet, Zenon

LEMMA SumType ==
  ASSUME NEW S, IsFiniteSet(S), NEW f, \A x \in S : f[x] \in Int
  PROVE  SumFunctionOnSet(f, S) \in Int
<1> DEFINE Bad == {T \in SUBSET S : SumFunctionOnSet(f, T) \notin Int}
<1> SUFFICES ASSUME Bad # {} PROVE FALSE
  BY Zenon
<1>1. PICK T \in Bad : \A W \in Bad : W \subseteq T => W = T
  <2>1. Bad \in SUBSET SUBSET S
    BY Zenon
  <2> HIDE DEF Bad
  <2> QED BY <2>1, LeastSubset
<1>2. T \in SUBSET S /\ IsFiniteSet(T) /\ SumFunctionOnSet(f, T) \notin Int
  BY <1>1, FS_Subset, Zenon
<1>3. CASE T = {}
  BY <1>2, <1>3, SumEmpty
<1>4. CASE T # {}
  <2>1. Pick(T) \in S /\ Rest(T) \in SUBSET S /\ Rest(T) \subseteq T /\ Rest(T) # T
    BY <1>2, <1>4, Picked, Zenon
  <2>2. SumFunctionOnSet(f, Rest(T)) \in Int
    BY <1>1, <2>1, Zenon
  <2>3. SumFunctionOnSet(f, T) = f[Pick(T)] + SumFunctionOnSet(f, Rest(T))
    BY <1>2, <1>4, SumUnfolds, Zenon
  <2>4. f[Pick(T)] \in Int
    BY <2>1, Zenon
  <2> QED BY <1>2, <2>2, <2>3, <2>4
<1> QED BY <1>3, <1>4, Zenon

(* Any element may be the one that is taken out.                           *)
LEMMA SumElement ==
  ASSUME NEW S, IsFiniteSet(S), NEW f, \A x \in S : f[x] \in Int, NEW y \in S
  PROVE  SumFunctionOnSet(f, S) = f[y] + SumFunctionOnSet(f, S \ {y})
<1> DEFINE Sum(T) == SumFunctionOnSet(f, T)
           Bad == {T \in SUBSET S : \E x \in T : Sum(T) # f[x] + Sum(T \ {x})}
<1> SUFFICES ASSUME Bad # {} PROVE FALSE
  BY Zenon
<1>1. PICK T \in Bad : \A W \in Bad : W \subseteq T => W = T
  <2>1. Bad \in SUBSET SUBSET S
    BY Zenon
  <2> HIDE DEF Bad
  <2> QED BY <2>1, LeastSubset
<1>2. T \in SUBSET S /\ IsFiniteSet(T)
  BY <1>1, FS_Subset, Zenon
<1>3. PICK x \in T : Sum(T) # f[x] + Sum(T \ {x})
  BY <1>1, Zenon
<1>4. T # {} /\ T \ {x} # T /\ T \ {x} \subseteq T /\ IsFiniteSet(T \ {x})
  BY <1>2, <1>3, FS_Subset, Zenon
<1> DEFINE z == Pick(T)
<1>5. z \in T /\ Rest(T) = T \ {z} /\ Rest(T) # T
  BY <1>4, Picked, Zenon DEF Rest
<1>6. Sum(T) = f[z] + Sum(T \ {z})
  BY <1>2, <1>4, <1>5, SumUnfolds, Zenon
<1> HIDE DEF z, Sum
<1>7. z # x
  BY <1>3, <1>6, Zenon
<1>8. Sum(T \ {z}) = f[x] + Sum((T \ {z}) \ {x})
  <2>1. T \ {z} \notin Bad /\ T \ {z} \in SUBSET S /\ x \in T \ {z}
    BY <1>1, <1>2, <1>3, <1>5, <1>7, Zenon
  <2> QED BY <2>1, Zenon
<1>9. Sum(T \ {x}) = f[z] + Sum((T \ {x}) \ {z})
  <2>1. T \ {x} \notin Bad /\ T \ {x} \in SUBSET S /\ z \in T \ {x}
    BY <1>1, <1>2, <1>4, <1>5, <1>7, Zenon
  <2> QED BY <2>1, Zenon
<1>10. (T \ {x}) \ {z} = (T \ {z}) \ {x}
  BY Zenon
<1>11. Sum((T \ {x}) \ {z}) \in Int
  <2>1. IsFiniteSet((T \ {x}) \ {z}) /\ \A u \in (T \ {x}) \ {z} : f[u] \in Int
    BY <1>2, FS_Subset, Zenon
  <2> QED BY <2>1, SumType, Zenon DEF Sum
<1>12. f[x] \in Int /\ f[z] \in Int
  BY <1>2, <1>3, <1>5, Zenon
<1> DEFINE r == Sum((T \ {x}) \ {z})
<1>13. Sum(T) = f[z] + (f[x] + r) /\ Sum(T) # f[x] + (f[z] + r)
  BY <1>3, <1>6, <1>8, <1>9, <1>10, Zenon
<1> HIDE DEF r
<1> QED BY <1>11, <1>12, <1>13 DEF r

(* Sums keep the order of their summands, and common factors.              *)
LEMMA SumScaled ==
  ASSUME NEW S, IsFiniteSet(S), NEW a \in Int, NEW b \in Int,
         NEW f, \A x \in S : f[x] \in Int, NEW g, \A x \in S : g[x] \in Int,
         \A x \in S : a * f[x] <= b * g[x]
  PROVE  a * SumFunctionOnSet(f, S) <= b * SumFunctionOnSet(g, S)
<1> DEFINE F(T) == SumFunctionOnSet(f, T)
           G(T) == SumFunctionOnSet(g, T)
           Bad == {T \in SUBSET S : ~(a * F(T) <= b * G(T))}
<1> SUFFICES ASSUME Bad # {} PROVE FALSE
  BY Zenon
<1>1. PICK T \in Bad : \A W \in Bad : W \subseteq T => W = T
  <2>1. Bad \in SUBSET SUBSET S
    BY Zenon
  <2> HIDE DEF Bad
  <2> QED BY <2>1, LeastSubset
<1>2. T \in SUBSET S /\ IsFiniteSet(T) /\ ~(a * F(T) <= b * G(T))
  BY <1>1, FS_Subset, Zenon
<1>3. CASE T = {}
  BY <1>2, <1>3, SumEmpty
<1>4. CASE T # {}
  <2> DEFINE z == Pick(T) U == Rest(T)
  <2>1. z \in S /\ U \in SUBSET S /\ U \subseteq T /\ U # T
    BY <1>2, <1>4, Picked, Zenon
  <2>2. F(T) = f[z] + F(U) /\ G(T) = g[z] + G(U)
    BY <1>2, <1>4, SumUnfolds, Zenon
  <2>3. a * F(U) <= b * G(U)
    BY <1>1, <2>1, Zenon
  <2>4. IsFiniteSet(U)
    BY <2>1, FS_Subset, Zenon
  <2>5. F(U) \in Int /\ G(U) \in Int
    BY <2>1, <2>4, SumType, Zenon
  <2>6. f[z] \in Int /\ g[z] \in Int /\ a * f[z] <= b * g[z]
    BY <2>1, Zenon
  <2> HIDE DEF F, G, z, U
  <2>7. a * (f[z] + F(U)) = a * f[z] + a * F(U)
    BY <2>5, <2>6
  <2>8. b * (g[z] + G(U)) = b * g[z] + b * G(U)
    BY <2>5, <2>6
  <2>9. /\ a * f[z] \in Int /\ a * F(U) \in Int
        /\ b * g[z] \in Int /\ b * G(U) \in Int
    BY <2>5, <2>6
  <2> QED BY <1>2, <2>2, <2>3, <2>6, <2>7, <2>8, <2>9
<1> QED BY <1>3, <1>4, Zenon

LEMMA SumMonotone ==
  ASSUME NEW S, IsFiniteSet(S),
         NEW f, \A x \in S : f[x] \in Int, NEW g, \A x \in S : g[x] \in Int,
         \A x \in S : f[x] <= g[x]
  PROVE  SumFunctionOnSet(f, S) <= SumFunctionOnSet(g, S)
<1>1. \A x \in S : 1 * f[x] <= 1 * g[x]
  OBVIOUS
<1>2. SumFunctionOnSet(f, S) \in Int /\ SumFunctionOnSet(g, S) \in Int
  BY SumType, Zenon
<1>3. 1 * SumFunctionOnSet(f, S) <= 1 * SumFunctionOnSet(g, S)
  BY <1>1, SumScaled
<1> QED BY <1>2, <1>3

LEMMA SumSame ==
  ASSUME NEW S, IsFiniteSet(S),
         NEW f, \A x \in S : f[x] \in Int, NEW g, \A x \in S : f[x] = g[x]
  PROVE  SumFunctionOnSet(f, S) = SumFunctionOnSet(g, S)
<1>1. /\ \A x \in S : g[x] \in Int
      /\ \A x \in S : f[x] <= g[x]
      /\ \A x \in S : g[x] <= f[x]
  OBVIOUS
<1>2. SumFunctionOnSet(f, S) \in Int /\ SumFunctionOnSet(g, S) \in Int
  BY <1>1, SumType, Zenon
<1>3. SumFunctionOnSet(f, S) <= SumFunctionOnSet(g, S)
  BY <1>1, SumMonotone, Zenon
<1>4. SumFunctionOnSet(g, S) <= SumFunctionOnSet(f, S)
  BY <1>1, SumMonotone, Zenon
<1> QED BY <1>2, <1>3, <1>4

(* Sums of functions that differ in one argument.                          *)
LEMMA SumChanged ==
  ASSUME NEW S, IsFiniteSet(S), NEW f, \A x \in S : f[x] \in Int,
         NEW g, NEW y \in S, g[y] \in Int, \A x \in S : x # y => g[x] = f[x]
  PROVE  SumFunctionOnSet(g, S) = SumFunctionOnSet(f, S) + g[y] - f[y]
<1>1. \A x \in S : g[x] \in Int
  BY Zenon
<1>2. IsFiniteSet(S \ {y})
  BY FS_Subset, Zenon
<1>3. SumFunctionOnSet(f, S \ {y}) = SumFunctionOnSet(g, S \ {y})
  BY <1>2, SumSame, Zenon
<1>4. SumFunctionOnSet(f, S \ {y}) \in Int
  BY <1>2, SumType, Zenon
<1>5. /\ SumFunctionOnSet(f, S) = f[y] + SumFunctionOnSet(f, S \ {y})
      /\ SumFunctionOnSet(g, S) = g[y] + SumFunctionOnSet(g, S \ {y})
  BY <1>1, SumElement, Zenon
<1> QED BY <1>3, <1>4, <1>5

(* A sum of values that are not negative is not.                           *)
LEMMA SumNat ==
  ASSUME NEW S, IsFiniteSet(S), NEW f, \A x \in S : f[x] \in Nat
  PROVE  SumFunctionOnSet(f, S) \in Nat
<1>1. \A x \in S : f[x] \in Int /\ 0 * f[x] <= 1 * f[x]
  OBVIOUS
<1>2. SumFunctionOnSet(f, S) \in Int
  BY <1>1, SumType, Zenon
<1>3. 0 * SumFunctionOnSet(f, S) <= 1 * SumFunctionOnSet(f, S)
  BY <1>1, SumScaled
<1> QED BY <1>2, <1>3

(* A new element adds its value.                                           *)
LEMMA SumAdd ==
  ASSUME NEW S, IsFiniteSet(S), NEW y, y \notin S,
         NEW f, \A x \in S \cup {y} : f[x] \in Int
  PROVE  SumFunctionOnSet(f, S \cup {y}) = f[y] + SumFunctionOnSet(f, S)
<1>1. IsFiniteSet(S \cup {y}) /\ y \in S \cup {y}
  BY FS_AddElement, Zenon
<1>2. (S \cup {y}) \ {y} = S
  BY Zenon
<1>3. SumFunctionOnSet(f, S \cup {y})
        = f[y] + SumFunctionOnSet(f, (S \cup {y}) \ {y})
  BY <1>1, SumElement, Zenon
<1> QED BY <1>2, <1>3, Zenon

(* The sum of all values of a function, and of one that differs from it in *)
(* one argument.                                                           *)
LEMMA SumOfFunction ==
  ASSUME NEW S, IsFiniteSet(S), NEW f \in [S -> Int]
  PROVE  SumFunction(f) = SumFunctionOnSet(f, S) /\ SumFunction(f) \in Int
<1>1. SumFunction(f) = SumFunctionOnSet(f, S) /\ \A x \in S : f[x] \in Int
  BY Zenon DEF SumFunction
<1> QED BY <1>1, SumType, Zenon

LEMMA SumOfChanged ==
  ASSUME NEW S, IsFiniteSet(S), NEW f \in [S -> Int], NEW y \in S,
         NEW g \in [S -> Int], \A x \in S : x # y => g[x] = f[x]
  PROVE  SumFunction(g) = SumFunction(f) + g[y] - f[y]
<1>1. /\ SumFunction(f) = SumFunctionOnSet(f, S)
      /\ SumFunction(g) = SumFunctionOnSet(g, S)
  BY SumOfFunction, Zenon
<1>2. \A x \in S : f[x] \in Int /\ g[x] \in Int
  BY Zenon
<1>3. SumFunctionOnSet(g, S) = SumFunctionOnSet(f, S) + g[y] - f[y]
  BY <1>2, SumChanged
<1> QED BY <1>1, <1>3, Zenon

LEMMA SumOfZeros ==
  ASSUME NEW S, IsFiniteSet(S)
  PROVE  SumFunction([x \in S |-> 0]) = 0
<1> DEFINE f == [x \in S |-> 0]
<1>1. f \in [S -> Int] /\ \A x \in S : f[x] \in Int /\ 1 * f[x] <= 0 * f[x]
  OBVIOUS
<1>2. \A x \in S : f[x] \in Nat
  BY Zenon
<1> HIDE DEF f
<1>3. SumFunctionOnSet(f, S) \in Nat
  BY <1>2, SumNat, Zenon
<1>4. 1 * SumFunctionOnSet(f, S) <= 0 * SumFunctionOnSet(f, S)
  BY <1>1, SumScaled
<1>5. SumFunction(f) = SumFunctionOnSet(f, S)
  BY <1>1, SumOfFunction, Zenon
<1>6. SumFunction(f) = 0
  BY <1>3, <1>4, <1>5
<1> QED BY <1>6, Zenon DEF f

(* A finite set of integers has a least and a greatest element.            *)
LEMMA MinAndMax ==
  ASSUME NEW S, IsFiniteSet(S)
  PROVE  S \subseteq Int /\ S # {} => /\ \E x \in S : \A y \in S : x <= y
                                     /\ \E x \in S : \A y \in S : x >= y
<1> DEFINE Bounds(T) == /\ \E x \in T : \A y \in T : x <= y
                        /\ \E x \in T : \A y \in T : x >= y
           Bad == {T \in SUBSET S : T # {} /\ ~Bounds(T)}
<1>0. Bad # {} => \E T \in Bad : \A W \in Bad : W \subseteq T => W = T
  <2>1. Bad \in SUBSET SUBSET S
    BY Zenon
  <2> HIDE DEF Bad
  <2> QED BY <2>1, LeastSubset
<1> SUFFICES ASSUME S \subseteq Int, Bad # {} PROVE FALSE
  BY Zenon
<1>1. PICK T \in Bad : \A W \in Bad : W \subseteq T => W = T
  BY <1>0, Zenon
<1> DEFINE z == Pick(T) U == Rest(T)
<1>2. /\ z \in T /\ U \subseteq T /\ U # T /\ T \subseteq S /\ T \subseteq Int
      /\ \A y \in T : y = z \/ y \in U
  BY <1>1, Picked, Zenon DEF Rest
<1>3. U = {} \/ Bounds(U)
  BY <1>1, <1>2, Zenon
<1> HIDE DEF z, U
<1>4. \E x \in T : \A y \in T : x <= y
  <2>1. CASE U = {}
    BY <1>2, <2>1
  <2>2. ASSUME NEW x \in U, \A y \in U : x <= y PROVE \E m \in T : \A y \in T : m <= y
    <3>1. x \in Int /\ z \in Int /\ x \in T
      BY <1>2, Zenon
    <3>2. CASE x <= z
      BY <1>2, <2>2, <3>1, <3>2, Zenon
    <3>3. CASE z <= x
      <4>1. ASSUME NEW y \in T PROVE z <= y
        BY <1>2, <2>2, <3>1, <3>3
      <4> QED BY <1>2, <4>1, Zenon
    <3> QED BY <3>1, <3>2, <3>3
  <2> QED BY <1>3, <2>1, <2>2, Zenon
<1>5. \E x \in T : \A y \in T : x >= y
  <2>1. CASE U = {}
    BY <1>2, <2>1
  <2>2. ASSUME NEW x \in U, \A y \in U : x >= y PROVE \E m \in T : \A y \in T : m >= y
    <3>1. x \in Int /\ z \in Int /\ x \in T
      BY <1>2, Zenon
    <3>2. CASE x >= z
      BY <1>2, <2>2, <3>1, <3>2, Zenon
    <3>3. CASE z >= x
      <4>1. ASSUME NEW y \in T PROVE z >= y
        BY <1>2, <2>2, <3>1, <3>3
      <4> QED BY <1>2, <4>1, Zenon
    <3> QED BY <3>1, <3>2, <3>3
  <2> QED BY <1>3, <2>1, <2>2, Zenon
<1> QED BY <1>1, <1>4, <1>5, Zenon

(***************************************************************************)
(* The counters                                                            *)
(***************************************************************************)

LEMMA Links ==
  ASSUME NEW p \in Node, NEW n \in Node
  PROVE  <<p, n>> \in Link
BY Zenon DEF Link

(***************************************************************************)
(* Type correctness                                                        *)
(***************************************************************************)

LEMMA TypeNext ==
  ASSUME TypeOK, Next
  PROVE  TypeOK'
<1>1. ASSUME NEW c \in Client, NEW delta \in Deltas, Increment(c, delta)
      PROVE  TypeOK'
  <2> DEFINE m == Home[c]
  <2>1. m \in Node /\ <<m, m>> \in Link /\ delta \in Int
    BY CountersAssumption, Links, Zenon
  <2>2. /\ calls < MaxCalls /\ calls' = calls + 1
        /\ counts' = [counts EXCEPT ![<<m, m>>] = @ + delta]
        /\ aggregate' = [aggregate EXCEPT ![m] = @ + delta]
        /\ added' = [added EXCEPT ![m] = @ + delta]
        /\ raised' = [raised EXCEPT ![m] = IF delta > 0 THEN @ + delta ELSE @]
        /\ call' = [call EXCEPT ![c] = [pc |-> "read", val |-> 0]]
        /\ UNCHANGED <<disk, log, received, crashes>>
    BY <1>1, Zenon DEF Increment
  <2>3. calls' \in 0..MaxCalls
    BY <2>2, CountersAssumption DEF TypeOK
  <2>4. counts' \in [Link -> Int] /\ aggregate' \in [Node -> Int]
    BY <2>1, <2>2 DEF TypeOK
  <2>5. added' \in [Node -> Int] /\ raised' \in [Node -> Nat]
    BY <2>1, <2>2 DEF TypeOK
  <2>6. call' \in [Client -> [pc : {"idle", "read", "append"}, val : Int]]
    BY <2>2 DEF TypeOK
  <2> QED BY <2>2, <2>3, <2>4, <2>5, <2>6, Zenon DEF TypeOK
<1>2. ASSUME NEW c \in Client, GetNodeCount(c) PROVE TypeOK'
  <2>1. counts[<<Home[c], Home[c]>>] \in Int
    BY CountersAssumption, Links, Zenon DEF TypeOK
  <2>2. call' \in [Client -> [pc : {"idle", "read", "append"}, val : Int]]
    BY <1>2, <2>1, Zenon DEF TypeOK, GetNodeCount, NodeCount
  <2> QED BY <1>2, <2>2, Zenon DEF TypeOK, GetNodeCount
<1>3. ASSUME NEW c \in Client, LogAppend(c) PROVE TypeOK'
  <2>1. Home[c] \in Node /\ call[c].val \in Int
    BY CountersAssumption, Zenon DEF TypeOK
  <2>2. call' \in [Client -> [pc : {"idle", "read", "append"}, val : Int]]
    BY <1>3 DEF TypeOK, LogAppend, Idle
  <2>3. log' \in [Node -> SUBSET Int]
    BY <1>3, <2>1, Zenon DEF TypeOK, LogAppend
  <2> QED BY <1>3, <2>2, <2>3, Zenon DEF TypeOK, LogAppend
<1>4. ASSUME NEW p \in Node, NEW n \in Node, NEW val \in log[n], ApplyEntry(p, n, val)
      PROVE  TypeOK'
  <2> DEFINE new == IF val > counts[<<p, n>>] THEN val ELSE counts[<<p, n>>]
  <2>1. /\ <<p, n>> \in Link /\ val \in Int
        /\ counts[<<p, n>>] \in Int /\ aggregate[p] \in Int
    BY Links, Zenon DEF TypeOK
  <2>2. /\ counts' = [counts EXCEPT ![<<p, n>>] = new]
        /\ aggregate' = [aggregate EXCEPT ![p] = @ + new - counts[<<p, n>>]]
        /\ received' = [received EXCEPT ![<<p, n>>] = @ \cup {val}]
        /\ UNCHANGED <<disk, call, log, added, raised, calls, crashes>>
    BY <1>4, Zenon DEF ApplyEntry, SetNodeCount
  <2>3. new \in Int
    BY <2>1, Zenon
  <2> HIDE DEF new
  <2>4. counts' \in [Link -> Int]
    BY <2>1, <2>2, <2>3, Zenon DEF TypeOK
  <2>5. aggregate' \in [Node -> Int]
    <3>1. aggregate[p] + new - counts[<<p, n>>] \in Int
      BY <2>1, <2>3
    <3> QED BY <2>2, <3>1, Zenon DEF TypeOK
  <2>6. received' \in [Link -> SUBSET Int]
    BY <2>1, <2>2, SMTT(40) DEF TypeOK
  <2> QED BY <2>2, <2>4, <2>5, <2>6, Zenon DEF TypeOK
<1>5. ASSUME NEW n \in Node, Flush(n) PROVE TypeOK'
  <2>1. disk' \in [Link -> Int]
    BY <1>5, Zenon DEF Flush, TypeOK
  <2> QED BY <1>5, <2>1, Zenon DEF Flush, TypeOK
<1>6. ASSUME NEW n \in Node, Crash(n) PROVE TypeOK'
  <2>1. crashes' \in 0..MaxCrashes
    BY <1>6, CountersAssumption DEF Crash, TypeOK
  <2>2. counts' \in [Link -> Int]
    BY <1>6, Zenon DEF Crash, TypeOK
  <2>3. aggregate' \in [Node -> Int]
    <3>1. [m \in Node |-> disk[<<n, m>>]] \in [Node -> Int]
      BY Links, Zenon DEF TypeOK
    <3>2. Loaded(n) \in Int
      BY <3>1, SumOfFunction, CountersAssumption, Zenon DEF Loaded
    <3> QED BY <1>6, <3>2, Zenon DEF Crash, TypeOK
  <2>4. call' \in [Client -> [pc : {"idle", "read", "append"}, val : Int]]
    BY <1>6 DEF Crash, TypeOK, Idle
  <2>5. log' \in [Node -> SUBSET Int]
    BY <1>6, Zenon DEF Crash, TypeOK
  <2>6. received' \in [Link -> SUBSET Int]
    <3>1. ASSUME NEW l \in Link
          PROVE  (IF l[1] = n THEN {} ELSE received[l]) \in SUBSET Int
      BY Zenon DEF TypeOK
    <3> QED BY <1>6, <3>1, Zenon DEF Crash
  <2> QED BY <1>6, <2>1, <2>2, <2>3, <2>4, <2>5, <2>6, Zenon DEF Crash, TypeOK
<1> QED BY <1>1, <1>2, <1>3, <1>4, <1>5, <1>6, Zenon DEF Next

LEMMA TypeInit == Init => TypeOK
BY CountersAssumption DEF Init, TypeOK, Idle

(***************************************************************************)
(* The aggregate                                                           *)
(***************************************************************************)

(* The partial counts that a node keeps.                                   *)
Row(n) == [m \in Node |-> counts[<<n, m>>]]

(* One partial count changes, and the aggregate by the same amount.        *)
LEMMA OneCountChanges ==
  ASSUME TypeOK, AggregateIsSum, NEW p \in Node, NEW n \in Node, NEW v \in Int,
         counts' = [counts EXCEPT ![<<p, n>>] = v],
         aggregate' = [aggregate EXCEPT ![p] = aggregate[p] + v - counts[<<p, n>>]]
  PROVE  AggregateIsSum'
<1> SUFFICES ASSUME NEW q \in Node PROVE aggregate'[q] = SumFunction(Row(q)')
  BY Zenon DEF AggregateIsSum, Row
<1>1. Row(q) \in [Node -> Int] /\ aggregate[q] = SumFunction(Row(q))
  BY Links, Zenon DEF TypeOK, AggregateIsSum, Row
<1>2. <<p, n>> \in Link
  BY Links, Zenon
<1>3. CASE q = p
  <2>1. \A m \in Node : counts'[<<q, m>>] = IF m = n THEN v ELSE counts[<<q, m>>]
    BY <1>2, <1>3, Links, Zenon DEF TypeOK
  <2> DEFINE row == [m \in Node |-> counts'[<<q, m>>]]
  <2>2. /\ row \in [Node -> Int] /\ row[n] = v /\ Row(q)[n] = counts[<<p, n>>]
        /\ \A m \in Node : m # n => row[m] = Row(q)[m]
    BY <1>1, <1>3, <2>1, Zenon DEF Row
  <2>3. row = Row(q)'
    BY Zenon DEF Row
  <2> HIDE DEF row
  <2>4. SumFunction(row) = SumFunction(Row(q)) + row[n] - Row(q)[n]
    BY <1>1, <2>2, SumOfChanged, CountersAssumption
  <2>5. aggregate'[q] = aggregate[q] + v - counts[<<p, n>>]
    BY <1>3, Zenon DEF TypeOK
  <2> QED BY <1>1, <2>2, <2>3, <2>4, <2>5, Zenon
<1>4. CASE q # p
  <2>1. \A m \in Node : counts'[<<q, m>>] = counts[<<q, m>>]
    BY <1>2, <1>4, Links, Zenon DEF TypeOK
  <2>2. Row(q)' = Row(q) /\ aggregate'[q] = aggregate[q]
    BY <1>4, <2>1, Zenon DEF Row, TypeOK
  <2> QED BY <1>1, <2>2, Zenon
<1> QED BY <1>3, <1>4, Zenon

LEMMA AggregateNext ==
  ASSUME TypeOK, AggregateIsSum, Next
  PROVE  AggregateIsSum'
<1>1. ASSUME NEW c \in Client, NEW delta \in Deltas, Increment(c, delta)
      PROVE  AggregateIsSum'
  <2> DEFINE n == Home[c] v == counts[<<n, n>>] + delta
  <2>1. n \in Node /\ counts[<<n, n>>] \in Int /\ delta \in Int /\ aggregate[n] \in Int
    BY CountersAssumption, Links, Zenon DEF TypeOK
  <2>2. counts' = [counts EXCEPT ![<<n, n>>] = v]
    BY <1>1, Zenon DEF Increment
  <2>3. v \in Int /\ aggregate[n] + delta = aggregate[n] + v - counts[<<n, n>>]
    BY <2>1
  <2>4. aggregate' = [aggregate EXCEPT ![n] = aggregate[n] + delta]
    BY <1>1, Zenon DEF Increment
  <2> HIDE DEF n, v
  <2>5. aggregate' = [aggregate EXCEPT ![n] = aggregate[n] + v - counts[<<n, n>>]]
    BY <2>3, <2>4, Zenon
  <2> QED BY <2>1, <2>2, <2>3, <2>5, OneCountChanges, Zenon
<1>2. ASSUME NEW p \in Node, NEW n \in Node, NEW val \in log[n], ApplyEntry(p, n, val)
      PROVE  AggregateIsSum'
  <2> DEFINE new == IF val > counts[<<p, n>>] THEN val ELSE counts[<<p, n>>]
  <2>1. new \in Int
    BY Links, Zenon DEF TypeOK
  <2>2. /\ counts' = [counts EXCEPT ![<<p, n>>] = new]
        /\ aggregate' = [aggregate EXCEPT ![p] = aggregate[p] + new - counts[<<p, n>>]]
    BY <1>2, Zenon DEF ApplyEntry, SetNodeCount
  <2> HIDE DEF new
  <2> QED BY <2>1, <2>2, OneCountChanges, Zenon
<1>3. ASSUME NEW n \in Node, Crash(n) PROVE AggregateIsSum'
  <2> SUFFICES ASSUME NEW q \in Node PROVE aggregate'[q] = SumFunction(Row(q)')
    BY Zenon DEF AggregateIsSum, Row
  <2>1. \A m \in Node : counts'[<<q, m>>] = IF q = n THEN disk[<<q, m>>] ELSE counts[<<q, m>>]
    BY <1>3, Links, Zenon DEF Crash
  <2>2. CASE q = n
    <3>1. Row(q)' = [m \in Node |-> disk[<<n, m>>]]
      BY <2>1, <2>2, Zenon DEF Row
    <3> QED BY <1>3, <2>2, <3>1, Zenon DEF Crash, Loaded, TypeOK
  <2>3. CASE q # n
    <3>1. Row(q)' = Row(q)
      BY <2>1, <2>3, Zenon DEF Row
    <3>2. aggregate'[q] = aggregate[q]
      BY <1>3, <2>3, Zenon DEF Crash, TypeOK
    <3> QED BY <3>1, <3>2, Zenon DEF AggregateIsSum, Row
  <2> QED BY <2>2, <2>3, Zenon
<1>4. ASSUME UNCHANGED <<counts, aggregate>> PROVE AggregateIsSum'
  BY <1>4, Zenon DEF AggregateIsSum
<1> QED BY <1>1, <1>2, <1>3, <1>4, Zenon DEF Next, GetNodeCount, LogAppend, Flush

(***************************************************************************)
(* The partial counts                                                      *)
(***************************************************************************)

LEMMA InvInit == Init => CountersInv
<1> SUFFICES ASSUME Init PROVE CountersInv
  BY Zenon
<1>1. TypeOK
  BY CountersAssumption DEF Init, TypeOK, Idle
<1>2. \A n \in Node : OwnCount(n) /\ Announced(n)
  BY Links DEF Init, OwnCount, Announced, Idle
<1>3. ASSUME NEW p \in Node, NEW n \in Node PROVE Greatest(p, n)
  <2>1. counts[<<p, n>>] = 0 /\ received[<<p, n>>] = {}
    BY Links, Zenon DEF Init
  <2>2. IsGreatest(0, {} \cup {0})
    BY DEF IsGreatest
  <2> QED BY <2>1, <2>2, Zenon DEF Greatest
<1> QED BY <1>1, <1>2, <1>3, Zenon DEF CountersInv

(* store.increment: the count changes, and the call will announce it.      *)
LEMMA IncrementStep ==
  ASSUME CountersInv, NEW c \in Client, NEW delta \in Deltas, Increment(c, delta)
  PROVE  CountersInv'
<1> DEFINE m == Home[c]
<1>1. /\ TypeOK /\ m \in Node /\ <<m, m>> \in Link
      /\ delta \in Int
  BY CountersAssumption, Links, Zenon DEF CountersInv
<1>2. /\ calls < MaxCalls /\ calls' = calls + 1
      /\ counts' = [counts EXCEPT ![<<m, m>>] = @ + delta]
      /\ aggregate' = [aggregate EXCEPT ![m] = @ + delta]
      /\ added' = [added EXCEPT ![m] = @ + delta]
      /\ raised' = [raised EXCEPT ![m] = IF delta > 0 THEN @ + delta ELSE @]
      /\ call' = [call EXCEPT ![c] = [pc |-> "read", val |-> 0]]
      /\ UNCHANGED <<disk, log, received, crashes>>
  BY Zenon DEF Increment
<1>3. TypeOK'
  BY <1>1, TypeNext, Zenon DEF Next
<1>4. /\ counts'[<<m, m>>] = counts[<<m, m>>] + delta
      /\ added'[m] = added[m] + delta
      /\ raised'[m] = IF delta > 0 THEN raised[m] + delta ELSE raised[m]
      /\ \A n \in Node : n # m => added'[n] = added[n] /\ raised'[n] = raised[n]
      /\ \A p, n \in Node : <<p, n>> # <<m, m>> => counts'[<<p, n>>] = counts[<<p, n>>]
      /\ call'[c] = [pc |-> "read", val |-> 0]
      /\ \A d \in Client : d # c => call'[d] = call[d]
  BY <1>1, <1>2, Links, Zenon DEF TypeOK
<1>5. ASSUME NEW n \in Node PROVE OwnCount(n)'
  <2>1. OwnCount(n)
    BY Zenon DEF CountersInv
  <2>2. /\ counts[<<n, n>>] = added[n] /\ added[n] <= raised[n]
        /\ added[n] \in Int /\ raised[n] \in Int /\ log[n] \subseteq Int
    BY <1>1, <2>1, SMT DEF OwnCount, TypeOK
  <2>3. /\ counts'[<<n, n>>] = added'[n] /\ added'[n] <= raised'[n]
        /\ raised'[n] \in Int /\ raised[n] <= raised'[n]
    <3>1. CASE n = m
      BY <1>1, <1>4, <2>2, <3>1, SMT
    <3>2. CASE n # m
      BY <1>4, <2>2, <3>2, SMT
    <3> QED BY <3>1, <3>2, Zenon
  <2>4. \A d \in Client : call'[d].pc = "append" => call'[d] = call[d]
    BY <1>4
  <2>5. \A val \in Int : val <= raised[n] => val <= raised'[n]
    BY <2>2, <2>3, SMT
  <2>6. \A d \in Client : call[d].val \in Int
    BY <1>1, Zenon DEF TypeOK
  <2> QED BY <1>2, <2>1, <2>2, <2>3, <2>4, <2>5, <2>6, Zenon DEF OwnCount
<1>6. ASSUME NEW n \in Node PROVE Announced(n)'
  <2>1. CASE n = m
    BY <1>4, <2>1, SMTT(60) DEF Announced
  <2>2. CASE n # m
    <3>1. Announced(n) /\ added'[n] = added[n] /\ log'[n] = log[n]
      BY <1>2, <1>4, <2>2, Zenon DEF CountersInv
    <3>2. \A d \in Client : Home[d] = n => call'[d] = call[d]
      BY <1>4, <2>2, Zenon
    <3> QED BY <3>1, <3>2, Zenon DEF Announced
  <2> QED BY <2>1, <2>2, Zenon
<1>7. ASSUME NEW p \in Node, NEW n \in Node, p # n PROVE Greatest(p, n)'
  <2>1. Greatest(p, n) /\ counts'[<<p, n>>] = counts[<<p, n>>]
    BY <1>4, <1>7 DEF CountersInv
  <2> QED BY <1>2, <2>1, Zenon DEF Greatest, IsGreatest
<1> QED BY <1>3, <1>5, <1>6, <1>7, Zenon DEF CountersInv

(* store.getNodeCount: the count read is the latest at that moment.        *)
LEMMA GetNodeCountStep ==
  ASSUME CountersInv, NEW c \in Client, GetNodeCount(c)
  PROVE  CountersInv'
<1> DEFINE m == Home[c]
<1>1. /\ TypeOK /\ m \in Node /\ <<m, m>> \in Link
      /\ counts[<<m, m>>] = added[m] /\ added[m] <= raised[m]
  BY CountersAssumption, Links, Zenon DEF CountersInv, OwnCount
<1>2. /\ call' = [call EXCEPT ![c] = [pc |-> "append", val |-> added[m]]]
      /\ UNCHANGED <<counts, aggregate, disk, log, received, added, raised, calls, crashes>>
  BY <1>1, Zenon DEF GetNodeCount, NodeCount
<1>3. /\ call'[c] = [pc |-> "append", val |-> added[m]]
      /\ \A d \in Client : d # c => call'[d] = call[d]
  BY <1>1, <1>2, Zenon DEF TypeOK
<1>4. TypeOK'
  BY <1>1, TypeNext, Zenon DEF Next
<1>5. ASSUME NEW n \in Node PROVE OwnCount(n)'
  <2>1. OwnCount(n)
    BY Zenon DEF CountersInv
  <2>2. ASSUME NEW d \in Client, Home[d] = n, call'[d].pc = "append"
        PROVE  call'[d].val <= raised[n]
    <3>1. CASE d = c
      <4>1. call'[d].val = added[m] /\ n = m
        BY <1>3, <2>2, <3>1
      <4> QED BY <1>1, <4>1, Zenon
    <3>2. CASE d # c
      BY <1>3, <2>1, <2>2, <3>2, Zenon DEF OwnCount
    <3> QED BY <3>1, <3>2, Zenon
  <2> QED BY <1>2, <2>1, <2>2, Zenon DEF OwnCount
<1>6. ASSUME NEW n \in Node PROVE Announced(n)'
  <2>1. CASE n = m
    BY <1>2, <1>3, <2>1, Zenon DEF Announced
  <2>2. CASE n # m
    <3>1. Announced(n) /\ \A d \in Client : Home[d] = n => call'[d] = call[d]
      BY <1>3, <2>2, Zenon DEF CountersInv
    <3> QED BY <1>2, <3>1, Zenon DEF Announced
  <2> QED BY <2>1, <2>2, Zenon
<1>7. \A p, n \in Node : p # n => Greatest(p, n)'
  BY <1>2, Zenon DEF CountersInv, Greatest, IsGreatest
<1> QED BY <1>4, <1>5, <1>6, <1>7, Zenon DEF CountersInv

(* log.Append: what the call announces moves to the log.                   *)
LEMMA LogAppendStep ==
  ASSUME CountersInv, NEW c \in Client, LogAppend(c)
  PROVE  CountersInv'
<1> DEFINE m == Home[c]
<1>1. TypeOK /\ m \in Node /\ call[c].pc = "append" /\ call[c].val \in Int
  BY CountersAssumption, Zenon DEF CountersInv, TypeOK, LogAppend
<1>2. /\ log' = [log EXCEPT ![m] = @ \cup {call[c].val}]
      /\ call' = [call EXCEPT ![c] = Idle]
      /\ UNCHANGED <<counts, aggregate, disk, received, added, raised, calls, crashes>>
  BY Zenon DEF LogAppend
<1>3. /\ log'[m] = log[m] \cup {call[c].val}
      /\ \A n \in Node : n # m => log'[n] = log[n]
      /\ call'[c] = Idle
      /\ \A d \in Client : d # c => call'[d] = call[d]
  BY <1>1, <1>2, Zenon DEF TypeOK
<1>4. TypeOK'
  BY <1>1, TypeNext, Zenon DEF Next
<1>5. ASSUME NEW n \in Node PROVE OwnCount(n)'
  <2>1. OwnCount(n)
    BY Zenon DEF CountersInv
  <2>2. \A val \in log'[n] : val <= raised[n]
    BY <1>1, <1>3, <2>1, Zenon DEF OwnCount
  <2>3. \A d \in Client : call'[d].pc = "append" => call'[d] = call[d]
    BY <1>3 DEF Idle
  <2> QED BY <1>2, <2>1, <2>2, <2>3, Zenon DEF OwnCount
<1>6. ASSUME NEW n \in Node PROVE Announced(n)'
  <2>1. Announced(n) /\ log[n] \subseteq log'[n]
    BY <1>3, Zenon DEF CountersInv
  <2>2. ASSUME NEW d \in Client, Home[d] = n,
               call[d].pc = "read" \/ call[d] = [pc |-> "append", val |-> added[n]]
        PROVE  Announced(n)'
    <3>1. CASE d = c
      BY <1>1, <1>2, <1>3, <2>2, <3>1 DEF Announced
    <3>2. CASE d # c
      BY <1>2, <1>3, <2>2, <3>2, Zenon DEF Announced
    <3> QED BY <3>1, <3>2, Zenon
  <2> QED BY <1>2, <2>1, <2>2, Zenon DEF Announced
<1>7. ASSUME NEW p \in Node, NEW n \in Node, p # n PROVE Greatest(p, n)'
  BY <1>2, <1>3, <1>7, Zenon DEF CountersInv, Greatest, IsGreatest
<1> QED BY <1>4, <1>5, <1>6, <1>7, Zenon DEF CountersInv

(* applyRemoteEntry: store.setNodeCount keeps the greater of two counts.   *)
LEMMA ApplyEntryStep ==
  ASSUME CountersInv, NEW p \in Node, NEW n \in Node, NEW val \in log[n],
         ApplyEntry(p, n, val)
  PROVE  CountersInv'
<1> DEFINE new == IF val > counts[<<p, n>>] THEN val ELSE counts[<<p, n>>]
<1>1. /\ TypeOK /\ p # n /\ <<p, n>> \in Link /\ val \in Int
      /\ counts[<<p, n>>] \in Int /\ aggregate[p] \in Int
  BY Links, Zenon DEF CountersInv, TypeOK, ApplyEntry
<1>2. /\ counts' = [counts EXCEPT ![<<p, n>>] = new]
      /\ aggregate' = [aggregate EXCEPT ![p] = @ + new - counts[<<p, n>>]]
      /\ received' = [received EXCEPT ![<<p, n>>] = @ \cup {val}]
      /\ UNCHANGED <<disk, call, log, added, raised, calls, crashes>>
  BY Zenon DEF ApplyEntry, SetNodeCount
<1>3. new \in Int /\ new \in {val, counts[<<p, n>>]}
      /\ val <= new /\ counts[<<p, n>>] <= new
  BY <1>1
<1> HIDE DEF new
<1>4. TypeOK'
  BY <1>1, TypeNext, Zenon DEF Next
<1>5. /\ counts'[<<p, n>>] = new
      /\ received'[<<p, n>>] = received[<<p, n>>] \cup {val}
      /\ \A q, m \in Node : <<q, m>> # <<p, n>> =>
           /\ counts'[<<q, m>>] = counts[<<q, m>>]
           /\ received'[<<q, m>>] = received[<<q, m>>]
  BY <1>1, <1>2, Links, Zenon DEF TypeOK
<1>6. \A m \in Node : OwnCount(m)' /\ Announced(m)'
  <2>1. \A m \in Node : counts'[<<m, m>>] = counts[<<m, m>>]
    BY <1>1, <1>5, Zenon
  <2> QED BY <1>2, <2>1, ZenonT(40) DEF CountersInv, OwnCount, Announced
<1>7. Greatest(p, n)'
  <2>1. Greatest(p, n)
    BY <1>1, Zenon DEF CountersInv
  <2>2. received'[<<p, n>>] \subseteq log'[n]
    BY <1>2, <1>5, <2>1, Zenon DEF Greatest
  <2>3. counts'[<<p, n>>] \in received'[<<p, n>>] \cup {0}
    BY <1>3, <1>5, <2>1, Zenon DEF Greatest, IsGreatest
  <2>4. ASSUME NEW v \in received'[<<p, n>>] \cup {0} PROVE v <= counts'[<<p, n>>]
    <3>1. v = 0 \/ v \in Int
      BY <1>1, <1>5, <2>1, Zenon DEF Greatest, TypeOK
    <3>2. v = val \/ v <= counts[<<p, n>>]
      BY <1>5, <2>1, Zenon DEF Greatest, IsGreatest
    <3> QED BY <1>1, <1>3, <1>5, <3>1, <3>2, SMTT(60)
  <2> QED BY <2>2, <2>3, <2>4, Zenon DEF Greatest, IsGreatest
<1>8. ASSUME NEW q \in Node, NEW m \in Node, q # m, <<q, m>> # <<p, n>>
      PROVE  Greatest(q, m)'
  <2>1. /\ counts'[<<q, m>>] = counts[<<q, m>>]
        /\ received'[<<q, m>>] = received[<<q, m>>]
    BY <1>5, <1>8, Zenon
  <2>2. Greatest(q, m)
    BY <1>8, Zenon DEF CountersInv
  <2> QED BY <1>2, <2>1, <2>2, Zenon DEF Greatest, IsGreatest
<1> QED BY <1>4, <1>6, <1>7, <1>8, Zenon DEF CountersInv

LEMMA FlushStep ==
  ASSUME CountersInv, NEW n \in Node, Flush(n)
  PROVE  CountersInv'
<1>1. UNCHANGED <<counts, aggregate, call, log, received, added, raised, calls, crashes>>
  BY Zenon DEF Flush
<1>3. TypeOK'
  BY TypeNext, Zenon DEF Next, CountersInv
<1>4. \A m \in Node : OwnCount(m)' /\ Announced(m)'
  BY <1>1, Zenon DEF CountersInv, OwnCount, Announced
<1>5. \A p, m \in Node : p # m => Greatest(p, m)'
  BY <1>1, Zenon DEF CountersInv, Greatest, IsGreatest
<1> QED BY <1>3, <1>4, <1>5, Zenon DEF CountersInv

(* When no call is in progress and every entry has arrived, the latest     *)
(* count of every node has.                                                *)
LEMMA SettledExact == InvUntilCrash => PartialsExact
<1> SUFFICES ASSUME CountersInv, Settled, NEW n \in Node, NEW p \in Node, p # n
             PROVE  /\ IsGreatest(counts[<<p, n>>], log[n] \cup {0})
                    /\ raised[n] = added[n] => counts[<<p, n>>] = added[n]
  BY Zenon DEF PartialsExact, Settled, InvUntilCrash, CountersInv, OwnCount
<1>1. OwnCount(n) /\ Greatest(p, n) /\ received[<<p, n>>] = log[n]
  BY Zenon DEF CountersInv, Settled
<1>2. added[n] = 0 \/ added[n] \in log[n]
  <2>1. \A c \in Client : call[c].pc = "idle"
    BY DEF Settled, Idle
  <2>2. \A c \in Client : call[c].pc # "read" /\ call[c].pc # "append"
    BY <2>1, Zenon
  <2>3. Announced(n)
    BY Zenon DEF CountersInv
  <2> QED BY <2>2, <2>3 DEF Announced
<1>3. IsGreatest(counts[<<p, n>>], log[n] \cup {0})
  BY <1>1, Zenon DEF Greatest
<1>4. added[n] <= counts[<<p, n>>]
  BY <1>2, <1>3, Zenon DEF IsGreatest
<1>5. counts[<<p, n>>] <= raised[n]
  <2>1. 0 <= raised[n]
    BY DEF CountersInv, TypeOK
  <2> QED BY <1>1, <1>3, <2>1, Zenon DEF IsGreatest, OwnCount
<1>6. counts[<<p, n>>] \in Int /\ added[n] \in Int
  BY Links, Zenon DEF CountersInv, TypeOK
<1> QED BY <1>3, <1>4, <1>5, <1>6

LEMMA UntilCrashNext ==
  ASSUME InvUntilCrash, Next
  PROVE  InvUntilCrash'
<1>1. ASSUME NEW n \in Node, Crash(n) PROVE InvUntilCrash'
  BY <1>1 DEF Crash, InvUntilCrash
<1>2. ASSUME \A n \in Node : ~Crash(n) PROVE InvUntilCrash'
  <2>1. crashes' = crashes
    BY <1>2, Zenon DEF Next, Increment, GetNodeCount, LogAppend, ApplyEntry, Flush
  <2>2. ASSUME CountersInv PROVE CountersInv'
    BY <1>2, <2>2, IncrementStep, GetNodeCountStep, LogAppendStep,
       ApplyEntryStep, FlushStep, Zenon DEF Next
  <2> QED BY <2>1, <2>2, Zenon DEF InvUntilCrash
<1> QED BY <1>1, <1>2, Zenon

(***************************************************************************)
(* No count exceeds the increments                                         *)
(***************************************************************************)

LEMMA BoundedNext ==
  ASSUME TypeOK, AllBounded, Next
  PROVE  AllBounded'
<1> SUFFICES ASSUME NEW k \in Node PROVE Bounded(k)'
  BY Zenon DEF AllBounded
<1> USE DEF Bounded
<1>1. Bounded(k) /\ raised[k] \in Int
  BY DEF AllBounded, TypeOK
<1>2. ASSUME NEW c \in Client, NEW delta \in Deltas, Increment(c, delta)
      PROVE  Bounded(k)'
  <2> DEFINE m == Home[c]
  <2>1. m \in Node /\ <<m, m>> \in Link /\ delta \in Int
    BY CountersAssumption, Links, Zenon
  <2>2. /\ raised' = [raised EXCEPT ![m] = IF delta > 0 THEN @ + delta ELSE @]
        /\ counts' = [counts EXCEPT ![<<m, m>>] = @ + delta]
        /\ call' = [call EXCEPT ![c] = [pc |-> "read", val |-> 0]]
        /\ UNCHANGED <<disk, log>>
    BY <1>2, Zenon DEF Increment
  <2>3. raised'[k] = (IF k = m /\ delta > 0 THEN raised[k] + delta ELSE raised[k])
    BY <2>1, <2>2, Zenon DEF TypeOK
  <2>4. raised'[k] \in Int /\ raised[k] <= raised'[k]
    BY <1>1, <2>1, <2>3
  <2>5. ASSUME NEW p \in Node
        PROVE  counts'[<<p, k>>] <= raised'[k] /\ disk'[<<p, k>>] <= raised'[k]
    <3>1. /\ counts[<<p, k>>] \in Int /\ disk[<<p, k>>] \in Int
          /\ counts[<<p, k>>] <= raised[k] /\ disk[<<p, k>>] <= raised[k]
      BY <1>1, Links, Zenon DEF TypeOK
    <3>2. counts'[<<p, k>>] = IF <<p, k>> = <<m, m>> THEN counts[<<p, k>>] + delta
                              ELSE counts[<<p, k>>]
      BY <2>1, <2>2, Links, Zenon DEF TypeOK
    <3>3. counts'[<<p, k>>] <= raised'[k]
      BY <1>1, <2>1, <2>3, <2>4, <3>1, <3>2
    <3> QED BY <1>1, <2>2, <2>4, <3>1, <3>3
  <2>6. ASSUME NEW val \in log'[k] PROVE val <= raised'[k]
    <3>1. val \in Int /\ val <= raised[k]
      BY <1>1, <2>2, Zenon DEF TypeOK
    <3> QED BY <1>1, <2>4, <3>1
  <2>7. ASSUME NEW d \in Client, Home[d] = k, call'[d].pc = "append"
        PROVE  call'[d].val <= raised'[k]
    <3>1. call'[d] = IF d = c THEN [pc |-> "read", val |-> 0] ELSE call[d]
      BY <2>2, Zenon DEF TypeOK
    <3>2. call'[d] = call[d] /\ call[d].val \in Int
      BY <2>7, <3>1, SMTT(60) DEF TypeOK
    <3>3. call[d].val <= raised[k]
      BY <1>1, <2>7, <3>2, Zenon
    <3> QED BY <1>1, <2>4, <3>2, <3>3
  <2> QED BY <2>5, <2>6, <2>7, Zenon
<1>3. ASSUME NEW c \in Client, GetNodeCount(c) PROVE Bounded(k)'
  <2> DEFINE m == Home[c]
  <2>1. m \in Node
    BY CountersAssumption, Zenon
  <2>2. /\ call' = [call EXCEPT ![c] = [pc |-> "append", val |-> counts[<<m, m>>]]]
        /\ UNCHANGED <<counts, disk, log, raised>>
    BY <1>3, Zenon DEF GetNodeCount, NodeCount
  <2>3. ASSUME NEW d \in Client, Home[d] = k, call'[d].pc = "append"
        PROVE  call'[d].val <= raised[k]
    <3>1. call'[d] = IF d = c THEN [pc |-> "append", val |-> counts[<<m, m>>]] ELSE call[d]
      BY <2>2, Zenon DEF TypeOK
    <3>2. CASE d = c
      BY <1>1, <2>1, <2>3, <3>1, <3>2
    <3>3. CASE d # c
      BY <1>1, <2>3, <3>1, <3>3, Zenon
    <3> QED BY <3>2, <3>3, Zenon
  <2> QED BY <1>1, <2>2, <2>3, Zenon
<1>4. ASSUME NEW c \in Client, LogAppend(c) PROVE Bounded(k)'
  <2>1. /\ call[c].pc = "append" /\ Home[c] \in Node
        /\ log' = [log EXCEPT ![Home[c]] = @ \cup {call[c].val}]
        /\ call' = [call EXCEPT ![c] = Idle]
        /\ UNCHANGED <<counts, disk, raised>>
    BY <1>4, CountersAssumption, Zenon DEF LogAppend
  <2>2. \A val \in log'[k] : val \in log[k] \/ (Home[c] = k /\ val = call[c].val)
    BY <2>1, Zenon DEF TypeOK
  <2>3. \A d \in Client : call'[d].pc = "append" => call'[d] = call[d]
    BY <2>1, Zenon DEF TypeOK, Idle
  <2> QED BY <1>1, <2>1, <2>2, <2>3, Zenon
<1>5. ASSUME NEW p \in Node, NEW n \in Node, NEW val \in log[n], ApplyEntry(p, n, val)
      PROVE  Bounded(k)'
  <2>1. /\ \E v \in {val, counts[<<p, n>>]} : counts' = [counts EXCEPT ![<<p, n>>] = v]
        /\ UNCHANGED <<disk, call, log, raised>>
    BY <1>5, Zenon DEF ApplyEntry, SetNodeCount
  <2>2. ASSUME NEW q \in Node PROVE counts'[<<q, k>>] <= raised[k]
    <3>1. \/ counts'[<<q, k>>] = counts[<<q, k>>]
          \/ n = k /\ counts'[<<q, k>>] = val
      BY <2>1, Links, Zenon DEF TypeOK
    <3> QED BY <1>1, <3>1, Zenon
  <2> QED BY <1>1, <2>1, <2>2, Zenon
<1>6. ASSUME NEW n \in Node, Flush(n) PROVE Bounded(k)'
  <2>1. \A p \in Node : disk'[<<p, k>>] \in {counts[<<p, k>>], disk[<<p, k>>]}
    BY <1>6, Links, Zenon DEF Flush
  <2> QED BY <1>1, <1>6, <2>1, Zenon DEF Flush
<1>7. ASSUME NEW n \in Node, Crash(n) PROVE Bounded(k)'
  <2>1. /\ \A p \in Node : counts'[<<p, k>>] \in {counts[<<p, k>>], disk[<<p, k>>]}
        /\ log'[k] \subseteq log[k]
        /\ \A d \in Client : call'[d].pc = "append" => call'[d] = call[d]
        /\ UNCHANGED <<disk, raised>>
    BY <1>7, Links, Zenon DEF Crash, TypeOK, Idle
  <2> QED BY <1>1, <2>1, Zenon
<1> QED BY <1>2, <1>3, <1>4, <1>5, <1>6, <1>7, Zenon DEF Next

LEMMA BoundedInit == Init => AllBounded
BY Links DEF Init, AllBounded, Bounded, Idle

LEMMA BoundedNeverOvercounts ==
  ASSUME TypeOK, AllBounded, AggregateIsSum
  PROVE  NeverOvercounts
<1> SUFFICES ASSUME NEW n \in Node PROVE aggregate[n] <= SumFunction(raised)
  BY Zenon DEF NeverOvercounts
<1>0. raised \in [Node -> Int]
  BY DEF TypeOK
<1>1. /\ Row(n) \in [Node -> Int] /\ raised \in [Node -> Int]
      /\ aggregate[n] = SumFunction(Row(n))
      /\ \A m \in Node : Row(n)[m] \in Int /\ raised[m] \in Int
  BY <1>0, Links, Zenon DEF TypeOK, AggregateIsSum, Row
<1>2. \A m \in Node : Row(n)[m] <= raised[m]
  BY Zenon DEF AllBounded, Bounded, Row
<1>3. IsFiniteSet(Node)
  BY CountersAssumption, Zenon
<1>4. /\ SumFunction(Row(n)) = SumFunctionOnSet(Row(n), Node)
      /\ SumFunction(raised) = SumFunctionOnSet(raised, Node)
  BY <1>1, <1>3, SumOfFunction, Zenon
<1>5. SumFunctionOnSet(Row(n), Node) <= SumFunctionOnSet(raised, Node)
  BY <1>1, <1>2, <1>3, SumMonotone, Zenon
<1> QED BY <1>1, <1>4, <1>5, Zenon

LEMMA AggregateIsSumInit == Init => AggregateIsSum
<1> SUFFICES ASSUME Init, NEW n \in Node PROVE aggregate[n] = SumFunction(Row(n))
  BY Zenon DEF AggregateIsSum, Row
<1>1. Row(n) = [m \in Node |-> 0] /\ aggregate[n] = 0
  BY Links, Zenon DEF Init, Row
<1>2. SumFunction([m \in Node |-> 0]) = 0
  BY SumOfZeros, CountersAssumption, Zenon
<1> QED BY <1>1, <1>2, Zenon


(***************************************************************************)
(* The metrics beside the counters                                         *)
(***************************************************************************)
counterVars == <<counts, aggregate, disk, call, log, received, added, raised, crashes>>

(* A step is one of Counters, or leaves it alone but for the number of     *)
(* calls.                                                                  *)
LEMMA CounterSteps ==
  ASSUME TypeOK, [MetricNext]_<<vars, metricVars>>
  PROVE  Next \/ (UNCHANGED counterVars /\ calls' \in 0..MaxCalls)
<1>1. CASE UNCHANGED <<vars, metricVars>>
  BY <1>1, Zenon DEF vars, counterVars, TypeOK
<1>2. CASE CounterStep
  BY <1>2, Zenon DEF CounterStep, Next
<1>3. ASSUME NEW c \in Client, NEW delta \in Deltas, IncrementMetric(c, delta)
      PROVE  UNCHANGED counterVars /\ calls' \in 0..MaxCalls
  BY <1>3, CountersAssumption, SMTT(60) DEF IncrementMetric, counterVars, TypeOK
<1>4. ASSUME NEW c \in Client, LogMetric(c)
      PROVE  UNCHANGED counterVars /\ calls' \in 0..MaxCalls
  BY <1>4, Zenon DEF LogMetric, counterVars, vars, TypeOK
<1>5. ASSUME NEW p \in Node, NEW n \in Node, NEW i \in DOMAIN mlog[n],
             ApplyMetric(p, n, i)
      PROVE  UNCHANGED counterVars /\ calls' \in 0..MaxCalls
  BY <1>5, Zenon DEF ApplyMetric, counterVars, vars, TypeOK
<1>6. ASSUME NEW n \in Node, FlushAll(n) \/ CrashAll(n) PROVE Next
  BY <1>6, Zenon DEF FlushAll, CrashAll, Next
<1> QED BY <1>1, <1>2, <1>3, <1>4, <1>5, <1>6, Zenon DEF MetricNext

LEMMA TypeMetricStep ==
  ASSUME TypeOK, [MetricNext]_<<vars, metricVars>>
  PROVE  TypeOK'
<1>1. CASE Next
  BY <1>1, TypeNext, Zenon
<1>2. CASE UNCHANGED counterVars /\ calls' \in 0..MaxCalls
  BY <1>2, Zenon DEF counterVars, TypeOK
<1> QED BY <1>1, <1>2, CounterSteps, Zenon

LEMMA AggregateMetricStep ==
  ASSUME TypeOK, AggregateIsSum, [MetricNext]_<<vars, metricVars>>
  PROVE  AggregateIsSum'
<1>1. CASE Next
  BY <1>1, AggregateNext, Zenon
<1>2. CASE UNCHANGED counterVars
  BY <1>2, Zenon DEF counterVars, AggregateIsSum
<1> QED BY <1>1, <1>2, CounterSteps, Zenon

LEMMA BoundedMetricStep ==
  ASSUME TypeOK, AllBounded, [MetricNext]_<<vars, metricVars>>
  PROVE  AllBounded'
<1>1. CASE Next
  BY <1>1, BoundedNext, Zenon
<1>2. CASE UNCHANGED counterVars
  BY <1>2, Zenon DEF counterVars, AllBounded, Bounded
<1> QED BY <1>1, <1>2, CounterSteps, Zenon

(* incrementMetric and what Hit makes of a metric.                         *)
LEMMA AddMetricTypes ==
  ASSUME metric \in [Link -> Metric], maggregate \in [Node -> Metric],
         NEW n \in Node, NEW m \in Node, NEW delta \in Int, AddMetric(n, m, delta)
  PROVE  metric' \in [Link -> Metric] /\ maggregate' \in [Node -> Metric]
<1>1. <<n, m>> \in Link
  BY Links, Zenon
<1>2. \A x \in Metric : Hit(x, delta) \in Metric
  BY DEF Hit, Metric
<1>3. metric' = [metric EXCEPT ![<<n, m>>] = Hit(metric[<<n, m>>], delta)]
  BY Zenon DEF AddMetric
<1>4. maggregate' = [maggregate EXCEPT ![n] = Hit(maggregate[n], delta)]
  BY Zenon DEF AddMetric
<1> QED BY <1>1, <1>2, <1>3, <1>4, Zenon

LEMMA LoadedMetricType ==
  ASSUME mdisk \in [Link -> Metric], NEW n \in Node
  PROVE  LoadedMetric(n) \in Metric
<1> DEFINE f == [m \in Node |-> mdisk[<<n, m>>].count]
           g == [m \in Node |-> mdisk[<<n, m>>].sum]
<1>1. f \in [Node -> Nat] /\ g \in [Node -> Int]
  BY Links, Zenon DEF Metric
<1>2. LoadedMetric(n) = [count |-> SumFunction(f), sum |-> SumFunction(g)]
  BY Zenon DEF LoadedMetric
<1> HIDE DEF f, g
<1>3. f \in [Node -> Int] /\ IsFiniteSet(Node) /\ \A m \in Node : f[m] \in Nat
  BY <1>1, CountersAssumption
<1>4. SumFunction(f) = SumFunctionOnSet(f, Node) /\ SumFunction(g) \in Int
  BY <1>1, <1>3, SumOfFunction, Zenon
<1>5. SumFunctionOnSet(f, Node) \in Nat
  BY <1>3, SumNat, Zenon
<1> QED BY <1>2, <1>4, <1>5 DEF Metric

LEMMA MetricTypeInit == MetricInit => MetricTypeOK
<1> SUFFICES ASSUME MetricInit PROVE MetricTypeOK
  BY Zenon
<1>1. TypeOK
  BY TypeInit, Zenon DEF MetricInit
<1>3. Zero \in Metric
  BY DEF Zero, Metric
<1>4. mlog \in [Node -> Seq(Deltas)]
  BY DEF MetricInit
<1>5. applied \in [Link -> SUBSET Nat] /\ \A l \in Link : applied[l] = {}
  BY Zenon DEF MetricInit
<1> QED BY <1>1, <1>3, <1>4, <1>5, MetricsAssumption DEF MetricInit, MetricTypeOK

LEMMA MetricTypeStep ==
  ASSUME MetricTypeOK, [MetricNext]_<<vars, metricVars>>
  PROVE  MetricTypeOK'
<1>1. TypeOK'
  BY TypeMetricStep, Zenon DEF MetricTypeOK
<1>2. CASE UNCHANGED metricVars
  BY <1>1, <1>2, Zenon DEF MetricTypeOK, metricVars
<1>3. ASSUME NEW c \in Client, NEW delta \in Deltas, IncrementMetric(c, delta)
      PROVE  MetricTypeOK'
  <2>1. metric' \in [Link -> Metric] /\ maggregate' \in [Node -> Metric]
    <3>1. Home[c] \in Node /\ delta \in Int
      BY CountersAssumption, Zenon
    <3> QED BY <1>3, <3>1, AddMetricTypes, Zenon DEF IncrementMetric, MetricTypeOK
  <2>2. recording' \in [Client -> [pc : {"append"}, val : Deltas] \cup {Idle}]
    BY <1>3, Zenon DEF IncrementMetric, MetricTypeOK
  <2> QED BY <1>1, <1>3, <2>1, <2>2, Zenon DEF IncrementMetric, MetricTypeOK
<1>4. ASSUME NEW c \in Client, LogMetric(c) PROVE MetricTypeOK'
  <2>1. recording' \in [Client -> [pc : {"append"}, val : Deltas] \cup {Idle}]
    BY <1>4, Zenon DEF LogMetric, MetricTypeOK
  <2>2. Home[c] \in Node /\ recording[c].val \in Deltas
    BY <1>4, CountersAssumption, Zenon DEF LogMetric, MetricTypeOK
  <2>3. \A n \in Node : mlog'[n] = IF n = Home[c] THEN Append(mlog[n], recording[c].val)
                                   ELSE mlog[n]
    BY <1>4, Zenon DEF LogMetric, MetricTypeOK
  <2>4. mlog' \in [Node -> Seq(Deltas)]
    BY <1>4, <2>2 DEF LogMetric, MetricTypeOK
  <2>5. \A n \in Node : DOMAIN mlog[n] \subseteq DOMAIN mlog'[n]
    <3> SUFFICES ASSUME NEW n \in Node PROVE DOMAIN mlog[n] \subseteq DOMAIN mlog'[n]
      BY Zenon
    <3>1. mlog[n] \in Seq(Deltas)
      BY Zenon DEF MetricTypeOK
    <3>2. DOMAIN mlog[n] \subseteq DOMAIN Append(mlog[n], recording[c].val)
      BY <2>2, <3>1
    <3> QED BY <2>3, <3>2, Zenon
  <2>6. \A l \in Link : applied'[l] \subseteq DOMAIN mlog'[l[2]]
    BY <1>4, <2>5, Zenon DEF LogMetric, MetricTypeOK, Link
  <2> QED BY <1>1, <1>4, <2>1, <2>4, <2>6, Zenon DEF LogMetric, MetricTypeOK
<1>5. ASSUME NEW p \in Node, NEW n \in Node, NEW i \in DOMAIN mlog[n],
             ApplyMetric(p, n, i)
      PROVE  MetricTypeOK'
  <2>1. mlog[n] \in Seq(Deltas) /\ mlog[n][i] \in Deltas /\ i \in Nat
    BY DEF MetricTypeOK
  <2>2. metric' \in [Link -> Metric] /\ maggregate' \in [Node -> Metric]
    <3>1. mlog[n][i] \in Int
      BY <2>1, CountersAssumption, Zenon
    <3> QED BY <1>5, <3>1, AddMetricTypes, Zenon DEF ApplyMetric, MetricTypeOK
  <2>3. applied' \in [Link -> SUBSET Nat]
    BY <1>5, <2>1, Zenon DEF ApplyMetric, MetricTypeOK
  <2>4. \A l \in Link : applied'[l] \subseteq DOMAIN mlog'[l[2]]
    <3>1. <<p, n>> \in Link /\ mlog' = mlog
      BY <1>5, Links, Zenon DEF ApplyMetric
    <3>2. \A l \in Link : applied'[l] \subseteq applied[l] \cup (IF l = <<p, n>> THEN {i} ELSE {})
      BY <1>5, <3>1, Zenon DEF ApplyMetric, MetricTypeOK
    <3>3. ASSUME NEW l \in Link PROVE applied'[l] \subseteq DOMAIN mlog[l[2]]
      <4>1. applied[l] \subseteq DOMAIN mlog[l[2]]
        BY Zenon DEF MetricTypeOK
      <4>2. CASE l = <<p, n>>
        <5>1. l[2] = n
          BY <4>2, Zenon
        <5> QED BY <3>2, <4>1, <5>1, Zenon
      <4>3. CASE l # <<p, n>>
        BY <3>2, <4>1, <4>3, Zenon
      <4> QED BY <4>2, <4>3, Zenon
    <3> QED BY <3>1, <3>3, Zenon
  <2>5. repeats' \in 0..MaxRepeats
    BY <1>5, MetricsAssumption DEF ApplyMetric, MetricTypeOK
  <2> QED BY <1>1, <1>5, <2>2, <2>3, <2>4, <2>5, Zenon DEF ApplyMetric, MetricTypeOK
<1>6. ASSUME NEW n \in Node, FlushAll(n) PROVE MetricTypeOK'
  <2>1. mdisk' \in [Link -> Metric]
    BY <1>6, Zenon DEF FlushAll, MetricTypeOK
  <2> QED BY <1>1, <1>6, <2>1, Zenon DEF FlushAll, MetricTypeOK
<1>7. ASSUME NEW n \in Node, CrashAll(n) PROVE MetricTypeOK'
  <2>1. metric' \in [Link -> Metric]
    BY <1>7, Zenon DEF CrashAll, MetricTypeOK
  <2>2. maggregate' \in [Node -> Metric]
    BY <1>7, LoadedMetricType, Zenon DEF CrashAll, MetricTypeOK
  <2>3. recording' \in [Client -> [pc : {"append"}, val : Deltas] \cup {Idle}]
    BY <1>7, Zenon DEF CrashAll, MetricTypeOK
  <2>4. mlog' = mlog
    BY <1>7, Zenon DEF CrashAll
  <2>5. applied' = [l \in Link |-> IF l[1] = n THEN {} ELSE applied[l]]
    BY <1>7, Zenon DEF CrashAll
  <2>6. applied' \in [Link -> SUBSET Nat]
    BY <2>5, Zenon DEF MetricTypeOK
  <2>7. \A l \in Link : applied'[l] \subseteq DOMAIN mlog'[l[2]]
    BY <2>4, <2>5, Zenon DEF MetricTypeOK
  <2> QED BY <1>1, <1>7, <2>1, <2>2, <2>3, <2>4, <2>6, <2>7, Zenon DEF CrashAll, MetricTypeOK
<1> QED BY <1>2, <1>3, <1>4, <1>5, <1>6, <1>7, Zenon DEF MetricNext

(***************************************************************************)
(* The aggregate of a metric                                               *)
(***************************************************************************)
CountRow(n) == [m \in Node |-> metric[<<n, m>>].count]
SumRow(n) == [m \in Node |-> metric[<<n, m>>].sum]

LEMMA RowTypes ==
  ASSUME metric \in [Link -> Metric], NEW n \in Node
  PROVE  CountRow(n) \in [Node -> Int] /\ SumRow(n) \in [Node -> Int]
BY Links, SMTT(60) DEF CountRow, SumRow, Metric

(* incrementMetric adds a hit to one partial metric and to the aggregate.  *)
LEMMA AddMetricKeepsSum ==
  ASSUME MetricTypeOK, MetricIsSum, NEW n \in Node, NEW m \in Node,
         NEW delta \in Int, AddMetric(n, m, delta)
  PROVE  MetricIsSum'
<1> SUFFICES ASSUME NEW q \in Node
             PROVE  /\ maggregate'[q].count = SumFunction(CountRow(q)')
                    /\ maggregate'[q].sum = SumFunction(SumRow(q)')
  BY Zenon DEF MetricIsSum, CountRow, SumRow
<1>1. /\ metric \in [Link -> Metric] /\ maggregate \in [Node -> Metric]
      /\ metric' \in [Link -> Metric]
  BY AddMetricTypes, Zenon DEF MetricTypeOK
<1>2. /\ maggregate[q].count = SumFunction(CountRow(q))
      /\ maggregate[q].sum = SumFunction(SumRow(q))
  BY Zenon DEF MetricIsSum, CountRow, SumRow
<1>3. /\ metric' = [metric EXCEPT ![<<n, m>>] = Hit(metric[<<n, m>>], delta)]
      /\ maggregate' = [maggregate EXCEPT ![n] = Hit(maggregate[n], delta)]
      /\ <<n, m>> \in Link
  BY Links, Zenon DEF AddMetric
<1>4. \A k \in Node : metric'[<<q, k>>] = IF q = n /\ k = m THEN Hit(metric[<<q, k>>], delta)
                                          ELSE metric[<<q, k>>]
  BY <1>1, <1>3, Links, Zenon
<1>5. CASE q = n
  <2> DEFINE cs == [k \in Node |-> metric'[<<q, k>>].count]
             ss == [k \in Node |-> metric'[<<q, k>>].sum]
  <2>1. cs = CountRow(q)' /\ ss = SumRow(q)'
    BY Zenon DEF CountRow, SumRow
  <2>2. cs \in [Node -> Int] /\ ss \in [Node -> Int]
    BY <1>1, Links, SMTT(60) DEF Metric
  <2>3. /\ cs[m] = CountRow(q)[m] + 1 /\ ss[m] = SumRow(q)[m] + delta
        /\ \A k \in Node : k # m => cs[k] = CountRow(q)[k]
        /\ \A k \in Node : k # m => ss[k] = SumRow(q)[k]
    <3>1. metric'[<<q, m>>] = Hit(metric[<<q, m>>], delta)
      BY <1>4, <1>5, Zenon
    <3>2. /\ metric'[<<q, m>>].count = metric[<<q, m>>].count + 1
          /\ metric'[<<q, m>>].sum = metric[<<q, m>>].sum + delta
      BY <3>1 DEF Hit
    <3>3. \A k \in Node : k # m => metric'[<<q, k>>] = metric[<<q, k>>]
      BY <1>4, Zenon
    <3> QED BY <3>2, <3>3, Zenon DEF CountRow, SumRow
  <2> HIDE DEF cs, ss
  <2>4. IsFiniteSet(Node) /\ CountRow(q) \in [Node -> Int] /\ SumRow(q) \in [Node -> Int]
    BY <1>1, RowTypes, CountersAssumption, Zenon
  <2>5. SumFunction(cs) = SumFunction(CountRow(q)) + cs[m] - CountRow(q)[m]
    BY <2>2, <2>3, <2>4, SumOfChanged
  <2>6. SumFunction(ss) = SumFunction(SumRow(q)) + ss[m] - SumRow(q)[m]
    BY <2>2, <2>3, <2>4, SumOfChanged
  <2>7. /\ maggregate'[q].count = maggregate[q].count + 1
        /\ maggregate'[q].sum = maggregate[q].sum + delta
    BY <1>1, <1>3, <1>5, Zenon DEF Hit
  <2>8. /\ CountRow(q)[m] \in Int /\ SumRow(q)[m] \in Int
        /\ SumFunction(CountRow(q)) \in Int /\ SumFunction(SumRow(q)) \in Int
    BY <2>4, SumOfFunction, Zenon
  <2>9. maggregate'[q].count = SumFunction(cs)
    BY <1>2, <2>3, <2>5, <2>7, <2>8, SMTT(60)
  <2>10. maggregate'[q].sum = SumFunction(ss)
    BY <1>2, <2>3, <2>6, <2>7, <2>8
  <2> QED BY <2>1, <2>9, <2>10, Zenon
<1>6. CASE q # n
  <2>1. CountRow(q)' = CountRow(q) /\ SumRow(q)' = SumRow(q)
    BY <1>4, <1>6, Zenon DEF CountRow, SumRow
  <2>2. maggregate'[q] = maggregate[q]
    BY <1>1, <1>3, <1>6, Zenon
  <2> QED BY <1>2, <2>1, <2>2, Zenon
<1> QED BY <1>5, <1>6, Zenon

LEMMA MetricIsSumStep ==
  ASSUME MetricTypeOK, MetricIsSum, [MetricNext]_<<vars, metricVars>>
  PROVE  MetricIsSum'
<1>1. ASSUME UNCHANGED <<metric, maggregate>> PROVE MetricIsSum'
  BY <1>1, Zenon DEF MetricIsSum
<1>2. ASSUME NEW c \in Client, NEW delta \in Deltas, IncrementMetric(c, delta)
      PROVE  MetricIsSum'
  <2>1. Home[c] \in Node /\ delta \in Int
    BY CountersAssumption, Zenon
  <2> QED BY <1>2, <2>1, AddMetricKeepsSum, Zenon DEF IncrementMetric
<1>3. ASSUME NEW p \in Node, NEW n \in Node, NEW i \in DOMAIN mlog[n],
             ApplyMetric(p, n, i)
      PROVE  MetricIsSum'
  <2>1. mlog[n][i] \in Int
    <3>1. mlog[n] \in Seq(Deltas)
      BY Zenon DEF MetricTypeOK
    <3>2. mlog[n][i] \in Deltas
      BY <3>1
    <3> QED BY <3>2, CountersAssumption, Zenon
  <2> QED BY <1>3, <2>1, AddMetricKeepsSum, Zenon DEF ApplyMetric
<1>4. ASSUME NEW n \in Node, CrashAll(n) PROVE MetricIsSum'
  <2> SUFFICES ASSUME NEW q \in Node
               PROVE  /\ maggregate'[q].count = SumFunction(CountRow(q)')
                      /\ maggregate'[q].sum = SumFunction(SumRow(q)')
    BY Zenon DEF MetricIsSum, CountRow, SumRow
  <2>1. \A m \in Node : metric'[<<q, m>>] = IF q = n THEN mdisk[<<q, m>>] ELSE metric[<<q, m>>]
    BY <1>4, Links, Zenon DEF CrashAll
  <2>2. maggregate'[q] = IF q = n THEN LoadedMetric(n) ELSE maggregate[q]
    BY <1>4, Zenon DEF CrashAll, MetricTypeOK
  <2>3. CASE q = n
    <3>1. CountRow(q)' = [m \in Node |-> mdisk[<<n, m>>].count]
      BY <2>1, <2>3, Zenon DEF CountRow
    <3>2. SumRow(q)' = [m \in Node |-> mdisk[<<n, m>>].sum]
      BY <2>1, <2>3, Zenon DEF SumRow
    <3>3. /\ LoadedMetric(n).count = SumFunction([m \in Node |-> mdisk[<<n, m>>].count])
          /\ LoadedMetric(n).sum = SumFunction([m \in Node |-> mdisk[<<n, m>>].sum])
      BY Zenon DEF LoadedMetric
    <3> QED BY <2>2, <2>3, <3>1, <3>2, <3>3, Zenon
  <2>4. CASE q # n
    <3>1. CountRow(q)' = CountRow(q) /\ SumRow(q)' = SumRow(q)
      BY <2>1, <2>4, Zenon DEF CountRow, SumRow
    <3> QED BY <2>2, <2>4, <3>1, Zenon DEF MetricIsSum, CountRow, SumRow
  <2> QED BY <2>3, <2>4, Zenon
<1> QED BY <1>1, <1>2, <1>3, <1>4, Zenon
        DEF MetricNext, metricVars, LogMetric, FlushAll

LEMMA MetricIsSumInit == MetricInit => MetricIsSum
<1> SUFFICES ASSUME MetricInit, NEW n \in Node
             PROVE  /\ maggregate[n].count = SumFunction(CountRow(n))
                    /\ maggregate[n].sum = SumFunction(SumRow(n))
  BY Zenon DEF MetricIsSum, CountRow, SumRow
<1>1. /\ CountRow(n) = [m \in Node |-> 0] /\ SumRow(n) = [m \in Node |-> 0]
      /\ maggregate[n].count = 0 /\ maggregate[n].sum = 0
  BY Links, Zenon DEF MetricInit, CountRow, SumRow, Zero
<1>2. SumFunction([m \in Node |-> 0]) = 0
  BY SumOfZeros, CountersAssumption, Zenon
<1> QED BY <1>1, <1>2, Zenon

(***************************************************************************)
(* The average of a metric                                                 *)
(***************************************************************************)

LEMMA DeltasInRange ==
  ASSUME IsFiniteSet(Deltas), Deltas # {}
  PROVE  /\ Min(Deltas) \in Int /\ Max(Deltas) \in Int
         /\ \A d \in Deltas : Min(Deltas) <= d /\ d <= Max(Deltas)
<1>1. Deltas \subseteq Int
  BY CountersAssumption, Zenon
<1>2. /\ \E x \in Deltas : \A y \in Deltas : x <= y
      /\ \E x \in Deltas : \A y \in Deltas : x >= y
  BY <1>1, MinAndMax, Zenon
<1>3. /\ Min(Deltas) \in Deltas /\ \A y \in Deltas : Min(Deltas) <= y
      /\ Max(Deltas) \in Deltas /\ \A y \in Deltas : Max(Deltas) >= y
  BY <1>2, Zenon DEF Min, Max
<1> QED BY <1>1, <1>3, Zenon

LEMMA HitWithin ==
  ASSUME IsFiniteSet(Deltas), Deltas # {}, NEW m \in Metric, Within(m),
         NEW delta \in Deltas
  PROVE  Within(Hit(m, delta))
<1> DEFINE lo == Min(Deltas) hi == Max(Deltas)
<1>1. /\ lo \in Int /\ hi \in Int /\ delta \in Int /\ lo <= delta /\ delta <= hi
      /\ m.count \in Int /\ m.sum \in Int
  BY DeltasInRange, CountersAssumption DEF Metric
<1>2. lo * m.count <= m.sum /\ m.sum <= hi * m.count
  BY Zenon DEF Within
<1>3. Hit(m, delta).count = m.count + 1 /\ Hit(m, delta).sum = m.sum + delta
  BY Zenon DEF Hit
<1> HIDE DEF lo, hi
<1>4. /\ lo * (m.count + 1) = lo * m.count + lo
      /\ hi * (m.count + 1) = hi * m.count + hi
      /\ lo * m.count \in Int /\ hi * m.count \in Int
  BY <1>1
<1>5. /\ lo * (m.count + 1) <= m.sum + delta
      /\ m.sum + delta <= hi * (m.count + 1)
  BY <1>1, <1>2, <1>4
<1> QED BY <1>3, <1>5, Zenon DEF Within, lo, hi

LEMMA AddMetricWithin ==
  ASSUME IsFiniteSet(Deltas), Deltas # {}, MetricTypeOK, PartialsWithin,
         NEW n \in Node, NEW m \in Node, NEW delta \in Deltas,
         AddMetric(n, m, delta), mdisk' = mdisk
  PROVE  PartialsWithin'
<1> SUFFICES ASSUME NEW l \in Link PROVE Within(metric'[l]) /\ Within(mdisk[l])
  BY Zenon DEF PartialsWithin, Within
<1>1. metric[l] \in Metric /\ Within(metric[l]) /\ Within(mdisk[l])
  BY Zenon DEF PartialsWithin, MetricTypeOK
<1>2. metric'[l] = IF l = <<n, m>> THEN Hit(metric[l], delta) ELSE metric[l]
  BY Zenon DEF AddMetric, MetricTypeOK
<1>3. Within(Hit(metric[l], delta))
  BY <1>1, HitWithin, Zenon
<1> QED BY <1>1, <1>2, <1>3, Zenon

LEMMA WithinStep ==
  ASSUME IsFiniteSet(Deltas), Deltas # {}, MetricTypeOK, PartialsWithin,
         [MetricNext]_<<vars, metricVars>>
  PROVE  PartialsWithin'
<1>1. ASSUME UNCHANGED <<metric, mdisk>> PROVE PartialsWithin'
  BY <1>1, Zenon DEF PartialsWithin, Within
<1>2. ASSUME NEW c \in Client, NEW delta \in Deltas, IncrementMetric(c, delta)
      PROVE  PartialsWithin'
  <2>1. Home[c] \in Node
    BY CountersAssumption, Zenon
  <2> QED BY <1>2, <2>1, AddMetricWithin, Zenon DEF IncrementMetric
<1>3. ASSUME NEW p \in Node, NEW n \in Node, NEW i \in DOMAIN mlog[n],
             ApplyMetric(p, n, i)
      PROVE  PartialsWithin'
  <2>1. mlog[n] \in Seq(Deltas)
    BY Zenon DEF MetricTypeOK
  <2>2. mlog[n][i] \in Deltas
    BY <2>1
  <2> QED BY <1>3, <2>2, AddMetricWithin, Zenon DEF ApplyMetric
<1>4. ASSUME NEW n \in Node, FlushAll(n) PROVE PartialsWithin'
  <2>1. metric' = metric /\ \A l \in Link : mdisk'[l] \in {metric[l], mdisk[l]}
    BY <1>4, Zenon DEF FlushAll
  <2> QED BY <2>1, Zenon DEF PartialsWithin, Within
<1>5. ASSUME NEW n \in Node, CrashAll(n) PROVE PartialsWithin'
  <2>1. mdisk' = mdisk /\ \A l \in Link : metric'[l] \in {metric[l], mdisk[l]}
    BY <1>5, Zenon DEF CrashAll
  <2> QED BY <2>1, Zenon DEF PartialsWithin, Within
<1> QED BY <1>1, <1>2, <1>3, <1>4, <1>5, Zenon DEF MetricNext, metricVars, LogMetric

LEMMA WithinInit ==
  ASSUME IsFiniteSet(Deltas), Deltas # {}, MetricInit
  PROVE  PartialsWithin
<1>1. Within(Zero)
  BY DeltasInRange DEF Within, Zero
<1> QED BY <1>1, Zenon DEF MetricInit, PartialsWithin

(* The range of the partial averages is that of the aggregate's.           *)
LEMMA WithinInRange ==
  ASSUME IsFiniteSet(Deltas), Deltas # {}, MetricTypeOK, MetricIsSum,
         PartialsWithin
  PROVE  AverageInRange
<1> SUFFICES ASSUME NEW n \in Node
             PROVE  /\ Min(Deltas) * maggregate[n].count <= maggregate[n].sum
                    /\ maggregate[n].sum <= Max(Deltas) * maggregate[n].count
  BY Zenon DEF AverageInRange
<1> DEFINE lo == Min(Deltas) hi == Max(Deltas)
<1>1. lo \in Int /\ hi \in Int /\ IsFiniteSet(Node)
  BY DeltasInRange, CountersAssumption, Zenon
<1>2. CountRow(n) \in [Node -> Int] /\ SumRow(n) \in [Node -> Int]
  BY RowTypes, Zenon DEF MetricTypeOK
<1>3. ASSUME NEW m \in Node
      PROVE  /\ CountRow(n)[m] \in Int /\ SumRow(n)[m] \in Int
             /\ lo * CountRow(n)[m] <= SumRow(n)[m]
             /\ SumRow(n)[m] <= hi * CountRow(n)[m]
  <2>1. CountRow(n)[m] \in Int /\ SumRow(n)[m] \in Int
    BY <1>2, Zenon
  <2>2. Within(metric[<<n, m>>])
    BY Links, Zenon DEF PartialsWithin
  <2>3. CountRow(n)[m] = metric[<<n, m>>].count /\ SumRow(n)[m] = metric[<<n, m>>].sum
    BY Zenon DEF CountRow, SumRow
  <2> QED BY <2>1, <2>2, <2>3, Zenon DEF Within
<1>4. /\ SumFunction(CountRow(n)) = SumFunctionOnSet(CountRow(n), Node)
      /\ SumFunction(SumRow(n)) = SumFunctionOnSet(SumRow(n), Node)
      /\ SumFunction(CountRow(n)) \in Int /\ SumFunction(SumRow(n)) \in Int
  BY <1>1, <1>2, SumOfFunction, Zenon
<1>5. /\ maggregate[n].count = SumFunction(CountRow(n))
      /\ maggregate[n].sum = SumFunction(SumRow(n))
  BY Zenon DEF MetricIsSum, CountRow, SumRow
<1> HIDE DEF lo, hi
<1>6. /\ \A m \in Node : CountRow(n)[m] \in Int
      /\ \A m \in Node : SumRow(n)[m] \in Int
      /\ \A m \in Node : lo * CountRow(n)[m] <= 1 * SumRow(n)[m]
      /\ \A m \in Node : 1 * SumRow(n)[m] <= hi * CountRow(n)[m]
  BY <1>1, <1>3
<1>7. lo * SumFunctionOnSet(CountRow(n), Node) <= 1 * SumFunctionOnSet(SumRow(n), Node)
  BY <1>1, <1>6, SumScaled
<1>8. 1 * SumFunctionOnSet(SumRow(n), Node) <= hi * SumFunctionOnSet(CountRow(n), Node)
  BY <1>1, <1>6, SumScaled
<1>9. 1 * SumFunction(SumRow(n)) = SumFunction(SumRow(n))
  BY <1>4
<1> QED BY <1>4, <1>5, <1>7, <1>8, <1>9, Zenon DEF lo, hi

(***************************************************************************)
(* The metrics agree                                                       *)
(***************************************************************************)

(* An entry appended to a log adds its delta to the sum of the log, and    *)
(* leaves the sum of the earlier entries.                                  *)
LEMMA SumOfAppend ==
  ASSUME NEW s \in Seq(Int), NEW d \in Int
  PROVE  /\ SumFunction(Append(s, d)) = SumFunction(s) + d
         /\ SumFunction(s) \in Int
         /\ \A T \in SUBSET DOMAIN s :
              SumFunctionOnSet(Append(s, d), T) = SumFunctionOnSet(s, T)
<1> DEFINE t == Append(s, d) k == Len(s) + 1
<1>1. /\ DOMAIN s = 1..Len(s) /\ DOMAIN t = (1..Len(s)) \cup {k} /\ k \notin 1..Len(s)
      /\ t[k] = d /\ \A i \in 1..Len(s) : s[i] = t[i] /\ s[i] \in Int
  OBVIOUS
<1>2. IsFiniteSet(1..Len(s))
  BY FS_Interval
<1> HIDE DEF t, k
<1>3. ASSUME NEW T \in SUBSET DOMAIN s PROVE SumFunctionOnSet(t, T) = SumFunctionOnSet(s, T)
  <2>1. IsFiniteSet(T) /\ T \subseteq 1..Len(s)
    BY <1>1, <1>2, FS_Subset, Zenon
  <2>2. /\ \A i \in T : s[i] \in Int
        /\ \A i \in T : s[i] = t[i]
    BY <1>1, <2>1, Zenon
  <2>3. SumFunctionOnSet(s, T) = SumFunctionOnSet(t, T)
    BY <2>1, <2>2, SumSame, Zenon
  <2> QED BY <2>3, Zenon
<1>4. SumFunction(s) = SumFunctionOnSet(s, 1..Len(s)) /\ SumFunction(s) \in Int
  <2>1. s \in [1..Len(s) -> Int]
    OBVIOUS
  <2> QED BY <1>2, <2>1, SumOfFunction, Zenon
<1>5. SumFunction(t) = SumFunctionOnSet(t, (1..Len(s)) \cup {k})
  BY <1>1, Zenon DEF SumFunction
<1>6. SumFunctionOnSet(t, (1..Len(s)) \cup {k}) = t[k] + SumFunctionOnSet(t, 1..Len(s))
  <2>1. \A i \in (1..Len(s)) \cup {k} : t[i] \in Int
    BY <1>1, Zenon
  <2> QED BY <1>1, <1>2, <2>1, SumAdd, Zenon
<1>7. SumFunctionOnSet(t, 1..Len(s)) = SumFunctionOnSet(s, 1..Len(s))
  BY <1>1, <1>3, Zenon
<1>8. SumFunction(t) = SumFunction(s) + d
  BY <1>1, <1>4, <1>5, <1>6, <1>7
<1> QED BY <1>3, <1>4, <1>8, Zenon DEF t

(* What the pending calls at a node add up to.                             *)
Waiting == [c \in Client |-> recording[c].val]

LEMMA WaitingType ==
  ASSUME MetricTypeOK
  PROVE  \A c \in Client : Waiting[c] \in Int
<1> SUFFICES ASSUME NEW c \in Client PROVE recording[c].val \in Int
  BY Zenon DEF Waiting
<1>1. recording[c] \in [pc : {"append"}, val : Deltas] \/ recording[c] = Idle
  BY Zenon DEF MetricTypeOK
<1>2. recording[c].val \in Deltas \/ recording[c].val = 0
  BY <1>1 DEF Idle
<1>3. Deltas \subseteq Int
  BY CountersAssumption, Zenon
<1>4. 0 \in Int
  OBVIOUS
<1> QED BY <1>2, <1>3, <1>4, Zenon

LEMMA LogType ==
  ASSUME MetricTypeOK, NEW n \in Node
  PROVE  mlog[n] \in Seq(Int) /\ Len(mlog[n]) \in Nat
<1>1. mlog[n] \in Seq(Deltas) /\ Deltas \subseteq Int
  BY CountersAssumption, Zenon DEF MetricTypeOK
<1>2. Len(mlog[n]) \in Nat /\ mlog[n] \in [1..Len(mlog[n]) -> Deltas]
  BY <1>1
<1>3. mlog[n] \in [1..Len(mlog[n]) -> Int]
  BY <1>1, <1>2, Zenon
<1> QED BY <1>2, <1>3

LEMMA ExactInit == MetricInit => MetricsExact
<1> SUFFICES ASSUME MetricInit
             PROVE  AllExact
  BY Zenon DEF MetricsExact
<1>1. ASSUME NEW n \in Node PROVE Recorded(n)
  <2>1. Pending(n) = {} /\ metric[<<n, n>>] = Zero /\ mlog[n] = <<>>
    BY Links, Zenon DEF MetricInit, Pending
  <2>2. SumFunction(<<>>) = 0
    BY SumEmpty DEF SumFunction
  <2>3. SumFunctionOnSet(Waiting, {}) = 0 /\ Cardinality({}) = 0 /\ IsFiniteSet({})
    BY SumEmpty, FS_EmptySet, Zenon
  <2>4. Zero.count = 0 /\ Zero.sum = 0 /\ Len(<<>>) = 0 /\ 0 + 0 = 0
    BY DEF Zero
  <2> QED BY <2>1, <2>2, <2>3, <2>4, Zenon DEF Recorded, Waiting
<1>2. ASSUME NEW p \in Node, NEW n \in Node PROVE Received(p, n)
  <2>1. applied[<<p, n>>] = {} /\ metric[<<p, n>>] = Zero
    BY Links, Zenon DEF MetricInit
  <2>2. SumFunctionOnSet(mlog[n], {}) = 0 /\ Cardinality({}) = 0
    BY SumEmpty, FS_EmptySet, Zenon
  <2>3. Zero.count = 0 /\ Zero.sum = 0
    BY Zenon DEF Zero
  <2> QED BY <2>1, <2>2, <2>3, Zenon DEF Received
<1> QED BY <1>1, <1>2, Zenon DEF AllExact

(* A metric is known by its fields.                                        *)
LEMMA MetricEq ==
  ASSUME NEW m \in Metric, NEW count, NEW sum, m.count = count, m.sum = sum
  PROVE  m = [count |-> count, sum |-> sum]
BY Zenon DEF Metric

(* A call has recorded a hit, and it is pending.                           *)
LEMMA IncrementExact ==
  ASSUME MetricTypeOK, AllExact,
         NEW c \in Client, NEW delta \in Deltas, IncrementMetric(c, delta)
  PROVE  AllExact'
<1> DEFINE h == Home[c]
<1>1. h \in Node /\ <<h, h>> \in Link /\ delta \in Int
  BY CountersAssumption, Links, Zenon
<1>2. /\ metric' = [metric EXCEPT ![<<h, h>>] = Hit(metric[<<h, h>>], delta)]
      /\ recording[c] = Idle
      /\ recording' = [recording EXCEPT ![c] = [pc |-> "append", val |-> delta]]
      /\ mlog' = mlog /\ applied' = applied
  BY Zenon DEF IncrementMetric, AddMetric
<1>3. \A p, n \in Node : metric'[<<p, n>>] =
        IF p = h /\ n = h THEN Hit(metric[<<p, n>>], delta) ELSE metric[<<p, n>>]
  BY <1>1, <1>2, Links, Zenon DEF MetricTypeOK
<1>4. ASSUME NEW p \in Node, NEW n \in Node, p # n PROVE Received(p, n)'
  <2>1. metric'[<<p, n>>] = metric[<<p, n>>] /\ Received(p, n)
    BY <1>3, <1>4, Zenon DEF AllExact
  <2> QED BY <1>2, <2>1, Zenon DEF Received
<1>5. ASSUME NEW n \in Node PROVE Recorded(n)'
  <2>1. Recorded(n) /\ metric[<<n, n>>] \in Metric
    BY Links, Zenon DEF MetricTypeOK, AllExact
  <2>2. \A d \in Client : recording'[d] = IF d = c THEN [pc |-> "append", val |-> delta]
                                           ELSE recording[d]
    BY <1>2, Zenon DEF MetricTypeOK
  <2>3. [pc |-> "append", val |-> delta] # Idle
    BY Zenon DEF Idle
  <2> DEFINE w == [d \in Client |-> recording'[d].val]
  <2>4. w[c] = delta /\ \A d \in Client : d # c => w[d] = Waiting[d]
    BY <2>2, SMTT(60) DEF Waiting
  <2>5. \A d \in Client : w[d] \in Int
    BY <1>1, <2>4, WaitingType, Zenon
  <2>6. w = Waiting'
    BY Zenon DEF Waiting
  <2> HIDE DEF w
  <2>7. c \notin Pending(n) /\ Pending(n) \subseteq Client
    BY <1>2, Zenon DEF Pending
  <2>8. SumFunctionOnSet(w, Pending(n)) = SumFunctionOnSet(Waiting, Pending(n))
    <3>1. /\ \A d \in Pending(n) : Waiting[d] \in Int
          /\ \A d \in Pending(n) : Waiting[d] = w[d]
      BY <2>4, <2>7, WaitingType, Zenon
    <3>2. SumFunctionOnSet(Waiting, Pending(n)) = SumFunctionOnSet(w, Pending(n))
      BY <2>1, <3>1, SumSame, Zenon DEF Recorded
    <3> QED BY <3>2, Zenon
  <2>9. CASE n = h
    <3>1. Pending(n)' = Pending(n) \cup {c}
      BY <2>2, <2>3, <2>9, Zenon DEF Pending
    <3>2. /\ IsFiniteSet(Pending(n)) /\ Cardinality(Pending(n)) \in Nat
          /\ IsFiniteSet(Pending(n) \cup {c})
          /\ Cardinality(Pending(n) \cup {c}) = Cardinality(Pending(n)) + 1
      BY <2>1, <2>7, FS_AddElement, FS_CardinalityType, Zenon DEF Recorded
    <3>3. SumFunctionOnSet(w, Pending(n) \cup {c}) = delta + SumFunctionOnSet(Waiting, Pending(n))
      <4>1. \A d \in Pending(n) \cup {c} : w[d] \in Int
        BY <2>5, <2>7, Zenon
      <4>2. SumFunctionOnSet(w, Pending(n) \cup {c}) = w[c] + SumFunctionOnSet(w, Pending(n))
        BY <2>7, <3>2, <4>1, SumAdd, Zenon
      <4> QED BY <2>4, <2>8, <4>2, Zenon
    <3>4. /\ metric'[<<n, n>>].count = metric[<<n, n>>].count + 1
          /\ metric'[<<n, n>>].sum = metric[<<n, n>>].sum + delta
      <4>1. metric'[<<n, n>>] = Hit(metric[<<n, n>>], delta)
        BY <1>3, <2>9, Zenon
      <4> QED BY <4>1 DEF Hit
    <3>5. mlog[n] \in Seq(Int) /\ Len(mlog[n]) \in Nat
      BY LogType, Zenon
    <3>6. SumFunction(mlog[n]) \in Int
      BY <1>1, <3>5, SumOfAppend, Zenon
    <3>7. SumFunctionOnSet(Waiting, Pending(n)) \in Int
      BY <2>7, <3>2, SumType, WaitingType, Zenon
    <3>8. metric'[<<n, n>>].count = Len(mlog'[n]) + Cardinality(Pending(n)')
      <4>1. metric[<<n, n>>].count = Len(mlog[n]) + Cardinality(Pending(n))
        BY <2>1, Zenon DEF Recorded
      <4>2. metric'[<<n, n>>].count = Len(mlog[n]) + Cardinality(Pending(n) \cup {c})
        <5>1. \A x, y \in Nat : (x + y) + 1 = x + (y + 1)
          OBVIOUS
        <5> QED BY <3>2, <3>4, <3>5, <4>1, <5>1, Zenon
      <4> QED BY <1>2, <3>1, <4>2, Zenon
    <3>9. metric'[<<n, n>>].sum = SumFunction(mlog'[n]) + SumFunctionOnSet(Waiting', Pending(n)')
      <4>1. metric[<<n, n>>].sum = SumFunction(mlog[n]) + SumFunctionOnSet(Waiting, Pending(n))
        BY <2>1, Zenon DEF Recorded, Waiting
      <4>2. metric'[<<n, n>>].sum = SumFunction(mlog[n]) + (delta + SumFunctionOnSet(Waiting, Pending(n)))
        <5>1. \A x, y, z \in Int : (x + y) + z = x + (z + y)
          BY SMTT(60)
        <5>2. /\ delta \in Int /\ SumFunction(mlog[n]) \in Int
              /\ SumFunctionOnSet(Waiting, Pending(n)) \in Int
          BY <1>1, <3>6, <3>7, Zenon
        <5>3. (SumFunction(mlog[n]) + SumFunctionOnSet(Waiting, Pending(n))) + delta
                = SumFunction(mlog[n]) + (delta + SumFunctionOnSet(Waiting, Pending(n)))
          BY <5>1, <5>2, Zenon
        <5> QED BY <3>4, <4>1, <5>3, Zenon
      <4> QED BY <1>2, <2>6, <3>1, <3>3, <4>2, Zenon
    <3> QED BY <3>1, <3>2, <3>8, <3>9, Zenon DEF Recorded, Waiting
  <2>10. CASE n # h
    <3>1. Pending(n)' = Pending(n)
      BY <2>2, <2>10, Zenon DEF Pending
    <3>2. metric'[<<n, n>>] = metric[<<n, n>>]
      BY <1>3, <2>10, Zenon
    <3> QED BY <1>2, <2>1, <2>6, <2>8, <3>1, <3>2, Zenon DEF Recorded, Waiting
  <2> QED BY <2>9, <2>10, Zenon
<1> QED BY <1>4, <1>5, Zenon DEF AllExact

(* The hit of a pending call moves to the log.                             *)
LEMMA LogExact ==
  ASSUME MetricTypeOK, AllExact,
         NEW c \in Client, LogMetric(c)
  PROVE  AllExact'
<1> DEFINE h == Home[c] delta == recording[c].val
<1>1. h \in Node /\ delta \in Int
  BY CountersAssumption, WaitingType, Zenon DEF Waiting
<1>2. /\ recording[c] # Idle /\ recording' = [recording EXCEPT ![c] = Idle]
      /\ metric' = metric /\ applied' = applied
  BY Zenon DEF LogMetric
<1>3. \A n \in Node : mlog'[n] = IF n = h THEN Append(mlog[n], delta) ELSE mlog[n]
  BY Zenon DEF LogMetric, MetricTypeOK
<1>4. \A n \in Node : mlog[n] \in Seq(Int)
  BY LogType, Zenon
<1>5. ASSUME NEW p \in Node, NEW n \in Node, p # n PROVE Received(p, n)'
  <2>1. applied[<<p, n>>] \subseteq DOMAIN mlog[n]
    <3>1. <<p, n>> \in Link /\ <<p, n>>[2] = n
      BY Links, Zenon
    <3> QED BY <3>1, Zenon DEF MetricTypeOK
  <2>2. /\ mlog[n] \in Seq(Int)
        /\ SumFunctionOnSet(Append(mlog[n], delta), applied[<<p, n>>])
             = SumFunctionOnSet(mlog[n], applied[<<p, n>>])
    BY <1>1, <1>4, <2>1, SumOfAppend, Zenon
  <2>3. SumFunctionOnSet(mlog'[n], applied[<<p, n>>])
          = SumFunctionOnSet(mlog[n], applied[<<p, n>>])
    BY <1>3, <2>2, Zenon
  <2>4. Received(p, n)
    BY <1>5, Zenon DEF AllExact
  <2> QED BY <1>2, <2>3, <2>4, Zenon DEF Received
<1>6. ASSUME NEW n \in Node PROVE Recorded(n)'
  <2>1. Recorded(n) /\ metric[<<n, n>>] \in Metric
    BY Links, Zenon DEF MetricTypeOK, AllExact
  <2>2. \A d \in Client : recording'[d] = IF d = c THEN Idle ELSE recording[d]
    BY <1>2, Zenon DEF MetricTypeOK
  <2> DEFINE w == [d \in Client |-> recording'[d].val] P == Pending(n) \ {c}
  <2>3. \A d \in Client : d # c => w[d] = Waiting[d]
    BY <2>2, Zenon DEF Waiting
  <2>4. w = Waiting'
    BY Zenon DEF Waiting
  <2>5. Pending(n) \subseteq Client /\ Pending(n)' = P
    BY <2>2, Zenon DEF Pending
  <2>6. IsFiniteSet(P) /\ IsFiniteSet(Pending(n))
    BY <2>1, FS_RemoveElement, Zenon DEF Recorded
  <2> HIDE DEF w
  <2>7. SumFunctionOnSet(w, P) = SumFunctionOnSet(Waiting, P)
    <3>1. /\ \A d \in P : Waiting[d] \in Int
          /\ \A d \in P : Waiting[d] = w[d]
      BY <2>3, <2>5, WaitingType, Zenon
    <3> HIDE DEF P
    <3>2. SumFunctionOnSet(Waiting, P) = SumFunctionOnSet(w, P)
      BY <2>6, <3>1, SumSame, Zenon
    <3> QED BY <3>2, Zenon
  <2>8. CASE n = h
    <3>1. c \in Pending(n)
      BY <1>2, <2>8, Zenon DEF Pending
    <3>2. Cardinality(Pending(n)) \in Nat /\ Cardinality(P) = Cardinality(Pending(n)) - 1
      BY <2>6, <3>1, FS_RemoveElement, FS_CardinalityType, Zenon
    <3>3. /\ SumFunctionOnSet(Waiting, Pending(n)) = delta + SumFunctionOnSet(Waiting, P)
          /\ SumFunctionOnSet(Waiting, P) \in Int
      <4>1. \A d \in Pending(n) : Waiting[d] \in Int
        BY <2>5, WaitingType, Zenon
      <4>2. SumFunctionOnSet(Waiting, Pending(n)) = Waiting[c] + SumFunctionOnSet(Waiting, P)
        BY <2>6, <3>1, <4>1, SumElement, Zenon
      <4>3. Waiting[c] = delta
        BY Zenon DEF Waiting
      <4>4. SumFunctionOnSet(Waiting, P) \in Int
        BY <2>6, <4>1, SumType, Zenon
      <4> QED BY <4>2, <4>3, <4>4, Zenon
    <3>4. /\ mlog[n] \in Seq(Int) /\ mlog'[n] = Append(mlog[n], delta)
          /\ Len(mlog'[n]) = Len(mlog[n]) + 1 /\ Len(mlog[n]) \in Nat
      <4>1. mlog[n] \in Seq(Int) /\ mlog'[n] = Append(mlog[n], delta)
        BY <1>3, <1>4, <2>8, Zenon
      <4>2. Len(Append(mlog[n], delta)) = Len(mlog[n]) + 1 /\ Len(mlog[n]) \in Nat
        BY <1>1, <4>1
      <4> QED BY <4>1, <4>2, Zenon
    <3>5. SumFunction(mlog'[n]) = SumFunction(mlog[n]) + delta /\ SumFunction(mlog[n]) \in Int
      <4>1. SumFunction(Append(mlog[n], delta)) = SumFunction(mlog[n]) + delta /\ SumFunction(mlog[n]) \in Int
        BY <1>1, <3>4, SumOfAppend, Zenon
      <4> QED BY <3>4, <4>1, Zenon
    <3> HIDE DEF P, delta
    <3>6. metric[<<n, n>>].count = Len(mlog'[n]) + Cardinality(P)
      <4>1. metric[<<n, n>>].count = Len(mlog[n]) + Cardinality(Pending(n))
        BY <2>1, Zenon DEF Recorded
      <4> QED BY <3>2, <3>4, <4>1, SMTT(60)
    <3>7. metric[<<n, n>>].sum = SumFunction(mlog'[n]) + SumFunctionOnSet(Waiting, P)
      <4>1. metric[<<n, n>>].sum = SumFunction(mlog[n]) + SumFunctionOnSet(Waiting, Pending(n))
        BY <2>1, Zenon DEF Recorded, Waiting
      <4>2. \A x, y, z \in Int : x + (z + y) = (x + z) + y
        OBVIOUS
      <4>3. delta \in Int /\ SumFunction(mlog[n]) \in Int /\ SumFunctionOnSet(Waiting, P) \in Int
        BY <1>1, <3>3, <3>5, Zenon
      <4>4. SumFunction(mlog[n]) + (delta + SumFunctionOnSet(Waiting, P))
              = (SumFunction(mlog[n]) + delta) + SumFunctionOnSet(Waiting, P)
        BY <4>2, <4>3, Zenon
      <4> QED BY <3>3, <3>5, <4>1, <4>4, Zenon
    <3> QED BY <1>2, <2>4, <2>5, <2>6, <2>7, <3>6, <3>7, Zenon DEF Recorded, Waiting
  <2>9. CASE n # h
    <3>1. P = Pending(n) /\ mlog'[n] = mlog[n]
      BY <1>3, <2>9, Zenon DEF Pending
    <3> HIDE DEF P
    <3> QED BY <1>2, <2>1, <2>4, <2>5, <2>7, <3>1, Zenon DEF Recorded, Waiting
  <2> QED BY <2>8, <2>9, Zenon
<1> QED BY <1>5, <1>6, Zenon DEF AllExact

(* A peer applies an entry for the first time.                             *)
LEMMA ApplyExact ==
  ASSUME MetricTypeOK, AllExact,
         NEW q \in Node, NEW m \in Node, NEW i \in DOMAIN mlog[m],
         ApplyMetric(q, m, i), i \notin applied[<<q, m>>]
  PROVE  AllExact'
<1> DEFINE delta == mlog[m][i] l == <<q, m>>
<1>1. l \in Link /\ delta \in Int /\ q # m
  <2>1. mlog[m] \in Seq(Int)
    BY LogType, Zenon
  <2> QED BY <2>1, Links DEF ApplyMetric
<1>2. /\ metric' = [metric EXCEPT ![l] = Hit(metric[l], delta)]
      /\ applied' = [applied EXCEPT ![l] = applied[l] \cup {i}]
      /\ mlog' = mlog /\ recording' = recording
  BY Zenon DEF ApplyMetric, AddMetric
<1>3. \A p, n \in Node : <<p, n>> # l =>
        metric'[<<p, n>>] = metric[<<p, n>>] /\ applied'[<<p, n>>] = applied[<<p, n>>]
  BY <1>1, <1>2, Links, Zenon DEF MetricTypeOK
<1>4. ASSUME NEW n \in Node PROVE Recorded(n)'
  <2>1. metric'[<<n, n>>] = metric[<<n, n>>] /\ Recorded(n)
    BY <1>1, <1>3, Zenon DEF AllExact
  <2>2. Pending(n)' = Pending(n)
    BY <1>2, Zenon DEF Pending
  <2> QED BY <1>2, <2>1, <2>2, Zenon DEF Recorded
<1>5. ASSUME NEW p \in Node, NEW n \in Node, p # n, <<p, n>> # l PROVE Received(p, n)'
  <2>1. /\ Received(p, n) /\ metric'[<<p, n>>] = metric[<<p, n>>]
        /\ applied'[<<p, n>>] = applied[<<p, n>>]
    BY <1>3, <1>5, Zenon DEF AllExact
  <2> QED BY <1>2, <2>1, Zenon DEF Received
<1>6. Received(q, m)'
  <2>1. Received(q, m)
    BY <1>1, Zenon DEF AllExact
  <2>2. metric'[l] = Hit(metric[l], delta) /\ applied'[l] = applied[l] \cup {i}
    BY <1>1, <1>2, Zenon DEF MetricTypeOK
  <2>3. applied[l] \subseteq DOMAIN mlog[m]
    <3>1. l[2] = m
      BY Zenon
    <3> QED BY <1>1, <3>1, Zenon DEF MetricTypeOK
  <2>4. /\ mlog[m] \in Seq(Int)
        /\ IsFiniteSet(DOMAIN mlog[m]) /\ \A k \in DOMAIN mlog[m] : mlog[m][k] \in Int
    <3>1. mlog[m] \in Seq(Int)
      BY LogType, Zenon
    <3>2. DOMAIN mlog[m] = 1..Len(mlog[m]) /\ Len(mlog[m]) \in Nat
      BY <3>1
    <3>3. IsFiniteSet(1..Len(mlog[m]))
      BY <3>2, FS_Interval, SMTT(60)
    <3>4. \A k \in DOMAIN mlog[m] : mlog[m][k] \in Int
      BY <3>1
    <3> QED BY <3>1, <3>2, <3>3, <3>4, Zenon
  <2>5. IsFiniteSet(applied[l])
    BY <2>3, <2>4, FS_Subset, Zenon
  <2>6. /\ Cardinality(applied[l] \cup {i}) = Cardinality(applied[l]) + 1
    BY <2>5, FS_AddElement, Zenon
  <2>7. /\ SumFunctionOnSet(mlog[m], applied[l] \cup {i})
             = delta + SumFunctionOnSet(mlog[m], applied[l])
        /\ SumFunctionOnSet(mlog[m], applied[l]) \in Int
    <3>1. \A k \in applied[l] \cup {i} : mlog[m][k] \in Int
      BY <2>3, <2>4, Zenon
    <3> QED BY <2>5, <3>1, SumAdd, SumType, Zenon
  <2>8. SumFunctionOnSet(mlog[m], applied[l]) + delta = delta + SumFunctionOnSet(mlog[m], applied[l])
    <3>1. \A x, y \in Int : x + y = y + x
      BY SMTT(60)
    <3> QED BY <1>1, <2>7, <3>1, Zenon
  <2>9. /\ metric[l].count = Cardinality(applied[l])
        /\ metric[l].sum = SumFunctionOnSet(mlog[m], applied[l])
    BY <2>1, Zenon DEF Received
  <2>10. /\ metric'[l].count = Cardinality(applied[l]) + 1
         /\ metric'[l].sum = SumFunctionOnSet(mlog[m], applied[l]) + delta
    BY <2>2, <2>9 DEF Hit
  <2> QED BY <1>2, <2>2, <2>6, <2>7, <2>8, <2>10, Zenon DEF Received
<1>7. \A p, n \in Node : <<p, n>> = l => p = q /\ n = m
  BY Zenon
<1> QED BY <1>4, <1>5, <1>6, <1>7, Zenon DEF AllExact

LEMMA ExactStep ==
  ASSUME MetricTypeOK, MetricsExact, [MetricNext]_<<vars, metricVars>>
  PROVE  MetricsExact'
<1> SUFFICES ASSUME crashes' = 0, repeats' = 0
             PROVE  AllExact'
  BY Zenon DEF MetricsExact
<1>1. crashes \in Nat /\ repeats \in Nat
  BY DEF MetricTypeOK, TypeOK
<1>2. ASSUME UNCHANGED <<metric, mlog, recording, applied>>, crashes = 0, repeats = 0
      PROVE  AllExact'
  <2>1. \A n \in Node : Pending(n)' = Pending(n)
    BY <1>2, Zenon DEF Pending
  <2> QED BY <1>2, <2>1, Zenon DEF MetricsExact, AllExact, Recorded, Received
<1>3. CASE UNCHANGED <<vars, metricVars>>
  BY <1>2, <1>3, Zenon DEF vars, metricVars
<1>4. CASE CounterStep /\ UNCHANGED metricVars
  <2>1. crashes' = crashes
    BY <1>4, Zenon DEF CounterStep, Increment, GetNodeCount, LogAppend, ApplyEntry
  <2> QED BY <1>2, <1>4, <2>1, Zenon DEF metricVars
<1>5. ASSUME NEW c \in Client, NEW delta \in Deltas, IncrementMetric(c, delta)
      PROVE  AllExact'
  <2>1. crashes = 0 /\ repeats = 0
    BY <1>5, Zenon DEF IncrementMetric
  <2> QED BY <1>5, <2>1, IncrementExact, Zenon DEF MetricsExact
<1>6. ASSUME NEW c \in Client, LogMetric(c)
      PROVE  AllExact'
  <2>1. crashes = 0 /\ repeats = 0
    BY <1>6, Zenon DEF LogMetric, vars
  <2> QED BY <1>6, <2>1, LogExact, Zenon DEF MetricsExact
<1>7. ASSUME NEW p \in Node, NEW n \in Node, NEW i \in DOMAIN mlog[n],
             ApplyMetric(p, n, i)
      PROVE  AllExact'
  <2>1. crashes = 0 /\ repeats = 0 /\ i \notin applied[<<p, n>>]
    BY <1>1, <1>7 DEF ApplyMetric, vars
  <2> QED BY <1>7, <2>1, ApplyExact, Zenon DEF MetricsExact
<1>8. ASSUME NEW n \in Node, FlushAll(n)
      PROVE  AllExact'
  BY <1>2, <1>8, Zenon DEF FlushAll, Flush
<1>9. ASSUME NEW n \in Node, CrashAll(n) PROVE FALSE
  <2>1. crashes' = crashes + 1
    BY <1>9, Zenon DEF CrashAll, Crash
  <2> QED BY <1>1, <2>1
<1> QED BY <1>3, <1>4, <1>5, <1>6, <1>7, <1>8, <1>9, Zenon DEF MetricNext

LEMMA ExactAgree ==
  ASSUME MetricTypeOK, MetricIsSum, MetricsExact
  PROVE  MetricsAgree
<1> SUFFICES ASSUME MetricsSettled
             PROVE  \A p, q \in Node : /\ maggregate[p] = maggregate[q]
                                       /\ \A n \in Node : metric[<<p, n>>] = metric[<<q, n>>]
  BY Zenon DEF MetricsAgree
<1>1. ASSUME NEW p \in Node, NEW n \in Node
      PROVE  metric[<<p, n>>] = [count |-> Len(mlog[n]), sum |-> SumFunction(mlog[n])]
  <2>1. mlog[n] \in Seq(Int) /\ Len(mlog[n]) \in Nat
    BY LogType, Zenon
  <2>2. CASE p = n
    <3>1. Pending(n) = {} /\ Recorded(n)
      BY Zenon DEF MetricsSettled, Pending, MetricsExact, AllExact
    <3>2. SumFunctionOnSet(Waiting, {}) = 0 /\ Cardinality({}) = 0
      BY SumEmpty, FS_EmptySet, Zenon
    <3>3. SumFunction(mlog[n]) \in Int
      BY <2>1, SumOfAppend
    <3>4. /\ metric[<<n, n>>].count = Len(mlog[n]) + 0
          /\ metric[<<n, n>>].sum = SumFunction(mlog[n]) + 0
      BY <3>1, <3>2, Zenon DEF Recorded, Waiting
    <3>5. metric[<<n, n>>] \in Metric
      BY Links, Zenon DEF MetricTypeOK
    <3>6. Len(mlog[n]) + 0 = Len(mlog[n]) /\ SumFunction(mlog[n]) + 0 = SumFunction(mlog[n])
      <4>1. \A x \in Int : x + 0 = x
        OBVIOUS
      <4>2. \A x \in Nat : x \in Int
        OBVIOUS
      <4> QED BY <2>1, <3>3, <4>1, <4>2, Zenon
    <3> QED BY <2>2, <3>4, <3>5, <3>6, MetricEq, Zenon
  <2>3. CASE p # n
    <3>1. applied[<<p, n>>] = DOMAIN mlog[n] /\ Received(p, n)
      BY <2>3, Zenon DEF MetricsSettled, MetricsExact, AllExact
    <3>2. DOMAIN mlog[n] = 1..Len(mlog[n])
      BY <2>1
    <3>3. Cardinality(1..Len(mlog[n])) = Len(mlog[n])
      BY <2>1, FS_Interval
    <3>4. /\ metric[<<p, n>>].count = Len(mlog[n])
          /\ metric[<<p, n>>].sum = SumFunction(mlog[n])
      BY <3>1, <3>2, <3>3, Zenon DEF Received, SumFunction
    <3>5. metric[<<p, n>>] \in Metric
      BY Links, Zenon DEF MetricTypeOK
    <3> QED BY <3>4, <3>5, MetricEq, Zenon
  <2> QED BY <2>2, <2>3, Zenon
<1>2. ASSUME NEW p \in Node, NEW q \in Node PROVE maggregate[p] = maggregate[q]
  <2>1. CountRow(p) = CountRow(q) /\ SumRow(p) = SumRow(q)
    BY <1>1, Zenon DEF CountRow, SumRow
  <2>2. maggregate[p].count = maggregate[q].count /\ maggregate[p].sum = maggregate[q].sum
    <3>1. \A n \in Node : /\ maggregate[n].count = SumFunction(CountRow(n))
                          /\ maggregate[n].sum = SumFunction(SumRow(n))
      BY Zenon DEF MetricIsSum, CountRow, SumRow
    <3> QED BY <2>1, <3>1, Zenon
  <2>3. maggregate[p] \in Metric /\ maggregate[q] \in Metric
    BY Zenon DEF MetricTypeOK
  <2> QED BY <2>2, <2>3 DEF Metric
<1> QED BY <1>1, <1>2, Zenon

(***************************************************************************)
(* Theorems                                                                *)
(***************************************************************************)

(* Every variable of Counters and Metrics keeps its type: load's sums and  *)
(* setNodeCount's differences are integers, and the number of hits of a    *)
(* metric is never negative.                                               *)
THEOREM MetricTypeCorrect == MetricSpec => []MetricTypeOK
BY MetricTypeInit, MetricTypeStep, PTL DEF MetricSpec

(* However calls, deliveries, flushes and crashes are interleaved, the     *)
(* aggregate that increment and setNodeCount maintain by differences, and  *)
(* load rebuilds, is the sum of the partial counts.                        *)
THEOREM AggregatesAreSums == MetricSpec => []AggregateIsSum
<1>1. MetricInit => AggregateIsSum
  BY AggregateIsSumInit, Zenon DEF MetricInit
<1>2. TypeOK /\ AggregateIsSum /\ [MetricNext]_<<vars, metricVars>> => AggregateIsSum'
  BY AggregateMetricStep, Zenon
<1>3. MetricTypeOK => TypeOK
  BY Zenon DEF MetricTypeOK
<1> QED BY <1>1, <1>2, <1>3, MetricTypeCorrect, PTL DEF MetricSpec

(* The same of a metric's hits and of its sum.                             *)
THEOREM MetricsAreSums == MetricSpec => []MetricIsSum
BY MetricIsSumInit, MetricIsSumStep, MetricTypeCorrect, PTL DEF MetricSpec

(* While no node has crashed and once every entry has reached every node,  *)
(* a node's own partial count is the sum of the deltas passed to it, and   *)
(* its peers hold the greatest count that it has announced, which is the   *)
(* same sum if none was negative: however calls and deliveries were        *)
(* interleaved, reordered or repeated.                                     *)
THEOREM PartialsAreExact == MetricSpec => []PartialsExact
<1>1. TypeOK /\ InvUntilCrash /\ [MetricNext]_<<vars, metricVars>> => InvUntilCrash'
  <2> SUFFICES ASSUME TypeOK, InvUntilCrash, [MetricNext]_<<vars, metricVars>>
               PROVE  InvUntilCrash'
    BY Zenon
  <2>1. CASE Next
    BY <2>1, UntilCrashNext, Zenon
  <2>2. CASE UNCHANGED counterVars
    <3>1. TypeOK'
      BY TypeMetricStep, Zenon
    <3> QED BY <2>2, <3>1, Zenon DEF counterVars, InvUntilCrash, CountersInv, OwnCount, Announced,
                        Greatest, IsGreatest
  <2> QED BY <2>1, <2>2, CounterSteps, Zenon
<1>2. MetricInit => InvUntilCrash
  BY InvInit DEF MetricInit, Init, InvUntilCrash
<1>3. MetricTypeOK => TypeOK
  BY Zenon DEF MetricTypeOK
<1> QED BY <1>1, <1>2, <1>3, MetricTypeCorrect, SettledExact, PTL DEF MetricSpec

(* No node's aggregate ever exceeds the sum of the positive deltas passed  *)
(* to all nodes, crashes, restarts from the last flush and counts that     *)
(* arrive after them included.                                             *)
THEOREM CountersNeverOvercount == MetricSpec => []NeverOvercounts
<1>1. MetricInit => AllBounded
  BY BoundedInit, Zenon DEF MetricInit
<1>2. TypeOK /\ AllBounded /\ [MetricNext]_<<vars, metricVars>> => AllBounded'
  BY BoundedMetricStep, Zenon
<1>3. MetricTypeOK => TypeOK
  BY Zenon DEF MetricTypeOK
<1>4. TypeOK /\ AllBounded /\ AggregateIsSum => NeverOvercounts
  BY BoundedNeverOvercounts, Zenon
<1> QED BY <1>1, <1>2, <1>3, <1>4, MetricTypeCorrect, AggregatesAreSums, PTL
        DEF MetricSpec

(* Whatever is delivered twice or lost in a crash, the average that        *)
(* GetMetric's count and sum give lies between the least and the greatest  *)
(* delta.                                                                  *)
THEOREM AveragesInRange ==
  ASSUME IsFiniteSet(Deltas), Deltas # {}
  PROVE  MetricSpec => []AverageInRange
<1>1. MetricInit => PartialsWithin
  BY WithinInit, Zenon
<1>2. MetricTypeOK /\ PartialsWithin /\ [MetricNext]_<<vars, metricVars>>
        => PartialsWithin'
  BY WithinStep, Zenon
<1>3. MetricTypeOK /\ MetricIsSum /\ PartialsWithin => AverageInRange
  BY WithinInRange, Zenon
<1> QED BY <1>1, <1>2, <1>3, MetricTypeCorrect, MetricsAreSums, PTL DEF MetricSpec

(* If no node crashes and each entry is delivered once, then all nodes     *)
(* hold the same metrics once every entry has reached every node.          *)
THEOREM MetricsDoAgree == MetricSpec => []MetricsAgree
BY ExactInit, ExactStep, ExactAgree, MetricTypeCorrect, MetricsAreSums, PTL
   DEF MetricSpec
=============================================================================
