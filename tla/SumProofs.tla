------------------------------- MODULE SumProofs -------------------------------
(***************************************************************************)
(* Sums over finite sets.  MapThenSumSet of the community modules adds the *)
(* elements of a set up in an order that CHOOSE picks, one after another,  *)
(* by a function that is recursive on the subsets of the set.  That there  *)
(* is such a function, and that the order does not matter, is shown here;  *)
(* proofs about byte counters need no more than that a sum changes by the  *)
(* weight of the element that comes or goes.                               *)
(***************************************************************************)
EXTENDS Integers, FiniteSets, FiniteSetsExt, FiniteSetTheorems, NaturalsInduction, WellFoundedInduction, TLAPS

\* The element a sum takes first.
First(s) == CHOOSE x \in s : TRUE

\* g[s] is the sum of w over the subset s of S.
SumGraph(w, S, g) ==
  g = [s \in SUBSET S |-> IF s = {} THEN 0 ELSE w[First(s)] + g[s \ {First(s)}]]

Sum(w, S) == (CHOOSE g : SumGraph(w, S, g))[S]

-----------------------------------------------------------------------------
\* Induction on finite sets, as the existence of a least counterexample.

LEMMA LeastNumber ==
  ASSUME NEW N, N \subseteq Nat, N # {} PROVE \E n \in N : \A m \in N : ~(m < n)
<1>1. PICK n \in N : \A m \in N : ~(<<m, n>> \in OpToRel(<, Nat))
  BY NatLessThanWellFounded, WFMin, Zenon
<1>2. \A m \in N : m < n => <<m, n>> \in OpToRel(<, Nat)
  BY DEF OpToRel
<1> QED
  BY <1>1, <1>2

LEMMA LeastSet ==
  ASSUME NEW F, F # {}, \A T \in F : IsFiniteSet(T)
  PROVE  \E T \in F : \A U \in F : U \subseteq T => U = T
<1>1. PICK N : N = {Cardinality(T) : T \in F}
  OBVIOUS
<1>2. N \subseteq Nat /\ N # {}
  BY <1>1, FS_CardinalityType
<1>3. PICK n \in N : \A m \in N : ~(m < n)
  BY <1>2, LeastNumber
<1>4. PICK T \in F : n = Cardinality(T)
  BY <1>1, <1>3
<1>5. ASSUME NEW U \in F, U \subseteq T PROVE U = T
  <2>1. IsFiniteSet(T) /\ U \in SUBSET T
    BY <1>5
  <2>2. Cardinality(U) <= Cardinality(T) /\ (Cardinality(T) = Cardinality(U) => U = T)
    BY <2>1, FS_Subset
  <2>3. Cardinality(U) \in Nat /\ Cardinality(T) \in Nat /\ ~(Cardinality(U) < Cardinality(T))
    BY <1>1, <1>3, <1>4, FS_CardinalityType
  <2> QED
    BY <2>2, <2>3
<1> QED
  BY <1>5

LEMMA FirstIn == ASSUME NEW s, s # {} PROVE First(s) \in s
BY DEF First

-----------------------------------------------------------------------------
\* A finite set of numbers has a largest.

LEMMA MaxFinite ==
  ASSUME NEW S, S \subseteq Int, S # {}, IsFiniteSet(S)
  PROVE  Max(S) \in S /\ \A y \in S : Max(S) >= y
<1>1. PICK bad : bad = {T \in SUBSET S : T # {} /\ ~\E m \in T : \A y \in T : m >= y}
  OBVIOUS
<1>2. bad = {}
  <2>1. SUFFICES ASSUME bad # {} PROVE FALSE
    OBVIOUS
  <2>2. \A T \in bad : IsFiniteSet(T)
    BY <1>1, FS_Subset
  <2>3. PICK T \in bad : \A U \in bad : U \subseteq T => U = T
    BY <2>1, <2>2, LeastSet
  <2>4. T \subseteq S /\ T # {} /\ ~\E m \in T : \A y \in T : m >= y
    BY <1>1
  <2>5. PICK x \in T : TRUE
    BY <2>4
  <2>6. PICK U : U = T \ {x}
    OBVIOUS
  <2>7. U \subseteq T /\ U # T /\ U \notin bad
    BY <2>3, <2>5, <2>6
  <2>8. U # {}
    BY <2>4, <2>6
  <2>9. PICK m \in U : \A y \in U : m >= y
    BY <1>1, <2>4, <2>7, <2>8
  <2>10. m \in Int /\ x \in Int /\ \A y \in T : y \in Int /\ (y = x \/ y \in U)
    BY <2>4, <2>5, <2>6, <2>9
  <2>11. CASE m >= x
    BY <2>4, <2>7, <2>9, <2>10, <2>11
  <2>12. CASE ~(m >= x)
    <3>1. \A y \in T : x >= y
      BY <2>9, <2>10, <2>12
    <3> QED
      BY <3>1, <2>4, <2>5
  <2> QED
    BY <2>11, <2>12
<1>3. \E m \in S : \A y \in S : m >= y
  BY <1>1, <1>2
<1> QED
  BY <1>3 DEF Max

-----------------------------------------------------------------------------
\* There is one sum.

Agree(g, h, T) == \A s \in SUBSET T : g[s] = h[s]

LEMMA SumUnique ==
  ASSUME NEW w, NEW S, NEW T, T \subseteq S, IsFiniteSet(T), NEW g, NEW h, SumGraph(w, S, g), SumGraph(w, T, h)
  PROVE  Agree(g, h, T)
<1>1. PICK bad : bad = {s \in SUBSET T : g[s] # h[s]}
  OBVIOUS
<1>2. SUFFICES ASSUME bad # {} PROVE FALSE
  BY <1>1 DEF Agree
<1>3. \A s \in bad : IsFiniteSet(s)
  BY <1>1, FS_Subset
<1>4. PICK s \in bad : \A u \in bad : u \subseteq s => u = s
  BY <1>2, <1>3, LeastSet
<1>5. s \in SUBSET T /\ s \in SUBSET S /\ g[s] # h[s]
  BY <1>1
<1>6. /\ g[s] = IF s = {} THEN 0 ELSE w[First(s)] + g[s \ {First(s)}]
      /\ h[s] = IF s = {} THEN 0 ELSE w[First(s)] + h[s \ {First(s)}]
  BY <1>5 DEF SumGraph
<1>7. s # {}
  BY <1>5, <1>6
<1>8. First(s) \in s
  BY <1>7, FirstIn
<1>9. s \ {First(s)} \notin bad
  BY <1>4, <1>8
<1>10. g[s \ {First(s)}] = h[s \ {First(s)}]
  BY <1>1, <1>5, <1>9
<1> QED
  BY <1>5, <1>6, <1>10

LEMMA SumOfGraph ==
  ASSUME NEW w, NEW S, IsFiniteSet(S), NEW g, SumGraph(w, S, g)
  PROVE  \A T \in SUBSET S : (\E h : SumGraph(w, T, h)) => Sum(w, T) = g[T]
<1>1. SUFFICES ASSUME NEW T, T \subseteq S, \E h : SumGraph(w, T, h) PROVE Sum(w, T) = g[T]
  OBVIOUS
<1>2. PICK h : h = CHOOSE k : SumGraph(w, T, k)
  OBVIOUS
<1>3. SumGraph(w, T, h)
  BY <1>1, <1>2
<1>4. IsFiniteSet(T)
  BY <1>1, FS_Subset
<1>5. Agree(g, h, T)
  <2>1. SumGraph(w, S, g) /\ T \subseteq S
    BY <1>1
  <2> QED
    BY <2>1, <1>3, <1>4, SumUnique
<1> QED
  BY <1>2, <1>5 DEF Sum, Agree

LEMMA SumExists ==
  ASSUME NEW w, NEW S, IsFiniteSet(S) PROVE \E g : SumGraph(w, S, g)
<1>1. PICK bad : bad = {T \in SUBSET S : ~\E g : SumGraph(w, T, g)}
  OBVIOUS
<1>2. SUFFICES ASSUME bad # {} PROVE FALSE
  BY <1>1
<1>3. \A T \in bad : IsFiniteSet(T)
  BY <1>1, FS_Subset
<1>4. PICK T \in bad : \A U \in bad : U \subseteq T => U = T
  BY <1>2, <1>3, LeastSet
<1>5. T \in SUBSET S /\ ~\E g : SumGraph(w, T, g)
  BY <1>1
<1>6. \A U \in SUBSET T : U # T => IsFiniteSet(U) /\ \E h : SumGraph(w, U, h)
  BY <1>1, <1>4, <1>5, FS_Subset
<1>7. PICK g : g = [s \in SUBSET T |-> IF s = {} THEN 0 ELSE w[First(s)] + Sum(w, s \ {First(s)})]
  OBVIOUS
<1>8. ASSUME NEW s \in SUBSET T, s # {} PROVE g[s \ {First(s)}] = Sum(w, s \ {First(s)})
  <2>1. PICK u : u = s \ {First(s)}
    OBVIOUS
  <2>2. First(s) \in s
    BY <1>8, FirstIn
  <2>3. u \in SUBSET T /\ u # T
    BY <2>1, <2>2
  <2>4. PICK h : SumGraph(w, u, h)
    BY <2>3, <1>6
  <2>5. IsFiniteSet(u)
    BY <2>3, <1>6
  <2>6. Sum(w, u) = h[u]
    BY <2>4, <2>5, SumOfGraph
  <2>7. h[u] = IF u = {} THEN 0 ELSE w[First(u)] + h[u \ {First(u)}]
    BY <2>4 DEF SumGraph
  <2>8. u # {} => Sum(w, u \ {First(u)}) = h[u \ {First(u)}]
    <3>1. SUFFICES ASSUME u # {} PROVE Sum(w, u \ {First(u)}) = h[u \ {First(u)}]
      OBVIOUS
    <3>2. First(u) \in u
      BY <3>1, FirstIn
    <3>3. u \ {First(u)} \in SUBSET u /\ u \ {First(u)} \in SUBSET T /\ u \ {First(u)} # T
      BY <3>2, <2>3
    <3>4. \E k : SumGraph(w, u \ {First(u)}, k)
      BY <3>3, <1>6
    <3> QED
      BY <2>4, <2>5, <3>3, <3>4, SumOfGraph
  <2>9. g[u] = IF u = {} THEN 0 ELSE w[First(u)] + Sum(w, u \ {First(u)})
    BY <1>7, <2>3
  <2>10. g[u] = Sum(w, u)
    BY <2>6, <2>7, <2>8, <2>9
  <2> QED
    BY <2>1, <2>10
<1>9. SumGraph(w, T, g)
  BY <1>7, <1>8 DEF SumGraph
<1> QED
  BY <1>5, <1>9

LEMMA SumRecursive ==
  ASSUME NEW w, NEW S, IsFiniteSet(S)
  PROVE  Sum(w, S) = IF S = {} THEN 0 ELSE w[First(S)] + Sum(w, S \ {First(S)})
<1>1. PICK g : SumGraph(w, S, g)
  BY SumExists
<1>2. S \in SUBSET S /\ S \ {First(S)} \in SUBSET S
  OBVIOUS
<1>3. IsFiniteSet(S \ {First(S)})
  BY <1>2, FS_Subset
<1>4. (\E h : SumGraph(w, S, h)) /\ (\E h : SumGraph(w, S \ {First(S)}, h))
  BY <1>3, SumExists
<1>5. Sum(w, S) = g[S] /\ Sum(w, S \ {First(S)}) = g[S \ {First(S)}]
  BY <1>1, <1>2, <1>4, SumOfGraph
<1> QED
  BY <1>1, <1>2, <1>5 DEF SumGraph

-----------------------------------------------------------------------------
\* What a sum is made of, and what it becomes when an element comes or goes.

LEMMA SumEmpty == ASSUME NEW w PROVE Sum(w, {}) = 0
BY SumRecursive, FS_EmptySet

LEMMA SumTyped ==
  ASSUME NEW D, NEW w \in [D -> Nat], NEW S, S \subseteq D, IsFiniteSet(S)
  PROVE  Sum(w, S) \in Nat
<1>1. PICK bad : bad = {T \in SUBSET S : Sum(w, T) \notin Nat}
  OBVIOUS
<1>2. SUFFICES ASSUME bad # {} PROVE FALSE
  BY <1>1
<1>3. \A T \in bad : IsFiniteSet(T)
  BY <1>1, FS_Subset
<1>4. PICK T \in bad : \A U \in bad : U \subseteq T => U = T
  BY <1>2, <1>3, LeastSet
<1>5. T \subseteq S /\ Sum(w, T) \notin Nat /\ IsFiniteSet(T)
  BY <1>1, <1>3
<1>6. Sum(w, T) = IF T = {} THEN 0 ELSE w[First(T)] + Sum(w, T \ {First(T)})
  BY <1>5, SumRecursive
<1>7. T # {}
  BY <1>5, <1>6
<1>8. First(T) \in T
  BY <1>7, FirstIn
<1>9. T \ {First(T)} \notin bad
  BY <1>4, <1>8
<1>10. Sum(w, T \ {First(T)}) \in Nat /\ w[First(T)] \in Nat
  BY <1>1, <1>5, <1>8, <1>9
<1> QED
  BY <1>5, <1>6, <1>7, <1>10

\* The order of the elements does not matter.
LEMMA SumRemove ==
  ASSUME NEW D, NEW w \in [D -> Nat], NEW S, S \subseteq D, IsFiniteSet(S), NEW x \in S
  PROVE  Sum(w, S) = w[x] + Sum(w, S \ {x})
<1>1. PICK bad : bad = {T \in SUBSET S : \E y \in T : Sum(w, T) # w[y] + Sum(w, T \ {y})}
  OBVIOUS
<1>2. SUFFICES ASSUME bad # {} PROVE FALSE
  BY <1>1
<1>3. \A T \in bad : IsFiniteSet(T)
  BY <1>1, FS_Subset
<1>4. PICK T \in bad : \A U \in bad : U \subseteq T => U = T
  BY <1>2, <1>3, LeastSet
<1>5. T \subseteq S /\ IsFiniteSet(T)
  BY <1>1, <1>3
<1>6. PICK y \in T : Sum(w, T) # w[y] + Sum(w, T \ {y})
  BY <1>1
<1>7. PICK f : f = First(T)
  OBVIOUS
<1>8. f \in T
  BY <1>7, FirstIn
<1>9. Sum(w, T) = w[f] + Sum(w, T \ {f})
  BY <1>5, <1>7, <1>8, SumRecursive
<1>10. y # f
  BY <1>6, <1>9
<1>11. T \ {f} \notin bad /\ T \ {y} \notin bad
  BY <1>4, <1>6, <1>8
<1>12. Sum(w, T \ {f}) = w[y] + Sum(w, (T \ {f}) \ {y})
  BY <1>1, <1>5, <1>6, <1>10, <1>11
<1>13. Sum(w, T \ {y}) = w[f] + Sum(w, (T \ {y}) \ {f})
  BY <1>1, <1>5, <1>8, <1>10, <1>11
<1>14. PICK U : U = T \ {f, y}
  OBVIOUS
<1>15. (T \ {f}) \ {y} = U /\ (T \ {y}) \ {f} = U
  BY <1>14
<1>16. Sum(w, U) \in Nat
  <2>1. U \subseteq D /\ U \in SUBSET S
    BY <1>5, <1>14
  <2>2. IsFiniteSet(U)
    BY <2>1, FS_Subset
  <2> QED
    BY <2>1, <2>2, SumTyped
<1>17. w[f] \in Nat /\ w[y] \in Nat
  BY <1>5, <1>6, <1>8
<1>18. /\ Sum(w, T) = w[f] + (w[y] + Sum(w, U))
       /\ w[y] + Sum(w, T \ {y}) = w[y] + (w[f] + Sum(w, U))
  BY <1>9, <1>12, <1>13, <1>15
<1> QED
  BY <1>6, <1>16, <1>17, <1>18

LEMMA SumAdd ==
  ASSUME NEW D, NEW w \in [D -> Nat], NEW S, S \subseteq D, IsFiniteSet(S), NEW x \in D, x \notin S
  PROVE  Sum(w, S \cup {x}) = Sum(w, S) + w[x]
<1>1. PICK T : T = S \cup {x}
  OBVIOUS
<1>2. T \subseteq D /\ x \in T /\ T \ {x} = S
  BY <1>1
<1>3. IsFiniteSet(T)
  BY <1>1, FS_AddElement
<1>4. Sum(w, T) = w[x] + Sum(w, T \ {x})
  BY <1>2, <1>3, SumRemove
<1>5. Sum(w, S) \in Nat /\ w[x] \in Nat
  BY SumTyped
<1> QED
  BY <1>1, <1>2, <1>4, <1>5

\* Fewer elements that weigh less weigh less together.
LEMMA SumMonotone ==
  ASSUME NEW D, NEW v \in [D -> Nat], NEW w \in [D -> Nat],
         NEW S, NEW T, S \subseteq T, T \subseteq D, IsFiniteSet(T), \A x \in S : v[x] <= w[x]
  PROVE  Sum(v, S) <= Sum(w, T)
<1>1. PICK bad : bad = {U \in SUBSET T : ~(Sum(v, U \cap S) <= Sum(w, U))}
  OBVIOUS
<1>2. SUFFICES ASSUME bad # {} PROVE FALSE
  <2>1. T \cap S = S
    OBVIOUS
  <2> QED
    BY <2>1, <1>1
<1>3. \A U \in bad : IsFiniteSet(U)
  BY <1>1, FS_Subset
<1>4. PICK U \in bad : \A V \in bad : V \subseteq U => V = U
  BY <1>2, <1>3, LeastSet
<1>5. U \subseteq D /\ U \subseteq T /\ IsFiniteSet(U) /\ ~(Sum(v, U \cap S) <= Sum(w, U))
  BY <1>1, <1>3
<1>6. U # {}
  <2>1. {} \cap S = {}
    OBVIOUS
  <2> QED
    BY <2>1, <1>5, SumEmpty
<1>7. PICK x : x \in U
  BY <1>6
<1>8. PICK V : V = U \ {x}
  OBVIOUS
<1>9. V \subseteq D /\ V \in SUBSET U /\ V \notin bad
  BY <1>4, <1>5, <1>7, <1>8
<1>10. IsFiniteSet(V) /\ V \cap S \subseteq D /\ V \cap S \in SUBSET V
  BY <1>5, <1>9, FS_Subset
<1>11. IsFiniteSet(V \cap S)
  BY <1>10, FS_Subset
<1>12. Sum(w, V) \in Nat
  BY <1>9, <1>10, SumTyped
<1>13. Sum(v, V \cap S) \in Nat
  BY <1>10, <1>11, SumTyped
<1>14. Sum(v, V \cap S) <= Sum(w, V)
  BY <1>1, <1>5, <1>9
<1>15. x \in D /\ w[x] \in Nat /\ v[x] \in Nat
  BY <1>5, <1>7
<1>16. Sum(w, U) = Sum(w, V) + w[x]
  <2>1. V \cup {x} = U /\ x \notin V
    BY <1>7, <1>8
  <2>2. Sum(w, V \cup {x}) = Sum(w, V) + w[x]
    BY <2>1, <1>9, <1>10, <1>15, SumAdd
  <2> QED
    BY <2>1, <2>2
<1>17. CASE x \in S
  <2>1. (V \cap S) \cup {x} = U \cap S /\ x \notin V \cap S
    BY <1>7, <1>8, <1>17
  <2>2. Sum(v, (V \cap S) \cup {x}) = Sum(v, V \cap S) + v[x]
    BY <2>1, <1>10, <1>11, <1>15, SumAdd
  <2>3. Sum(v, U \cap S) = Sum(v, V \cap S) + v[x]
    BY <2>1, <2>2
  <2>4. v[x] <= w[x]
    BY <1>17
  <2> QED
    BY <2>3, <2>4, <1>5, <1>12, <1>13, <1>14, <1>15, <1>16
<1>18. CASE x \notin S
  <2>1. U \cap S = V \cap S
    BY <1>8, <1>18
  <2>2. Sum(v, U \cap S) = Sum(v, V \cap S)
    BY <2>1
  <2> QED
    BY <2>2, <1>5, <1>12, <1>13, <1>14, <1>15, <1>16
<1> QED
  BY <1>17, <1>18

\* A set adds up to a part of it and the rest.
LEMMA SumSplit ==
  ASSUME NEW D, NEW w \in [D -> Nat], NEW S, S \subseteq D, IsFiniteSet(S), NEW T, T \subseteq S
  PROVE  Sum(w, S) = Sum(w, T) + Sum(w, S \ T)
<1>1. PICK bad : bad = {U \in SUBSET T : Sum(w, S) # Sum(w, U) + Sum(w, S \ U)}
  OBVIOUS
<1>2. SUFFICES ASSUME bad # {} PROVE FALSE
  BY <1>1
<1>3. \A U \in bad : IsFiniteSet(U)
  BY <1>1, FS_Subset
<1>4. PICK U \in bad : \A V \in bad : V \subseteq U => V = U
  BY <1>2, <1>3, LeastSet
<1>5. U \subseteq S /\ U \subseteq T /\ IsFiniteSet(U) /\ Sum(w, S) # Sum(w, U) + Sum(w, S \ U)
  BY <1>1, <1>3
<1>6. U # {}
  <2>1. Sum(w, {}) = 0 /\ Sum(w, S) \in Nat /\ S \ {} = S
    BY SumEmpty, SumTyped
  <2> QED
    BY <2>1, <1>5
<1>7. PICK x \in U : TRUE
  BY <1>6
<1>8. PICK V : V = U \ {x}
  OBVIOUS
<1>9. PICK R : R = S \ V
  OBVIOUS
<1>10. /\ V \subseteq S /\ V \subseteq T /\ V # U /\ V \subseteq U
       /\ R \subseteq D /\ x \in R /\ R \ {x} = S \ U
  BY <1>5, <1>7, <1>8, <1>9
<1>11. Sum(w, S) = Sum(w, V) + Sum(w, R)
  BY <1>1, <1>4, <1>9, <1>10
<1>12. IsFiniteSet(R) /\ IsFiniteSet(V) /\ IsFiniteSet(S \ U)
  BY <1>9, <1>10, FS_Subset
<1>13. Sum(w, U) = w[x] + Sum(w, V)
  BY <1>5, <1>7, <1>8, SumRemove
<1>14. Sum(w, R) = w[x] + Sum(w, S \ U)
  <2>1. Sum(w, R) = w[x] + Sum(w, R \ {x})
    BY <1>10, <1>12, SumRemove
  <2> QED
    BY <2>1, <1>10
<1>15. Sum(w, V) \in Nat /\ Sum(w, S \ U) \in Nat /\ w[x] \in Nat
  <2>1. S \ U \subseteq D /\ V \subseteq D /\ x \in D
    BY <1>5, <1>7, <1>10
  <2> QED
    BY <2>1, <1>12, SumTyped
<1> QED
  BY <1>5, <1>11, <1>13, <1>14, <1>15

\* Weights that are all the same are multiplied.
LEMMA SumConstant ==
  ASSUME NEW D, NEW w \in [D -> Nat], NEW S, S \subseteq D, IsFiniteSet(S), NEW c \in Nat, \A x \in S : w[x] = c
  PROVE  Sum(w, S) = c * Cardinality(S)
<1>1. PICK bad : bad = {T \in SUBSET S : Sum(w, T) # c * Cardinality(T)}
  OBVIOUS
<1>2. SUFFICES ASSUME bad # {} PROVE FALSE
  BY <1>1
<1>3. \A T \in bad : IsFiniteSet(T)
  BY <1>1, FS_Subset
<1>4. PICK T \in bad : \A U \in bad : U \subseteq T => U = T
  BY <1>2, <1>3, LeastSet
<1>5. T \subseteq S /\ IsFiniteSet(T) /\ Sum(w, T) # c * Cardinality(T)
  BY <1>1, <1>3
<1>6. T # {}
  <2>1. Sum(w, {}) = 0 /\ Cardinality({}) = 0 /\ c * 0 = 0
    BY SumEmpty, FS_EmptySet
  <2> QED
    BY <2>1, <1>5
<1>7. PICK x \in T : TRUE
  BY <1>6
<1>8. PICK U : U = T \ {x}
  OBVIOUS
<1>9. U \subseteq S /\ U \subseteq T /\ U # T /\ IsFiniteSet(U)
  BY <1>5, <1>7, <1>8, FS_Subset
<1>10. Sum(w, U) = c * Cardinality(U)
  BY <1>1, <1>4, <1>9
<1>11. Sum(w, T) = c + Sum(w, U)
  <2>1. Sum(w, T) = w[x] + Sum(w, T \ {x})
    BY <1>5, <1>7, SumRemove
  <2> QED
    BY <2>1, <1>5, <1>7, <1>8
<1>12. Cardinality(T) = Cardinality(U) + 1 /\ Cardinality(U) \in Nat
  BY <1>5, <1>7, <1>8, <1>9, FS_RemoveElement, FS_CardinalityType
<1>13. PICK n \in Nat : n = Cardinality(U)
  BY <1>12
<1>14. c * (n + 1) = c + c * n
  OBVIOUS
<1> QED
  BY <1>5, <1>10, <1>11, <1>12, <1>13, <1>14

\* Weights below a bound add up to less than as many times the bound.
LEMMA SumBounded ==
  ASSUME NEW D, NEW w \in [D -> Nat], NEW S, S \subseteq D, IsFiniteSet(S), NEW c \in Nat, \A x \in S : w[x] <= c
  PROVE  Sum(w, S) <= c * Cardinality(S)
<1>1. PICK v : v = [x \in D |-> c]
  OBVIOUS
<1>2. v \in [D -> Nat] /\ \A x \in S : v[x] = c
  BY <1>1
<1>3. \A x \in S : w[x] <= v[x]
  BY <1>2
<1>4. Sum(w, S) <= Sum(v, S)
  BY <1>2, <1>3, SumMonotone
<1>5. Sum(v, S) = c * Cardinality(S)
  BY <1>2, SumConstant
<1> QED
  BY <1>4, <1>5

\* h grows with n as f and g say.
Linear(D, f, g, h, n) ==
  /\ f \in [D -> Nat] /\ g \in [D -> Nat] /\ h \in [D -> Nat] /\ n \in Nat
  /\ \A x \in D : h[x] = f[x] + g[x] * n

\* A sum of weights that grow with a number grows with it.
LEMMA SumLinear ==
  ASSUME NEW D, NEW f, NEW g, NEW h, NEW n, Linear(D, f, g, h, n), NEW S, S \subseteq D, IsFiniteSet(S)
  PROVE  Sum(h, S) = Sum(f, S) + Sum(g, S) * n
<1> USE DEF Linear
<1>1. PICK bad : bad = {T \in SUBSET S : Sum(h, T) # Sum(f, T) + Sum(g, T) * n}
  OBVIOUS
<1>2. SUFFICES ASSUME bad # {} PROVE FALSE
  BY <1>1
<1>3. \A T \in bad : IsFiniteSet(T)
  BY <1>1, FS_Subset
<1>4. PICK T \in bad : \A U \in bad : U \subseteq T => U = T
  BY <1>2, <1>3, LeastSet
<1>5. T \subseteq S /\ IsFiniteSet(T) /\ Sum(h, T) # Sum(f, T) + Sum(g, T) * n
  BY <1>1, <1>3
<1>6. T # {}
  <2>1. Sum(f, {}) = 0 /\ Sum(g, {}) = 0 /\ Sum(h, {}) = 0 /\ 0 + 0 * n = 0
    BY SumEmpty
  <2> QED
    BY <2>1, <1>5
<1>7. PICK x \in T : TRUE
  BY <1>6
<1>8. PICK U : U = T \ {x}
  OBVIOUS
<1>9. U \subseteq S /\ U \subseteq T /\ U # T /\ IsFiniteSet(U) /\ U \subseteq D
  BY <1>5, <1>7, <1>8, FS_Subset
<1>10. Sum(h, U) = Sum(f, U) + Sum(g, U) * n
  BY <1>1, <1>4, <1>9
<1>11. T \subseteq D /\ x \in D
  BY <1>5, <1>7
<1>12. Sum(h, T) = h[x] + Sum(h, U) /\ Sum(f, T) = f[x] + Sum(f, U) /\ Sum(g, T) = g[x] + Sum(g, U)
  BY <1>5, <1>7, <1>8, <1>11, SumRemove
<1>13. Sum(h, U) \in Nat /\ Sum(f, U) \in Nat /\ Sum(g, U) \in Nat
  BY <1>9, SumTyped
<1>14. f[x] \in Nat /\ g[x] \in Nat /\ h[x] = f[x] + g[x] * n
  BY <1>11
<1>15. \A a, b \in Nat : (a + b) * n = a * n + b * n
  OBVIOUS
<1>16. PICK a, b, c, d \in Nat : a = f[x] /\ b = g[x] /\ c = Sum(f, U) /\ d = Sum(g, U)
  BY <1>13, <1>14
<1>17. (b + d) * n = b * n + d * n /\ b * n \in Nat /\ d * n \in Nat
  BY <1>15
<1>18. Sum(h, T) = (a + b * n) + (c + d * n)
  BY <1>10, <1>12, <1>14, <1>16
<1>19. Sum(f, T) + Sum(g, T) * n = (a + c) + (b + d) * n
  BY <1>12, <1>16
<1> QED
  BY <1>5, <1>17, <1>18, <1>19
================================================================================
