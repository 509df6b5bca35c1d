----------------------------- MODULE FiniteSums -----------------------------
(***************************************************************************)
(* What SumFunctionOnSet computes, for every finite set: the facts about   *)
(* sums of token counts that the proofs about quotas share.  The library   *)
(* defines a sum by recursion over subsets, in an order CHOOSE leaves      *)
(* open; that the order does not matter, and that a sum can be taken       *)
(* apart, is shown by looking at a smallest set for which it would fail.   *)
(***************************************************************************)
EXTENDS Naturals, FiniteSets, Functions, FiniteSetTheorems, WellFoundedInduction, TLAPS

\* A set of numbers that is not empty has a least one.
LEMMA LeastExists ==
  ASSUME NEW T, T \subseteq Nat, T # {}
  PROVE  \E x \in T : \A y \in T : x <= y
<1>1. PICK R : R = OpToRel(<, Nat)
  OBVIOUS
<1>2. IsWellFoundedOn(R, Nat)
  BY <1>1, NatLessThanWellFounded
<1>3. PICK x \in T : \A y \in T : <<y, x>> \notin R
  BY <1>2, WFMin
<1>4. \A y \in Nat, z \in Nat : y < z => <<y, z>> \in R
  BY <1>1 DEF OpToRel
<1>5. \A y \in T : ~(y < x)
  BY <1>3, <1>4
<1>6. \A y \in T : x <= y
  BY <1>3, <1>5
<1> QED BY <1>3, <1>6

\* Among subsets of a finite set there is one none of whose proper subsets is among
\* them: what a proof by induction over finite sets comes down to.
LEMMA SmallestExists ==
  ASSUME NEW S, IsFiniteSet(S), NEW B, B \subseteq SUBSET S, B # {}
  PROVE  \E T \in B : \A R \in B : R \subseteq T => R = T
<1>1. \A T \in B : IsFiniteSet(T) /\ Cardinality(T) \in Nat
  BY FS_Subset, FS_CardinalityType
<1>2. PICK N : N = {Cardinality(T) : T \in B}
  OBVIOUS
<1>3. N \subseteq Nat /\ N # {}
  BY <1>1, <1>2
<1>4. PICK n \in N : \A m \in N : n <= m
  BY <1>3, LeastExists
<1>5. PICK T \in B : n = Cardinality(T)
  BY <1>2, <1>4
<1>6. ASSUME NEW R \in B, R \subseteq T PROVE R = T
  <2>1. IsFiniteSet(T) /\ R \in SUBSET T
    BY <1>1, <1>6
  <2>2. Cardinality(R) <= Cardinality(T) /\ (Cardinality(T) = Cardinality(R) => T = R)
    BY <2>1, FS_Subset
  <2>3. Cardinality(T) <= Cardinality(R)
    BY <1>2, <1>4, <1>5
  <2>4. Cardinality(R) \in Nat /\ Cardinality(T) \in Nat
    BY <1>1
  <2> QED BY <2>2, <2>3, <2>4
<1> QED BY <1>6

\* The element a sum takes next.
One(s) == CHOOSE x \in s : TRUE

\* g is the function that the definition of a sum recurs on.
Sums(f, S, g) ==
  g = [s \in SUBSET S |-> IF s = {} THEN 0 ELSE f[One(s)] + g[s \ {One(s)}]]

\* The next element is an element.
LEMMA OneFacts ==
  ASSUME NEW s, s # {}
  PROVE  One(s) \in s /\ s \ {One(s)} # s /\ s \ {One(s)} \subseteq s
  BY DEF One

\* What such a function is.
LEMMA SumsFacts ==
  ASSUME NEW f, NEW S, NEW g, Sums(f, S, g)
  PROVE  /\ g[{}] = 0
         /\ \A s \in SUBSET S : s # {} => g[s] = f[One(s)] + g[s \ {One(s)}]
<1>1. PICK P : P = SUBSET S
  OBVIOUS
<1>2. g = [s \in P |-> IF s = {} THEN 0 ELSE f[One(s)] + g[s \ {One(s)}]]
  BY <1>1 DEF Sums
<1>3. {} \in P
  BY <1>1
<1>4. \A s \in P : g[s] = IF s = {} THEN 0 ELSE f[One(s)] + g[s \ {One(s)}]
  BY <1>2
<1> QED BY <1>1, <1>3, <1>4

\* There is only one.
LEMMA SumsUnique ==
  ASSUME NEW f, NEW S, IsFiniteSet(S), NEW g, Sums(f, S, g), NEW T \in SUBSET S,
         NEW h, Sums(f, T, h)
  PROVE  \A s \in SUBSET T : g[s] = h[s]
<1>1. PICK B : B = {s \in SUBSET T : g[s] # h[s]}
  OBVIOUS
<1> SUFFICES ASSUME B # {} PROVE FALSE
  BY <1>1
<1>2. B \subseteq SUBSET S
  BY <1>1
<1>3. PICK s \in B : \A r \in B : r \subseteq s => r = s
  BY <1>1, <1>2, SmallestExists
<1>4. s \in SUBSET T /\ s \in SUBSET S /\ g[s] # h[s]
  BY <1>1, <1>2, <1>3
<1>5. g[{}] = 0 /\ h[{}] = 0
  BY SumsFacts
<1>6. s # {}
  BY <1>4, <1>5
<1>7. PICK r : r = s \ {One(s)}
  OBVIOUS
<1>8. r # s /\ r \subseteq s
  BY <1>6, <1>7, OneFacts
<1>9. r \notin B /\ r \in SUBSET T
  BY <1>3, <1>4, <1>8
<1>10. g[r] = h[r]
  BY <1>1, <1>9
<1>11. g[s] = f[One(s)] + g[r] /\ h[s] = f[One(s)] + h[r]
  BY <1>4, <1>6, <1>7, SumsFacts
<1> QED BY <1>4, <1>10, <1>11

\* So it can be put together from the functions for smaller sets.
LEMMA SumsStep ==
  ASSUME NEW f, NEW R, IsFiniteSet(R), R # {}, NEW g, Sums(f, R, g),
         NEW Q, Q = R \ {One(R)}, NEW h, Sums(f, Q, h)
  PROVE  g[R] = f[One(R)] + h[Q]
<1>1. Q = R \ {One(R)}
  OBVIOUS
<1>2. Q \in SUBSET R
  OBVIOUS
<1>4. g[Q] = h[Q]
  BY <1>2, SumsUnique
<1>5. \A s \in SUBSET R : s # {} => g[s] = f[One(s)] + g[s \ {One(s)}]
  BY SumsFacts
<1>6. g[R] = f[One(R)] + g[Q]
  BY <1>1, <1>5
<1> QED BY <1>1, <1>4, <1>6

\* And there is one.
LEMMA SumsExists ==
  ASSUME NEW f, NEW S, IsFiniteSet(S), \A x \in S : f[x] \in Nat
  PROVE  \E g \in [SUBSET S -> Nat] : Sums(f, S, g)
<1> DEFINE Has(T) == \E g \in [SUBSET T -> Nat] : Sums(f, T, g)
<1>1. PICK B : B = {T \in SUBSET S : ~Has(T)}
  OBVIOUS
<1> SUFFICES ASSUME B # {} PROVE FALSE
  BY <1>1
<1>2. B \subseteq SUBSET S
  BY <1>1
<1>3. PICK T \in B : \A R \in B : R \subseteq T => R = T
  BY <1>2, SmallestExists
<1>4. T \in SUBSET S /\ ~Has(T)
  BY <1>1, <1>3
<1>5. \A R \in SUBSET T : R # T => Has(R)
  BY <1>1, <1>3, <1>4
<1> DEFINE G(R) == CHOOSE g \in [SUBSET R -> Nat] : Sums(f, R, g)
<1>6. ASSUME NEW R \in SUBSET T, R # T
      PROVE  G(R) \in [SUBSET R -> Nat] /\ Sums(f, R, G(R))
  BY <1>5, <1>6
<1>7. \A R \in SUBSET T : R # T => G(R)[R] \in Nat
  BY <1>6
<1>8. ASSUME NEW R \in SUBSET T, R # T, R # {}
      PROVE  G(R)[R] = f[One(R)] + G(R \ {One(R)})[R \ {One(R)}]
  <2>1. PICK g : g = G(R)
    OBVIOUS
  <2>2. Sums(f, R, g)
    BY <1>6, <1>8, <2>1
  <2>3. PICK Q : Q = R \ {One(R)}
    OBVIOUS
  <2>4. Q # R /\ Q \subseteq R
    BY <1>8, <2>3, OneFacts
  <2>5. Q \in SUBSET T /\ Q # T
    BY <1>8, <2>4
  <2>6. PICK h : h = G(Q)
    OBVIOUS
  <2>7. Sums(f, Q, h)
    BY <1>6, <2>5, <2>6
  <2>8. IsFiniteSet(R)
    BY <1>4, FS_Subset
  <2>9. g[R] = f[One(R)] + h[Q]
    BY <1>8, <2>2, <2>3, <2>7, <2>8, SumsStep
  <2> QED BY <2>1, <2>3, <2>6, <2>9
<1>9. ASSUME {} # T PROVE G({})[{}] = 0
  <2>1. Sums(f, {}, G({}))
    BY <1>6, <1>9
  <2> QED BY <2>1, SumsFacts
<1> DEFINE top == IF T = {} THEN 0 ELSE f[One(T)] + G(T \ {One(T)})[T \ {One(T)}]
<1> DEFINE H == [R \in SUBSET T |-> IF R = T THEN top ELSE G(R)[R]]
<1>10. top \in Nat
  <2>1. CASE T = {}
    BY <2>1
  <2>2. CASE T # {}
    <3>1. One(T) \in T /\ T \ {One(T)} # T /\ T \ {One(T)} \subseteq T
      BY <2>2, OneFacts
    <3>2. f[One(T)] \in Nat
      BY <1>4, <3>1
    <3>3. G(T \ {One(T)})[T \ {One(T)}] \in Nat
      BY <1>7, <3>1
    <3> HIDE DEF G
    <3> QED BY <2>2, <3>2, <3>3
  <2> QED BY <2>1, <2>2
<1> HIDE DEF G, top
<1>11. H \in [SUBSET T -> Nat]
  BY <1>7, <1>10
<1>12. ASSUME NEW R \in SUBSET T
       PROVE  H[R] = IF R = {} THEN 0 ELSE f[One(R)] + H[R \ {One(R)}]
  <2>1. CASE R # {}
    <3>1. PICK Q : Q = R \ {One(R)}
      OBVIOUS
    <3>2. Q # R /\ Q \subseteq R
      BY <2>1, <3>1, OneFacts
    <3>3. Q \in SUBSET T /\ Q # T
      BY <1>12, <3>2
    <3>4. H[Q] = G(Q)[Q]
      BY <3>3
    <3>5. CASE R = T
      <4>1. H[R] = top
        BY <3>5
      <4>2. top = f[One(R)] + G(Q)[Q]
        BY <2>1, <3>1, <3>5 DEF top
      <4> QED BY <2>1, <3>1, <3>4, <4>1, <4>2
    <3>6. CASE R # T
      <4>1. H[R] = G(R)[R]
        BY <1>12, <3>6
      <4>2. G(R)[R] = f[One(R)] + G(Q)[Q]
        BY <1>8, <1>12, <2>1, <3>1, <3>6
      <4> QED BY <2>1, <3>1, <3>4, <4>1, <4>2
    <3> QED BY <3>5, <3>6
  <2>2. CASE R = {}
    <3>1. CASE T = {}
      BY <2>2, <3>1 DEF top
    <3>2. CASE T # {}
      BY <1>9, <2>2, <3>2
    <3> QED BY <3>1, <3>2
  <2> QED BY <2>1, <2>2
<1>13. PICK h : h = H
  OBVIOUS
<1>14. Sums(f, T, h)
  <2>1. \A R \in SUBSET T : h[R] = IF R = {} THEN 0 ELSE f[One(R)] + h[R \ {One(R)}]
    BY <1>12, <1>13
  <2>2. h \in [SUBSET T -> Nat]
    BY <1>11, <1>13
  <2>3. h = [R \in SUBSET T |-> h[R]]
    BY <2>2
  <2> HIDE DEF H
  <2> QED BY <2>1, <2>3 DEF Sums
<1>15. h \in [SUBSET T -> Nat]
  BY <1>11, <1>13
<1> QED BY <1>4, <1>14, <1>15

\* The definition recurs on that function.
LEMMA SumIsSums ==
  ASSUME NEW f, NEW S
  PROVE  SumFunctionOnSet(f, S) = (CHOOSE g : Sums(f, S, g))[S]
  BY DEF SumFunctionOnSet, FoldFunctionOnSet, MapThenFoldSet, Sums, One

\* One function has the sums over all subsets.
LEMMA SumTable ==
  ASSUME NEW f, NEW S, IsFiniteSet(S), \A x \in S : f[x] \in Nat
  PROVE  \E g \in [SUBSET S -> Nat] :
           Sums(f, S, g) /\ \A T \in SUBSET S : SumFunctionOnSet(f, T) = g[T]
<1>1. PICK g \in [SUBSET S -> Nat] : Sums(f, S, g)
  BY SumsExists
<1>2. ASSUME NEW T \in SUBSET S PROVE SumFunctionOnSet(f, T) = g[T]
  <2>1. IsFiniteSet(T) /\ \A x \in T : f[x] \in Nat
    BY FS_Subset
  <2>2. \E h : Sums(f, T, h)
    BY <2>1, SumsExists
  <2>3. PICK h : h = CHOOSE e : Sums(f, T, e)
    OBVIOUS
  <2>4. Sums(f, T, h)
    BY <2>2, <2>3
  <2>5. \A s \in SUBSET T : g[s] = h[s]
    BY <1>1, <2>4, SumsUnique
  <2>6. g[T] = h[T]
    BY <2>5
  <2> QED BY <2>3, <2>6, SumIsSums
<1> QED BY <1>1, <1>2

\* A sum of naturals is one, and sums to nothing over nothing.
LEMMA SumType ==
  ASSUME NEW f, NEW S, IsFiniteSet(S), \A x \in S : f[x] \in Nat
  PROVE  SumFunctionOnSet(f, S) \in Nat /\ SumFunctionOnSet(f, {}) = 0
<1>1. PICK g \in [SUBSET S -> Nat] :
        Sums(f, S, g) /\ \A T \in SUBSET S : SumFunctionOnSet(f, T) = g[T]
  BY SumTable
<1>2. g[{}] = 0
  BY <1>1, SumsFacts
<1>3. S \in SUBSET S /\ {} \in SUBSET S
  OBVIOUS
<1> QED BY <1>1, <1>2, <1>3

\* A sum does not depend on the element taken out first.
LEMMA SumRemove ==
  ASSUME NEW f, NEW S, IsFiniteSet(S), \A x \in S : f[x] \in Nat, NEW x \in S
  PROVE  SumFunctionOnSet(f, S) = f[x] + SumFunctionOnSet(f, S \ {x})
<1>1. PICK g \in [SUBSET S -> Nat] :
        Sums(f, S, g) /\ \A T \in SUBSET S : SumFunctionOnSet(f, T) = g[T]
  BY SumTable
<1>2. \A s \in SUBSET S : s # {} => g[s] = f[One(s)] + g[s \ {One(s)}]
  BY <1>1, SumsFacts
<1>3. PICK B : B = {T \in SUBSET S : \E y \in T : g[T] # f[y] + g[T \ {y}]}
  OBVIOUS
<1>4. ASSUME B # {} PROVE FALSE
  <2>1. B \subseteq SUBSET S
    BY <1>3
  <2>2. PICK T \in B : \A R \in B : R \subseteq T => R = T
    BY <1>4, <2>1, SmallestExists
  <2>3. PICK y \in T : g[T] # f[y] + g[T \ {y}]
    BY <1>3, <2>2
  <2>4. PICK z : z = One(T)
    OBVIOUS
  <2>5. T \in SUBSET S /\ T # {} /\ z \in T
    BY <2>1, <2>2, <2>3, <2>4, OneFacts
  <2>6. g[T] = f[z] + g[T \ {z}]
    BY <1>2, <2>4, <2>5
  <2>7. z # y
    BY <2>3, <2>6
  <2>8. PICK U : U = T \ {y}
    OBVIOUS
  <2>9. PICK V : V = T \ {z}
    OBVIOUS
  <2>10. PICK W : W = (T \ {y}) \ {z}
    OBVIOUS
  <2>11. /\ U \in SUBSET S /\ V \in SUBSET S /\ W \in SUBSET S /\ z \in U /\ y \in V
         /\ U \ {z} = W /\ V \ {y} = W /\ U # T /\ V # T /\ U \subseteq T /\ V \subseteq T
    BY <2>3, <2>5, <2>7, <2>8, <2>9, <2>10
  <2>12. U \notin B /\ V \notin B
    BY <2>2, <2>11
  <2>13. g[U] = f[z] + g[W] /\ g[V] = f[y] + g[W]
    BY <1>3, <2>11, <2>12
  <2>14. f[y] \in Nat /\ f[z] \in Nat /\ g[W] \in Nat
    BY <1>1, <2>3, <2>5, <2>11
  <2> QED BY <2>3, <2>6, <2>8, <2>9, <2>13, <2>14
<1>5. S \notin B
  BY <1>4
<1>6. g[S] = f[x] + g[S \ {x}]
  BY <1>3, <1>5
<1>7. S \in SUBSET S /\ S \ {x} \in SUBSET S
  OBVIOUS
<1> QED BY <1>1, <1>6, <1>7

\* An element more.
LEMMA SumAdd ==
  ASSUME NEW f, NEW S, IsFiniteSet(S), \A x \in S : f[x] \in Nat,
         NEW y, y \notin S, f[y] \in Nat
  PROVE  SumFunctionOnSet(f, S \cup {y}) = f[y] + SumFunctionOnSet(f, S)
<1>1. PICK T : T = S \cup {y}
  OBVIOUS
<1>2. IsFiniteSet(T) /\ y \in T /\ T \ {y} = S /\ \A x \in T : f[x] \in Nat
  BY <1>1, FS_AddElement
<1>3. SumFunctionOnSet(f, T) = f[y] + SumFunctionOnSet(f, T \ {y})
  BY <1>2, SumRemove
<1> QED BY <1>1, <1>2, <1>3

\* Sums of terms that agree, or that are one below the other.
LEMMA SumCompare ==
  ASSUME NEW f, NEW h, NEW S, IsFiniteSet(S),
         \A x \in S : f[x] \in Nat /\ h[x] \in Nat /\ f[x] <= h[x]
  PROVE  SumFunctionOnSet(f, S) <= SumFunctionOnSet(h, S)
<1>1. PICK B : B = {T \in SUBSET S : ~(SumFunctionOnSet(f, T) <= SumFunctionOnSet(h, T))}
  OBVIOUS
<1>2. ASSUME B # {} PROVE FALSE
  <2>1. B \subseteq SUBSET S
    BY <1>1
  <2>2. PICK T \in B : \A R \in B : R \subseteq T => R = T
    BY <1>2, <2>1, SmallestExists
  <2>3. /\ T \in SUBSET S /\ IsFiniteSet(T)
        /\ \A x \in T : f[x] \in Nat /\ h[x] \in Nat /\ f[x] <= h[x]
    BY <2>1, <2>2, FS_Subset
  <2>4. SumFunctionOnSet(f, {}) = 0 /\ SumFunctionOnSet(h, {}) = 0
    BY SumType
  <2>5. T # {}
    <3>1. ASSUME T = {} PROVE FALSE
      <4>1. ~(SumFunctionOnSet(f, {}) <= SumFunctionOnSet(h, {}))
        BY <1>1, <2>2, <3>1
      <4> QED BY <2>4, <4>1
    <3> QED BY <3>1
  <2>6. PICK x \in T : TRUE
    BY <2>5
  <2>7. PICK R : R = T \ {x}
    OBVIOUS
  <2>8. R \in SUBSET S /\ R # T /\ R \subseteq T /\ IsFiniteSet(R)
    BY <2>3, <2>7, FS_Subset
  <2>9. R \notin B
    BY <2>2, <2>8
  <2>10. SumFunctionOnSet(f, R) <= SumFunctionOnSet(h, R)
    BY <1>1, <2>8, <2>9
  <2>11. /\ SumFunctionOnSet(f, T) = f[x] + SumFunctionOnSet(f, R)
         /\ SumFunctionOnSet(h, T) = h[x] + SumFunctionOnSet(h, R)
    BY <2>3, <2>6, <2>7, SumRemove
  <2>12. SumFunctionOnSet(f, R) \in Nat /\ SumFunctionOnSet(h, R) \in Nat
    BY <2>3, <2>8, SumType
  <2>13. f[x] \in Nat /\ h[x] \in Nat /\ f[x] <= h[x]
    BY <2>3, <2>6
  <2>14. SumFunctionOnSet(f, T) <= SumFunctionOnSet(h, T)
    BY <2>10, <2>11, <2>12, <2>13
  <2> QED BY <1>1, <2>2, <2>14
<1> QED BY <1>1, <1>2

\* Sums of terms that agree.
LEMMA SumEqual ==
  ASSUME NEW f, NEW h, NEW S, IsFiniteSet(S), \A x \in S : f[x] \in Nat /\ h[x] = f[x]
  PROVE  SumFunctionOnSet(f, S) = SumFunctionOnSet(h, S)
<1>1. SumFunctionOnSet(f, S) <= SumFunctionOnSet(h, S)
  BY SumCompare
<1>2. SumFunctionOnSet(h, S) <= SumFunctionOnSet(f, S)
  BY SumCompare
<1>3. SumFunctionOnSet(f, S) \in Nat /\ SumFunctionOnSet(h, S) \in Nat
  BY SumType
<1> QED BY <1>1, <1>2, <1>3

\* A sum over two parts, with the terms named by m from the indices in I.
LEMMA SumImage ==
  ASSUME NEW f, NEW S, IsFiniteSet(S), NEW I, IsFiniteSet(I), NEW m, NEW h,
         \A i \in I : m[i] \in S /\ f[m[i]] \in Nat /\ h[i] = f[m[i]],
         \A i, j \in I : m[i] = m[j] => i = j
  PROVE  SumFunctionOnSet(h, I) = SumFunctionOnSet(f, {m[i] : i \in I})
<1>1. PICK B : B = {J \in SUBSET I : SumFunctionOnSet(h, J) # SumFunctionOnSet(f, {m[i] : i \in J})}
  OBVIOUS
<1>2. ASSUME B # {} PROVE FALSE
  <2>1. B \subseteq SUBSET I
    BY <1>1
  <2>2. PICK J \in B : \A R \in B : R \subseteq J => R = J
    BY <1>2, <2>1, SmallestExists
  <2>3. J \in SUBSET I /\ IsFiniteSet(J)
    BY <2>1, <2>2, FS_Subset
  <2>4. PICK M : M = {m[i] : i \in J}
    OBVIOUS
  <2>5. M \subseteq S /\ \A x \in M : f[x] \in Nat
    BY <2>3, <2>4
  <2>6. IsFiniteSet(M)
    BY <2>5, FS_Subset
  <2>7. SumFunctionOnSet(h, {}) = 0 /\ SumFunctionOnSet(f, {}) = 0
    BY <2>3, <2>5, <2>6, SumType
  <2>8. J # {}
    <3>1. ASSUME J = {} PROVE FALSE
      <4>1. M = {}
        BY <2>4, <3>1
      <4> QED BY <1>1, <2>2, <2>4, <2>7, <3>1, <4>1
    <3> QED BY <3>1
  <2>9. PICK j \in J : TRUE
    BY <2>8
  <2>10. PICK R : R = J \ {j}
    OBVIOUS
  <2>11. PICK N : N = {m[i] : i \in R}
    OBVIOUS
  <2>12. R \in SUBSET I /\ R # J /\ R \subseteq J
    BY <2>3, <2>9, <2>10
  <2>13. R \notin B
    BY <2>2, <2>12
  <2>14. SumFunctionOnSet(h, R) = SumFunctionOnSet(f, N)
    BY <1>1, <2>11, <2>12, <2>13
  <2>15. M \ {m[j]} = N /\ m[j] \in M
    BY <2>3, <2>4, <2>9, <2>10, <2>11
  <2>16. SumFunctionOnSet(h, J) = h[j] + SumFunctionOnSet(h, R)
    BY <2>3, <2>9, <2>10, SumRemove
  <2>17. PICK x : x = m[j]
    OBVIOUS
  <2>18. SumFunctionOnSet(f, M) = f[x] + SumFunctionOnSet(f, M \ {x})
    BY <2>5, <2>6, <2>15, <2>17, SumRemove
  <2>19. SumFunctionOnSet(h, J) = SumFunctionOnSet(f, M)
    BY <2>3, <2>9, <2>14, <2>15, <2>16, <2>17, <2>18
  <2> QED BY <1>1, <2>2, <2>4, <2>19
<1>3. I \notin B
  BY <1>2
<1> QED BY <1>1, <1>3

\* A sum over two parts.
LEMMA SumSplit ==
  ASSUME NEW f, NEW S, IsFiniteSet(S), \A x \in S : f[x] \in Nat, NEW P \in SUBSET S
  PROVE  /\ SumFunctionOnSet(f, P) \in Nat /\ SumFunctionOnSet(f, S \ P) \in Nat
         /\ SumFunctionOnSet(f, S) = SumFunctionOnSet(f, P) + SumFunctionOnSet(f, S \ P)
<1>1. PICK B : B = {T \in SUBSET S :
                      SumFunctionOnSet(f, S) # SumFunctionOnSet(f, T) + SumFunctionOnSet(f, S \ T)}
  OBVIOUS
<1>2. \A T \in SUBSET S : /\ IsFiniteSet(T) /\ IsFiniteSet(S \ T)
                          /\ SumFunctionOnSet(f, T) \in Nat
                          /\ SumFunctionOnSet(f, S \ T) \in Nat
  <2>1. \A T \in SUBSET S : /\ IsFiniteSet(T) /\ SumFunctionOnSet(f, T) \in Nat
    BY FS_Subset, SumType
  <2> QED BY <2>1
<1>3. ASSUME B # {} PROVE FALSE
  <2>1. B \subseteq SUBSET S
    BY <1>1
  <2>2. PICK T \in B : \A R \in B : R \subseteq T => R = T
    BY <1>3, <2>1, SmallestExists
  <2>3. T \in SUBSET S
    BY <2>1, <2>2
  <2>4. SumFunctionOnSet(f, {}) = 0 /\ S \ {} = S
    BY SumType
  <2>5. T # {}
    <3>1. ASSUME T = {} PROVE FALSE
      <4>1. SumFunctionOnSet(f, S) # SumFunctionOnSet(f, {}) + SumFunctionOnSet(f, S \ {})
        BY <1>1, <2>2, <3>1
      <4>2. SumFunctionOnSet(f, S) \in Nat
        BY SumType
      <4> QED BY <2>4, <4>1, <4>2
    <3> QED BY <3>1
  <2>6. PICK x \in T : TRUE
    BY <2>5
  <2>7. PICK R : R = T \ {x}
    OBVIOUS
  <2>8. PICK Q : Q = S \ T
    OBVIOUS
  <2>9. R \in SUBSET S /\ R # T /\ R \subseteq T /\ S \ R = Q \cup {x} /\ x \notin Q
        /\ Q \in SUBSET S /\ f[x] \in Nat
    BY <2>3, <2>6, <2>7, <2>8
  <2>10. R \notin B
    BY <2>2, <2>9
  <2>11. SumFunctionOnSet(f, S) = SumFunctionOnSet(f, R) + SumFunctionOnSet(f, Q \cup {x})
    BY <1>1, <2>9, <2>10
  <2>12. IsFiniteSet(Q) /\ \A y \in Q : f[y] \in Nat
    BY <1>2, <2>9
  <2>13. SumFunctionOnSet(f, Q \cup {x}) = f[x] + SumFunctionOnSet(f, Q)
    BY <2>9, <2>12, SumAdd
  <2>14. IsFiniteSet(T) /\ \A y \in T : f[y] \in Nat
    BY <1>2, <2>3
  <2>15. SumFunctionOnSet(f, T) = f[x] + SumFunctionOnSet(f, R)
    BY <2>6, <2>7, <2>14, SumRemove
  <2>16. SumFunctionOnSet(f, R) \in Nat /\ SumFunctionOnSet(f, Q) \in Nat
    BY <1>2, <2>9
  <2>17. SumFunctionOnSet(f, S) = SumFunctionOnSet(f, T) + SumFunctionOnSet(f, Q)
    BY <2>9, <2>11, <2>13, <2>15, <2>16
  <2> QED BY <1>1, <2>2, <2>8, <2>17
<1>4. P \notin B
  BY <1>3
<1> QED BY <1>1, <1>2, <1>4

\* A part sums to no more than the whole.
LEMMA SumPart ==
  ASSUME NEW f, NEW S, IsFiniteSet(S), \A x \in S : f[x] \in Nat, NEW P, P \subseteq S
  PROVE  /\ SumFunctionOnSet(f, P) \in Nat /\ SumFunctionOnSet(f, S) \in Nat
         /\ SumFunctionOnSet(f, P) <= SumFunctionOnSet(f, S)
<1>1. P \in SUBSET S
  OBVIOUS
<1>2. /\ SumFunctionOnSet(f, P) \in Nat /\ SumFunctionOnSet(f, S \ P) \in Nat
      /\ SumFunctionOnSet(f, S) = SumFunctionOnSet(f, P) + SumFunctionOnSet(f, S \ P)
  BY <1>1, SumSplit
<1> QED BY <1>2

\* Terms that two others cover.
LEMMA SumCover ==
  ASSUME NEW f, NEW g, NEW h, NEW S, IsFiniteSet(S),
         \A x \in S : f[x] \in Nat /\ g[x] \in Nat /\ h[x] \in Nat /\ f[x] <= g[x] + h[x]
  PROVE  /\ SumFunctionOnSet(f, S) \in Nat /\ SumFunctionOnSet(g, S) \in Nat
         /\ SumFunctionOnSet(h, S) \in Nat
         /\ SumFunctionOnSet(f, S) <= SumFunctionOnSet(g, S) + SumFunctionOnSet(h, S)
<1>1. PICK B : B = {T \in SUBSET S : ~(SumFunctionOnSet(f, T)
                                        <= SumFunctionOnSet(g, T) + SumFunctionOnSet(h, T))}
  OBVIOUS
<1>2. \A T \in SUBSET S : /\ IsFiniteSet(T) /\ SumFunctionOnSet(f, T) \in Nat
                          /\ SumFunctionOnSet(g, T) \in Nat /\ SumFunctionOnSet(h, T) \in Nat
  BY FS_Subset, SumType
<1>3. ASSUME B # {} PROVE FALSE
  <2>1. B \subseteq SUBSET S
    BY <1>1
  <2>2. PICK T \in B : \A R \in B : R \subseteq T => R = T
    BY <1>3, <2>1, SmallestExists
  <2>3. T \in SUBSET S /\ IsFiniteSet(T)
    BY <1>2, <2>1, <2>2
  <2>4. SumFunctionOnSet(f, {}) = 0
    BY SumType
  <2>5. T # {}
    <3>1. ASSUME T = {} PROVE FALSE
      <4>1. /\ ~(SumFunctionOnSet(f, {}) <= SumFunctionOnSet(g, {}) + SumFunctionOnSet(h, {}))
            /\ SumFunctionOnSet(g, {}) \in Nat /\ SumFunctionOnSet(h, {}) \in Nat
        BY <1>1, <1>2, <2>2, <2>3, <3>1
      <4> QED BY <2>4, <4>1
    <3> QED BY <3>1
  <2>6. PICK x \in T : TRUE
    BY <2>5
  <2>7. PICK R : R = T \ {x}
    OBVIOUS
  <2>8. R \in SUBSET S /\ R # T /\ R \subseteq T
    BY <2>3, <2>7
  <2>9. SumFunctionOnSet(f, R) <= SumFunctionOnSet(g, R) + SumFunctionOnSet(h, R)
    BY <1>1, <2>2, <2>8
  <2>10. \A y \in T : f[y] \in Nat /\ g[y] \in Nat /\ h[y] \in Nat /\ f[y] <= g[y] + h[y]
    BY <2>3
  <2>11. /\ SumFunctionOnSet(f, T) = f[x] + SumFunctionOnSet(f, R)
         /\ SumFunctionOnSet(g, T) = g[x] + SumFunctionOnSet(g, R)
         /\ SumFunctionOnSet(h, T) = h[x] + SumFunctionOnSet(h, R)
    BY <2>3, <2>6, <2>7, <2>10, SumRemove
  <2>12. /\ SumFunctionOnSet(f, R) \in Nat /\ SumFunctionOnSet(g, R) \in Nat
         /\ SumFunctionOnSet(h, R) \in Nat
    BY <1>2, <2>8
  <2>13. f[x] \in Nat /\ g[x] \in Nat /\ h[x] \in Nat /\ f[x] <= g[x] + h[x]
    BY <2>6, <2>10
  <2>14. SumFunctionOnSet(f, T) <= SumFunctionOnSet(g, T) + SumFunctionOnSet(h, T)
    BY <2>9, <2>11, <2>12, <2>13
  <2> QED BY <1>1, <2>2, <2>14
<1>4. S \notin B /\ S \in SUBSET S
  BY <1>3
<1> QED BY <1>1, <1>2, <1>4

\* A sum by groups: m names the group of each element, h is above each group's sum.
LEMMA SumGroups ==
  ASSUME NEW f, NEW S, IsFiniteSet(S), \A x \in S : f[x] \in Nat,
         NEW h, NEW G, IsFiniteSet(G), \A c \in G : h[c] \in Nat,
         NEW m, \A x \in S : m[x] \in G,
         \A c \in G : SumFunctionOnSet(f, {x \in S : m[x] = c}) <= h[c]
  PROVE  SumFunctionOnSet(f, S) <= SumFunctionOnSet(h, G)
<1> DEFINE In(C) == {x \in S : m[x] \in C}
<1>1. PICK B : B = {C \in SUBSET G : ~(SumFunctionOnSet(f, In(C)) <= SumFunctionOnSet(h, C))}
  OBVIOUS
<1>2. \A C : In(C) \in SUBSET S /\ IsFiniteSet(In(C)) /\ SumFunctionOnSet(f, In(C)) \in Nat
  <2>1. \A T \in SUBSET S : IsFiniteSet(T) /\ SumFunctionOnSet(f, T) \in Nat
    BY FS_Subset, SumType
  <2> QED BY <2>1
<1>3. \A C \in SUBSET G : IsFiniteSet(C) /\ SumFunctionOnSet(h, C) \in Nat
  BY FS_Subset, SumType
<1>4. ASSUME B # {} PROVE FALSE
  <2>1. B \subseteq SUBSET G
    BY <1>1
  <2>2. PICK C \in B : \A R \in B : R \subseteq C => R = C
    BY <1>4, <2>1, SmallestExists
  <2>3. C \in SUBSET G /\ IsFiniteSet(C)
    BY <1>3, <2>1, <2>2
  <2>4. SumFunctionOnSet(f, {}) = 0 /\ SumFunctionOnSet(h, {}) = 0
    BY SumType
  <2>5. C # {}
    <3>1. ASSUME C = {} PROVE FALSE
      <4>1. In(C) = {}
        BY <3>1
      <4>2. ~(SumFunctionOnSet(f, In(C)) <= SumFunctionOnSet(h, C))
        BY <1>1, <2>2
      <4> HIDE DEF In
      <4> QED BY <2>4, <3>1, <4>1, <4>2
    <3> QED BY <3>1
  <2>6. PICK c \in C : TRUE
    BY <2>5
  <2>7. PICK R : R = C \ {c}
    OBVIOUS
  <2>8. R \in SUBSET G /\ R # C /\ R \subseteq C /\ c \in G
    BY <2>3, <2>6, <2>7
  <2>9. PICK T : T = In(C)
    OBVIOUS
  <2>10. PICK P : P = {x \in S : m[x] = c}
    OBVIOUS
  <2>11. PICK Q : Q = In(R)
    OBVIOUS
  <2>12. P \in SUBSET T /\ T \ P = Q
    BY <2>6, <2>7, <2>9, <2>10, <2>11
  <2>13. SumFunctionOnSet(f, Q) <= SumFunctionOnSet(h, R)
    <3>1. R \notin B
      BY <2>2, <2>8
    <3> HIDE DEF In
    <3> QED BY <1>1, <2>8, <2>11, <3>1
  <2>14. IsFiniteSet(T) /\ (\A x \in T : f[x] \in Nat) /\ T \in SUBSET S
    BY <1>2, <2>9
  <2>15. /\ SumFunctionOnSet(f, P) \in Nat /\ SumFunctionOnSet(f, Q) \in Nat
         /\ SumFunctionOnSet(f, T) = SumFunctionOnSet(f, P) + SumFunctionOnSet(f, Q)
    <3>1. /\ SumFunctionOnSet(f, P) \in Nat /\ SumFunctionOnSet(f, T \ P) \in Nat
          /\ SumFunctionOnSet(f, T) = SumFunctionOnSet(f, P) + SumFunctionOnSet(f, T \ P)
      <4>1. IsFiniteSet(T)
        BY <2>14
      <4>2. \A x \in T : f[x] \in Nat
        BY <2>14
      <4>3. P \in SUBSET T
        BY <2>12
      <4> HIDE DEF In
      <4> QED BY ONLY <4>1, <4>2, <4>3, SumSplit
    <3> QED BY <2>12, <3>1
  <2>16. SumFunctionOnSet(f, P) <= h[c] /\ h[c] \in Nat
    BY <2>8, <2>10
  <2>17. SumFunctionOnSet(h, C) = h[c] + SumFunctionOnSet(h, R)
    <3>1. \A d \in C : h[d] \in Nat
      BY <2>3
    <3> QED BY <2>3, <2>6, <2>7, <3>1, SumRemove
  <2>18. SumFunctionOnSet(h, R) \in Nat
    BY <1>3, <2>8
  <2>19. SumFunctionOnSet(f, T) <= SumFunctionOnSet(h, C)
    BY <2>13, <2>15, <2>16, <2>17, <2>18
  <2> HIDE DEF In
  <2> QED BY <1>1, <2>2, <2>9, <2>19
<1>5. In(G) = S
  OBVIOUS
<1>6. G \notin B /\ G \in SUBSET G
  BY <1>4
<1> HIDE DEF In
<1> QED BY <1>1, <1>5, <1>6

=============================================================================
