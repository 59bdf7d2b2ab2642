---------------------------- MODULE SumTheorems -----------------------------
(***************************************************************************)
(* What MapThenSumSet of the community modules computes over a finite set, *)
(* as the ledgers of Purchase and SaleLifecycle use it.  Each induction is *)
(* an argument from a smallest counterexample.                             *)
(***************************************************************************)
EXTENDS Integers, FiniteSetsExt, FiniteSetTheorems, WellFoundedInduction, TLAPS

\* The sum of f over S.
SumOver(f, S) == MapThenSumSet(LAMBDA i : f[i], S)

\* The element that is added first, and the equation the sum obeys at s.
First(s) == CHOOSE x \in s : TRUE
SumAt(g, f, s) == IF s = {} THEN 0 ELSE f[First(s)] + g[s \ {First(s)}]
IsSum(g, f, S) == g = [s \in SUBSET S |-> SumAt(g, f, s)]

\* A non-empty set of finite sets has one that includes no other.
LEMMA Smallest ==
  ASSUME NEW S, NEW Bad \in SUBSET FiniteSubsetsOf(S), Bad # {}
  PROVE  \E T \in Bad : \A U \in Bad : U \subseteq T => U = T
<1>1. PICK T \in Bad : \A U \in Bad : <<U, T>> \notin StrictSubsetOrdering(S)
  BY FS_StrictSubsetOrderingWellFounded, WFMin
<1>2. \A U \in Bad : U \subseteq T => U = T
  BY <1>1 DEF StrictSubsetOrdering, FiniteSubsetsOf
<1> QED
  BY <1>2

\* A non-empty set of natural numbers has a least element.
LEMMA Least ==
  ASSUME NEW Bad \in SUBSET Nat, Bad # {}
  PROVE  \E n \in Bad : \A m \in Bad : ~(m < n)
<1>1. PICK n \in Bad : \A m \in Bad : <<m, n>> \notin OpToRel(<, Nat)
  BY NatLessThanWellFounded, WFMin
<1>2. \A m \in Bad : ~(m < n)
  BY <1>1 DEF OpToRel
<1> QED
  BY <1>2

\* The recursion is well founded: some function obeys its equation.
LEMMA SumExists ==
  ASSUME NEW f, NEW S, IsFiniteSet(S)
  PROVE  \E g : IsSum(g, f, S)
<1> DEFINE Fits(g, n) == \A s \in SUBSET S : Cardinality(s) <= n => g[s] = SumAt(g, f, s)
           Fn(g) == g = [s \in SUBSET S |-> g[s]]
           Bad == {n \in Nat : ~\E g : Fn(g) /\ Fits(g, n)}
<1>0. \A s \in SUBSET S : IsFiniteSet(s) /\ Cardinality(s) \in Nat
  BY FS_Subset, FS_CardinalityType
<1>1. Bad = {}
  <2>1. SUFFICES ASSUME Bad # {} PROVE FALSE
    OBVIOUS
  <2>2. PICK n \in Bad : \A m \in Bad : ~(m < n)
    BY <2>1, Least
  <2>3. CASE n = 0
    <3> DEFINE g == [s \in SUBSET S |-> 0]
    <3>1. \A s \in SUBSET S : Cardinality(s) <= 0 => s = {}
      BY <1>0, FS_EmptySet
    <3>2. Fn(g) /\ Fits(g, 0)
      BY <3>1 DEF SumAt
    <3> QED
      BY <2>3, <3>2
  <2>4. CASE n > 0
    <3>1. n \in Nat
      OBVIOUS
    <3>a. n - 1 \in Nat /\ n - 1 < n
      BY <2>4, <3>1
    <3>b. n - 1 \notin Bad
      <4> HIDE DEF Bad
      <4> QED
        BY <2>2, <3>a
    <3>2. PICK h : Fn(h) /\ Fits(h, n - 1)
      BY <3>a, <3>b
    <3> DEFINE g == [s \in SUBSET S |-> SumAt(h, f, s)]
    <3> HIDE DEF Bad
    <3>3. \A s \in SUBSET S : s # {} =>
            First(s) \in s /\ s \ {First(s)} \in SUBSET S
            /\ Cardinality(s \ {First(s)}) = Cardinality(s) - 1
      BY <1>0, FS_RemoveElement DEF First
    <3>4. \A s \in SUBSET S : Cardinality(s) <= n - 1 => g[s] = h[s]
      BY <3>2
    <3>5. \A s \in SUBSET S : Cardinality(s) <= n => SumAt(h, f, s) = SumAt(g, f, s)
      <4> SUFFICES ASSUME NEW s \in SUBSET S, Cardinality(s) <= n, s # {}
                   PROVE  h[s \ {First(s)}] = g[s \ {First(s)}]
        BY DEF SumAt
      <4>1. Cardinality(s \ {First(s)}) <= n - 1
        BY <1>0, <3>1, <3>3
      <4> QED
        BY <3>3, <3>4, <4>1
    <3>6. Fn(g) /\ Fits(g, n)
      <4>1. Fn(g)
        OBVIOUS
      <4>2. Fits(g, n)
        BY <3>5
      <4> QED
        BY <4>1, <4>2
    <3> QED
      BY <3>1, <3>6, <2>2 DEF Bad
  <2> QED
    BY <2>2, <2>3, <2>4
<1>2. Cardinality(S) \in Nat /\ \A s \in SUBSET S : Cardinality(s) <= Cardinality(S)
  BY FS_CardinalityType, FS_Subset
<1>3. PICK g : Fn(g) /\ Fits(g, Cardinality(S))
  BY <1>1, <1>2
<1>4. \A s \in SUBSET S : g[s] = SumAt(g, f, s)
  BY <1>2, <1>3
<1>5. IsSum(g, f, S)
  BY <1>3, <1>4 DEF IsSum
<1> QED
  BY <1>5

\* Two such functions agree wherever both are defined.
LEMMA SumUnique ==
  ASSUME NEW f, NEW S, NEW T, NEW g, NEW h, IsSum(g, f, S), IsSum(h, f, T),
         NEW U, U \subseteq S, U \subseteq T, IsFiniteSet(U)
  PROVE  g[U] = h[U]
<1> DEFINE Bad == {s \in SUBSET U : g[s] # h[s]}
<1>1. Bad = {}
  <2>1. SUFFICES ASSUME Bad # {} PROVE FALSE
    OBVIOUS
  <2>2. Bad \in SUBSET FiniteSubsetsOf(U)
    BY FS_Subset DEF FiniteSubsetsOf
  <2>3. PICK s \in Bad : \A r \in Bad : r \subseteq s => r = s
    <3> HIDE DEF Bad
    <3> QED
      BY <2>1, <2>2, Smallest
  <2>4. g[s] = SumAt(g, f, s) /\ h[s] = SumAt(h, f, s)
    <3>1. s \in SUBSET S /\ s \in SUBSET T
      OBVIOUS
    <3> QED
      BY <3>1 DEF IsSum
  <2>5. s # {}
    BY <2>4 DEF SumAt
  <2>6. First(s) \in s
    BY <2>5 DEF First
  <2>7. g[s \ {First(s)}] = h[s \ {First(s)}]
    BY <2>3, <2>6
  <2> QED
    BY <2>4, <2>7 DEF SumAt
<1> QED
  BY <1>1

\* A sum is its first term and the sum of the rest.
LEMMA SumEquation ==
  ASSUME NEW f, NEW S, IsFiniteSet(S)
  PROVE  SumOver(f, S) = IF S = {} THEN 0
                         ELSE f[First(S)] + SumOver(f, S \ {First(S)})
<1> DEFINE G(T) == CHOOSE g : IsSum(g, f, T)
<1>1. \A T : SumOver(f, T) = G(T)[T]
  BY DEF SumOver, MapThenSumSet, MapThenFoldSet, IsSum, SumAt, First
<1>2. \A T : IsFiniteSet(T) => IsSum(G(T), f, T)
  BY SumExists
<1>3. CASE S = {}
  <2>1. IsSum(G(S), f, S)
    BY <1>2
  <2> HIDE DEF G
  <2>2. G(S)[S] = 0
    BY <1>3, <2>1 DEF IsSum, SumAt
  <2> QED
    BY <1>1, <1>3, <2>2
<1>4. CASE S # {}
  <2> DEFINE R == S \ {First(S)}
  <2>1. IsFiniteSet(R)
    BY FS_RemoveElement
  <2>2. IsSum(G(S), f, S) /\ IsSum(G(R), f, R)
    BY <1>2, <2>1
  <2> HIDE DEF G
  <2>3. G(S)[R] = G(R)[R]
    BY <2>1, <2>2, SumUnique
  <2>4. G(S)[S] = f[First(S)] + G(S)[R]
    BY <1>4, <2>2 DEF IsSum, SumAt
  <2> QED
    BY <1>1, <1>4, <2>3, <2>4
<1> QED
  BY <1>3, <1>4

\* The sum over the empty set.
LEMMA SumEmpty == ASSUME NEW f PROVE SumOver(f, {}) = 0
BY SumEquation, FS_EmptySet

\* Sums of integers are integers, of natural numbers natural.
LEMMA SumType ==
  ASSUME NEW f, NEW S, IsFiniteSet(S), NEW N \in {Nat, Int}, \A i \in S : f[i] \in N
  PROVE  SumOver(f, S) \in N
<1> DEFINE Bad == {T \in SUBSET S : SumOver(f, T) \notin N}
<1>1. Bad = {}
  <2>1. SUFFICES ASSUME Bad # {} PROVE FALSE
    OBVIOUS
  <2>2. Bad \in SUBSET FiniteSubsetsOf(S)
    BY FS_Subset DEF FiniteSubsetsOf
  <2>3. PICK T \in Bad : \A U \in Bad : U \subseteq T => U = T
    <3> HIDE DEF Bad
    <3> QED
      BY <2>1, <2>2, Smallest
  <2>4. T \in SUBSET S /\ IsFiniteSet(T) /\ SumOver(f, T) \notin N
    BY FS_Subset
  <2>5. T # {}
    BY <2>4, SumEmpty
  <2>6. First(T) \in T
    BY <2>5 DEF First
  <2>7. SumOver(f, T \ {First(T)}) \in N
    BY <2>3, <2>4, <2>6
  <2>8. SumOver(f, T) = f[First(T)] + SumOver(f, T \ {First(T)})
    BY <2>4, <2>5, SumEquation
  <2>9. f[First(T)] \in N
    BY <2>4, <2>6
  <2> QED
    BY <2>4, <2>7, <2>8, <2>9
<1> QED
  BY <1>1

\* Any element can be taken out of the sum.
LEMMA SumRemove ==
  ASSUME NEW f, NEW S, IsFiniteSet(S), \A i \in S : f[i] \in Int, NEW x \in S
  PROVE  SumOver(f, S) = f[x] + SumOver(f, S \ {x})
<1> DEFINE Bad == {T \in SUBSET S : \E y \in T : SumOver(f, T) # f[y] + SumOver(f, T \ {y})}
<1>1. Bad = {}
  <2>1. SUFFICES ASSUME Bad # {} PROVE FALSE
    OBVIOUS
  <2>2. Bad \in SUBSET FiniteSubsetsOf(S)
    BY FS_Subset DEF FiniteSubsetsOf
  <2>3. PICK T \in Bad : \A U \in Bad : U \subseteq T => U = T
    <3> HIDE DEF Bad
    <3> QED
      BY <2>1, <2>2, Smallest
  <2>4. PICK y \in T : SumOver(f, T) # f[y] + SumOver(f, T \ {y})
    OBVIOUS
  <2> DEFINE z == First(T)
  <2>5. T \in SUBSET S /\ IsFiniteSet(T) /\ z \in T
    BY FS_Subset DEF First
  <2>6. \A a : IsFiniteSet(T \ {a}) /\ T \ {a} \in SUBSET S
    BY <2>5, FS_RemoveElement
  <2>7. SumOver(f, T) = f[z] + SumOver(f, T \ {z})
    BY <2>5, SumEquation
  <2>8. y # z
    BY <2>4, <2>7
  <2>9. SumOver(f, T \ {z}) = f[y] + SumOver(f, (T \ {z}) \ {y})
    <3>1. T \ {z} \notin Bad
      BY <2>3, <2>5
    <3> QED
      BY <2>6, <2>8, <3>1
  <2>10. SumOver(f, T \ {y}) = f[z] + SumOver(f, (T \ {y}) \ {z})
    <3>1. T \ {y} \notin Bad
      BY <2>3
    <3> QED
      BY <2>5, <2>6, <2>8, <3>1
  <2>11. (T \ {z}) \ {y} = (T \ {y}) \ {z}
    OBVIOUS
  <2>12. f[y] \in Int /\ f[z] \in Int
    BY <2>5
  <2>13. SumOver(f, (T \ {y}) \ {z}) \in Int
    <3>1. IsFiniteSet((T \ {y}) \ {z})
      BY <2>6, FS_RemoveElement
    <3> QED
      BY <2>5, <3>1, SumType
  <2>14. SumOver(f, T) = f[z] + (f[y] + SumOver(f, (T \ {y}) \ {z}))
    BY <2>7, <2>9, <2>11
  <2>15. f[y] + SumOver(f, T \ {y}) = f[y] + (f[z] + SumOver(f, (T \ {y}) \ {z}))
    BY <2>10
  <2> HIDE DEF z
  <2>16. \A a, b, c \in Int : a + (b + c) = b + (a + c)
    OBVIOUS
  <2> QED
    BY <2>4, <2>12, <2>13, <2>14, <2>15, <2>16
<1> QED
  BY <1>1

\* ... or a new one put in.
LEMMA SumAdd ==
  ASSUME NEW f, NEW S, IsFiniteSet(S), NEW x, x \notin S, \A i \in S \cup {x} : f[i] \in Int
  PROVE  SumOver(f, S \cup {x}) = f[x] + SumOver(f, S)
<1>1. IsFiniteSet(S \cup {x}) /\ (S \cup {x}) \ {x} = S
  BY FS_AddElement
<1> QED
  BY <1>1, SumRemove

\* The sum over a single element.
LEMMA SumSingle ==
  ASSUME NEW f, NEW x, f[x] \in Int
  PROVE  SumOver(f, {x}) = f[x]
<1>1. SumOver(f, {x}) = f[x] + SumOver(f, {x} \ {x})
  BY SumRemove, FS_Singleton
<1>2. SumOver(f, {x} \ {x}) = 0
  <2>1. {x} \ {x} = {}
    OBVIOUS
  <2> QED
    BY <2>1, SumEmpty
<1> QED
  BY <1>1, <1>2

\* A sum looks at its own elements only.
LEMMA SumSame ==
  ASSUME NEW f, NEW g, NEW S, IsFiniteSet(S), \A i \in S : f[i] = g[i]
  PROVE  SumOver(f, S) = SumOver(g, S)
<1> DEFINE Bad == {T \in SUBSET S : SumOver(f, T) # SumOver(g, T)}
<1>1. Bad = {}
  <2>1. SUFFICES ASSUME Bad # {} PROVE FALSE
    OBVIOUS
  <2>2. Bad \in SUBSET FiniteSubsetsOf(S)
    BY FS_Subset DEF FiniteSubsetsOf
  <2>3. PICK T \in Bad : \A U \in Bad : U \subseteq T => U = T
    <3> HIDE DEF Bad
    <3> QED
      BY <2>1, <2>2, Smallest
  <2>4. T \in SUBSET S /\ IsFiniteSet(T) /\ SumOver(f, T) # SumOver(g, T)
    BY FS_Subset
  <2>5. T # {}
    BY <2>4, SumEmpty
  <2>6. First(T) \in T
    BY <2>5 DEF First
  <2>7. SumOver(f, T \ {First(T)}) = SumOver(g, T \ {First(T)})
    BY <2>3, <2>4, <2>6
  <2> QED
    BY <2>4, <2>5, <2>6, <2>7, SumEquation
<1> QED
  BY <1>1

\* Nothing adds up to nothing.
LEMMA SumZero ==
  ASSUME NEW f, NEW S, IsFiniteSet(S), \A i \in S : f[i] = 0
  PROVE  SumOver(f, S) = 0
<1> DEFINE Bad == {T \in SUBSET S : SumOver(f, T) # 0}
<1>1. Bad = {}
  <2>1. SUFFICES ASSUME Bad # {} PROVE FALSE
    OBVIOUS
  <2>2. Bad \in SUBSET FiniteSubsetsOf(S)
    BY FS_Subset DEF FiniteSubsetsOf
  <2>3. PICK T \in Bad : \A U \in Bad : U \subseteq T => U = T
    <3> HIDE DEF Bad
    <3> QED
      BY <2>1, <2>2, Smallest
  <2>4. T \in SUBSET S /\ IsFiniteSet(T) /\ SumOver(f, T) # 0
    BY FS_Subset
  <2>5. T # {}
    BY <2>4, SumEmpty
  <2>6. First(T) \in T
    BY <2>5 DEF First
  <2>7. SumOver(f, T \ {First(T)}) = 0
    BY <2>3, <2>4, <2>6
  <2>8. f[First(T)] = 0
    BY <2>4, <2>6
  <2> QED
    BY <2>4, <2>5, <2>7, <2>8, SumEquation
<1> QED
  BY <1>1

\* The sum of a pointwise sum.
LEMMA SumPlus ==
  ASSUME NEW f, NEW g, NEW h, NEW S, IsFiniteSet(S),
         \A i \in S : f[i] \in Int /\ g[i] \in Int /\ h[i] = f[i] + g[i]
  PROVE  SumOver(h, S) = SumOver(f, S) + SumOver(g, S)
<1> DEFINE Bad == {T \in SUBSET S : SumOver(h, T) # SumOver(f, T) + SumOver(g, T)}
<1>1. Bad = {}
  <2>1. SUFFICES ASSUME Bad # {} PROVE FALSE
    OBVIOUS
  <2>2. Bad \in SUBSET FiniteSubsetsOf(S)
    BY FS_Subset DEF FiniteSubsetsOf
  <2>3. PICK T \in Bad : \A U \in Bad : U \subseteq T => U = T
    <3> HIDE DEF Bad
    <3> QED
      BY <2>1, <2>2, Smallest
  <2>4. T \in SUBSET S /\ IsFiniteSet(T) /\ SumOver(h, T) # SumOver(f, T) + SumOver(g, T)
    BY FS_Subset
  <2>5. T # {}
    BY <2>4, SumEmpty
  <2> DEFINE z == First(T)
             R == T \ {z}
  <2>6. z \in T /\ IsFiniteSet(R)
    BY <2>4, <2>5, FS_RemoveElement DEF First
  <2>7. SumOver(h, R) = SumOver(f, R) + SumOver(g, R)
    BY <2>3, <2>4, <2>6
  <2>8. /\ SumOver(h, T) = h[z] + SumOver(h, R)
        /\ SumOver(f, T) = f[z] + SumOver(f, R)
        /\ SumOver(g, T) = g[z] + SumOver(g, R)
    BY <2>4, <2>5, SumEquation
  <2>9. SumOver(f, R) \in Int /\ SumOver(g, R) \in Int
    BY <2>4, <2>6, SumType
  <2>10. f[z] \in Int /\ g[z] \in Int /\ h[z] = f[z] + g[z]
    BY <2>4, <2>6
  <2> HIDE DEF z, R
  <2> QED
    BY <2>4, <2>7, <2>8, <2>9, <2>10
<1> QED
  BY <1>1

\* The sum over two sets that share nothing.
LEMMA SumUnion ==
  ASSUME NEW f, NEW S, NEW T, IsFiniteSet(S), IsFiniteSet(T), S \cap T = {},
         \A i \in S \cup T : f[i] \in Int
  PROVE  SumOver(f, S \cup T) = SumOver(f, S) + SumOver(f, T)
<1> DEFINE Bad == {U \in SUBSET T : SumOver(f, S \cup U) # SumOver(f, S) + SumOver(f, U)}
<1>0. SumOver(f, S) \in Int
  BY SumType
<1>1. Bad = {}
  <2>1. SUFFICES ASSUME Bad # {} PROVE FALSE
    OBVIOUS
  <2>2. Bad \in SUBSET FiniteSubsetsOf(T)
    BY FS_Subset DEF FiniteSubsetsOf
  <2>3. PICK U \in Bad : \A V \in Bad : V \subseteq U => V = U
    <3> HIDE DEF Bad
    <3> QED
      BY <2>1, <2>2, Smallest
  <2>4. U \in SUBSET T /\ IsFiniteSet(U) /\ SumOver(f, S \cup U) # SumOver(f, S) + SumOver(f, U)
    BY FS_Subset
  <2>5. U # {}
    <3>1. SumOver(f, S) + 0 = SumOver(f, S) /\ S \cup {} = S
      BY <1>0
    <3> QED
      BY <2>4, <3>1, SumEmpty
  <2>6. PICK z : z \in U
    BY <2>5
  <2> DEFINE R == U \ {z}
  <2>7. /\ IsFiniteSet(R) /\ IsFiniteSet(S \cup R) /\ IsFiniteSet(S \cup U)
        /\ (S \cup U) \ {z} = S \cup R /\ z \in S \cup U
    <3>1. IsFiniteSet(R)
      BY <2>4, FS_RemoveElement
    <3>2. IsFiniteSet(S \cup R) /\ IsFiniteSet(S \cup U)
      BY <2>4, <3>1, FS_Union
    <3>3. z \notin S
      BY <2>4, <2>6
    <3> QED
      BY <2>6, <3>1, <3>2, <3>3
  <2>8. SumOver(f, S \cup R) = SumOver(f, S) + SumOver(f, R)
    BY <2>3, <2>4, <2>6
  <2>9. SumOver(f, S \cup U) = f[z] + SumOver(f, S \cup R)
    BY <2>4, <2>7, SumRemove
  <2>10. SumOver(f, U) = f[z] + SumOver(f, R)
    BY <2>4, <2>6, SumRemove
  <2>11. SumOver(f, R) \in Int /\ f[z] \in Int
    BY <2>4, <2>6, <2>7, SumType
  <2> HIDE DEF R
  <2> QED
    BY <1>0, <2>4, <2>8, <2>9, <2>10, <2>11
<1> QED
  BY <1>1
=============================================================================
