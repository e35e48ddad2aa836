---------------------------- MODULE DataTheorems ----------------------------
(***************************************************************************)
(* Induction over data, and what sums over finite sets satisfy.            *)
(*                                                                         *)
(* The induction principles are stated with sets in place of predicates,   *)
(* so that a proof cites them like any other fact: one defines the set of  *)
(* values for which the claim holds, or fails.                             *)
(***************************************************************************)
EXTENDS Sums, FiniteSets, FiniteSetTheorems, WellFoundedInduction, TLAPS

\* A set of natural numbers that is not empty has a least element.
LEMMA LeastNatural ==
    ASSUME NEW T, T \in SUBSET Nat, T # {}
    PROVE  \E n \in T : \A m \in T : n <= m
<1> DEFINE R == OpToRel(<, Nat)
<1>1. IsWellFoundedOn(R, Nat)
  BY NatLessThanWellFounded
<1>2. R = {ss \in Nat \X Nat : ss[1] < ss[2]}
  BY DEF OpToRel
<1> HIDE DEF R
<1>3. \E x \in T : \A y \in T : ~ (<<y, x>> \in R)
  BY <1>1, WFMin
<1>4. \A x, y \in Nat : ~(<<y, x>> \in R) => x <= y
  BY <1>2
<1> QED BY <1>3, <1>4

\* Induction over the natural numbers: a set that has 0 and is closed under successor.
LEMMA NatClosed ==
    ASSUME NEW G, 0 \in G, \A k \in Nat : k \in G => k + 1 \in G
    PROVE  Nat \subseteq G
<1> SUFFICES ASSUME NEW k \in Nat, k \notin G PROVE FALSE
  OBVIOUS
<1> DEFINE Bad == {i \in Nat : i \notin G}
<1>1. PICK m \in Bad : \A i \in Bad : m <= i
  BY LeastNatural
<1>2. m # 0 /\ m - 1 \in Nat
  OBVIOUS
<1>3. m - 1 \in G
  BY <1>1, <1>2
<1> QED BY <1>1, <1>2, <1>3

-----------------------------------------------------------------------------
(* Subsets of a finite set *)

\* Taking an element away makes a finite set smaller.
LEMMA PickFrom ==
    ASSUME NEW S, IsFiniteSet(S), NEW T \in SUBSET S, T # {}
    PROVE  /\ Pick(T) \in T /\ Pick(T) \in S /\ T \ {Pick(T)} \in SUBSET S
           /\ Cardinality(T) \in Nat /\ Cardinality(T) > 0
           /\ Cardinality(T \ {Pick(T)}) = Cardinality(T) - 1
<1>1. Pick(T) \in T
  BY DEF Pick
<1>2. IsFiniteSet(T)
  BY FS_Subset
<1>3. Cardinality(T) \in Nat /\ Cardinality(T) # 0
  BY <1>2, FS_CardinalityType, FS_EmptySet
<1>4. Cardinality(T \ {Pick(T)}) = Cardinality(T) - 1
  BY <1>1, <1>2, FS_RemoveElement
<1> QED BY <1>1, <1>3, <1>4

\* A set of subsets with all that Pick builds from it
Closed(G, S) == \A T \in SUBSET S : T # {} /\ T \ {Pick(T)} \in G => T \in G

Sized(S, k) == {T \in SUBSET S : Cardinality(T) <= k}

\* The subsets of size k at most: from the empty set, one element at a time, to all of them.
LEMMA SizedFacts ==
    ASSUME NEW S, IsFiniteSet(S), NEW k \in Nat
    PROVE  /\ Sized(S, 0) = {{}} /\ Sized(S, k) \subseteq Sized(S, k + 1)
           /\ \A T \in Sized(S, k + 1) :
                T # {} => /\ T \in SUBSET S /\ Pick(T) \in S
                          /\ T \ {Pick(T)} \in Sized(S, k)
           /\ Cardinality(S) \in Nat /\ Sized(S, Cardinality(S)) = SUBSET S
<1>1. \A T \in SUBSET S : /\ IsFiniteSet(T) /\ Cardinality(T) \in Nat
                          /\ Cardinality(T) <= Cardinality(S)
  BY FS_Subset, FS_CardinalityType
<1>2. Sized(S, 0) = {{}}
  <2>1. \A T \in SUBSET S : Cardinality(T) <= 0 <=> T = {}
    BY <1>1, FS_EmptySet
  <2> QED BY <2>1 DEF Sized
<1>3. Sized(S, k) \subseteq Sized(S, k + 1)
  BY <1>1 DEF Sized
<1>4. ASSUME NEW T \in Sized(S, k + 1), T # {}
      PROVE  T \in SUBSET S /\ Pick(T) \in S /\ T \ {Pick(T)} \in Sized(S, k)
  <2>1. T \in SUBSET S /\ Cardinality(T) <= k + 1
    BY DEF Sized
  <2>2. /\ Pick(T) \in S /\ T \ {Pick(T)} \in SUBSET S /\ Cardinality(T) \in Nat
        /\ Cardinality(T \ {Pick(T)}) = Cardinality(T) - 1
    BY <1>4, <2>1, PickFrom
  <2>3. Cardinality(T \ {Pick(T)}) <= k
    BY <2>1, <2>2
  <2> QED BY <2>1, <2>2, <2>3 DEF Sized
<1>5. Cardinality(S) \in Nat /\ Sized(S, Cardinality(S)) = SUBSET S
  BY <1>1, FS_CardinalityType DEF Sized
<1> QED BY <1>2, <1>3, <1>4, <1>5

\* Induction over subsets, along the order in which Pick takes them apart.
LEMMA SubsetInduction ==
    ASSUME NEW S, IsFiniteSet(S), NEW G, {} \in G, Closed(G, S)
    PROVE  SUBSET S \subseteq G
<1> DEFINE N == {i \in Nat : Sized(S, i) \subseteq G}
<1>1. 0 \in N
  <2>1. Sized(S, 0) = {{}}
    BY SizedFacts
  <2> QED BY <2>1
<1>2. ASSUME NEW k \in Nat, k \in N PROVE k + 1 \in N
  <2>1. ASSUME NEW T \in Sized(S, k + 1) PROVE T \in G
    <3>1. CASE T = {}
      BY <3>1
    <3>2. CASE T # {}
      <4>1. T \in SUBSET S /\ T \ {Pick(T)} \in Sized(S, k)
        BY <3>2, SizedFacts
      <4>2. T \ {Pick(T)} \in G
        BY <1>2, <4>1
      <4> QED BY <3>2, <4>1, <4>2 DEF Closed
    <3> QED BY <3>1, <3>2
  <2> QED BY <2>1
<1> HIDE DEF N
<1>3. Nat \subseteq N
  BY <1>1, <1>2, NatClosed
<1>4. Cardinality(S) \in N /\ Sized(S, Cardinality(S)) = SUBSET S
  BY <1>3, SizedFacts, FS_CardinalityType
<1> QED BY <1>4 DEF N

-----------------------------------------------------------------------------
(* Sums *)

\* The equation that defines Total, and a table of its values for the sets in D
SumValue(f, n, T) == IF T = {} THEN 0 ELSE n[Pick(T)] + f[T \ {Pick(T)}]

IsTable(f, n, D) == f \in [D -> Int] /\ \A T \in D : f[T] = SumValue(f, n, T)

\* The recursive definition of Total has a solution.
LEMMA TableExists ==
    ASSUME NEW S, IsFiniteSet(S), NEW n \in [S -> Int]
    PROVE  \E f : IsTable(f, n, SUBSET S)
<1> DEFINE G == {i \in Nat : \E h : IsTable(h, n, Sized(S, i))}
<1>1. 0 \in G
  <2> DEFINE z == [T \in {{}} |-> 0]
  <2>1. IsTable(z, n, {{}})
    BY DEF IsTable, SumValue
  <2>2. Sized(S, 0) = {{}}
    BY SizedFacts
  <2> QED BY <2>1, <2>2
<1>2. ASSUME NEW k \in Nat, k \in G PROVE k + 1 \in G
  <2>1. PICK g : IsTable(g, n, Sized(S, k))
    BY <1>2
  <2> DEFINE h == [T \in Sized(S, k + 1) |-> SumValue(g, n, T)]
  <2>2. ASSUME NEW T \in Sized(S, k + 1)
        PROVE  h[T] \in Int /\ h[T] = SumValue(h, n, T)
    <3>1. CASE T = {}
      BY <3>1 DEF SumValue
    <3>2. CASE T # {}
      <4> DEFINE U == T \ {Pick(T)}
      <4>1. Pick(T) \in S /\ U \in Sized(S, k) /\ U \in Sized(S, k + 1)
        BY <3>2, SizedFacts
      <4> HIDE DEF U
      <4>2. g[U] \in Int /\ g[U] = SumValue(g, n, U)
        BY <2>1, <4>1 DEF IsTable
      <4>3. h[U] = SumValue(g, n, U)
        BY <4>1
      <4>4. n[Pick(T)] \in Int
        BY <4>1
      <4>5. h[T] = n[Pick(T)] + g[U]
        BY <3>2 DEF SumValue, U
      <4>6. SumValue(h, n, T) = n[Pick(T)] + h[U]
        BY <3>2 DEF SumValue, U
      <4> QED BY <4>2, <4>3, <4>4, <4>5, <4>6
    <3> QED BY <3>1, <3>2
  <2>3. IsTable(h, n, Sized(S, k + 1))
    <3>1. h \in [Sized(S, k + 1) -> Int]
      BY <2>2
    <3> HIDE DEF h
    <3> QED BY <2>2, <3>1 DEF IsTable
  <2> QED BY <2>3
<1> HIDE DEF G
<1>3. Nat \subseteq G
  BY <1>1, <1>2, NatClosed
<1>4. Cardinality(S) \in G /\ Sized(S, Cardinality(S)) = SUBSET S
  BY <1>3, SizedFacts, FS_CardinalityType
<1> QED BY <1>4 DEF G

\* Total is the entry for S of that table.
LEMMA SumTable ==
    ASSUME NEW S, IsFiniteSet(S), NEW n \in [S -> Int]
    PROVE  \E f : IsTable(f, n, SUBSET S) /\ Total(n, S) = f[S]
<1> DEFINE Eq(f) == f = [T \in SUBSET S |-> IF T = {} THEN 0 ELSE n[Pick(T)] + f[T \ {Pick(T)}]]
           c == CHOOSE f : Eq(f)
<1>1. Total(n, S) = c[S]
  BY DEF Total
<1>2. Eq(c)
  <2>1. PICK f : IsTable(f, n, SUBSET S)
    BY TableExists
  <2>2. Eq(f)
    BY <2>1 DEF IsTable, SumValue
  <2> HIDE DEF Eq
  <2> QED BY <2>2
<1> HIDE DEF c
<1>3. DOMAIN c = SUBSET S /\ \A T \in SUBSET S : c[T] = SumValue(c, n, T)
  BY <1>2 DEF SumValue
<1> DEFINE G == {T \in SUBSET S : c[T] \in Int}
<1>4. {} \in G
  <2>1. c[{}] = SumValue(c, n, {})
    BY <1>3
  <2>2. SumValue(c, n, {}) = 0
    BY DEF SumValue
  <2> QED BY <2>1, <2>2
<1>5. Closed(G, S)
  <2> SUFFICES ASSUME NEW T \in SUBSET S, T # {}, T \ {Pick(T)} \in G PROVE c[T] \in Int
    BY DEF Closed
  <2>1. n[Pick(T)] \in Int
    BY PickFrom
  <2>2. c[T] = n[Pick(T)] + c[T \ {Pick(T)}]
    BY <1>3 DEF SumValue
  <2> QED BY <2>1, <2>2
<1> HIDE DEF G
<1>6. SUBSET S \subseteq G
  BY <1>4, <1>5, SubsetInduction
<1>7. \A T \in SUBSET S : c[T] \in Int
  BY <1>6 DEF G
<1>8. c = [T \in SUBSET S |-> c[T]]
  BY <1>2
<1>9. c \in [SUBSET S -> Int]
  BY <1>7, <1>8
<1> QED BY <1>1, <1>3, <1>9 DEF IsTable

\* What the table says of the empty set, of a set, and of the set without one element
LEMMA TableEmpty ==
    ASSUME NEW S, NEW n, NEW f, IsTable(f, n, SUBSET S)
    PROVE  f[{}] = 0
<1>1. {} \in SUBSET S
  OBVIOUS
<1>2. f[{}] = SumValue(f, n, {})
  BY <1>1 DEF IsTable
<1> QED BY <1>2 DEF SumValue

\* The entries of the table are integers.
LEMMA TableType ==
    ASSUME NEW S, NEW n, NEW f, IsTable(f, n, SUBSET S), NEW T \in SUBSET S
    PROVE  f[T] \in Int
BY DEF IsTable

TakenApart(f, n, T) ==
  /\ n[Pick(T)] \in Int /\ f[T \ {Pick(T)}] \in Int
  /\ f[T] = n[Pick(T)] + f[T \ {Pick(T)}]

\* The entry of a set is that of the set without one element, and that element.
LEMMA TableStep ==
    ASSUME NEW S, IsFiniteSet(S), NEW n \in [S -> Int], NEW f, IsTable(f, n, SUBSET S),
           NEW T \in SUBSET S, T # {}
    PROVE  TakenApart(f, n, T)
<1>1. Pick(T) \in S /\ T \ {Pick(T)} \in SUBSET S
  BY PickFrom
<1>2. f[T] = SumValue(f, n, T)
  BY DEF IsTable
<1>3. f[T \ {Pick(T)}] \in Int
  BY <1>1, TableType
<1> QED BY <1>1, <1>2, <1>3 DEF SumValue, TakenApart

\* A sum of integers is an integer.
LEMMA SumType ==
    ASSUME NEW S, IsFiniteSet(S), NEW n \in [S -> Int]
    PROVE  Total(n, S) \in Int
<1>1. PICK f : IsTable(f, n, SUBSET S) /\ Total(n, S) = f[S]
  BY SumTable
<1>2. S \in SUBSET S
  OBVIOUS
<1>3. f[S] \in Int
  BY <1>1, <1>2, TableType
<1> QED BY <1>1, <1>3

\* Sums are added element by element.
LEMMA SumAdd ==
    ASSUME NEW S, IsFiniteSet(S), NEW m \in [S -> Int], NEW n \in [S -> Int],
           NEW k \in [S -> Int], \A x \in S : k[x] = m[x] + n[x]
    PROVE  Total(k, S) = Total(m, S) + Total(n, S)
<1>1. PICK f : IsTable(f, m, SUBSET S) /\ Total(m, S) = f[S]
  BY SumTable
<1>2. PICK g : IsTable(g, n, SUBSET S) /\ Total(n, S) = g[S]
  BY SumTable
<1>3. PICK h : IsTable(h, k, SUBSET S) /\ Total(k, S) = h[S]
  BY SumTable
<1> DEFINE G == {T \in SUBSET S : h[T] = f[T] + g[T]}
<1>4. {} \in G
  <2>1. f[{}] = 0 /\ g[{}] = 0 /\ h[{}] = 0
    BY <1>1, <1>2, <1>3, TableEmpty
  <2> QED BY <2>1
<1>5. Closed(G, S)
  <2> SUFFICES ASSUME NEW T \in SUBSET S, T # {}, T \ {Pick(T)} \in G PROVE h[T] = f[T] + g[T]
    BY DEF Closed
  <2> DEFINE U == T \ {Pick(T)}
             x == Pick(T)
  <2>1. m[x] \in Int /\ f[U] \in Int /\ f[T] = m[x] + f[U]
    <3>1. TakenApart(f, m, T)
      BY <1>1, TableStep
    <3> QED BY <3>1 DEF TakenApart
  <2>2. n[x] \in Int /\ g[U] \in Int /\ g[T] = n[x] + g[U]
    <3>1. TakenApart(g, n, T)
      BY <1>2, TableStep
    <3> QED BY <3>1 DEF TakenApart
  <2>3. h[T] = k[x] + h[U]
    <3>1. TakenApart(h, k, T)
      BY <1>3, TableStep
    <3> QED BY <3>1 DEF TakenApart
  <2>4. h[U] = f[U] + g[U] /\ k[x] = m[x] + n[x]
    BY PickFrom
  <2> HIDE DEF U, x
  <2> QED BY <2>1, <2>2, <2>3, <2>4
<1> HIDE DEF G
<1>6. S \in G
  BY <1>4, <1>5, SubsetInduction
<1> QED BY <1>1, <1>2, <1>3, <1>6 DEF G

\* A sum grows with its terms.
LEMMA SumMono ==
    ASSUME NEW S, IsFiniteSet(S), NEW m \in [S -> Int], NEW n \in [S -> Int],
           \A x \in S : m[x] <= n[x]
    PROVE  Total(m, S) <= Total(n, S)
<1>1. PICK f : IsTable(f, m, SUBSET S) /\ Total(m, S) = f[S]
  BY SumTable
<1>2. PICK g : IsTable(g, n, SUBSET S) /\ Total(n, S) = g[S]
  BY SumTable
<1> DEFINE G == {T \in SUBSET S : f[T] <= g[T]}
<1>4. {} \in G
  <2>1. f[{}] = 0 /\ g[{}] = 0
    BY <1>1, <1>2, TableEmpty
  <2> QED BY <2>1
<1>5. Closed(G, S)
  <2> SUFFICES ASSUME NEW T \in SUBSET S, T # {}, T \ {Pick(T)} \in G PROVE f[T] <= g[T]
    BY DEF Closed
  <2> DEFINE U == T \ {Pick(T)}
             x == Pick(T)
  <2>1. m[x] \in Int /\ f[U] \in Int /\ f[T] = m[x] + f[U]
    <3>1. TakenApart(f, m, T)
      BY <1>1, TableStep
    <3> QED BY <3>1 DEF TakenApart
  <2>2. n[x] \in Int /\ g[U] \in Int /\ g[T] = n[x] + g[U]
    <3>1. TakenApart(g, n, T)
      BY <1>2, TableStep
    <3> QED BY <3>1 DEF TakenApart
  <2>3. f[U] <= g[U] /\ m[x] <= n[x]
    BY PickFrom
  <2> HIDE DEF U, x
  <2> QED BY <2>1, <2>2, <2>3
<1> HIDE DEF G
<1>6. S \in G
  BY <1>4, <1>5, SubsetInduction
<1> QED BY <1>1, <1>2, <1>6 DEF G

\* A sum of ones counts.
LEMMA SumCounts ==
    ASSUME NEW S, IsFiniteSet(S), NEW A \in SUBSET S, NEW n \in [S -> Int],
           \A x \in S : n[x] = IF x \in A THEN 1 ELSE 0
    PROVE  Total(n, S) = Cardinality(A)
<1>1. PICK f : IsTable(f, n, SUBSET S) /\ Total(n, S) = f[S]
  BY SumTable
<1> DEFINE G == {T \in SUBSET S : f[T] = Cardinality(T \intersect A)}
<1>2. {} \in G
  <2>1. {} \intersect A = {} /\ f[{}] = 0
    BY <1>1, TableEmpty
  <2> QED BY <2>1, FS_EmptySet
<1>3. Closed(G, S)
  <2> SUFFICES ASSUME NEW T \in SUBSET S, T # {}, T \ {Pick(T)} \in G
               PROVE  f[T] = Cardinality(T \intersect A)
    BY DEF Closed
  <2> DEFINE U == T \ {Pick(T)}
             x == Pick(T)
  <2>0. x \in S /\ x \in T
    BY PickFrom
  <2>1. n[x] \in Int /\ f[U] \in Int /\ f[T] = n[x] + f[U]
    <3>1. TakenApart(f, n, T)
      BY <1>1, TableStep
    <3> QED BY <3>1 DEF TakenApart
  <2>2. f[U] = Cardinality(U \intersect A)
    OBVIOUS
  <2>3. U \intersect A = (T \intersect A) \ {x}
    OBVIOUS
  <2> HIDE DEF U, x
  <2>4. T \intersect A \in SUBSET S /\ IsFiniteSet(T \intersect A)
    BY FS_Subset
  <2>5. /\ Cardinality(T \intersect A) \in Nat
        /\ Cardinality((T \intersect A) \ {x})
             = IF x \in T \intersect A THEN Cardinality(T \intersect A) - 1
               ELSE Cardinality(T \intersect A)
    BY <2>4, FS_CardinalityType, FS_RemoveElement
  <2>6. n[x] = IF x \in A THEN 1 ELSE 0
    BY <2>0
  <2> DEFINE C == Cardinality(T \intersect A)
  <2>7. CASE x \in A
    <3>1. C \in Nat /\ f[U] = C - 1 /\ n[x] = 1
      BY <2>0, <2>2, <2>3, <2>5, <2>6, <2>7
    <3> HIDE DEF C
    <3>2. f[T] = C
      BY <2>1, <3>1
    <3> QED BY <3>2 DEF C
  <2>8. CASE x \notin A
    <3>1. C \in Nat /\ f[U] = C /\ n[x] = 0
      BY <2>0, <2>2, <2>3, <2>5, <2>6, <2>8
    <3> HIDE DEF C
    <3>2. f[T] = C
      BY <2>1, <3>1
    <3> QED BY <3>2 DEF C
  <2> QED BY <2>7, <2>8
<1> HIDE DEF G
<1>4. S \in G
  BY <1>2, <1>3, SubsetInduction
<1>5. S \intersect A = A
  OBVIOUS
<1> QED BY <1>1, <1>4, <1>5 DEF G

\* A sum of zeros is zero.
LEMMA SumZero ==
    ASSUME NEW S, IsFiniteSet(S), NEW n \in [S -> Int], \A x \in S : n[x] = 0
    PROVE  Total(n, S) = 0
<1>1. \A x \in S : n[x] = IF x \in {} THEN 1 ELSE 0
  OBVIOUS
<1>2. Total(n, S) = Cardinality({})
  BY <1>1, SumCounts
<1> QED BY <1>2, FS_EmptySet

\* A sum with one term that is not zero
LEMMA SumAlone ==
    ASSUME NEW S, IsFiniteSet(S), NEW n \in [S -> Int], NEW y \in S,
           \A z \in S \ {y} : n[z] = 0
    PROVE  Total(n, S) = n[y]
<1>1. PICK f : IsTable(f, n, SUBSET S) /\ Total(n, S) = f[S]
  BY SumTable
<1> DEFINE G == {T \in SUBSET S : f[T] = IF y \in T THEN n[y] ELSE 0}
<1>2. {} \in G
  <2>1. f[{}] = 0
    BY <1>1, TableEmpty
  <2> QED BY <2>1
<1>3. Closed(G, S)
  <2> SUFFICES ASSUME NEW T \in SUBSET S, T # {}, T \ {Pick(T)} \in G
               PROVE  f[T] = IF y \in T THEN n[y] ELSE 0
    BY DEF Closed
  <2> DEFINE U == T \ {Pick(T)}
             x == Pick(T)
  <2>1. n[x] \in Int /\ f[U] \in Int /\ f[T] = n[x] + f[U]
    <3>1. TakenApart(f, n, T)
      BY <1>1, TableStep
    <3> QED BY <3>1 DEF TakenApart
  <2>2. x \in T /\ x \in S
    BY PickFrom
  <2>3. f[U] = IF y \in U THEN n[y] ELSE 0
    OBVIOUS
  <2>4. y \in U <=> y \in T /\ y # x
    OBVIOUS
  <2> HIDE DEF U, x
  <2> QED BY <2>1, <2>2, <2>3, <2>4
<1> HIDE DEF G
<1>4. S \in G
  BY <1>2, <1>3, SubsetInduction
<1> QED BY <1>1, <1>4 DEF G

\* Adding d to one term adds d to the sum.
LEMMA SumPlus ==
    ASSUME NEW S, IsFiniteSet(S), NEW n \in [S -> Int], NEW k \in [S -> Int], NEW x \in S,
           NEW d \in Int, k[x] = n[x] + d, \A y \in S \ {x} : k[y] = n[y]
    PROVE  Total(k, S) = Total(n, S) + d
<1> DEFINE e == [y \in S |-> IF y = x THEN d ELSE 0]
<1>1. e \in [S -> Int] /\ e[x] = d /\ \A y \in S \ {x} : e[y] = 0
  OBVIOUS
<1>2. \A y \in S : k[y] = n[y] + e[y]
  OBVIOUS
<1> HIDE DEF e
<1>3. Total(e, S) = e[x]
  BY <1>1, SumAlone
<1>4. Total(k, S) = Total(n, S) + Total(e, S)
  BY <1>1, <1>2, SumAdd
<1> QED BY <1>1, <1>3, <1>4

\* A sum of natural numbers is a natural number.
LEMMA SumNat ==
    ASSUME NEW S, IsFiniteSet(S), NEW n \in [S -> Nat]
    PROVE  Total(n, S) \in Nat
<1> DEFINE z == [x \in S |-> 0]
<1>1. z \in [S -> Int] /\ n \in [S -> Int] /\ \A x \in S : z[x] = 0 /\ z[x] <= n[x]
  OBVIOUS
<1> HIDE DEF z
<1>2. Total(z, S) = 0 /\ Total(z, S) <= Total(n, S) /\ Total(n, S) \in Int
  BY <1>1, SumZero, SumMono, SumType
<1> QED BY <1>2

\* A sum of natural numbers is at least as large as each of them.
LEMMA SumAtLeast ==
    ASSUME NEW S, IsFiniteSet(S), NEW n \in [S -> Nat], NEW x \in S
    PROVE  n[x] <= Total(n, S)
<1> DEFINE e == [y \in S |-> IF y = x THEN n[x] ELSE 0]
<1>1. e \in [S -> Int] /\ n \in [S -> Int] /\ e[x] = n[x] /\ \A y \in S \ {x} : e[y] = 0
  OBVIOUS
<1>2. \A y \in S : e[y] <= n[y]
  OBVIOUS
<1> HIDE DEF e
<1>3. Total(e, S) = n[x] /\ Total(e, S) <= Total(n, S)
  BY <1>1, <1>2, SumAlone, SumMono
<1> QED BY <1>3
=============================================================================
