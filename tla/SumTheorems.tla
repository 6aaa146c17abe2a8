----------------------------- MODULE SumTheorems -----------------------------
(***************************************************************************)
(* The sums of the community modules (SumFunctionOnSet: the sum of f[x] for *)
(* x in a finite set): they exist, and change with one element by its       *)
(* value. The proof is by induction over the finite set, in the first-order *)
(* form of FiniteSetInduction: a set of subsets that holds the empty one    *)
(* and, with a set, that set and one element more, holds the whole set. And *)
(* the folds over a sequence, whose steps stay in a set.                    *)
(***************************************************************************)
EXTENDS FiniteSetsExt, FiniteSetTheorems, WellFoundedInduction, TLAPS

\* A nonempty set of numbers has a least one.
LEMMA LeastNumber ==
  ASSUME NEW N, N \subseteq Nat, N # {}
  PROVE  \E n \in N : \A m \in N : n <= m
<1>1. PICK n \in N : \A m \in N : <<m, n>> \notin OpToRel(<, Nat)
  BY NatLessThanWellFounded, WFMin
<1>2. \A m \in N : ~(m < n)
  BY <1>1 DEF OpToRel
<1>3. QED
  BY <1>2

\* Induction over a finite set, without an operator parameter.
LEMMA FiniteSetInduction ==
  ASSUME NEW S, IsFiniteSet(S), NEW D, {} \in D,
         \A U \in SUBSET S : \A y \in S \ U : U \in D => U \cup {y} \in D
  PROVE  S \in D
<1> DEFINE Missing == {n \in Nat : \E U \in SUBSET S : Cardinality(U) = n /\ U \notin D}
<1>1. \A U \in SUBSET S : IsFiniteSet(U) /\ Cardinality(U) \in Nat
  BY FS_Subset, FS_CardinalityType
<1>2. SUFFICES Missing = {}
  BY <1>1
<1>3. SUFFICES ASSUME Missing # {} PROVE FALSE
  OBVIOUS
<1>4. PICK n \in Missing : \A m \in Missing : n <= m
  BY <1>3, LeastNumber
<1>5. PICK U \in SUBSET S : Cardinality(U) = n /\ U \notin D
  BY <1>4
<1>6. PICK y : y \in U
  BY <1>5
<1>7. /\ Cardinality(U \ {y}) = n - 1 /\ n - 1 \in Nat
      /\ U \ {y} \in SUBSET S /\ y \in S \ (U \ {y}) /\ (U \ {y}) \cup {y} = U
  <2>1. Cardinality(U \ {y}) = Cardinality(U) - 1
    BY <1>1, <1>6, FS_RemoveElement
  <2>2. U \ {y} \in SUBSET S /\ y \in S \ (U \ {y}) /\ (U \ {y}) \cup {y} = U
    BY <1>6
  <2>3. Cardinality(U \ {y}) \in Nat
    BY <1>1, <2>2
  <2>4. QED
    BY <1>5, <2>1, <2>2, <2>3
<1>8. n - 1 \notin Missing
  <2>1. \A m \in Missing : m \in Nat
    OBVIOUS
  <2> HIDE DEF Missing
  <2>2. QED
    BY <1>4, <2>1
<1>9. U \ {y} \in D
  BY <1>7, <1>8
<1>10. QED
  BY <1>5, <1>7, <1>9

-----------------------------------------------------------------------------
(* A function G that gives every part of S its sum.                         *)

IsSum(G, f, S) ==
  /\ G \in [SUBSET S -> Int]
  /\ G[{}] = 0
  /\ \A T \in SUBSET S : \A x \in T : G[T] = f[x] + G[T \ {x}]

\* The sum of a set with one element more.
LEMMA SumExtends ==
  ASSUME NEW V, NEW y, y \notin V, NEW f, \A x \in V \cup {y} : f[x] \in Int,
         NEW H, IsSum(H, f, V)
  PROVE  \E G : IsSum(G, f, V \cup {y})
<1> DEFINE U == V \cup {y}
           G == [T \in SUBSET U |-> IF y \in T THEN f[y] + H[T \ {y}] ELSE H[T]]
<1>1. /\ H \in [SUBSET V -> Int] /\ H[{}] = 0
      /\ \A T \in SUBSET V : \A x \in T : H[T] = f[x] + H[T \ {x}]
  BY DEF IsSum
<1>2. \A T \in SUBSET U : T \ {y} \in SUBSET V /\ (y \notin T => T \in SUBSET V)
  OBVIOUS
<1>3. \A T \in SUBSET U : G[T] = IF y \in T THEN f[y] + H[T \ {y}] ELSE H[T]
  OBVIOUS
<1>4. G \in [SUBSET U -> Int]
  <2>1. \A T \in SUBSET U : G[T] \in Int
    BY <1>1, <1>2, <1>3
  <2>2. QED
    BY <2>1
<1>5. G[{}] = 0
  BY <1>1, <1>3
<1>6. ASSUME NEW T \in SUBSET U, NEW x \in T PROVE G[T] = f[x] + G[T \ {x}]
  <2>1. T \ {x} \in SUBSET U /\ T \ {y} \in SUBSET V
    OBVIOUS
  <2>2. CASE x = y
    BY <2>1, <2>2, <1>3
  <2>3. CASE x # y /\ y \in T
    <3>1. x \in T \ {y} /\ (T \ {y}) \ {x} = (T \ {x}) \ {y} /\ y \in T \ {x}
      BY <2>3
    <3>2. H[T \ {y}] = f[x] + H[(T \ {x}) \ {y}]
      <4>1. H[T \ {y}] = f[x] + H[(T \ {y}) \ {x}]
        BY <1>1, <2>1, <3>1
      <4>2. QED
        BY <3>1, <4>1
    <3>3. G[T] = f[y] + H[T \ {y}] /\ G[T \ {x}] = f[y] + H[(T \ {x}) \ {y}]
      BY <1>3, <2>1, <2>3, <3>1
    <3>4. H[(T \ {x}) \ {y}] \in Int /\ f[x] \in Int /\ f[y] \in Int
      <4>1. (T \ {x}) \ {y} \in SUBSET V
        OBVIOUS
      <4>2. QED
        BY <1>1, <4>1
    <3> HIDE DEF G
    <3>5. QED
      BY <3>2, <3>3, <3>4
  <2>4. CASE y \notin T
    <3>1. T \in SUBSET V /\ T \ {x} \in SUBSET V /\ y \notin T \ {x}
      BY <2>4
    <3>2. QED
      BY <1>1, <1>3, <2>1, <2>4, <3>1
  <2>5. QED
    BY <2>2, <2>3, <2>4
<1>7. IsSum(G, f, U)
  BY <1>4, <1>5, <1>6 DEF IsSum
<1>8. QED
  BY <1>7

LEMMA SumExists ==
  ASSUME NEW S, IsFiniteSet(S), NEW f, \A x \in S : f[x] \in Int
  PROVE  \E G : IsSum(G, f, S)
<1> DEFINE D == {U \in SUBSET S : \E G : IsSum(G, f, U)}
<1>1. {} \in D
  <2> DEFINE G == [T \in SUBSET {} |-> 0]
  <2>1. IsSum(G, f, {})
    BY DEF IsSum
  <2>2. QED
    BY <2>1
<1>2. ASSUME NEW U \in SUBSET S, NEW y \in S \ U, U \in D
      PROVE  U \cup {y} \in D
  <2>1. PICK H : IsSum(H, f, U)
    BY <1>2
  <2>2. \E G : IsSum(G, f, U \cup {y})
    BY <2>1, SumExtends
  <2>3. QED
    BY <2>2
<1>3. S \in D
  <2> HIDE DEF D
  <2>1. QED
    BY <1>1, <1>2, FiniteSetInduction
<1>4. QED
  BY <1>3

\* H is computed the way the folds of the library are.
Computes(H, f, S) ==
  H = [s \in SUBSET S |->
         IF s = {} THEN 0
         ELSE f[CHOOSE x \in s : TRUE] + H[s \ {CHOOSE x \in s : TRUE}]]

LEMMA SumUnique ==
  ASSUME NEW S, IsFiniteSet(S), NEW f, NEW G, IsSum(G, f, S), NEW H, Computes(H, f, S)
  PROVE  H[S] = G[S]
<1> DEFINE Bad == {n \in Nat : \E U \in SUBSET S : Cardinality(U) = n /\ H[U] # G[U]}
<1>1. \A U \in SUBSET S : IsFiniteSet(U) /\ Cardinality(U) \in Nat
  BY FS_Subset, FS_CardinalityType
<1>2. SUFFICES ASSUME Bad # {} PROVE FALSE
  BY <1>1
<1>3. PICK n \in Bad : \A m \in Bad : n <= m
  BY <1>2, LeastNumber
<1>4. PICK U \in SUBSET S : Cardinality(U) = n /\ H[U] # G[U]
  BY <1>3
<1>5. U # {}
  <2>1. H[{}] = 0 /\ G[{}] = 0
    BY DEF IsSum, Computes
  <2>2. QED
    BY <1>4, <2>1
<1> DEFINE y == CHOOSE x \in U : TRUE
<1>6. y \in U
  BY <1>5
<1>7. H[U] = f[y] + H[U \ {y}]
  BY <1>5 DEF Computes
<1> HIDE DEF y
<1>8. Cardinality(U \ {y}) = n - 1 /\ n - 1 \in Nat /\ U \ {y} \in SUBSET S
  <2>1. Cardinality(U \ {y}) = Cardinality(U) - 1
    BY <1>1, <1>6, FS_RemoveElement
  <2>2. U \ {y} \in SUBSET S
    OBVIOUS
  <2>3. Cardinality(U \ {y}) \in Nat
    BY <1>1, <2>2
  <2>4. QED
    BY <1>4, <2>1, <2>2, <2>3
<1>9. n - 1 \notin Bad
  <2>1. \A m \in Bad : m \in Nat
    OBVIOUS
  <2> HIDE DEF Bad
  <2>2. QED
    BY <1>3, <2>1
<1>10. H[U \ {y}] = G[U \ {y}]
  BY <1>8, <1>9
<1>11. G[U] = f[y] + G[U \ {y}]
  BY <1>6 DEF IsSum
<1>12. QED
  BY <1>4, <1>7, <1>10, <1>11

LEMMA SumIs ==
  ASSUME NEW S, IsFiniteSet(S), NEW f, NEW G, IsSum(G, f, S)
  PROVE  SumFunctionOnSet(f, S) = G[S]
<1>1. Computes(G, f, S)
  <2>1. \A s \in SUBSET S : s # {} => (CHOOSE x \in s : TRUE) \in s
    OBVIOUS
  <2>2. QED
    BY <2>1 DEF IsSum, Computes
<1>2. ASSUME NEW H, Computes(H, f, S) PROVE H[S] = G[S]
  BY <1>2, SumUnique
<1>3. Computes(CHOOSE H : Computes(H, f, S), f, S)
  BY <1>1
<1>4. SumFunctionOnSet(f, S) = (CHOOSE H : Computes(H, f, S))[S]
  BY Zenon DEF SumFunctionOnSet, FoldFunctionOnSet, MapThenFoldSet, Computes
<1>5. QED
  BY <1>2, <1>3, <1>4

-----------------------------------------------------------------------------
(* What proofs use.                                                         *)

LEMMA SumEmpty == ASSUME NEW f PROVE SumFunctionOnSet(f, {}) = 0
<1>1. IsFiniteSet({}) /\ \A x \in {} : f[x] \in Int
  BY FS_EmptySet
<1>2. PICK G : IsSum(G, f, {})
  BY <1>1, SumExists, Zenon
<1>3. QED
  BY <1>1, <1>2, SumIs DEF IsSum

\* All sums of parts of one set, at once.
LEMMA SumOfParts ==
  ASSUME NEW S, IsFiniteSet(S), NEW f, \A x \in S : f[x] \in Int
  PROVE  \E G : IsSum(G, f, S) /\ \A T \in SUBSET S : SumFunctionOnSet(f, T) = G[T]
<1>1. PICK G : IsSum(G, f, S)
  BY SumExists
<1>2. ASSUME NEW T \in SUBSET S PROVE SumFunctionOnSet(f, T) = G[T]
  <2> DEFINE g == [U \in SUBSET T |-> G[U]]
  <2>1. IsSum(g, f, T)
    <3>1. \A U \in SUBSET T : U \in SUBSET S /\ g[U] = G[U] /\ \A x \in U : U \ {x} \in SUBSET T
      OBVIOUS
    <3>2. g \in [SUBSET T -> Int]
      BY <1>1 DEF IsSum
    <3> HIDE DEF g
    <3>3. QED
      BY <1>1, <3>1, <3>2 DEF IsSum
  <2>2. IsFiniteSet(T)
    BY FS_Subset
  <2>3. QED
    BY <2>1, <2>2, SumIs
<1>3. QED
  BY <1>1, <1>2

LEMMA SumType ==
  ASSUME NEW S, IsFiniteSet(S), NEW f, \A x \in S : f[x] \in Int
  PROVE  SumFunctionOnSet(f, S) \in Int
<1>1. PICK G : IsSum(G, f, S) /\ \A T \in SUBSET S : SumFunctionOnSet(f, T) = G[T]
  BY SumOfParts
<1>2. QED
  BY <1>1 DEF IsSum

LEMMA SumRemoves ==
  ASSUME NEW S, IsFiniteSet(S), NEW f, \A x \in S : f[x] \in Int, NEW y \in S
  PROVE  SumFunctionOnSet(f, S) = f[y] + SumFunctionOnSet(f, S \ {y})
<1>1. PICK G : IsSum(G, f, S) /\ \A T \in SUBSET S : SumFunctionOnSet(f, T) = G[T]
  BY SumOfParts
<1>2. S \in SUBSET S /\ S \ {y} \in SUBSET S
  OBVIOUS
<1>3. QED
  BY <1>1, <1>2 DEF IsSum

LEMMA SumAdds ==
  ASSUME NEW S, IsFiniteSet(S), NEW y, y \notin S, NEW f, \A x \in S \cup {y} : f[x] \in Int
  PROVE  SumFunctionOnSet(f, S \cup {y}) = f[y] + SumFunctionOnSet(f, S)
<1>1. IsFiniteSet(S \cup {y}) /\ (S \cup {y}) \ {y} = S
  BY FS_AddElement
<1>2. QED
  BY <1>1, SumRemoves

\* The sum depends on the values in the set only.
LEMMA SumOfEqual ==
  ASSUME NEW S, IsFiniteSet(S), NEW f, NEW g, \A x \in S : f[x] \in Int /\ g[x] = f[x]
  PROVE  SumFunctionOnSet(g, S) = SumFunctionOnSet(f, S)
<1>1. PICK G : IsSum(G, f, S)
  BY SumExists
<1>2. IsSum(G, g, S)
  BY <1>1 DEF IsSum
<1>3. QED
  BY <1>1, <1>2, SumIs

LEMMA SumChanges ==
  ASSUME NEW S, IsFiniteSet(S), NEW y \in S, NEW f, NEW g,
         \A x \in S : f[x] \in Int /\ g[x] \in Int, \A x \in S \ {y} : g[x] = f[x]
  PROVE  SumFunctionOnSet(g, S) = SumFunctionOnSet(f, S) - f[y] + g[y]
<1>1. IsFiniteSet(S \ {y})
  BY FS_RemoveElement
<1>2. SumFunctionOnSet(g, S \ {y}) = SumFunctionOnSet(f, S \ {y})
  BY <1>1, SumOfEqual
<1>3. SumFunctionOnSet(f, S \ {y}) \in Int
  BY <1>1, SumType
<1>4. /\ SumFunctionOnSet(f, S) = f[y] + SumFunctionOnSet(f, S \ {y})
      /\ SumFunctionOnSet(g, S) = g[y] + SumFunctionOnSet(g, S \ {y})
  BY SumRemoves
<1>5. QED
  BY <1>2, <1>3, <1>4

LEMMA SumGrows ==
  ASSUME NEW S, IsFiniteSet(S), NEW f, NEW g,
         \A x \in S : f[x] \in Int /\ g[x] \in Int /\ f[x] <= g[x]
  PROVE  SumFunctionOnSet(f, S) <= SumFunctionOnSet(g, S)
<1> DEFINE Below(U) == SumFunctionOnSet(f, U) <= SumFunctionOnSet(g, U)
           D == {U \in SUBSET S : Below(U)}
<1>1. {} \in D
  BY SumEmpty
<1>2. ASSUME NEW U \in SUBSET S, NEW y \in S \ U, U \in D PROVE U \cup {y} \in D
  <2>1. IsFiniteSet(U)
    BY FS_Subset
  <2>2. /\ SumFunctionOnSet(f, U \cup {y}) = f[y] + SumFunctionOnSet(f, U)
        /\ SumFunctionOnSet(g, U \cup {y}) = g[y] + SumFunctionOnSet(g, U)
    BY <2>1, SumAdds
  <2>3. SumFunctionOnSet(f, U) \in Int /\ SumFunctionOnSet(g, U) \in Int
    BY <2>1, SumType
  <2>4. QED
    BY <1>2, <2>2, <2>3
<1>3. S \in D
  <2> HIDE DEF D
  <2>1. QED
    BY <1>1, <1>2, FiniteSetInduction
<1>4. QED
  BY <1>3

\* Values that are not negative: a part sums to no more than the whole.
LEMMA SumOfPart ==
  ASSUME NEW S, IsFiniteSet(S), NEW f, \A x \in S : f[x] \in Nat, NEW T \in SUBSET S
  PROVE  SumFunctionOnSet(f, T) <= SumFunctionOnSet(f, S)
<1> DEFINE D == {U \in SUBSET (S \ T) : SumFunctionOnSet(f, T) <= SumFunctionOnSet(f, T \cup U)}
<1>1. {} \in D
  <2>1. T \cup {} = T /\ IsFiniteSet(T)
    BY FS_Subset
  <2>2. SumFunctionOnSet(f, T) \in Int
    BY <2>1, SumType
  <2>3. QED
    BY <2>1, <2>2
<1>2. ASSUME NEW U \in SUBSET (S \ T), NEW y \in (S \ T) \ U, U \in D
      PROVE  U \cup {y} \in D
  <2>1. /\ IsFiniteSet(T \cup U) /\ y \notin T \cup U
        /\ T \cup (U \cup {y}) = (T \cup U) \cup {y}
    <3>1. T \cup U \in SUBSET S
      OBVIOUS
    <3>2. QED
      BY <3>1, FS_Subset
  <2>2. SumFunctionOnSet(f, T \cup (U \cup {y})) = f[y] + SumFunctionOnSet(f, T \cup U)
    <3>1. \A x \in (T \cup U) \cup {y} : f[x] \in Int
      OBVIOUS
    <3>2. SumFunctionOnSet(f, (T \cup U) \cup {y}) = f[y] + SumFunctionOnSet(f, T \cup U)
      BY <2>1, <3>1, SumAdds
    <3>3. QED
      BY <2>1, <3>2
  <2>3. SumFunctionOnSet(f, T) \in Int /\ SumFunctionOnSet(f, T \cup U) \in Int
    <3>1. IsFiniteSet(T)
      BY FS_Subset
    <3>2. QED
      BY <2>1, <3>1, SumType
  <2>4. QED
    BY <1>2, <2>2, <2>3
<1>3. S \ T \in D
  <2>1. IsFiniteSet(S \ T)
    BY FS_Subset
  <2> HIDE DEF D
  <2>2. QED
    BY <1>1, <1>2, <2>1, FiniteSetInduction
<1>4. T \cup (S \ T) = S
  OBVIOUS
<1>5. QED
  BY <1>3, <1>4

\* The sum of the sums is the sum of the whole.
LEMMA SumOfSums ==
  ASSUME NEW S, IsFiniteSet(S), NEW f, NEW g, NEW h,
         \A x \in S : f[x] \in Int /\ g[x] \in Int /\ h[x] = f[x] + g[x]
  PROVE  SumFunctionOnSet(h, S) = SumFunctionOnSet(f, S) + SumFunctionOnSet(g, S)
<1>1. PICK F : IsSum(F, f, S)
  BY SumExists
<1>2. PICK G : IsSum(G, g, S)
  BY SumExists
<1> DEFINE H == [T \in SUBSET S |-> F[T] + G[T]]
<1>3. IsSum(H, h, S)
  <2>1. /\ F \in [SUBSET S -> Int] /\ F[{}] = 0
        /\ \A T \in SUBSET S : \A x \in T : F[T] = f[x] + F[T \ {x}]
    BY <1>1 DEF IsSum
  <2>2. /\ G \in [SUBSET S -> Int] /\ G[{}] = 0
        /\ \A T \in SUBSET S : \A x \in T : G[T] = g[x] + G[T \ {x}]
    BY <1>2 DEF IsSum
  <2>3. H \in [SUBSET S -> Int] /\ H[{}] = 0
    BY <2>1, <2>2
  <2>4. ASSUME NEW T \in SUBSET S, NEW x \in T PROVE H[T] = h[x] + H[T \ {x}]
    <3>1. /\ T \ {x} \in SUBSET S /\ x \in S
          /\ F[T] = f[x] + F[T \ {x}] /\ G[T] = g[x] + G[T \ {x}]
          /\ F[T \ {x}] \in Int /\ G[T \ {x}] \in Int
      BY <2>1, <2>2
    <3>2. H[T] = F[T] + G[T] /\ H[T \ {x}] = F[T \ {x}] + G[T \ {x}]
      BY <3>1
    <3> HIDE DEF H
    <3>3. QED
      BY <3>1, <3>2
  <2>5. QED
    BY <2>3, <2>4 DEF IsSum
<1>4. S \in SUBSET S
  OBVIOUS
<1>5. H[S] = F[S] + G[S]
  BY <1>4
<1> HIDE DEF H
<1>6. QED
  BY <1>1, <1>2, <1>3, <1>5, SumIs

\* What counts nothing may be left out.
LEMMA SumOfNonzero ==
  ASSUME NEW S, IsFiniteSet(S), NEW f, NEW T \in SUBSET S,
         \A x \in S : f[x] \in Int, \A x \in S \ T : f[x] = 0
  PROVE  SumFunctionOnSet(f, T) = SumFunctionOnSet(f, S)
<1>1. PICK F : IsSum(F, f, S) /\ \A U \in SUBSET S : SumFunctionOnSet(f, U) = F[U]
  BY SumOfParts
<1> DEFINE H == [U \in SUBSET S |-> F[U \cap T]]
<1>2. /\ F \in [SUBSET S -> Int] /\ F[{}] = 0
      /\ \A U \in SUBSET S : \A x \in U : F[U] = f[x] + F[U \ {x}]
  BY <1>1 DEF IsSum
<1>3. IsSum(H, f, S)
  <2>1. H \in [SUBSET S -> Int] /\ H[{}] = 0
    <3>1. {} \cap T = {} /\ \A U \in SUBSET S : U \cap T \in SUBSET S
      OBVIOUS
    <3>2. QED
      BY <1>2, <3>1
  <2>2. ASSUME NEW U \in SUBSET S, NEW x \in U PROVE H[U] = f[x] + H[U \ {x}]
    <3>1. H[U] = F[U \cap T] /\ H[U \ {x}] = F[(U \ {x}) \cap T] /\ F[U \cap T] \in Int
      BY <1>2
    <3>2. CASE x \in T
      <4>1. (U \ {x}) \cap T = (U \cap T) \ {x} /\ x \in U \cap T /\ U \cap T \in SUBSET S
        BY <3>2
      <4>2. F[U \cap T] = f[x] + F[(U \cap T) \ {x}]
        BY <1>2, <4>1
      <4>3. QED
        BY <3>1, <4>1, <4>2
    <3>3. CASE x \notin T
      <4>1. (U \ {x}) \cap T = U \cap T /\ f[x] = 0
        BY <3>3
      <4>2. H[U] \in Int /\ H[U \ {x}] = H[U]
        BY <3>1, <4>1, Zenon
      <4> HIDE DEF H
      <4>3. QED
        BY <4>1, <4>2
    <3>4. QED
      BY <3>2, <3>3
  <2>3. QED
    BY <2>1, <2>2 DEF IsSum
<1>4. H[S] = F[T]
  <2>1. S \cap T = T /\ S \in SUBSET S
    OBVIOUS
  <2>2. QED
    BY <2>1
<1> HIDE DEF H
<1>5. QED
  BY <1>1, <1>3, <1>4, SumIs

\* A common factor of the values is a factor of the sum.
LEMMA SumScaled ==
  ASSUME NEW S, IsFiniteSet(S), NEW c \in Int, NEW f, NEW g,
         \A x \in S : f[x] \in Int /\ g[x] = c * f[x]
  PROVE  SumFunctionOnSet(g, S) = c * SumFunctionOnSet(f, S)
<1>1. PICK F : IsSum(F, f, S)
  BY SumExists
<1> DEFINE G == [T \in SUBSET S |-> c * F[T]]
<1>2. IsSum(G, g, S)
  <2>1. /\ F \in [SUBSET S -> Int] /\ F[{}] = 0
        /\ \A T \in SUBSET S : \A x \in T : F[T] = f[x] + F[T \ {x}]
    BY <1>1 DEF IsSum
  <2>2. G \in [SUBSET S -> Int] /\ G[{}] = 0
    <3>1. \A T \in SUBSET S : F[T] \in Int
      BY <2>1
    <3>2. \A T \in SUBSET S : c * F[T] \in Int
      BY <3>1
    <3>3. {} \in SUBSET S /\ c * 0 = 0
      OBVIOUS
    <3>4. QED
      BY <2>1, <3>2, <3>3
  <2>3. ASSUME NEW T \in SUBSET S, NEW x \in T PROVE G[T] = g[x] + G[T \ {x}]
    <3>1. T \ {x} \in SUBSET S /\ x \in S
      OBVIOUS
    <3>2. /\ f[x] \in Int /\ F[T \ {x}] \in Int /\ g[x] = c * f[x]
          /\ F[T] = f[x] + F[T \ {x}]
      BY <2>1, <3>1
    <3>3. c * (f[x] + F[T \ {x}]) = c * f[x] + c * F[T \ {x}]
      BY <3>2
    <3>4. G[T] = c * F[T] /\ G[T \ {x}] = c * F[T \ {x}]
      BY <3>1
    <3> HIDE DEF G
    <3>5. QED
      BY <3>2, <3>3, <3>4
  <2> HIDE DEF G
  <2>4. QED
    BY <2>2, <2>3 DEF IsSum
<1>3. G[S] = c * F[S]
  OBVIOUS
<1> HIDE DEF G
<1>4. QED
  BY <1>1, <1>2, <1>3, SumIs

\* A sum that is not zero has a term of its sign.
LEMMA SumHasSign ==
  ASSUME NEW S, IsFiniteSet(S), NEW f, \A x \in S : f[x] \in Int
  PROVE  /\ SumFunctionOnSet(f, S) > 0 => \E x \in S : f[x] > 0
         /\ SumFunctionOnSet(f, S) < 0 => \E x \in S : f[x] < 0
<1> DEFINE g == [x \in S |-> 0]
<1>1. \A x \in S : g[x] = 0
  OBVIOUS
<1> HIDE DEF g
<1>2. SumFunctionOnSet(f, S) \in Int
  BY SumType
<1>3. SumFunctionOnSet(g, S) = 0 * SumFunctionOnSet(f, S)
  BY <1>1, SumScaled
<1>4. SumFunctionOnSet(g, S) = 0
  BY <1>2, <1>3
<1>5. ASSUME ~\E x \in S : f[x] > 0 PROVE SumFunctionOnSet(f, S) <= 0
  <2>1. \A x \in S : f[x] \in Int /\ g[x] \in Int /\ f[x] <= g[x]
    BY <1>1, <1>5
  <2>2. SumFunctionOnSet(f, S) <= SumFunctionOnSet(g, S)
    BY <2>1, SumGrows
  <2>3. QED
    BY <1>4, <2>2
<1>6. ASSUME ~\E x \in S : f[x] < 0 PROVE SumFunctionOnSet(f, S) >= 0
  <2>1. \A x \in S : g[x] \in Int /\ f[x] \in Int /\ g[x] <= f[x]
    BY <1>1, <1>6
  <2>2. SumFunctionOnSet(g, S) <= SumFunctionOnSet(f, S)
    BY <2>1, SumGrows
  <2>3. QED
    BY <1>2, <1>4, <2>2
<1>7. QED
  BY <1>2, <1>5, <1>6

\* The elements of T are grouped by a key in S; g has the sum of each group.
Grouped(f, T, key, S, g) ==
  /\ IsFiniteSet(T) /\ IsFiniteSet(S)
  /\ \A x \in T : f[x] \in Int /\ key[x] \in S
  /\ \A s \in S : g[s] = SumFunctionOnSet(f, {x \in T : key[x] = s})

\* The sum over groups of the sum of each group is the sum of the whole.
LEMMA SumRegrouped ==
  ASSUME NEW T, NEW f, NEW S, NEW key, NEW g, Grouped(f, T, key, S, g)
  PROVE  SumFunctionOnSet(g, S) = SumFunctionOnSet(f, T)
<1> DEFINE Group(U, s) == {x \in U : key[x] = s}
           G(U) == [s \in S |-> SumFunctionOnSet(f, Group(U, s))]
           Regrouped(U) == SumFunctionOnSet(G(U), S) = SumFunctionOnSet(f, U)
           D == {U \in SUBSET T : Regrouped(U)}
<1> USE DEF Grouped
<1>0. ASSUME NEW U \in SUBSET T, NEW s \in S
      PROVE  /\ G(U)[s] \in Int /\ G(U)[s] = SumFunctionOnSet(f, Group(U, s))
             /\ IsFiniteSet(Group(U, s)) /\ Group(U, s) \subseteq T
  <2>1. Group(U, s) \in SUBSET T
    OBVIOUS
  <2>2. IsFiniteSet(Group(U, s))
    BY <2>1, FS_Subset
  <2>3. SumFunctionOnSet(f, Group(U, s)) \in Int
    <3>1. \A x \in Group(U, s) : f[x] \in Int
      OBVIOUS
    <3> HIDE DEF Group
    <3>2. QED
      BY <2>2, <3>1, SumType
  <2>4. QED
    BY <2>1, <2>2, <2>3
<1>1. {} \in D
  <2>1. SumFunctionOnSet(f, {}) = 0
    BY SumEmpty
  <2>2. \A s \in S : Group({}, s) = {}
    OBVIOUS
  <2>3. \A s \in S : G({})[s] = 0
    BY <2>1, <2>2
  <2> DEFINE h == G({})
  <2>4. \A s \in S : h[s] \in Int /\ h[s] = 0 * h[s]
    BY <2>3
  <2>5. SumFunctionOnSet(h, S) = 0 * SumFunctionOnSet(h, S) /\ SumFunctionOnSet(h, S) \in Int
    <3> HIDE DEF h
    <3>1. SumFunctionOnSet(h, S) \in Int
      BY <2>4, SumType
    <3>2. SumFunctionOnSet(h, S) = 0 * SumFunctionOnSet(h, S)
      <4>1. 0 \in Int
        OBVIOUS
      <4>2. QED
        BY <2>4, <4>1, SumScaled
    <3>3. QED
      BY <3>1, <3>2
  <2>6. SumFunctionOnSet(h, S) = 0
    <3> HIDE DEF h
    <3>1. QED
      BY <2>5
  <2>7. Regrouped({})
    BY <2>1, <2>6
  <2> HIDE DEF Regrouped
  <2>8. QED
    BY <2>7
<1>2. ASSUME NEW U \in SUBSET T, NEW y \in T \ U, U \in D PROVE U \cup {y} \in D
  <2> DEFINE V == U \cup {y}
             old == G(U)
             new == G(V)
             k == key[y]
  <2>1. IsFiniteSet(U) /\ V \in SUBSET T /\ k \in S /\ f[y] \in Int
    BY FS_Subset
  <2>2. ASSUME NEW s \in S
        PROVE  /\ old[s] \in Int /\ new[s] \in Int
               /\ s # k => new[s] = old[s]
               /\ s = k => new[s] = old[s] + f[y]
    <3>1. old[s] \in Int /\ new[s] \in Int
      BY <1>0, <2>1
    <3>2. CASE s # k
      <4>1. Group(V, s) = Group(U, s)
        BY <3>2
      <4>2. QED
        BY <3>1, <3>2, <4>1
    <3>3. CASE s = k
      <4>1. Group(V, s) = Group(U, s) \cup {y} /\ y \notin Group(U, s)
        BY <3>3
      <4>2. IsFiniteSet(Group(U, s)) /\ Group(U, s) \subseteq T
        BY <1>0
      <4>3. SumFunctionOnSet(f, Group(V, s)) = f[y] + SumFunctionOnSet(f, Group(U, s))
        <5>1. \A x \in Group(U, s) \cup {y} : f[x] \in Int
          BY <4>2
        <5> HIDE DEF Group, V
        <5>2. QED
          BY <4>1, <4>2, <5>1, SumAdds
      <4>4. old[s] = SumFunctionOnSet(f, Group(U, s)) /\ new[s] = SumFunctionOnSet(f, Group(V, s))
        OBVIOUS
      <4> HIDE DEF old, new, Group, V
      <4>5. QED
        BY <2>1, <3>1, <3>3, <4>3, <4>4
    <3>4. QED
      BY <3>1, <3>2, <3>3
  <2>3. SumFunctionOnSet(new, S) = SumFunctionOnSet(old, S) - old[k] + new[k]
    <3> HIDE DEF old, new, k
    <3>1. /\ \A s \in S : old[s] \in Int /\ new[s] \in Int
          /\ \A s \in S \ {k} : new[s] = old[s]
      BY <2>2
    <3>2. QED
      BY <2>1, <3>1, SumChanges
  <2>4. SumFunctionOnSet(f, V) = f[y] + SumFunctionOnSet(f, U)
    BY <2>1, SumAdds
  <2>5. SumFunctionOnSet(old, S) = SumFunctionOnSet(f, U)
    BY <1>2
  <2>6. SumFunctionOnSet(old, S) \in Int
    <3> HIDE DEF old
    <3>1. QED
      BY <2>2, SumType
  <2>7. old[k] \in Int /\ new[k] = old[k] + f[y]
    <3> HIDE DEF old, new, k
    <3>1. QED
      BY <2>1, <2>2
  <2>8. SumFunctionOnSet(new, S) = SumFunctionOnSet(f, V)
    <3> HIDE DEF old, new, k, V
    <3>1. QED
      BY <2>1, <2>3, <2>4, <2>5, <2>6, <2>7
  <2>9. QED
    BY <2>1, <2>8
<1>3. T \in D
  <2> HIDE DEF D
  <2>1. QED
    BY <1>1, <1>2, FiniteSetInduction
<1>4. SumFunctionOnSet(G(T), S) = SumFunctionOnSet(f, T)
  BY <1>3
<1>5. \A s \in S : G(T)[s] = g[s] /\ g[s] \in Int
  <2>1. T \in SUBSET T
    OBVIOUS
  <2>2. \A s \in S : G(T)[s] = g[s]
    OBVIOUS
  <2>3. QED
    BY <1>0, <2>1, <2>2
<1>6. SumFunctionOnSet(G(T), S) = SumFunctionOnSet(g, S)
  <2> DEFINE h == G(T)
  <2>1. \A s \in S : g[s] \in Int /\ h[s] = g[s]
    BY <1>5
  <2> HIDE DEF h
  <2>2. SumFunctionOnSet(h, S) = SumFunctionOnSet(g, S)
    BY <2>1, SumOfEqual
  <2>3. QED
    BY <2>2 DEF h
<1>7. QED
  BY <1>4, <1>6

-----------------------------------------------------------------------------
(* Folds over a sequence (FoldLeft), whose operator is given as a function  *)
(* of what there is so far and of the next element: they exist, and stay in *)
(* a set that every step stays in.                                          *)

\* The latest of the first n positions.
LEMMA MaxOfPositions ==
  ASSUME NEW n \in Nat, NEW T \in SUBSET (1..n), T # {}
  PROVE  Max(T) \in T /\ \A x \in T : x <= Max(T)
<1> DEFINE U == {k \in Nat : \A x \in T : x <= k}
<1>1. n \in U
  OBVIOUS
<1>2. PICK k \in U : \A l \in U : k <= l
  BY <1>1, LeastNumber
<1>3. k \in T
  <2>1. SUFFICES ASSUME k \notin T PROVE FALSE
    OBVIOUS
  <2>2. \A x \in T : x \in Nat /\ x >= 1 /\ x <= k /\ x # k
    BY <1>2, <2>1
  <2>3. k >= 1 /\ k \in Nat
    <3>1. PICK x : x \in T
      OBVIOUS
    <3>2. x \in Nat /\ x >= 1 /\ x <= k /\ k \in Nat
      BY <1>2, <2>2, <3>1
    <3>3. QED
      BY <3>2
  <2>4. k - 1 \in U
    BY <2>2, <2>3
  <2>5. QED
    BY <1>2, <2>3, <2>4
<1>4. \E x \in T : \A y \in T : x >= y
  BY <1>2, <1>3
<1>5. QED
  <2>1. Max(T) \in T /\ \A y \in T : Max(T) >= y
    BY <1>4 DEF Max
  <2>2. QED
    BY <2>1

\* A function G that folds every set of positions of m, the latest position last.
IsFold(G, step, start, m, n) ==
  G = [T \in SUBSET (1..n) |->
         IF T = {} THEN start ELSE step[G[T \ {Max(T)}]][m[Max(T)]]]

LEMMA FoldExtends ==
  ASSUME NEW n \in Nat, NEW m, NEW start, NEW step, NEW F, IsFold(F, step, start, m, n)
  PROVE  \E G : IsFold(G, step, start, m, n + 1)
<1> DEFINE G == [T \in SUBSET (1..n + 1) |->
                   IF n + 1 \in T THEN step[F[T \ {n + 1}]][m[n + 1]] ELSE F[T]]
<1>1. \A T \in SUBSET (1..n) :
        F[T] = IF T = {} THEN start ELSE step[F[T \ {Max(T)}]][m[Max(T)]]
  BY Zenon DEF IsFold
<1>2. \A T \in SUBSET (1..n + 1) : /\ T \ {n + 1} \in SUBSET (1..n)
                                   /\ n + 1 \notin T => T \in SUBSET (1..n)
  OBVIOUS
<1>3. \A T \in SUBSET (1..n + 1) :
        G[T] = IF n + 1 \in T THEN step[F[T \ {n + 1}]][m[n + 1]] ELSE F[T]
  BY Zenon
<1>4. ASSUME NEW T \in SUBSET (1..n + 1)
      PROVE  G[T] = IF T = {} THEN start ELSE step[G[T \ {Max(T)}]][m[Max(T)]]
  <2> HIDE DEF G
  <2>1. CASE n + 1 \in T
    <3>1. Max(T) = n + 1
      <4>1. /\ Max(T) \in T /\ n + 1 <= Max(T)
            /\ Max(T) \in 1..n + 1
        <5>1. n + 1 \in Nat /\ T # {}
          BY <2>1
        <5>2. Max(T) \in T /\ \A x \in T : x <= Max(T)
          BY <5>1, MaxOfPositions
        <5>3. QED
          BY <2>1, <5>2
      <4>2. QED
        BY <4>1
    <3>2. T \ {n + 1} \in SUBSET (1..n + 1) /\ n + 1 \notin T \ {n + 1} /\ T # {}
      BY <2>1
    <3>3. G[T \ {n + 1}] = F[T \ {n + 1}]
      BY <1>3, <3>2, Zenon
    <3>4. G[T] = step[F[T \ {n + 1}]][m[n + 1]]
      BY <1>3, <2>1, Zenon
    <3>5. QED
      BY <3>1, <3>2, <3>3, <3>4, Zenon
  <2>2. CASE n + 1 \notin T
    <3>1. T \in SUBSET (1..n) /\ T \ {Max(T)} \in SUBSET (1..n + 1)
          /\ n + 1 \notin T \ {Max(T)}
      BY <1>2, <2>2
    <3>2. G[T] = F[T] /\ G[T \ {Max(T)}] = F[T \ {Max(T)}]
      BY <1>3, <2>2, <3>1, Zenon
    <3>3. QED
      BY <1>1, <3>1, <3>2, Zenon
  <2>3. QED
    BY <2>1, <2>2
<1>5. G = [T \in SUBSET (1..n + 1) |->
             IF T = {} THEN start ELSE step[G[T \ {Max(T)}]][m[Max(T)]]]
  <2>1. G = [T \in SUBSET (1..n + 1) |-> G[T]]
    BY Zenon
  <2> HIDE DEF G
  <2>2. QED
    BY <1>4, <2>1, Zenon
<1>6. IsFold(G, step, start, m, n + 1)
  BY <1>5, Zenon DEF IsFold
<1>7. QED
  BY <1>6

LEMMA FoldExists ==
  ASSUME NEW n \in Nat, NEW m, NEW start, NEW step
  PROVE  \E F : IsFold(F, step, start, m, n)
<1> DEFINE Lacks == {k \in Nat : ~\E F : IsFold(F, step, start, m, k)}
<1>1. SUFFICES ASSUME Lacks # {} PROVE FALSE
  OBVIOUS
<1>2. PICK k \in Lacks : \A l \in Lacks : k <= l
  BY <1>1, LeastNumber
<1>3. k # 0
  <2> DEFINE F == [T \in SUBSET (1..0) |-> start]
  <2>1. \A T \in SUBSET (1..0) : T = {}
    OBVIOUS
  <2>2. F = [T \in SUBSET (1..0) |->
               IF T = {} THEN start ELSE step[F[T \ {Max(T)}]][m[Max(T)]]]
    BY <2>1, Zenon
  <2>3. IsFold(F, step, start, m, 0)
    BY <2>2, Zenon DEF IsFold
  <2> HIDE DEF F
  <2>4. QED
    BY <2>3
<1>4. k - 1 \in Nat /\ k - 1 < k /\ k - 1 + 1 = k
  BY <1>3
<1>5. PICK F : IsFold(F, step, start, m, k - 1)
  <2>1. k - 1 \notin Lacks
    BY <1>2, <1>4
  <2>2. QED
    BY <1>4, <2>1
<1>6. \E G : IsFold(G, step, start, m, k - 1 + 1)
  BY <1>4, <1>5, FoldExtends
<1>7. QED
  BY <1>2, <1>4, <1>6

\* What holds before the first position and is kept at each holds after the last.
LEMMA FoldStays ==
  ASSUME NEW n \in Nat, NEW F, NEW Q, F[{}] \in Q,
         \A k \in 1..n : F[1..(k - 1)] \in Q => F[1..k] \in Q
  PROVE  F[1..n] \in Q
<1> DEFINE Bad == {k \in Nat : k <= n /\ F[1..k] \notin Q}
<1>1. SUFFICES ASSUME Bad # {} PROVE FALSE
  OBVIOUS
<1>2. PICK k \in Bad : \A l \in Bad : k <= l
  BY <1>1, LeastNumber
<1>3. k # 0
  <2>1. 1..0 = {}
    OBVIOUS
  <2>2. F[1..0] \in Q
    BY <2>1
  <2>3. QED
    BY <1>2, <2>2
<1>4. k \in 1..n /\ k - 1 \in Nat /\ k - 1 <= n /\ k - 1 < k
  BY <1>2, <1>3
<1>5. F[1..(k - 1)] \in Q
  BY <1>2, <1>4
<1>6. QED
  BY <1>2, <1>4, <1>5

LEMMA LastOfFirst ==
  ASSUME NEW n \in Nat, NEW k \in 1..n
  PROVE  /\ 1..k \in SUBSET (1..n) /\ 1..k # {}
         /\ Max(1..k) = k /\ (1..k) \ {k} = 1..(k - 1)
<1>1. k \in Nat /\ 1 <= k /\ k <= n
  OBVIOUS
<1>2. 1..k \in SUBSET (1..n) /\ k \in 1..k /\ 1..k # {}
  BY <1>1
<1>3. (1..k) \ {k} = 1..(k - 1)
  BY <1>1
<1>4. Max(1..k) = k
  <2>1. Max(1..k) \in 1..k /\ k <= Max(1..k)
    BY <1>2, MaxOfPositions
  <2>2. QED
    BY <1>1, <2>1
<1>5. QED
  BY <1>2, <1>3, <1>4

\* A fold of n elements of R, from start, by steps that stay in Q.
LEMMA FoldIn ==
  ASSUME NEW n \in Nat, NEW m, NEW R, \A k \in 1..n : m[k] \in R,
         NEW Q, NEW start \in Q, NEW step, \A x \in Q : \A i \in R : step[x][i] \in Q
  PROVE  \E G : /\ IsFold(G, step, start, m, n)
                /\ \A T \in SUBSET (1..n) : G[T] \in Q
<1>1. PICK G : IsFold(G, step, start, m, n)
  BY FoldExists
<1>2. \A T \in SUBSET (1..n) :
        G[T] = IF T = {} THEN start ELSE step[G[T \ {Max(T)}]][m[Max(T)]]
  BY <1>1, Zenon DEF IsFold
<1> DEFINE Bad == {k \in Nat : \E T \in SUBSET (1..n) : T \subseteq 1..k /\ G[T] \notin Q}
<1>3. SUFFICES ASSUME Bad # {} PROVE FALSE
  <2>1. Bad = {}
    BY <1>3
  <2>2. \A T \in SUBSET (1..n) : G[T] \in Q
    BY <2>1
  <2>3. QED
    BY <1>1, <2>2
<1>4. PICK k \in Bad : \A l \in Bad : k <= l
  BY <1>3, LeastNumber
<1>5. PICK T \in SUBSET (1..n) : T \subseteq 1..k /\ G[T] \notin Q
  BY <1>4
<1>6. T # {}
  BY <1>2, <1>5, Zenon
<1>7. Max(T) \in T /\ \A x \in T : x <= Max(T)
  BY <1>6, MaxOfPositions
<1>8. Max(T) \in 1..k /\ Max(T) \in 1..n
  BY <1>5, <1>7
<1> DEFINE rest == T \ {Max(T)}
<1>9. rest \in SUBSET (1..n) /\ rest \subseteq 1..(k - 1) /\ k - 1 \in Nat /\ k - 1 < k
  <2>1. k \in Nat /\ Max(T) \in Nat /\ Max(T) <= k /\ Max(T) >= 1
    BY <1>4, <1>8
  <2>2. ASSUME NEW x \in rest PROVE x \in 1..(k - 1)
    <3>1. x \in Nat /\ x >= 1 /\ x < Max(T)
      BY <1>5, <1>7, <2>1
    <3>2. QED
      BY <2>1, <3>1
  <2>3. rest \in SUBSET (1..n)
    OBVIOUS
  <2> HIDE DEF rest
  <2>4. rest \subseteq 1..(k - 1)
    BY <2>2
  <2>5. QED
    BY <2>1, <2>3, <2>4
<1>10. G[rest] \in Q
  <2>1. k - 1 \notin Bad
    <3>1. k \in Nat
      BY <1>4
    <3> HIDE DEF Bad
    <3>2. QED
      BY <1>4, <1>9, <3>1
  <2>2. QED
    BY <1>9, <2>1
<1>11. G[T] = step[G[rest]][m[Max(T)]]
  BY <1>2, <1>6, Zenon
<1>12. QED
  BY <1>5, <1>8, <1>10, <1>11
=============================================================================
