---------------------------- MODULE SumTheorems ----------------------------
(* Facts about SumFunctionOnSet for any function and any finite set.  What *)
(* the library's fold computes is shown by minimal counterexamples, for    *)
(* the induction theorems take an operator.                                *)
EXTENDS Integers, FiniteSets, Functions, FiniteSetTheorems, WellFoundedInduction, TLAPS

(* A set of subsets that has every set of whose strict subsets it has all, *)
(* has them all.                                                           *)
LEMMA SubsetInduction ==
  ASSUME NEW S, IsFiniteSet(S), NEW G,
         \A T \in SUBSET S : (\A U \in SUBSET T : U # T => U \in G) => T \in G
  PROVE  SUBSET S \subseteq G
<1> DEFINE Bad == (SUBSET S) \ G
<1>1. SUFFICES ASSUME Bad # {} PROVE FALSE
  OBVIOUS
<1>2. IsWellFoundedOn(StrictSubsetOrdering(S), SUBSET S)
  BY FS_StrictSubsetOrderingWellFounded, FS_FiniteSubsetsOfFinite
<1>3. Bad \subseteq SUBSET S
  OBVIOUS
<1>4. PICK T \in Bad : \A U \in Bad : <<U, T>> \notin StrictSubsetOrdering(S)
  <2>. HIDE DEF Bad
  <2>. QED  BY <1>1, <1>2, <1>3, WFMin
<1>5. ASSUME NEW U \in SUBSET T, U # T PROVE U \in G
  <2>1. U \in SUBSET S /\ T \in SUBSET S
    BY <1>3, <1>4
  <2>2. <<U, T>> \in StrictSubsetOrdering(S)
    <3>. HIDE DEF Bad
    <3>. QED  BY <2>1, <1>5 DEF StrictSubsetOrdering
  <2>. QED  BY <2>1, <2>2, <1>4
<1>. QED  BY <1>4, <1>5

-----------------------------------------------------------------------------
(* The function that the fold recurs by *)

SumBody(f, sum, T) ==
  IF T = {} THEN 0
  ELSE LET x == CHOOSE x \in T : TRUE IN f[x] + sum[T \ {x}]
IsSum(f, S, sum) == sum = [T \in SUBSET S |-> SumBody(f, sum, T)]
SumOf(f, S) == CHOOSE sum : IsSum(f, S, sum)

LEMMA SumIsFold ==
  ASSUME NEW f, NEW S
  PROVE  SumFunctionOnSet(f, S) = SumOf(f, S)[S]
BY SMT DEF SumFunctionOnSet, FoldFunctionOnSet, MapThenFoldSet, SumOf, IsSum, SumBody

LEMMA SumUnique ==
  ASSUME NEW f, NEW S, IsFiniteSet(S), NEW A, NEW B, S \subseteq A, S \subseteq B,
         NEW g, NEW h, IsSum(f, A, g), IsSum(f, B, h)
  PROVE  g[S] = h[S]
<1> DEFINE G == {T \in SUBSET S : g[T] = h[T]}
<1>1. ASSUME NEW T \in SUBSET S
      PROVE  g[T] = SumBody(f, g, T) /\ h[T] = SumBody(f, h, T)
  BY DEF IsSum
<1>2. ASSUME NEW T \in SUBSET S, \A U \in SUBSET T : U # T => U \in G
      PROVE  T \in G
  <2>1. CASE T = {}
    BY <1>1, <2>1 DEF SumBody
  <2>2. CASE T # {}
    <3> DEFINE x == CHOOSE x \in T : TRUE
    <3>1. x \in T
      BY <2>2
    <3>2. g[T \ {x}] = h[T \ {x}]
      BY <1>2, <3>1
    <3>. QED  BY <1>1, <2>2, <3>2 DEF SumBody
  <2>. QED  BY <2>1, <2>2
<1>3. SUBSET S \subseteq G
  <2>. HIDE DEF G
  <2>. QED  BY <1>2, SubsetInduction
<1>. QED  BY <1>3

LEMMA SumExists ==
  ASSUME NEW f, NEW S, IsFiniteSet(S)
  PROVE  IsSum(f, S, SumOf(f, S))
<1> DEFINE G == {T \in SUBSET S : IsSum(f, T, SumOf(f, T))}
<1>1. ASSUME NEW T \in SUBSET S, \A U \in SUBSET T : U # T => U \in G
      PROVE  T \in G
  <2> DEFINE part == [U \in SUBSET T |-> SumOf(f, U)[U]]
             sum == [U \in SUBSET T |-> SumBody(f, part, U)]
  <2>1. ASSUME NEW U \in SUBSET T, U # T
        PROVE  sum[U] = part[U]
    <3>1. IsSum(f, U, SumOf(f, U))
      BY <1>1, <2>1
    <3>2. part[U] = SumBody(f, SumOf(f, U), U)
      BY <3>1 DEF IsSum
    <3>3. CASE U = {}
      BY <3>2, <3>3 DEF SumBody
    <3>4. CASE U # {}
      <4> DEFINE x == CHOOSE x \in U : TRUE
      <4>1. x \in U
        BY <3>4
      <4>2. /\ U \ {x} \in SUBSET T /\ U \ {x} \subseteq U
            /\ U \ {x} # T /\ IsFiniteSet(U \ {x})
        BY <4>1, FS_Subset
      <4>3. IsSum(f, U \ {x}, SumOf(f, U \ {x}))
        BY <1>1, <4>2
      <4>4. SumOf(f, U \ {x})[U \ {x}] = SumOf(f, U)[U \ {x}]
        <5>. HIDE DEF x
        <5>. QED  BY <3>1, <4>2, <4>3, SumUnique
      <4>5. part[U \ {x}] = SumOf(f, U)[U \ {x}]
        BY <4>2, <4>4
      <4>6. sum[U] = f[x] + part[U \ {x}]
        BY <3>4 DEF SumBody
      <4>7. part[U] = f[x] + SumOf(f, U)[U \ {x}]
        BY <3>2, <3>4 DEF SumBody
      <4>. QED  BY <4>5, <4>6, <4>7
    <3>. QED  BY <3>3, <3>4
  <2>2. ASSUME NEW U \in SUBSET T
        PROVE  SumBody(f, sum, U) = SumBody(f, part, U)
    <3>1. CASE U = {}
      BY <3>1 DEF SumBody
    <3>2. CASE U # {}
      <4> DEFINE x == CHOOSE x \in U : TRUE
      <4>1. x \in U
        BY <3>2
      <4>2. sum[U \ {x}] = part[U \ {x}]
        <5>1. U \ {x} \in SUBSET T /\ U \ {x} # T
          BY <4>1
        <5>. HIDE DEF sum, part, x
        <5>. QED  BY <2>1, <5>1
      <4>. HIDE DEF sum, part
      <4>. QED  BY <3>2, <4>2 DEF SumBody
    <3>. QED  BY <3>1, <3>2
  <2>3. IsSum(f, T, sum)
    BY <2>2 DEF IsSum
  <2>4. IsSum(f, T, SumOf(f, T))
    <3>. HIDE DEF sum
    <3>. QED  BY <2>3 DEF SumOf
  <2>. QED  BY <2>4
<1>2. SUBSET S \subseteq G
  <2>. HIDE DEF G
  <2>. QED  BY <1>1, SubsetInduction
<1>. QED  BY <1>2
-----------------------------------------------------------------------------
(* What a sum is *)

LEMMA SumEmpty ==
  ASSUME NEW f
  PROVE  SumFunctionOnSet(f, {}) = 0
<1>1. IsSum(f, {}, SumOf(f, {}))
  BY FS_EmptySet, SumExists
<1>2. SumOf(f, {})[{}] = 0
  BY <1>1 DEF IsSum, SumBody
<1>. QED  BY <1>2, SumIsFold

LEMMA SumStep ==
  ASSUME NEW f, NEW S, IsFiniteSet(S), S # {}
  PROVE  \E x \in S : SumFunctionOnSet(f, S) = f[x] + SumFunctionOnSet(f, S \ {x})
<1> DEFINE x == CHOOSE x \in S : TRUE
           R == S \ {x}
<1>1. x \in S /\ IsFiniteSet(R) /\ R \subseteq S
  BY FS_Subset
<1>2. IsSum(f, S, SumOf(f, S)) /\ IsSum(f, R, SumOf(f, R))
  <2>. HIDE DEF R
  <2>. QED  BY <1>1, SumExists
<1>3. SumOf(f, S)[S] = f[x] + SumOf(f, S)[R]
  BY <1>2 DEF IsSum, SumBody
<1>4. SumOf(f, S)[R] = SumOf(f, R)[R]
  <2>. HIDE DEF R
  <2>. QED  BY <1>1, <1>2, SumUnique
<1>5. /\ SumFunctionOnSet(f, S) = SumOf(f, S)[S]
      /\ SumFunctionOnSet(f, R) = SumOf(f, R)[R]
  BY SumIsFold
<1>. QED  BY <1>1, <1>3, <1>4, <1>5

(* The sum of integers is one, and so of natural numbers.                  *)
LEMMA SumType ==
  ASSUME NEW Num \in {Int, Nat}, NEW f, NEW S, IsFiniteSet(S), \A x \in S : f[x] \in Num
  PROVE  SumFunctionOnSet(f, S) \in Num
<1> DEFINE G == {T \in SUBSET S : SumFunctionOnSet(f, T) \in Num}
<1>1. ASSUME NEW T \in SUBSET S, \A U \in SUBSET T : U # T => U \in G
      PROVE  T \in G
  <2>1. CASE T = {}
    BY <2>1, SumEmpty
  <2>2. CASE T # {}
    <3>1. IsFiniteSet(T)
      BY FS_Subset
    <3>2. PICK x \in T : SumFunctionOnSet(f, T) = f[x] + SumFunctionOnSet(f, T \ {x})
      BY <2>2, <3>1, SumStep
    <3>3. SumFunctionOnSet(f, T \ {x}) \in Num
      BY <1>1, <3>2
    <3>. QED  BY <3>2, <3>3
  <2>. QED  BY <2>1, <2>2
<1>2. SUBSET S \subseteq G
  <2>. HIDE DEF G
  <2>. QED  BY <1>1, SubsetInduction
<1>. QED  BY <1>2

(* Any element may be the one that is added last.                          *)
LEMMA SumRemove ==
  ASSUME NEW f, NEW S, IsFiniteSet(S), \A x \in S : f[x] \in Int, NEW y \in S
  PROVE  SumFunctionOnSet(f, S) = f[y] + SumFunctionOnSet(f, S \ {y})
<1> DEFINE V(T) == SumFunctionOnSet(f, T)
           G == {T \in SUBSET S : \A z \in T : V(T) = f[z] + V(T \ {z})}
<1>1. ASSUME NEW T \in SUBSET S, \A U \in SUBSET T : U # T => U \in G
      PROVE  T \in G
  <2>1. ASSUME NEW z \in T PROVE V(T) = f[z] + V(T \ {z})
    <3>1. IsFiniteSet(T)
      BY FS_Subset
    <3>2. PICK x \in T : V(T) = f[x] + V(T \ {x})
      BY <3>1, SumStep
    <3>3. CASE x = z
      BY <3>2, <3>3
    <3>4. CASE x # z
      <4> DEFINE R == (T \ {x}) \ {z}
      <4>1. R = (T \ {z}) \ {x}
        OBVIOUS
      <4>2. T \ {x} \in G /\ T \ {z} \in G
        <5>. HIDE DEF G
        <5>. QED  BY <1>1, <3>2
      <4>3. V(T \ {x}) = f[z] + V(R)
        BY <3>4, <4>2
      <4>4. V(T \ {z}) = f[x] + V(R)
        BY <3>4, <4>1, <4>2
      <4>5. V(R) \in Int
        <5>1. R \subseteq S
          OBVIOUS
        <5>2. IsFiniteSet(R)
          BY <5>1, FS_Subset
        <5>3. \A r \in R : f[r] \in Int
          BY <5>1
        <5>. HIDE DEF R
        <5>. QED  BY <5>2, <5>3, SumType
      <4>6. f[x] \in Int /\ f[z] \in Int
        OBVIOUS
      <4>. HIDE DEF R, V
      <4>. QED  BY <3>2, <4>3, <4>4, <4>5, <4>6
    <3>. QED  BY <3>3, <3>4
  <2>. QED  BY <2>1
<1>2. SUBSET S \subseteq G
  <2>. HIDE DEF G
  <2>. QED  BY <1>1, SubsetInduction
<1>. QED  BY <1>2

LEMMA SumAdd ==
  ASSUME NEW f, NEW S, IsFiniteSet(S), NEW y, y \notin S, \A x \in S \cup {y} : f[x] \in Int
  PROVE  SumFunctionOnSet(f, S \cup {y}) = f[y] + SumFunctionOnSet(f, S)
<1>1. IsFiniteSet(S \cup {y})
  BY FS_AddElement
<1>2. (S \cup {y}) \ {y} = S
  OBVIOUS
<1>. QED  BY <1>1, <1>2, SumRemove

LEMMA SumSingle ==
  ASSUME NEW f, NEW y, f[y] \in Int
  PROVE  SumFunctionOnSet(f, {y}) = f[y]
<1>1. SumFunctionOnSet(f, {} \cup {y}) = f[y] + SumFunctionOnSet(f, {})
  BY SumAdd, FS_EmptySet
<1>2. {} \cup {y} = {y}
  OBVIOUS
<1>. QED  BY <1>1, <1>2, SumEmpty

(* Only the values on the set matter.                                      *)
LEMMA SumSame ==
  ASSUME NEW f, NEW g, NEW S, IsFiniteSet(S), \A x \in S : f[x] = g[x]
  PROVE  SumFunctionOnSet(f, S) = SumFunctionOnSet(g, S)
<1> DEFINE h == [T \in SUBSET S |-> SumOf(g, S)[T]]
<1>1. IsSum(f, S, SumOf(f, S)) /\ IsSum(g, S, SumOf(g, S))
  BY SumExists
<1>2. \A T \in SUBSET S : SumBody(f, SumOf(g, S), T) = SumBody(g, SumOf(g, S), T)
  BY DEF SumBody
<1>3. IsSum(f, S, SumOf(g, S))
  BY <1>1, <1>2 DEF IsSum
<1>4. SumOf(f, S)[S] = SumOf(g, S)[S]
  BY <1>1, <1>3, SumUnique
<1>. QED  BY <1>4, SumIsFold

(* A sum of sums.                                                          *)
LEMMA SumPointwise ==
  ASSUME NEW f, NEW g, NEW h, NEW S, IsFiniteSet(S),
         \A x \in S : f[x] \in Int /\ g[x] \in Int /\ h[x] = f[x] + g[x]
  PROVE  SumFunctionOnSet(h, S) = SumFunctionOnSet(f, S) + SumFunctionOnSet(g, S)
<1> DEFINE V(k, T) == SumFunctionOnSet(k, T)
           G == {T \in SUBSET S : V(h, T) = V(f, T) + V(g, T)}
<1>1. ASSUME NEW T \in SUBSET S, \A U \in SUBSET T : U # T => U \in G
      PROVE  T \in G
  <2>1. CASE T = {}
    BY <2>1, SumEmpty
  <2>2. CASE T # {}
    <3>1. PICK x \in T : TRUE
      BY <2>2
    <3> DEFINE R == T \ {x}
    <3>2. /\ IsFiniteSet(T) /\ IsFiniteSet(R)
          /\ \A y \in T : f[y] \in Int /\ g[y] \in Int /\ h[y] \in Int /\ h[y] = f[y] + g[y]
      BY FS_Subset
    <3>3. /\ V(f, T) = f[x] + V(f, R) /\ V(g, T) = g[x] + V(g, R)
          /\ V(h, T) = h[x] + V(h, R)
      <4>. HIDE DEF G
      <4>. QED  BY <3>2, SumRemove
    <3>4. V(f, R) \in Int /\ V(g, R) \in Int
      <4>1. \A y \in R : f[y] \in Int /\ g[y] \in Int
        BY <3>2
      <4>. HIDE DEF R
      <4>. QED  BY <3>2, <4>1, SumType
    <3>5. V(h, R) = V(f, R) + V(g, R)
      BY <1>1
    <3>. HIDE DEF V, R
    <3>6. V(h, T) = V(f, T) + V(g, T)
      BY <3>2, <3>3, <3>4, <3>5
    <3>. QED  BY <3>6 DEF V
  <2>. QED  BY <2>1, <2>2
<1>2. SUBSET S \subseteq G
  <2>. HIDE DEF G
  <2>. QED  BY <1>1, SubsetInduction
<1>. QED  BY <1>2

(* The sum over a set in two parts.                                        *)
LEMMA SumParts ==
  ASSUME NEW f, NEW S, IsFiniteSet(S), \A x \in S : f[x] \in Int, NEW P \in SUBSET S
  PROVE  SumFunctionOnSet(f, S) = SumFunctionOnSet(f, P) + SumFunctionOnSet(f, S \ P)
<1> DEFINE V(T) == SumFunctionOnSet(f, T)
           G == {T \in SUBSET P : V(S \ (P \ T)) = V(T) + V(S \ P)}
<1>1. \A T \in SUBSET S : IsFiniteSet(T) /\ V(T) \in Int
  BY FS_Subset, SumType
<1>2. ASSUME NEW T \in SUBSET P, \A U \in SUBSET T : U # T => U \in G
      PROVE  T \in G
  <2>1. CASE T = {}
    <3>1. S \ (P \ T) = S \ P
      BY <2>1
    <3>2. V(T) = 0
      BY <2>1, SumEmpty
    <3>3. V(S \ P) \in Int
      BY <1>1
    <3>. QED  BY <3>1, <3>2, <3>3
  <2>2. CASE T # {}
    <3>1. PICK x \in T : TRUE
      BY <2>2
    <3> DEFINE A == S \ (P \ T)
               R == T \ {x}
    <3>2. A \ {x} = S \ (P \ R)
      OBVIOUS
    <3>3. x \in A /\ A \in SUBSET S /\ T \in SUBSET S /\ R \in SUBSET S /\ R \in SUBSET T /\ R # T
      OBVIOUS
    <3>4. f[x] \in Int /\ V(R) \in Int /\ V(S \ P) \in Int
      BY <1>1, <3>3
    <3>5. V(A \ {x}) = V(R) + V(S \ P)
      BY <1>2, <3>2, <3>3
    <3>6. V(A) = f[x] + V(A \ {x}) /\ V(T) = f[x] + V(R)
      <4>. HIDE DEF A, G
      <4>. QED  BY <1>1, <3>3, SumRemove
    <3>7. V(A) = V(T) + V(S \ P)
      <4>. HIDE DEF V, A, R, G
      <4>. QED  BY <1>1, <3>3, <3>4, <3>5, <3>6
    <3>. QED  BY <3>7
  <2>. QED  BY <2>1, <2>2
<1>3. IsFiniteSet(P)
  BY FS_Subset
<1>4. SUBSET P \subseteq G
  <2>. HIDE DEF G
  <2>. QED  BY <1>2, <1>3, SubsetInduction
<1>5. P \in G
  BY <1>4
<1>6. S \ (P \ P) = S
  OBVIOUS
<1>. QED  BY <1>5, <1>6

(* One value changes.                                                      *)
LEMMA SumChange ==
  ASSUME NEW f, NEW g, NEW S, IsFiniteSet(S), NEW y \in S,
         \A x \in S : f[x] \in Int /\ g[x] \in Int, \A x \in S \ {y} : g[x] = f[x]
  PROVE  SumFunctionOnSet(g, S) = (SumFunctionOnSet(f, S) - f[y]) + g[y]
<1> DEFINE R == S \ {y}
<1>1. IsFiniteSet(R) /\ \A x \in R : f[x] \in Int /\ g[x] \in Int /\ g[x] = f[x]
  BY FS_Subset
<1>2. /\ SumFunctionOnSet(f, S) = f[y] + SumFunctionOnSet(f, R)
      /\ SumFunctionOnSet(g, S) = g[y] + SumFunctionOnSet(g, R)
  BY SumRemove
<1>. HIDE DEF R
<1>3. SumFunctionOnSet(g, R) = SumFunctionOnSet(f, R) /\ SumFunctionOnSet(f, R) \in Int
  BY <1>1, SumSame, SumType
<1>. QED  BY <1>2, <1>3

(* The same values under other names.                                      *)
LEMMA SumRenamed ==
  ASSUME NEW f, NEW g, NEW S, IsFiniteSet(S), NEW name,
         \A x \in S : g[name[x]] \in Int /\ f[x] = g[name[x]],
         \A x, y \in S : name[x] = name[y] => x = y
  PROVE  SumFunctionOnSet(f, S) = SumFunctionOnSet(g, {name[x] : x \in S})
<1> DEFINE Names(T) == {name[x] : x \in T}
           G == {T \in SUBSET S : IsFiniteSet(Names(T))
                   /\ SumFunctionOnSet(f, T) = SumFunctionOnSet(g, Names(T))}
<1>1. ASSUME NEW T \in SUBSET S, \A U \in SUBSET T : U # T => U \in G
      PROVE  T \in G
  <2>1. CASE T = {}
    <3>1. Names(T) = {}
      BY <2>1
    <3>. QED  BY <2>1, <3>1, SumEmpty, FS_EmptySet
  <2>2. CASE T # {}
    <3>1. PICK x \in T : TRUE
      BY <2>2
    <3> DEFINE R == T \ {x}
    <3>2. R \in G
      BY <1>1
    <3>3. Names(T) = Names(R) \cup {name[x]} /\ name[x] \notin Names(R)
      OBVIOUS
    <3>4. IsFiniteSet(T) /\ \A y \in T : f[y] \in Int
      BY FS_Subset
    <3>5. \A y \in Names(R) \cup {name[x]} : g[y] \in Int
      OBVIOUS
    <3>6. SumFunctionOnSet(f, T) = f[x] + SumFunctionOnSet(f, R)
      <4>. HIDE DEF G
      <4>. QED  BY <3>4, SumRemove
    <3>7. /\ IsFiniteSet(Names(R))
          /\ SumFunctionOnSet(f, R) = SumFunctionOnSet(g, Names(R))
      BY <3>2
    <3>8. f[x] = g[name[x]]
      OBVIOUS
    <3>. HIDE DEF R, Names
    <3>9. SumFunctionOnSet(g, Names(R) \cup {name[x]}) = g[name[x]] + SumFunctionOnSet(g, Names(R))
      <4>. HIDE DEF G
      <4>. QED  BY <3>3, <3>5, <3>7, SumAdd
    <3>10. IsFiniteSet(Names(T))
      BY <3>3, <3>7, FS_AddElement
    <3>11. SumFunctionOnSet(f, T) = SumFunctionOnSet(g, Names(T))
      BY <3>3, <3>6, <3>7, <3>8, <3>9
    <3>. QED  BY <3>10, <3>11
  <2>. QED  BY <2>1, <2>2
<1>2. SUBSET S \subseteq G
  <2>. HIDE DEF G
  <2>. QED  BY <1>1, SubsetInduction
<1>3. S \in G
  BY <1>2
<1>. QED  BY <1>3

-----------------------------------------------------------------------------
(* Sums of natural numbers *)

LEMMA SumBoundsPart ==
  ASSUME NEW f, NEW S, IsFiniteSet(S), \A x \in S : f[x] \in Nat, NEW P \in SUBSET S
  PROVE  SumFunctionOnSet(f, P) <= SumFunctionOnSet(f, S)
<1> DEFINE V(T) == SumFunctionOnSet(f, T)
<1>1. \A T \in SUBSET S : V(T) \in Nat
  <2>1. ASSUME NEW T \in SUBSET S PROVE V(T) \in Nat
    BY FS_Subset, SumType
  <2>. QED  BY <2>1
<1>2. V(S) = V(P) + V(S \ P)
  BY SumParts
<1>3. V(P) \in Nat /\ V(S \ P) \in Nat
  BY <1>1
<1>. HIDE DEF V
<1>4. V(P) <= V(S)
  BY <1>2, <1>3
<1>. QED  BY <1>4 DEF V

LEMMA SumBoundsMember ==
  ASSUME NEW f, NEW S, IsFiniteSet(S), \A x \in S : f[x] \in Nat, NEW y \in S
  PROVE  f[y] <= SumFunctionOnSet(f, S)
<1>1. {y} \in SUBSET S /\ f[y] \in Int
  OBVIOUS
<1>. QED  BY <1>1, SumBoundsPart, SumSingle

(* Where one function is nowhere above another, its sum is not.            *)
LEMMA SumMonotone ==
  ASSUME NEW f, NEW g, NEW S, IsFiniteSet(S),
         \A x \in S : f[x] \in Nat /\ g[x] \in Nat /\ f[x] <= g[x]
  PROVE  SumFunctionOnSet(f, S) <= SumFunctionOnSet(g, S)
<1> DEFINE d == [x \in S |-> g[x] - f[x]]
<1>1. \A x \in S : d[x] \in Nat /\ g[x] = f[x] + d[x]
  OBVIOUS
<1>. HIDE DEF d
<1>2. SumFunctionOnSet(g, S) = SumFunctionOnSet(f, S) + SumFunctionOnSet(d, S)
  BY <1>1, SumPointwise
<1>3. SumFunctionOnSet(f, S) \in Nat /\ SumFunctionOnSet(d, S) \in Nat
  BY <1>1, SumType
<1>. QED  BY <1>2, <1>3

(* Nothing adds up to nothing.                                             *)
LEMMA SumZero ==
  ASSUME NEW f, NEW S, IsFiniteSet(S), \A x \in S : f[x] \in Nat
  PROVE  SumFunctionOnSet(f, S) = 0 <=> \A x \in S : f[x] = 0
<1>1. ASSUME SumFunctionOnSet(f, S) = 0, NEW x \in S PROVE f[x] = 0
  BY <1>1, SumBoundsMember
<1>2. ASSUME \A x \in S : f[x] = 0 PROVE SumFunctionOnSet(f, S) = 0
  <2> DEFINE z == [x \in S |-> 0]
  <2>1. \A x \in S : z[x] \in Int /\ f[x] = z[x] /\ z[x] = z[x] + z[x]
    BY <1>2
  <2>. HIDE DEF z
  <2>2. SumFunctionOnSet(f, S) = SumFunctionOnSet(z, S)
    BY <2>1, SumSame
  <2>3. SumFunctionOnSet(z, S) = SumFunctionOnSet(z, S) + SumFunctionOnSet(z, S)
    BY <2>1, SumPointwise
  <2>4. SumFunctionOnSet(z, S) \in Int
    BY <2>1, SumType
  <2>5. \A n \in Int : n = n + n => n = 0
    OBVIOUS
  <2>. QED  BY <2>2, <2>3, <2>4, <2>5
<1>. QED  BY <1>1, <1>2

(* A part that counts for nothing does not count.                          *)
LEMMA SumWithout ==
  ASSUME NEW f, NEW S, IsFiniteSet(S), \A x \in S : f[x] \in Nat, NEW P \in SUBSET S,
         \A x \in S \ P : f[x] = 0
  PROVE  SumFunctionOnSet(f, S) = SumFunctionOnSet(f, P)
<1> DEFINE R == S \ P
<1>1. /\ IsFiniteSet(P) /\ IsFiniteSet(R)
      /\ \A x \in R : f[x] \in Nat /\ f[x] = 0
      /\ \A x \in P : f[x] \in Nat
  BY FS_Subset
<1>2. SumFunctionOnSet(f, S) = SumFunctionOnSet(f, P) + SumFunctionOnSet(f, R)
  BY SumParts
<1>. HIDE DEF R
<1>3. SumFunctionOnSet(f, R) = 0
  BY <1>1, SumZero
<1>4. SumFunctionOnSet(f, P) \in Nat
  BY <1>1, SumType
<1>. QED  BY <1>2, <1>3, <1>4

(* A part changes.                                                         *)
LEMMA SumPartChanges ==
  ASSUME NEW f, NEW g, NEW S, IsFiniteSet(S), NEW P \in SUBSET S,
         \A x \in S : f[x] \in Int /\ g[x] \in Int, \A x \in S \ P : g[x] = f[x]
  PROVE  SumFunctionOnSet(g, S)
           = (SumFunctionOnSet(f, S) - SumFunctionOnSet(f, P)) + SumFunctionOnSet(g, P)
<1> DEFINE R == S \ P
<1>1. /\ IsFiniteSet(P) /\ IsFiniteSet(R)
      /\ \A x \in P : f[x] \in Int /\ g[x] \in Int
      /\ \A x \in R : f[x] \in Int /\ g[x] = f[x]
  BY FS_Subset
<1>2. /\ SumFunctionOnSet(f, S) = SumFunctionOnSet(f, P) + SumFunctionOnSet(f, R)
      /\ SumFunctionOnSet(g, S) = SumFunctionOnSet(g, P) + SumFunctionOnSet(g, R)
  BY SumParts
<1>. HIDE DEF R
<1>3. SumFunctionOnSet(g, R) = SumFunctionOnSet(f, R)
  BY <1>1, SumSame
<1>4. /\ SumFunctionOnSet(f, P) \in Int /\ SumFunctionOnSet(f, R) \in Int
      /\ SumFunctionOnSet(g, P) \in Int
  BY <1>1, SumType
<1>. QED  BY <1>2, <1>3, <1>4
(* The terms of a sum by the part each belongs to: the totals of the parts *)
(* sum up to the total of all.                                             *)
LEMMA SumByParts ==
  ASSUME NEW f, NEW S, IsFiniteSet(S), \A x \in S : f[x] \in Int,
         NEW D, IsFiniteSet(D), NEW of, \A x \in S : of[x] \in D,
         NEW part, \A d \in D : part[d] \subseteq S,
         \A d \in D : \A x \in S : x \in part[d] <=> of[x] = d,
         NEW h, \A d \in D : h[d] = SumFunctionOnSet(f, part[d])
  PROVE  SumFunctionOnSet(h, D) = SumFunctionOnSet(f, S)
<1> DEFINE Of(T) == {x \in S : of[x] \in T}
           G == {T \in SUBSET D : SumFunctionOnSet(h, T) = SumFunctionOnSet(f, Of(T))}
<1>1. ASSUME NEW P \in SUBSET S
      PROVE  IsFiniteSet(P) /\ SumFunctionOnSet(f, P) \in Int
  BY FS_Subset, SumType
<1>2. \A d \in D : h[d] \in Int
  BY <1>1
<1>3. ASSUME NEW T \in SUBSET D, \A U \in SUBSET T : U # T => U \in G
      PROVE  T \in G
  <2>1. CASE T = {}
    <3>1. Of(T) = {}
      BY <2>1
    <3>. QED  BY <2>1, <3>1, SumEmpty
  <2>2. CASE T # {}
    <3>1. PICK d \in T : TRUE
      BY <2>2
    <3> DEFINE U == T \ {d}
               P == part[d]
    <3>2. U \in G
      BY <1>3
    <3>3. /\ P \in SUBSET Of(T) /\ Of(T) \ P = Of(U)
          /\ Of(T) \in SUBSET S
      OBVIOUS
    <3>4. h[d] = SumFunctionOnSet(f, P)
      OBVIOUS
    <3>5. IsFiniteSet(T) /\ \A e \in T : h[e] \in Int
      BY <1>2, FS_Subset
    <3>6. SumFunctionOnSet(h, T) = h[d] + SumFunctionOnSet(h, U)
      BY <3>1, <3>5, SumRemove
    <3>7. IsFiniteSet(Of(T)) /\ \A x \in Of(T) : f[x] \in Int
      BY <1>1, <3>3
    <3>8. SumFunctionOnSet(f, Of(T)) = SumFunctionOnSet(f, P) + SumFunctionOnSet(f, Of(U))
      <4>. HIDE DEF P, Of
      <4>1. SumFunctionOnSet(f, Of(T)) = SumFunctionOnSet(f, P) + SumFunctionOnSet(f, Of(T) \ P)
        BY <3>3, <3>7, SumParts
      <4>. QED  BY <3>3, <4>1
    <3>9. SumFunctionOnSet(h, U) = SumFunctionOnSet(f, Of(U))
      BY <3>2
    <3>. HIDE DEF P, Of, U
    <3>10. SumFunctionOnSet(h, T) = SumFunctionOnSet(f, Of(T))
      BY <3>4, <3>6, <3>8, <3>9
    <3>. QED  BY <3>10
  <2>. QED  BY <2>1, <2>2
<1>4. SUBSET D \subseteq G
  <2>. HIDE DEF G
  <2>. QED  BY <1>3, SubsetInduction
<1>5. D \in G
  BY <1>4
<1>6. SumFunctionOnSet(h, D) = SumFunctionOnSet(f, Of(D))
  BY <1>5
<1>7. Of(D) = S
  OBVIOUS
<1>. QED  BY <1>6, <1>7
=============================================================================
