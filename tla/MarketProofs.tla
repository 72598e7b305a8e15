---------------------------- MODULE MarketProofs ---------------------------
(***************************************************************************)
(* What is proved of Market, for every set of characters, markets and      *)
(* items, every fee, capacity and stack size.                              *)
(*                                                                         *)
(*   1. Sums over finite sets (SumFunctionOnSet), by induction on the      *)
(*      sets: SetInduction is the only induction used.                     *)
(*   2. The bag of Inventory: what a slot takes (Portion), what a pile     *)
(*      that comes or leaves does to the bag and to its counts.            *)
(*   3. The order books and what they hold in escrow.                      *)
(*   4. The inductive invariant IInv and the safety theorems.              *)
(*   5. The refinement of Barter: what each step does to the fortunes.     *)
(*                                                                         *)
(* IInv adds OrdersNumbered to the type invariant and InstancesUnique: an  *)
(* order keeps its id to itself because every id given is below the next   *)
(* one, and the sums over the books exist because the books are finite.    *)
(***************************************************************************)
EXTENDS Market, FiniteSetTheorems, WellFoundedInduction, TLAPS

-----------------------------------------------------------------------------
(* 1. Sums.                                                                *)

(* A set of subsets of S that holds {} and grows by any element holds S.   *)
LEMMA SetInduction ==
    ASSUME NEW S, IsFiniteSet(S), NEW P, {} \in P,
           \A T \in SUBSET S, x \in S : T \in P => T \cup {x} \in P
    PROVE  S \in P
  <1> DEFINE bad == (SUBSET S) \ P
  <1>1. SUFFICES ASSUME S \notin P PROVE FALSE
    OBVIOUS
  <1>2. bad \subseteq FiniteSubsetsOf(S) /\ bad # {}
    BY <1>1, FS_FiniteSubsetsOfFinite
  <1>3. PICK T \in bad : \A U \in bad : ~ (<<U, T>> \in StrictSubsetOrdering(S))
    BY <1>2, FS_StrictSubsetOrderingWellFounded, WFMin
  <1>4. PICK x \in T : TRUE
    OBVIOUS
  <1>5. T \ {x} \in P
    <2>1. <<T \ {x}, T>> \in StrictSubsetOrdering(S)
      BY DEF StrictSubsetOrdering
    <2> QED
      BY <1>3, <2>1
  <1>6. (T \ {x}) \cup {x} = T
    OBVIOUS
  <1> QED
    BY <1>5, <1>6

Pick(T) == CHOOSE x \in T : TRUE

(* g sums f over the members of D, one pick after the other.               *)
Sums(f, D, g) ==
    g = [T \in D |-> IF T = {} THEN 0 ELSE f[Pick(T)] + g[T \ {Pick(T)}]]

(* The library's fold is the sum of this shape.                            *)
LEMMA SumIsChosen ==
    ASSUME NEW f, NEW S
    PROVE  SumFunctionOnSet(f, S) = (CHOOSE g : Sums(f, SUBSET S, g))[S]
  BY DEF SumFunctionOnSet, FoldFunctionOnSet, MapThenFoldSet, Sums, Pick

(* A pick is a member.                                                     *)
LEMMA PickIsIn ==
    ASSUME NEW T, T # {}
    PROVE  Pick(T) \in T
  BY DEF Pick

(* There is such a sum.                                                    *)
LEMMA SumExists ==
    ASSUME NEW f, NEW S, IsFiniteSet(S)
    PROVE  \E g : Sums(f, SUBSET S, g)
  <1> DEFINE Up(n) == {T \in SUBSET S : Cardinality(T) <= n}
             N == Cardinality(S)
             P == {T \in SUBSET S : \E g : Sums(f, Up(Cardinality(T)), g)}
  <1>1. \A T \in SUBSET S : IsFiniteSet(T) /\ Cardinality(T) \in Nat /\ Cardinality(T) <= N
    BY FS_Subset, FS_CardinalityType
  <1>2. {} \in P
    <2> DEFINE g == [T \in Up(0) |-> 0]
    <2>1. Up(0) = {{}}
      BY <1>1, FS_EmptySet
    <2>2. Sums(f, Up(0), g)
      BY <2>1 DEF Sums
    <2>3. \E h : Sums(f, Up(0), h)
      <3> HIDE DEF g, Up
      <3> QED
        BY <2>2
    <2> QED
      BY <2>3, FS_EmptySet
  <1>3. ASSUME NEW T \in P, NEW x \in S PROVE T \cup {x} \in P
    <2> DEFINE n == Cardinality(T)
    <2>1. CASE x \in T
      <3>1. T \cup {x} = T
        BY <2>1
      <3> QED
        BY <1>3, <3>1
    <2>2. CASE x \notin T
      <3>1. Cardinality(T \cup {x}) = n + 1 /\ n \in Nat
        BY <1>1, <1>3, <2>2, FS_AddElement
      <3>2. PICK g : Sums(f, Up(n), g)
        BY <1>3
      <3> DEFINE h == [U \in Up(n + 1) |->
                         IF Cardinality(U) = n + 1 THEN f[Pick(U)] + g[U \ {Pick(U)}] ELSE g[U]]
      <3>3. \A U \in Up(n) : U \in Up(n + 1) /\ h[U] = g[U]
        <4>1. TAKE U \in Up(n)
        <4>2. Cardinality(U) \in Nat /\ Cardinality(U) <= n /\ U \in SUBSET S
          BY <1>1
        <4>3. U \in Up(n + 1) /\ Cardinality(U) # n + 1
          BY <3>1, <4>2
        <4> QED
          BY <4>3
      <3>4. \A U \in Up(n) : g[U] = IF U = {} THEN 0 ELSE f[Pick(U)] + g[U \ {Pick(U)}]
        BY <3>2 DEF Sums
      <3>5. \A U \in Up(n + 1) : U # {} => U \ {Pick(U)} \in Up(n)
        <4>1. TAKE U \in Up(n + 1)
        <4>2. SUFFICES ASSUME U # {} PROVE U \ {Pick(U)} \in Up(n)
          OBVIOUS
        <4>3. Pick(U) \in U /\ IsFiniteSet(U) /\ Cardinality(U) \in Nat /\ Cardinality(U) <= n + 1
          BY <1>1, <4>2, PickIsIn
        <4>4. Cardinality(U \ {Pick(U)}) = Cardinality(U) - 1
          BY <4>3, FS_RemoveElement
        <4> QED
          BY <3>1, <4>3, <4>4
      <3>6. \A U \in Up(n + 1) : h[U] = IF U = {} THEN 0 ELSE f[Pick(U)] + h[U \ {Pick(U)}]
        <4>1. TAKE U \in Up(n + 1)
        <4>2. CASE Cardinality(U) = n + 1
          <5>1. U # {}
            BY <3>1, <4>2, FS_EmptySet
          <5>2. h[U] = f[Pick(U)] + g[U \ {Pick(U)}]
            BY <4>2
          <5> HIDE DEF h
          <5> QED
            BY <3>3, <3>5, <5>1, <5>2
        <4>3. CASE Cardinality(U) # n + 1
          <5>1. U \in Up(n)
            BY <1>1, <3>1, <4>3
          <5> HIDE DEF h, Up
          <5> QED
            BY <3>3, <3>4, <3>5, <4>1, <5>1
        <4> QED
          BY <4>2, <4>3
      <3>7. Sums(f, Up(n + 1), h)
        <4>1. h = [U \in Up(n + 1) |-> h[U]]
          OBVIOUS
        <4> HIDE DEF h, Up
        <4> QED
          BY <3>6, <4>1 DEF Sums
      <3>8. \E k : Sums(f, Up(n + 1), k)
        <4> HIDE DEF h, Up
        <4> QED
          BY <3>7
      <3> HIDE DEF h, Up, n
      <3> QED
        BY <1>3, <3>1, <3>8
    <2> QED
      BY <2>1, <2>2
  <1>4. S \in P
    <2> HIDE DEF P
    <2> QED
      BY <1>2, <1>3, SetInduction
  <1>5. Up(N) = SUBSET S
    BY <1>1
  <1> QED
    BY <1>4, <1>5

(* Two sums agree where both are defined.                                  *)
Agree(g, h, T) == g[T] = h[T]

LEMMA SumsAgree ==
    ASSUME NEW f, NEW S, IsFiniteSet(S), NEW T \in SUBSET S,
           NEW g, Sums(f, SUBSET S, g), NEW h, Sums(f, SUBSET T, h)
    PROVE  Agree(g, h, T)
  <1> DEFINE bad == {U \in SUBSET T : g[U] # h[U]}
  <1>1. SUFFICES ASSUME g[T] # h[T] PROVE FALSE
    BY DEF Agree
  <1>2. IsFiniteSet(T)
    BY FS_Subset
  <1>3. bad \subseteq FiniteSubsetsOf(T) /\ bad # {}
    BY <1>1, <1>2, FS_FiniteSubsetsOfFinite
  <1>4. PICK U \in bad : \A V \in bad : ~ (<<V, U>> \in StrictSubsetOrdering(T))
    BY <1>3, FS_StrictSubsetOrderingWellFounded, WFMin
  <1>5. \A V \in SUBSET S : g[V] = IF V = {} THEN 0 ELSE f[Pick(V)] + g[V \ {Pick(V)}]
    BY DEF Sums
  <1>6. \A V \in SUBSET T : h[V] = IF V = {} THEN 0 ELSE f[Pick(V)] + h[V \ {Pick(V)}]
    BY DEF Sums
  <1>7. U \in SUBSET T /\ U \in SUBSET S /\ g[U] # h[U]
    OBVIOUS
  <1>8. U # {}
    BY <1>5, <1>6, <1>7
  <1>9. Pick(U) \in U
    BY <1>8, PickIsIn
  <1>10. <<U \ {Pick(U)}, U>> \in StrictSubsetOrdering(T)
    BY <1>7, <1>9 DEF StrictSubsetOrdering
  <1>11. g[U \ {Pick(U)}] = h[U \ {Pick(U)}]
    BY <1>4, <1>7, <1>10
  <1> QED
    BY <1>5, <1>6, <1>7, <1>8, <1>11

(* Nothing sums to 0.                                                      *)
LEMMA SumOfNone ==
    ASSUME NEW f
    PROVE  SumFunctionOnSet(f, {}) = 0
  <1> DEFINE g == CHOOSE k : Sums(f, SUBSET {}, k)
  <1>1. \E k : Sums(f, SUBSET {}, k)
    BY SumExists, FS_EmptySet
  <1>2. Sums(f, SUBSET {}, g)
    BY <1>1
  <1>3. SumFunctionOnSet(f, {}) = g[{}]
    BY SumIsChosen
  <1> HIDE DEF g
  <1> QED
    BY <1>2, <1>3 DEF Sums

(* The pick can be taken out first.                                        *)
LEMMA SumOfPick ==
    ASSUME NEW f, NEW S, IsFiniteSet(S), S # {}
    PROVE  SumFunctionOnSet(f, S) = f[Pick(S)] + SumFunctionOnSet(f, S \ {Pick(S)})
  <1> DEFINE T == S \ {Pick(S)}
             g == CHOOSE k : Sums(f, SUBSET S, k)
             h == CHOOSE k : Sums(f, SUBSET T, k)
  <1>1. IsFiniteSet(T) /\ T \in SUBSET S
    BY FS_Subset
  <1>2. Sums(f, SUBSET S, g)
    <2>1. \E k : Sums(f, SUBSET S, k)
      BY SumExists
    <2> QED
      BY <2>1
  <1>3. Sums(f, SUBSET T, h)
    <2>1. \E k : Sums(f, SUBSET T, k)
      BY <1>1, SumExists
    <2> QED
      BY <2>1
  <1>4. SumFunctionOnSet(f, S) = g[S] /\ SumFunctionOnSet(f, T) = h[T]
    BY SumIsChosen
  <1> HIDE DEF g, h
  <1>5. g[S] = f[Pick(S)] + g[T]
    BY <1>2 DEF Sums
  <1>6. g[T] = h[T]
    <2> HIDE DEF T
    <2>1. Agree(g, h, T)
      BY <1>1, <1>2, <1>3, SumsAgree
    <2> QED
      BY <2>1 DEF Agree
  <1> QED
    BY <1>4, <1>5, <1>6

(* Any member can be taken out first.                                      *)
LEMMA SumWithout ==
    ASSUME NEW f, NEW S, IsFiniteSet(S), \A x \in S : f[x] \in Int
    PROVE  /\ SumFunctionOnSet(f, S) \in Int
           /\ \A x \in S : SumFunctionOnSet(f, S) = f[x] + SumFunctionOnSet(f, S \ {x})
  <1> DEFINE Good(T) == /\ SumFunctionOnSet(f, T) \in Int
                        /\ \A x \in T : SumFunctionOnSet(f, T) = f[x] + SumFunctionOnSet(f, T \ {x})
             bad == {T \in SUBSET S : ~ Good(T)}
  <1>1. SUFFICES ASSUME bad # {} PROVE FALSE
    BY DEF bad
  <1>2. bad \subseteq FiniteSubsetsOf(S)
    BY FS_FiniteSubsetsOfFinite
  <1>3. PICK T \in bad : \A U \in bad : ~ (<<U, T>> \in StrictSubsetOrdering(S))
    BY <1>1, <1>2, FS_StrictSubsetOrderingWellFounded, WFMin
  <1>4. \A x \in T : Good(T \ {x})
    <2>1. TAKE x \in T
    <2>2. <<T \ {x}, T>> \in StrictSubsetOrdering(S)
      BY <1>3 DEF StrictSubsetOrdering
    <2>3. T \ {x} \notin bad
      BY <1>3, <2>2
    <2> QED
      BY <1>3, <2>3
  <1>5. IsFiniteSet(T) /\ T \in SUBSET S /\ ~ Good(T)
    BY <1>3, FS_Subset
  <1>6. T # {}
    <2>1. Good({})
      BY SumOfNone
    <2> QED
      BY <1>5, <2>1
  <1> DEFINE c == Pick(T)
             sum(U) == SumFunctionOnSet(f, U)
  <1>7. c \in T /\ f[c] \in Int /\ sum(T) = f[c] + sum(T \ {c})
    BY <1>5, <1>6, PickIsIn, SumOfPick
  <1>8. sum(T \ {c}) \in Int
    BY <1>4, <1>7
  <1> HIDE DEF c
  <1>9. ASSUME NEW x \in T PROVE sum(T) = f[x] + sum(T \ {x})
    <2>1. CASE x = c
      BY <1>7, <2>1
    <2>2. CASE x # c
      <3>1. x \in T \ {c} /\ c \in T \ {x} /\ f[x] \in Int
        BY <1>5, <1>7, <2>2
      <3>2. sum(T \ {c}) = f[x] + sum((T \ {c}) \ {x})
        BY <1>4, <1>7, <3>1
      <3>3. sum(T \ {x}) = f[c] + sum((T \ {x}) \ {c}) /\ sum(T \ {x}) \in Int
        BY <1>4, <3>1
      <3>4. (T \ {c}) \ {x} = (T \ {x}) \ {c}
        OBVIOUS
      <3>5. sum((T \ {x}) \ {c}) \in Int
        <4>1. Good(T \ {x}) /\ T \ {x} \in SUBSET S
          BY <1>4, <1>5
        <4>2. <<(T \ {x}) \ {c}, T>> \in StrictSubsetOrdering(S)
          BY <1>5, <1>7 DEF StrictSubsetOrdering
        <4>3. (T \ {x}) \ {c} \notin bad
          BY <1>3, <4>2
        <4> QED
          BY <1>5, <4>3
      <3> HIDE DEF sum
      <3>6. (T \ {c}) \ {x} = (T \ {x}) \ {c} /\ sum((T \ {c}) \ {x}) = sum((T \ {x}) \ {c})
        BY <3>4
      <3> QED
        BY <1>7, <3>1, <3>2, <3>3, <3>5, <3>6
    <2> QED
      BY <2>1, <2>2
  <1>10. sum(T) \in Int
    BY <1>7, <1>8
  <1> QED
    BY <1>5, <1>9, <1>10

(* A new member adds what it counts.                                       *)
LEMMA SumWith ==
    ASSUME NEW f, NEW S, IsFiniteSet(S), NEW x, x \notin S, \A y \in S \cup {x} : f[y] \in Int
    PROVE  SumFunctionOnSet(f, S \cup {x}) = SumFunctionOnSet(f, S) + f[x]
  <1> DEFINE T == S \cup {x}
  <1>1. IsFiniteSet(T) /\ T \ {x} = S /\ x \in T
    BY FS_AddElement
  <1>2. \A y \in T : f[y] \in Int
    OBVIOUS
  <1> HIDE DEF T
  <1>3. SumFunctionOnSet(f, T) = f[x] + SumFunctionOnSet(f, S)
    BY <1>1, <1>2, SumWithout
  <1>4. SumFunctionOnSet(f, S) \in Int /\ f[x] \in Int
    BY <1>1, <1>2, SumWithout
  <1>5. SumFunctionOnSet(f, T) = SumFunctionOnSet(f, S) + f[x]
    BY <1>3, <1>4
  <1> QED
    BY <1>5 DEF T

(* Larger members, larger sum.                                             *)
LEMMA SumMonotone ==
    ASSUME NEW S, IsFiniteSet(S), NEW f, NEW g,
           \A x \in S : f[x] \in Int /\ g[x] \in Int /\ f[x] <= g[x]
    PROVE  SumFunctionOnSet(f, S) <= SumFunctionOnSet(g, S)
  <1> DEFINE P == {T \in SUBSET S : SumFunctionOnSet(f, T) <= SumFunctionOnSet(g, T)}
  <1>1. {} \in P
    BY SumOfNone
  <1>2. ASSUME NEW T \in SUBSET S, NEW x \in S, T \in P PROVE T \cup {x} \in P
    <2>1. CASE x \in T
      <3>1. T \cup {x} = T
        BY <2>1
      <3> QED
        BY <1>2, <3>1
    <2>2. CASE x \notin T
      <3>1. IsFiniteSet(T) /\ \A y \in T \cup {x} : f[y] \in Int /\ g[y] \in Int
        BY <1>2, FS_Subset
      <3>2. /\ SumFunctionOnSet(f, T \cup {x}) = SumFunctionOnSet(f, T) + f[x]
            /\ SumFunctionOnSet(g, T \cup {x}) = SumFunctionOnSet(g, T) + g[x]
        BY <2>2, <3>1, SumWith
      <3>3. SumFunctionOnSet(f, T) \in Int /\ SumFunctionOnSet(g, T) \in Int
        BY <3>1, SumWithout
      <3>4. SumFunctionOnSet(f, T) <= SumFunctionOnSet(g, T)
        BY <1>2
      <3> DEFINE a == SumFunctionOnSet(f, T)
                 b == SumFunctionOnSet(g, T)
                 c == SumFunctionOnSet(f, T \cup {x})
                 d == SumFunctionOnSet(g, T \cup {x})
      <3>5. /\ a \in Int /\ b \in Int /\ a <= b /\ c = a + f[x] /\ d = b + g[x]
            /\ f[x] \in Int /\ g[x] \in Int /\ f[x] <= g[x]
        BY <3>2, <3>3, <3>4
      <3> HIDE DEF a, b, c, d
      <3>6. c <= d
        BY <3>5
      <3> QED
        BY <3>6 DEF c, d
    <2> QED
      BY <2>1, <2>2
  <1>3. S \in P
    <2> HIDE DEF P
    <2> QED
      BY <1>1, <1>2, SetInduction
  <1> QED
    BY <1>3

(* Equal members, equal sum.                                               *)
LEMMA SumSame ==
    ASSUME NEW S, IsFiniteSet(S), NEW f, NEW g,
           \A x \in S : f[x] \in Int /\ f[x] = g[x]
    PROVE  SumFunctionOnSet(f, S) = SumFunctionOnSet(g, S)
  <1>1. \A x \in S : f[x] \in Int /\ g[x] \in Int /\ f[x] <= g[x] /\ g[x] <= f[x]
    OBVIOUS
  <1>2. SumFunctionOnSet(f, S) <= SumFunctionOnSet(g, S)
    BY <1>1, SumMonotone
  <1>3. SumFunctionOnSet(g, S) <= SumFunctionOnSet(f, S)
    BY <1>1, SumMonotone
  <1>4. SumFunctionOnSet(f, S) \in Int /\ SumFunctionOnSet(g, S) \in Int
    BY <1>1, SumWithout
  <1> DEFINE a == SumFunctionOnSet(f, S)
             b == SumFunctionOnSet(g, S)
  <1>5. a \in Int /\ b \in Int /\ a <= b /\ b <= a
    BY <1>2, <1>3, <1>4
  <1> HIDE DEF a, b
  <1>6. a = b
    BY <1>5
  <1> QED
    BY <1>6 DEF a, b

(* Naturals sum to a natural.                                              *)
LEMMA SumNat ==
    ASSUME NEW S, IsFiniteSet(S), NEW f, \A x \in S : f[x] \in Nat
    PROVE  SumFunctionOnSet(f, S) \in Nat
  <1> DEFINE P == {T \in SUBSET S : SumFunctionOnSet(f, T) \in Nat}
  <1>1. {} \in P
    BY SumOfNone
  <1>2. ASSUME NEW T \in SUBSET S, NEW x \in S, T \in P PROVE T \cup {x} \in P
    <2>1. CASE x \in T
      <3>1. T \cup {x} = T
        BY <2>1
      <3> QED
        BY <1>2, <3>1
    <2>2. CASE x \notin T
      <3>1. IsFiniteSet(T) /\ \A y \in T \cup {x} : f[y] \in Int
        BY <1>2, FS_Subset
      <3>2. SumFunctionOnSet(f, T \cup {x}) = SumFunctionOnSet(f, T) + f[x]
        BY <2>2, <3>1, SumWith
      <3> QED
        BY <1>2, <3>2
    <2> QED
      BY <2>1, <2>2
  <1>3. S \in P
    <2> HIDE DEF P
    <2> QED
      BY <1>1, <1>2, SetInduction
  <1> QED
    BY <1>3

(* Members that count nothing may be left out.                             *)
LEMMA SumOnSubset ==
    ASSUME NEW S, IsFiniteSet(S), NEW f, NEW T \in SUBSET S,
           \A x \in S : f[x] \in Int, \A x \in S \ T : f[x] = 0
    PROVE  SumFunctionOnSet(f, S) = SumFunctionOnSet(f, T)
  <1> DEFINE P == {U \in SUBSET S : SumFunctionOnSet(f, U) = SumFunctionOnSet(f, U \cap T)}
  <1>1. {} \in P
    <2>1. {} \cap T = {}
      OBVIOUS
    <2> QED
      BY <2>1
  <1>2. ASSUME NEW U \in SUBSET S, NEW x \in S, U \in P PROVE U \cup {x} \in P
    <2>1. CASE x \in U
      <3>1. U \cup {x} = U
        BY <2>1
      <3> QED
        BY <1>2, <3>1
    <2>2. CASE x \notin U
      <3>1. /\ IsFiniteSet(U) /\ \A y \in U \cup {x} : f[y] \in Int
            /\ IsFiniteSet(U \cap T) /\ \A y \in (U \cap T) \cup {x} : f[y] \in Int
        BY <1>2, FS_Subset
      <3>2. SumFunctionOnSet(f, U \cup {x}) = SumFunctionOnSet(f, U) + f[x]
        BY <2>2, <3>1, SumWith
      <3>3. SumFunctionOnSet(f, U) \in Int
        BY <3>1, SumWithout
      <3>4. SumFunctionOnSet(f, (U \cup {x}) \cap T) = SumFunctionOnSet(f, U \cap T) + f[x]
        <4>1. CASE x \in T
          <5>1. (U \cup {x}) \cap T = (U \cap T) \cup {x} /\ x \notin U \cap T
            BY <2>2, <4>1
          <5>2. SumFunctionOnSet(f, (U \cap T) \cup {x}) = SumFunctionOnSet(f, U \cap T) + f[x]
            BY <3>1, <5>1, SumWith
          <5> QED
            BY <5>1, <5>2
        <4>2. CASE x \notin T
          <5>1. (U \cup {x}) \cap T = U \cap T /\ f[x] = 0
            BY <4>2
          <5>2. SumFunctionOnSet(f, U \cap T) \in Int
            BY <1>2, <3>3
          <5>3. SumFunctionOnSet(f, U \cap T) = SumFunctionOnSet(f, U \cap T) + 0
            BY <5>2
          <5> QED
            BY <5>1, <5>3
        <4> QED
          BY <4>1, <4>2
      <3>5. SumFunctionOnSet(f, U) = SumFunctionOnSet(f, U \cap T)
        BY <1>2
      <3> QED
        BY <3>2, <3>4, <3>5
    <2> QED
      BY <2>1, <2>2
  <1>3. S \in P
    <2> HIDE DEF P
    <2> QED
      BY <1>1, <1>2, SetInduction
  <1>4. S \cap T = T
    OBVIOUS
  <1> QED
    BY <1>3, <1>4

(* Zeros sum to 0.                                                         *)
LEMMA SumZero ==
    ASSUME NEW S, IsFiniteSet(S), NEW f, \A x \in S : f[x] = 0
    PROVE  SumFunctionOnSet(f, S) = 0
  <1>1. SumFunctionOnSet(f, S) = SumFunctionOnSet(f, {})
    <2>1. {} \in SUBSET S /\ \A x \in S : f[x] \in Int
      OBVIOUS
    <2> QED
      BY <2>1, SumOnSubset
  <1> QED
    BY <1>1, SumOfNone

(* One member counts otherwise.                                            *)
LEMMA SumOneChanged ==
    ASSUME NEW S, IsFiniteSet(S), NEW f, NEW g, NEW x \in S,
           \A y \in S : f[y] \in Int /\ g[y] \in Int, \A y \in S \ {x} : f[y] = g[y]
    PROVE  /\ SumFunctionOnSet(f, S) \in Int
           /\ SumFunctionOnSet(g, S) = SumFunctionOnSet(f, S) - f[x] + g[x]
  <1> DEFINE T == S \ {x}
             a == SumFunctionOnSet(f, S)
             b == SumFunctionOnSet(g, S)
             c == SumFunctionOnSet(f, T)
             d == SumFunctionOnSet(g, T)
  <1>1. IsFiniteSet(T) /\ T \in SUBSET S
    BY FS_Subset
  <1>2. a = f[x] + c /\ b = g[x] + d /\ a \in Int
    BY SumWithout
  <1>3. c \in Int /\ c = d
    <2>1. \A y \in T : f[y] \in Int /\ f[y] = g[y]
      OBVIOUS
    <2> HIDE DEF T
    <2> QED
      BY <1>1, <2>1, SumSame, SumWithout
  <1>4. f[x] \in Int /\ g[x] \in Int
    OBVIOUS
  <1> HIDE DEF a, b, c, d
  <1>5. a \in Int /\ b = a - f[x] + g[x]
    BY <1>2, <1>3, <1>4
  <1> QED
    BY <1>5 DEF a, b

(* One member grows and none shrinks: the sum grows.                       *)
LEMMA SumGrows ==
    ASSUME NEW S, IsFiniteSet(S), NEW f, NEW g, NEW x \in S,
           \A y \in S : f[y] \in Int /\ g[y] \in Int /\ f[y] <= g[y], f[x] < g[x]
    PROVE  SumFunctionOnSet(f, S) < SumFunctionOnSet(g, S)
  <1> DEFINE T == S \ {x}
             a == SumFunctionOnSet(f, S)
             b == SumFunctionOnSet(g, S)
             c == SumFunctionOnSet(f, T)
             d == SumFunctionOnSet(g, T)
  <1>1. IsFiniteSet(T) /\ T \in SUBSET S
    BY FS_Subset
  <1>2. a = f[x] + c /\ b = g[x] + d
    BY SumWithout
  <1>3. c \in Int /\ d \in Int /\ c <= d
    <2>1. \A y \in T : f[y] \in Int /\ g[y] \in Int /\ f[y] <= g[y]
      OBVIOUS
    <2> HIDE DEF T
    <2> QED
      BY <1>1, <2>1, SumMonotone, SumWithout
  <1>4. f[x] \in Int /\ g[x] \in Int
    OBVIOUS
  <1> HIDE DEF a, b, c, d
  <1>5. a < b
    BY <1>2, <1>3, <1>4
  <1> QED
    BY <1>5 DEF a, b

(* Of an index set of numbers, what is summed before it.                   *)
LEMMA SumOfFunction ==
    ASSUME NEW f
    PROVE  SumFunction(f) = SumFunctionOnSet(f, DOMAIN f)
  BY DEF SumFunction

-----------------------------------------------------------------------------
(* 2. The bag.                                                             *)

(* The least and the greatest of a finite set of numbers.                  *)
LEMMA Extremes ==
    ASSUME NEW S \in SUBSET Int, IsFiniteSet(S), S # {}
    PROVE  /\ Min(S) \in S /\ \A x \in S : Min(S) <= x
           /\ Max(S) \in S /\ \A x \in S : x <= Max(S)
  <1> DEFINE Has(T) == /\ \E x \in T : \A y \in T : x <= y
                       /\ \E x \in T : \A y \in T : x >= y
             P == {T \in SUBSET S : T = {} \/ Has(T)}
  <1>1. {} \in P
    OBVIOUS
  <1>2. ASSUME NEW T \in SUBSET S, NEW x \in S, T \in P PROVE T \cup {x} \in P
    <2>1. CASE T = {}
      BY <2>1
    <2>2. CASE T # {}
      <3>1. PICK low \in T : \A y \in T : low <= y
        BY <1>2, <2>2
      <3>2. PICK high \in T : \A y \in T : high >= y
        BY <1>2, <2>2
      <3>3. low \in Int /\ high \in Int /\ x \in Int /\ T \subseteq Int
        OBVIOUS
      <3>4. \E z \in T \cup {x} : \A y \in T \cup {x} : z <= y
        <4>1. CASE low <= x
          BY <3>1, <4>1
        <4>2. CASE ~ (low <= x)
          <5>1. x <= x /\ \A y \in T : x <= y
            BY <3>1, <3>3, <4>2
          <5> QED
            BY <5>1
        <4> QED
          BY <4>1, <4>2
      <3>5. \E z \in T \cup {x} : \A y \in T \cup {x} : z >= y
        <4>1. CASE high >= x
          BY <3>2, <4>1
        <4>2. CASE ~ (high >= x)
          <5>1. x >= x /\ \A y \in T : x >= y
            BY <3>2, <3>3, <4>2
          <5> QED
            BY <5>1
        <4> QED
          BY <4>1, <4>2
      <3> QED
        BY <3>4, <3>5
    <2> QED
      BY <2>1, <2>2
  <1>3. S \in P
    <2> HIDE DEF P
    <2> QED
      BY <1>1, <1>2, SetInduction
  <1>4. Has(S)
    BY <1>3
  <1>5. Min(S) \in S /\ \A x \in S : Min(S) <= x
    BY <1>4 DEF Min
  <1>6. Max(S) \in S /\ \A x \in S : Max(S) >= x
    BY <1>4 DEF Max
  <1>7. \A x \in S : x <= Max(S)
    BY <1>6
  <1> QED
    BY <1>5, <1>6, <1>7

(* The lesser of two.                                                      *)
LEMMA MinOfTwo ==
    ASSUME NEW a \in Int, NEW b \in Int
    PROVE  Min({a, b}) = IF a <= b THEN a ELSE b
  <1>1. {a, b} \in SUBSET Int /\ IsFiniteSet({a, b}) /\ {a, b} # {}
    <2>1. IsFiniteSet({a} \cup {b})
      BY FS_Singleton, FS_AddElement
    <2>2. {a} \cup {b} = {a, b}
      OBVIOUS
    <2> QED
      BY <2>1, <2>2
  <1> DEFINE m == Min({a, b})
  <1>2. m \in {a, b} /\ m <= a /\ m <= b
    BY <1>1, Extremes
  <1> HIDE DEF m
  <1>3. m = IF a <= b THEN a ELSE b
    BY <1>2
  <1> QED
    BY <1>3 DEF m

(* The greater of two.                                                     *)
LEMMA MaxOfTwo ==
    ASSUME NEW a \in Int, NEW b \in Int
    PROVE  Max({a, b}) = IF a <= b THEN b ELSE a
  <1>1. {a, b} \in SUBSET Int /\ IsFiniteSet({a, b}) /\ {a, b} # {}
    <2>1. IsFiniteSet({a} \cup {b})
      BY FS_Singleton, FS_AddElement
    <2>2. {a} \cup {b} = {a, b}
      OBVIOUS
    <2> QED
      BY <2>1, <2>2
  <1> DEFINE m == Max({a, b})
  <1>2. m \in {a, b} /\ a <= m /\ b <= m
    BY <1>1, Extremes
  <1> HIDE DEF m
  <1>3. m = IF a <= b THEN b ELSE a
    BY <1>2
  <1> QED
    BY <1>3 DEF m

(* What Clamp leaves of n.                                                 *)
LEMMA ClampIs ==
    ASSUME NEW n \in Int, NEW high \in Nat
    PROVE  /\ Clamp(n, 0, high) \in 0..high
           /\ n > 0 /\ high > 0 => Clamp(n, 0, high) > 0
  <1> DEFINE m == Min({n, high})
  <1>1. m = IF n <= high THEN n ELSE high
    BY MinOfTwo
  <1>2. m \in Int
    BY <1>1
  <1>3. Clamp(n, 0, high) = Max({0, m})
    BY DEF Clamp
  <1> HIDE DEF m
  <1>4. Max({0, m}) = IF 0 <= m THEN m ELSE 0
    BY <1>2, MaxOfTwo
  <1> QED
    BY <1>1, <1>3, <1>4

(* Slots are finitely many numbers.                                        *)
LEMMA SlotsAreFinite ==
    /\ IsFiniteSet(Slots) /\ Slots \subseteq Nat
    /\ \A S \in SUBSET Slots : IsFiniteSet(S) /\ Cardinality(S) \in Nat /\ S \subseteq Int
  <1>1. IsFiniteSet(Slots)
    BY FS_Interval, InventoryAssumption DEF Slots
  <1>2. Slots \subseteq Nat
    BY InventoryAssumption DEF Slots
  <1>3. ASSUME NEW S \in SUBSET Slots
        PROVE  IsFiniteSet(S) /\ Cardinality(S) \in Nat /\ S \subseteq Int
    <2>1. IsFiniteSet(S)
      BY <1>1, FS_Subset
    <2>2. Cardinality(S) \in Nat
      BY <2>1, FS_CardinalityType
    <2> QED
      BY <1>2, <2>1, <2>2
  <1> QED
    BY <1>1, <1>2, <1>3

(* Of what is spread, each slot takes within its limit, and one takes some. *)
LEMMA PortionIs ==
    ASSUME NEW D \in SUBSET Slots, NEW limit \in [D -> Nat], NEW n \in Int
    PROVE  /\ \A s \in D : Portion(n, limit, s) \in 0..limit[s]
           /\ n > 0 /\ (\E s \in D : limit[s] > 0) => \E s \in D : Portion(n, limit, s) > 0
  <1> DEFINE before(s) == SumFunctionOnSet(limit, {t \in D : t < s})
  <1>1. ASSUME NEW s \in D PROVE before(s) \in Nat
    <2> DEFINE T == {t \in D : t < s}
    <2>1. IsFiniteSet(T) /\ \A t \in T : limit[t] \in Nat
      BY SlotsAreFinite
    <2> HIDE DEF T
    <2>2. SumFunctionOnSet(limit, T) \in Nat
      BY <2>1, SumNat
    <2> QED
      BY <2>2 DEF T
  <1>2. \A s \in D : Portion(n, limit, s) = Clamp(n - before(s), 0, limit[s])
    BY DEF Portion
  <1>3. ASSUME NEW s \in D
        PROVE  /\ Portion(n, limit, s) \in 0..limit[s]
               /\ n - before(s) > 0 /\ limit[s] > 0 => Portion(n, limit, s) > 0
    <2> DEFINE k == n - before(s)
    <2>1. k \in Int /\ limit[s] \in Nat
      BY <1>1, <1>3
    <2>2. Portion(n, limit, s) = Clamp(k, 0, limit[s])
      BY <1>2, <1>3
    <2> HIDE DEF k
    <2>3. Clamp(k, 0, limit[s]) \in 0..limit[s] /\ (k > 0 /\ limit[s] > 0 => Clamp(k, 0, limit[s]) > 0)
      BY <2>1, ClampIs
    <2> QED
      BY <2>2, <2>3 DEF k
  <1>4. ASSUME n > 0, \E s \in D : limit[s] > 0
        PROVE  \E s \in D : Portion(n, limit, s) > 0
    <2> DEFINE open == {s \in D : limit[s] > 0}
               s == Min(open)
    <2>1. open \in SUBSET Int /\ IsFiniteSet(open) /\ open # {} /\ open \subseteq D
      BY <1>4, SlotsAreFinite
    <2>2. s \in open /\ \A t \in open : s <= t
      <3> HIDE DEF open
      <3> QED
        BY <2>1, Extremes
    <2> DEFINE T == {t \in D : t < s}
    <2>3. \A t \in T : limit[t] = 0
      <3>1. TAKE t \in T
      <3>2. t \in D /\ t < s /\ t \in Int /\ s \in Int /\ limit[t] \in Nat
        BY <2>1, <2>2, SlotsAreFinite
      <3>3. t \notin open
        BY <2>2, <3>2
      <3> QED
        BY <3>2, <3>3
    <2>4. IsFiniteSet(T) /\ s \in D /\ limit[s] > 0
      BY <2>2, SlotsAreFinite
    <2>5. before(s) = 0
      <3>1. SumFunctionOnSet(limit, T) = 0
        <4> HIDE DEF T
        <4> QED
          BY <2>3, <2>4, SumZero
      <3> QED
        BY <3>1
    <2> HIDE DEF s
    <2>6. n - before(s) > 0
      BY <1>4, <2>5
    <2>7. Portion(n, limit, s) > 0
      BY <1>3, <2>4, <2>6
    <2> QED
      BY <2>4, <2>7
  <1> QED
    BY <1>3, <1>4

CapPositive == \A i \in Items : Cap(i) \in Nat \ {0}

LEMMA CapsArePositive == CapPositive
  BY InventoryAssumption DEF CapPositive, Cap

(* What a bag is made of.                                                  *)
LEMMA BagParts ==
    ASSUME NEW b \in Bag
    PROVE  /\ DOMAIN b = Slots
           /\ \A s \in Slots : b[s] \in Pile \cup {Nothing}
           /\ Free(b) = {s \in Slots : b[s] = Nothing}
           /\ Occupied(b) = {s \in Slots : b[s] # Nothing}
           /\ \A s \in Slots : b[s] # Nothing => b[s] \in Pile
           /\ \A i : Holding(b, i) = {s \in Slots : b[s] # Nothing /\ b[s].item = i}
  BY DEF Bag, Free, Occupied, Holding

(* What a pile is made of.                                                 *)
LEMMA PileParts ==
    ASSUME NEW p \in Pile
    PROVE  /\ p # Nothing
           /\ p.id \in Nat \ {0} /\ p.item \in Items /\ p.quantity \in Nat \ {0}
           /\ p.quantity <= Cap(p.item)
  BY NothingIsNoPile DEF Pile

(* A new pile within the cap is a pile.                                    *)
LEMMA PileMade ==
    ASSUME NEW n \in Nat \ {0}, NEW i \in Items, NEW q \in Nat \ {0}, q <= Cap(i)
    PROVE  [id |-> n, item |-> i, quantity |-> q] \in Pile
  BY DEF Pile

(* A pile with another quantity within the cap is a pile.                  *)
LEMMA PileResized ==
    ASSUME NEW p \in Pile, NEW q \in Nat \ {0}, q <= Cap(p.item)
    PROVE  /\ [p EXCEPT !.quantity = q] \in Pile
           /\ [p EXCEPT !.quantity = q].id = p.id
           /\ [p EXCEPT !.quantity = q].item = p.item
           /\ [p EXCEPT !.quantity = q].quantity = q
  BY DEF Pile

Renumbered(p, n, q) == [p EXCEPT !.id = n, !.quantity = q]

LEMMA PileRenumbered ==
    ASSUME NEW p \in Pile, NEW n \in Nat \ {0}, NEW q \in Nat \ {0}, q <= Cap(p.item)
    PROVE  /\ Renumbered(p, n, q) \in Pile
           /\ Renumbered(p, n, q).id = n
           /\ Renumbered(p, n, q).item = p.item
           /\ Renumbered(p, n, q).quantity = q
  BY DEF Pile, Renumbered

(* The rooms of a bag.                                                     *)
LEMMA RoomsAreNat ==
    ASSUME NEW b \in Bag, NEW i \in Items
    PROVE  /\ Holding(b, i) \in SUBSET Slots /\ Rooms(b, i) \in [Holding(b, i) -> Nat]
           /\ Free(b) \in SUBSET Slots /\ FreeRooms(b, i) \in [Free(b) -> Nat]
           /\ \A s \in Holding(b, i) : Rooms(b, i)[s] = Cap(i) - b[s].quantity
           /\ \A s \in Free(b) : FreeRooms(b, i)[s] = Cap(i) /\ Cap(i) > 0
  <1>1. Cap(i) \in Nat \ {0}
    BY CapsArePositive DEF CapPositive
  <1>2. Holding(b, i) \in SUBSET Slots /\ Free(b) \in SUBSET Slots
    BY BagParts
  <1>3. \A s \in Holding(b, i) : b[s].quantity \in Nat /\ b[s].quantity <= Cap(i)
    BY BagParts, PileParts
  <1>4. \A s \in Holding(b, i) : Cap(i) - b[s].quantity \in Nat
    BY <1>1, <1>3
  <1> QED
    BY <1>1, <1>2, <1>4 DEF Rooms, FreeRooms

(* What does not fit in the limits; all of it when nothing does.           *)
LEMMA LeftoverIs ==
    ASSUME NEW D \in SUBSET Slots, NEW limit \in [D -> Nat], NEW n \in Nat
    PROVE  /\ Leftover(n, limit) \in Nat
           /\ (\A s \in D : limit[s] = 0) => Leftover(n, limit) = n
  <1>1. SumFunction(limit) = SumFunctionOnSet(limit, D)
    BY SumOfFunction
  <1>2. SumFunctionOnSet(limit, D) \in Nat
    BY SlotsAreFinite, SumNat
  <1> DEFINE m == n - SumFunction(limit)
  <1>3. m \in Int
    BY <1>1, <1>2
  <1>4. Leftover(n, limit) = Max({0, m})
    BY DEF Leftover
  <1>5. (\A s \in D : limit[s] = 0) => m = n
    <2>1. ASSUME \A s \in D : limit[s] = 0 PROVE SumFunctionOnSet(limit, D) = 0
      BY <2>1, SlotsAreFinite, SumZero
    <2> QED
      BY <1>1, <2>1
  <1> HIDE DEF m
  <1>6. Max({0, m}) = IF 0 <= m THEN m ELSE 0
    BY <1>3, MaxOfTwo
  <1> QED
    BY <1>3, <1>4, <1>5, <1>6

(* The new piles are numbered in slot order.                               *)
Rank(b, s) == Cardinality({t \in Free(b) : t < s})

(* Free slots have different ranks.                                        *)
LEMMA RanksDiffer ==
    ASSUME NEW b \in Bag
    PROVE  /\ \A s \in Slots : Rank(b, s) \in Nat
           /\ \A s, t \in Free(b) : s # t => Rank(b, s) # Rank(b, t)
  <1>1. Free(b) \in SUBSET Slots
    BY BagParts
  <1>2. ASSUME NEW s \in Slots PROVE Rank(b, s) \in Nat
    <2>1. {t \in Free(b) : t < s} \in SUBSET Slots
      BY <1>1
    <2> QED
      BY <2>1, SlotsAreFinite DEF Rank
  <1>3. ASSUME NEW s \in Free(b), NEW t \in Free(b), s < t PROVE Rank(b, s) < Rank(b, t)
    <2> DEFINE S == {u \in Free(b) : u < s}
               T == {u \in Free(b) : u < t}
    <2>1. s \in Int /\ t \in Int /\ \A u \in Free(b) : u \in Int
      BY <1>1, SlotsAreFinite
    <2>2. S \subseteq T
      <3>1. ASSUME NEW u \in Free(b), u < s PROVE u < t
        <4>1. u \in Int
          BY <2>1
        <4> QED
          BY <1>3, <2>1, <3>1, <4>1
      <3> QED
        BY <3>1
    <2>3. s \in T /\ s \notin S
      BY <1>3, <2>1
    <2>4. IsFiniteSet(T) /\ Cardinality(T) \in Nat /\ Cardinality(S) \in Nat
      <3>1. T \in SUBSET Slots /\ S \in SUBSET Slots
        BY <1>1
      <3> HIDE DEF S, T
      <3> QED
        BY <3>1, SlotsAreFinite
    <2> HIDE DEF S, T
    <2>5. Cardinality(S) <= Cardinality(T)
      BY <2>2, <2>4, FS_Subset
    <2>6. Cardinality(S) # Cardinality(T)
      BY <2>2, <2>3, <2>4, FS_Subset
    <2>7. Cardinality(S) < Cardinality(T)
      BY <2>4, <2>5, <2>6
    <2> QED
      BY <2>7 DEF Rank, S, T
  <1>4. ASSUME NEW s \in Free(b), NEW t \in Free(b), s # t PROVE Rank(b, s) # Rank(b, t)
    <2>1. s \in Int /\ t \in Int /\ s \in Slots /\ t \in Slots
      BY <1>1, SlotsAreFinite
    <2>2. Rank(b, s) \in Nat /\ Rank(b, t) \in Nat
      BY <1>2, <2>1
    <2>3. s < t \/ t < s
      BY <1>4, <2>1
    <2> QED
      BY <1>3, <2>2, <2>3
  <1> QED
    BY <1>2, <1>4

(* What add_stackable leaves in a slot.                                    *)
LEMMA AddStackableSlots ==
    ASSUME NEW b \in Bag, NEW i \in Items, NEW n \in Nat, NEW nextId \in Nat \ {0},
           NEW c, c = add_stackable(b, i, n, nextId)
    PROVE  /\ c \in Bag
           /\ \A s \in Holding(b, i) :
                 /\ c[s] # Nothing /\ c[s].item = i /\ c[s].id = b[s].id
                 /\ c[s].quantity = b[s].quantity + Portion(n, Rooms(b, i), s)
                 /\ Portion(n, Rooms(b, i), s) \in Nat
           /\ \A s \in Occupied(b) \ Holding(b, i) : c[s] = b[s]
           /\ \A s \in Free(b) :
                 c[s] # Nothing => c[s].item = i /\ c[s].id = nextId + Rank(b, s)
           /\ \A s \in Free(b) :
                 Portion(Leftover(n, Rooms(b, i)), FreeRooms(b, i), s) > 0 => c[s] # Nothing
  <1> DEFINE rest == Leftover(n, Rooms(b, i))
             p(s) == Portion(n, Rooms(b, i), s)
             q(s) == Portion(rest, FreeRooms(b, i), s)
  <1>1. /\ Holding(b, i) \in SUBSET Slots /\ Rooms(b, i) \in [Holding(b, i) -> Nat]
        /\ Free(b) \in SUBSET Slots /\ FreeRooms(b, i) \in [Free(b) -> Nat]
        /\ \A s \in Holding(b, i) : Rooms(b, i)[s] = Cap(i) - b[s].quantity
        /\ \A s \in Free(b) : FreeRooms(b, i)[s] = Cap(i) /\ Cap(i) > 0
    BY RoomsAreNat
  <1>2. rest \in Nat
    BY <1>1, LeftoverIs
  <1> HIDE DEF rest
  <1>3. \A s \in Holding(b, i) : p(s) \in 0..(Cap(i) - b[s].quantity)
    BY <1>1, PortionIs
  <1>4. \A s \in Free(b) : q(s) \in 0..Cap(i)
    BY <1>1, <1>2, PortionIs
  <1> HIDE DEF p, q
  <1>5. c = [s \in Slots |->
               IF s \in Holding(b, i) THEN [b[s] EXCEPT !.quantity = @ + p(s)]
               ELSE IF s \in Free(b) /\ q(s) > 0
                 THEN [id |-> nextId + Rank(b, s), item |-> i, quantity |-> q(s)]
               ELSE b[s]]
    BY BagParts DEF add_stackable, Rank, rest, p, q
  <1>6. Cap(i) \in Nat \ {0}
    BY CapsArePositive DEF CapPositive
  <1>7. ASSUME NEW s \in Holding(b, i)
        PROVE  /\ c[s] \in Pile /\ c[s].item = i /\ c[s].id = b[s].id
               /\ c[s].quantity = b[s].quantity + p(s) /\ p(s) \in Nat
    <2>1. b[s] \in Pile /\ b[s].item = i /\ s \in Slots
      BY BagParts
    <2>2. b[s].quantity \in Nat \ {0} /\ b[s].quantity <= Cap(i)
      BY <2>1, PileParts
    <2>3. p(s) \in Nat /\ b[s].quantity + p(s) \in Nat \ {0} /\ b[s].quantity + p(s) <= Cap(i)
      BY <1>3, <1>6, <2>2
    <2>4. c[s] = [b[s] EXCEPT !.quantity = b[s].quantity + p(s)]
      BY <1>5, <2>1
    <2> QED
      BY <2>1, <2>3, <2>4, PileResized
  <1>8. ASSUME NEW s \in Free(b)
        PROVE  /\ c[s] \in Pile \cup {Nothing}
               /\ c[s] # Nothing => c[s].item = i /\ c[s].id = nextId + Rank(b, s)
               /\ q(s) > 0 => c[s] # Nothing
    <2>1. s \in Slots /\ s \notin Holding(b, i) /\ b[s] = Nothing
      BY BagParts
    <2>2. CASE q(s) > 0
      <3>1. c[s] = [id |-> nextId + Rank(b, s), item |-> i, quantity |-> q(s)]
        BY <1>5, <2>1, <2>2
      <3>2. nextId + Rank(b, s) \in Nat \ {0}
        <4>1. Rank(b, s) \in Nat
          BY <2>1, RanksDiffer
        <4> QED
          BY <4>1
      <3>3. q(s) \in Nat \ {0} /\ q(s) <= Cap(i)
        BY <1>4, <1>6, <2>2
      <3>4. c[s] \in Pile
        BY <3>1, <3>2, <3>3, PileMade
      <3>5. c[s] # Nothing
        BY <3>4, NothingIsNoPile
      <3> QED
        BY <3>1, <3>4, <3>5
    <2>3. CASE ~ (q(s) > 0)
      BY <1>5, <2>1, <2>3
    <2> QED
      BY <2>2, <2>3
  <1>9. ASSUME NEW s \in Occupied(b) \ Holding(b, i) PROVE c[s] = b[s] /\ s \in Slots
    <2>1. s \in Slots /\ s \notin Free(b)
      BY BagParts
    <2> QED
      BY <1>5, <2>1
  <1>10. c \in Bag
    <2>1. ASSUME NEW s \in Slots PROVE c[s] \in Pile \cup {Nothing}
      <3>1. s \in Free(b) \/ s \in Occupied(b)
        BY BagParts
      <3>2. b[s] \in Pile \cup {Nothing}
        BY BagParts
      <3> QED
        BY <1>7, <1>8, <1>9, <3>1, <3>2
    <2> QED
      BY <1>5, <2>1 DEF Bag
  <1>11. \A s \in Holding(b, i) : c[s] # Nothing
    BY <1>7, NothingIsNoPile
  <1>12. /\ \A s \in Holding(b, i) :
              /\ c[s].item = i /\ c[s].id = b[s].id
              /\ c[s].quantity = b[s].quantity + Portion(n, Rooms(b, i), s)
              /\ Portion(n, Rooms(b, i), s) \in Nat
         /\ \A s \in Free(b) :
              Portion(Leftover(n, Rooms(b, i)), FreeRooms(b, i), s) > 0 => c[s] # Nothing
    BY <1>7, <1>8 DEF p, q, rest
  <1> QED
    BY <1>8, <1>9, <1>10, <1>11, <1>12

(* What a slot counts for item i.                                          *)
Held(b, i) == [s \in Slots |-> IF s \in Holding(b, i) THEN b[s].quantity ELSE 0]

(* What Held is, slot by slot.                                             *)
LEMMA HeldIs ==
    ASSUME NEW b \in Bag, NEW i
    PROVE  \A s \in Slots :
              /\ Held(b, i)[s] \in Nat
              /\ b[s] = Nothing => Held(b, i)[s] = 0
              /\ b[s] # Nothing /\ b[s].item # i => Held(b, i)[s] = 0
              /\ b[s] # Nothing /\ b[s].item = i => Held(b, i)[s] = b[s].quantity
  <1>1. TAKE s \in Slots
  <1>2. Held(b, i)[s] = IF s \in Holding(b, i) THEN b[s].quantity ELSE 0
    BY DEF Held
  <1>3. s \in Holding(b, i) <=> b[s] # Nothing /\ b[s].item = i
    BY BagParts
  <1>4. s \in Holding(b, i) => b[s].quantity \in Nat
    BY <1>3, BagParts, PileParts
  <1> QED
    BY <1>2, <1>3, <1>4

(* count_item is the sum of Held over all the slots.                       *)
LEMMA CountIs ==
    ASSUME NEW b \in Bag, NEW i
    PROVE  count_item(b, i) = SumFunctionOnSet(Held(b, i), Slots) /\ count_item(b, i) \in Nat
  <1> DEFINE D == Holding(b, i)
             f == [s \in D |-> b[s].quantity]
  <1>1. D \in SUBSET Slots
    BY BagParts
  <1>2. IsFiniteSet(D) /\ IsFiniteSet(Slots)
    BY <1>1, SlotsAreFinite
  <1>3. /\ \A s \in Slots : Held(b, i)[s] \in Nat
        /\ \A s \in Slots \ D : Held(b, i)[s] = 0
    BY <1>1, HeldIs DEF Held
  <1>4. \A s \in D : f[s] = Held(b, i)[s]
    BY <1>1 DEF Held
  <1>5. count_item(b, i) = SumFunctionOnSet(f, D)
    BY SumOfFunction DEF count_item
  <1> HIDE DEF D, f
  <1>6. \A s \in Slots : Held(b, i)[s] \in Int
    BY <1>3
  <1>7. SumFunctionOnSet(Held(b, i), Slots) = SumFunctionOnSet(Held(b, i), D)
    BY <1>1, <1>2, <1>3, <1>6, SumOnSubset
  <1>8. \A s \in D : f[s] \in Int /\ f[s] = Held(b, i)[s]
    BY <1>1, <1>4, <1>6
  <1>9. SumFunctionOnSet(f, D) = SumFunctionOnSet(Held(b, i), D)
    BY <1>2, <1>8, SumSame
  <1>10. SumFunctionOnSet(Held(b, i), Slots) \in Nat
    BY <1>2, <1>3, SumNat
  <1> QED
    BY <1>5, <1>7, <1>9, <1>10

(* One slot changes.                                                       *)
LEMMA CountOneSlot ==
    ASSUME NEW b \in Bag, NEW c \in Bag, NEW i, NEW s \in Slots,
           \A t \in Slots \ {s} : b[t] = c[t]
    PROVE  count_item(c, i) = count_item(b, i) - Held(b, i)[s] + Held(c, i)[s]
  <1>1. \A t \in Slots : Held(b, i)[t] \in Int /\ Held(c, i)[t] \in Int
    BY HeldIs
  <1>2. \A t \in Slots \ {s} : Held(b, i)[t] = Held(c, i)[t]
    <2>1. TAKE t \in Slots \ {s}
    <2>2. t \in Holding(b, i) <=> t \in Holding(c, i)
      BY BagParts
    <2> QED
      BY <2>2 DEF Held
  <1>3. IsFiniteSet(Slots)
    BY SlotsAreFinite
  <1> DEFINE f == Held(b, i)
             g == Held(c, i)
  <1>4. /\ \A t \in Slots : f[t] \in Int /\ g[t] \in Int
        /\ \A t \in Slots \ {s} : f[t] = g[t]
    BY <1>1, <1>2
  <1> HIDE DEF f, g
  <1>5. SumFunctionOnSet(g, Slots) = SumFunctionOnSet(f, Slots) - f[s] + g[s]
    BY <1>3, <1>4, SumOneChanged
  <1> QED
    BY <1>5, CountIs DEF f, g

(* Nothing is in an empty bag.                                             *)
LEMMA EmptyCounts ==
    /\ EmptyInventory \in Bag
    /\ \A i : count_item(EmptyInventory, i) = 0
  <1>1. EmptyInventory \in Bag
    BY DEF EmptyInventory, Bag
  <1>2. ASSUME NEW i PROVE count_item(EmptyInventory, i) = 0
    <2>1. \A s \in Slots : EmptyInventory[s] = Nothing
      BY DEF EmptyInventory
    <2>2. \A s \in Slots : Held(EmptyInventory, i)[s] = 0
      BY <1>1, <2>1, HeldIs
    <2>3. SumFunctionOnSet(Held(EmptyInventory, i), Slots) = 0
      BY <2>2, SlotsAreFinite, SumZero
    <2> QED
      BY <1>1, <2>3, CountIs
  <1> QED
    BY <1>1, <1>2

-----------------------------------------------------------------------------
(* A stack that arrives is found in the bag.                               *)
LEMMA AddStackableCounts ==
    ASSUME NEW b \in Bag, NEW i \in Items, NEW n \in Nat \ {0}, NEW nextId \in Nat \ {0},
           space_for(b, i) > 0
    PROVE  /\ count_item(add_stackable(b, i, n, nextId), i) > count_item(b, i)
           /\ \A j : j # i => count_item(add_stackable(b, i, n, nextId), j) = count_item(b, j)
  <1> DEFINE c == add_stackable(b, i, n, nextId)
             rooms == Rooms(b, i)
             rest == Leftover(n, rooms)
  <1>1. /\ c \in Bag
        /\ \A s \in Holding(b, i) :
              /\ c[s] # Nothing /\ c[s].item = i
              /\ c[s].quantity = b[s].quantity + Portion(n, rooms, s)
              /\ Portion(n, rooms, s) \in Nat
        /\ \A s \in Occupied(b) \ Holding(b, i) : c[s] = b[s]
        /\ \A s \in Free(b) : c[s] # Nothing => c[s].item = i
        /\ \A s \in Free(b) : Portion(rest, FreeRooms(b, i), s) > 0 => c[s] # Nothing
    BY AddStackableSlots
  <1>2. /\ Holding(b, i) \in SUBSET Slots /\ rooms \in [Holding(b, i) -> Nat]
        /\ Free(b) \in SUBSET Slots /\ FreeRooms(b, i) \in [Free(b) -> Nat]
        /\ \A s \in Free(b) : FreeRooms(b, i)[s] > 0
        /\ Cap(i) \in Nat
    BY RoomsAreNat, CapsArePositive DEF CapPositive
  <1> HIDE DEF c
  <1>3. \A s \in Slots : s \in Free(b) \/ s \in Holding(b, i) \/ s \in Occupied(b) \ Holding(b, i)
    BY BagParts
  <1>4. ASSUME NEW s \in Slots
        PROVE  /\ Held(b, i)[s] \in Int /\ Held(c, i)[s] \in Int
               /\ Held(b, i)[s] <= Held(c, i)[s]
               /\ s \in Holding(b, i) /\ Portion(n, rooms, s) > 0 => Held(b, i)[s] < Held(c, i)[s]
               /\ s \in Free(b) /\ c[s] # Nothing => Held(b, i)[s] < Held(c, i)[s]
    <2>1. Held(b, i)[s] \in Nat /\ Held(c, i)[s] \in Nat
      BY <1>1, HeldIs
    <2>2. CASE s \in Holding(b, i)
      <3>1. b[s] # Nothing /\ b[s].item = i /\ s \notin Free(b)
        BY <2>2, BagParts
      <3>2. Held(b, i)[s] = b[s].quantity /\ Held(c, i)[s] = c[s].quantity
        BY <1>1, <2>2, <3>1, HeldIs
      <3>3. c[s].quantity = b[s].quantity + Portion(n, rooms, s) /\ Portion(n, rooms, s) \in Nat
        BY <1>1, <2>2
      <3> HIDE DEF rooms
      <3> QED
        BY <2>1, <3>1, <3>2, <3>3
    <2>3. CASE s \in Free(b)
      <3>1. b[s] = Nothing /\ s \notin Holding(b, i)
        BY <2>3, BagParts
      <3>2. Held(b, i)[s] = 0
        BY <3>1, HeldIs
      <3>3. c[s] # Nothing => Held(c, i)[s] > 0
        <4>1. SUFFICES ASSUME c[s] # Nothing PROVE Held(c, i)[s] > 0
          OBVIOUS
        <4>2. c[s] \in Pile /\ c[s].item = i
          BY <1>1, <2>3, <4>1, BagParts
        <4>3. Held(c, i)[s] = c[s].quantity
          BY <1>1, <4>1, <4>2, HeldIs
        <4> QED
          BY <4>2, <4>3, PileParts
      <3> QED
        BY <2>1, <3>1, <3>2, <3>3
    <2>4. CASE s \in Occupied(b) \ Holding(b, i)
      <3>1. b[s] # Nothing /\ b[s].item # i /\ s \notin Free(b) /\ c[s] = b[s]
        BY <1>1, <2>4, BagParts
      <3>2. Held(b, i)[s] = 0
        BY <3>1, HeldIs
      <3> QED
        BY <2>1, <2>4, <3>1, <3>2
    <2> QED
      BY <1>3, <2>2, <2>3, <2>4
  <1>5. \E s \in Slots : Held(b, i)[s] < Held(c, i)[s]
    <2>1. CASE \E s \in Holding(b, i) : rooms[s] > 0
      <3>1. PICK s \in Holding(b, i) : Portion(n, rooms, s) > 0
        <4> HIDE DEF rooms
        <4> QED
          BY <1>2, <2>1, PortionIs
      <3> QED
        BY <1>2, <1>4, <3>1
    <2>2. CASE \A s \in Holding(b, i) : ~ (rooms[s] > 0)
      <3>1. \A s \in Holding(b, i) : rooms[s] = 0
        <4> HIDE DEF rooms
        <4> QED
          BY <1>2, <2>2
      <3>2. rest = n
        BY <1>2, <3>1, LeftoverIs
      <3>3. SumFunction(rooms) = 0
        <4>1. IsFiniteSet(Holding(b, i)) /\ DOMAIN rooms = Holding(b, i)
          BY <1>2, SlotsAreFinite
        <4>2. SumFunctionOnSet(rooms, Holding(b, i)) = 0
          <5> HIDE DEF rooms
          <5> QED
            BY <3>1, <4>1, SumZero
        <4> QED
          BY <4>1, <4>2, SumOfFunction
      <3>4. Free(b) # {}
        <4>1. SUFFICES ASSUME Free(b) = {} PROVE FALSE
          OBVIOUS
        <4>2. Cardinality(Free(b)) = 0
          BY <4>1, FS_EmptySet
        <4>3. space_for(b, i) = 0 + Cap(i) * 0
          BY <3>3, <4>2 DEF space_for
        <4> QED
          BY <1>2, <4>3
      <3>5. PICK s \in Free(b) : Portion(n, FreeRooms(b, i), s) > 0
        BY <1>2, <3>4, PortionIs
      <3>6. c[s] # Nothing
        <4> HIDE DEF rest
        <4> QED
          BY <1>1, <3>2, <3>5
      <3> QED
        BY <1>2, <1>4, <3>6
    <2> QED
      BY <2>1, <2>2
  <1>6. count_item(c, i) > count_item(b, i)
    <2>1. PICK s \in Slots : Held(b, i)[s] < Held(c, i)[s]
      BY <1>5
    <2>2. \A t \in Slots : /\ Held(b, i)[t] \in Int /\ Held(c, i)[t] \in Int
                           /\ Held(b, i)[t] <= Held(c, i)[t]
      BY <1>4
    <2>3. SumFunctionOnSet(Held(b, i), Slots) < SumFunctionOnSet(Held(c, i), Slots)
      BY <2>1, <2>2, SlotsAreFinite, SumGrows
    <2>4. count_item(b, i) < count_item(c, i) /\ count_item(b, i) \in Nat /\ count_item(c, i) \in Nat
      BY <1>1, <2>3, CountIs
    <2> DEFINE x == count_item(b, i)
               y == count_item(c, i)
    <2>5. x < y /\ x \in Nat /\ y \in Nat
      BY <2>4
    <2> HIDE DEF x, y
    <2>6. y > x
      BY <2>5
    <2> QED
      BY <2>6 DEF x, y
  <1>7. ASSUME NEW j, j # i PROVE count_item(c, j) = count_item(b, j)
    <2>1. ASSUME NEW s \in Slots PROVE Held(b, j)[s] \in Int /\ Held(b, j)[s] = Held(c, j)[s]
      <3>1. Held(b, j)[s] \in Nat
        BY HeldIs
      <3>2. CASE s \in Holding(b, i)
        <4>1. b[s] # Nothing /\ b[s].item = i /\ c[s] # Nothing /\ c[s].item = i
          BY <1>1, <3>2, BagParts
        <4> QED
          BY <1>1, <1>7, <4>1, HeldIs
      <3>3. CASE s \in Free(b)
        <4>1. b[s] = Nothing /\ (c[s] # Nothing => c[s].item = i)
          BY <1>1, <3>3, BagParts
        <4> QED
          BY <1>1, <1>7, <4>1, HeldIs
      <3>4. CASE s \in Occupied(b) \ Holding(b, i)
        <4>1. c[s] = b[s]
          BY <1>1, <3>4
        <4>2. s \in Holding(b, j) <=> s \in Holding(c, j)
          BY <1>1, <4>1, BagParts
        <4> QED
          BY <3>1, <4>1, <4>2 DEF Held
      <3> QED
        BY <1>3, <3>1, <3>2, <3>3, <3>4
    <2>2. SumFunctionOnSet(Held(b, j), Slots) = SumFunctionOnSet(Held(c, j), Slots)
      BY <2>1, SlotsAreFinite, SumSame
    <2> QED
      BY <1>1, <2>2, CountIs
  <1> QED
    BY <1>6, <1>7 DEF c

-----------------------------------------------------------------------------
(* A pile that leaves a slot, whole or in part.                            *)
LEMMA TakeIs ==
    ASSUME NEW b \in Bag, NEW s \in Slots, NEW n, CanTake(b, s, n), NEW newId \in Nat \ {0}
    PROVE  /\ TakenPile(b, s, n, newId) \in Pile
           /\ TakenPile(b, s, n, newId).item = b[s].item
           /\ TakenPile(b, s, n, newId).quantity = n
           /\ TakenPile(b, s, n, newId).id = (IF n = b[s].quantity THEN b[s].id ELSE newId)
           /\ BagAfterTake(b, s, n) \in Bag
           /\ \A t \in Slots \ {s} : BagAfterTake(b, s, n)[t] = b[t]
           /\ n = b[s].quantity => BagAfterTake(b, s, n)[s] = Nothing
           /\ n # b[s].quantity => /\ BagAfterTake(b, s, n)[s] # Nothing
                                   /\ BagAfterTake(b, s, n)[s].id = b[s].id
           /\ \A i : count_item(BagAfterTake(b, s, n), i)
                        = count_item(b, i) - (IF i = b[s].item THEN n ELSE 0)
           /\ n \in Nat \ {0}
  <1> DEFINE p == b[s]
             c == BagAfterTake(b, s, n)
             k == TakenPile(b, s, n, newId)
  <1>1. p \in Pile /\ p # Nothing /\ DOMAIN b = Slots
    BY BagParts DEF CanTake
  <1>2. p.quantity \in Nat \ {0} /\ p.quantity <= Cap(p.item) /\ p.item \in Items
    BY <1>1, PileParts
  <1>3. n \in Nat \ {0} /\ n <= p.quantity /\ n <= Cap(p.item)
    <2>1. n \in 1..p.quantity
      BY DEF CanTake
    <2>2. Cap(p.item) \in Nat
      BY <1>2, CapsArePositive DEF CapPositive
    <2> HIDE DEF p
    <2> QED
      BY <1>2, <2>1, <2>2
  <1>4. CASE n = p.quantity
    <2>1. k = p /\ c = [b EXCEPT ![s] = Nothing]
      BY <1>4 DEF TakenPile, BagAfterTake
    <2>2. c \in Bag /\ c[s] = Nothing /\ \A t \in Slots \ {s} : c[t] = b[t]
      BY <1>1, <2>1 DEF Bag
    <2>3. k \in Pile /\ k.item = p.item /\ k.quantity = n /\ k.id = p.id
      BY <1>1, <1>4, <2>1
    <2>4. ASSUME NEW i PROVE count_item(c, i) = count_item(b, i) - (IF i = p.item THEN n ELSE 0)
      <3> HIDE DEF c
      <3>1. count_item(c, i) = count_item(b, i) - Held(b, i)[s] + Held(c, i)[s]
        BY <2>2, CountOneSlot
      <3>2. Held(c, i)[s] = 0
        BY <2>2, HeldIs
      <3>3. Held(b, i)[s] = IF i = p.item THEN n ELSE 0
        BY <1>1, <1>4, HeldIs
      <3>4. count_item(b, i) \in Nat
        BY CountIs
      <3> QED
        BY <1>3, <3>1, <3>2, <3>3, <3>4
    <2> QED
      BY <1>3, <1>4, <2>2, <2>3, <2>4
  <1>5. CASE n # p.quantity
    <2> DEFINE q == p.quantity - n
    <2>1. q \in Nat \ {0} /\ q <= Cap(p.item)
      <3>1. Cap(p.item) \in Nat
        BY <1>2, CapsArePositive DEF CapPositive
      <3> HIDE DEF p
      <3> QED
        BY <1>2, <1>3, <1>5, <3>1
    <2>2. k = Renumbered(p, newId, n) /\ c = [b EXCEPT ![s] = [p EXCEPT !.quantity = q]]
      BY <1>1, <1>5 DEF TakenPile, BagAfterTake, Renumbered
    <2>3. [p EXCEPT !.quantity = q] \in Pile /\ [p EXCEPT !.quantity = q].id = p.id
             /\ [p EXCEPT !.quantity = q].item = p.item /\ [p EXCEPT !.quantity = q].quantity = q
      BY <1>1, <2>1, PileResized
    <2>4. k \in Pile /\ k.item = p.item /\ k.quantity = n /\ k.id = newId
      <3> HIDE DEF p, k
      <3> QED
        BY <1>1, <1>3, <2>2, PileRenumbered
    <2>5. /\ c \in Bag /\ \A t \in Slots \ {s} : c[t] = b[t]
          /\ c[s] = [p EXCEPT !.quantity = q]
      BY <1>1, <2>2, <2>3 DEF Bag
    <2>6. c[s] \in Pile /\ c[s].id = p.id /\ c[s].item = p.item /\ c[s].quantity = q /\ c[s] # Nothing
      <3>1. c[s] \in Pile /\ c[s].id = p.id /\ c[s].item = p.item /\ c[s].quantity = q
        BY <2>3, <2>5
      <3> QED
        BY <3>1, PileParts
    <2>7. ASSUME NEW i PROVE count_item(c, i) = count_item(b, i) - (IF i = p.item THEN n ELSE 0)
      <3> HIDE DEF c
      <3>1. count_item(c, i) = count_item(b, i) - Held(b, i)[s] + Held(c, i)[s]
        BY <2>5, CountOneSlot
      <3>2. Held(c, i)[s] = IF i = p.item THEN q ELSE 0
        <4>1. c \in Bag /\ c[s] # Nothing
          BY <2>5, <2>6
        <4>2. /\ c[s].item = i => Held(c, i)[s] = c[s].quantity
              /\ c[s].item # i => Held(c, i)[s] = 0
          BY <4>1, HeldIs
        <4> HIDE DEF p, q
        <4> QED
          BY <2>6, <4>2
      <3>3. Held(b, i)[s] = IF i = p.item THEN p.quantity ELSE 0
        BY <1>1, HeldIs
      <3>4. count_item(b, i) \in Nat
        BY CountIs
      <3> DEFINE x == count_item(b, i)
                 y == count_item(c, i)
                 u == p.quantity
      <3>5. /\ u \in Nat /\ n \in Nat /\ q = u - n /\ x \in Nat
            /\ y = x - (IF i = p.item THEN u ELSE 0) + (IF i = p.item THEN q ELSE 0)
        BY <1>2, <1>3, <3>1, <3>2, <3>3, <3>4
      <3> HIDE DEF x, y, u, q
      <3>6. y = x - (IF i = p.item THEN n ELSE 0)
        BY <3>5
      <3> QED
        BY <3>6 DEF x, y
    <2> QED
      BY <1>3, <1>5, <2>4, <2>5, <2>6, <2>7
  <1> QED
    BY <1>4, <1>5

(* A pile that arrives.                                                    *)
LEMMA PutIs ==
    ASSUME NEW b \in Bag, NEW p \in Pile, Free(b) # {}
    PROVE  /\ PutInFirstFree(b, p) \in Bag
           /\ \E s \in Slots : /\ b[s] = Nothing /\ PutInFirstFree(b, p)[s] = p
                               /\ \A t \in Slots \ {s} : PutInFirstFree(b, p)[t] = b[t]
           /\ \A i : count_item(PutInFirstFree(b, p), i)
                        = count_item(b, i) + (IF i = p.item THEN p.quantity ELSE 0)
  <1> DEFINE s == Min(Free(b))
             c == PutInFirstFree(b, p)
  <1>1. Free(b) \in SUBSET Slots /\ DOMAIN b = Slots
    BY BagParts
  <1>2. s \in Free(b)
    <2>1. Free(b) \in SUBSET Int /\ IsFiniteSet(Free(b))
      BY <1>1, SlotsAreFinite
    <2> QED
      BY <2>1, Extremes
  <1>3. s \in Slots /\ b[s] = Nothing
    BY <1>2, BagParts
  <1>4. c = [b EXCEPT ![s] = p]
    BY DEF PutInFirstFree
  <1> HIDE DEF s
  <1>5. c \in Bag /\ c[s] = p /\ \A t \in Slots \ {s} : c[t] = b[t]
    BY <1>1, <1>3, <1>4 DEF Bag
  <1>6. ASSUME NEW i PROVE count_item(c, i) = count_item(b, i) + (IF i = p.item THEN p.quantity ELSE 0)
    <2> HIDE DEF c
    <2>1. count_item(c, i) = count_item(b, i) - Held(b, i)[s] + Held(c, i)[s]
      BY <1>3, <1>5, CountOneSlot
    <2>2. Held(b, i)[s] = 0
      BY <1>3, HeldIs
    <2>3. Held(c, i)[s] = IF i = p.item THEN p.quantity ELSE 0
      <3>1. c[s] # Nothing /\ c[s] = p
        BY <1>5, PileParts
      <3> QED
        BY <1>3, <1>5, <3>1, HeldIs
    <2>4. count_item(b, i) \in Nat /\ p.quantity \in Nat
      BY CountIs, PileParts
    <2> QED
      BY <2>1, <2>2, <2>3, <2>4
  <1> QED
    BY <1>3, <1>5, <1>6

-----------------------------------------------------------------------------
(* 3. The order books.                                                     *)

(* The image of a finite set is finite.                                    *)
LEMMA FiniteImage ==
    ASSUME NEW S, IsFiniteSet(S), NEW f
    PROVE  IsFiniteSet({f[x] : x \in S})
  <1> DEFINE P == {T \in SUBSET S : IsFiniteSet({f[x] : x \in T})}
  <1>1. {} \in P
    <2>1. {f[x] : x \in {}} = {}
      OBVIOUS
    <2> QED
      BY <2>1, FS_EmptySet
  <1>2. ASSUME NEW T \in SUBSET S, NEW x \in S, T \in P PROVE T \cup {x} \in P
    <2> DEFINE im == {f[y] : y \in T}
    <2>1. {f[y] : y \in T \cup {x}} = im \cup {f[x]}
      OBVIOUS
    <2>2. IsFiniteSet(im)
      BY <1>2
    <2> HIDE DEF im
    <2>3. IsFiniteSet(im \cup {f[x]})
      BY <2>2, FS_AddElement
    <2> QED
      BY <2>1, <2>3
  <1>3. S \in P
    <2> HIDE DEF P
    <2> QED
      BY <1>1, <1>2, SetInduction
  <1> QED
    BY <1>3

(* A legal fee leaves the seller something.                                *)
LEMMA FeeIsNat ==
    ASSUME NEW m \in Markets, NEW price \in Nat
    PROVE  /\ fee_gold(m, price) \in Nat
           /\ FeeIsLegal(m, price) => /\ seller_receives(m, price) \in Nat \ {0}
                                      /\ seller_receives(m, price) <= price
           /\ seller_receives(m, price) = price - fee_gold(m, price)
  <1> DEFINE k == MarketFeeBps[m] + AccountFeeBps
             x == price * k
  <1>1. k \in Nat
    BY MarketAssumption
  <1> HIDE DEF k
  <1>2. x \in Nat
    BY <1>1
  <1>3. fee_gold(m, price) = x \div 10000
    BY DEF fee_gold, BPS_DENOMINATOR, k
  <1> HIDE DEF x
  <1>4. fee_gold(m, price) \in Nat
    BY <1>2, <1>3
  <1> QED
    BY <1>4 DEF FeeIsLegal, seller_receives

(* Whole division keeps the fee within a piece of the posted rate.         *)
LEMMA FeeIsPosted ==
    ASSUME NEW m \in Markets, NEW price \in Nat
    PROVE  IsPostedFee(fee_gold(m, price), m, price)
  <1> DEFINE k == MarketFeeBps[m] + AccountFeeBps
             x == price * k
  <1>1. k \in Nat
    BY MarketAssumption
  <1> HIDE DEF k
  <1>2. x \in Nat
    BY <1>1
  <1>3. fee_gold(m, price) = x \div 10000
    BY DEF fee_gold, BPS_DENOMINATOR, k
  <1>4. IsPostedFee(fee_gold(m, price), m, price)
          <=> /\ fee_gold(m, price) * 10000 <= x
              /\ x < (fee_gold(m, price) + 1) * 10000
    BY DEF IsPostedFee, BPS_DENOMINATOR, k
  <1> HIDE DEF x
  <1>5. (x \div 10000) * 10000 <= x /\ x < (x \div 10000 + 1) * 10000
    BY <1>2
  <1> QED
    BY <1>3, <1>4, <1>5

-----------------------------------------------------------------------------
(* What a character has in escrow.                                         *)

BidsOf(book, c) == {o \in book : o.buyer = c}
Escrow(book, c) == SumFunction([o \in BidsOf(book, c) |-> o.price])
ListingsOf(S, c, i) == {o \in S : o.seller = c /\ o.pile.item = i}
Offered(S, c, i) == SumFunction([o \in ListingsOf(S, c, i) |-> o.pile.quantity])

Priced(book) == IsFiniteSet(book) /\ \A o \in book : o.price \in Nat
Filled(S) == IsFiniteSet(S) /\ \A o \in S : o.pile.quantity \in Nat

(* Escrow as a sum over any set of bids that holds the book.               *)
LEMMA EscrowIs ==
    ASSUME NEW book, Priced(book), NEW U, book \subseteq U, NEW c
    PROVE  Escrow(book, c) = SumFunctionOnSet([o \in U |-> o.price], BidsOf(book, c))
  <1> DEFINE T == BidsOf(book, c)
             f == [o \in T |-> o.price]
             g == [o \in U |-> o.price]
  <1>1. IsFiniteSet(T) /\ T \subseteq book
    BY FS_Subset DEF BidsOf, Priced
  <1>2. Escrow(book, c) = SumFunctionOnSet(f, T)
    BY SumOfFunction DEF Escrow
  <1>3. \A o \in T : f[o] \in Int /\ f[o] = g[o]
    BY <1>1 DEF Priced
  <1> HIDE DEF T, f, g
  <1>4. SumFunctionOnSet(f, T) = SumFunctionOnSet(g, T)
    BY <1>1, <1>3, SumSame
  <1> QED
    BY <1>2, <1>4 DEF T, g

(* Escrow is a natural.                                                    *)
LEMMA EscrowIsNat ==
    ASSUME NEW book, Priced(book), NEW c
    PROVE  Escrow(book, c) \in Nat
  <1> DEFINE T == BidsOf(book, c)
             g == [o \in book |-> o.price]
  <1>1. IsFiniteSet(T) /\ \A o \in T : g[o] \in Nat
    BY FS_Subset DEF BidsOf, Priced
  <1>2. Escrow(book, c) = SumFunctionOnSet(g, T)
    BY EscrowIs
  <1> HIDE DEF T, g
  <1> QED
    BY <1>1, <1>2, SumNat

(* A bid puts its price in its buyer's escrow.                             *)
LEMMA EscrowAdd ==
    ASSUME NEW book, Priced(book), NEW x, x \notin book, x.price \in Nat
    PROVE  /\ Priced(book \cup {x})
           /\ \A c : Escrow(book \cup {x}, c) = Escrow(book, c) + (IF x.buyer = c THEN x.price ELSE 0)
  <1> DEFINE U == book \cup {x}
             g == [o \in U |-> o.price]
  <1>1. Priced(U)
    BY FS_AddElement DEF Priced
  <1>2. ASSUME NEW c
        PROVE  Escrow(U, c) = Escrow(book, c) + (IF x.buyer = c THEN x.price ELSE 0)
    <2> DEFINE T == BidsOf(book, c)
    <2>1. Escrow(U, c) = SumFunctionOnSet(g, BidsOf(U, c)) /\ Escrow(book, c) = SumFunctionOnSet(g, T)
      BY <1>1, EscrowIs
    <2>2. IsFiniteSet(T) /\ x \notin T /\ \A o \in T \cup {x} : g[o] \in Int
      BY FS_Subset DEF BidsOf, Priced
    <2>3. g[x] = x.price
      OBVIOUS
    <2>4. Escrow(book, c) \in Nat
      BY EscrowIsNat
    <2>5. CASE x.buyer = c
      <3>1. BidsOf(U, c) = T \cup {x}
        BY <2>5 DEF BidsOf
      <3> HIDE DEF T, g, U
      <3>2. SumFunctionOnSet(g, T \cup {x}) = SumFunctionOnSet(g, T) + g[x]
        BY <2>2, SumWith
      <3> QED
        BY <2>1, <2>3, <2>5, <3>1, <3>2
    <2>6. CASE x.buyer # c
      <3>1. BidsOf(U, c) = T
        BY <2>6 DEF BidsOf
      <3> HIDE DEF T, g, U
      <3> QED
        BY <2>1, <2>4, <2>6, <3>1
    <2> QED
      BY <2>5, <2>6
  <1> QED
    BY <1>1, <1>2

(* A bid that leaves takes its price out of its buyer's escrow.            *)
LEMMA EscrowRemove ==
    ASSUME NEW book, Priced(book), NEW x \in book
    PROVE  /\ Priced(book \ {x})
           /\ \A c : Escrow(book \ {x}, c) = Escrow(book, c) - (IF x.buyer = c THEN x.price ELSE 0)
  <1> DEFINE A == book \ {x}
  <1>1. Priced(A) /\ x \notin A /\ x.price \in Nat /\ book = A \cup {x}
    BY FS_Subset DEF Priced
  <1> HIDE DEF A
  <1>2. ASSUME NEW c
        PROVE  Escrow(A, c) = Escrow(book, c) - (IF x.buyer = c THEN x.price ELSE 0)
    <2>1. Escrow(A \cup {x}, c) = Escrow(A, c) + (IF x.buyer = c THEN x.price ELSE 0)
      BY <1>1, EscrowAdd
    <2>2. Escrow(A, c) \in Nat
      BY <1>1, EscrowIsNat
    <2> QED
      BY <1>1, <2>1, <2>2
  <1> QED
    BY <1>1, <1>2 DEF A

(* What is offered, as a sum over any set of listings.                     *)
LEMMA OfferedIs ==
    ASSUME NEW S, Filled(S), NEW U, S \subseteq U, NEW c, NEW i
    PROVE  Offered(S, c, i) = SumFunctionOnSet([o \in U |-> o.pile.quantity], ListingsOf(S, c, i))
  <1> DEFINE T == ListingsOf(S, c, i)
             f == [o \in T |-> o.pile.quantity]
             g == [o \in U |-> o.pile.quantity]
  <1>1. IsFiniteSet(T) /\ T \subseteq S
    BY FS_Subset DEF ListingsOf, Filled
  <1>2. Offered(S, c, i) = SumFunctionOnSet(f, T)
    BY SumOfFunction DEF Offered
  <1>3. \A o \in T : f[o] \in Int /\ f[o] = g[o]
    BY <1>1 DEF Filled
  <1> HIDE DEF T, f, g
  <1>4. SumFunctionOnSet(f, T) = SumFunctionOnSet(g, T)
    BY <1>1, <1>3, SumSame
  <1> QED
    BY <1>2, <1>4 DEF T, g

(* What is offered is a natural.                                           *)
LEMMA OfferedIsNat ==
    ASSUME NEW S, Filled(S), NEW c, NEW i
    PROVE  Offered(S, c, i) \in Nat
  <1> DEFINE T == ListingsOf(S, c, i)
             g == [o \in S |-> o.pile.quantity]
  <1>1. IsFiniteSet(T) /\ \A o \in T : g[o] \in Nat
    BY FS_Subset DEF ListingsOf, Filled
  <1>2. Offered(S, c, i) = SumFunctionOnSet(g, T)
    BY OfferedIs
  <1> HIDE DEF T, g
  <1> QED
    BY <1>1, <1>2, SumNat

(* A listing offers its pile.                                              *)
LEMMA OfferedAdd ==
    ASSUME NEW S, Filled(S), NEW x, x \notin S, x.pile.quantity \in Nat
    PROVE  /\ Filled(S \cup {x})
           /\ \A c, i : Offered(S \cup {x}, c, i) = Offered(S, c, i)
                 + (IF x.seller = c /\ x.pile.item = i THEN x.pile.quantity ELSE 0)
  <1> DEFINE U == S \cup {x}
             g == [o \in U |-> o.pile.quantity]
  <1>1. Filled(U)
    BY FS_AddElement DEF Filled
  <1>2. ASSUME NEW c, NEW i
        PROVE  Offered(U, c, i) = Offered(S, c, i)
                 + (IF x.seller = c /\ x.pile.item = i THEN x.pile.quantity ELSE 0)
    <2> DEFINE T == ListingsOf(S, c, i)
    <2>1. /\ Offered(U, c, i) = SumFunctionOnSet(g, ListingsOf(U, c, i))
          /\ Offered(S, c, i) = SumFunctionOnSet(g, T)
      BY <1>1, OfferedIs
    <2>2. IsFiniteSet(T) /\ x \notin T /\ \A o \in T \cup {x} : g[o] \in Int
      BY FS_Subset DEF ListingsOf, Filled
    <2>3. g[x] = x.pile.quantity
      OBVIOUS
    <2>4. Offered(S, c, i) \in Nat
      BY OfferedIsNat
    <2>5. CASE x.seller = c /\ x.pile.item = i
      <3>1. ListingsOf(U, c, i) = T \cup {x}
        BY <2>5 DEF ListingsOf
      <3> HIDE DEF T, g, U
      <3>2. SumFunctionOnSet(g, T \cup {x}) = SumFunctionOnSet(g, T) + g[x]
        BY <2>2, SumWith
      <3> QED
        BY <2>1, <2>3, <2>5, <3>1, <3>2
    <2>6. CASE ~ (x.seller = c /\ x.pile.item = i)
      <3>1. ListingsOf(U, c, i) = T
        BY <2>6 DEF ListingsOf
      <3> HIDE DEF T, g, U
      <3> QED
        BY <2>1, <2>4, <2>6, <3>1
    <2> QED
      BY <2>5, <2>6
  <1> QED
    BY <1>1, <1>2

(* A listing that leaves takes its pile away.                              *)
LEMMA OfferedRemove ==
    ASSUME NEW S, Filled(S), NEW x \in S
    PROVE  /\ Filled(S \ {x})
           /\ \A c, i : Offered(S \ {x}, c, i) = Offered(S, c, i)
                 - (IF x.seller = c /\ x.pile.item = i THEN x.pile.quantity ELSE 0)
  <1> DEFINE A == S \ {x}
  <1>1. Filled(A) /\ x \notin A /\ x.pile.quantity \in Nat /\ S = A \cup {x}
    BY FS_Subset DEF Filled
  <1> HIDE DEF A
  <1>2. ASSUME NEW c, NEW i
        PROVE  Offered(A, c, i) = Offered(S, c, i)
                 - (IF x.seller = c /\ x.pile.item = i THEN x.pile.quantity ELSE 0)
    <2>1. Offered(A \cup {x}, c, i) = Offered(A, c, i)
            + (IF x.seller = c /\ x.pile.item = i THEN x.pile.quantity ELSE 0)
      <3>1. \A d, j : Offered(A \cup {x}, d, j) = Offered(A, d, j)
              + (IF x.seller = d /\ x.pile.item = j THEN x.pile.quantity ELSE 0)
        BY <1>1, OfferedAdd
      <3> QED
        BY <3>1
    <2>2. Offered(A, c, i) \in Nat
      BY <1>1, OfferedIsNat
    <2> QED
      BY <1>1, <2>1, <2>2
  <1> QED
    BY <1>1, <1>2 DEF A

Unique(bg, S) ==
    /\ \A c, d \in Characters : \A s, t \in Slots :
          bg[c][s] # Nothing /\ bg[d][t] # Nothing /\ bg[c][s].id = bg[d][t].id
             => c = d /\ s = t
    /\ \A c \in Characters : \A s \in Slots : \A o \in S :
          bg[c][s] # Nothing => bg[c][s].id # o.pile.id
    /\ \A o, p \in S : o # p => o.pile.id # p.pile.id

(* No pile goes by the id n.                                               *)
IdFree(n, bg, S) ==
    /\ \A c \in Characters : \A s \in Slots : bg[c][s] # Nothing => bg[c][s].id # n
    /\ \A o \in S : o.pile.id # n

(* Every id up to now is below n.                                          *)
IdsBelow(n, bg, S) ==
    /\ \A c \in Characters : \A s \in Slots : bg[c][s] # Nothing => bg[c][s].id < n
    /\ \A o \in S : o.pile.id < n

(* An id above every other is free.                                        *)
LEMMA BelowIsFree ==
    ASSUME NEW n \in Nat, NEW bg \in [Characters -> Bag], NEW S, IdsBelow(n, bg, S),
           \A o \in S : o.pile \in Pile
    PROVE  IdFree(n, bg, S)
  <1>1. ASSUME NEW c \in Characters, NEW s \in Slots, bg[c][s] # Nothing PROVE bg[c][s].id # n
    <2>1. bg[c][s].id < n
      BY <1>1 DEF IdsBelow
    <2>2. bg[c][s].id \in Nat
      <3>1. bg[c] \in Bag
        OBVIOUS
      <3>2. bg[c][s] \in Pile
        BY <1>1, <3>1, BagParts
      <3> QED
        BY <3>2, PileParts
    <2> QED
      BY <2>1, <2>2
  <1>2. ASSUME NEW o \in S PROVE o.pile.id # n
    <2>1. o.pile.id < n /\ o.pile.id \in Nat
      BY PileParts DEF IdsBelow
    <2> QED
      BY <2>1
  <1> QED
    BY <1>1, <1>2 DEF IdFree

(* InstancesUnique, of any bags and listings.                              *)
NoIdTwice(bg, S) ==
    /\ \A c, d \in Characters : \A s \in Occupied(bg[c]), t \in Occupied(bg[d]) :
          bg[c][s].id = bg[d][t].id => c = d /\ s = t
    /\ \A c \in Characters, o \in S : o.pile.id \notin IdsIn(bg[c])
    /\ \A o, p \in S : o # p => o.pile.id # p.pile.id

(* The two ways to say that no id is given twice.                          *)
LEMMA UniqueIs ==
    ASSUME NEW bg \in [Characters -> Bag], NEW S
    PROVE  NoIdTwice(bg, S) <=> Unique(bg, S)
  <1>1. \A c \in Characters : Occupied(bg[c]) = {s \in Slots : bg[c][s] # Nothing}
    BY BagParts
  <1>2. ASSUME NoIdTwice(bg, S) PROVE Unique(bg, S)
    BY <1>1, <1>2 DEF NoIdTwice, Unique, IdsIn
  <1>3. ASSUME Unique(bg, S) PROVE NoIdTwice(bg, S)
    <2>1. \A c, d \in Characters : \A s \in Occupied(bg[c]), t \in Occupied(bg[d]) :
             bg[c][s].id = bg[d][t].id => c = d /\ s = t
      BY <1>1, <1>3 DEF Unique
    <2>2. \A c \in Characters, o \in S : o.pile.id \notin IdsIn(bg[c])
      BY <1>1, <1>3 DEF Unique, IdsIn
    <2>3. \A o, p \in S : o # p => o.pile.id # p.pile.id
      BY <1>3 DEF Unique
    <2> QED
      BY <2>1, <2>2, <2>3 DEF NoIdTwice
  <1> QED
    BY <1>2, <1>3

(* The pile that leaves a slot keeps or gets an id nobody else has.        *)
LEMMA UniqueAfterTake ==
    ASSUME NEW bg \in [Characters -> Bag], NEW S, Unique(bg, S),
           NEW c \in Characters, NEW s \in Slots, NEW n, CanTake(bg[c], s, n),
           NEW newId \in Nat \ {0}, IdFree(newId, bg, S),
           NEW bg2, bg2 = [bg EXCEPT ![c] = BagAfterTake(bg[c], s, n)]
    PROVE  /\ bg2 \in [Characters -> Bag]
           /\ Unique(bg2, S)
           /\ IdFree(TakenPile(bg[c], s, n, newId).id, bg2, S)
  <1> DEFINE b == bg[c]
             k == TakenPile(b, s, n, newId)
  <1>1. b \in Bag
    OBVIOUS
  <1>2. /\ k.id = (IF n = b[s].quantity THEN b[s].id ELSE newId)
        /\ bg2[c] \in Bag
        /\ \A t \in Slots \ {s} : bg2[c][t] = b[t]
        /\ n = b[s].quantity => bg2[c][s] = Nothing
        /\ n # b[s].quantity => bg2[c][s] # Nothing /\ bg2[c][s].id = b[s].id
    BY <1>1, TakeIs
  <1>3. bg2 \in [Characters -> Bag] /\ \A d \in Characters \ {c} : bg2[d] = bg[d]
    BY <1>2
  <1>4. b[s] # Nothing
    BY DEF CanTake
  <1>5. \A d \in Characters : \A t \in Slots :
           bg2[d][t] # Nothing => bg[d][t] # Nothing /\ bg2[d][t].id = bg[d][t].id
    BY <1>2, <1>3, <1>4
  <1> HIDE DEF k
  <1>6. Unique(bg2, S)
    BY <1>5 DEF Unique
  <1>7. ASSUME NEW d \in Characters, NEW t \in Slots, bg2[d][t] # Nothing PROVE bg2[d][t].id # k.id
    <2>1. CASE n = b[s].quantity
      <3>1. ~ (d = c /\ t = s)
        BY <1>2, <1>7, <2>1
      <3>2. bg[d][t] # Nothing /\ bg2[d][t].id = bg[d][t].id
        BY <1>5, <1>7
      <3> QED
        BY <1>2, <1>4, <2>1, <3>1, <3>2 DEF Unique
    <2>2. CASE n # b[s].quantity
      <3>1. bg[d][t] # Nothing /\ bg2[d][t].id = bg[d][t].id
        BY <1>5, <1>7
      <3> QED
        BY <1>2, <2>2, <3>1 DEF IdFree
    <2> QED
      BY <2>1, <2>2
  <1>8. ASSUME NEW o \in S PROVE o.pile.id # k.id
    BY <1>2, <1>4 DEF Unique, IdFree
  <1> QED
    BY <1>3, <1>6, <1>7, <1>8 DEF IdFree, k

(* A pile with a free id may be put in a bag,                              *)
LEMMA UniqueAfterPut ==
    ASSUME NEW bg \in [Characters -> Bag], NEW S, Unique(bg, S),
           NEW c \in Characters, NEW p \in Pile, IdFree(p.id, bg, S), Free(bg[c]) # {},
           NEW bg2, bg2 = [bg EXCEPT ![c] = PutInFirstFree(bg[c], p)]
    PROVE  bg2 \in [Characters -> Bag] /\ Unique(bg2, S)
  <1> DEFINE b == bg[c]
  <1>1. b \in Bag
    OBVIOUS
  <1>2. /\ bg2[c] \in Bag
        /\ \E s \in Slots : /\ b[s] = Nothing /\ bg2[c][s] = p
                            /\ \A t \in Slots \ {s} : bg2[c][t] = b[t]
    BY <1>1, PutIs
  <1>3. PICK s \in Slots : /\ b[s] = Nothing /\ bg2[c][s] = p
                           /\ \A t \in Slots \ {s} : bg2[c][t] = b[t]
    BY <1>2
  <1>4. bg2 \in [Characters -> Bag] /\ \A d \in Characters \ {c} : bg2[d] = bg[d]
    BY <1>2
  <1>5. \A d \in Characters : \A t \in Slots :
           ~ (d = c /\ t = s) => bg2[d][t] = bg[d][t]
    BY <1>3, <1>4
  <1>6. bg2[c][s].id = p.id
    BY <1>3
  <1>7. ASSUME NEW d \in Characters, NEW e \in Characters, NEW t \in Slots, NEW u \in Slots,
               bg2[d][t] # Nothing, bg2[e][u] # Nothing, bg2[d][t].id = bg2[e][u].id
        PROVE  d = e /\ t = u
    <2>1. CASE d = c /\ t = s
      <3>1. CASE e = c /\ u = s
        BY <2>1, <3>1
      <3>2. CASE ~ (e = c /\ u = s)
        <4>1. bg[e][u] # Nothing /\ bg[e][u].id = p.id
          BY <1>5, <1>6, <1>7, <2>1, <3>2
        <4> QED
          BY <4>1 DEF IdFree
      <3> QED
        BY <3>1, <3>2
    <2>2. CASE ~ (d = c /\ t = s)
      <3>1. CASE e = c /\ u = s
        <4>1. bg[d][t] # Nothing /\ bg[d][t].id = p.id
          BY <1>5, <1>6, <1>7, <2>2, <3>1
        <4> QED
          BY <4>1 DEF IdFree
      <3>2. CASE ~ (e = c /\ u = s)
        <4>1. bg2[d][t] = bg[d][t] /\ bg2[e][u] = bg[e][u]
          BY <1>5, <2>2, <3>2
        <4> QED
          BY <1>7, <4>1 DEF Unique
      <3> QED
        BY <3>1, <3>2
    <2> QED
      BY <2>1, <2>2
  <1>8. ASSUME NEW d \in Characters, NEW t \in Slots, NEW o \in S, bg2[d][t] # Nothing
        PROVE  bg2[d][t].id # o.pile.id
    <2>1. CASE d = c /\ t = s
      BY <1>6, <2>1 DEF IdFree
    <2>2. CASE ~ (d = c /\ t = s)
      <3>1. bg2[d][t] = bg[d][t]
        BY <1>5, <2>2
      <3> QED
        BY <1>8, <3>1 DEF Unique
    <2> QED
      BY <2>1, <2>2
  <1>9. \A o, q \in S : o # q => o.pile.id # q.pile.id
    BY DEF Unique
  <1> QED
    BY <1>4, <1>7, <1>8, <1>9 DEF Unique

(* or in a listing;                                                        *)
LEMMA UniqueAfterList ==
    ASSUME NEW bg, NEW S, NEW o, Unique(bg, S), IdFree(o.pile.id, bg, S)
    PROVE  Unique(bg, S \cup {o})
  BY DEF Unique, IdFree

(* the pile of a listing that leaves has an id nobody else has.            *)
LEMMA UniqueAfterUnlist ==
    ASSUME NEW bg, NEW S, NEW o \in S, Unique(bg, S)
    PROVE  Unique(bg, S \ {o}) /\ IdFree(o.pile.id, bg, S \ {o})
  BY DEF Unique, IdFree

(* An emptied bag gives ids up.                                            *)
LEMMA UniqueAfterClear ==
    ASSUME NEW bg \in [Characters -> Bag], NEW S, Unique(bg, S), NEW c \in Characters,
           NEW bg2, bg2 = [bg EXCEPT ![c] = EmptyInventory]
    PROVE  bg2 \in [Characters -> Bag] /\ Unique(bg2, S)
  <1>1. bg2 \in [Characters -> Bag]
    BY EmptyCounts
  <1>2. \A d \in Characters : \A t \in Slots :
           bg2[d][t] # Nothing => bg2[d][t] = bg[d][t]
    BY DEF EmptyInventory
  <1>3. Unique(bg2, S)
    BY <1>2 DEF Unique
  <1> QED
    BY <1>1, <1>3

(* Granted piles get ids above every other, one each.                      *)
LEMMA UniqueAfterGrant ==
    ASSUME NEW bg \in [Characters -> Bag], NEW S, Unique(bg, S), NEW c \in Characters,
           NEW i \in Items, NEW n \in Nat, NEW nextId \in Nat \ {0}, IdsBelow(nextId, bg, S),
           \A o \in S : o.pile \in Pile,
           NEW bg2, bg2 = [bg EXCEPT ![c] = add_stackable(bg[c], i, n, nextId)]
    PROVE  bg2 \in [Characters -> Bag] /\ Unique(bg2, S)
  <1> DEFINE b == bg[c]
  <1>1. b \in Bag
    OBVIOUS
  <1>2. /\ bg2[c] \in Bag
        /\ \A s \in Holding(b, i) : bg2[c][s].id = b[s].id
        /\ \A s \in Occupied(b) \ Holding(b, i) : bg2[c][s] = b[s]
        /\ \A s \in Free(b) : bg2[c][s] # Nothing => bg2[c][s].id = nextId + Rank(b, s)
    BY <1>1, AddStackableSlots
  <1>3. bg2 \in [Characters -> Bag] /\ \A d \in Characters \ {c} : bg2[d] = bg[d]
    BY <1>2
  <1> DEFINE New(d, t) == d = c /\ t \in Free(b)
  <1>4. ASSUME NEW d \in Characters, NEW t \in Slots, bg2[d][t] # Nothing, ~ New(d, t)
        PROVE  bg[d][t] # Nothing /\ bg2[d][t].id = bg[d][t].id
    <2>1. CASE d = c
      <3>1. b[t] # Nothing /\ (t \in Holding(b, i) \/ t \in Occupied(b) \ Holding(b, i))
        BY <1>1, <1>4, <2>1, BagParts
      <3> QED
        BY <1>2, <2>1, <3>1
    <2>2. CASE d # c
      BY <1>3, <1>4, <2>2
    <2> QED
      BY <2>1, <2>2
  <1>5. ASSUME NEW d \in Characters, NEW t \in Slots, bg2[d][t] # Nothing, New(d, t)
        PROVE  bg2[d][t].id = nextId + Rank(b, t) /\ Rank(b, t) \in Nat
    BY <1>1, <1>2, <1>5, RanksDiffer
  <1>6. ASSUME NEW d \in Characters, NEW t \in Slots, bg2[d][t] # Nothing, ~ New(d, t)
        PROVE  bg2[d][t].id < nextId /\ bg2[d][t].id \in Nat
    <2>1. bg[d][t] # Nothing /\ bg2[d][t].id = bg[d][t].id
      BY <1>4, <1>6
    <2>2. bg[d] \in Bag
      OBVIOUS
    <2>3. bg[d][t] \in Pile
      BY <2>1, <2>2, BagParts
    <2> QED
      BY <2>1, <2>3, PileParts DEF IdsBelow
  <1>7. \A d, e \in Characters : \A t, u \in Slots :
           bg2[d][t] # Nothing /\ bg2[e][u] # Nothing /\ bg2[d][t].id = bg2[e][u].id
             => d = e /\ t = u
    <2>1. SUFFICES ASSUME NEW d \in Characters, NEW e \in Characters, NEW t \in Slots, NEW u \in Slots,
                          bg2[d][t] # Nothing, bg2[e][u] # Nothing, bg2[d][t].id = bg2[e][u].id
                   PROVE  d = e /\ t = u
      OBVIOUS
    <2>2. CASE New(d, t) /\ New(e, u)
      <3>1. nextId + Rank(b, t) = nextId + Rank(b, u) /\ Rank(b, t) \in Nat /\ Rank(b, u) \in Nat
        BY <1>5, <2>1, <2>2
      <3>2. Rank(b, t) = Rank(b, u)
        BY <3>1
      <3> QED
        BY <1>1, <2>2, <3>2, RanksDiffer
    <2>3. CASE New(d, t) /\ ~ New(e, u)
      <3>1. bg2[d][t].id = nextId + Rank(b, t) /\ Rank(b, t) \in Nat
        BY <1>5, <2>1, <2>3
      <3>2. bg2[e][u].id < nextId /\ bg2[e][u].id \in Nat
        BY <1>6, <2>1, <2>3
      <3> QED
        BY <2>1, <3>1, <3>2
    <2>4. CASE ~ New(d, t) /\ New(e, u)
      <3>1. bg2[e][u].id = nextId + Rank(b, u) /\ Rank(b, u) \in Nat
        BY <1>5, <2>1, <2>4
      <3>2. bg2[d][t].id < nextId /\ bg2[d][t].id \in Nat
        BY <1>6, <2>1, <2>4
      <3> QED
        BY <2>1, <3>1, <3>2
    <2>5. CASE ~ New(d, t) /\ ~ New(e, u)
      <3>1. bg[d][t] # Nothing /\ bg2[d][t].id = bg[d][t].id
        BY <1>4, <2>1, <2>5
      <3>2. bg[e][u] # Nothing /\ bg2[e][u].id = bg[e][u].id
        BY <1>4, <2>1, <2>5
      <3>3. bg[d][t].id = bg[e][u].id
        BY <2>1, <3>1, <3>2
      <3> QED
        BY <3>1, <3>2, <3>3 DEF Unique
    <2> QED
      BY <2>2, <2>3, <2>4, <2>5
  <1>8. ASSUME NEW d \in Characters, NEW t \in Slots, NEW o \in S, bg2[d][t] # Nothing
        PROVE  bg2[d][t].id # o.pile.id
    <2>1. o.pile.id < nextId /\ o.pile.id \in Nat
      BY PileParts DEF IdsBelow
    <2>2. CASE New(d, t)
      <3>1. bg2[d][t].id = nextId + Rank(b, t) /\ Rank(b, t) \in Nat
        BY <1>5, <1>8, <2>2
      <3> QED
        BY <2>1, <3>1
    <2>3. CASE ~ New(d, t)
      <3>1. bg[d][t] # Nothing /\ bg2[d][t].id = bg[d][t].id
        BY <1>4, <1>8, <2>3
      <3> QED
        BY <3>1 DEF Unique
    <2> QED
      BY <2>2, <2>3
  <1>9. \A o, q \in S : o # q => o.pile.id # q.pile.id
    BY DEF Unique
  <1> QED
    BY <1>3, <1>7, <1>8, <1>9 DEF Unique

OrdersNumbered ==
    /\ IsFiniteSet(sells) /\ IsFiniteSet(buys)
    /\ \A o \in sells \cup buys : o.id < nextOrder

IInv == TypeOK /\ OrdersNumbered /\ InstancesUnique

(* next_instance_id is above every id in a bag or in escrow.               *)
LEMMA NextIdIsNew ==
    ASSUME TypeOK, IsFiniteSet(sells)
    PROVE  /\ next_instance_id \in Nat \ {0}
           /\ IdsBelow(next_instance_id, bag, sells)
           /\ IdFree(next_instance_id, bag, sells)
  <1> DEFINE ids == [c \in Characters |-> IdsIn(bag[c])]
             bags == UNION {ids[c] : c \in Characters}
             listed == [o \in sells |-> o.pile.id]
             listedIds == {listed[o] : o \in sells}
             used == {0} \cup bags \cup listedIds
  <1>1. next_instance_id = 1 + Max(used)
    <2> DEFINE inBags == UNION {IdsIn(bag[c]) : c \in Characters}
               inSells == {o.pile.id : o \in sells}
    <2>1. inBags = bags
      OBVIOUS
    <2>2. inSells = listedIds
      OBVIOUS
    <2>3. next_instance_id = 1 + Max({0} \cup inBags \cup inSells)
      BY DEF next_instance_id
    <2> HIDE DEF inBags, inSells, bags, listedIds
    <2> QED
      BY <2>1, <2>2, <2>3
  <1>2. ASSUME NEW c \in Characters
        PROVE  /\ IsFiniteSet(ids[c]) /\ ids[c] \subseteq Nat
               /\ \A s \in Slots : bag[c][s] # Nothing => bag[c][s].id \in ids[c]
    <2> DEFINE b == bag[c]
               f == [s \in Occupied(b) |-> b[s].id]
    <2>1. b \in Bag
      BY DEF TypeOK
    <2>2. Occupied(b) = {s \in Slots : b[s] # Nothing} /\ IsFiniteSet(Occupied(b))
      <3>1. Occupied(b) = {s \in Slots : b[s] # Nothing}
        BY <2>1, BagParts
      <3>2. Occupied(b) \in SUBSET Slots
        BY <3>1
      <3> QED
        BY <3>1, <3>2, SlotsAreFinite
    <2>3. ids[c] = {f[s] : s \in Occupied(b)}
      BY DEF IdsIn
    <2>4. IsFiniteSet({f[s] : s \in Occupied(b)})
      <3> HIDE DEF f
      <3> QED
        BY <2>2, FiniteImage
    <2>5. \A s \in Occupied(b) : b[s].id \in Nat
      BY <2>1, <2>2, BagParts, PileParts
    <2>6. ids[c] \subseteq Nat
      BY <2>3, <2>5
    <2>7. \A s \in Slots : b[s] # Nothing => b[s].id \in ids[c]
      BY <2>2, <2>3
    <2> QED
      BY <2>3, <2>4, <2>6, <2>7
  <1>3. IsFiniteSet(bags) /\ bags \subseteq Nat
    <2>1. IsFiniteSet({ids[c] : c \in Characters})
      <3> HIDE DEF ids
      <3> QED
        BY MarketAssumption, FiniteImage
    <2>2. \A T \in {ids[c] : c \in Characters} : IsFiniteSet(T) /\ T \subseteq Nat
      BY <1>2
    <2> HIDE DEF ids
    <2>3. IsFiniteSet(bags)
      BY <2>1, <2>2, FS_UNION
    <2>4. bags \subseteq Nat
      BY <2>2
    <2> QED
      BY <2>3, <2>4
  <1>4. \A o \in sells : o.pile \in Pile /\ o.pile.id \in Nat
    BY PileParts DEF TypeOK, IsSellOrder
  <1>5. IsFiniteSet(listedIds) /\ listedIds \subseteq Nat
    <2>1. listedIds \subseteq Nat
      BY <1>4
    <2> HIDE DEF listed
    <2> QED
      BY <2>1, FiniteImage
  <1>6. IsFiniteSet(used) /\ used \in SUBSET Int /\ used # {} /\ used \subseteq Nat
    <2> HIDE DEF bags, listedIds
    <2>1. IsFiniteSet({0} \cup bags)
      BY <1>3, FS_Singleton, FS_Union
    <2>2. IsFiniteSet(used)
      <3> DEFINE a == {0} \cup bags
      <3>1. IsFiniteSet(a) /\ used = a \cup listedIds
        BY <2>1
      <3> HIDE DEF a, listedIds, used
      <3> QED
        BY <1>5, <3>1, FS_Union
    <2>3. used \subseteq Nat
      BY <1>3, <1>5
    <2> QED
      BY <2>2, <2>3
  <1> DEFINE top == Max(used)
  <1>7. top \in Nat /\ \A n \in used : n <= top
    <2> HIDE DEF used
    <2> QED
      BY <1>6, Extremes
  <1>8. ASSUME NEW c \in Characters, NEW s \in Slots, bag[c][s] # Nothing
        PROVE  bag[c][s].id \in used
    BY <1>2, <1>8
  <1>9. \A o \in sells : o.pile.id \in used
    OBVIOUS
  <1> HIDE DEF top, used
  <1>10. next_instance_id \in Nat \ {0} /\ \A n \in used : n < next_instance_id
    <2>1. next_instance_id = 1 + top
      BY <1>1 DEF top
    <2>2. \A n \in used : n \in Nat
      BY <1>6
    <2> QED
      BY <1>7, <2>1, <2>2
  <1>11. IdsBelow(next_instance_id, bag, sells)
    BY <1>8, <1>9, <1>10 DEF IdsBelow
  <1>12. bag \in [Characters -> Bag]
    BY DEF TypeOK
  <1> HIDE DEF ids, bags, listed, listedIds
  <1>13. IdFree(next_instance_id, bag, sells)
    BY <1>4, <1>10, <1>11, <1>12, BelowIsFree
  <1> QED
    BY <1>10, <1>11, <1>13

-----------------------------------------------------------------------------
(* The initial state satisfies the invariant.                              *)
LEMMA InitHolds == Init => IInv
  <1> SUFFICES ASSUME Init PROVE IInv
    OBVIOUS
  <1>1. TypeOK
    BY EmptyCounts, MarketAssumption DEF Init, TypeOK
  <1>2. OrdersNumbered
    BY FS_EmptySet DEF Init, OrdersNumbered
  <1>3. InstancesUnique
    <2>1. \A c \in Characters : Occupied(bag[c]) = {}
      BY DEF Init, Occupied, Free, EmptyInventory
    <2> QED
      BY <2>1 DEF Init, InstancesUnique
  <1> QED
    BY <1>1, <1>2, <1>3 DEF IInv

(* The wallets.                                                            *)
LEMMA CreditIs ==
    ASSUME NEW w \in [Characters -> 0..MaxGold], NEW c \in Characters, NEW n \in Nat,
           w[c] + n <= MaxGold
    PROVE  /\ credit_gold(w, c, n) \in [Characters -> 0..MaxGold]
           /\ credit_gold(w, c, n)[c] = w[c] + n
           /\ \A d \in Characters \ {c} : credit_gold(w, c, n)[d] = w[d]
  <1>1. w[c] + n \in 0..MaxGold
    BY MarketAssumption
  <1> QED
    BY <1>1 DEF credit_gold

LEMMA DebitIs ==
    ASSUME NEW w \in [Characters -> 0..MaxGold], NEW c \in Characters, NEW n \in Nat,
           w[c] >= n
    PROVE  /\ debit_gold(w, c, n) \in [Characters -> 0..MaxGold]
           /\ debit_gold(w, c, n)[c] = w[c] - n
           /\ \A d \in Characters \ {c} : debit_gold(w, c, n)[d] = w[d]
  <1>1. w[c] - n \in 0..MaxGold
    BY MarketAssumption
  <1> QED
    BY <1>1 DEF debit_gold

(* A price is a positive number.                                           *)
LEMMA PricesAreNat ==
    ASSUME NEW price \in 1..MaxGold
    PROVE  price \in Nat \ {0} /\ price <= MaxGold
  BY MarketAssumption

-----------------------------------------------------------------------------
(* The order books.                                                        *)
BooksTyped(S, book, n) ==
    /\ \A o \in S : IsSellOrder(o) /\ o.pile.item \in Tradable
    /\ \A o \in book : IsBuyOrder(o)
    /\ \A o, p \in S \cup book : o.id = p.id => o = p
    /\ IsFiniteSet(S) /\ IsFiniteSet(book)
    /\ \A o \in S \cup book : o.id < n

(* The invariant, with the books and the ids as operators.                 *)
LEMMA BooksTypedIs ==
    IInv <=> /\ alive \subseteq Characters
             /\ wallet \in [Characters -> 0..MaxGold]
             /\ bag \in [Characters -> Bag]
             /\ nextOrder \in Nat /\ grants \in Nat
             /\ BooksTyped(sells, buys, nextOrder)
             /\ Unique(bag, sells)
  <1>1. bag \in [Characters -> Bag] => (InstancesUnique <=> Unique(bag, sells))
    BY UniqueIs DEF InstancesUnique, NoIdTwice
  <1> QED
    BY <1>1 DEF IInv, TypeOK, OrdersNumbered, BooksTyped

(* An order may leave the books,                                           *)
LEMMA BooksAfterRemove ==
    ASSUME NEW S, NEW book, NEW n, BooksTyped(S, book, n), NEW o
    PROVE  BooksTyped(S \ {o}, book, n) /\ BooksTyped(S, book \ {o}, n)
  <1>1. IsFiniteSet(S \ {o}) /\ IsFiniteSet(book \ {o})
    BY FS_RemoveElement DEF BooksTyped
  <1> QED
    BY <1>1 DEF BooksTyped

(* a listing may join them under the next id,                              *)
LEMMA BooksAfterSell ==
    ASSUME NEW S, NEW book, NEW n \in Nat, BooksTyped(S, book, n),
           NEW o, IsSellOrder(o), o.pile.item \in Tradable, o.id = n
    PROVE  BooksTyped(S \cup {o}, book, n + 1)
  <1>1. IsFiniteSet(S \cup {o})
    BY FS_AddElement DEF BooksTyped
  <1>2. \A p \in S \cup book : p.id \in Nat /\ p.id < n
    BY DEF BooksTyped, IsSellOrder, IsBuyOrder
  <1>3. \A p \in S \cup {o} \cup book : p.id < n + 1
    BY <1>2
  <1>4. \A p, q \in S \cup {o} \cup book : p.id = q.id => p = q
    BY <1>2 DEF BooksTyped
  <1> QED
    BY <1>1, <1>3, <1>4 DEF BooksTyped

(* and so may a bid.                                                       *)
LEMMA BooksAfterBid ==
    ASSUME NEW S, NEW book, NEW n \in Nat, BooksTyped(S, book, n),
           NEW o, IsBuyOrder(o), o.id = n
    PROVE  BooksTyped(S, book \cup {o}, n + 1)
  <1>1. IsFiniteSet(book \cup {o})
    BY FS_AddElement DEF BooksTyped
  <1>2. \A p \in S \cup book : p.id \in Nat /\ p.id < n
    BY DEF BooksTyped, IsSellOrder, IsBuyOrder
  <1>3. \A p \in S \cup (book \cup {o}) : p.id < n + 1
    BY <1>2
  <1>4. \A p, q \in S \cup (book \cup {o}) : p.id = q.id => p = q
    BY <1>2 DEF BooksTyped
  <1> QED
    BY <1>1, <1>3, <1>4 DEF BooksTyped

(* The best of a book there is one of.                                     *)
LEMMA BestIs ==
    ASSUME NEW book, IsFiniteSet(book), book # {}, \A o \in book : o.id \in Nat /\ o.price \in Nat
    PROVE  /\ BestOf(book) \in book
           /\ \A p \in book : p.price < BestOf(book).price
                             \/ (p.price = BestOf(book).price /\ BestOf(book).id <= p.id)
  <1> DEFINE Beats(o, p) == p.price < o.price \/ (p.price = o.price /\ o.id <= p.id)
             P == {T \in SUBSET book : T = {} \/ \E o \in T : \A p \in T : Beats(o, p)}
  <1>1. {} \in P
    OBVIOUS
  <1>2. ASSUME NEW T \in SUBSET book, NEW x \in book, T \in P PROVE T \cup {x} \in P
    <2>0. Beats(x, x)
      OBVIOUS
    <2>1. CASE T = {}
      BY <2>0, <2>1
    <2>2. CASE T # {}
      <3>1. PICK o \in T : \A p \in T : Beats(o, p)
        BY <1>2, <2>2
      <3>2. CASE Beats(o, x)
        BY <3>1, <3>2
      <3>3. CASE ~ Beats(o, x)
        <4>1. ASSUME NEW p \in T PROVE Beats(x, p)
          <5>1. Beats(o, p)
            BY <3>1
          <5>2. /\ p.id \in Nat /\ p.price \in Nat /\ o.id \in Nat /\ o.price \in Nat
                /\ x.id \in Nat /\ x.price \in Nat
            OBVIOUS
          <5> QED
            BY <3>3, <5>1, <5>2
        <4> HIDE DEF Beats
        <4> QED
          BY <2>0, <4>1
      <3> QED
        BY <3>2, <3>3
    <2> QED
      BY <2>1, <2>2
  <1>3. book \in P
    <2> HIDE DEF P
    <2> QED
      BY <1>1, <1>2, SetInduction
  <1>4. \E o \in book : \A p \in book : Beats(o, p)
    BY <1>3
  <1> QED
    BY <1>4 DEF BestOf

-----------------------------------------------------------------------------
(* 4. The invariant, step by step.                                         *)

(* What the invariant says of the state, in one place.                     *)
LEMMA Holds ==
    ASSUME IInv
    PROVE  /\ alive \subseteq Characters
           /\ wallet \in [Characters -> 0..MaxGold]
           /\ bag \in [Characters -> Bag]
           /\ nextOrder \in Nat /\ grants \in Nat
           /\ BooksTyped(sells, buys, nextOrder)
           /\ Unique(bag, sells)
           /\ \A o \in sells : /\ o.pile \in Pile /\ o.price \in Nat \ {0} /\ o.price <= MaxGold
                               /\ o.seller \in Characters /\ o.market \in Markets
                               /\ o.pile.item \in Tradable /\ o.id \in Nat
           /\ \A o \in buys : /\ o.price \in Nat \ {0} /\ o.price <= MaxGold
                              /\ o.buyer \in Characters /\ o.market \in Markets
                              /\ o.item \in Tradable /\ o.id \in Nat
           /\ next_instance_id \in Nat \ {0}
           /\ IdsBelow(next_instance_id, bag, sells)
           /\ IdFree(next_instance_id, bag, sells)
           /\ IsFiniteSet(sells) /\ IsFiniteSet(buys)
           /\ \A o \in sells \cup buys : o.id < nextOrder
           /\ \A o, p \in sells \cup buys : o.id = p.id => o = p
  <1>1. TypeOK /\ IsFiniteSet(sells)
    BY DEF IInv, OrdersNumbered
  <1>2. /\ next_instance_id \in Nat \ {0}
        /\ IdsBelow(next_instance_id, bag, sells)
        /\ IdFree(next_instance_id, bag, sells)
    BY <1>1, NextIdIsNew
  <1>3. /\ alive \subseteq Characters
        /\ wallet \in [Characters -> 0..MaxGold]
        /\ bag \in [Characters -> Bag]
        /\ nextOrder \in Nat /\ grants \in Nat
        /\ BooksTyped(sells, buys, nextOrder)
        /\ Unique(bag, sells)
    BY BooksTypedIs
  <1>4. /\ \A o \in sells : /\ o.pile \in Pile /\ o.price \in Nat \ {0} /\ o.price <= MaxGold
                            /\ o.seller \in Characters /\ o.market \in Markets
                            /\ o.pile.item \in Tradable /\ o.id \in Nat
        /\ \A o \in buys : /\ o.price \in Nat \ {0} /\ o.price <= MaxGold
                           /\ o.buyer \in Characters /\ o.market \in Markets
                           /\ o.item \in Tradable /\ o.id \in Nat
    BY <1>3, PricesAreNat DEF BooksTyped, IsSellOrder, IsBuyOrder
  <1>5. /\ IsFiniteSet(sells) /\ IsFiniteSet(buys)
        /\ \A o \in sells \cup buys : o.id < nextOrder
        /\ \A o, p \in sells \cup buys : o.id = p.id => o = p
    BY <1>3 DEF BooksTyped
  <1> QED
    BY <1>2, <1>3, <1>4, <1>5

(* And what it takes to hold in the next state.                            *)
LEMMA HoldsNext ==
    ASSUME /\ alive' \subseteq Characters
           /\ wallet' \in [Characters -> 0..MaxGold]
           /\ bag' \in [Characters -> Bag]
           /\ nextOrder' \in Nat /\ grants' \in Nat
           /\ BooksTyped(sells', buys', nextOrder')
           /\ Unique(bag', sells')
    PROVE  IInv'
  <1>1. NoIdTwice(bag', sells')
    BY UniqueIs
  <1>2. InstancesUnique'
    BY <1>1 DEF NoIdTwice, InstancesUnique, Occupied, Free, IdsIn
  <1> QED
    BY <1>2 DEF IInv, TypeOK, OrdersNumbered, BooksTyped, IsSellOrder, IsBuyOrder

(* A legal credit is positive and fits.                                    *)
LEMMA CreditLegal ==
    ASSUME NEW c \in Characters, NEW n \in Nat, CanCredit(c, n)
    PROVE  n > 0 /\ wallet[c] + n <= MaxGold
  BY DEF CanCredit

(* The invariant is kept by each action in turn.                           *)
LEMMA GrantGoldKeeps ==
    ASSUME IInv, NEW c \in Characters, NEW n \in 1..MaxGold, gm_grant_gold(c, n)
    PROVE  IInv'
  <1>1. n \in Nat
    BY PricesAreNat
  <1>2. wallet' \in [Characters -> 0..MaxGold]
    BY <1>1, Holds, CreditLegal, CreditIs DEF gm_grant_gold
  <1>3. /\ UNCHANGED <<alive, bag, sells, buys, nextOrder>> /\ grants' \in Nat
    BY Holds DEF gm_grant_gold
  <1> QED
    BY <1>2, <1>3, Holds, HoldsNext

LEMMA GrantItemsKeeps ==
    ASSUME IInv, NEW c \in Characters, NEW i \in Items, NEW n \in 1..MAX_STACK, grant_items(c, i, n)
    PROVE  IInv'
  <1>1. n \in Nat
    BY InventoryAssumption
  <1>2. UNCHANGED <<alive, wallet, sells, buys, nextOrder>> /\ grants' \in Nat
    BY Holds DEF grant_items
  <1>3. bag' = [bag EXCEPT ![c] = add_stackable(bag[c], i, n, next_instance_id)]
    BY DEF grant_items
  <1>4. bag' \in [Characters -> Bag] /\ Unique(bag', sells)
    <2>1. \A o \in sells : o.pile \in Pile
      BY Holds
    <2> QED
      BY <1>1, <1>3, <2>1, Holds, UniqueAfterGrant
  <1> QED
    BY <1>2, <1>4, Holds, HoldsNext

LEMMA PlaceSellKeeps ==
    ASSUME IInv, NEW c \in Characters, NEW m \in Markets, NEW s \in Slots,
           NEW price \in 1..MaxGold, NEW n \in 1..MAX_STACK, place_sell_order(c, m, s, price, n)
    PROVE  IInv'
  <1> DEFINE pile == TakenPile(bag[c], s, n, next_instance_id)
             o == [id |-> nextOrder, market |-> m, seller |-> c, pile |-> pile,
                   price |-> listing_total(price, n)]
  <1>1. /\ CanTake(bag[c], s, n) /\ pile.item \in Tradable
        /\ bag' = [bag EXCEPT ![c] = BagAfterTake(bag[c], s, n)]
        /\ sells' = sells \cup {o} /\ nextOrder' = nextOrder + 1
        /\ UNCHANGED <<alive, wallet, buys, grants>>
        /\ ListingIsLegal(price, n)
    BY DEF place_sell_order
  <1>2. bag[c] \in Bag
    BY Holds
  <1>3. pile \in Pile
    BY <1>1, <1>2, Holds, TakeIs
  <1>4. listing_total(price, n) \in 1..MaxGold
    <2>1. price \in Nat \ {0} /\ n \in Nat \ {0}
      BY InventoryAssumption, PricesAreNat
    <2>2. price * n \in Nat /\ price * n > 0
      BY <2>1
    <2>3. price * n <= MaxGold
      BY <1>1 DEF ListingIsLegal, listing_total
    <2> DEFINE k == price * n
    <2>4. k \in Nat /\ k > 0 /\ k <= MaxGold
      BY <2>2, <2>3
    <2> HIDE DEF k
    <2>5. k \in 1..MaxGold
      BY <2>4, MarketAssumption
    <2> QED
      BY <2>5 DEF k, listing_total
  <1>5. /\ o.id = nextOrder /\ o.market = m /\ o.seller = c /\ o.pile = pile
        /\ o.price = listing_total(price, n)
    OBVIOUS
  <1> HIDE DEF o, pile
  <1>6. IsSellOrder(o) /\ o.pile.item \in Tradable
    BY <1>1, <1>3, <1>4, <1>5, Holds DEF IsSellOrder
  <1>7. BooksTyped(sells', buys', nextOrder')
    BY <1>1, <1>5, <1>6, Holds, BooksAfterSell
  <1>8. bag' \in [Characters -> Bag] /\ Unique(bag', sells) /\ IdFree(pile.id, bag', sells)
    BY <1>1, Holds, UniqueAfterTake DEF pile
  <1>9. Unique(bag', sells')
    BY <1>1, <1>5, <1>8, UniqueAfterList
  <1>10. nextOrder' \in Nat
    BY <1>1, Holds
  <1> QED
    BY <1>1, <1>7, <1>8, <1>9, <1>10, Holds, HoldsNext

(* What a purchase does to the wallets.                                    *)
LEMMA BuyWallets ==
    ASSUME IInv, NEW c \in Characters, NEW m \in Markets, NEW o \in sells, market_buy(c, m, o)
    PROVE  /\ wallet' \in [Characters -> 0..MaxGold]
           /\ o.seller \in Characters /\ o.seller # c /\ o.market = m
           /\ fee_gold(m, o.price) \in Nat
           /\ o.price - fee_gold(m, o.price) > 0
           /\ wallet'[c] = wallet[c] - o.price
           /\ wallet'[o.seller] = wallet[o.seller] + (o.price - fee_gold(m, o.price))
           /\ \A d \in Characters \ {c, o.seller} : wallet'[d] = wallet[d]
  <1> DEFINE n == seller_receives(m, o.price)
             w == debit_gold(wallet, c, o.price)
  <1>1. /\ o.market = m /\ o.seller # c /\ FeeIsLegal(m, o.price) /\ wallet[c] >= o.price
        /\ CanCredit(o.seller, n) /\ wallet' = credit_gold(w, o.seller, n)
    BY DEF market_buy
  <1>2. o.seller \in Characters /\ o.price \in Nat /\ wallet \in [Characters -> 0..MaxGold]
    BY Holds
  <1>3. /\ fee_gold(m, o.price) \in Nat /\ n \in Nat \ {0} /\ n = o.price - fee_gold(m, o.price)
    BY <1>1, <1>2, FeeIsNat
  <1>4. /\ w \in [Characters -> 0..MaxGold] /\ w[c] = wallet[c] - o.price
        /\ \A d \in Characters \ {c} : w[d] = wallet[d]
    BY <1>1, <1>2, DebitIs
  <1> HIDE DEF n, w
  <1>5. w[o.seller] + n <= MaxGold /\ w[o.seller] = wallet[o.seller]
    BY <1>1, <1>2, <1>3, <1>4, CreditLegal
  <1>6. /\ wallet' \in [Characters -> 0..MaxGold]
        /\ wallet'[o.seller] = w[o.seller] + n
        /\ \A d \in Characters \ {o.seller} : wallet'[d] = w[d]
    BY <1>1, <1>2, <1>3, <1>4, <1>5, CreditIs
  <1> QED
    BY <1>1, <1>2, <1>3, <1>4, <1>5, <1>6

LEMMA BuyKeeps ==
    ASSUME IInv, NEW c \in Characters, NEW m \in Markets, NEW o \in sells, market_buy(c, m, o)
    PROVE  IInv'
  <1>1. /\ Free(bag[c]) # {}
        /\ bag' = [bag EXCEPT ![c] = PutInFirstFree(bag[c], o.pile)]
        /\ sells' = sells \ {o} /\ UNCHANGED <<alive, buys, nextOrder, grants>>
    BY DEF market_buy
  <1>2. wallet' \in [Characters -> 0..MaxGold]
    BY BuyWallets
  <1>3. Unique(bag, sells') /\ IdFree(o.pile.id, bag, sells') /\ o.pile \in Pile
    BY <1>1, Holds, UniqueAfterUnlist
  <1>4. bag' \in [Characters -> Bag] /\ Unique(bag', sells')
    BY <1>1, <1>3, Holds, UniqueAfterPut
  <1>5. BooksTyped(sells', buys', nextOrder')
    BY <1>1, Holds, BooksAfterRemove
  <1> QED
    BY <1>1, <1>2, <1>4, <1>5, Holds, HoldsNext

LEMMA CancelSellKeeps ==
    ASSUME IInv, NEW c \in Characters, NEW o \in sells, cancel_sell_order(c, o)
    PROVE  IInv'
  <1>1. /\ Free(bag[c]) # {}
        /\ bag' = [bag EXCEPT ![c] = PutInFirstFree(bag[c], o.pile)]
        /\ sells' = sells \ {o} /\ UNCHANGED <<alive, wallet, buys, nextOrder, grants>>
    BY DEF cancel_sell_order
  <1>2. Unique(bag, sells') /\ IdFree(o.pile.id, bag, sells') /\ o.pile \in Pile
    BY <1>1, Holds, UniqueAfterUnlist
  <1>3. bag' \in [Characters -> Bag] /\ Unique(bag', sells')
    BY <1>1, <1>2, Holds, UniqueAfterPut
  <1>4. BooksTyped(sells', buys', nextOrder')
    BY <1>1, Holds, BooksAfterRemove
  <1> QED
    BY <1>1, <1>3, <1>4, Holds, HoldsNext

LEMMA PlaceBuyKeeps ==
    ASSUME IInv, NEW c \in Characters, NEW m \in Markets, NEW i \in Items,
           NEW price \in 1..MaxGold, place_buy_order(c, m, i, price)
    PROVE  IInv'
  <1> DEFINE o == [id |-> nextOrder, market |-> m, buyer |-> c, item |-> i, price |-> price]
  <1>1. /\ i \in Tradable /\ wallet[c] >= price
        /\ wallet' = debit_gold(wallet, c, price)
        /\ buys' = buys \cup {o} /\ nextOrder' = nextOrder + 1
        /\ UNCHANGED <<alive, bag, sells, grants>>
    BY DEF place_buy_order
  <1>2. o.id = nextOrder /\ o.market = m /\ o.buyer = c /\ o.item = i /\ o.price = price
    OBVIOUS
  <1> HIDE DEF o
  <1>3. IsBuyOrder(o)
    BY <1>1, <1>2, Holds DEF IsBuyOrder
  <1>4. BooksTyped(sells', buys', nextOrder')
    BY <1>1, <1>2, <1>3, Holds, BooksAfterBid
  <1>5. wallet' \in [Characters -> 0..MaxGold]
    BY <1>1, Holds, PricesAreNat, DebitIs
  <1>6. nextOrder' \in Nat
    BY <1>1, Holds
  <1> QED
    BY <1>1, <1>4, <1>5, <1>6, Holds, HoldsNext

(* What a sale on the spot does.                                           *)
LEMMA SaleIs ==
    ASSUME IInv, NEW c \in Characters, NEW m \in Markets, NEW s \in Slots,
           NEW minPrice \in 1..MaxGold, NEW n \in 1..MAX_STACK,
           market_sell(c, m, s, minPrice, n),
           NEW pile, pile = TakenPile(bag[c], s, n, next_instance_id),
           NEW bids, bids = Matching(c, m, pile.item, listing_total(minPrice, n)),
           NEW o, o = BestOf(bids)
    PROVE  /\ o \in bids /\ o \in buys
           /\ \A p \in bids : p.price < o.price \/ (p.price = o.price /\ o.id <= p.id)
           /\ o.market = m /\ o.item = pile.item /\ o.buyer # c /\ o.buyer \in Characters
           /\ o.buyer \in alive /\ c \in alive
           /\ CanTake(bag[c], s, n) /\ Free(bag[o.buyer]) # {}
           /\ pile \in Pile /\ pile.item = bag[c][s].item /\ pile.quantity = n
           /\ buys' = buys \ {o} /\ UNCHANGED <<alive, sells, nextOrder, grants>>
           /\ bag' = [bag EXCEPT ![c] = BagAfterTake(bag[c], s, n),
                                 ![o.buyer] = PutInFirstFree(bag[o.buyer], pile)]
           /\ fee_gold(m, o.price) \in Nat
           /\ o.price - fee_gold(m, o.price) \in Nat
           /\ o.price - fee_gold(m, o.price) > 0
           /\ wallet' \in [Characters -> 0..MaxGold]
           /\ wallet'[c] = wallet[c] + (o.price - fee_gold(m, o.price))
           /\ \A d \in Characters \ {c} : wallet'[d] = wallet[d]
  <1>1. /\ c \in alive /\ o.buyer \in alive /\ bids # {}
        /\ CanTake(bag[c], s, n) /\ Free(bag[o.buyer]) # {}
        /\ FeeIsLegal(m, o.price) /\ CanCredit(c, seller_receives(m, o.price))
        /\ wallet' = credit_gold(wallet, c, seller_receives(m, o.price))
        /\ buys' = buys \ {o} /\ UNCHANGED <<alive, sells, nextOrder, grants>>
    BY DEF market_sell
  <1>2. bids \in SUBSET buys /\ \A p \in bids : p.market = m /\ p.item = pile.item /\ p.buyer # c
    BY DEF Matching
  <1>3. IsFiniteSet(bids) /\ \A p \in bids : p.id \in Nat /\ p.price \in Nat
    BY <1>2, Holds, FS_Subset
  <1>4. o \in bids /\ \A p \in bids : p.price < o.price \/ (p.price = o.price /\ o.id <= p.id)
    BY <1>1, <1>3, BestIs
  <1>5. o.buyer # c /\ o.buyer \in Characters /\ o.price \in Nat /\ o \in buys
    BY <1>2, <1>4, Holds
  <1>6. bag' = [bag EXCEPT ![c] = BagAfterTake(bag[c], s, n),
                           ![o.buyer] = PutInFirstFree(bag[o.buyer], pile)]
    <2>1. bag' = [bag EXCEPT ![c] = BagAfterTake(@, s, n), ![o.buyer] = PutInFirstFree(@, pile)]
      BY DEF market_sell
    <2>2. bag \in [Characters -> Bag]
      BY Holds
    <2> QED
      BY <1>5, <2>1, <2>2
  <1>7. bag[c] \in Bag
    BY Holds
  <1>8. pile \in Pile /\ pile.item = bag[c][s].item /\ pile.quantity = n
    BY <1>1, <1>7, Holds, TakeIs
  <1>9. /\ fee_gold(m, o.price) \in Nat
        /\ seller_receives(m, o.price) \in Nat \ {0}
        /\ seller_receives(m, o.price) = o.price - fee_gold(m, o.price)
    BY <1>1, <1>5, FeeIsNat
  <1>10. /\ wallet' \in [Characters -> 0..MaxGold]
         /\ wallet'[c] = wallet[c] + seller_receives(m, o.price)
         /\ \A d \in Characters \ {c} : wallet'[d] = wallet[d]
    BY <1>1, <1>9, Holds, CreditLegal, CreditIs
  <1>11. /\ o.price - fee_gold(m, o.price) \in Nat
         /\ o.price - fee_gold(m, o.price) > 0
         /\ wallet'[c] = wallet[c] + (o.price - fee_gold(m, o.price))
    <2> DEFINE x == seller_receives(m, o.price)
               y == o.price - fee_gold(m, o.price)
    <2>1. x \in Nat \ {0} /\ x = y /\ wallet'[c] = wallet[c] + x
      BY <1>9, <1>10
    <2> HIDE DEF x, y
    <2>2. y \in Nat /\ y > 0 /\ wallet'[c] = wallet[c] + y
      BY <2>1
    <2> QED
      BY <2>2 DEF y
  <1>12. o.market = m /\ o.item = pile.item
    BY <1>2, <1>4
  <1> QED
    BY <1>1, <1>4, <1>5, <1>6, <1>8, <1>9, <1>10, <1>11, <1>12

LEMMA SellKeeps ==
    ASSUME IInv, NEW c \in Characters, NEW m \in Markets, NEW s \in Slots,
           NEW minPrice \in 1..MaxGold, NEW n \in 1..MAX_STACK,
           market_sell(c, m, s, minPrice, n)
    PROVE  IInv'
  <1> DEFINE pile == TakenPile(bag[c], s, n, next_instance_id)
             bids == Matching(c, m, pile.item, listing_total(minPrice, n))
             o == BestOf(bids)
             bg == [bag EXCEPT ![c] = BagAfterTake(bag[c], s, n)]
  <1>1. /\ o.buyer # c /\ o.buyer \in Characters
        /\ CanTake(bag[c], s, n) /\ Free(bag[o.buyer]) # {} /\ pile \in Pile
        /\ buys' = buys \ {o} /\ UNCHANGED <<alive, sells, nextOrder, grants>>
        /\ bag' = [bag EXCEPT ![c] = BagAfterTake(bag[c], s, n),
                              ![o.buyer] = PutInFirstFree(bag[o.buyer], pile)]
        /\ wallet' \in [Characters -> 0..MaxGold]
    BY SaleIs
  <1> HIDE DEF o, bids
  <1>2. bg \in [Characters -> Bag] /\ Unique(bg, sells) /\ IdFree(pile.id, bg, sells)
    <2> HIDE DEF bg
    <2>1. bg = [bag EXCEPT ![c] = BagAfterTake(bag[c], s, n)]
      BY DEF bg
    <2> QED
      BY <1>1, <2>1, Holds, UniqueAfterTake
  <1>3. bg[o.buyer] = bag[o.buyer]
    BY <1>1, Holds
  <1>4. bag' = [bg EXCEPT ![o.buyer] = PutInFirstFree(bg[o.buyer], pile)]
    BY <1>1, <1>3, Holds
  <1> HIDE DEF pile, bg
  <1>5. bag' \in [Characters -> Bag] /\ Unique(bag', sells)
    BY <1>1, <1>2, <1>3, <1>4, UniqueAfterPut
  <1>6. BooksTyped(sells', buys', nextOrder')
    BY <1>1, Holds, BooksAfterRemove
  <1> QED
    BY <1>1, <1>5, <1>6, Holds, HoldsNext

LEMMA CancelBuyKeeps ==
    ASSUME IInv, NEW c \in Characters, NEW o \in buys, cancel_buy_order(c, o)
    PROVE  IInv'
  <1>1. /\ CanCredit(c, o.price) /\ wallet' = credit_gold(wallet, c, o.price)
        /\ buys' = buys \ {o} /\ UNCHANGED <<alive, bag, sells, nextOrder, grants>>
    BY DEF cancel_buy_order
  <1>2. wallet' \in [Characters -> 0..MaxGold]
    BY <1>1, Holds, CreditLegal, CreditIs
  <1>3. BooksTyped(sells', buys', nextOrder')
    BY <1>1, Holds, BooksAfterRemove
  <1> QED
    BY <1>1, <1>2, <1>3, Holds, HoldsNext

LEMMA DeleteKeeps ==
    ASSUME IInv, NEW c \in Characters, delete_character(c)
    PROVE  IInv'
  <1>1. /\ alive' = alive \ {c} /\ wallet' = [wallet EXCEPT ![c] = 0]
        /\ bag' = [bag EXCEPT ![c] = EmptyInventory]
        /\ UNCHANGED <<sells, buys, nextOrder, grants>>
    BY DEF delete_character
  <1>2. wallet' \in [Characters -> 0..MaxGold]
    BY <1>1, Holds, MarketAssumption
  <1>3. bag' \in [Characters -> Bag] /\ Unique(bag', sells)
    BY <1>1, Holds, UniqueAfterClear
  <1> QED
    BY <1>1, <1>2, <1>3, Holds, HoldsNext

(* A step keeps the invariant.                                             *)
LEMMA StepKeeps ==
    ASSUME IInv, [Next]_vars
    PROVE  IInv'
  <1>1. ASSUME NEW c \in Characters, NEW n \in 1..MaxGold, gm_grant_gold(c, n) PROVE IInv'
    BY <1>1, GrantGoldKeeps
  <1>2. ASSUME NEW c \in Characters, NEW i \in Items, NEW n \in 1..MAX_STACK, grant_items(c, i, n)
        PROVE  IInv'
    BY <1>2, GrantItemsKeeps
  <1>3. ASSUME NEW c \in Characters, NEW m \in Markets, NEW s \in Slots, NEW price \in 1..MaxGold,
               NEW n \in 1..MAX_STACK, place_sell_order(c, m, s, price, n)
        PROVE  IInv'
    BY <1>3, PlaceSellKeeps
  <1>4. ASSUME NEW c \in Characters, NEW m \in Markets, NEW s \in Slots, NEW price \in 1..MaxGold,
               NEW n \in 1..MAX_STACK, market_sell(c, m, s, price, n)
        PROVE  IInv'
    BY <1>4, SellKeeps
  <1>5. ASSUME NEW c \in Characters, NEW m \in Markets, NEW o \in sells, market_buy(c, m, o)
        PROVE  IInv'
    BY <1>5, BuyKeeps
  <1>6. ASSUME NEW c \in Characters, NEW o \in sells, cancel_sell_order(c, o) PROVE IInv'
    BY <1>6, CancelSellKeeps
  <1>7. ASSUME NEW c \in Characters, NEW m \in Markets, NEW i \in Items, NEW price \in 1..MaxGold,
               place_buy_order(c, m, i, price)
        PROVE  IInv'
    BY <1>7, PlaceBuyKeeps
  <1>8. ASSUME NEW c \in Characters, NEW o \in buys, cancel_buy_order(c, o) PROVE IInv'
    BY <1>8, CancelBuyKeeps
  <1>9. ASSUME NEW c \in Characters, delete_character(c) PROVE IInv'
    BY <1>9, DeleteKeeps
  <1>10. CASE UNCHANGED vars
    BY <1>10, Holds, HoldsNext DEF vars
  <1> QED
    BY <1>1, <1>2, <1>3, <1>4, <1>5, <1>6, <1>7, <1>8, <1>9, <1>10 DEF Next

(* Every state the market reaches is well typed, numbers its orders below  *)
(* the next id, and gives no two piles the same instance id                *)
(* (reducers/market.rs and items.rs next_instance_id).                     *)
THEOREM Invariance == Spec => []IInv
  BY InitHolds, StepKeeps, PTL DEF Spec

(* Every state is well typed: wallets stay within u64, a slot never holds  *)
(* more than its cap, an order always stands for a real pile or price,     *)
(* and no two orders share an id.                                          *)
THEOREM TypesHold == Spec => []TypeOK
  <1>1. IInv => TypeOK
    BY DEF IInv
  <1> QED
    BY <1>1, Invariance, PTL

(* Two piles never share an instance id, in a bag or in escrow, whatever   *)
(* is listed, bought, cancelled, split off a stack or granted.             *)
THEOREM NoTwoPilesShareAnId == Spec => []InstancesUnique
  <1>1. IInv => InstancesUnique
    BY DEF IInv
  <1> QED
    BY <1>1, Invariance, PTL

(* A bid leaves the book filled or cancelled.                              *)
LEMMA BidsLeave ==
    ASSUME IInv, [Next]_vars, NEW o \in buys \ buys'
    PROVE  \/ \E c \in Characters, m \in Markets, s \in Slots, price \in 1..MaxGold,
                 n \in 1..MAX_STACK :
                 /\ market_sell(c, m, s, price, n)
                 /\ o = BestOf(Matching(c, m, TakenPile(bag[c], s, n, next_instance_id).item,
                                        listing_total(price, n)))
           \/ \E c \in Characters : cancel_buy_order(c, o)
  <1> DEFINE Goal ==
        \/ \E c \in Characters, m \in Markets, s \in Slots, price \in 1..MaxGold,
              n \in 1..MAX_STACK :
              /\ market_sell(c, m, s, price, n)
              /\ o = BestOf(Matching(c, m, TakenPile(bag[c], s, n, next_instance_id).item,
                                     listing_total(price, n)))
        \/ \E c \in Characters : cancel_buy_order(c, o)
  <1>1. ASSUME NEW c \in Characters, NEW n \in 1..MaxGold, gm_grant_gold(c, n) PROVE FALSE
    BY <1>1 DEF gm_grant_gold
  <1>2. ASSUME NEW c \in Characters, NEW i \in Items, NEW n \in 1..MAX_STACK, grant_items(c, i, n)
        PROVE  FALSE
    BY <1>2 DEF grant_items
  <1>3. ASSUME NEW c \in Characters, NEW m \in Markets, NEW s \in Slots, NEW price \in 1..MaxGold,
               NEW n \in 1..MAX_STACK, place_sell_order(c, m, s, price, n)
        PROVE  FALSE
    BY <1>3 DEF place_sell_order
  <1>4. ASSUME NEW c \in Characters, NEW m \in Markets, NEW s \in Slots, NEW price \in 1..MaxGold,
               NEW n \in 1..MAX_STACK, market_sell(c, m, s, price, n)
        PROVE  Goal
    <2>1. buys' = buys \ {BestOf(Matching(c, m, TakenPile(bag[c], s, n, next_instance_id).item,
                                          listing_total(price, n)))}
      BY <1>4, SaleIs
    <2>2. o = BestOf(Matching(c, m, TakenPile(bag[c], s, n, next_instance_id).item,
                              listing_total(price, n)))
      BY <2>1
    <2> QED
      BY <1>4, <2>2
  <1>5. ASSUME NEW c \in Characters, NEW m \in Markets, NEW l \in sells, market_buy(c, m, l)
        PROVE  FALSE
    BY <1>5 DEF market_buy
  <1>6. ASSUME NEW c \in Characters, NEW l \in sells, cancel_sell_order(c, l) PROVE FALSE
    BY <1>6 DEF cancel_sell_order
  <1>7. ASSUME NEW c \in Characters, NEW m \in Markets, NEW i \in Items, NEW price \in 1..MaxGold,
               place_buy_order(c, m, i, price)
        PROVE  FALSE
    BY <1>7 DEF place_buy_order
  <1>8. ASSUME NEW c \in Characters, NEW l \in buys, cancel_buy_order(c, l) PROVE Goal
    <2>1. o = l
      BY <1>8 DEF cancel_buy_order
    <2> QED
      BY <1>8, <2>1
  <1>9. ASSUME NEW c \in Characters, delete_character(c) PROVE FALSE
    BY <1>9 DEF delete_character
  <1>10. ~ UNCHANGED vars
    BY DEF vars
  <1> HIDE DEF Goal
  <1>11. Goal
    BY <1>1, <1>2, <1>3, <1>4, <1>5, <1>6, <1>7, <1>8, <1>9, <1>10 DEF Next
  <1> QED
    BY <1>11 DEF Goal

(* A listing leaves the book bought or cancelled.                          *)
LEMMA ListingsLeave ==
    ASSUME IInv, [Next]_vars, NEW o \in sells \ sells'
    PROVE  \/ \E c \in Characters, m \in Markets : market_buy(c, m, o)
           \/ \E c \in Characters : cancel_sell_order(c, o)
  <1> DEFINE Goal ==
        \/ \E c \in Characters, m \in Markets : market_buy(c, m, o)
        \/ \E c \in Characters : cancel_sell_order(c, o)
  <1>1. ASSUME NEW c \in Characters, NEW n \in 1..MaxGold, gm_grant_gold(c, n) PROVE FALSE
    BY <1>1 DEF gm_grant_gold
  <1>2. ASSUME NEW c \in Characters, NEW i \in Items, NEW n \in 1..MAX_STACK, grant_items(c, i, n)
        PROVE  FALSE
    BY <1>2 DEF grant_items
  <1>3. ASSUME NEW c \in Characters, NEW m \in Markets, NEW s \in Slots, NEW price \in 1..MaxGold,
               NEW n \in 1..MAX_STACK, place_sell_order(c, m, s, price, n)
        PROVE  FALSE
    BY <1>3 DEF place_sell_order
  <1>4. ASSUME NEW c \in Characters, NEW m \in Markets, NEW s \in Slots, NEW price \in 1..MaxGold,
               NEW n \in 1..MAX_STACK, market_sell(c, m, s, price, n)
        PROVE  FALSE
    BY <1>4 DEF market_sell
  <1>5. ASSUME NEW c \in Characters, NEW m \in Markets, NEW l \in sells, market_buy(c, m, l)
        PROVE  Goal
    <2>1. o = l
      BY <1>5 DEF market_buy
    <2> QED
      BY <1>5, <2>1
  <1>6. ASSUME NEW c \in Characters, NEW l \in sells, cancel_sell_order(c, l) PROVE Goal
    <2>1. o = l
      BY <1>6 DEF cancel_sell_order
    <2> QED
      BY <1>6, <2>1
  <1>7. ASSUME NEW c \in Characters, NEW m \in Markets, NEW i \in Items, NEW price \in 1..MaxGold,
               place_buy_order(c, m, i, price)
        PROVE  FALSE
    BY <1>7 DEF place_buy_order
  <1>8. ASSUME NEW c \in Characters, NEW l \in buys, cancel_buy_order(c, l) PROVE FALSE
    BY <1>8 DEF cancel_buy_order
  <1>9. ASSUME NEW c \in Characters, delete_character(c) PROVE FALSE
    BY <1>9 DEF delete_character
  <1>10. ~ UNCHANGED vars
    BY DEF vars
  <1> HIDE DEF Goal
  <1>11. Goal
    BY <1>1, <1>2, <1>3, <1>4, <1>5, <1>6, <1>7, <1>8, <1>9, <1>10 DEF Next
  <1> QED
    BY <1>11 DEF Goal

(* A refund is seen in the wallet.                                         *)
LEMMA RefundShows ==
    ASSUME IInv, NEW c \in Characters, NEW o \in buys, cancel_buy_order(c, o)
    PROVE  /\ o.buyer = c /\ wallet'[c] = wallet[c] + o.price /\ wallet'[c] # wallet[c]
           /\ wallet' \in [Characters -> 0..MaxGold]
           /\ \A d \in Characters \ {c} : wallet'[d] = wallet[d]
  <1>1. CanCredit(c, o.price) /\ wallet' = credit_gold(wallet, c, o.price) /\ o.buyer = c
    BY DEF cancel_buy_order
  <1>2. wallet'[c] = wallet[c] + o.price /\ o.price \in Nat \ {0} /\ wallet[c] \in Nat
        /\ wallet' \in [Characters -> 0..MaxGold]
        /\ \A d \in Characters \ {c} : wallet'[d] = wallet[d]
    BY <1>1, Holds, CreditLegal, CreditIs, MarketAssumption
  <1> QED
    BY <1>1, <1>2

(* A pile sold on the spot goes to the highest bid of that market that is  *)
(* not the seller's own, the oldest of equals: the choice                  *)
(* select_best_buy_order makes always exists and is the one that leaves    *)
(* the book.                                                               *)
THEOREM TheBestBidIsFilledFirst == Spec => BestBidFirst
  <1> DEFINE Best == \A o \in buys \ buys', p \in buys' :
          ( /\ wallet'[o.buyer] = wallet[o.buyer]
            /\ wallet'[p.buyer] = wallet[p.buyer]
            /\ p.market = o.market
            /\ p.item = o.item )
          => p.price < o.price \/ (p.price = o.price /\ o.id < p.id)
  <1>1. ASSUME IInv, [Next]_vars PROVE Best
    <2>1. SUFFICES ASSUME NEW o \in buys \ buys', NEW p \in buys',
                          wallet'[o.buyer] = wallet[o.buyer],
                          wallet'[p.buyer] = wallet[p.buyer],
                          p.market = o.market, p.item = o.item
                   PROVE  p.price < o.price \/ (p.price = o.price /\ o.id < p.id)
      OBVIOUS
    <2>2. ASSUME NEW c \in Characters, cancel_buy_order(c, o) PROVE FALSE
      BY <1>1, <2>1, <2>2, RefundShows
    <2>3. ASSUME NEW c \in Characters, NEW m \in Markets, NEW s \in Slots, NEW price \in 1..MaxGold,
                 NEW n \in 1..MAX_STACK, market_sell(c, m, s, price, n),
                 o = BestOf(Matching(c, m, TakenPile(bag[c], s, n, next_instance_id).item,
                                     listing_total(price, n)))
          PROVE  p.price < o.price \/ (p.price = o.price /\ o.id < p.id)
      <3> DEFINE pile == TakenPile(bag[c], s, n, next_instance_id)
                 low == listing_total(price, n)
                 bids == Matching(c, m, pile.item, low)
      <3>1. /\ o \in bids /\ o.market = m /\ o.item = pile.item /\ buys' = buys \ {o}
            /\ \A q \in bids : q.price < o.price \/ (q.price = o.price /\ o.id <= q.id)
            /\ wallet'[c] = wallet[c] + (o.price - fee_gold(m, o.price))
            /\ o.price - fee_gold(m, o.price) \in Nat
            /\ o.price - fee_gold(m, o.price) > 0
        BY <1>1, <2>3, SaleIs
      <3>2. wallet'[c] # wallet[c]
        <4> DEFINE x == o.price - fee_gold(m, o.price)
        <4>1. wallet[c] \in Int
          BY <1>1, Holds, MarketAssumption
        <4>2. x \in Nat /\ x > 0 /\ wallet'[c] = wallet[c] + x
          BY <3>1
        <4> HIDE DEF x
        <4> QED
          BY <4>1, <4>2
      <3>3. p \in buys /\ p # o /\ p.buyer # c
        BY <2>1, <3>1, <3>2
      <3>4. /\ p.id \in Nat /\ o.id \in Nat /\ p.id # o.id
            /\ p.price \in Nat /\ o.price \in Nat
        BY <1>1, <3>3, Holds
      <3>5. low \in Nat
        <4>1. price \in Nat /\ n \in Nat
          BY InventoryAssumption, PricesAreNat
        <4> QED
          BY <4>1 DEF listing_total
      <3>6. o.price >= low
        BY <3>1 DEF Matching
      <3> HIDE DEF low, pile
      <3>7. CASE p.price >= low
        <4>1. p \in bids
          BY <2>1, <3>1, <3>3, <3>7 DEF Matching
        <4> HIDE DEF bids
        <4>2. p.price < o.price \/ (p.price = o.price /\ o.id <= p.id)
          BY <3>1, <4>1
        <4> QED
          BY <3>4, <4>2
      <3>8. CASE ~ (p.price >= low)
        <4> HIDE DEF bids
        <4> QED
          BY <3>4, <3>5, <3>6, <3>8
      <3> QED
        BY <3>7, <3>8
    <2> QED
      BY <1>1, <2>2, <2>3, BidsLeave
  <1>2. [][Best]_vars => BestBidFirst
    BY PTL DEF BestBidFirst
  <1> HIDE DEF Best
  <1>3. IInv /\ [Next]_vars => [Best]_vars
    BY <1>1
  <1> QED
    BY <1>2, <1>3, Invariance, PTL DEF Spec

-----------------------------------------------------------------------------
(* 5. Fortunes.                                                            *)

Purse(w, book) == [c \in Characters |-> w[c] + Escrow(book, c)]
Stock(bg, S) == [c \in Characters |-> [i \in Items |-> count_item(bg[c], i) + Offered(S, c, i)]]

(* Gold and Goods as operators of the state they are read from.            *)
LEMMA FortunesAre ==
    /\ Gold = Purse(wallet, buys) /\ Goods = Stock(bag, sells)
    /\ Gold' = Purse(wallet', buys') /\ Goods' = Stock(bag', sells')
    /\ TotalGold = SumFunction(Gold) /\ TotalGold' = SumFunction(Gold')
  BY DEF Gold, Goods, Purse, Stock, Bids, Listings, Escrow, Offered, BidsOf, ListingsOf, TotalGold

(* The books can be summed.                                                *)
LEMMA BooksCount ==
    ASSUME IInv
    PROVE  Priced(buys) /\ Filled(sells)
  BY Holds, PileParts DEF Priced, Filled

(* A purse is a wallet and an escrow.                                      *)
LEMMA PurseIs ==
    ASSUME NEW w \in [Characters -> 0..MaxGold], NEW book, Priced(book)
    PROVE  /\ Purse(w, book) \in [Characters -> Nat]
           /\ \A c \in Characters : /\ Purse(w, book)[c] = w[c] + Escrow(book, c)
                                    /\ w[c] \in Nat /\ Escrow(book, c) \in Nat
  <1>1. \A c \in Characters : w[c] \in Nat /\ Escrow(book, c) \in Nat
    BY EscrowIsNat, MarketAssumption
  <1> QED
    BY <1>1 DEF Purse

(* A stock is a bag and what is listed.                                    *)
LEMMA StockIs ==
    ASSUME NEW bg \in [Characters -> Bag], NEW S, Filled(S)
    PROVE  /\ Stock(bg, S) \in [Characters -> [Items -> Nat]]
           /\ \A c \in Characters, i \in Items :
                 /\ Stock(bg, S)[c][i] = count_item(bg[c], i) + Offered(S, c, i)
                 /\ count_item(bg[c], i) \in Nat /\ Offered(S, c, i) \in Nat
  <1>1. ASSUME NEW c \in Characters, NEW i
        PROVE  count_item(bg[c], i) \in Nat /\ Offered(S, c, i) \in Nat
    <2>1. bg[c] \in Bag
      OBVIOUS
    <2> QED
      BY <2>1, CountIs, OfferedIsNat
  <1> QED
    BY <1>1 DEF Stock

(* Two functions that agree everywhere are equal.                          *)
LEMMA SameFunctions ==
    ASSUME NEW S, NEW T, NEW f \in [S -> T], NEW g \in [S -> T], \A x \in S : f[x] = g[x]
    PROVE  f = g
  OBVIOUS

(* Stocks that agree everywhere are equal.                                 *)
LEMMA SameStock ==
    ASSUME NEW f \in [Characters -> [Items -> Nat]], NEW g \in [Characters -> [Items -> Nat]],
           \A c \in Characters, i \in Items : f[c][i] = g[c][i]
    PROVE  f = g
  <1>1. ASSUME NEW c \in Characters PROVE f[c] = g[c]
    <2>1. f[c] \in [Items -> Nat] /\ g[c] \in [Items -> Nat]
      OBVIOUS
    <2>2. \A i \in Items : f[c][i] = g[c][i]
      OBVIOUS
    <2> QED
      BY <2>1, <2>2
  <1> QED
    BY <1>1

-----------------------------------------------------------------------------
(* n pieces of i change hands for price, of which the seller gets paid.    *)
Traded(seller, buyer, i, n, price, paid) ==
    /\ seller \in Characters /\ buyer \in Characters /\ seller # buyer
    /\ seller \in alive /\ buyer \in alive /\ alive' = alive
    /\ i \in Items /\ n \in Nat \ {0}
    /\ price \in Nat /\ paid \in Nat \ {0} /\ paid <= price
    /\ Gold'[seller] = Gold[seller] + paid
    /\ Gold'[buyer] = Gold[buyer] - price
    /\ \A c \in Characters \ {seller, buyer} : Gold'[c] = Gold[c]
    /\ Goods'[seller][i] = Goods[seller][i] - n
    /\ Goods'[buyer][i] = Goods[buyer][i] + n
    /\ \A c \in Characters, j \in Items :
          ~ (j = i /\ c \in {seller, buyer}) => Goods'[c][j] = Goods[c][j]

Fortunes ==
    /\ Gold \in [Characters -> Nat] /\ Goods \in [Characters -> [Items -> Nat]]

(* Fortunes are numbers.                                                   *)
LEMMA FortunesTyped == IInv => Fortunes
  <1> SUFFICES ASSUME IInv PROVE Fortunes
    OBVIOUS
  <1>1. wallet \in [Characters -> 0..MaxGold] /\ bag \in [Characters -> Bag]
    BY Holds
  <1>2. Gold = Purse(wallet, buys) /\ Goods = Stock(bag, sells)
    BY FortunesAre
  <1> QED
    BY <1>1, <1>2, BooksCount, PurseIs, StockIs DEF Fortunes

(* They are before and after a step.                                       *)
LEMMA FortunesTypedNext ==
    ASSUME IInv, [Next]_vars
    PROVE  Fortunes /\ Fortunes'
  <1>1. IInv'
    BY StepKeeps
  <1> QED
    BY <1>1, FortunesTyped, PTL

(* A trade burns the price less what is paid.                              *)
LEMMA TradeBurns ==
    ASSUME Fortunes, Fortunes', NEW seller, NEW buyer, NEW i, NEW n, NEW price, NEW paid,
           Traded(seller, buyer, i, n, price, paid)
    PROVE  TotalGold - TotalGold' = price - paid
  <1> DEFINE f == Gold
             g == Gold'
             h == [f EXCEPT ![seller] = g[seller]]
  <1>1. /\ f \in [Characters -> Nat] /\ g \in [Characters -> Nat]
        /\ seller \in Characters /\ buyer \in Characters /\ seller # buyer
        /\ g[seller] = f[seller] + paid /\ g[buyer] = f[buyer] - price
        /\ \A c \in Characters \ {seller, buyer} : g[c] = f[c]
        /\ price \in Nat /\ paid \in Nat
    BY DEF Traded, Fortunes
  <1>2. TotalGold = SumFunctionOnSet(f, Characters) /\ TotalGold' = SumFunctionOnSet(g, Characters)
    <2>1. DOMAIN f = Characters /\ DOMAIN g = Characters
      BY <1>1
    <2> HIDE DEF f, g
    <2>2. SumFunction(f) = SumFunctionOnSet(f, Characters) /\ SumFunction(g) = SumFunctionOnSet(g, Characters)
      BY <2>1, SumOfFunction
    <2> QED
      BY <2>2, FortunesAre DEF f, g
  <1> HIDE DEF f, g
  <1>3. /\ h \in [Characters -> Nat] /\ h[seller] = g[seller]
        /\ \A c \in Characters \ {seller} : h[c] = f[c]
    BY <1>1
  <1> HIDE DEF h
  <1>4. \A c \in Characters : f[c] \in Int /\ g[c] \in Int /\ h[c] \in Int
    BY <1>1, <1>3
  <1>5. /\ SumFunctionOnSet(f, Characters) \in Int
        /\ SumFunctionOnSet(h, Characters) = SumFunctionOnSet(f, Characters) - f[seller] + h[seller]
    <2>1. \A c \in Characters \ {seller} : f[c] = h[c]
      BY <1>3
    <2> QED
      BY <1>1, <1>4, <2>1, SumOneChanged, MarketAssumption
  <1>6. SumFunctionOnSet(g, Characters) = SumFunctionOnSet(h, Characters) - h[buyer] + g[buyer]
    <2>1. \A c \in Characters \ {buyer} : h[c] = g[c]
      BY <1>1, <1>3
    <2> QED
      BY <1>1, <1>4, <2>1, SumOneChanged, MarketAssumption
  <1> DEFINE a == SumFunctionOnSet(f, Characters)
             b == SumFunctionOnSet(g, Characters)
             d == SumFunctionOnSet(h, Characters)
  <1>7. a \in Int /\ d = a - f[seller] + (f[seller] + paid) /\ b = d - f[buyer] + (f[buyer] - price)
    BY <1>1, <1>3, <1>5, <1>6
  <1>8. f[seller] \in Int /\ f[buyer] \in Int
    BY <1>1
  <1> HIDE DEF a, b, d
  <1>9. a - b = price - paid
    BY <1>1, <1>7, <1>8
  <1> QED
    BY <1>2, <1>9 DEF a, b

(* Buying a listing is a trade.                                            *)
LEMMA BuyTrades ==
    ASSUME IInv, [Next]_vars, NEW c \in Characters, NEW m \in Markets, NEW o \in sells,
           market_buy(c, m, o)
    PROVE  /\ Traded(o.seller, c, o.pile.item, o.pile.quantity, o.price, o.price - fee_gold(m, o.price))
           /\ o.market = m /\ fee_gold(m, o.price) \in Nat
  <1> DEFINE s == o.seller
             i == o.pile.item
             n == o.pile.quantity
             price == o.price
             paid == o.price - fee_gold(m, o.price)
  <1>1. /\ wallet' \in [Characters -> 0..MaxGold]
        /\ s \in Characters /\ s # c /\ o.market = m
        /\ fee_gold(m, o.price) \in Nat /\ paid > 0
        /\ wallet'[c] = wallet[c] - price
        /\ wallet'[s] = wallet[s] + paid
        /\ \A d \in Characters \ {c, s} : wallet'[d] = wallet[d]
    BY BuyWallets
  <1>2. /\ c \in alive /\ s \in alive /\ Free(bag[c]) # {} /\ alive' = alive /\ buys' = buys
        /\ bag' = [bag EXCEPT ![c] = PutInFirstFree(bag[c], o.pile)]
        /\ sells' = sells \ {o}
    BY DEF market_buy
  <1>3. o.pile \in Pile /\ i \in Items /\ n \in Nat \ {0} /\ price \in Nat
    BY Holds, PileParts
  <1>4. paid \in Nat \ {0} /\ paid <= price
    <2> DEFINE x == fee_gold(m, o.price)
    <2>1. x \in Nat /\ price - x > 0
      BY <1>1
    <2> HIDE DEF x, price
    <2>2. price - x \in Nat \ {0} /\ price - x <= price
      BY <1>3, <2>1
    <2> QED
      BY <2>2 DEF x, price
  <1>5. Priced(buys) /\ Filled(sells) /\ bag[c] \in Bag
        /\ bag \in [Characters -> Bag] /\ wallet \in [Characters -> 0..MaxGold]
    BY BooksCount, Holds
  <1>6. \A d \in Characters : /\ Gold[d] = wallet[d] + Escrow(buys, d)
                              /\ Gold'[d] = wallet'[d] + Escrow(buys, d)
                              /\ wallet[d] \in Nat /\ wallet'[d] \in Nat /\ Escrow(buys, d) \in Nat
    BY <1>1, <1>2, <1>5, FortunesAre, PurseIs
  <1>7. \A j : /\ count_item(bag'[c], j) = count_item(bag[c], j) + (IF j = i THEN n ELSE 0)
               /\ count_item(bag[c], j) \in Nat
    <2>1. bag'[c] = PutInFirstFree(bag[c], o.pile)
      BY <1>2, <1>5
    <2> QED
      BY <1>2, <1>3, <1>5, <2>1, PutIs, CountIs
  <1>8. \A d \in Characters \ {c} : bag'[d] = bag[d]
    BY <1>2, <1>5
  <1>9. /\ Filled(sells')
        /\ \A d, j : Offered(sells', d, j) = Offered(sells, d, j)
                       - (IF s = d /\ i = j THEN n ELSE 0)
    <2>1. /\ Filled(sells \ {o})
          /\ \A d, j : Offered(sells \ {o}, d, j) = Offered(sells, d, j)
                         - (IF o.seller = d /\ o.pile.item = j THEN o.pile.quantity ELSE 0)
      BY <1>5, OfferedRemove
    <2> QED
      BY <1>2, <2>1
  <1>10. IInv'
    BY StepKeeps
  <1>11. bag' \in [Characters -> Bag]
    BY <1>10 DEF IInv, TypeOK
  <1>12. \A d \in Characters, j \in Items :
            /\ Goods[d][j] = count_item(bag[d], j) + Offered(sells, d, j)
            /\ Goods'[d][j] = count_item(bag'[d], j) + Offered(sells', d, j)
            /\ count_item(bag[d], j) \in Nat /\ Offered(sells, d, j) \in Nat
    BY <1>5, <1>9, <1>11, FortunesAre, StockIs
  <1> HIDE DEF s, i, n, price, paid
  <1>13. /\ Gold'[s] = Gold[s] + paid /\ Gold'[c] = Gold[c] - price
         /\ \A d \in Characters \ {s, c} : Gold'[d] = Gold[d]
    BY <1>1, <1>3, <1>4, <1>6
  <1>14. Goods'[s][i] = Goods[s][i] - n
    <2>1. count_item(bag'[s], i) = count_item(bag[s], i)
      BY <1>1, <1>8
    <2>2. Offered(sells', s, i) = Offered(sells, s, i) - n
      BY <1>9
    <2> QED
      BY <1>1, <1>3, <1>12, <2>1, <2>2
  <1>15. Goods'[c][i] = Goods[c][i] + n
    <2>1. Offered(sells', c, i) = Offered(sells, c, i)
      BY <1>1, <1>3, <1>9, <1>12
    <2> QED
      BY <1>3, <1>7, <1>12, <2>1
  <1>16. ASSUME NEW d \in Characters, NEW j \in Items, ~ (j = i /\ d \in {s, c})
         PROVE  Goods'[d][j] = Goods[d][j]
    <2>1. Offered(sells', d, j) = Offered(sells, d, j)
      <3>1. ~ (s = d /\ i = j)
        BY <1>16
      <3>2. Offered(sells', d, j) = Offered(sells, d, j) - 0
        BY <1>9, <3>1
      <3> QED
        BY <1>12, <3>2
    <2>2. count_item(bag'[d], j) = count_item(bag[d], j)
      <3>1. CASE d = c
        <4>1. count_item(bag'[c], j) = count_item(bag[c], j) + 0
          BY <1>7, <1>16, <3>1
        <4> QED
          BY <1>7, <3>1, <4>1
      <3>2. CASE d # c
        BY <1>8, <3>2
      <3> QED
        BY <3>1, <3>2
    <2> QED
      BY <1>12, <2>1, <2>2
  <1>17. Traded(s, c, i, n, price, paid)
    BY <1>1, <1>2, <1>3, <1>4, <1>13, <1>14, <1>15, <1>16 DEF Traded
  <1> QED
    BY <1>1, <1>17 DEF s, i, n, price, paid

(* Selling to a bid is a trade.                                            *)
LEMMA SellTrades ==
    ASSUME IInv, [Next]_vars, NEW c \in Characters, NEW m \in Markets, NEW s \in Slots,
           NEW minPrice \in 1..MaxGold, NEW q \in 1..MAX_STACK,
           market_sell(c, m, s, minPrice, q),
           NEW pile, pile = TakenPile(bag[c], s, q, next_instance_id),
           NEW o, o = BestOf(Matching(c, m, pile.item, listing_total(minPrice, q)))
    PROVE  /\ Traded(c, o.buyer, pile.item, q, o.price, o.price - fee_gold(m, o.price))
           /\ o.market = m /\ fee_gold(m, o.price) \in Nat
  <1> DEFINE b == o.buyer
             i == pile.item
             price == o.price
             paid == o.price - fee_gold(m, o.price)
  <1>1. /\ o \in buys /\ o.market = m /\ b # c /\ b \in Characters
        /\ b \in alive /\ c \in alive
        /\ CanTake(bag[c], s, q) /\ Free(bag[b]) # {}
        /\ pile \in Pile /\ pile.item = bag[c][s].item /\ pile.quantity = q
        /\ buys' = buys \ {o} /\ alive' = alive /\ sells' = sells
        /\ bag' = [bag EXCEPT ![c] = BagAfterTake(bag[c], s, q),
                              ![b] = PutInFirstFree(bag[b], pile)]
        /\ fee_gold(m, o.price) \in Nat
        /\ paid \in Nat /\ paid > 0
        /\ wallet' \in [Characters -> 0..MaxGold]
        /\ wallet'[c] = wallet[c] + paid
        /\ \A d \in Characters \ {c} : wallet'[d] = wallet[d]
    BY SaleIs
  <1>2. i \in Items /\ q \in Nat \ {0} /\ price \in Nat
    BY <1>1, Holds, PileParts
  <1>3. paid \in Nat \ {0} /\ paid <= price
    <2> DEFINE x == fee_gold(m, o.price)
    <2>1. x \in Nat /\ price - x > 0
      BY <1>1
    <2> HIDE DEF x, price
    <2>2. price - x \in Nat \ {0} /\ price - x <= price
      BY <1>2, <2>1
    <2> QED
      BY <2>2 DEF x, price
  <1>4. /\ Priced(buys) /\ Filled(sells) /\ bag[c] \in Bag /\ bag[b] \in Bag
        /\ bag \in [Characters -> Bag] /\ wallet \in [Characters -> 0..MaxGold]
    BY <1>1, BooksCount, Holds
  <1>5. /\ Priced(buys')
        /\ \A d : Escrow(buys', d) = Escrow(buys, d) - (IF b = d THEN price ELSE 0)
    <2>1. /\ Priced(buys \ {o})
          /\ \A d : Escrow(buys \ {o}, d) = Escrow(buys, d) - (IF o.buyer = d THEN o.price ELSE 0)
      BY <1>1, <1>4, EscrowRemove, ZenonT(60)
    <2> QED
      BY <1>1, <2>1
  <1>6. \A d \in Characters : /\ Gold[d] = wallet[d] + Escrow(buys, d)
                              /\ Gold'[d] = wallet'[d] + Escrow(buys', d)
                              /\ wallet[d] \in Nat /\ wallet'[d] \in Nat /\ Escrow(buys, d) \in Nat
    BY <1>1, <1>4, <1>5, FortunesAre, PurseIs
  <1>7. /\ bag'[c] = BagAfterTake(bag[c], s, q) /\ bag'[b] = PutInFirstFree(bag[b], pile)
        /\ \A d \in Characters \ {c, b} : bag'[d] = bag[d]
    BY <1>1, <1>4
  <1>8. \A j : count_item(bag'[c], j) = count_item(bag[c], j) - (IF j = i THEN q ELSE 0)
    <2>1. \A j : count_item(BagAfterTake(bag[c], s, q), j)
                   = count_item(bag[c], j) - (IF j = bag[c][s].item THEN q ELSE 0)
      BY <1>1, <1>4, Holds, TakeIs
    <2> QED
      BY <1>1, <1>7, <2>1, ZenonT(60)
  <1>9. \A j : count_item(bag'[b], j) = count_item(bag[b], j) + (IF j = i THEN q ELSE 0)
    <2>1. \A j : count_item(PutInFirstFree(bag[b], pile), j)
                   = count_item(bag[b], j) + (IF j = pile.item THEN pile.quantity ELSE 0)
      BY <1>1, <1>4, PutIs
    <2> QED
      BY <1>1, <1>7, <2>1, ZenonT(60)
  <1>10. IInv'
    BY StepKeeps
  <1>11. bag' \in [Characters -> Bag]
    BY <1>10 DEF IInv, TypeOK
  <1>12. \A d \in Characters, j \in Items :
            /\ Goods[d][j] = count_item(bag[d], j) + Offered(sells, d, j)
            /\ Goods'[d][j] = count_item(bag'[d], j) + Offered(sells, d, j)
            /\ count_item(bag[d], j) \in Nat /\ Offered(sells, d, j) \in Nat
    <2>1. Goods = Stock(bag, sells) /\ Goods' = Stock(bag', sells)
      BY <1>1, FortunesAre
    <2> QED
      BY <1>4, <1>11, <2>1, StockIs
  <1> HIDE DEF b, i, price, paid
  <1>13. Gold'[c] = Gold[c] + paid
    <2>1. Escrow(buys', c) = Escrow(buys, c) - 0
      BY <1>1, <1>5
    <2> QED
      BY <1>1, <1>3, <1>6, <2>1
  <1>14. Gold'[b] = Gold[b] - price
    <2>1. Escrow(buys', b) = Escrow(buys, b) - price
      BY <1>5
    <2> QED
      BY <1>1, <1>2, <1>6, <2>1
  <1>15. ASSUME NEW d \in Characters \ {c, b} PROVE Gold'[d] = Gold[d]
    <2>1. Escrow(buys', d) = Escrow(buys, d) - 0
      BY <1>5
    <2> QED
      BY <1>1, <1>6, <2>1
  <1>16. Goods'[c][i] = Goods[c][i] - q
    BY <1>2, <1>8, <1>12
  <1>17. Goods'[b][i] = Goods[b][i] + q
    <2>1. count_item(bag'[b], i) = count_item(bag[b], i) + q /\ b \in Characters
      BY <1>1, <1>9
    <2> QED
      BY <1>2, <1>12, <2>1
  <1>18. ASSUME NEW d \in Characters, NEW j \in Items, ~ (j = i /\ d \in {c, b})
         PROVE  Goods'[d][j] = Goods[d][j]
    <2>1. count_item(bag'[d], j) = count_item(bag[d], j)
      <3>1. CASE d = c
        <4>1. count_item(bag'[c], j) = count_item(bag[c], j) - 0
          BY <1>8, <1>18, <3>1
        <4> QED
          BY <1>12, <3>1, <4>1
      <3>2. CASE d = b
        <4>1. count_item(bag'[b], j) = count_item(bag[b], j) + 0
          BY <1>9, <1>18, <3>2
        <4> QED
          BY <1>12, <3>2, <4>1
      <3>3. CASE d # c /\ d # b
        BY <1>7, <3>3
      <3> QED
        BY <3>1, <3>2, <3>3
    <2> QED
      BY <1>12, <2>1
  <1>19. Traded(c, b, i, q, price, paid)
    BY <1>1, <1>2, <1>3, <1>13, <1>14, <1>15, <1>16, <1>17, <1>18 DEF Traded
  <1> QED
    BY <1>1, <1>19 DEF b, i, price, paid

(* A fill burns the posted rate of the market its order stands in, rounded *)
(* down: the gold of all wallets and bids falls by exactly that much,      *)
(* whoever else holds an order.                                            *)
THEOREM FeesArePosted == Spec => FeesAsPosted
  <1> DEFINE Fees ==
        /\ \A o \in sells \ sells' :
             wallet' # wallet => IsPostedFee(TotalGold - TotalGold', o.market, o.price)
        /\ \A o \in buys \ buys' :
             wallet'[o.buyer] = wallet[o.buyer]
                => IsPostedFee(TotalGold - TotalGold', o.market, o.price)
  <1>1. ASSUME IInv, [Next]_vars PROVE Fees
    <2>1. Fortunes /\ Fortunes'
      BY <1>1, FortunesTypedNext
    <2>2. ASSUME NEW price \in Nat, NEW fee \in Nat PROVE price - (price - fee) = fee
      OBVIOUS
    <2>3. ASSUME NEW o \in sells \ sells', wallet' # wallet
          PROVE  IsPostedFee(TotalGold - TotalGold', o.market, o.price)
      <3>1. ASSUME NEW c \in Characters, NEW m \in Markets, market_buy(c, m, o)
            PROVE  IsPostedFee(TotalGold - TotalGold', o.market, o.price)
        <4> DEFINE fee == fee_gold(m, o.price)
        <4>1. /\ Traded(o.seller, c, o.pile.item, o.pile.quantity, o.price, o.price - fee)
              /\ o.market = m /\ fee \in Nat
          BY <1>1, <3>1, BuyTrades
        <4>2. o.price \in Nat
          BY <1>1, Holds
        <4> HIDE DEF fee
        <4>3. TotalGold - TotalGold' = o.price - (o.price - fee)
          BY <2>1, <4>1, TradeBurns
        <4>4. TotalGold - TotalGold' = fee
          BY <2>2, <4>1, <4>2, <4>3
        <4>5. m \in Markets /\ IsPostedFee(fee, m, o.price)
          BY <4>2, FeeIsPosted DEF fee
        <4> QED
          BY <4>1, <4>4, <4>5
      <3>2. ASSUME NEW c \in Characters, cancel_sell_order(c, o) PROVE FALSE
        BY <2>3, <3>2 DEF cancel_sell_order
      <3> QED
        BY <1>1, <3>1, <3>2, ListingsLeave
    <2>4. ASSUME NEW o \in buys \ buys', wallet'[o.buyer] = wallet[o.buyer]
          PROVE  IsPostedFee(TotalGold - TotalGold', o.market, o.price)
      <3>1. ASSUME NEW c \in Characters, NEW m \in Markets, NEW s \in Slots, NEW price \in 1..MaxGold,
                   NEW n \in 1..MAX_STACK, market_sell(c, m, s, price, n),
                   o = BestOf(Matching(c, m, TakenPile(bag[c], s, n, next_instance_id).item,
                                       listing_total(price, n)))
            PROVE  IsPostedFee(TotalGold - TotalGold', o.market, o.price)
        <4> DEFINE fee == fee_gold(m, o.price)
                   pile == TakenPile(bag[c], s, n, next_instance_id)
        <4>1. /\ Traded(c, o.buyer, pile.item, n, o.price, o.price - fee)
              /\ o.market = m /\ fee \in Nat
          BY <1>1, <3>1, SellTrades
        <4>2. o.price \in Nat
          BY <1>1, Holds
        <4> HIDE DEF fee, pile
        <4>3. TotalGold - TotalGold' = o.price - (o.price - fee)
          BY <2>1, <4>1, TradeBurns
        <4>4. TotalGold - TotalGold' = fee
          BY <2>2, <4>1, <4>2, <4>3
        <4>5. m \in Markets /\ IsPostedFee(fee, m, o.price)
          BY <4>2, FeeIsPosted DEF fee
        <4> QED
          BY <4>1, <4>4, <4>5
      <3>2. ASSUME NEW c \in Characters, cancel_buy_order(c, o) PROVE FALSE
        BY <1>1, <2>4, <3>2, RefundShows
      <3> QED
        BY <1>1, <3>1, <3>2, BidsLeave
    <2> QED
      BY <2>3, <2>4
  <1>2. [][Fees]_vars => FeesAsPosted
    BY PTL DEF FeesAsPosted
  <1> HIDE DEF Fees
  <1>3. IInv /\ [Next]_vars => [Fees]_vars
    BY <1>1
  <1> QED
    BY <1>2, <1>3, Invariance, PTL DEF Spec

-----------------------------------------------------------------------------
(* The market is a barter.                                                 *)

(* The market starts as the barter does.                                   *)
LEMMA StartIsBarters == Init => B!Init
  <1> SUFFICES ASSUME Init PROVE B!Init
    OBVIOUS
  <1>1. IInv
    BY InitHolds
  <1>2. wallet \in [Characters -> 0..MaxGold] /\ bag \in [Characters -> Bag]
    BY <1>1, Holds
  <1>3. Priced(buys) /\ Filled(sells)
    BY <1>1, BooksCount
  <1>4. ASSUME NEW c \in Characters PROVE Escrow(buys, c) = 0
    <2>1. BidsOf(buys, c) = {}
      BY DEF Init, BidsOf
    <2>2. Escrow(buys, c) = SumFunctionOnSet([o \in buys |-> o.price], {})
      BY <1>3, <2>1, EscrowIs
    <2> QED
      BY <2>2, SumOfNone
  <1>5. ASSUME NEW c \in Characters, NEW i PROVE Offered(sells, c, i) = 0
    <2>1. ListingsOf(sells, c, i) = {}
      BY DEF Init, ListingsOf
    <2>2. Offered(sells, c, i)
            = SumFunctionOnSet([o \in sells |-> o.pile.quantity], ListingsOf(sells, c, i))
      BY <1>3, OfferedIs
    <2> QED
      BY <2>1, <2>2, SumOfNone
  <1>6. \A c \in Characters : wallet[c] = 0 /\ bag[c] = EmptyInventory
    BY DEF Init
  <1>7. Gold = [c \in Characters |-> 0]
    <2>1. \A c \in Characters : wallet[c] + Escrow(buys, c) = 0
      BY <1>4, <1>6
    <2> QED
      BY <2>1, FortunesAre DEF Purse
  <1>8. Goods = [c \in Characters |-> [i \in Items |-> 0]]
    <2>1. \A c \in Characters, i \in Items : count_item(bag[c], i) + Offered(sells, c, i) = 0
      BY <1>5, <1>6, EmptyCounts
    <2>2. Stock(bag, sells) = [c \in Characters |-> [i \in Items |-> 0]]
      BY <2>1 DEF Stock
    <2> QED
      BY <2>2, FortunesAre
  <1> QED
    BY <1>7, <1>8 DEF Init, B!Init

(* Nobody's fortune moves.                                                 *)
LEMMA Idle ==
    ASSUME Fortunes, Fortunes', alive' = alive,
           \A c \in Characters : Gold'[c] = Gold[c],
           \A c \in Characters, i \in Items : Goods'[c][i] = Goods[c][i]
    PROVE  [B!Next]_B!vars
  <1>1. Gold' = Gold
    BY SameFunctions DEF Fortunes
  <1>2. Goods' = Goods
    BY SameStock DEF Fortunes
  <1> QED
    BY <1>1, <1>2 DEF B!vars

(* A trade is a trade of the barter.                                       *)
LEMMA TradedIsBarter ==
    ASSUME Fortunes, Fortunes', NEW seller, NEW buyer, NEW i, NEW n, NEW price, NEW paid,
           Traded(seller, buyer, i, n, price, paid)
    PROVE  [B!Next]_B!vars
  <1>1. /\ seller \in Characters /\ buyer \in Characters /\ seller # buyer
        /\ seller \in alive /\ buyer \in alive /\ alive' = alive
        /\ i \in Items /\ n \in Nat \ {0}
        /\ price \in Nat /\ paid \in Nat \ {0} /\ paid <= price
    BY DEF Traded
  <1>2. /\ Gold \in [Characters -> Nat] /\ Gold' \in [Characters -> Nat]
        /\ Goods \in [Characters -> [Items -> Nat]] /\ Goods' \in [Characters -> [Items -> Nat]]
    BY DEF Fortunes
  <1>3. /\ Gold'[seller] = Gold[seller] + paid
        /\ Gold'[buyer] = Gold[buyer] - price
        /\ \A c \in Characters \ {seller, buyer} : Gold'[c] = Gold[c]
    BY DEF Traded
  <1>4. /\ Goods'[seller][i] = Goods[seller][i] - n
        /\ Goods'[buyer][i] = Goods[buyer][i] + n
        /\ \A c \in Characters, j \in Items :
              ~ (j = i /\ c \in {seller, buyer}) => Goods'[c][j] = Goods[c][j]
    BY DEF Traded
  <1> DEFINE n0 == Goods[seller][i] - Goods'[seller][i]
             price0 == Gold[buyer] - Gold'[buyer]
             paid0 == Gold'[seller] - Gold[seller]
  <1>5. /\ Gold[seller] \in Nat /\ Gold[buyer] \in Nat /\ Goods[seller][i] \in Nat
        /\ Goods[buyer][i] \in Nat
    BY <1>1, <1>2
  <1>6. n0 = n /\ price0 = price /\ paid0 = paid
    BY <1>1, <1>3, <1>4, <1>5
  <1>7. Gold' = [Gold EXCEPT ![seller] = @ + paid, ![buyer] = @ - price]
    <2> DEFINE g == [Gold EXCEPT ![seller] = @ + paid, ![buyer] = @ - price]
    <2>1. g[seller] = Gold[seller] + paid /\ g[buyer] = Gold[buyer] - price
      BY <1>1, <1>2
    <2>2. \A c \in Characters : g[c] = Gold'[c]
      BY <1>1, <1>2, <1>3
    <2>3. \A c \in Characters : g[c] \in Nat
      BY <1>2, <2>2
    <2>4. DOMAIN g = Characters /\ g = [c \in DOMAIN g |-> g[c]]
      BY <1>2
    <2> HIDE DEF g
    <2>5. g \in [Characters -> Nat]
      BY <2>3, <2>4
    <2>6. g = Gold'
      BY <1>2, <2>2, <2>5
    <2> QED
      BY <2>6 DEF g
  <1>8. Goods' = [Goods EXCEPT ![seller][i] = @ - n, ![buyer][i] = @ + n]
    <2> DEFINE g == [Goods EXCEPT ![seller][i] = @ - n, ![buyer][i] = @ + n]
               a == [Goods[seller] EXCEPT ![i] = @ - n]
               b == [Goods[buyer] EXCEPT ![i] = @ + n]
    <2>1. g = [Goods EXCEPT ![seller] = a, ![buyer] = b]
      BY <1>1, <1>2
    <2>2. a = Goods'[seller]
      <3>1. Goods[seller] \in [Items -> Nat] /\ Goods'[seller] \in [Items -> Nat]
        BY <1>1, <1>2
      <3>2. \A j \in Items : a[j] = Goods'[seller][j]
        BY <1>1, <1>4, <3>1
      <3>3. DOMAIN a = Items /\ a = [j \in Items |-> a[j]]
        BY <3>1
      <3> HIDE DEF a
      <3> QED
        BY <3>1, <3>2, <3>3
    <2>3. b = Goods'[buyer]
      <3>1. Goods[buyer] \in [Items -> Nat] /\ Goods'[buyer] \in [Items -> Nat]
        BY <1>1, <1>2
      <3>2. \A j \in Items : b[j] = Goods'[buyer][j]
        BY <1>1, <1>4, <3>1
      <3>3. DOMAIN b = Items /\ b = [j \in Items |-> b[j]]
        BY <3>1
      <3> HIDE DEF b
      <3> QED
        BY <3>1, <3>2, <3>3
    <2>4. \A c \in Characters \ {seller, buyer} : Goods[c] = Goods'[c]
      <3>1. TAKE c \in Characters \ {seller, buyer}
      <3>2. Goods[c] \in [Items -> Nat] /\ Goods'[c] \in [Items -> Nat]
        BY <1>2
      <3>3. \A j \in Items : Goods[c][j] = Goods'[c][j]
        BY <1>4
      <3> QED
        BY <3>2, <3>3
    <2> HIDE DEF a, b
    <2>5. \A c \in Characters : [Goods EXCEPT ![seller] = a, ![buyer] = b][c] = Goods'[c]
      BY <1>1, <1>2, <2>2, <2>3, <2>4
    <2>6. [Goods EXCEPT ![seller] = a, ![buyer] = b] = Goods'
      BY <1>1, <1>2, <2>2, <2>3, <2>5
    <2> QED
      BY <2>1, <2>6 DEF g
  <1> HIDE DEF n0, price0, paid0
  <1>9. /\ {seller, buyer} \subseteq alive /\ n0 > 0 /\ 0 < paid0 /\ paid0 <= price0
    BY <1>1, <1>6
  <1>10. /\ Goods' = [Goods EXCEPT ![seller][i] = @ - n0, ![buyer][i] = @ + n0]
         /\ Gold' = [Gold EXCEPT ![seller] = @ + paid0, ![buyer] = @ - price0]
    BY <1>6, <1>7, <1>8
  <1>11. B!Trade(seller, buyer, i)
    BY <1>1, <1>9, <1>10 DEF B!Trade, n0, price0, paid0
  <1> QED
    BY <1>1, <1>11 DEF B!Next

(* Each action is a step of the barter, or changes nobody's fortune.       *)
LEMMA GrantGoldIsBarter ==
    ASSUME IInv, [Next]_vars, NEW c \in Characters, NEW n \in 1..MaxGold, gm_grant_gold(c, n)
    PROVE  [B!Next]_B!vars
  <1>1. Fortunes /\ Fortunes'
    BY FortunesTypedNext
  <1>2. /\ c \in alive /\ CanCredit(c, n) /\ wallet' = credit_gold(wallet, c, n)
        /\ UNCHANGED <<alive, bag, sells, buys, nextOrder>>
    BY DEF gm_grant_gold
  <1>3. n \in Nat \ {0}
    BY PricesAreNat
  <1>4. /\ wallet' \in [Characters -> 0..MaxGold] /\ wallet'[c] = wallet[c] + n
        /\ \A d \in Characters \ {c} : wallet'[d] = wallet[d]
    BY <1>2, <1>3, Holds, CreditLegal, CreditIs
  <1>5. wallet \in [Characters -> 0..MaxGold] /\ Priced(buys)
    BY Holds, BooksCount
  <1>6. \A d \in Characters : /\ Gold[d] = wallet[d] + Escrow(buys, d)
                              /\ Gold'[d] = wallet'[d] + Escrow(buys, d)
                              /\ wallet[d] \in Nat /\ Escrow(buys, d) \in Nat
    BY <1>2, <1>4, <1>5, FortunesAre, PurseIs
  <1>7. Gold'[c] > Gold[c] /\ \A d \in Characters \ {c} : Gold'[d] = Gold[d]
    BY <1>3, <1>4, <1>6
  <1>8. Gold' = [Gold EXCEPT ![c] = Gold'[c]]
    BY <1>1, <1>7 DEF Fortunes
  <1>9. Goods' = Goods
    BY <1>2, FortunesAre
  <1>10. B!Earn(c)
    BY <1>2, <1>7, <1>8, <1>9 DEF B!Earn
  <1> QED
    BY <1>10 DEF B!Next

LEMMA GrantItemsIsBarter ==
    ASSUME IInv, [Next]_vars, NEW c \in Characters, NEW i \in Items, NEW n \in 1..MAX_STACK,
           grant_items(c, i, n)
    PROVE  [B!Next]_B!vars
  <1>1. Fortunes /\ Fortunes'
    BY FortunesTypedNext
  <1>2. /\ c \in alive /\ space_for(bag[c], i) > 0
        /\ bag' = [bag EXCEPT ![c] = add_stackable(bag[c], i, n, next_instance_id)]
        /\ UNCHANGED <<alive, wallet, sells, buys, nextOrder>>
    BY DEF grant_items
  <1>3. n \in Nat \ {0}
    BY InventoryAssumption
  <1>4. bag \in [Characters -> Bag] /\ bag[c] \in Bag /\ Filled(sells)
    BY Holds, BooksCount
  <1>5. /\ bag'[c] = add_stackable(bag[c], i, n, next_instance_id)
        /\ \A d \in Characters \ {c} : bag'[d] = bag[d]
    BY <1>2, <1>4
  <1>6. /\ count_item(bag'[c], i) > count_item(bag[c], i)
        /\ \A j : j # i => count_item(bag'[c], j) = count_item(bag[c], j)
    BY <1>2, <1>3, <1>4, <1>5, Holds, AddStackableCounts
  <1>7. bag' \in [Characters -> Bag]
    <2>1. IInv'
      BY StepKeeps
    <2> QED
      BY <2>1 DEF IInv, TypeOK
  <1>8. \A d \in Characters, j \in Items :
           /\ Goods[d][j] = count_item(bag[d], j) + Offered(sells, d, j)
           /\ Goods'[d][j] = count_item(bag'[d], j) + Offered(sells, d, j)
           /\ count_item(bag[d], j) \in Nat /\ count_item(bag'[d], j) \in Nat
           /\ Offered(sells, d, j) \in Nat
    <2>1. Goods = Stock(bag, sells) /\ Goods' = Stock(bag', sells)
      BY <1>2, FortunesAre
    <2> QED
      BY <1>4, <1>7, <2>1, StockIs
  <1>9. Goods'[c][i] > Goods[c][i]
    BY <1>6, <1>8
  <1>10. \A d \in Characters, j \in Items : ~ (d = c /\ j = i) => Goods'[d][j] = Goods[d][j]
    BY <1>5, <1>6, <1>8
  <1>11. Goods' = [Goods EXCEPT ![c][i] = Goods'[c][i]]
    <2> DEFINE a == [Goods[c] EXCEPT ![i] = Goods'[c][i]]
    <2>1. /\ Goods \in [Characters -> [Items -> Nat]] /\ Goods' \in [Characters -> [Items -> Nat]]
          /\ Goods[c] \in [Items -> Nat] /\ Goods'[c] \in [Items -> Nat]
      BY <1>1 DEF Fortunes
    <2>2. [Goods EXCEPT ![c][i] = Goods'[c][i]] = [Goods EXCEPT ![c] = a]
      BY <2>1
    <2>3. a = Goods'[c]
      <3>1. \A j \in Items : a[j] = Goods'[c][j]
        BY <1>10, <2>1
      <3>2. DOMAIN a = Items /\ a = [j \in Items |-> a[j]]
        BY <2>1
      <3> HIDE DEF a
      <3> QED
        BY <2>1, <3>1, <3>2
    <2>4. \A d \in Characters \ {c} : Goods'[d] = Goods[d]
      <3>1. TAKE d \in Characters \ {c}
      <3>2. Goods[d] \in [Items -> Nat] /\ Goods'[d] \in [Items -> Nat]
        BY <2>1
      <3>3. \A j \in Items : Goods'[d][j] = Goods[d][j]
        BY <1>10
      <3> QED
        BY <3>2, <3>3
    <2> HIDE DEF a
    <2>5. Goods' = [Goods EXCEPT ![c] = a]
      BY <2>1, <2>3, <2>4
    <2> QED
      BY <2>2, <2>5
  <1>12. Gold' = Gold
    BY <1>2, FortunesAre
  <1>13. B!Find(c, i)
    BY <1>2, <1>9, <1>11, <1>12 DEF B!Find
  <1> QED
    BY <1>13 DEF B!Next

LEMMA PlaceSellIsBarter ==
    ASSUME IInv, [Next]_vars, NEW c \in Characters, NEW m \in Markets, NEW s \in Slots,
           NEW price \in 1..MaxGold, NEW n \in 1..MAX_STACK, place_sell_order(c, m, s, price, n)
    PROVE  [B!Next]_B!vars
  <1> DEFINE pile == TakenPile(bag[c], s, n, next_instance_id)
             o == [id |-> nextOrder, market |-> m, seller |-> c, pile |-> pile,
                   price |-> listing_total(price, n)]
  <1>1. /\ CanTake(bag[c], s, n)
        /\ bag' = [bag EXCEPT ![c] = BagAfterTake(bag[c], s, n)]
        /\ sells' = sells \cup {o}
        /\ UNCHANGED <<alive, wallet, buys, grants>>
    BY DEF place_sell_order
  <1>2. bag \in [Characters -> Bag] /\ bag[c] \in Bag /\ Filled(sells)
    BY Holds, BooksCount
  <1>3. o.id = nextOrder /\ o.seller = c /\ o.pile = pile
    OBVIOUS
  <1>4. /\ pile.item = bag[c][s].item /\ pile.quantity = n /\ n \in Nat
        /\ \A j : count_item(BagAfterTake(bag[c], s, n), j)
                    = count_item(bag[c], j) - (IF j = bag[c][s].item THEN n ELSE 0)
    BY <1>1, <1>2, Holds, TakeIs
  <1> HIDE DEF o, pile
  <1>5. o \notin sells
    <2>1. \A p \in sells : p.id \in Nat /\ p.id < nextOrder
      BY Holds
    <2>2. nextOrder \in Nat
      BY Holds
    <2> QED
      BY <1>3, <2>1, <2>2
  <1>6. /\ Filled(sells')
        /\ \A d, j : Offered(sells', d, j) = Offered(sells, d, j)
                       + (IF c = d /\ bag[c][s].item = j THEN n ELSE 0)
    <2>1. o.pile.quantity \in Nat
      BY <1>3, <1>4
    <2>2. Filled(sells \cup {o})
      BY <1>2, <1>5, <2>1, OfferedAdd
    <2>3. \A d, j : Offered(sells \cup {o}, d, j) = Offered(sells, d, j)
                         + (IF o.seller = d /\ o.pile.item = j THEN o.pile.quantity ELSE 0)
      BY <1>2, <1>5, <2>1, OfferedAdd
    <2> QED
      BY <1>1, <1>3, <1>4, <2>2, <2>3
  <1>7. /\ \A j : count_item(bag'[c], j)
                    = count_item(bag[c], j) - (IF j = bag[c][s].item THEN n ELSE 0)
        /\ \A d \in Characters \ {c} : bag'[d] = bag[d]
    BY <1>1, <1>2, <1>4
  <1>8. bag' \in [Characters -> Bag]
    <2>1. IInv'
      BY StepKeeps
    <2> QED
      BY <2>1 DEF IInv, TypeOK
  <1>9. \A d \in Characters, j \in Items :
           /\ Goods[d][j] = count_item(bag[d], j) + Offered(sells, d, j)
           /\ Goods'[d][j] = count_item(bag'[d], j) + Offered(sells', d, j)
           /\ count_item(bag[d], j) \in Nat /\ Offered(sells, d, j) \in Nat
    BY <1>2, <1>6, <1>8, FortunesAre, StockIs
  <1>10. ASSUME NEW d \in Characters, NEW j \in Items PROVE Goods'[d][j] = Goods[d][j]
    <2>1. CASE d = c /\ j = bag[c][s].item
      <3>1. /\ Offered(sells', d, j) = Offered(sells, d, j) + n
            /\ count_item(bag'[d], j) = count_item(bag[d], j) - n
        BY <1>6, <1>7, <2>1
      <3> QED
        BY <1>4, <1>9, <3>1
    <2>2. CASE d = c /\ j # bag[c][s].item
      <3>1. /\ Offered(sells', d, j) = Offered(sells, d, j) + 0
            /\ count_item(bag'[d], j) = count_item(bag[d], j) - 0
        BY <1>6, <1>7, <2>2
      <3> QED
        BY <1>9, <3>1
    <2>3. CASE d # c
      <3>1. /\ Offered(sells', d, j) = Offered(sells, d, j) + 0
            /\ bag'[d] = bag[d]
        BY <1>6, <1>7, <2>3
      <3> QED
        BY <1>9, <3>1
    <2> QED
      BY <2>1, <2>2, <2>3
  <1>11. \A d \in Characters : Gold'[d] = Gold[d]
    BY <1>1, FortunesAre
  <1>12. Fortunes /\ Fortunes' /\ alive' = alive
    BY <1>1, FortunesTypedNext
  <1> QED
    BY <1>10, <1>11, <1>12, Idle

LEMMA CancelSellIsBarter ==
    ASSUME IInv, [Next]_vars, NEW c \in Characters, NEW o \in sells, cancel_sell_order(c, o)
    PROVE  [B!Next]_B!vars
  <1>1. /\ o.seller = c /\ Free(bag[c]) # {}
        /\ bag' = [bag EXCEPT ![c] = PutInFirstFree(bag[c], o.pile)]
        /\ sells' = sells \ {o} /\ UNCHANGED <<alive, wallet, buys, nextOrder, grants>>
    BY DEF cancel_sell_order
  <1>2. bag \in [Characters -> Bag] /\ bag[c] \in Bag /\ Filled(sells) /\ o.pile \in Pile
    BY Holds, BooksCount
  <1> DEFINE n == o.pile.quantity
             i == o.pile.item
  <1>3. n \in Nat
    BY <1>2, PileParts
  <1>4. \A j : count_item(PutInFirstFree(bag[c], o.pile), j)
                 = count_item(bag[c], j) + (IF j = i THEN n ELSE 0)
    BY <1>1, <1>2, PutIs
  <1>5. /\ Filled(sells')
        /\ \A d, j : Offered(sells', d, j) = Offered(sells, d, j)
                       - (IF c = d /\ i = j THEN n ELSE 0)
    <2>1. /\ Filled(sells \ {o})
          /\ \A d, j : Offered(sells \ {o}, d, j) = Offered(sells, d, j)
                         - (IF o.seller = d /\ o.pile.item = j THEN o.pile.quantity ELSE 0)
      BY <1>2, OfferedRemove
    <2> QED
      BY <1>1, <2>1
  <1> HIDE DEF n, i
  <1>6. /\ \A j : count_item(bag'[c], j) = count_item(bag[c], j) + (IF j = i THEN n ELSE 0)
        /\ \A d \in Characters \ {c} : bag'[d] = bag[d]
    BY <1>1, <1>2, <1>4
  <1>7. bag' \in [Characters -> Bag]
    <2>1. IInv'
      BY StepKeeps
    <2> QED
      BY <2>1 DEF IInv, TypeOK
  <1>8. \A d \in Characters, j \in Items :
           /\ Goods[d][j] = count_item(bag[d], j) + Offered(sells, d, j)
           /\ Goods'[d][j] = count_item(bag'[d], j) + Offered(sells', d, j)
           /\ count_item(bag[d], j) \in Nat /\ Offered(sells, d, j) \in Nat
    BY <1>2, <1>5, <1>7, FortunesAre, StockIs
  <1>9. ASSUME NEW d \in Characters, NEW j \in Items PROVE Goods'[d][j] = Goods[d][j]
    <2>1. CASE d = c /\ j = i
      <3>1. /\ Offered(sells', d, j) = Offered(sells, d, j) - n
            /\ count_item(bag'[d], j) = count_item(bag[d], j) + n
        BY <1>5, <1>6, <2>1
      <3> QED
        BY <1>3, <1>8, <3>1
    <2>2. CASE d = c /\ j # i
      <3>1. /\ Offered(sells', d, j) = Offered(sells, d, j) - 0
            /\ count_item(bag'[d], j) = count_item(bag[d], j) + 0
        BY <1>5, <1>6, <2>2
      <3> QED
        BY <1>8, <3>1
    <2>3. CASE d # c
      <3>1. /\ Offered(sells', d, j) = Offered(sells, d, j) - 0
            /\ bag'[d] = bag[d]
        BY <1>5, <1>6, <2>3
      <3> QED
        BY <1>8, <3>1
    <2> QED
      BY <2>1, <2>2, <2>3
  <1>10. \A d \in Characters : Gold'[d] = Gold[d]
    BY <1>1, FortunesAre
  <1>11. Fortunes /\ Fortunes' /\ alive' = alive
    BY <1>1, FortunesTypedNext
  <1> QED
    BY <1>9, <1>10, <1>11, Idle

LEMMA PlaceBuyIsBarter ==
    ASSUME IInv, [Next]_vars, NEW c \in Characters, NEW m \in Markets, NEW i \in Items,
           NEW price \in 1..MaxGold, place_buy_order(c, m, i, price)
    PROVE  [B!Next]_B!vars
  <1> DEFINE o == [id |-> nextOrder, market |-> m, buyer |-> c, item |-> i, price |-> price]
  <1>1. /\ wallet[c] >= price /\ wallet' = debit_gold(wallet, c, price)
        /\ buys' = buys \cup {o} /\ UNCHANGED <<alive, bag, sells, grants>>
    BY DEF place_buy_order
  <1>2. o.id = nextOrder /\ o.buyer = c /\ o.price = price
    OBVIOUS
  <1> HIDE DEF o
  <1>3. wallet \in [Characters -> 0..MaxGold] /\ Priced(buys) /\ price \in Nat
    BY Holds, BooksCount, PricesAreNat
  <1>4. /\ wallet' \in [Characters -> 0..MaxGold] /\ wallet'[c] = wallet[c] - price
        /\ \A d \in Characters \ {c} : wallet'[d] = wallet[d]
    BY <1>1, <1>3, DebitIs
  <1>5. o \notin buys
    <2>1. \A p \in buys : p.id \in Nat /\ p.id < nextOrder
      BY Holds
    <2>2. nextOrder \in Nat
      BY Holds
    <2> QED
      BY <1>2, <2>1, <2>2
  <1>6. /\ Priced(buys')
        /\ \A d : Escrow(buys', d) = Escrow(buys, d) + (IF c = d THEN price ELSE 0)
    <2>1. o.price \in Nat
      BY <1>2, <1>3
    <2>2. /\ Priced(buys \cup {o})
          /\ \A d : Escrow(buys \cup {o}, d) = Escrow(buys, d) + (IF o.buyer = d THEN o.price ELSE 0)
      BY <1>3, <1>5, <2>1, EscrowAdd
    <2> QED
      BY <1>1, <1>2, <2>2
  <1>7. \A d \in Characters : /\ Gold[d] = wallet[d] + Escrow(buys, d)
                              /\ Gold'[d] = wallet'[d] + Escrow(buys', d)
                              /\ wallet[d] \in Nat /\ Escrow(buys, d) \in Nat
    BY <1>3, <1>4, <1>6, FortunesAre, PurseIs
  <1>8. ASSUME NEW d \in Characters PROVE Gold'[d] = Gold[d]
    <2>1. CASE d = c
      <3>1. Escrow(buys', d) = Escrow(buys, d) + price /\ wallet'[d] = wallet[d] - price
        BY <1>4, <1>6, <2>1
      <3> QED
        BY <1>3, <1>7, <3>1
    <2>2. CASE d # c
      <3>1. Escrow(buys', d) = Escrow(buys, d) + 0 /\ wallet'[d] = wallet[d]
        BY <1>4, <1>6, <2>2
      <3> QED
        BY <1>7, <3>1
    <2> QED
      BY <2>1, <2>2
  <1>9. \A d \in Characters, j \in Items : Goods'[d][j] = Goods[d][j]
    BY <1>1, FortunesAre
  <1>10. Fortunes /\ Fortunes' /\ alive' = alive
    BY <1>1, FortunesTypedNext
  <1> QED
    BY <1>8, <1>9, <1>10, Idle

LEMMA CancelBuyIsBarter ==
    ASSUME IInv, [Next]_vars, NEW c \in Characters, NEW o \in buys, cancel_buy_order(c, o)
    PROVE  [B!Next]_B!vars
  <1>1. buys' = buys \ {o} /\ UNCHANGED <<alive, bag, sells, nextOrder, grants>>
    BY DEF cancel_buy_order
  <1>2. /\ o.buyer = c /\ wallet'[c] = wallet[c] + o.price
        /\ wallet' \in [Characters -> 0..MaxGold]
        /\ \A d \in Characters \ {c} : wallet'[d] = wallet[d]
    BY RefundShows
  <1>3. wallet \in [Characters -> 0..MaxGold] /\ Priced(buys) /\ o.price \in Nat
    BY Holds, BooksCount
  <1>4. /\ Priced(buys')
        /\ \A d : Escrow(buys', d) = Escrow(buys, d) - (IF c = d THEN o.price ELSE 0)
    <2>1. /\ Priced(buys \ {o})
          /\ \A d : Escrow(buys \ {o}, d) = Escrow(buys, d) - (IF o.buyer = d THEN o.price ELSE 0)
      BY <1>3, EscrowRemove
    <2> QED
      BY <1>1, <1>2, <2>1
  <1>5. \A d \in Characters : /\ Gold[d] = wallet[d] + Escrow(buys, d)
                              /\ Gold'[d] = wallet'[d] + Escrow(buys', d)
                              /\ wallet[d] \in Nat /\ Escrow(buys, d) \in Nat
    BY <1>2, <1>3, <1>4, FortunesAre, PurseIs
  <1>6. ASSUME NEW d \in Characters PROVE Gold'[d] = Gold[d]
    <2>1. CASE d = c
      <3>1. Escrow(buys', d) = Escrow(buys, d) - o.price /\ wallet'[d] = wallet[d] + o.price
        BY <1>2, <1>4, <2>1
      <3> QED
        BY <1>3, <1>5, <3>1
    <2>2. CASE d # c
      <3>1. Escrow(buys', d) = Escrow(buys, d) - 0 /\ wallet'[d] = wallet[d]
        BY <1>2, <1>4, <2>2
      <3> QED
        BY <1>5, <3>1
    <2> QED
      BY <2>1, <2>2
  <1>7. \A d \in Characters, j \in Items : Goods'[d][j] = Goods[d][j]
    BY <1>1, FortunesAre
  <1>8. Fortunes /\ Fortunes' /\ alive' = alive
    BY <1>1, FortunesTypedNext
  <1> QED
    BY <1>6, <1>7, <1>8, Idle

LEMMA DeleteIsBarter ==
    ASSUME IInv, [Next]_vars, NEW c \in Characters, delete_character(c)
    PROVE  [B!Next]_B!vars
  <1>1. /\ c \in alive /\ alive' = alive \ {c} /\ wallet' = [wallet EXCEPT ![c] = 0]
        /\ bag' = [bag EXCEPT ![c] = EmptyInventory]
        /\ UNCHANGED <<sells, buys, nextOrder, grants>>
    BY DEF delete_character
  <1>2. /\ wallet \in [Characters -> 0..MaxGold] /\ bag \in [Characters -> Bag]
        /\ Priced(buys) /\ Filled(sells)
    BY Holds, BooksCount
  <1>3. wallet' \in [Characters -> 0..MaxGold] /\ bag' \in [Characters -> Bag]
    <2>1. IInv'
      BY StepKeeps
    <2> QED
      BY <2>1 DEF IInv, TypeOK
  <1>4. /\ wallet'[c] = 0 /\ bag'[c] = EmptyInventory
        /\ \A d \in Characters \ {c} : wallet'[d] = wallet[d] /\ bag'[d] = bag[d]
    BY <1>1, <1>2
  <1>5. \A d \in Characters : /\ Gold[d] = wallet[d] + Escrow(buys, d)
                              /\ Gold'[d] = wallet'[d] + Escrow(buys, d)
                              /\ wallet[d] \in Nat /\ Escrow(buys, d) \in Nat
    <2>1. Gold = Purse(wallet, buys) /\ Gold' = Purse(wallet', buys)
      BY <1>1, FortunesAre
    <2> QED
      BY <1>2, <1>3, <2>1, PurseIs
  <1>6. \A d \in Characters, j \in Items :
           /\ Goods[d][j] = count_item(bag[d], j) + Offered(sells, d, j)
           /\ Goods'[d][j] = count_item(bag'[d], j) + Offered(sells, d, j)
           /\ count_item(bag[d], j) \in Nat /\ Offered(sells, d, j) \in Nat
    <2>1. Goods = Stock(bag, sells) /\ Goods' = Stock(bag', sells)
      BY <1>1, FortunesAre
    <2> QED
      BY <1>2, <1>3, <2>1, StockIs
  <1>7. Fortunes /\ Fortunes'
    BY FortunesTypedNext
  <1>8. Gold'[c] <= Gold[c] /\ \A d \in Characters \ {c} : Gold'[d] = Gold[d]
    BY <1>4, <1>5
  <1>9. Gold' = [Gold EXCEPT ![c] = Gold'[c]]
    BY <1>7, <1>8 DEF Fortunes
  <1>10. \A j \in Items : Goods'[c][j] <= Goods[c][j]
    <2>1. \A j : count_item(bag'[c], j) = 0
      BY <1>4, EmptyCounts
    <2> QED
      BY <1>6, <2>1
  <1>11. Goods' = [Goods EXCEPT ![c] = Goods'[c]]
    <2>1. ASSUME NEW d \in Characters \ {c} PROVE Goods'[d] = Goods[d]
      <3>1. Goods[d] \in [Items -> Nat] /\ Goods'[d] \in [Items -> Nat]
        BY <1>7 DEF Fortunes
      <3>2. \A j \in Items : Goods'[d][j] = Goods[d][j]
        BY <1>4, <1>6
      <3> QED
        BY <3>1, <3>2
    <2> QED
      BY <1>7, <2>1 DEF Fortunes
  <1>12. B!Vanish(c)
    BY <1>1, <1>8, <1>9, <1>10, <1>11 DEF B!Vanish
  <1> QED
    BY <1>12 DEF B!Next

(* Every step is.                                                          *)
LEMMA StepIsBarters ==
    ASSUME IInv, [Next]_vars
    PROVE  [B!Next]_B!vars
  <1>0. Fortunes /\ Fortunes'
    BY FortunesTypedNext
  <1>1. ASSUME NEW c \in Characters, NEW n \in 1..MaxGold, gm_grant_gold(c, n) PROVE [B!Next]_B!vars
    BY <1>1, GrantGoldIsBarter
  <1>2. ASSUME NEW c \in Characters, NEW i \in Items, NEW n \in 1..MAX_STACK, grant_items(c, i, n)
        PROVE  [B!Next]_B!vars
    BY <1>2, GrantItemsIsBarter
  <1>3. ASSUME NEW c \in Characters, NEW m \in Markets, NEW s \in Slots, NEW price \in 1..MaxGold,
               NEW n \in 1..MAX_STACK, place_sell_order(c, m, s, price, n)
        PROVE  [B!Next]_B!vars
    BY <1>3, PlaceSellIsBarter
  <1>4. ASSUME NEW c \in Characters, NEW m \in Markets, NEW s \in Slots, NEW price \in 1..MaxGold,
               NEW n \in 1..MAX_STACK, market_sell(c, m, s, price, n)
        PROVE  [B!Next]_B!vars
    <2> DEFINE pile == TakenPile(bag[c], s, n, next_instance_id)
               o == BestOf(Matching(c, m, pile.item, listing_total(price, n)))
    <2>1. Traded(c, o.buyer, pile.item, n, o.price, o.price - fee_gold(m, o.price))
      BY <1>4, SellTrades
    <2> HIDE DEF o, pile
    <2> QED
      BY <1>0, <2>1, TradedIsBarter
  <1>5. ASSUME NEW c \in Characters, NEW m \in Markets, NEW o \in sells, market_buy(c, m, o)
        PROVE  [B!Next]_B!vars
    <2>1. Traded(o.seller, c, o.pile.item, o.pile.quantity, o.price, o.price - fee_gold(m, o.price))
      BY <1>5, BuyTrades
    <2> QED
      BY <1>0, <2>1, TradedIsBarter
  <1>6. ASSUME NEW c \in Characters, NEW o \in sells, cancel_sell_order(c, o) PROVE [B!Next]_B!vars
    BY <1>6, CancelSellIsBarter
  <1>7. ASSUME NEW c \in Characters, NEW m \in Markets, NEW i \in Items, NEW price \in 1..MaxGold,
               place_buy_order(c, m, i, price)
        PROVE  [B!Next]_B!vars
    BY <1>7, PlaceBuyIsBarter
  <1>8. ASSUME NEW c \in Characters, NEW o \in buys, cancel_buy_order(c, o) PROVE [B!Next]_B!vars
    BY <1>8, CancelBuyIsBarter
  <1>9. ASSUME NEW c \in Characters, delete_character(c) PROVE [B!Next]_B!vars
    BY <1>9, DeleteIsBarter
  <1>10. CASE UNCHANGED vars
    <2>1. Gold' = Gold /\ Goods' = Goods /\ alive' = alive
      BY <1>10, FortunesAre DEF vars
    <2> QED
      BY <2>1 DEF B!vars
  <1> QED
    BY <1>1, <1>2, <1>3, <1>4, <1>5, <1>6, <1>7, <1>8, <1>9, <1>10 DEF Next

(* The market implements Barter: every step is a trade, a find, a gift, a  *)
(* deletion or changes nobody's fortune, so escrow neither makes nor       *)
(* loses gold or goods.                                                    *)
THEOREM TheMarketIsABarter == Spec => ImplementsBarter
  <1>1. IInv /\ [Next]_vars => [B!Next]_B!vars
    BY StepIsBarters
  <1> QED
    BY <1>1, StartIsBarters, Invariance, PTL DEF Spec, ImplementsBarter, B!Spec

=============================================================================
