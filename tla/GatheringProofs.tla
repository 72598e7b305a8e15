--------------------------- MODULE GatheringProofs ---------------------------
(***************************************************************************)
(* Proofs about Gathering and about Items.                                 *)
(*                                                                         *)
(* Gathering: the types, that nobody has two occupations, that every node  *)
(* is scheduled to regrow, and that the channels make and lose no piece.   *)
(* The invariant, Sound, is the types with the schedule of every row       *)
(* (GoodRow) and the separation of gather, craft and cast (Apart).  It is  *)
(* stated of tables, not of the variables, because a tick passes through   *)
(* tables no state has: World is what holds of all of them.                *)
(*                                                                         *)
(* A tick is two folds, over a list and over a set.  Each is a function    *)
(* that is chosen to satisfy an equation: FoldExists shows that there is   *)
(* one, FoldInduction carries a claim from the channels that are done to   *)
(* one more.  The claim is that Total, the wealth of the tables, has not   *)
(* changed.  Sections 1 and 2 are what that takes: sums over finite sets,  *)
(* and what add_stackable and remove_item do to what a bag counts, exactly.*)
(*                                                                         *)
(* Items, from section 14 on, rests on the same accounts of a bag.  Its    *)
(* invariant, LedgerInv, is the types, the distinct ids and the ledger of  *)
(* the pieces: a step needs all three to show any of them of the next      *)
(* state.  The ids are followed over the places a pile can be in, in a bag *)
(* or on a body: a gesture exchanges two places, empties some, or opens    *)
(* some under numbers above all that are in use.                           *)
(***************************************************************************)
EXTENDS Gathering, Items, FiniteSetTheorems, WellFoundedInduction, TLAPS

-----------------------------------------------------------------------------
(* 1. Sums.                                                                *)

(* A set of subsets of S that holds {} and grows by any element holds S.   *)
LEMMA SetInduction ==
    ASSUME NEW S, IsFiniteSet(S), NEW P, {} \in P,
           \A T \in SUBSET S, x \in S : T \in P => T \cup {x} \in P
    PROVE  S \in P
  <1> DEFINE bad == (SUBSET S) \ P
  <1>1. SUFFICES ASSUME S \notin P PROVE FALSE
    OBVIOUS
  <1>2. bad \subseteq FiniteSubsetsOf(S) /\ bad # {}
    BY <1>1, FS_FiniteSubsetsOfFinite
  <1>3. PICK T \in bad : \A U \in bad : ~ (<<U, T>> \in StrictSubsetOrdering(S))
    BY <1>2, FS_StrictSubsetOrderingWellFounded, WFMin
  <1>4. PICK x \in T : TRUE
    OBVIOUS
  <1>5. T \ {x} \in P
    <2>1. <<T \ {x}, T>> \in StrictSubsetOrdering(S)
      BY DEF StrictSubsetOrdering
    <2> QED
      BY <1>3, <2>1
  <1>6. (T \ {x}) \cup {x} = T
    OBVIOUS
  <1> QED
    BY <1>5, <1>6

Pick(T) == CHOOSE x \in T : TRUE

(* g sums f over the members of D, one pick after the other.               *)
Sums(f, D, g) ==
    g = [T \in D |-> IF T = {} THEN 0 ELSE f[Pick(T)] + g[T \ {Pick(T)}]]

(* The library's fold is the sum of this shape.                            *)
LEMMA SumIsChosen ==
    ASSUME NEW f, NEW S
    PROVE  SumFunctionOnSet(f, S) = (CHOOSE g : Sums(f, SUBSET S, g))[S]
  BY DEF SumFunctionOnSet, FoldFunctionOnSet, MapThenFoldSet, Sums, Pick

(* A pick is a member.                                                     *)
LEMMA PickIsIn ==
    ASSUME NEW T, T # {}
    PROVE  Pick(T) \in T
  BY DEF Pick

(* There is such a sum.                                                    *)
LEMMA SumExists ==
    ASSUME NEW f, NEW S, IsFiniteSet(S)
    PROVE  \E g : Sums(f, SUBSET S, g)
  <1> DEFINE Up(n) == {T \in SUBSET S : Cardinality(T) <= n}
             N == Cardinality(S)
             P == {T \in SUBSET S : \E g : Sums(f, Up(Cardinality(T)), g)}
  <1>1. \A T \in SUBSET S : IsFiniteSet(T) /\ Cardinality(T) \in Nat /\ Cardinality(T) <= N
    BY FS_Subset, FS_CardinalityType
  <1>2. {} \in P
    <2> DEFINE g == [T \in Up(0) |-> 0]
    <2>1. Up(0) = {{}}
      BY <1>1, FS_EmptySet
    <2>2. Sums(f, Up(0), g)
      BY <2>1 DEF Sums
    <2>3. \E h : Sums(f, Up(0), h)
      <3> HIDE DEF g, Up
      <3> QED
        BY <2>2
    <2> QED
      BY <2>3, FS_EmptySet
  <1>3. ASSUME NEW T \in P, NEW x \in S PROVE T \cup {x} \in P
    <2> DEFINE n == Cardinality(T)
    <2>1. CASE x \in T
      <3>1. T \cup {x} = T
        BY <2>1
      <3> QED
        BY <1>3, <3>1
    <2>2. CASE x \notin T
      <3>1. Cardinality(T \cup {x}) = n + 1 /\ n \in Nat
        BY <1>1, <1>3, <2>2, FS_AddElement
      <3>2. PICK g : Sums(f, Up(n), g)
        BY <1>3
      <3> DEFINE h == [U \in Up(n + 1) |->
                         IF Cardinality(U) = n + 1 THEN f[Pick(U)] + g[U \ {Pick(U)}] ELSE g[U]]
      <3>3. \A U \in Up(n) : U \in Up(n + 1) /\ h[U] = g[U]
        <4>1. TAKE U \in Up(n)
        <4>2. Cardinality(U) \in Nat /\ Cardinality(U) <= n /\ U \in SUBSET S
          BY <1>1
        <4>3. U \in Up(n + 1) /\ Cardinality(U) # n + 1
          BY <3>1, <4>2
        <4> QED
          BY <4>3
      <3>4. \A U \in Up(n) : g[U] = IF U = {} THEN 0 ELSE f[Pick(U)] + g[U \ {Pick(U)}]
        BY <3>2 DEF Sums
      <3>5. \A U \in Up(n + 1) : U # {} => U \ {Pick(U)} \in Up(n)
        <4>1. TAKE U \in Up(n + 1)
        <4>2. SUFFICES ASSUME U # {} PROVE U \ {Pick(U)} \in Up(n)
          OBVIOUS
        <4>3. Pick(U) \in U /\ IsFiniteSet(U) /\ Cardinality(U) \in Nat /\ Cardinality(U) <= n + 1
          BY <1>1, <4>2, PickIsIn
        <4>4. Cardinality(U \ {Pick(U)}) = Cardinality(U) - 1
          BY <4>3, FS_RemoveElement
        <4> QED
          BY <3>1, <4>3, <4>4
      <3>6. \A U \in Up(n + 1) : h[U] = IF U = {} THEN 0 ELSE f[Pick(U)] + h[U \ {Pick(U)}]
        <4>1. TAKE U \in Up(n + 1)
        <4>2. CASE Cardinality(U) = n + 1
          <5>1. U # {}
            BY <3>1, <4>2, FS_EmptySet
          <5>2. h[U] = f[Pick(U)] + g[U \ {Pick(U)}]
            BY <4>2
          <5> HIDE DEF h
          <5> QED
            BY <3>3, <3>5, <5>1, <5>2
        <4>3. CASE Cardinality(U) # n + 1
          <5>1. U \in Up(n)
            BY <1>1, <3>1, <4>3
          <5> HIDE DEF h, Up
          <5> QED
            BY <3>3, <3>4, <3>5, <4>1, <5>1
        <4> QED
          BY <4>2, <4>3
      <3>7. Sums(f, Up(n + 1), h)
        <4>1. h = [U \in Up(n + 1) |-> h[U]]
          OBVIOUS
        <4> HIDE DEF h, Up
        <4> QED
          BY <3>6, <4>1 DEF Sums
      <3>8. \E k : Sums(f, Up(n + 1), k)
        <4> HIDE DEF h, Up
        <4> QED
          BY <3>7
      <3> HIDE DEF h, Up, n
      <3> QED
        BY <1>3, <3>1, <3>8
    <2> QED
      BY <2>1, <2>2
  <1>4. S \in P
    <2> HIDE DEF P
    <2> QED
      BY <1>2, <1>3, SetInduction
  <1>5. Up(N) = SUBSET S
    BY <1>1
  <1> QED
    BY <1>4, <1>5

(* Two sums agree where both are defined.                                  *)
Agree(g, h, T) == g[T] = h[T]

(* A sum over a set and one over a part of it agree on the part.           *)
LEMMA SumsAgree ==
    ASSUME NEW f, NEW S, IsFiniteSet(S), NEW T \in SUBSET S,
           NEW g, Sums(f, SUBSET S, g), NEW h, Sums(f, SUBSET T, h)
    PROVE  Agree(g, h, T)
  <1> DEFINE bad == {U \in SUBSET T : g[U] # h[U]}
  <1>1. SUFFICES ASSUME g[T] # h[T] PROVE FALSE
    BY DEF Agree
  <1>2. IsFiniteSet(T)
    BY FS_Subset
  <1>3. bad \subseteq FiniteSubsetsOf(T) /\ bad # {}
    BY <1>1, <1>2, FS_FiniteSubsetsOfFinite
  <1>4. PICK U \in bad : \A V \in bad : ~ (<<V, U>> \in StrictSubsetOrdering(T))
    BY <1>3, FS_StrictSubsetOrderingWellFounded, WFMin
  <1>5. \A V \in SUBSET S : g[V] = IF V = {} THEN 0 ELSE f[Pick(V)] + g[V \ {Pick(V)}]
    BY DEF Sums
  <1>6. \A V \in SUBSET T : h[V] = IF V = {} THEN 0 ELSE f[Pick(V)] + h[V \ {Pick(V)}]
    BY DEF Sums
  <1>7. U \in SUBSET T /\ U \in SUBSET S /\ g[U] # h[U]
    OBVIOUS
  <1>8. U # {}
    BY <1>5, <1>6, <1>7
  <1>9. Pick(U) \in U
    BY <1>8, PickIsIn
  <1>10. <<U \ {Pick(U)}, U>> \in StrictSubsetOrdering(T)
    BY <1>7, <1>9 DEF StrictSubsetOrdering
  <1>11. g[U \ {Pick(U)}] = h[U \ {Pick(U)}]
    BY <1>4, <1>7, <1>10
  <1> QED
    BY <1>5, <1>6, <1>7, <1>8, <1>11

(* Nothing sums to 0.                                                      *)
LEMMA SumOfNone ==
    ASSUME NEW f
    PROVE  SumFunctionOnSet(f, {}) = 0
  <1> DEFINE g == CHOOSE k : Sums(f, SUBSET {}, k)
  <1>1. \E k : Sums(f, SUBSET {}, k)
    BY SumExists, FS_EmptySet
  <1>2. Sums(f, SUBSET {}, g)
    BY <1>1
  <1>3. SumFunctionOnSet(f, {}) = g[{}]
    BY SumIsChosen
  <1> HIDE DEF g
  <1> QED
    BY <1>2, <1>3 DEF Sums

(* The pick can be taken out first.                                        *)
LEMMA SumOfPick ==
    ASSUME NEW f, NEW S, IsFiniteSet(S), S # {}
    PROVE  SumFunctionOnSet(f, S) = f[Pick(S)] + SumFunctionOnSet(f, S \ {Pick(S)})
  <1> DEFINE T == S \ {Pick(S)}
             g == CHOOSE k : Sums(f, SUBSET S, k)
             h == CHOOSE k : Sums(f, SUBSET T, k)
  <1>1. IsFiniteSet(T) /\ T \in SUBSET S
    BY FS_Subset
  <1>2. Sums(f, SUBSET S, g)
    <2>1. \E k : Sums(f, SUBSET S, k)
      BY SumExists
    <2> QED
      BY <2>1
  <1>3. Sums(f, SUBSET T, h)
    <2>1. \E k : Sums(f, SUBSET T, k)
      BY <1>1, SumExists
    <2> QED
      BY <2>1
  <1>4. SumFunctionOnSet(f, S) = g[S] /\ SumFunctionOnSet(f, T) = h[T]
    BY SumIsChosen
  <1> HIDE DEF g, h
  <1>5. g[S] = f[Pick(S)] + g[T]
    BY <1>2 DEF Sums
  <1>6. g[T] = h[T]
    <2> HIDE DEF T
    <2>1. Agree(g, h, T)
      BY <1>1, <1>2, <1>3, SumsAgree
    <2> QED
      BY <2>1 DEF Agree
  <1> QED
    BY <1>4, <1>5, <1>6

(* Any member can be taken out first.                                      *)
LEMMA SumWithout ==
    ASSUME NEW f, NEW S, IsFiniteSet(S), \A x \in S : f[x] \in Int
    PROVE  /\ SumFunctionOnSet(f, S) \in Int
           /\ \A x \in S : SumFunctionOnSet(f, S) = f[x] + SumFunctionOnSet(f, S \ {x})
  <1> DEFINE Good(T) == /\ SumFunctionOnSet(f, T) \in Int
                        /\ \A x \in T : SumFunctionOnSet(f, T) = f[x] + SumFunctionOnSet(f, T \ {x})
             bad == {T \in SUBSET S : ~ Good(T)}
  <1>1. SUFFICES ASSUME bad # {} PROVE FALSE
    BY DEF bad
  <1>2. bad \subseteq FiniteSubsetsOf(S)
    BY FS_FiniteSubsetsOfFinite
  <1>3. PICK T \in bad : \A U \in bad : ~ (<<U, T>> \in StrictSubsetOrdering(S))
    BY <1>1, <1>2, FS_StrictSubsetOrderingWellFounded, WFMin
  <1>4. \A x \in T : Good(T \ {x})
    <2>1. TAKE x \in T
    <2>2. <<T \ {x}, T>> \in StrictSubsetOrdering(S)
      BY <1>3 DEF StrictSubsetOrdering
    <2>3. T \ {x} \notin bad
      BY <1>3, <2>2
    <2> QED
      BY <1>3, <2>3
  <1>5. IsFiniteSet(T) /\ T \in SUBSET S /\ ~ Good(T)
    BY <1>3, FS_Subset
  <1>6. T # {}
    <2>1. Good({})
      BY SumOfNone
    <2> QED
      BY <1>5, <2>1
  <1> DEFINE c == Pick(T)
             sum(U) == SumFunctionOnSet(f, U)
  <1>7. c \in T /\ f[c] \in Int /\ sum(T) = f[c] + sum(T \ {c})
    BY <1>5, <1>6, PickIsIn, SumOfPick
  <1>8. sum(T \ {c}) \in Int
    BY <1>4, <1>7
  <1> HIDE DEF c
  <1>9. ASSUME NEW x \in T PROVE sum(T) = f[x] + sum(T \ {x})
    <2>1. CASE x = c
      BY <1>7, <2>1
    <2>2. CASE x # c
      <3>1. x \in T \ {c} /\ c \in T \ {x} /\ f[x] \in Int
        BY <1>5, <1>7, <2>2
      <3>2. sum(T \ {c}) = f[x] + sum((T \ {c}) \ {x})
        BY <1>4, <1>7, <3>1
      <3>3. sum(T \ {x}) = f[c] + sum((T \ {x}) \ {c}) /\ sum(T \ {x}) \in Int
        BY <1>4, <3>1
      <3>4. (T \ {c}) \ {x} = (T \ {x}) \ {c}
        OBVIOUS
      <3>5. sum((T \ {x}) \ {c}) \in Int
        <4>1. Good(T \ {x}) /\ T \ {x} \in SUBSET S
          BY <1>4, <1>5
        <4>2. <<(T \ {x}) \ {c}, T>> \in StrictSubsetOrdering(S)
          BY <1>5, <1>7 DEF StrictSubsetOrdering
        <4>3. (T \ {x}) \ {c} \notin bad
          BY <1>3, <4>2
        <4> QED
          BY <1>5, <4>3
      <3> HIDE DEF sum
      <3>6. (T \ {c}) \ {x} = (T \ {x}) \ {c} /\ sum((T \ {c}) \ {x}) = sum((T \ {x}) \ {c})
        BY <3>4
      <3> QED
        BY <1>7, <3>1, <3>2, <3>3, <3>5, <3>6
    <2> QED
      BY <2>1, <2>2
  <1>10. sum(T) \in Int
    BY <1>7, <1>8
  <1> QED
    BY <1>5, <1>9, <1>10

(* A new member adds what it counts.                                       *)
LEMMA SumWith ==
    ASSUME NEW f, NEW S, IsFiniteSet(S), NEW x, x \notin S, \A y \in S \cup {x} : f[y] \in Int
    PROVE  SumFunctionOnSet(f, S \cup {x}) = SumFunctionOnSet(f, S) + f[x]
  <1> DEFINE T == S \cup {x}
  <1>1. IsFiniteSet(T) /\ T \ {x} = S /\ x \in T
    BY FS_AddElement
  <1>2. \A y \in T : f[y] \in Int
    OBVIOUS
  <1> HIDE DEF T
  <1>3. SumFunctionOnSet(f, T) = f[x] + SumFunctionOnSet(f, S)
    BY <1>1, <1>2, SumWithout
  <1>4. SumFunctionOnSet(f, S) \in Int /\ f[x] \in Int
    BY <1>1, <1>2, SumWithout
  <1>5. SumFunctionOnSet(f, T) = SumFunctionOnSet(f, S) + f[x]
    BY <1>3, <1>4
  <1> QED
    BY <1>5 DEF T

(* Larger members, larger sum.                                             *)
LEMMA SumMonotone ==
    ASSUME NEW S, IsFiniteSet(S), NEW f, NEW g,
           \A x \in S : f[x] \in Int /\ g[x] \in Int /\ f[x] <= g[x]
    PROVE  SumFunctionOnSet(f, S) <= SumFunctionOnSet(g, S)
  <1> DEFINE P == {T \in SUBSET S : SumFunctionOnSet(f, T) <= SumFunctionOnSet(g, T)}
  <1>1. {} \in P
    BY SumOfNone
  <1>2. ASSUME NEW T \in SUBSET S, NEW x \in S, T \in P PROVE T \cup {x} \in P
    <2>1. CASE x \in T
      <3>1. T \cup {x} = T
        BY <2>1
      <3> QED
        BY <1>2, <3>1
    <2>2. CASE x \notin T
      <3>1. IsFiniteSet(T) /\ \A y \in T \cup {x} : f[y] \in Int /\ g[y] \in Int
        BY <1>2, FS_Subset
      <3>2. /\ SumFunctionOnSet(f, T \cup {x}) = SumFunctionOnSet(f, T) + f[x]
            /\ SumFunctionOnSet(g, T \cup {x}) = SumFunctionOnSet(g, T) + g[x]
        BY <2>2, <3>1, SumWith
      <3>3. SumFunctionOnSet(f, T) \in Int /\ SumFunctionOnSet(g, T) \in Int
        BY <3>1, SumWithout
      <3>4. SumFunctionOnSet(f, T) <= SumFunctionOnSet(g, T)
        BY <1>2
      <3> DEFINE a == SumFunctionOnSet(f, T)
                 b == SumFunctionOnSet(g, T)
                 c == SumFunctionOnSet(f, T \cup {x})
                 d == SumFunctionOnSet(g, T \cup {x})
      <3>5. /\ a \in Int /\ b \in Int /\ a <= b /\ c = a + f[x] /\ d = b + g[x]
            /\ f[x] \in Int /\ g[x] \in Int /\ f[x] <= g[x]
        BY <3>2, <3>3, <3>4
      <3> HIDE DEF a, b, c, d
      <3>6. c <= d
        BY <3>5
      <3> QED
        BY <3>6 DEF c, d
    <2> QED
      BY <2>1, <2>2
  <1>3. S \in P
    <2> HIDE DEF P
    <2> QED
      BY <1>1, <1>2, SetInduction
  <1> QED
    BY <1>3

(* Equal members, equal sum.                                               *)
LEMMA SumSame ==
    ASSUME NEW S, IsFiniteSet(S), NEW f, NEW g,
           \A x \in S : f[x] \in Int /\ f[x] = g[x]
    PROVE  SumFunctionOnSet(f, S) = SumFunctionOnSet(g, S)
  <1>1. \A x \in S : f[x] \in Int /\ g[x] \in Int /\ f[x] <= g[x] /\ g[x] <= f[x]
    OBVIOUS
  <1>2. SumFunctionOnSet(f, S) <= SumFunctionOnSet(g, S)
    BY <1>1, SumMonotone
  <1>3. SumFunctionOnSet(g, S) <= SumFunctionOnSet(f, S)
    BY <1>1, SumMonotone
  <1>4. SumFunctionOnSet(f, S) \in Int /\ SumFunctionOnSet(g, S) \in Int
    BY <1>1, SumWithout
  <1> DEFINE a == SumFunctionOnSet(f, S)
             b == SumFunctionOnSet(g, S)
  <1>5. a \in Int /\ b \in Int /\ a <= b /\ b <= a
    BY <1>2, <1>3, <1>4
  <1> HIDE DEF a, b
  <1>6. a = b
    BY <1>5
  <1> QED
    BY <1>6 DEF a, b

(* Naturals sum to a natural.                                              *)
LEMMA SumNat ==
    ASSUME NEW S, IsFiniteSet(S), NEW f, \A x \in S : f[x] \in Nat
    PROVE  SumFunctionOnSet(f, S) \in Nat
  <1> DEFINE P == {T \in SUBSET S : SumFunctionOnSet(f, T) \in Nat}
  <1>1. {} \in P
    BY SumOfNone
  <1>2. ASSUME NEW T \in SUBSET S, NEW x \in S, T \in P PROVE T \cup {x} \in P
    <2>1. CASE x \in T
      <3>1. T \cup {x} = T
        BY <2>1
      <3> QED
        BY <1>2, <3>1
    <2>2. CASE x \notin T
      <3>1. IsFiniteSet(T) /\ \A y \in T \cup {x} : f[y] \in Int
        BY <1>2, FS_Subset
      <3>2. SumFunctionOnSet(f, T \cup {x}) = SumFunctionOnSet(f, T) + f[x]
        BY <2>2, <3>1, SumWith
      <3> QED
        BY <1>2, <3>2
    <2> QED
      BY <2>1, <2>2
  <1>3. S \in P
    <2> HIDE DEF P
    <2> QED
      BY <1>1, <1>2, SetInduction
  <1> QED
    BY <1>3

(* Members that count nothing may be left out.                             *)
LEMMA SumOnSubset ==
    ASSUME NEW S, IsFiniteSet(S), NEW f, NEW T \in SUBSET S,
           \A x \in S : f[x] \in Int, \A x \in S \ T : f[x] = 0
    PROVE  SumFunctionOnSet(f, S) = SumFunctionOnSet(f, T)
  <1> DEFINE P == {U \in SUBSET S : SumFunctionOnSet(f, U) = SumFunctionOnSet(f, U \cap T)}
  <1>1. {} \in P
    <2>1. {} \cap T = {}
      OBVIOUS
    <2> QED
      BY <2>1
  <1>2. ASSUME NEW U \in SUBSET S, NEW x \in S, U \in P PROVE U \cup {x} \in P
    <2>1. CASE x \in U
      <3>1. U \cup {x} = U
        BY <2>1
      <3> QED
        BY <1>2, <3>1
    <2>2. CASE x \notin U
      <3>1. /\ IsFiniteSet(U) /\ \A y \in U \cup {x} : f[y] \in Int
            /\ IsFiniteSet(U \cap T) /\ \A y \in (U \cap T) \cup {x} : f[y] \in Int
        BY <1>2, FS_Subset
      <3>2. SumFunctionOnSet(f, U \cup {x}) = SumFunctionOnSet(f, U) + f[x]
        BY <2>2, <3>1, SumWith
      <3>3. SumFunctionOnSet(f, U) \in Int
        BY <3>1, SumWithout
      <3>4. SumFunctionOnSet(f, (U \cup {x}) \cap T) = SumFunctionOnSet(f, U \cap T) + f[x]
        <4>1. CASE x \in T
          <5>1. (U \cup {x}) \cap T = (U \cap T) \cup {x} /\ x \notin U \cap T
            BY <2>2, <4>1
          <5>2. SumFunctionOnSet(f, (U \cap T) \cup {x}) = SumFunctionOnSet(f, U \cap T) + f[x]
            BY <3>1, <5>1, SumWith
          <5> QED
            BY <5>1, <5>2
        <4>2. CASE x \notin T
          <5>1. (U \cup {x}) \cap T = U \cap T /\ f[x] = 0
            BY <4>2
          <5>2. SumFunctionOnSet(f, U \cap T) \in Int
            BY <1>2, <3>3
          <5>3. SumFunctionOnSet(f, U \cap T) = SumFunctionOnSet(f, U \cap T) + 0
            BY <5>2
          <5> QED
            BY <5>1, <5>3
        <4> QED
          BY <4>1, <4>2
      <3>5. SumFunctionOnSet(f, U) = SumFunctionOnSet(f, U \cap T)
        BY <1>2
      <3> QED
        BY <3>2, <3>4, <3>5
    <2> QED
      BY <2>1, <2>2
  <1>3. S \in P
    <2> HIDE DEF P
    <2> QED
      BY <1>1, <1>2, SetInduction
  <1>4. S \cap T = T
    OBVIOUS
  <1> QED
    BY <1>3, <1>4

(* Zeros sum to 0.                                                         *)
LEMMA SumZero ==
    ASSUME NEW S, IsFiniteSet(S), NEW f, \A x \in S : f[x] = 0
    PROVE  SumFunctionOnSet(f, S) = 0
  <1>1. SumFunctionOnSet(f, S) = SumFunctionOnSet(f, {})
    <2>1. {} \in SUBSET S /\ \A x \in S : f[x] \in Int
      OBVIOUS
    <2> QED
      BY <2>1, SumOnSubset
  <1> QED
    BY <1>1, SumOfNone

(* One member counts otherwise.                                            *)
DifferAt(x, f, g, S) ==
    (\A y \in S : f[y] \in Int /\ g[y] \in Int) /\ (\A y \in S \ {x} : f[y] = g[y])

SumsDifferAt(x, f, g, S) ==
    SumFunctionOnSet(g, S) = SumFunctionOnSet(f, S) - f[x] + g[x]

(* Where one member counts otherwise, the sum differs by that much.        *)
LEMMA SumOneChanged ==
    ASSUME NEW S, IsFiniteSet(S), NEW f, NEW g, NEW x \in S, DifferAt(x, f, g, S)
    PROVE  SumsDifferAt(x, f, g, S)
  <1> DEFINE T == S \ {x}
             a == SumFunctionOnSet(f, S)
             b == SumFunctionOnSet(g, S)
             c == SumFunctionOnSet(f, T)
             d == SumFunctionOnSet(g, T)
  <1>1. IsFiniteSet(T) /\ T \in SUBSET S
    BY FS_Subset
  <1>2. a = f[x] + c /\ b = g[x] + d /\ a \in Int
    BY SumWithout DEF DifferAt
  <1>3. c \in Int /\ c = d
    <2>1. \A y \in T : f[y] \in Int /\ f[y] = g[y]
      BY DEF DifferAt
    <2> HIDE DEF T
    <2> QED
      BY <1>1, <2>1, SumSame, SumWithout
  <1>4. f[x] \in Int /\ g[x] \in Int
    BY DEF DifferAt
  <1> HIDE DEF a, b, c, d
  <1>5. b = a - f[x] + g[x]
    BY <1>2, <1>3, <1>4
  <1> QED
    BY <1>5 DEF a, b, SumsDifferAt

(* The sum of a function is the sum on its domain.                         *)
LEMMA SumOfFunction ==
    ASSUME NEW f
    PROVE  SumFunction(f) = SumFunctionOnSet(f, DOMAIN f)
  BY DEF SumFunction

-----------------------------------------------------------------------------
(* 2. The bag.                                                             *)

(* The least and the greatest of a finite set of numbers.                  *)
LEMMA Extremes ==
    ASSUME NEW S \in SUBSET Int, IsFiniteSet(S), S # {}
    PROVE  /\ Min(S) \in S /\ \A x \in S : Min(S) <= x
           /\ Max(S) \in S /\ \A x \in S : x <= Max(S)
  <1> DEFINE Has(T) == /\ \E x \in T : \A y \in T : x <= y
                       /\ \E x \in T : \A y \in T : x >= y
             P == {T \in SUBSET S : T = {} \/ Has(T)}
  <1>1. {} \in P
    OBVIOUS
  <1>2. ASSUME NEW T \in SUBSET S, NEW x \in S, T \in P PROVE T \cup {x} \in P
    <2>1. CASE T = {}
      BY <2>1
    <2>2. CASE T # {}
      <3>1. PICK low \in T : \A y \in T : low <= y
        BY <1>2, <2>2
      <3>2. PICK high \in T : \A y \in T : high >= y
        BY <1>2, <2>2
      <3>3. low \in Int /\ high \in Int /\ x \in Int /\ T \subseteq Int
        OBVIOUS
      <3>4. \E z \in T \cup {x} : \A y \in T \cup {x} : z <= y
        <4>1. CASE low <= x
          BY <3>1, <4>1
        <4>2. CASE ~ (low <= x)
          <5>1. x <= x /\ \A y \in T : x <= y
            BY <3>1, <3>3, <4>2
          <5> QED
            BY <5>1
        <4> QED
          BY <4>1, <4>2
      <3>5. \E z \in T \cup {x} : \A y \in T \cup {x} : z >= y
        <4>1. CASE high >= x
          BY <3>2, <4>1
        <4>2. CASE ~ (high >= x)
          <5>1. x >= x /\ \A y \in T : x >= y
            BY <3>2, <3>3, <4>2
          <5> QED
            BY <5>1
        <4> QED
          BY <4>1, <4>2
      <3> QED
        BY <3>4, <3>5
    <2> QED
      BY <2>1, <2>2
  <1>3. S \in P
    <2> HIDE DEF P
    <2> QED
      BY <1>1, <1>2, SetInduction
  <1>4. Has(S)
    BY <1>3
  <1>5. Min(S) \in S /\ \A x \in S : Min(S) <= x
    BY <1>4 DEF Min
  <1>6. Max(S) \in S /\ \A x \in S : Max(S) >= x
    BY <1>4 DEF Max
  <1>7. \A x \in S : x <= Max(S)
    BY <1>6
  <1> QED
    BY <1>5, <1>6, <1>7

(* The lesser of two.                                                      *)
LEMMA MinOfTwo ==
    ASSUME NEW a \in Int, NEW b \in Int
    PROVE  Min({a, b}) = IF a <= b THEN a ELSE b
  <1>1. {a, b} \in SUBSET Int /\ IsFiniteSet({a, b}) /\ {a, b} # {}
    <2>1. IsFiniteSet({a} \cup {b})
      BY FS_Singleton, FS_AddElement
    <2>2. {a} \cup {b} = {a, b}
      OBVIOUS
    <2> QED
      BY <2>1, <2>2
  <1> DEFINE m == Min({a, b})
  <1>2. m \in {a, b} /\ m <= a /\ m <= b
    BY <1>1, Extremes
  <1> HIDE DEF m
  <1>3. m = IF a <= b THEN a ELSE b
    BY <1>2
  <1> QED
    BY <1>3 DEF m

(* The greater of two.                                                     *)
LEMMA MaxOfTwo ==
    ASSUME NEW a \in Int, NEW b \in Int
    PROVE  Max({a, b}) = IF a <= b THEN b ELSE a
  <1>1. {a, b} \in SUBSET Int /\ IsFiniteSet({a, b}) /\ {a, b} # {}
    <2>1. IsFiniteSet({a} \cup {b})
      BY FS_Singleton, FS_AddElement
    <2>2. {a} \cup {b} = {a, b}
      OBVIOUS
    <2> QED
      BY <2>1, <2>2
  <1> DEFINE m == Max({a, b})
  <1>2. m \in {a, b} /\ a <= m /\ b <= m
    BY <1>1, Extremes
  <1> HIDE DEF m
  <1>3. m = IF a <= b THEN b ELSE a
    BY <1>2
  <1> QED
    BY <1>3 DEF m

(* What Clamp leaves of n.                                                 *)
LEMMA ClampIs ==
    ASSUME NEW n \in Int, NEW high \in Nat
    PROVE  /\ Clamp(n, 0, high) \in 0..high
           /\ n > 0 /\ high > 0 => Clamp(n, 0, high) > 0
  <1> DEFINE m == Min({n, high})
  <1>1. m = IF n <= high THEN n ELSE high
    BY MinOfTwo
  <1>2. m \in Int
    BY <1>1
  <1>3. Clamp(n, 0, high) = Max({0, m})
    BY DEF Clamp
  <1> HIDE DEF m
  <1>4. Max({0, m}) = IF 0 <= m THEN m ELSE 0
    BY <1>2, MaxOfTwo
  <1> QED
    BY <1>1, <1>3, <1>4

(* Slots are finitely many numbers.                                        *)
LEMMA SlotsAreFinite ==
    /\ IsFiniteSet(Slots) /\ Slots \subseteq Nat
    /\ \A S \in SUBSET Slots : IsFiniteSet(S) /\ Cardinality(S) \in Nat /\ S \subseteq Int
  <1>1. IsFiniteSet(Slots)
    BY FS_Interval, InventoryAssumption DEF Slots
  <1>2. Slots \subseteq Nat
    BY InventoryAssumption DEF Slots
  <1>3. ASSUME NEW S \in SUBSET Slots
        PROVE  IsFiniteSet(S) /\ Cardinality(S) \in Nat /\ S \subseteq Int
    <2>1. IsFiniteSet(S)
      BY <1>1, FS_Subset
    <2>2. Cardinality(S) \in Nat
      BY <2>1, FS_CardinalityType
    <2> QED
      BY <1>2, <2>1, <2>2
  <1> QED
    BY <1>1, <1>2, <1>3

(* Of what is spread, each slot takes within its limit, and one takes some. *)
LEMMA PortionIs ==
    ASSUME NEW D \in SUBSET Slots, NEW limit \in [D -> Nat], NEW n \in Int
    PROVE  /\ \A s \in D : Portion(n, limit, s) \in 0..limit[s]
           /\ n > 0 /\ (\E s \in D : limit[s] > 0) => \E s \in D : Portion(n, limit, s) > 0
  <1> DEFINE before(s) == SumFunctionOnSet(limit, {t \in D : t < s})
  <1>1. ASSUME NEW s \in D PROVE before(s) \in Nat
    <2> DEFINE T == {t \in D : t < s}
    <2>1. IsFiniteSet(T) /\ \A t \in T : limit[t] \in Nat
      BY SlotsAreFinite
    <2> HIDE DEF T
    <2>2. SumFunctionOnSet(limit, T) \in Nat
      BY <2>1, SumNat
    <2> QED
      BY <2>2 DEF T
  <1>2. \A s \in D : Portion(n, limit, s) = Clamp(n - before(s), 0, limit[s])
    BY DEF Portion
  <1>3. ASSUME NEW s \in D
        PROVE  /\ Portion(n, limit, s) \in 0..limit[s]
               /\ n - before(s) > 0 /\ limit[s] > 0 => Portion(n, limit, s) > 0
    <2> DEFINE k == n - before(s)
    <2>1. k \in Int /\ limit[s] \in Nat
      BY <1>1, <1>3
    <2>2. Portion(n, limit, s) = Clamp(k, 0, limit[s])
      BY <1>2, <1>3
    <2> HIDE DEF k
    <2>3. Clamp(k, 0, limit[s]) \in 0..limit[s] /\ (k > 0 /\ limit[s] > 0 => Clamp(k, 0, limit[s]) > 0)
      BY <2>1, ClampIs
    <2> QED
      BY <2>2, <2>3 DEF k
  <1>4. ASSUME n > 0, \E s \in D : limit[s] > 0
        PROVE  \E s \in D : Portion(n, limit, s) > 0
    <2> DEFINE open == {s \in D : limit[s] > 0}
               s == Min(open)
    <2>1. open \in SUBSET Int /\ IsFiniteSet(open) /\ open # {} /\ open \subseteq D
      BY <1>4, SlotsAreFinite
    <2>2. s \in open /\ \A t \in open : s <= t
      <3> HIDE DEF open
      <3> QED
        BY <2>1, Extremes
    <2> DEFINE T == {t \in D : t < s}
    <2>3. \A t \in T : limit[t] = 0
      <3>1. TAKE t \in T
      <3>2. t \in D /\ t < s /\ t \in Int /\ s \in Int /\ limit[t] \in Nat
        BY <2>1, <2>2, SlotsAreFinite
      <3>3. t \notin open
        BY <2>2, <3>2
      <3> QED
        BY <3>2, <3>3
    <2>4. IsFiniteSet(T) /\ s \in D /\ limit[s] > 0
      BY <2>2, SlotsAreFinite
    <2>5. before(s) = 0
      <3>1. SumFunctionOnSet(limit, T) = 0
        <4> HIDE DEF T
        <4> QED
          BY <2>3, <2>4, SumZero
      <3> QED
        BY <3>1
    <2> HIDE DEF s
    <2>6. n - before(s) > 0
      BY <1>4, <2>5
    <2>7. Portion(n, limit, s) > 0
      BY <1>3, <2>4, <2>6
    <2> QED
      BY <2>4, <2>7
  <1> QED
    BY <1>3, <1>4

CapPositive == \A i \in Items : Cap(i) \in Nat \ {0}

(* No stack is of no pieces.                                               *)
LEMMA CapsArePositive == CapPositive
  BY InventoryAssumption DEF CapPositive, Cap

(* What a bag is made of.                                                  *)
LEMMA BagParts ==
    ASSUME NEW b \in Bag
    PROVE  /\ DOMAIN b = Slots
           /\ \A s \in Slots : b[s] \in Pile \cup {Nothing}
           /\ Free(b) = {s \in Slots : b[s] = Nothing}
           /\ Occupied(b) = {s \in Slots : b[s] # Nothing}
           /\ \A s \in Slots : b[s] # Nothing => b[s] \in Pile
           /\ \A i : Holding(b, i) = {s \in Slots : b[s] # Nothing /\ b[s].item = i}
  BY DEF Bag, Free, Occupied, Holding

(* What a pile is made of.                                                 *)
LEMMA PileParts ==
    ASSUME NEW p \in Pile
    PROVE  /\ p # Nothing
           /\ p.id \in Nat \ {0} /\ p.item \in Items /\ p.quantity \in Nat \ {0}
           /\ p.quantity <= Cap(p.item)
  BY NothingIsNoPile DEF Pile

(* A new pile within the cap is a pile.                                    *)
LEMMA PileMade ==
    ASSUME NEW n \in Nat \ {0}, NEW i \in Items, NEW q \in Nat \ {0}, q <= Cap(i)
    PROVE  [id |-> n, item |-> i, quantity |-> q] \in Pile
  BY DEF Pile

(* A pile with another quantity within the cap is a pile.                  *)
LEMMA PileResized ==
    ASSUME NEW p \in Pile, NEW q \in Nat \ {0}, q <= Cap(p.item)
    PROVE  /\ [p EXCEPT !.quantity = q] \in Pile
           /\ [p EXCEPT !.quantity = q].id = p.id
           /\ [p EXCEPT !.quantity = q].item = p.item
           /\ [p EXCEPT !.quantity = q].quantity = q
  BY DEF Pile

(* The rooms of a bag.                                                     *)
LEMMA RoomsAreNat ==
    ASSUME NEW b \in Bag, NEW i \in Items
    PROVE  /\ Holding(b, i) \in SUBSET Slots /\ Rooms(b, i) \in [Holding(b, i) -> Nat]
           /\ Free(b) \in SUBSET Slots /\ FreeRooms(b, i) \in [Free(b) -> Nat]
           /\ \A s \in Holding(b, i) : Rooms(b, i)[s] = Cap(i) - b[s].quantity
           /\ \A s \in Free(b) : FreeRooms(b, i)[s] = Cap(i) /\ Cap(i) > 0
  <1>1. Cap(i) \in Nat \ {0}
    BY CapsArePositive DEF CapPositive
  <1>2. Holding(b, i) \in SUBSET Slots /\ Free(b) \in SUBSET Slots
    BY BagParts
  <1>3. \A s \in Holding(b, i) : b[s].quantity \in Nat /\ b[s].quantity <= Cap(i)
    BY BagParts, PileParts
  <1>4. \A s \in Holding(b, i) : Cap(i) - b[s].quantity \in Nat
    BY <1>1, <1>3
  <1> QED
    BY <1>1, <1>2, <1>4 DEF Rooms, FreeRooms

(* What does not fit in the limits; all of it when nothing does.           *)
LEMMA LeftoverIs ==
    ASSUME NEW D \in SUBSET Slots, NEW limit \in [D -> Nat], NEW n \in Nat
    PROVE  /\ Leftover(n, limit) \in Nat
           /\ (\A s \in D : limit[s] = 0) => Leftover(n, limit) = n
  <1>1. SumFunction(limit) = SumFunctionOnSet(limit, D)
    BY SumOfFunction
  <1>2. SumFunctionOnSet(limit, D) \in Nat
    BY SlotsAreFinite, SumNat
  <1> DEFINE m == n - SumFunction(limit)
  <1>3. m \in Int
    BY <1>1, <1>2
  <1>4. Leftover(n, limit) = Max({0, m})
    BY DEF Leftover
  <1>5. (\A s \in D : limit[s] = 0) => m = n
    <2>1. ASSUME \A s \in D : limit[s] = 0 PROVE SumFunctionOnSet(limit, D) = 0
      BY <2>1, SlotsAreFinite, SumZero
    <2> QED
      BY <1>1, <2>1
  <1> HIDE DEF m
  <1>6. Max({0, m}) = IF 0 <= m THEN m ELSE 0
    BY <1>3, MaxOfTwo
  <1> QED
    BY <1>3, <1>4, <1>5, <1>6

(* The new piles are numbered in slot order.                               *)
Rank(b, s) == Cardinality({t \in Free(b) : t < s})

(* Free slots have different ranks.                                        *)
LEMMA RanksDiffer ==
    ASSUME NEW b \in Bag
    PROVE  /\ \A s \in Slots : Rank(b, s) \in Nat
           /\ \A s, t \in Free(b) : s # t => Rank(b, s) # Rank(b, t)
  <1>1. Free(b) \in SUBSET Slots
    BY BagParts
  <1>2. ASSUME NEW s \in Slots PROVE Rank(b, s) \in Nat
    <2>1. {t \in Free(b) : t < s} \in SUBSET Slots
      BY <1>1
    <2> QED
      BY <2>1, SlotsAreFinite DEF Rank
  <1>3. ASSUME NEW s \in Free(b), NEW t \in Free(b), s < t PROVE Rank(b, s) < Rank(b, t)
    <2> DEFINE S == {u \in Free(b) : u < s}
               T == {u \in Free(b) : u < t}
    <2>1. s \in Int /\ t \in Int /\ \A u \in Free(b) : u \in Int
      BY <1>1, SlotsAreFinite
    <2>2. S \subseteq T
      <3>1. ASSUME NEW u \in Free(b), u < s PROVE u < t
        <4>1. u \in Int
          BY <2>1
        <4> QED
          BY <1>3, <2>1, <3>1, <4>1
      <3> QED
        BY <3>1
    <2>3. s \in T /\ s \notin S
      BY <1>3, <2>1
    <2>4. IsFiniteSet(T) /\ Cardinality(T) \in Nat /\ Cardinality(S) \in Nat
      <3>1. T \in SUBSET Slots /\ S \in SUBSET Slots
        BY <1>1
      <3> HIDE DEF S, T
      <3> QED
        BY <3>1, SlotsAreFinite
    <2> HIDE DEF S, T
    <2>5. Cardinality(S) <= Cardinality(T)
      BY <2>2, <2>4, FS_Subset
    <2>6. Cardinality(S) # Cardinality(T)
      BY <2>2, <2>3, <2>4, FS_Subset
    <2>7. Cardinality(S) < Cardinality(T)
      BY <2>4, <2>5, <2>6
    <2> QED
      BY <2>7 DEF Rank, S, T
  <1>4. ASSUME NEW s \in Free(b), NEW t \in Free(b), s # t PROVE Rank(b, s) # Rank(b, t)
    <2>1. s \in Int /\ t \in Int /\ s \in Slots /\ t \in Slots
      BY <1>1, SlotsAreFinite
    <2>2. Rank(b, s) \in Nat /\ Rank(b, t) \in Nat
      BY <1>2, <2>1
    <2>3. s < t \/ t < s
      BY <1>4, <2>1
    <2> QED
      BY <1>3, <2>2, <2>3
  <1> QED
    BY <1>2, <1>4

(* What add_stackable puts in a slot, and what it leaves in one.           *)
Topped(b, i, n, s) == Portion(n, Rooms(b, i), s)
Opened(b, i, n, s) == Portion(Leftover(n, Rooms(b, i)), FreeRooms(b, i), s)

(* What add_stackable writes into every slot.                              *)
LEMMA AddStackableSlots ==
    ASSUME NEW b \in Bag, NEW i \in Items, NEW n \in Nat, NEW nextId \in Nat \ {0},
           NEW c, c = add_stackable(b, i, n, nextId)
    PROVE  /\ c \in Bag
           /\ \A s \in Holding(b, i) :
                 /\ c[s] # Nothing /\ c[s].item = i /\ c[s].id = b[s].id
                 /\ c[s].quantity = b[s].quantity + Topped(b, i, n, s)
                 /\ Topped(b, i, n, s) \in Nat
           /\ \A s \in Occupied(b) \ Holding(b, i) : c[s] = b[s]
           /\ \A s \in Free(b) :
                 /\ Opened(b, i, n, s) \in Nat
                 /\ Opened(b, i, n, s) > 0 =>
                       c[s] # Nothing /\ c[s].item = i /\ c[s].quantity = Opened(b, i, n, s)
                 /\ Opened(b, i, n, s) = 0 => c[s] = Nothing
                 /\ c[s] # Nothing => c[s].id = nextId + Rank(b, s)
  <1> DEFINE rest == Leftover(n, Rooms(b, i))
             p(s) == Topped(b, i, n, s)
             q(s) == Opened(b, i, n, s)
  <1>1. /\ Holding(b, i) \in SUBSET Slots /\ Rooms(b, i) \in [Holding(b, i) -> Nat]
        /\ Free(b) \in SUBSET Slots /\ FreeRooms(b, i) \in [Free(b) -> Nat]
        /\ \A s \in Holding(b, i) : Rooms(b, i)[s] = Cap(i) - b[s].quantity
        /\ \A s \in Free(b) : FreeRooms(b, i)[s] = Cap(i) /\ Cap(i) > 0
    BY RoomsAreNat
  <1>2. rest \in Nat
    BY <1>1, LeftoverIs
  <1>3. \A s \in Holding(b, i) : p(s) \in 0..(Cap(i) - b[s].quantity)
    BY <1>1, PortionIs DEF Topped
  <1>4. \A s \in Free(b) : q(s) \in 0..Cap(i)
    BY <1>1, <1>2, PortionIs DEF Opened
  <1> HIDE DEF p, q, rest
  <1>5. c = [s \in Slots |->
               IF s \in Holding(b, i) THEN [b[s] EXCEPT !.quantity = @ + p(s)]
               ELSE IF s \in Free(b) /\ q(s) > 0
                 THEN [id |-> nextId + Rank(b, s), item |-> i, quantity |-> q(s)]
               ELSE b[s]]
    BY BagParts DEF add_stackable, Rank, Topped, Opened, p, q
  <1>6. Cap(i) \in Nat \ {0}
    BY CapsArePositive DEF CapPositive
  <1>7. ASSUME NEW s \in Holding(b, i)
        PROVE  /\ c[s] \in Pile /\ c[s].item = i /\ c[s].id = b[s].id
               /\ c[s].quantity = b[s].quantity + p(s) /\ p(s) \in Nat
    <2>1. b[s] \in Pile /\ b[s].item = i /\ s \in Slots
      BY BagParts
    <2>2. b[s].quantity \in Nat \ {0} /\ b[s].quantity <= Cap(i)
      BY <2>1, PileParts
    <2>3. p(s) \in Nat /\ b[s].quantity + p(s) \in Nat \ {0} /\ b[s].quantity + p(s) <= Cap(i)
      BY <1>3, <1>6, <2>2
    <2>4. c[s] = [b[s] EXCEPT !.quantity = b[s].quantity + p(s)]
      BY <1>5, <2>1
    <2> QED
      BY <2>1, <2>3, <2>4, PileResized
  <1>8. ASSUME NEW s \in Free(b)
        PROVE  /\ c[s] \in Pile \cup {Nothing}
               /\ q(s) \in Nat
               /\ q(s) > 0 => c[s] # Nothing /\ c[s].item = i /\ c[s].quantity = q(s)
               /\ q(s) = 0 => c[s] = Nothing
               /\ c[s] # Nothing => c[s].id = nextId + Rank(b, s)
    <2>1. s \in Slots /\ s \notin Holding(b, i) /\ b[s] = Nothing
      BY BagParts
    <2>2. CASE q(s) > 0
      <3>1. c[s] = [id |-> nextId + Rank(b, s), item |-> i, quantity |-> q(s)]
        BY <1>5, <2>1, <2>2
      <3>2. nextId + Rank(b, s) \in Nat \ {0}
        <4>1. Rank(b, s) \in Nat
          BY <2>1, RanksDiffer
        <4> QED
          BY <4>1
      <3>3. q(s) \in Nat \ {0} /\ q(s) <= Cap(i)
        BY <1>4, <1>6, <2>2
      <3>4. c[s] \in Pile
        BY <3>1, <3>2, <3>3, PileMade
      <3>5. c[s] # Nothing
        BY <3>4, NothingIsNoPile
      <3> QED
        BY <2>2, <3>1, <3>3, <3>4, <3>5
    <2>3. CASE ~ (q(s) > 0)
      <3>1. q(s) \in Nat
        BY <1>4, <1>6
      <3>2. c[s] = Nothing
        BY <1>5, <2>1, <2>3
      <3> QED
        BY <2>3, <3>1, <3>2
    <2> QED
      BY <2>2, <2>3
  <1>9. ASSUME NEW s \in Occupied(b) \ Holding(b, i) PROVE c[s] = b[s] /\ s \in Slots
    <2>1. s \in Slots /\ s \notin Free(b)
      BY BagParts
    <2> QED
      BY <1>5, <2>1
  <1>10. c \in Bag
    <2>1. ASSUME NEW s \in Slots PROVE c[s] \in Pile \cup {Nothing}
      <3>1. s \in Free(b) \/ s \in Occupied(b)
        BY BagParts
      <3>2. b[s] \in Pile \cup {Nothing}
        BY BagParts
      <3> QED
        BY <1>7, <1>8, <1>9, <3>1, <3>2
    <2> QED
      BY <1>5, <2>1 DEF Bag
  <1>11. \A s \in Holding(b, i) : c[s] # Nothing
    BY <1>7, NothingIsNoPile
  <1> QED
    BY <1>7, <1>8, <1>9, <1>10, <1>11 DEF p, q

(* What a slot counts for item i.                                          *)
Held(b, i) == [s \in Slots |-> IF s \in Holding(b, i) THEN b[s].quantity ELSE 0]

(* What Held is, slot by slot.                                             *)
LEMMA HeldIs ==
    ASSUME NEW b \in Bag, NEW i
    PROVE  \A s \in Slots :
              /\ Held(b, i)[s] \in Nat
              /\ b[s] = Nothing => Held(b, i)[s] = 0
              /\ b[s] # Nothing /\ b[s].item # i => Held(b, i)[s] = 0
              /\ b[s] # Nothing /\ b[s].item = i => Held(b, i)[s] = b[s].quantity
  <1>1. TAKE s \in Slots
  <1>2. Held(b, i)[s] = IF s \in Holding(b, i) THEN b[s].quantity ELSE 0
    BY DEF Held
  <1>3. s \in Holding(b, i) <=> b[s] # Nothing /\ b[s].item = i
    BY BagParts
  <1>4. s \in Holding(b, i) => b[s].quantity \in Nat
    BY <1>3, BagParts, PileParts
  <1> QED
    BY <1>2, <1>3, <1>4

(* count_item is the sum of Held over all the slots.                       *)
LEMMA CountIs ==
    ASSUME NEW b \in Bag, NEW i
    PROVE  count_item(b, i) = SumFunctionOnSet(Held(b, i), Slots) /\ count_item(b, i) \in Nat
  <1> DEFINE D == Holding(b, i)
             f == [s \in D |-> b[s].quantity]
  <1>1. D \in SUBSET Slots
    BY BagParts
  <1>2. IsFiniteSet(D) /\ IsFiniteSet(Slots)
    BY <1>1, SlotsAreFinite
  <1>3. /\ \A s \in Slots : Held(b, i)[s] \in Nat
        /\ \A s \in Slots \ D : Held(b, i)[s] = 0
    BY <1>1, HeldIs DEF Held
  <1>4. \A s \in D : f[s] = Held(b, i)[s]
    BY <1>1 DEF Held
  <1>5. count_item(b, i) = SumFunctionOnSet(f, D)
    BY SumOfFunction DEF count_item
  <1> HIDE DEF D, f
  <1>6. \A s \in Slots : Held(b, i)[s] \in Int
    BY <1>3
  <1>7. SumFunctionOnSet(Held(b, i), Slots) = SumFunctionOnSet(Held(b, i), D)
    BY <1>1, <1>2, <1>3, <1>6, SumOnSubset
  <1>8. \A s \in D : f[s] \in Int /\ f[s] = Held(b, i)[s]
    BY <1>1, <1>4, <1>6
  <1>9. SumFunctionOnSet(f, D) = SumFunctionOnSet(Held(b, i), D)
    BY <1>2, <1>8, SumSame
  <1>10. SumFunctionOnSet(Held(b, i), Slots) \in Nat
    BY <1>2, <1>3, SumNat
  <1> QED
    BY <1>5, <1>7, <1>9, <1>10

(* Sums add up member by member.                                           *)
LEMMA SumPlus ==
    ASSUME NEW S, IsFiniteSet(S), NEW f, NEW g, NEW h,
           \A x \in S : f[x] \in Int /\ g[x] \in Int /\ h[x] = f[x] + g[x]
    PROVE  SumFunctionOnSet(h, S) = SumFunctionOnSet(f, S) + SumFunctionOnSet(g, S)
  <1> DEFINE P == {T \in SUBSET S :
                     SumFunctionOnSet(h, T) = SumFunctionOnSet(f, T) + SumFunctionOnSet(g, T)}
  <1>1. {} \in P
    BY SumOfNone
  <1>2. ASSUME NEW T \in SUBSET S, NEW x \in S, T \in P PROVE T \cup {x} \in P
    <2>1. CASE x \in T
      <3>1. T \cup {x} = T
        BY <2>1
      <3> QED
        BY <1>2, <3>1
    <2>2. CASE x \notin T
      <3>1. /\ IsFiniteSet(T)
            /\ \A y \in T \cup {x} : f[y] \in Int /\ g[y] \in Int /\ h[y] \in Int
        BY <1>2, FS_Subset
      <3>2. /\ SumFunctionOnSet(f, T \cup {x}) = SumFunctionOnSet(f, T) + f[x]
            /\ SumFunctionOnSet(g, T \cup {x}) = SumFunctionOnSet(g, T) + g[x]
            /\ SumFunctionOnSet(h, T \cup {x}) = SumFunctionOnSet(h, T) + h[x]
        BY <2>2, <3>1, SumWith
      <3>3. SumFunctionOnSet(f, T) \in Int /\ SumFunctionOnSet(g, T) \in Int
        BY <3>1, SumWithout
      <3>4. SumFunctionOnSet(h, T) = SumFunctionOnSet(f, T) + SumFunctionOnSet(g, T)
        BY <1>2
      <3>5. f[x] \in Int /\ g[x] \in Int /\ h[x] = f[x] + g[x]
        OBVIOUS
      <3> QED
        BY <3>2, <3>3, <3>4, <3>5
    <2> QED
      BY <2>1, <2>2
  <1>3. S \in P
    <2> HIDE DEF P
    <2> QED
      BY <1>1, <1>2, SetInduction
  <1> QED
    BY <1>3

(* The same number for every member.                                       *)
LEMMA SumOfSame ==
    ASSUME NEW S, IsFiniteSet(S), NEW k \in Nat, NEW f, \A x \in S : f[x] = k
    PROVE  SumFunctionOnSet(f, S) = k * Cardinality(S)
  <1> DEFINE P == {T \in SUBSET S : SumFunctionOnSet(f, T) = k * Cardinality(T)}
  <1>1. {} \in P
    BY SumOfNone, FS_EmptySet
  <1>2. ASSUME NEW T \in SUBSET S, NEW x \in S, T \in P PROVE T \cup {x} \in P
    <2>1. CASE x \in T
      <3>1. T \cup {x} = T
        BY <2>1
      <3> QED
        BY <1>2, <3>1
    <2>2. CASE x \notin T
      <3>1. IsFiniteSet(T) /\ \A y \in T \cup {x} : f[y] \in Int
        BY <1>2, FS_Subset
      <3>2. SumFunctionOnSet(f, T \cup {x}) = SumFunctionOnSet(f, T) + k
        BY <2>2, <3>1, SumWith
      <3>3. Cardinality(T \cup {x}) = Cardinality(T) + 1 /\ Cardinality(T) \in Nat
        BY <2>2, <3>1, FS_AddElement, FS_CardinalityType
      <3>4. SumFunctionOnSet(f, T) = k * Cardinality(T)
        BY <1>2
      <3> DEFINE c == Cardinality(T)
      <3>5. k * (c + 1) = k * c + k
        <4>1. c \in Nat
          BY <3>3
        <4> HIDE DEF c
        <4> QED
          BY <4>1
      <3> QED
        BY <3>2, <3>3, <3>4, <3>5
    <2> QED
      BY <2>1, <2>2
  <1>3. S \in P
    <2> HIDE DEF P
    <2> QED
      BY <1>1, <1>2, SetInduction
  <1> QED
    BY <1>3

(* What is over in one set is not in the other.                            *)
LEMMA SumElsewhere ==
    ASSUME NEW S, IsFiniteSet(S), NEW D \in SUBSET S, NEW f, NEW g,
           \A x \in D : f[x] \in Int /\ g[x] = f[x], \A x \in S \ D : g[x] = 0
    PROVE  SumFunctionOnSet(g, S) = SumFunctionOnSet(f, D)
  <1>1. \A x \in S : g[x] \in Int
    OBVIOUS
  <1>2. SumFunctionOnSet(g, S) = SumFunctionOnSet(g, D)
    BY <1>1, SumOnSubset
  <1>3. IsFiniteSet(D) /\ \A x \in D : f[x] \in Int /\ f[x] = g[x]
    BY FS_Subset
  <1>4. SumFunctionOnSet(f, D) = SumFunctionOnSet(g, D)
    BY <1>3, SumSame
  <1> QED
    BY <1>2, <1>4

(* What Clamp leaves of n, exactly.                                        *)
LEMMA ClampExactly ==
    ASSUME NEW n \in Int, NEW high \in Nat
    PROVE  Clamp(n, 0, high) = IF n <= 0 THEN 0 ELSE IF n <= high THEN n ELSE high
  <1> DEFINE m == Min({n, high})
  <1>1. m = IF n <= high THEN n ELSE high
    BY MinOfTwo
  <1>2. m \in Int
    BY <1>1
  <1>3. Clamp(n, 0, high) = Max({0, m})
    BY DEF Clamp
  <1> HIDE DEF m
  <1>4. Max({0, m}) = IF 0 <= m THEN m ELSE 0
    BY <1>2, MaxOfTwo
  <1> QED
    BY <1>1, <1>3, <1>4

Lesser(a, b) == IF a <= b THEN a ELSE b

(* The slots before one another.                                           *)
Initial(T, D) == T \in SUBSET D /\ \A s \in T, t \in D : t < s => t \in T

(* All is spread that the limits can take, and no more: by induction on    *)
(* the first slots.                                                        *)
LEMMA PortionsSum ==
    ASSUME NEW D \in SUBSET Slots, NEW limit \in [D -> Nat], NEW n \in Nat,
           NEW f, \A s \in D : f[s] = Portion(n, limit, s)
    PROVE  SumFunctionOnSet(f, D) = Lesser(n, SumFunctionOnSet(limit, D))
  <1> DEFINE Good(T) == SumFunctionOnSet(f, T) = Lesser(n, SumFunctionOnSet(limit, T))
             bad == {T \in SUBSET D : Initial(T, D) /\ ~ Good(T)}
  <1>1. SUFFICES ASSUME bad # {} PROVE FALSE
    <2>1. Initial(D, D)
      BY DEF Initial
    <2> QED
      BY <2>1
  <1>2. IsFiniteSet(D) /\ D \subseteq Int
    BY SlotsAreFinite
  <1>3. bad \subseteq FiniteSubsetsOf(D)
    BY <1>2, FS_FiniteSubsetsOfFinite
  <1>4. PICK T \in bad : \A U \in bad : ~ (<<U, T>> \in StrictSubsetOrdering(D))
    BY <1>1, <1>3, <1>2, FS_StrictSubsetOrderingWellFounded, WFMin
  <1>5. T \in SUBSET D /\ Initial(T, D) /\ ~ Good(T) /\ IsFiniteSet(T) /\ T \in SUBSET Int
    BY <1>2, <1>4, FS_Subset
  <1>6. T # {}
    <2>1. Good({})
      BY SumOfNone DEF Lesser
    <2> QED
      BY <1>5, <2>1
  <1> DEFINE m == Max(T)
             U == T \ {m}
  <1>7. m \in T /\ \A s \in T : s <= m
    BY <1>5, <1>6, Extremes
  <1> HIDE DEF m, Good
  <1>8. m \in Int /\ m \in D /\ m \notin U /\ T = U \cup {m} /\ U \in SUBSET D /\ IsFiniteSet(U)
    BY <1>5, <1>7, FS_Subset
  <1>9. U = {t \in D : t < m}
    <2>1. ASSUME NEW t \in U PROVE t \in D /\ t < m
      <3>1. t \in Int /\ t <= m /\ t # m /\ t \in D
        BY <1>2, <1>5, <1>7, <2>1
      <3> QED
        BY <1>8, <3>1
    <2>2. ASSUME NEW t \in D, t < m PROVE t \in U
      <3>1. t \in T /\ t \in Int
        BY <1>2, <1>5, <1>7, <2>2 DEF Initial
      <3>2. t # m
        BY <1>8, <2>2, <3>1
      <3> QED
        BY <3>1, <3>2
    <2> QED
      BY <2>1, <2>2
  <1>10. Good(U)
    <2>1. Initial(U, D)
      <3>1. ASSUME NEW s \in U, NEW t \in D, t < s PROVE t < m
        <4>1. s \in Int /\ t \in Int /\ s < m
          BY <1>2, <1>9, <3>1
        <4> QED
          BY <1>8, <3>1, <4>1
      <3> QED
        BY <1>8, <1>9, <3>1 DEF Initial
    <2>2. <<U, T>> \in StrictSubsetOrdering(D)
      BY <1>5, <1>7 DEF StrictSubsetOrdering
    <2> QED
      BY <1>4, <1>8, <2>1, <2>2
  <1> DEFINE a == SumFunctionOnSet(limit, U)
             z == SumFunctionOnSet(f, U)
  <1>11. a \in Nat
    <2>1. \A s \in U : limit[s] \in Nat
      BY <1>8
    <2> HIDE DEF U
    <2> QED
      BY <1>8, <2>1, SumNat
  <1>12. z = Lesser(n, a)
    BY <1>10 DEF Good
  <1>13. f[m] = Clamp(n - a, 0, limit[m])
    BY <1>8, <1>9 DEF Portion
  <1>14. \A s \in D : f[s] \in Int /\ limit[s] \in Int
    <2>1. \A s \in D : Portion(n, limit, s) \in 0..limit[s] /\ limit[s] \in Nat
      BY PortionIs
    <2> QED
      BY <2>1
  <1>15. SumFunctionOnSet(f, T) = z + f[m] /\ SumFunctionOnSet(limit, T) = a + limit[m]
    <2>1. \A s \in U \cup {m} : f[s] \in Int /\ limit[s] \in Int
      BY <1>8, <1>14
    <2> HIDE DEF U
    <2> QED
      BY <1>8, <2>1, SumWith
  <1>16. limit[m] \in Nat
    BY <1>8
  <1> HIDE DEF a, z
  <1>17. f[m] = IF n - a <= 0 THEN 0 ELSE IF n - a <= limit[m] THEN n - a ELSE limit[m]
    BY <1>11, <1>13, <1>16, ClampExactly
  <1>18. z + f[m] = Lesser(n, a + limit[m])
    BY <1>11, <1>12, <1>16, <1>17 DEF Lesser
  <1>19. Good(T)
    BY <1>15, <1>18 DEF Good
  <1> QED
    BY <1>5, <1>19

(* What is left over is what the limits do not take.                       *)
LEMMA LeftoverExactly ==
    ASSUME NEW D \in SUBSET Slots, NEW limit \in [D -> Nat], NEW n \in Nat
    PROVE  /\ SumFunctionOnSet(limit, D) \in Nat
           /\ Leftover(n, limit) = n - Lesser(n, SumFunctionOnSet(limit, D))
           /\ Leftover(n, limit) \in Nat
  <1> DEFINE a == SumFunctionOnSet(limit, D)
             m == n - a
  <1>1. a \in Nat
    BY SlotsAreFinite, SumNat
  <1>2. Leftover(n, limit) = Max({0, m})
    BY SumOfFunction DEF Leftover
  <1>3. m \in Int
    BY <1>1
  <1> HIDE DEF m
  <1>4. Max({0, m}) = IF 0 <= m THEN m ELSE 0
    BY <1>3, MaxOfTwo
  <1> HIDE DEF a
  <1>5. Leftover(n, limit) = n - Lesser(n, a) /\ Leftover(n, limit) \in Nat
    BY <1>1, <1>2, <1>4 DEF Lesser, m
  <1> QED
    BY <1>1, <1>5 DEF a

(* What a bag has room for.                                                *)
LEMMA SpaceIs ==
    ASSUME NEW b \in Bag, NEW i \in Items
    PROVE  /\ SumFunctionOnSet(Rooms(b, i), Holding(b, i)) \in Nat
           /\ SumFunctionOnSet(FreeRooms(b, i), Free(b)) \in Nat
           /\ space_for(b, i) = SumFunctionOnSet(Rooms(b, i), Holding(b, i))
                                  + SumFunctionOnSet(FreeRooms(b, i), Free(b))
           /\ space_for(b, i) \in Nat
  <1>1. /\ Holding(b, i) \in SUBSET Slots /\ Rooms(b, i) \in [Holding(b, i) -> Nat]
        /\ Free(b) \in SUBSET Slots /\ FreeRooms(b, i) \in [Free(b) -> Nat]
        /\ \A s \in Free(b) : FreeRooms(b, i)[s] = Cap(i)
        /\ Cap(i) \in Nat
    BY RoomsAreNat, CapsArePositive DEF CapPositive
  <1>2. IsFiniteSet(Holding(b, i)) /\ IsFiniteSet(Free(b))
    BY <1>1, SlotsAreFinite
  <1>3. SumFunctionOnSet(Rooms(b, i), Holding(b, i)) \in Nat
    BY <1>1, <1>2, SumNat
  <1>4. SumFunctionOnSet(FreeRooms(b, i), Free(b)) \in Nat
    BY <1>1, <1>2, SumNat
  <1>5. SumFunctionOnSet(FreeRooms(b, i), Free(b)) = Cap(i) * Cardinality(Free(b))
    BY <1>1, <1>2, SumOfSame
  <1>6. SumFunction(Rooms(b, i)) = SumFunctionOnSet(Rooms(b, i), Holding(b, i))
    BY <1>1, SumOfFunction
  <1> QED
    BY <1>3, <1>4, <1>5, <1>6 DEF space_for

(* The room a bag announces is the room it has: of n pieces, add_stackable *)
(* puts in all that space_for says, or all of them, and no other item is   *)
(* counted otherwise (components.rs space_for, add_stackable; a trade      *)
(* charges for the whole of what space_for said would fit).                *)
THEOREM AnnouncedSpaceIsExact ==
    ASSUME NEW b \in Bag, NEW i \in Items, NEW n \in Nat, NEW nextId \in Nat \ {0}
    PROVE  /\ count_item(add_stackable(b, i, n, nextId), i)
                 = count_item(b, i) + Lesser(n, space_for(b, i))
           /\ \A j : j # i => count_item(add_stackable(b, i, n, nextId), j) = count_item(b, j)
  <1> DEFINE c == add_stackable(b, i, n, nextId)
             p(s) == Topped(b, i, n, s)
             q(s) == Opened(b, i, n, s)
             D == Holding(b, i)
             E == Free(b)
  <1>1. /\ c \in Bag
        /\ \A s \in D : c[s] # Nothing /\ c[s].item = i
                        /\ c[s].quantity = b[s].quantity + p(s) /\ p(s) \in Nat
        /\ \A s \in Occupied(b) \ D : c[s] = b[s]
        /\ \A s \in E : /\ q(s) \in Nat
                        /\ q(s) > 0 => c[s] # Nothing /\ c[s].item = i /\ c[s].quantity = q(s)
                        /\ q(s) = 0 => c[s] = Nothing
    BY AddStackableSlots
  <1> HIDE DEF c
  <1>2. /\ D \in SUBSET Slots /\ Rooms(b, i) \in [D -> Nat]
        /\ E \in SUBSET Slots /\ FreeRooms(b, i) \in [E -> Nat]
    BY RoomsAreNat
  <1>3. \A s \in Slots : \/ s \in E /\ s \notin D /\ b[s] = Nothing
                         \/ s \in D /\ s \notin E /\ b[s] # Nothing /\ b[s].item = i
                         \/ /\ s \in Occupied(b) \ D /\ s \notin E
                            /\ b[s] # Nothing /\ b[s].item # i
    BY BagParts
  <1> DEFINE P == [s \in D |-> p(s)]
             Q == [s \in E |-> q(s)]
             PP == [s \in Slots |-> IF s \in D THEN p(s) ELSE 0]
             QQ == [s \in Slots |-> IF s \in E THEN q(s) ELSE 0]
             G == [s \in Slots |-> PP[s] + QQ[s]]
             a == SumFunctionOnSet(Rooms(b, i), D)
             z == SumFunctionOnSet(FreeRooms(b, i), E)
             rest == Leftover(n, Rooms(b, i))
  <1>4. SumFunctionOnSet(PP, Slots) = Lesser(n, a)
    <2>1. SumFunctionOnSet(P, D) = Lesser(n, a)
      <3>1. \A s \in D : P[s] = Portion(n, Rooms(b, i), s)
        BY DEF Topped
      <3> HIDE DEF P, D
      <3> QED
        BY <1>2, <3>1, PortionsSum
    <2>2. /\ \A s \in D : P[s] \in Int /\ PP[s] = P[s]
          /\ \A s \in Slots \ D : PP[s] = 0
      BY <1>1, <1>2
    <2>3. IsFiniteSet(Slots) /\ D \in SUBSET Slots
      BY <1>2, SlotsAreFinite
    <2> HIDE DEF P, PP, D
    <2>4. SumFunctionOnSet(PP, Slots) = SumFunctionOnSet(P, D)
      BY <2>2, <2>3, SumElsewhere
    <2> QED
      BY <2>1, <2>4
  <1>5. rest = n - Lesser(n, a) /\ rest \in Nat /\ a \in Nat
    BY <1>2, LeftoverExactly
  <1>6. SumFunctionOnSet(QQ, Slots) = Lesser(rest, z)
    <2>1. SumFunctionOnSet(Q, E) = Lesser(rest, z)
      <3>1. \A s \in E : Q[s] = Portion(rest, FreeRooms(b, i), s)
        BY DEF Opened
      <3> HIDE DEF Q, E, rest
      <3> QED
        BY <1>2, <1>5, <3>1, PortionsSum
    <2>2. /\ \A s \in E : Q[s] \in Int /\ QQ[s] = Q[s]
          /\ \A s \in Slots \ E : QQ[s] = 0
      BY <1>1, <1>2
    <2>3. IsFiniteSet(Slots) /\ E \in SUBSET Slots
      BY <1>2, SlotsAreFinite
    <2> HIDE DEF Q, QQ, E
    <2>4. SumFunctionOnSet(QQ, Slots) = SumFunctionOnSet(Q, E)
      BY <2>2, <2>3, SumElsewhere
    <2> QED
      BY <2>1, <2>4
  <1> DEFINE k == Lesser(n, space_for(b, i))
  <1>7. Lesser(n, a) + Lesser(rest, z) = k
    <2>1. a \in Nat /\ z \in Nat /\ space_for(b, i) = a + z
      BY SpaceIs
    <2> HIDE DEF a, z, rest
    <2> QED
      BY <1>5, <2>1 DEF Lesser
  <1>8. \A s \in Slots : PP[s] \in Int /\ QQ[s] \in Int /\ G[s] = PP[s] + QQ[s] /\ G[s] \in Int
    BY <1>1
  <1>9. SumFunctionOnSet(G, Slots) = k
    <2> HIDE DEF PP, QQ, G, a, z, rest, k
    <2>1. SumFunctionOnSet(G, Slots) = SumFunctionOnSet(PP, Slots) + SumFunctionOnSet(QQ, Slots)
      BY <1>8, SlotsAreFinite, SumPlus
    <2> QED
      BY <1>4, <1>6, <1>7, <2>1
  <1>10. ASSUME NEW s \in Slots PROVE Held(c, i)[s] = Held(b, i)[s] + G[s]
    <2>1. CASE s \in E /\ s \notin D /\ b[s] = Nothing
      <3>1. G[s] = q(s) /\ q(s) \in Nat /\ Held(b, i)[s] = 0
        <4>1. q(s) \in Nat
          BY <1>1, <2>1
        <4>2. Held(b, i)[s] = 0
          BY <2>1, HeldIs
        <4> QED
          BY <2>1, <4>1, <4>2
      <3>2. Held(c, i)[s] = q(s)
        <4>1. CASE q(s) > 0
          <5>1. c[s] # Nothing /\ c[s].item = i /\ c[s].quantity = q(s)
            BY <1>1, <2>1, <4>1
          <5> QED
            BY <1>1, <5>1, HeldIs
        <4>2. CASE q(s) = 0
          <5>1. c[s] = Nothing
            BY <1>1, <2>1, <4>2
          <5> QED
            BY <1>1, <4>2, <5>1, HeldIs
        <4> HIDE DEF q
        <4> QED
          BY <3>1, <4>1, <4>2
      <3> HIDE DEF G, q
      <3> QED
        BY <3>1, <3>2
    <2>2. CASE s \in D /\ s \notin E /\ b[s] # Nothing /\ b[s].item = i
      <3>1. p(s) \in Nat /\ c[s] # Nothing /\ c[s].item = i /\ c[s].quantity = b[s].quantity + p(s)
        BY <1>1, <2>2
      <3>2. G[s] = p(s)
        BY <2>2, <3>1
      <3>3. Held(b, i)[s] = b[s].quantity /\ Held(c, i)[s] = c[s].quantity
        BY <1>1, <2>2, <3>1, HeldIs
      <3> QED
        BY <3>1, <3>2, <3>3
    <2>3. CASE s \in Occupied(b) \ D /\ s \notin E /\ b[s] # Nothing /\ b[s].item # i
      <3>1. G[s] = 0
        BY <2>3
      <3>2. c[s] = b[s]
        BY <1>1, <2>3
      <3>3. Held(b, i)[s] = 0 /\ Held(c, i)[s] = 0
        BY <1>1, <2>3, <3>2, HeldIs
      <3> QED
        BY <3>1, <3>3
    <2> HIDE DEF G, D, E
    <2> QED
      BY <1>3, <2>1, <2>2, <2>3
  <1>11. count_item(c, i) = count_item(b, i) + k
    <2> DEFINE f == Held(b, i)
               h == Held(c, i)
    <2>1. \A s \in Slots : f[s] \in Int /\ G[s] \in Int /\ h[s] = f[s] + G[s]
      <3>1. \A s \in Slots : f[s] \in Int
        BY HeldIs
      <3> HIDE DEF G
      <3> QED
        BY <1>8, <1>10, <3>1
    <2> HIDE DEF f, h, G, k
    <2>2. SumFunctionOnSet(h, Slots) = SumFunctionOnSet(f, Slots) + SumFunctionOnSet(G, Slots)
      BY <2>1, SlotsAreFinite, SumPlus
    <2>3. count_item(b, i) = SumFunctionOnSet(f, Slots) /\ count_item(c, i) = SumFunctionOnSet(h, Slots)
      BY <1>1, CountIs DEF f, h
    <2> QED
      BY <1>9, <2>2, <2>3
  <1>12. ASSUME NEW j, j # i PROVE count_item(c, j) = count_item(b, j)
    <2> DEFINE f == Held(b, j)
               h == Held(c, j)
    <2>1. ASSUME NEW s \in Slots PROVE f[s] \in Int /\ f[s] = h[s]
      <3>1. f[s] \in Nat
        BY HeldIs
      <3>2. c[s] = b[s] \/ ((b[s] = Nothing \/ b[s].item = i) /\ (c[s] = Nothing \/ c[s].item = i))
        BY <1>1, <1>3
      <3>3. CASE c[s] = b[s]
        <4>1. s \in Holding(b, j) <=> s \in Holding(c, j)
          BY <1>1, <3>3, BagParts
        <4> QED
          BY <3>1, <3>3, <4>1 DEF Held
      <3>4. CASE (b[s] = Nothing \/ b[s].item = i) /\ (c[s] = Nothing \/ c[s].item = i)
        <4>1. f[s] = 0
          BY <1>12, <3>4, HeldIs
        <4>2. h[s] = 0
          BY <1>1, <1>12, <3>4, HeldIs
        <4> QED
          BY <4>1, <4>2
      <3> QED
        BY <3>2, <3>3, <3>4
    <2>2. count_item(b, j) = SumFunctionOnSet(f, Slots) /\ count_item(c, j) = SumFunctionOnSet(h, Slots)
      BY <1>1, CountIs
    <2> HIDE DEF f, h
    <2>3. SumFunctionOnSet(f, Slots) = SumFunctionOnSet(h, Slots)
      BY <2>1, SlotsAreFinite, SumSame
    <2> QED
      BY <2>2, <2>3
  <1> QED
    BY <1>11, <1>12 DEF c

(* What fits in a bag is added to its count, and nothing else.             *)
LEMMA AddStackableCounts ==
    ASSUME NEW b \in Bag, NEW i \in Items, NEW n \in Nat, NEW nextId \in Nat \ {0},
           n <= space_for(b, i)
    PROVE  /\ count_item(add_stackable(b, i, n, nextId), i) = count_item(b, i) + n
           /\ \A j : j # i => count_item(add_stackable(b, i, n, nextId), j) = count_item(b, j)
  <1>1. Lesser(n, space_for(b, i)) = n
    BY DEF Lesser
  <1> QED
    BY <1>1, AnnouncedSpaceIsExact

(* What is consumed leaves the bag, and nothing else.                      *)
LEMMA RemoveIs ==
    ASSUME NEW b \in Bag, NEW i \in Items, NEW n \in Nat
    PROVE  /\ remove_item_amount(b, i, n) \in Bag
           /\ n <= count_item(b, i) =>
                 count_item(remove_item_amount(b, i, n), i) = count_item(b, i) - n
           /\ \A j : j # i => count_item(remove_item_amount(b, i, n), j) = count_item(b, j)
           /\ \A s \in Slots : remove_item_amount(b, i, n)[s] # Nothing =>
                 b[s] # Nothing /\ remove_item_amount(b, i, n)[s].id = b[s].id
  <1> DEFINE c == remove_item_amount(b, i, n)
             D == Holding(b, i)
             held == [t \in D |-> b[t].quantity]
             p(s) == Portion(n, held, s)
  <1>1. /\ DOMAIN b = Slots
        /\ D \in SUBSET Slots
        /\ \A s \in Slots : b[s] \in Pile \cup {Nothing}
        /\ \A s \in D : b[s] \in Pile /\ b[s] # Nothing /\ b[s].item = i
        /\ \A s \in Slots \ D : b[s] = Nothing \/ b[s].item # i
    BY BagParts
  <1>2. \A s \in D : b[s].quantity \in Nat \ {0} /\ b[s].quantity <= Cap(i)
    BY <1>1, PileParts
  <1>3. held \in [D -> Nat]
    BY <1>2
  <1>4. \A s \in D : held[s] = b[s].quantity
    OBVIOUS
  <1>5. c = [s \in Slots |->
               IF s \notin D THEN b[s]
               ELSE IF p(s) = b[s].quantity THEN Nothing
               ELSE [b[s] EXCEPT !.quantity = @ - p(s)]]
    BY <1>1 DEF remove_item_amount, Drained
  <1>6. \A s \in D : p(s) \in 0..b[s].quantity
    <2> HIDE DEF held, D
    <2>1. \A s \in D : Portion(n, held, s) \in 0..held[s]
      BY <1>1, <1>3, PortionIs
    <2> QED
      BY <1>4, <2>1
  <1>7. count_item(b, i) = SumFunctionOnSet(held, D)
    BY SumOfFunction DEF count_item
  <1> DEFINE P == [s \in D |-> p(s)]
             G == [s \in Slots |-> IF s \in D THEN p(s) ELSE 0]
  <1>8. SumFunctionOnSet(G, Slots) = Lesser(n, count_item(b, i))
    <2>1. \A s \in D : P[s] = Portion(n, held, s)
      OBVIOUS
    <2>2. /\ \A s \in D : P[s] \in Int /\ G[s] = P[s]
          /\ \A s \in Slots \ D : G[s] = 0
      BY <1>1, <1>2, <1>6
    <2>3. IsFiniteSet(Slots) /\ D \in SUBSET Slots
      BY <1>1, SlotsAreFinite
    <2> HIDE DEF P, G, D, held
    <2>4. SumFunctionOnSet(P, D) = Lesser(n, SumFunctionOnSet(held, D))
      BY <1>3, <2>1, <2>3, PortionsSum
    <2>5. SumFunctionOnSet(G, Slots) = SumFunctionOnSet(P, D)
      BY <2>2, <2>3, SumElsewhere
    <2> QED
      BY <1>7, <2>4, <2>5
  <1>9. \A s \in Slots : G[s] \in Int
    BY <1>2, <1>6
  <1> HIDE DEF c, p, held
  <1>10. ASSUME NEW s \in D
         PROVE  /\ p(s) = b[s].quantity => c[s] = Nothing
                /\ p(s) # b[s].quantity =>
                      /\ c[s] \in Pile /\ c[s].item = i /\ c[s].id = b[s].id
                      /\ c[s].quantity = b[s].quantity - p(s)
                /\ p(s) \in Nat /\ b[s].quantity \in Nat
    <2>1. p(s) \in Nat /\ b[s].quantity \in Nat /\ p(s) <= b[s].quantity /\ b[s].quantity <= Cap(i)
          /\ Cap(i) \in Nat
      BY <1>2, <1>6, CapsArePositive DEF CapPositive
    <2>2. CASE p(s) = b[s].quantity
      <3>1. c[s] = Nothing
        BY <1>1, <1>5, <2>2
      <3> QED
        BY <2>1, <2>2, <3>1
    <2>3. CASE p(s) # b[s].quantity
      <3>1. c[s] = [b[s] EXCEPT !.quantity = b[s].quantity - p(s)]
        BY <1>1, <1>5, <2>3
      <3>2. /\ b[s].quantity - p(s) \in Nat \ {0}
            /\ b[s].quantity - p(s) <= Cap(i)
        BY <2>1, <2>3
      <3>3. b[s] \in Pile /\ b[s].item = i
        BY <1>1
      <3> QED
        BY <2>1, <2>3, <3>1, <3>2, <3>3, PileResized
    <2> QED
      BY <2>2, <2>3
  <1>11. \A s \in Slots \ D : c[s] = b[s]
    BY <1>5
  <1>12. c \in Bag
    <2>1. \A s \in Slots : c[s] \in Pile \cup {Nothing}
      BY <1>1, <1>10, <1>11
    <2> QED
      BY <1>5, <2>1 DEF Bag
  <1>13. ASSUME NEW s \in Slots PROVE Held(b, i)[s] = Held(c, i)[s] + G[s]
    <2>1. CASE s \in D
      <3>1. Held(b, i)[s] = b[s].quantity
        BY <1>1, <2>1, HeldIs
      <3>2. G[s] = p(s) /\ p(s) \in Nat /\ b[s].quantity \in Nat
        BY <1>10, <2>1
      <3>3. CASE p(s) = b[s].quantity
        <4>1. c[s] = Nothing
          BY <1>10, <2>1, <3>3
        <4>2. Held(c, i)[s] = 0
          BY <1>12, <4>1, HeldIs
        <4> QED
          BY <3>1, <3>2, <3>3, <4>2
      <3>4. CASE p(s) # b[s].quantity
        <4>1. c[s] \in Pile /\ c[s].item = i /\ c[s].quantity = b[s].quantity - p(s)
          BY <1>10, <2>1, <3>4
        <4>2. c[s] # Nothing
          BY <4>1, NothingIsNoPile
        <4>3. Held(c, i)[s] = b[s].quantity - p(s)
          BY <1>12, <4>1, <4>2, HeldIs
        <4> HIDE DEF G
        <4> QED
          BY <3>1, <3>2, <4>3
      <3> QED
        BY <3>3, <3>4
    <2>2. CASE s \notin D
      <3>1. c[s] = b[s] /\ (b[s] = Nothing \/ b[s].item # i)
        BY <1>1, <1>11, <2>2
      <3>2. Held(b, i)[s] = 0 /\ Held(c, i)[s] = 0
        BY <1>12, <3>1, HeldIs
      <3>3. G[s] = 0
        BY <2>2
      <3> QED
        BY <3>2, <3>3
    <2> QED
      BY <2>1, <2>2
  <1>14. ASSUME n <= count_item(b, i) PROVE count_item(c, i) = count_item(b, i) - n
    <2> DEFINE f == Held(b, i)
               h == Held(c, i)
    <2>1. \A s \in Slots : h[s] \in Int /\ G[s] \in Int /\ f[s] = h[s] + G[s]
      <3>1. \A s \in Slots : h[s] \in Int
        BY <1>12, HeldIs
      <3> HIDE DEF G
      <3> QED
        BY <1>9, <1>13, <3>1
    <2> HIDE DEF f, h, G
    <2>2. SumFunctionOnSet(f, Slots) = SumFunctionOnSet(h, Slots) + SumFunctionOnSet(G, Slots)
      BY <2>1, SlotsAreFinite, SumPlus
    <2>3. /\ count_item(b, i) = SumFunctionOnSet(f, Slots) /\ count_item(b, i) \in Nat
          /\ count_item(c, i) = SumFunctionOnSet(h, Slots) /\ count_item(c, i) \in Nat
      BY <1>12, CountIs DEF f, h
    <2> QED
      BY <1>8, <1>14, <2>2, <2>3 DEF Lesser
  <1>15. ASSUME NEW j, j # i PROVE count_item(c, j) = count_item(b, j)
    <2> DEFINE f == Held(b, j)
               h == Held(c, j)
    <2>1. ASSUME NEW s \in Slots PROVE f[s] \in Int /\ f[s] = h[s]
      <3>1. f[s] \in Nat
        BY HeldIs
      <3>2. CASE s \in D
        <4>1. f[s] = 0
          BY <1>1, <1>15, <3>2, HeldIs
        <4>2. c[s] = Nothing \/ c[s].item = i
          BY <1>10, <3>2
        <4>3. h[s] = 0
          BY <1>12, <1>15, <4>2, HeldIs
        <4> QED
          BY <4>1, <4>3
      <3>3. CASE s \notin D
        <4>1. c[s] = b[s]
          BY <1>11, <3>3
        <4>2. s \in Holding(b, j) <=> s \in Holding(c, j)
          BY <1>12, <4>1, BagParts
        <4> QED
          BY <3>1, <4>1, <4>2 DEF Held
      <3> QED
        BY <3>2, <3>3
    <2>2. count_item(b, j) = SumFunctionOnSet(f, Slots) /\ count_item(c, j) = SumFunctionOnSet(h, Slots)
      BY <1>12, CountIs
    <2> HIDE DEF f, h
    <2>3. SumFunctionOnSet(f, Slots) = SumFunctionOnSet(h, Slots)
      BY <2>1, SlotsAreFinite, SumSame
    <2> QED
      BY <2>2, <2>3
  <1>16. \A s \in Slots : c[s] # Nothing => b[s] # Nothing /\ c[s].id = b[s].id
    BY <1>1, <1>10, <1>11
  <1> QED
    BY <1>12, <1>14, <1>15, <1>16 DEF c

-----------------------------------------------------------------------------
(* 3. Worth.                                                               *)

(* What a bag is worth, in pieces of the yield.                            *)
Worth(b) == count_item(b, Yield) + Recipe.need * count_item(b, Recipe.output)

RecipeAssumed ==
    /\ Recipe.output \in Items /\ Yield \in Items /\ Recipe.output # Yield
    /\ Recipe.ingredient = Yield /\ Recipe.need \in Nat \ {0}

(* What is assumed of the recipe.                                          *)
LEMMA RecipeIs == RecipeAssumed
  BY GatheringAssumption, InventoryAssumption DEF RecipeAssumed

(* A worth is a number of pieces.                                          *)
LEMMA WorthIsNat ==
    ASSUME NEW b \in Bag
    PROVE  Worth(b) \in Nat
  <1>1. /\ count_item(b, Yield) \in Nat /\ count_item(b, Recipe.output) \in Nat
        /\ Recipe.need \in Nat
    BY CountIs, RecipeIs DEF RecipeAssumed
  <1> QED
    BY <1>1 DEF Worth

(* Pieces that fit are worth what they are.                                *)
LEMMA WorthAfterHarvest ==
    ASSUME NEW b \in Bag, NEW n \in Nat, n <= space_for(b, Yield)
    PROVE  /\ add_stackable(b, Yield, n, 1) \in Bag
           /\ Worth(add_stackable(b, Yield, n, 1)) = Worth(b) + n
  <1> DEFINE c == add_stackable(b, Yield, n, 1)
  <1>1. Yield \in Items /\ Recipe.output # Yield /\ Recipe.need \in Nat
    BY RecipeIs DEF RecipeAssumed
  <1>2. c \in Bag
    BY <1>1, AddStackableSlots
  <1>3. /\ count_item(c, Yield) = count_item(b, Yield) + n
        /\ count_item(c, Recipe.output) = count_item(b, Recipe.output)
    BY <1>1, AddStackableCounts
  <1>4. count_item(b, Yield) \in Nat /\ count_item(b, Recipe.output) \in Nat
    BY CountIs
  <1> HIDE DEF c
  <1>5. Worth(c) = Worth(b) + n
    BY <1>1, <1>3, <1>4 DEF Worth
  <1> QED
    BY <1>2, <1>5 DEF c

(* A craft that is previewed makes and loses nothing.                      *)
LEMMA WorthAfterCraft ==
    ASSUME NEW b \in Bag, NEW n \in Nat, preview_craft(b, Recipe, n)
    PROVE  /\ apply_craft(b, Recipe, n, 1) \in Bag
           /\ Worth(apply_craft(b, Recipe, n, 1)) = Worth(b)
  <1> DEFINE o == Recipe.output
             k == Recipe.need * n
             d == remove_item_amount(b, Yield, k)
             c == add_stackable(d, o, n, 1)
  <1>1. /\ o \in Items /\ Yield \in Items /\ o # Yield
        /\ Recipe.ingredient = Yield /\ Recipe.need \in Nat
    BY RecipeIs DEF RecipeAssumed
  <1>2. k \in Nat
    BY <1>1
  <1>3. count_item(b, Yield) >= k /\ space_for(d, o) >= n /\ c = apply_craft(b, Recipe, n, 1)
    BY <1>1 DEF preview_craft, apply_craft
  <1>4. count_item(b, Yield) \in Nat /\ count_item(b, o) \in Nat
    BY CountIs
  <1> HIDE DEF k
  <1>5. /\ d \in Bag
        /\ count_item(d, Yield) = count_item(b, Yield) - k
        /\ count_item(d, o) = count_item(b, o)
    <2>1. k <= count_item(b, Yield)
      BY <1>2, <1>3, <1>4
    <2> QED
      BY <1>1, <1>2, <2>1, RemoveIs
  <1> HIDE DEF d
  <1>6. c \in Bag
    BY <1>1, <1>5, AddStackableSlots
  <1>7. n <= space_for(d, o)
    <2>1. space_for(d, o) \in Nat
      BY <1>1, <1>5, SpaceIs
    <2> QED
      BY <1>3, <2>1
  <1>8. /\ count_item(c, o) = count_item(d, o) + n
        /\ count_item(c, Yield) = count_item(d, Yield)
    BY <1>1, <1>5, <1>7, AddStackableCounts
  <1>9. Worth(c) = (count_item(b, Yield) - k) + Recipe.need * (count_item(b, o) + n)
    BY <1>5, <1>8 DEF Worth
  <1>10. Recipe.need * (count_item(b, o) + n) = Recipe.need * count_item(b, o) + k
    <2> DEFINE x == count_item(b, o)
               r == Recipe.need
    <2>1. x \in Nat /\ r \in Nat /\ n \in Nat
      BY <1>1, <1>4
    <2> HIDE DEF x, r, o
    <2>2. r * (x + n) = r * x + r * n
      BY <2>1
    <2> QED
      BY <2>2 DEF x, r, k
  <1>11. Recipe.need * count_item(b, o) \in Nat
    BY <1>1, <1>4
  <1>12. Worth(c) = Worth(b)
    <2> HIDE DEF c
    <2>1. Worth(b) = count_item(b, Yield) + Recipe.need * count_item(b, o)
      BY DEF Worth
    <2> HIDE DEF o
    <2> QED
      BY <1>2, <1>4, <1>9, <1>10, <1>11, <2>1
  <1> HIDE DEF c
  <1> QED
    BY <1>3, <1>6, <1>12

-----------------------------------------------------------------------------
(* 4. The rows of the nodes.                                               *)

(* A row that is scheduled as RegrowthScheduled asks.                      *)
GoodRow ==
    {r \in NodeRow : r.due = IF r.pieces = MAX_PIECES THEN Far
                             ELSE Max({REGEN_INTERVAL - r.age, 0})}

ConstantsAssumed ==
    /\ IsFiniteSet(Characters) /\ IsFiniteSet(Nodes)
    /\ MAX_PIECES \in Nat \ {0} /\ REGEN_INTERVAL \in Nat \ {0} /\ REGEN_AMOUNT \in Nat \ {0}
    /\ YIELD_AMOUNT \in Nat \ {0} /\ CraftTime \in Nat \ {0} /\ MAX_STEP \in Nat \ {0}
    /\ MaxBonus \in Nat /\ GatherTimes \subseteq Nat \ {0} /\ Quantities \subseteq Nat
    /\ Far \notin Nat /\ MaxLag \in Nat

(* What is assumed of the constants.                                       *)
LEMMA ConstantsAre == ConstantsAssumed
  BY GatheringAssumption DEF ConstantsAssumed

(* How long until the next regrowth.                                       *)
LEMMA WaitIs ==
    ASSUME NEW age \in Nat
    PROVE  /\ Max({REGEN_INTERVAL - age, 0}) = (IF REGEN_INTERVAL - age <= 0 THEN 0 ELSE REGEN_INTERVAL - age)
           /\ Max({REGEN_INTERVAL - age, 0}) \in 0..REGEN_INTERVAL
  <1> DEFINE k == REGEN_INTERVAL - age
  <1>1. k \in Int /\ REGEN_INTERVAL \in Nat /\ k <= REGEN_INTERVAL
    BY ConstantsAre DEF ConstantsAssumed
  <1> HIDE DEF k
  <1>2. Max({k, 0}) = IF k <= 0 THEN 0 ELSE k
    BY <1>1, MaxOfTwo
  <1>3. Max({k, 0}) \in 0..REGEN_INTERVAL
    BY <1>1, <1>2
  <1> QED
    BY <1>2, <1>3 DEF k

(* What a good row is made of.                                             *)
LEMMA RowParts ==
    ASSUME NEW r \in GoodRow
    PROVE  /\ r \in NodeRow /\ r.pieces \in Nat /\ r.pieces <= MAX_PIECES /\ r.age \in Nat
  <1>1. MAX_PIECES \in Nat
    BY ConstantsAre DEF ConstantsAssumed
  <1> QED
    BY <1>1 DEF GoodRow, NodeRow

(* When a good row is due.                                                 *)
LEMMA DueIs ==
    ASSUME NEW r \in GoodRow
    PROVE  r.due = IF r.pieces = MAX_PIECES THEN Far ELSE Max({REGEN_INTERVAL - r.age, 0})
  BY DEF GoodRow

(* A row is good with the time next_regen_at gives it.                     *)
LEMMA RowMade ==
    ASSUME NEW pieces \in 0..MAX_PIECES, NEW age \in Nat, NEW due,
           due = IF pieces = MAX_PIECES THEN Far ELSE Max({REGEN_INTERVAL - age, 0})
    PROVE  [pieces |-> pieces, age |-> age, due |-> due] \in GoodRow
  <1>1. due \in 0..REGEN_INTERVAL \cup {Far}
    BY WaitIs
  <1> QED
    BY <1>1 DEF GoodRow, NodeRow

(* next_regen_at schedules as RegrowthScheduled asks.                      *)
LEMMA NextRegenIs ==
    ASSUME NEW pieces \in 0..MAX_PIECES, NEW age \in Nat
    PROVE  next_regen_at(age, pieces)
             = IF pieces = MAX_PIECES THEN Far ELSE Max({REGEN_INTERVAL - age, 0})
  <1>1. MAX_PIECES \in Nat
    BY ConstantsAre DEF ConstantsAssumed
  <1>2. pieces >= MAX_PIECES <=> pieces = MAX_PIECES
    BY <1>1
  <1> QED
    BY <1>2 DEF next_regen_at

(* A node that catches up grows and stays scheduled.                       *)
LEMMA RegrownIs ==
    ASSUME NEW r \in GoodRow
    PROVE  /\ persist_regen(r) \in GoodRow
           /\ persist_regen(r).pieces \in r.pieces..MAX_PIECES
  <1>0. MAX_PIECES \in Nat /\ REGEN_INTERVAL \in Nat \ {0} /\ REGEN_AMOUNT \in Nat
    BY ConstantsAre DEF ConstantsAssumed
  <1>1. r.pieces \in Nat /\ r.pieces <= MAX_PIECES /\ r.age \in Nat
    BY RowParts
  <1>2. CASE r.pieces >= MAX_PIECES
    <2>1. r.pieces = MAX_PIECES /\ r.due = Far
      <3>1. r.pieces = MAX_PIECES
        BY <1>0, <1>1, <1>2
      <3> QED
        BY <3>1, DueIs
    <2>2. persist_regen(r) = [r EXCEPT !.due = r.due]
      BY <1>2, <2>1 DEF persist_regen
    <2>3. [r EXCEPT !.due = r.due] = r
      BY DEF GoodRow, NodeRow
    <2> QED
      BY <1>0, <1>1, <2>2, <2>3
  <1>3. CASE ~ (r.pieces >= MAX_PIECES)
    <2> DEFINE grown == r.pieces + (r.age \div REGEN_INTERVAL) * REGEN_AMOUNT
               p == Min({grown, MAX_PIECES})
               a == r.age % REGEN_INTERVAL
    <2>1. r.age \div REGEN_INTERVAL \in Nat /\ a \in Nat
      BY <1>0, <1>1
    <2>2. (r.age \div REGEN_INTERVAL) * REGEN_AMOUNT \in Nat
      BY <1>0, <1>1, <2>1
    <2>3. grown \in Nat /\ r.pieces <= grown
      BY <1>0, <1>1, <2>2
    <2> HIDE DEF grown
    <2>4. p = IF grown <= MAX_PIECES THEN grown ELSE MAX_PIECES
      BY <1>0, <1>1, <2>3, MinOfTwo
    <2>5. p \in 0..MAX_PIECES /\ p \in r.pieces..MAX_PIECES
      BY <1>0, <1>1, <2>3, <2>4
    <2>6. persist_regen(r) = [pieces |-> p, age |-> a, due |-> next_regen_at(a, p)]
      BY <1>3 DEF persist_regen, grown
    <2> HIDE DEF p, a
    <2>7. [pieces |-> p, age |-> a, due |-> next_regen_at(a, p)] \in GoodRow
      BY <2>1, <2>5, NextRegenIs, RowMade
    <2> QED
      BY <2>5, <2>6, <2>7
  <1> QED
    BY <1>2, <1>3

(* A node that is gathered from stays scheduled.                           *)
LEMMA HarvestedIs ==
    ASSUME NEW r \in GoodRow, NEW n \in Nat \ {0}, n <= r.pieces
    PROVE  /\ persist_after_harvest(r, r.pieces - n) \in GoodRow
           /\ persist_after_harvest(r, r.pieces - n).pieces = r.pieces - n
  <1> DEFINE p == r.pieces - n
  <1>1. /\ r.pieces \in Nat /\ r.pieces <= MAX_PIECES /\ r.age \in Nat /\ MAX_PIECES \in Nat
    BY RowParts, ConstantsAre DEF ConstantsAssumed
  <1>2. p \in 0..MAX_PIECES /\ p # MAX_PIECES
    BY <1>1
  <1> HIDE DEF p
  <1>3. CASE r.pieces >= MAX_PIECES
    <2>1. persist_after_harvest(r, p) = [pieces |-> p, age |-> 0, due |-> next_regen_at(0, p)]
      BY <1>3 DEF persist_after_harvest
    <2>2. [pieces |-> p, age |-> 0, due |-> next_regen_at(0, p)] \in GoodRow
      BY <1>2, NextRegenIs, RowMade
    <2> QED
      BY <2>1, <2>2 DEF p
  <1>4. CASE ~ (r.pieces >= MAX_PIECES)
    <2>1. r.due = Max({REGEN_INTERVAL - r.age, 0})
      BY <1>1, <1>4, DueIs
    <2>2. persist_after_harvest(r, p) = [pieces |-> p, age |-> r.age, due |-> r.due]
      BY <1>4 DEF persist_after_harvest, GoodRow, NodeRow
    <2>3. [pieces |-> p, age |-> r.age, due |-> r.due] \in GoodRow
      BY <1>1, <1>2, <2>1, RowMade
    <2> QED
      BY <2>2, <2>3 DEF p
  <1> QED
    BY <1>3, <1>4

(* What a completed channel takes is there, and fits.                      *)
LEMMA GrantedIs ==
    ASSUME NEW r \in GoodRow, NEW space \in Nat, NEW bonus \in Nat
    PROVE  /\ resolve_gather(r, space, bonus) \in Nat
           /\ resolve_gather(r, space, bonus) <= r.pieces
           /\ resolve_gather(r, space, bonus) <= space
  <1> DEFINE S == {YIELD_AMOUNT + bonus, r.pieces, space}
  <1>1. r.pieces \in Nat /\ YIELD_AMOUNT \in Nat
    BY RowParts, ConstantsAre DEF ConstantsAssumed
  <1>2. S \in SUBSET Int /\ S \subseteq Nat /\ S # {}
    BY <1>1
  <1>3. IsFiniteSet(S)
    <2>1. IsFiniteSet((({} \cup {YIELD_AMOUNT + bonus}) \cup {r.pieces}) \cup {space})
      BY FS_EmptySet, FS_AddElement
    <2>2. S = (({} \cup {YIELD_AMOUNT + bonus}) \cup {r.pieces}) \cup {space}
      OBVIOUS
    <2> QED
      BY <2>1, <2>2
  <1>4. r.pieces \in S /\ space \in S /\ resolve_gather(r, space, bonus) = Min(S)
    BY DEF resolve_gather
  <1> HIDE DEF S
  <1>5. Min(S) \in S /\ \A x \in S : Min(S) <= x
    BY <1>2, <1>3, Extremes
  <1> QED
    BY <1>2, <1>4, <1>5

-----------------------------------------------------------------------------
(* 5. The tables of a tick.                                                *)

(* The tables a tick works on.                                             *)
World ==
    [bag : [Characters -> Bag], node : [Nodes -> GoodRow],
     gather : [Characters -> GatherSession \cup {None}],
     craft : [Characters -> CraftSession \cup {None}]]

Stock(rows) == [n \in Nodes |-> rows[n].pieces]
Worths(bags) == [c \in Characters |-> Worth(bags[c])]

(* All there is in some tables, in pieces of the yield.                    *)
Total(w) ==
    SumFunctionOnSet(Stock(w.node), Nodes) + SumFunctionOnSet(Worths(w.bag), Characters)

(* The sums exist.                                                         *)
LEMMA StockIsNat ==
    ASSUME NEW rows \in [Nodes -> GoodRow]
    PROVE  /\ \A n \in Nodes : Stock(rows)[n] = rows[n].pieces /\ Stock(rows)[n] \in Nat
           /\ SumFunctionOnSet(Stock(rows), Nodes) \in Nat
  <1>1. \A n \in Nodes : Stock(rows)[n] = rows[n].pieces /\ Stock(rows)[n] \in Nat
    BY RowParts DEF Stock
  <1>2. IsFiniteSet(Nodes)
    BY ConstantsAre DEF ConstantsAssumed
  <1>3. SumFunctionOnSet(Stock(rows), Nodes) \in Nat
    BY <1>1, <1>2, SumNat
  <1> QED
    BY <1>1, <1>3

(* The bags sum to a number of pieces.                                     *)
LEMMA WorthsAreNat ==
    ASSUME NEW bags \in [Characters -> Bag]
    PROVE  /\ \A c \in Characters : Worths(bags)[c] = Worth(bags[c]) /\ Worths(bags)[c] \in Nat
           /\ SumFunctionOnSet(Worths(bags), Characters) \in Nat
  <1>1. \A c \in Characters : Worths(bags)[c] = Worth(bags[c]) /\ Worths(bags)[c] \in Nat
    BY WorthIsNat DEF Worths
  <1>2. IsFiniteSet(Characters)
    BY ConstantsAre DEF ConstantsAssumed
  <1>3. SumFunctionOnSet(Worths(bags), Characters) \in Nat
    BY <1>1, <1>2, SumNat
  <1> QED
    BY <1>1, <1>3

(* One row, or one bag, changes.                                           *)
LEMMA StockAfter ==
    ASSUME NEW rows \in [Nodes -> GoodRow], NEW n \in Nodes, NEW r \in GoodRow
    PROVE  /\ [rows EXCEPT ![n] = r] \in [Nodes -> GoodRow]
           /\ SumFunctionOnSet(Stock([rows EXCEPT ![n] = r]), Nodes)
                = SumFunctionOnSet(Stock(rows), Nodes) - rows[n].pieces + r.pieces
  <1> DEFINE next == [rows EXCEPT ![n] = r]
             f == Stock(rows)
             g == Stock(next)
  <1>1. next \in [Nodes -> GoodRow] /\ next[n] = r /\ \A m \in Nodes \ {n} : next[m] = rows[m]
    OBVIOUS
  <1> HIDE DEF next
  <1>a. \A m \in Nodes : f[m] \in Int /\ g[m] \in Int
    BY <1>1, StockIsNat
  <1>b. \A m \in Nodes \ {n} : f[m] = g[m]
    BY <1>1, StockIsNat
  <1>2. f[n] = rows[n].pieces /\ g[n] = r.pieces
    BY <1>1, StockIsNat
  <1>3. IsFiniteSet(Nodes)
    BY ConstantsAre DEF ConstantsAssumed
  <1> HIDE DEF f, g
  <1>4. SumFunctionOnSet(g, Nodes) = SumFunctionOnSet(f, Nodes) - f[n] + g[n]
    <2>1. DifferAt(n, f, g, Nodes)
      BY <1>a, <1>b DEF DifferAt
    <2>2. SumsDifferAt(n, f, g, Nodes)
      BY <1>3, <2>1, SumOneChanged
    <2> QED
      BY <2>2 DEF SumsDifferAt
  <1>5. SumFunctionOnSet(g, Nodes) = SumFunctionOnSet(f, Nodes) - rows[n].pieces + r.pieces
    BY <1>a, <1>2, <1>4
  <1> QED
    BY <1>1, <1>5 DEF next, f, g

(* One bag changes.                                                        *)
LEMMA WorthsAfter ==
    ASSUME NEW bags \in [Characters -> Bag], NEW c \in Characters, NEW b \in Bag
    PROVE  /\ [bags EXCEPT ![c] = b] \in [Characters -> Bag]
           /\ SumFunctionOnSet(Worths([bags EXCEPT ![c] = b]), Characters)
                = SumFunctionOnSet(Worths(bags), Characters) - Worth(bags[c]) + Worth(b)
  <1> DEFINE next == [bags EXCEPT ![c] = b]
             f == Worths(bags)
             g == Worths(next)
  <1>1. next \in [Characters -> Bag] /\ next[c] = b /\ \A d \in Characters \ {c} : next[d] = bags[d]
    OBVIOUS
  <1> HIDE DEF next
  <1>a. \A d \in Characters : f[d] \in Int /\ g[d] \in Int
    BY <1>1, WorthsAreNat
  <1>b. \A d \in Characters \ {c} : f[d] = g[d]
    BY <1>1, WorthsAreNat
  <1>2. f[c] = Worth(bags[c]) /\ g[c] = Worth(b)
    BY <1>1, WorthsAreNat
  <1>3. IsFiniteSet(Characters)
    BY ConstantsAre DEF ConstantsAssumed
  <1> HIDE DEF f, g
  <1>4. SumFunctionOnSet(g, Characters) = SumFunctionOnSet(f, Characters) - f[c] + g[c]
    <2>1. DifferAt(c, f, g, Characters)
      BY <1>a, <1>b DEF DifferAt
    <2>2. SumsDifferAt(c, f, g, Characters)
      BY <1>3, <2>1, SumOneChanged
    <2> QED
      BY <2>2 DEF SumsDifferAt
  <1>5. SumFunctionOnSet(g, Characters) = SumFunctionOnSet(f, Characters) - Worth(bags[c]) + Worth(b)
    BY <1>a, <1>2, <1>4
  <1> QED
    BY <1>1, <1>5 DEF next, f, g

(* A session in hand.                                                      *)
LEMMA GatherParts ==
    ASSUME NEW g \in GatherSession
    PROVE  /\ g.node \in Nodes /\ g.left \in Nat \ {0} /\ g.strayed \in BOOLEAN
           /\ \A k \in Nat : k < g.left => [g EXCEPT !.left = g.left - k] \in GatherSession
           /\ \A time \in GatherTimes : [g EXCEPT !.left = time] \in GatherSession
           /\ [g EXCEPT !.strayed = TRUE] \in GatherSession
  <1>1. GatherTimes \subseteq Nat \ {0}
    BY ConstantsAre DEF ConstantsAssumed
  <1>2. g.node \in Nodes /\ g.strayed \in BOOLEAN
    BY DEF GatherSession
  <1>3. PICK time \in GatherTimes : g.left \in 1..time
    BY DEF GatherSession
  <1>4. g.left \in Nat \ {0} /\ time \in Nat
    BY <1>1, <1>3
  <1>5. ASSUME NEW k \in Nat, k < g.left PROVE [g EXCEPT !.left = g.left - k] \in GatherSession
    <2>1. g.left - k \in 1..time
      BY <1>3, <1>4, <1>5
    <2> QED
      BY <2>1 DEF GatherSession
  <1>6. ASSUME NEW t \in GatherTimes PROVE [g EXCEPT !.left = t] \in GatherSession
    <2>1. t \in 1..t
      BY <1>1
    <2> QED
      BY <2>1 DEF GatherSession
  <1>7. [g EXCEPT !.strayed = TRUE] \in GatherSession
    BY DEF GatherSession
  <1> QED
    BY <1>2, <1>4, <1>5, <1>6, <1>7

(* A craft in hand.                                                        *)
LEMMA CraftParts ==
    ASSUME NEW k \in CraftSession
    PROVE  /\ k.quantity \in Nat /\ k.left \in Nat \ {0} /\ k.strayed \in BOOLEAN
           /\ \A d \in Nat : d < k.left => [k EXCEPT !.left = k.left - d] \in CraftSession
           /\ [k EXCEPT !.strayed = TRUE] \in CraftSession
  <1>1. Quantities \subseteq Nat /\ CraftTime \in Nat
    BY ConstantsAre DEF ConstantsAssumed
  <1>2. /\ k \in [quantity : Quantities, left : Nat, strayed : BOOLEAN]
        /\ k.left \in 1..(CraftTime * k.quantity)
    BY DEF CraftSession
  <1>3. k.quantity \in Nat /\ CraftTime * k.quantity \in Nat
    <2>1. k.quantity \in Quantities
      BY <1>2
    <2>2. k.quantity \in Nat
      BY <1>1, <2>1
    <2> QED
      BY <1>1, <2>2
  <1> DEFINE m == CraftTime * k.quantity
  <1>4. k.left \in Nat \ {0} /\ m \in Nat /\ k.left <= m
    BY <1>2, <1>3
  <1>5. ASSUME NEW d \in Nat, d < k.left PROVE [k EXCEPT !.left = k.left - d] \in CraftSession
    <2> DEFINE h == [k EXCEPT !.left = k.left - d]
    <2> HIDE DEF m
    <2>1. k.left - d \in Nat /\ k.left - d \in 1..m
      BY <1>4, <1>5
    <2>2. /\ h \in [quantity : Quantities, left : Nat, strayed : BOOLEAN]
          /\ h.left = k.left - d /\ h.quantity = k.quantity
      BY <1>2, <2>1
    <2> HIDE DEF h
    <2>3. h.left \in 1..(CraftTime * h.quantity)
      BY <2>1, <2>2 DEF m
    <2>4. h \in CraftSession
      BY <2>2, <2>3 DEF CraftSession
    <2> QED
      BY <2>4 DEF h
  <1>6. [k EXCEPT !.strayed = TRUE] \in CraftSession
    <2> DEFINE h == [k EXCEPT !.strayed = TRUE]
    <2>1. /\ h \in [quantity : Quantities, left : Nat, strayed : BOOLEAN]
          /\ h.left = k.left /\ h.quantity = k.quantity
      BY <1>2
    <2> HIDE DEF h
    <2>2. h \in CraftSession
      BY <1>2, <2>1 DEF CraftSession
    <2> QED
      BY <2>2 DEF h
  <1> QED
    BY <1>2, <1>3, <1>4, <1>5, <1>6

-----------------------------------------------------------------------------
(* 6. One channel.                                                         *)

(* What a world is made of.                                                *)
LEMMA WorldParts ==
    ASSUME NEW w \in World
    PROVE  /\ w.bag \in [Characters -> Bag] /\ w.node \in [Nodes -> GoodRow]
           /\ w.gather \in [Characters -> GatherSession \cup {None}]
           /\ w.craft \in [Characters -> CraftSession \cup {None}]
  BY DEF World

(* One channel of c goes on or ends: y is x with what it did.              *)
Worked(x, y, c) ==
    /\ y \in World
    /\ Total(y) = Total(x)
    /\ \A d \in Characters \ {c} : y.gather[d] = x.gather[d] /\ y.craft[d] = x.craft[d]

GatherWorked(x, y, c) == Worked(x, y, c) /\ y.craft = x.craft

CraftWorked(x, y, c) ==
    Worked(x, y, c) /\ y.gather = x.gather /\ y.node = x.node

(* Only a gather changes.                                                  *)
LEMMA GatherReplaced ==
    ASSUME NEW x \in World, NEW c \in Characters, NEW g \in GatherSession \cup {None}
    PROVE  GatherWorked(x, [x EXCEPT !.gather[c] = g], c)
  <1> DEFINE y == [x EXCEPT !.gather[c] = g]
  <1>1. /\ y \in World /\ y.bag = x.bag /\ y.node = x.node /\ y.craft = x.craft
        /\ y.gather = [x.gather EXCEPT ![c] = g]
    BY DEF World
  <1>2. \A d \in Characters \ {c} : y.gather[d] = x.gather[d]
    BY <1>1, WorldParts
  <1> HIDE DEF y
  <1>3. GatherWorked(x, y, c)
    BY <1>1, <1>2 DEF GatherWorked, Worked, Total
  <1> QED
    BY <1>3 DEF y

(* Only a craft changes.                                                   *)
LEMMA CraftReplaced ==
    ASSUME NEW x \in World, NEW c \in Characters, NEW k \in CraftSession \cup {None}
    PROVE  CraftWorked(x, [x EXCEPT !.craft[c] = k], c)
  <1> DEFINE y == [x EXCEPT !.craft[c] = k]
  <1>1. /\ y \in World /\ y.bag = x.bag /\ y.node = x.node /\ y.gather = x.gather
        /\ y.craft = [x.craft EXCEPT ![c] = k]
    BY DEF World
  <1>2. \A d \in Characters \ {c} : y.craft[d] = x.craft[d]
    BY <1>1, WorldParts
  <1> HIDE DEF y
  <1>3. CraftWorked(x, y, c)
    BY <1>1, <1>2 DEF CraftWorked, Worked, Total
  <1> QED
    BY <1>3 DEF y

(* What a harvest moves, the bag gains and the node loses.                 *)
LEMMA HarvestBalances ==
    ASSUME NEW x \in World, NEW c \in Characters, NEW n \in Nodes, NEW k \in Nat \ {0},
           k <= x.node[n].pieces, k <= space_for(x.bag[c], Yield),
           NEW g \in GatherSession \cup {None}
    PROVE  GatherWorked(x, [x EXCEPT
                !.bag[c] = add_stackable(x.bag[c], Yield, k, 1),
                !.node[n] = persist_after_harvest(x.node[n], x.node[n].pieces - k),
                !.gather[c] = g], c)
  <1> DEFINE b == add_stackable(x.bag[c], Yield, k, 1)
             r == persist_after_harvest(x.node[n], x.node[n].pieces - k)
             bags == [x.bag EXCEPT ![c] = b]
             rows == [x.node EXCEPT ![n] = r]
             y == [x EXCEPT !.bag[c] = b, !.node[n] = r, !.gather[c] = g]
  <1>1. /\ x.bag \in [Characters -> Bag] /\ x.node \in [Nodes -> GoodRow]
        /\ x.bag[c] \in Bag /\ x.node[n] \in GoodRow
        /\ x.gather \in [Characters -> GatherSession \cup {None}]
    BY WorldParts
  <1>2. b \in Bag /\ Worth(b) = Worth(x.bag[c]) + k
    BY <1>1, WorthAfterHarvest
  <1>3. r \in GoodRow /\ r.pieces = x.node[n].pieces - k
    BY <1>1, HarvestedIs
  <1> HIDE DEF b, r
  <1>4. /\ bags \in [Characters -> Bag]
        /\ SumFunctionOnSet(Worths(bags), Characters)
             = SumFunctionOnSet(Worths(x.bag), Characters) - Worth(x.bag[c]) + Worth(b)
    BY <1>1, <1>2, WorthsAfter
  <1>5. /\ rows \in [Nodes -> GoodRow]
        /\ SumFunctionOnSet(Stock(rows), Nodes)
             = SumFunctionOnSet(Stock(x.node), Nodes) - x.node[n].pieces + r.pieces
    BY <1>1, <1>3, StockAfter
  <1>6. /\ y.bag = bags /\ y.node = rows /\ y.craft = x.craft
        /\ y.gather = [x.gather EXCEPT ![c] = g]
    BY DEF World
  <1>7. y \in World
    BY <1>2, <1>3 DEF World
  <1>8. \A d \in Characters \ {c} : y.gather[d] = x.gather[d]
    BY <1>1, <1>6
  <1>9. /\ SumFunctionOnSet(Worths(x.bag), Characters) \in Nat
        /\ SumFunctionOnSet(Stock(x.node), Nodes) \in Nat
        /\ Worth(x.bag[c]) \in Nat /\ x.node[n].pieces \in Nat
    BY <1>1, WorthsAreNat, StockIsNat, WorthIsNat, RowParts
  <1> HIDE DEF y, bags, rows
  <1>10. Total(y) = Total(x)
    <2> DEFINE p == SumFunctionOnSet(Worths(x.bag), Characters)
               q == SumFunctionOnSet(Stock(x.node), Nodes)
    <2>1. Total(x) = q + p
      BY DEF Total
    <2>2. Total(y) = SumFunctionOnSet(Stock(rows), Nodes) + SumFunctionOnSet(Worths(bags), Characters)
      BY <1>6 DEF Total
    <2>3. SumFunctionOnSet(Worths(bags), Characters) = p + k
      BY <1>2, <1>4, <1>9
    <2>4. SumFunctionOnSet(Stock(rows), Nodes) = q - k
      BY <1>3, <1>5, <1>9
    <2>5. p \in Nat /\ q \in Nat
      BY <1>9
    <2> HIDE DEF p, q
    <2> QED
      BY <2>1, <2>2, <2>3, <2>4, <2>5
  <1>11. GatherWorked(x, y, c)
    BY <1>6, <1>7, <1>8, <1>10 DEF GatherWorked, Worked
  <1> QED
    BY <1>11 DEF y, b, r

(* A gather that is advanced.                                              *)
LEMMA GatherAdvances ==
    ASSUME NEW x \in World, NEW c \in Characters, x.gather[c] # None, NEW dt \in Nat,
           NEW walking, NEW bonus \in Nat, NEW time \in GatherTimes
    PROVE  GatherWorked(x, advance_gather(x, c, dt, walking, bonus, time), c)
  <1> DEFINE g == x.gather[c]
             n == g.node
             y == advance_gather(x, c, dt, walking, bonus, time)
  <1>1. g \in GatherSession
    BY WorldParts
  <1>2. n \in Nodes /\ g.left \in Nat \ {0}
    BY <1>1, GatherParts
  <1>3. x.node[n] \in GoodRow /\ x.bag[c] \in Bag
    BY <1>2, WorldParts
  <1>4. CASE Interrupted(c, g, walking) \/ x.node[n].pieces = 0
    <2>1. y = [x EXCEPT !.gather[c] = None]
      BY <1>4 DEF advance_gather
    <2> QED
      BY <2>1, GatherReplaced
  <1>5. CASE ~ (Interrupted(c, g, walking) \/ x.node[n].pieces = 0) /\ dt < g.left
    <2> DEFINE h == [g EXCEPT !.left = g.left - dt]
    <2>1. h \in GatherSession
      BY <1>1, <1>5, GatherParts
    <2>2. y = [x EXCEPT !.gather[c].left = g.left - dt]
      BY <1>5 DEF advance_gather
    <2>3. [x EXCEPT !.gather[c].left = g.left - dt] = [x EXCEPT !.gather[c] = h]
      OBVIOUS
    <2> HIDE DEF h
    <2> QED
      BY <2>1, <2>2, <2>3, GatherReplaced
  <1>6. CASE ~ (Interrupted(c, g, walking) \/ x.node[n].pieces = 0) /\ ~ (dt < g.left)
    <2> DEFINE space == space_for(x.bag[c], Yield)
               k == resolve_gather(x.node[n], space, bonus)
               h == IF x.node[n].pieces - k = 0 \/ space = k THEN None
                    ELSE [x.gather[c] EXCEPT !.left = time]
    <2>1. y = complete_gather(x, c, n, bonus, time)
      BY <1>6 DEF advance_gather
    <2>2. space \in Nat
      BY <1>3, RecipeIs, SpaceIs DEF RecipeAssumed
    <2>3. k \in Nat /\ k <= x.node[n].pieces /\ k <= space
      <3> HIDE DEF space
      <3> QED
        BY <1>3, <2>2, GrantedIs
    <2>4. CASE k = 0
      <3>1. y = [x EXCEPT !.gather[c] = None]
        BY <2>1, <2>4 DEF complete_gather
      <3> QED
        BY <3>1, GatherReplaced
    <2>5. CASE k # 0
      <3>1. h \in GatherSession \cup {None}
        BY <1>1, GatherParts
      <3> DEFINE z == [x EXCEPT
                !.bag[c] = add_stackable(x.bag[c], Yield, k, 1),
                !.node[n] = persist_after_harvest(x.node[n], x.node[n].pieces - k),
                !.gather[c] = h]
      <3>2. y = z
        BY <2>1, <2>5 DEF complete_gather
      <3>3. k \in Nat \ {0} /\ k <= x.node[n].pieces /\ k <= space_for(x.bag[c], Yield)
        BY <2>3, <2>5
      <3>4. GatherWorked(x, z, c)
        <4> HIDE DEF h, k, y, n
        <4> QED
          BY <1>2, <3>1, <3>3, HarvestBalances
      <3> HIDE DEF y, z
      <3> QED
        BY <3>2, <3>4 DEF y
    <2> QED
      BY <2>4, <2>5
  <1> QED
    BY <1>4, <1>5, <1>6

(* A craft that is advanced.                                               *)
LEMMA CraftAdvances ==
    ASSUME NEW x \in World, NEW c \in Characters, x.craft[c] # None, NEW dt \in Nat, NEW walking
    PROVE  CraftWorked(x, advance_craft(x, c, dt, walking), c)
  <1> DEFINE k == x.craft[c]
             y == advance_craft(x, c, dt, walking)
  <1>1. k \in CraftSession
    BY WorldParts
  <1>2. k.quantity \in Nat /\ k.left \in Nat \ {0}
    BY <1>1, CraftParts
  <1>3. x.bag \in [Characters -> Bag] /\ x.bag[c] \in Bag /\ x.craft \in [Characters -> CraftSession \cup {None}]
    BY WorldParts
  <1>4. CASE Interrupted(c, k, walking)
    <2>1. y = [x EXCEPT !.craft[c] = None]
      BY <1>4 DEF advance_craft
    <2> QED
      BY <2>1, CraftReplaced
  <1>5. CASE ~ Interrupted(c, k, walking) /\ dt < k.left
    <2> DEFINE h == [k EXCEPT !.left = k.left - dt]
    <2>1. h \in CraftSession
      BY <1>1, <1>5, CraftParts
    <2>2. y = [x EXCEPT !.craft[c].left = k.left - dt]
      BY <1>5 DEF advance_craft
    <2>3. [x EXCEPT !.craft[c].left = k.left - dt] = [x EXCEPT !.craft[c] = h]
      OBVIOUS
    <2> HIDE DEF h
    <2> QED
      BY <2>1, <2>2, <2>3, CraftReplaced
  <1>6. CASE ~ Interrupted(c, k, walking) /\ ~ (dt < k.left)
    <2> DEFINE q == k.quantity
               b == IF preview_craft(x.bag[c], Recipe, q) THEN apply_craft(x.bag[c], Recipe, q, 1)
                    ELSE x.bag[c]
               bags == [x.bag EXCEPT ![c] = b]
    <2>1. y = [x EXCEPT !.craft[c] = None, !.bag[c] = b]
      BY <1>6 DEF advance_craft, complete_craft
    <2>2. b \in Bag /\ Worth(b) = Worth(x.bag[c])
      <3>1. CASE preview_craft(x.bag[c], Recipe, q)
        BY <1>2, <1>3, <3>1, WorthAfterCraft
      <3>2. CASE ~ preview_craft(x.bag[c], Recipe, q)
        BY <1>3, <3>2
      <3> QED
        BY <3>1, <3>2
    <2> HIDE DEF b
    <2>3. /\ bags \in [Characters -> Bag]
          /\ SumFunctionOnSet(Worths(bags), Characters)
               = SumFunctionOnSet(Worths(x.bag), Characters) - Worth(x.bag[c]) + Worth(b)
      BY <1>3, <2>2, WorthsAfter
    <2>4. /\ y \in World /\ y.bag = bags /\ y.node = x.node /\ y.gather = x.gather
          /\ y.craft = [x.craft EXCEPT ![c] = None]
      <3> DEFINE z == [x EXCEPT !.craft[c] = None, !.bag[c] = b]
      <3>1. /\ z \in World /\ z.bag = bags /\ z.node = x.node /\ z.gather = x.gather
            /\ z.craft = [x.craft EXCEPT ![c] = None]
        BY <2>2 DEF World
      <3> HIDE DEF y, z, bags
      <3> QED
        BY <2>1, <3>1 DEF z
    <2>5. \A d \in Characters \ {c} : y.craft[d] = x.craft[d]
      BY <1>3, <2>4
    <2> HIDE DEF y, bags
    <2>6. Total(y) = Total(x)
      <3>1. SumFunctionOnSet(Worths(x.bag), Characters) \in Nat /\ Worth(x.bag[c]) \in Nat
        BY <1>3, WorthsAreNat, WorthIsNat
      <3>2. SumFunctionOnSet(Worths(bags), Characters) = SumFunctionOnSet(Worths(x.bag), Characters)
        BY <2>2, <2>3, <3>1
      <3> QED
        BY <2>4, <3>2 DEF Total
    <2>7. CraftWorked(x, y, c)
      BY <2>4, <2>5, <2>6 DEF CraftWorked, Worked
    <2> QED
      BY <2>7 DEF y
  <1> QED
    BY <1>4, <1>5, <1>6

-----------------------------------------------------------------------------
(* 7. Folds.                                                               *)

(* What comes of applying F, pick after pick, to the members of a set.     *)
Picks(pk, S) == \A T \in SUBSET S : T # {} => pk[T] \in T

Folded(F, base, pk, D, g) ==
    g = [T \in D |-> IF T = {} THEN base ELSE F[pk[T]][g[T \ {pk[T]}]]]

(* There is such a fold.                                                   *)
LEMMA FoldExists ==
    ASSUME NEW F, NEW base, NEW pk, NEW S, IsFiniteSet(S), Picks(pk, S)
    PROVE  \E g : Folded(F, base, pk, SUBSET S, g)
  <1> DEFINE Up(n) == {T \in SUBSET S : Cardinality(T) <= n}
             N == Cardinality(S)
             P == {T \in SUBSET S : \E g : Folded(F, base, pk, Up(Cardinality(T)), g)}
  <1>1. \A T \in SUBSET S : IsFiniteSet(T) /\ Cardinality(T) \in Nat /\ Cardinality(T) <= N
    BY FS_Subset, FS_CardinalityType
  <1>2. {} \in P
    <2> DEFINE g == [T \in Up(0) |-> base]
    <2>1. Up(0) = {{}}
      BY <1>1, FS_EmptySet
    <2>2. Folded(F, base, pk, Up(0), g)
      BY <2>1 DEF Folded
    <2>3. \E h : Folded(F, base, pk, Up(0), h)
      <3> HIDE DEF g, Up
      <3> QED
        BY <2>2
    <2> QED
      BY <2>3, FS_EmptySet
  <1>3. ASSUME NEW T \in P, NEW x \in S PROVE T \cup {x} \in P
    <2> DEFINE n == Cardinality(T)
    <2>1. CASE x \in T
      <3>1. T \cup {x} = T
        BY <2>1
      <3> QED
        BY <1>3, <3>1
    <2>2. CASE x \notin T
      <3>1. Cardinality(T \cup {x}) = n + 1 /\ n \in Nat
        BY <1>1, <1>3, <2>2, FS_AddElement
      <3>2. PICK g : Folded(F, base, pk, Up(n), g)
        BY <1>3
      <3> DEFINE h == [U \in Up(n + 1) |->
                         IF Cardinality(U) = n + 1 THEN F[pk[U]][g[U \ {pk[U]}]] ELSE g[U]]
      <3>3. \A U \in Up(n) : U \in Up(n + 1) /\ h[U] = g[U]
        <4>1. TAKE U \in Up(n)
        <4>2. Cardinality(U) \in Nat /\ Cardinality(U) <= n /\ U \in SUBSET S
          BY <1>1
        <4>3. U \in Up(n + 1) /\ Cardinality(U) # n + 1
          BY <3>1, <4>2
        <4> QED
          BY <4>3
      <3>4. \A U \in Up(n) : g[U] = IF U = {} THEN base ELSE F[pk[U]][g[U \ {pk[U]}]]
        BY <3>2 DEF Folded
      <3>5. \A U \in Up(n + 1) : U # {} => U \ {pk[U]} \in Up(n)
        <4>1. TAKE U \in Up(n + 1)
        <4>2. SUFFICES ASSUME U # {} PROVE U \ {pk[U]} \in Up(n)
          OBVIOUS
        <4>3. pk[U] \in U /\ IsFiniteSet(U) /\ Cardinality(U) \in Nat /\ Cardinality(U) <= n + 1
          BY <1>1, <4>2 DEF Picks
        <4>4. Cardinality(U \ {pk[U]}) = Cardinality(U) - 1
          BY <4>3, FS_RemoveElement
        <4> QED
          BY <3>1, <4>3, <4>4
      <3>6. \A U \in Up(n + 1) : h[U] = IF U = {} THEN base ELSE F[pk[U]][h[U \ {pk[U]}]]
        <4>1. TAKE U \in Up(n + 1)
        <4>2. CASE Cardinality(U) = n + 1
          <5>1. U # {}
            BY <3>1, <4>2, FS_EmptySet
          <5>2. h[U] = F[pk[U]][g[U \ {pk[U]}]]
            BY <4>2
          <5> HIDE DEF h
          <5> QED
            BY <3>3, <3>5, <5>1, <5>2
        <4>3. CASE Cardinality(U) # n + 1
          <5>1. U \in Up(n)
            BY <1>1, <3>1, <4>3
          <5> HIDE DEF h, Up
          <5> QED
            BY <3>3, <3>4, <3>5, <4>1, <5>1
        <4> QED
          BY <4>2, <4>3
      <3>7. Folded(F, base, pk, Up(n + 1), h)
        <4>1. h = [U \in Up(n + 1) |-> h[U]]
          OBVIOUS
        <4> HIDE DEF h, Up
        <4> QED
          BY <3>6, <4>1 DEF Folded
      <3>8. \E k : Folded(F, base, pk, Up(n + 1), k)
        <4> HIDE DEF h, Up
        <4> QED
          BY <3>7
      <3> HIDE DEF h, Up, n
      <3> QED
        BY <1>3, <3>1, <3>8
    <2> QED
      BY <2>1, <2>2
  <1>4. S \in P
    <2> HIDE DEF P
    <2> QED
      BY <1>2, <1>3, SetInduction
  <1>5. Up(N) = SUBSET S
    BY <1>1
  <1> QED
    BY <1>4, <1>5

(* What holds of nothing and is kept by one pick holds of all.             *)
LEMMA FoldInduction ==
    ASSUME NEW S, IsFiniteSet(S), NEW pk, Picks(pk, S), NEW Good,
           \A T \in SUBSET S : (T # {} => T \ {pk[T]} \in Good) => T \in Good
    PROVE  \A T \in SUBSET S : T \in Good
  <1> DEFINE bad == {T \in SUBSET S : T \notin Good}
  <1>1. SUFFICES ASSUME bad # {} PROVE FALSE
    OBVIOUS
  <1>2. bad \subseteq FiniteSubsetsOf(S)
    BY FS_FiniteSubsetsOfFinite
  <1>3. PICK T \in bad : \A U \in bad : ~ (<<U, T>> \in StrictSubsetOrdering(S))
    BY <1>1, <1>2, FS_StrictSubsetOrderingWellFounded, WFMin
  <1>4. T \in SUBSET S /\ T \notin Good
    OBVIOUS
  <1>5. T # {} /\ T \ {pk[T]} \notin Good
    BY <1>4
  <1>6. pk[T] \in T
    BY <1>4, <1>5 DEF Picks
  <1>7. <<T \ {pk[T]}, T>> \in StrictSubsetOrdering(S)
    BY <1>4, <1>6 DEF StrictSubsetOrdering
  <1>8. T \ {pk[T]} \in bad
    BY <1>4, <1>5
  <1> QED
    BY <1>3, <1>7, <1>8

-----------------------------------------------------------------------------
(* 8. All channels of a tick.                                              *)

(* The gathers of a tick, the last in order last.                          *)
Gathers(w, dt, walking, order, bonus, time, h) ==
    h = [T \in SUBSET (DOMAIN order) |->
            IF T = {} THEN w
            ELSE advance_gather(h[T \ {Max(T)}], order[Max(T)], dt, walking,
                                bonus[order[Max(T)]], time[order[Max(T)]])]

Gathered(w, dt, walking, order, bonus, time) ==
    (CHOOSE h : Gathers(w, dt, walking, order, bonus, time, h))[DOMAIN order]

(* The crafts of a tick.                                                   *)
Crafts(w, S, dt, walking, h) ==
    h = [T \in SUBSET S |->
            IF T = {} THEN w ELSE advance_craft(h[T \ {Pick(T)}], Pick(T), dt, walking)]

Crafted(w, S, dt, walking) == (CHOOSE h : Crafts(w, S, dt, walking, h))[S]

(* work_step is the crafts after the gathers.                              *)
LEMMA WorkStepIs ==
    ASSUME NEW w, NEW dt, NEW walking, NEW order, NEW bonus, NEW time,
           NEW v, v = Gathered(w, dt, walking, order, bonus, time)
    PROVE  work_step(w, dt, walking, order, bonus, time)
             = Crafted(v, {c \in Characters : v.craft[c] # None}, dt, walking)
  BY ZenonT(60)
     DEF work_step, FoldLeft, FoldSet, MapThenFoldSet, Gathered, Gathers, Crafted, Crafts, Pick

(* The order is a list of those who gather, each of them once.             *)
Ordered(order, G) ==
    /\ order = [i \in DOMAIN order |-> order[i]]
    /\ IsFiniteSet(DOMAIN order) /\ DOMAIN order \in SUBSET Int
    /\ \A i \in DOMAIN order : order[i] \in G
    /\ \A i, j \in DOMAIN order : i # j => order[i] # order[j]

(* SetToSeqs makes such lists only.                                        *)
LEMMA OrderIs ==
    ASSUME NEW G, IsFiniteSet(G), NEW order \in SetToSeqs(G)
    PROVE  Ordered(order, G)
  <1> DEFINE D == 1..Cardinality(G)
  <1>1. /\ order \in [D -> G]
        /\ \A i, j \in D : i # j => order[i] # order[j]
    BY DEF SetToSeqs
  <1>2. Cardinality(G) \in Nat
    BY FS_CardinalityType
  <1>3. IsFiniteSet(D) /\ D \subseteq Int
    BY <1>2, FS_Interval
  <1> HIDE DEF D
  <1> QED
    BY <1>1, <1>3 DEF Ordered

(* What may be said of the tables when some of the gathers are done.       *)
HalfGathered(w, order, T) ==
    {x \in World :
        /\ Total(x) = Total(w) /\ x.craft = w.craft
        /\ \A c \in Characters : (\A i \in T : order[i] # c) => x.gather[c] = w.gather[c]}

(* One more gather is done.                                                *)
LEMMA GatherOneMore ==
    ASSUME NEW w \in World, NEW order, NEW G \in SUBSET Characters, Ordered(order, G),
           \A c \in G : w.gather[c] # None,
           NEW T \in SUBSET (DOMAIN order), NEW m \in T,
           NEW x \in HalfGathered(w, order, T \ {m}),
           NEW dt \in Nat, NEW walking, NEW bonus \in Nat, NEW time \in GatherTimes
    PROVE  advance_gather(x, order[m], dt, walking, bonus, time) \in HalfGathered(w, order, T)
  <1> DEFINE c == order[m]
             y == advance_gather(x, c, dt, walking, bonus, time)
  <1>1. c \in G /\ c \in Characters /\ \A i \in T \ {m} : order[i] # c
    BY DEF Ordered
  <1>2. /\ x \in World /\ Total(x) = Total(w) /\ x.craft = w.craft
        /\ \A d \in Characters : (\A i \in T \ {m} : order[i] # d) => x.gather[d] = w.gather[d]
    BY DEF HalfGathered
  <1>3. x.gather[c] # None
    BY <1>1, <1>2
  <1>4. GatherWorked(x, y, c)
    <2> HIDE DEF c
    <2> QED
      BY <1>1, <1>2, <1>3, GatherAdvances
  <1> HIDE DEF y
  <1>5. /\ y \in World /\ Total(y) = Total(w) /\ y.craft = w.craft
        /\ \A d \in Characters \ {c} : y.gather[d] = x.gather[d]
    BY <1>2, <1>4 DEF GatherWorked, Worked
  <1>6. ASSUME NEW d \in Characters, \A i \in T : order[i] # d PROVE y.gather[d] = w.gather[d]
    <2>1. d # c /\ \A i \in T \ {m} : order[i] # d
      BY <1>6
    <2> QED
      BY <1>2, <1>5, <2>1
  <1>7. y \in HalfGathered(w, order, T)
    BY <1>5, <1>6 DEF HalfGathered
  <1> QED
    BY <1>7 DEF y

(* All gathers are done.                                                   *)
LEMMA GatheredIs ==
    ASSUME NEW w \in World, NEW order, NEW G \in SUBSET Characters, Ordered(order, G),
           \A c \in G : w.gather[c] # None,
           NEW dt \in Nat, NEW walking, NEW bonus \in [G -> Nat],
           NEW time \in [G -> GatherTimes]
    PROVE  Gathered(w, dt, walking, order, bonus, time) \in HalfGathered(w, order, DOMAIN order)
  <1> DEFINE D == DOMAIN order
             pk == [T \in SUBSET D |-> Max(T)]
             one(x, i) == advance_gather(x, order[i], dt, walking, bonus[order[i]],
                                       time[order[i]])
             F == [i \in D |-> [x \in World |-> one(x, i)]]
             Half(T) == HalfGathered(w, order, T)
  <1>1. IsFiniteSet(D)
    BY DEF Ordered
  <1>2. Picks(pk, D)
    <2>1. ASSUME NEW T \in SUBSET D, T # {} PROVE Max(T) \in T
      <3>1. T \in SUBSET Int /\ IsFiniteSet(T)
        BY <1>1, FS_Subset DEF Ordered
      <3> QED
        BY <2>1, <3>1, Extremes
    <2> QED
      BY <2>1 DEF Picks
  <1>3. \A T \in SUBSET D : pk[T] = Max(T)
    OBVIOUS
  <1>4. ASSUME NEW T \in SUBSET D, T # {}, NEW x \in Half(T \ {pk[T]})
        PROVE  /\ x \in World /\ one(x, pk[T]) \in Half(T)
               /\ F[pk[T]][x] = one(x, pk[T])
    <2>1. pk[T] \in T /\ pk[T] \in D
      BY <1>2, <1>4 DEF Picks
    <2>2. order[pk[T]] \in G /\ bonus[order[pk[T]]] \in Nat
      BY <2>1 DEF Ordered
    <2>3. x \in World
      BY DEF HalfGathered
    <2>4. one(x, pk[T]) \in Half(T)
      <3> HIDE DEF pk
      <3> QED
        BY <1>4, <2>1, <2>2, GatherOneMore
    <2>5. F[pk[T]][x] = one(x, pk[T])
      <3> HIDE DEF pk, one
      <3> QED
        BY <2>1, <2>3
    <2> QED
      BY <2>3, <2>4, <2>5
  <1>5. w \in Half({})
    BY DEF HalfGathered
  <1> HIDE DEF pk, Half
  <1>6. PICK g : Folded(F, w, pk, SUBSET D, g)
    <2> HIDE DEF F, D
    <2> QED
      BY <1>1, <1>2, FoldExists
  <1> HIDE DEF F, one
  <1>7. \A T \in SUBSET D : g[T] = IF T = {} THEN w ELSE F[pk[T]][g[T \ {pk[T]}]]
    BY <1>6 DEF Folded
  <1>8. \A T \in SUBSET D : g[T] \in Half(T)
    <2> DEFINE Good == {T \in SUBSET D : g[T] \in Half(T)}
    <2>1. ASSUME NEW T \in SUBSET D, T # {} => T \ {pk[T]} \in Good PROVE T \in Good
      <3>1. CASE T = {}
        BY <1>5, <1>7, <3>1
      <3>2. CASE T # {}
        <4>1. g[T \ {pk[T]}] \in Half(T \ {pk[T]})
          BY <2>1, <3>2
        <4>2. g[T] = one(g[T \ {pk[T]}], pk[T])
          BY <1>4, <1>7, <3>2, <4>1
        <4> QED
          BY <1>4, <3>2, <4>1, <4>2
      <3> QED
        BY <3>1, <3>2
    <2> HIDE DEF Good, D
    <2>2. \A T \in SUBSET D : T \in Good
      BY <1>1, <1>2, <2>1, FoldInduction
    <2> QED
      BY <2>2 DEF Good
  <1>9. Gathers(w, dt, walking, order, bonus, time, g)
    <2>1. ASSUME NEW T \in SUBSET D, T # {}
          PROVE  F[pk[T]][g[T \ {pk[T]}]] = one(g[T \ {pk[T]}], pk[T])
      BY <1>4, <1>8, <2>1
    <2>2. g = [T \in SUBSET D |-> IF T = {} THEN w ELSE one(g[T \ {pk[T]}], pk[T])]
      BY <1>6, <2>1 DEF Folded
    <2>3. g = [T \in SUBSET D |-> IF T = {} THEN w ELSE one(g[T \ {Max(T)}], Max(T))]
      BY <1>3, <2>2
    <2> QED
      BY <2>3 DEF Gathers, one
  <1> DEFINE h == CHOOSE k : Gathers(w, dt, walking, order, bonus, time, k)
  <1>10. Gathers(w, dt, walking, order, bonus, time, h)
    BY <1>9
  <1> HIDE DEF h
  <1>11. \A T \in SUBSET D : h[T] = IF T = {} THEN w ELSE one(h[T \ {pk[T]}], pk[T])
    BY <1>3, <1>10 DEF Gathers, one
  <1>12. \A T \in SUBSET D : h[T] \in Half(T)
    <2> DEFINE Good == {T \in SUBSET D : h[T] \in Half(T)}
    <2>1. ASSUME NEW T \in SUBSET D, T # {} => T \ {pk[T]} \in Good PROVE T \in Good
      <3>1. CASE T = {}
        BY <1>5, <1>11, <3>1
      <3>2. CASE T # {}
        BY <1>4, <1>11, <2>1, <3>2
      <3> QED
        BY <3>1, <3>2
    <2> HIDE DEF Good, D
    <2>2. \A T \in SUBSET D : T \in Good
      BY <1>1, <1>2, <2>1, FoldInduction
    <2> QED
      BY <2>2 DEF Good
  <1>13. h[D] \in Half(D)
    BY <1>12
  <1> QED
    BY <1>13 DEF Gathered, h, Half

(* What may be said of the tables when some of the crafts are done.        *)
HalfCrafted(w, T) ==
    {x \in World :
        /\ Total(x) = Total(w) /\ x.gather = w.gather
        /\ \A c \in Characters : c \notin T => x.craft[c] = w.craft[c]}

(* All crafts are done.                                                    *)
LEMMA CraftedIs ==
    ASSUME NEW w \in World, NEW S \in SUBSET Characters, \A c \in S : w.craft[c] # None,
           NEW dt \in Nat, NEW walking
    PROVE  Crafted(w, S, dt, walking) \in HalfCrafted(w, S)
  <1> DEFINE pk == [T \in SUBSET S |-> Pick(T)]
             one(x, c) == advance_craft(x, c, dt, walking)
             F == [c \in S |-> [x \in World |-> one(x, c)]]
             Half(T) == HalfCrafted(w, T)
  <1>1. IsFiniteSet(S)
    BY ConstantsAre, FS_Subset DEF ConstantsAssumed
  <1>2. Picks(pk, S)
    BY PickIsIn DEF Picks
  <1>3. \A T \in SUBSET S : pk[T] = Pick(T)
    OBVIOUS
  <1>4. ASSUME NEW T \in SUBSET S, T # {}, NEW x \in Half(T \ {pk[T]})
        PROVE  /\ x \in World /\ one(x, pk[T]) \in Half(T)
               /\ F[pk[T]][x] = one(x, pk[T])
    <2> DEFINE c == pk[T]
               y == one(x, c)
    <2>1. c \in T /\ c \in S /\ c \in Characters
      BY <1>2, <1>4 DEF Picks
    <2>2. /\ x \in World /\ Total(x) = Total(w) /\ x.gather = w.gather
          /\ \A d \in Characters : d \notin T \ {c} => x.craft[d] = w.craft[d]
      BY <1>4 DEF HalfCrafted
    <2> HIDE DEF pk
    <2>3. F[c][x] = y
      <3> HIDE DEF one, c
      <3> QED
        BY <2>1, <2>2
    <2> HIDE DEF c
    <2>4. x.craft[c] # None
      BY <2>1, <2>2
    <2>5. CraftWorked(x, y, c)
      BY <2>1, <2>2, <2>4, CraftAdvances
    <2> HIDE DEF y
    <2>6. /\ y \in World /\ Total(y) = Total(w) /\ y.gather = w.gather
          /\ \A d \in Characters \ {c} : y.craft[d] = x.craft[d]
      BY <2>2, <2>5 DEF CraftWorked, Worked
    <2>7. ASSUME NEW d \in Characters, d \notin T PROVE y.craft[d] = w.craft[d]
      <3>1. d # c /\ d \notin T \ {c}
        BY <2>1, <2>7
      <3> QED
        BY <2>2, <2>6, <3>1
    <2>8. y \in HalfCrafted(w, T)
      BY <2>6, <2>7 DEF HalfCrafted
    <2> QED
      BY <2>2, <2>3, <2>8 DEF c, y
  <1>5. w \in Half({})
    BY DEF HalfCrafted
  <1> HIDE DEF pk, Half
  <1>6. PICK g : Folded(F, w, pk, SUBSET S, g)
    <2> HIDE DEF F
    <2> QED
      BY <1>1, <1>2, FoldExists
  <1> HIDE DEF F, one
  <1>7. \A T \in SUBSET S : g[T] = IF T = {} THEN w ELSE F[pk[T]][g[T \ {pk[T]}]]
    BY <1>6 DEF Folded
  <1>8. \A T \in SUBSET S : g[T] \in Half(T)
    <2> DEFINE Good == {T \in SUBSET S : g[T] \in Half(T)}
    <2>1. ASSUME NEW T \in SUBSET S, T # {} => T \ {pk[T]} \in Good PROVE T \in Good
      <3>1. CASE T = {}
        BY <1>5, <1>7, <3>1
      <3>2. CASE T # {}
        <4>1. g[T \ {pk[T]}] \in Half(T \ {pk[T]})
          BY <2>1, <3>2
        <4>2. g[T] = one(g[T \ {pk[T]}], pk[T])
          BY <1>4, <1>7, <3>2, <4>1
        <4> QED
          BY <1>4, <3>2, <4>1, <4>2
      <3> QED
        BY <3>1, <3>2
    <2> HIDE DEF Good
    <2>2. \A T \in SUBSET S : (T # {} => T \ {pk[T]} \in Good) => T \in Good
      BY <2>1
    <2>3. \A T \in SUBSET S : T \in Good
      BY ONLY <1>1, <1>2, <2>2, FoldInduction
    <2> QED
      BY <2>3 DEF Good
  <1>9. Crafts(w, S, dt, walking, g)
    <2>1. ASSUME NEW T \in SUBSET S, T # {}
          PROVE  F[pk[T]][g[T \ {pk[T]}]] = one(g[T \ {pk[T]}], pk[T])
      BY <1>4, <1>8, <2>1
    <2>2. g = [T \in SUBSET S |-> IF T = {} THEN w ELSE one(g[T \ {pk[T]}], pk[T])]
      BY <1>6, <2>1 DEF Folded
    <2>3. g = [T \in SUBSET S |-> IF T = {} THEN w ELSE one(g[T \ {Pick(T)}], Pick(T))]
      BY <1>3, <2>2
    <2> QED
      BY <2>3 DEF Crafts, one
  <1> DEFINE h == CHOOSE k : Crafts(w, S, dt, walking, k)
  <1>10. Crafts(w, S, dt, walking, h)
    BY <1>9
  <1> HIDE DEF h
  <1>11. \A T \in SUBSET S : h[T] = IF T = {} THEN w ELSE one(h[T \ {pk[T]}], pk[T])
    BY <1>3, <1>10 DEF Crafts, one
  <1>12. \A T \in SUBSET S : h[T] \in Half(T)
    <2> DEFINE Good == {T \in SUBSET S : h[T] \in Half(T)}
    <2>1. ASSUME NEW T \in SUBSET S, T # {} => T \ {pk[T]} \in Good PROVE T \in Good
      <3>1. CASE T = {}
        BY <1>5, <1>11, <3>1
      <3>2. CASE T # {}
        BY <1>4, <1>11, <2>1, <3>2
      <3> QED
        BY <3>1, <3>2
    <2> HIDE DEF Good
    <2>2. \A T \in SUBSET S : (T # {} => T \ {pk[T]} \in Good) => T \in Good
      BY <2>1
    <2>3. \A T \in SUBSET S : T \in Good
      BY ONLY <1>1, <1>2, <2>2, FoldInduction
    <2> QED
      BY <2>3 DEF Good
  <1>13. h[S] \in Half(S)
    BY <1>12
  <1> QED
    BY <1>13 DEF Crafted, h, Half

(* What the channels of a tick leave: the same wealth, no session that was *)
(* not there, and nobody at a gather who was not at one.                   *)
LEMMA WorkIs ==
    ASSUME NEW w \in World, NEW G \in SUBSET Characters,
           \A c \in Characters : c \in G <=> w.gather[c] # None,
           NEW order \in SetToSeqs(G), NEW bonus \in [G -> 0..MaxBonus],
           NEW time \in [G -> GatherTimes], NEW dt \in Nat, NEW walking,
           NEW z, z = work_step(w, dt, walking, order, bonus, time)
    PROVE  /\ z \in World /\ Total(z) = Total(w)
           /\ \A c \in Characters : z.gather[c] # None => w.gather[c] # None
           /\ \A c \in Characters : z.craft[c] # None => w.craft[c] # None
  <1> DEFINE v == Gathered(w, dt, walking, order, bonus, time)
             S == {c \in Characters : v.craft[c] # None}
  <1>1. IsFiniteSet(G) /\ MaxBonus \in Nat
    BY ConstantsAre, FS_Subset DEF ConstantsAssumed
  <1>2. Ordered(order, G)
    BY <1>1, OrderIs
  <1>3. bonus \in [G -> Nat]
    BY <1>1
  <1>4. v \in HalfGathered(w, order, DOMAIN order)
    BY <1>2, <1>3, GatheredIs
  <1>5. z = Crafted(v, S, dt, walking)
    BY WorkStepIs
  <1> HIDE DEF v
  <1>6. /\ v \in World /\ Total(v) = Total(w) /\ v.craft = w.craft
        /\ \A c \in Characters :
              (\A i \in DOMAIN order : order[i] # c) => v.gather[c] = w.gather[c]
    BY <1>4 DEF HalfGathered
  <1>7. S \in SUBSET Characters /\ \A c \in S : v.craft[c] # None
    OBVIOUS
  <1>8. \A c \in Characters : c \notin S => v.craft[c] = None
    OBVIOUS
  <1> HIDE DEF S
  <1>9. z \in HalfCrafted(v, S)
    BY <1>5, <1>6, <1>7, CraftedIs
  <1>10. /\ z \in World /\ Total(z) = Total(v) /\ z.gather = v.gather
         /\ \A c \in Characters : c \notin S => z.craft[c] = v.craft[c]
    BY <1>9 DEF HalfCrafted
  <1>11. ASSUME NEW c \in Characters, z.gather[c] # None PROVE w.gather[c] # None
    <2>1. CASE c \in G
      BY <2>1
    <2>2. CASE c \notin G
      <3>1. \A i \in DOMAIN order : order[i] # c
        BY <1>2, <2>2 DEF Ordered
      <3> QED
        BY <1>6, <1>10, <1>11, <3>1
    <2> QED
      BY <2>1, <2>2
  <1>12. ASSUME NEW c \in Characters, z.craft[c] # None PROVE w.craft[c] # None
    <2>1. c \in S
      BY <1>8, <1>10, <1>12
    <2> QED
      BY <1>6, <1>7, <2>1
  <1> QED
    BY <1>6, <1>10, <1>11, <1>12

-----------------------------------------------------------------------------
(* 9. The invariant.                                                       *)

(* The inductive invariant, of the tables as they are.                     *)
BodyRow ==
    [life : {"alive", "spent", "dead"}, walking : BOOLEAN, mind : {"free", "casting", "blocked"}]

Apart(bodies, gathers, crafts) ==
    \A c \in Characters :
        gathers[c] # None => crafts[c] = None /\ bodies[c].mind # "casting"

Sound(bodies, bags, rows, gathers, crafts, since) ==
    /\ bodies \in [Characters -> BodyRow]
    /\ bags \in [Characters -> Bag]
    /\ rows \in [Nodes -> GoodRow]
    /\ gathers \in [Characters -> GatherSession \cup {None}]
    /\ crafts \in [Characters -> CraftSession \cup {None}]
    /\ since \in 0..MaxLag \cup {None}
    /\ Apart(bodies, gathers, crafts)

IInv == Sound(body, bag, node, gather, craft, lag)

(* It has the types of the state.                                          *)
LEMMA IInvTypes == IInv => TypeOK
  <1> SUFFICES ASSUME IInv PROVE TypeOK
    OBVIOUS
  <1>1. node \in [Nodes -> NodeRow]
    BY DEF IInv, Sound, GoodRow
  <1> QED
    BY <1>1 DEF IInv, Sound, TypeOK, BodyRow

(* It keeps the occupations apart.                                         *)
LEMMA IInvOccupations == IInv => OneOccupation
  BY DEF IInv, Sound, Apart, OneOccupation

(* It has every node scheduled.                                            *)
LEMMA IInvSchedules == IInv => RegrowthScheduled
  <1> SUFFICES ASSUME IInv, NEW n \in Nodes
               PROVE  node[n].due = IF node[n].pieces = MAX_PIECES THEN Far
                                    ELSE Max({REGEN_INTERVAL - node[n].age, 0})
    BY DEF RegrowthScheduled
  <1>1. node[n] \in GoodRow
    BY DEF IInv, Sound
  <1> QED
    BY <1>1, DueIs

(* It holds at first.                                                      *)
LEMMA InitHolds == Init => IInv
  <1> SUFFICES ASSUME Init PROVE IInv
    OBVIOUS
  <1>1. EmptyInventory \in Bag
    BY DEF EmptyInventory, Bag
  <1>2. [pieces |-> MAX_PIECES, age |-> 0, due |-> Far] \in GoodRow
    <2>1. MAX_PIECES \in 0..MAX_PIECES /\ 0 \in Nat
      BY ConstantsAre DEF ConstantsAssumed
    <2> QED
      BY <2>1, RowMade
  <1>3. [life |-> "alive", walking |-> FALSE, mind |-> "free"] \in BodyRow
    BY DEF BodyRow
  <1> QED
    BY <1>1, <1>2, <1>3 DEF Init, IInv, Sound, Apart

-----------------------------------------------------------------------------
(* 10. The reducers.                                                       *)

(* What a character does with body and mind.                               *)
LEMMA UncastIs ==
    ASSUME NEW b \in BodyRow
    PROVE  Uncast(b) \in BodyRow /\ Uncast(b).mind # "casting"
  BY DEF Uncast, BodyRow

LEMMA UnblockIs ==
    ASSUME NEW b \in BodyRow
    PROVE  Unblock(b) \in BodyRow /\ (Unblock(b).mind = "casting" => b.mind = "casting")
  BY DEF Unblock, BodyRow

(* A step of body and mind that begins no cast.                            *)
LEMMA EmbodyKeeps ==
    ASSUME IInv, NEW c \in Characters, NEW b \in BodyRow,
           b.mind = "casting" => body[c].mind = "casting", Embody(c, b)
    PROVE  IInv'
  <1>1. body' = [body EXCEPT ![c] = b] /\ UNCHANGED <<bag, node, gather, craft, lag>>
    BY DEF Embody
  <1>2. body' \in [Characters -> BodyRow]
    BY <1>1 DEF IInv, Sound
  <1>3. Apart(body', gather', craft')
    BY <1>1 DEF IInv, Sound, Apart
  <1> QED
    BY <1>1, <1>2, <1>3 DEF IInv, Sound

(* A cast that is over.                                                    *)
LEMMA EndCastKeeps ==
    ASSUME IInv, NEW c \in Characters, end_cast(c)
    PROVE  IInv'
  <1>1. body[c] \in BodyRow
    BY DEF IInv, Sound
  <1> QED
    BY <1>1, UncastIs, EmbodyKeeps DEF end_cast

(* A control that lands.                                                   *)
LEMMA MaterializeKeeps ==
    ASSUME IInv, NEW c \in Characters, NEW frozen \in BOOLEAN, materialize(c, frozen)
    PROVE  IInv'
  <1> DEFINE b == [body[c] EXCEPT !.mind = "blocked", !.walking = @ /\ ~ frozen]
  <1>1. body[c] \in BodyRow
    BY DEF IInv, Sound
  <1>2. b \in BodyRow /\ b.mind # "casting"
    BY <1>1 DEF BodyRow
  <1>3. Embody(c, b)
    BY DEF materialize
  <1> HIDE DEF b
  <1> QED
    BY <1>2, <1>3, EmbodyKeeps

(* A control that wears off.                                               *)
LEMMA WearOffKeeps ==
    ASSUME IInv, NEW c \in Characters, wear_off(c)
    PROVE  IInv'
  <1>1. body[c] \in BodyRow
    BY DEF IInv, Sound
  <1> QED
    BY <1>1, UnblockIs, EmbodyKeeps DEF wear_off

(* Walking and standing.                                                   *)
LEMMA WalkKeeps ==
    ASSUME IInv, NEW c \in Characters, move_to(c) \/ stop(c)
    PROVE  IInv'
  <1> DEFINE walked == [body[c] EXCEPT !.walking = TRUE]
             stood == [body[c] EXCEPT !.walking = FALSE,
                                      !.life = IF @ = "dead" THEN "spent" ELSE @]
  <1>1. body[c] \in BodyRow
    BY DEF IInv, Sound
  <1>2. /\ walked \in BodyRow /\ walked.mind = body[c].mind
        /\ stood \in BodyRow /\ stood.mind = body[c].mind
    BY <1>1 DEF BodyRow
  <1>3. Embody(c, walked) \/ Embody(c, stood)
    BY DEF move_to, stop
  <1> HIDE DEF walked, stood
  <1> QED
    BY <1>2, <1>3, EmbodyKeeps

(* What ends a gather on the way.                                          *)
LEMMA CastKeeps ==
    ASSUME IInv, NEW c \in Characters, NEW lasting \in BOOLEAN, cast(c, lasting)
    PROVE  IInv'
  <1> DEFINE b == [body[c] EXCEPT !.mind = IF lasting THEN "casting" ELSE "free",
                                  !.walking = @ /\ ~ lasting]
  <1>1. body[c] \in BodyRow /\ body \in [Characters -> BodyRow]
    BY DEF IInv, Sound
  <1>2. b \in BodyRow
    BY <1>1 DEF BodyRow
  <1>3. /\ body' = [body EXCEPT ![c] = b] /\ gather' = [gather EXCEPT ![c] = None]
        /\ UNCHANGED <<bag, node, craft, lag>>
    BY <1>1 DEF cast
  <1> HIDE DEF b
  <1>4. body' \in [Characters -> BodyRow] /\ gather' \in [Characters -> GatherSession \cup {None}]
    BY <1>2, <1>3 DEF IInv, Sound
  <1>5. Apart(body', gather', craft')
    BY <1>3 DEF IInv, Sound, Apart
  <1> QED
    BY <1>3, <1>4, <1>5 DEF IInv, Sound

(* A blow ends the gather.                                                 *)
LEMMA DamageKeeps ==
    ASSUME IInv, NEW c \in Characters, NEW killed \in BOOLEAN, apply_damage(c, killed)
    PROVE  IInv'
  <1> DEFINE b == IF killed THEN Killed(body[c]) ELSE body[c]
  <1>1. body[c] \in BodyRow
    BY DEF IInv, Sound
  <1>2. b \in BodyRow
    BY <1>1 DEF BodyRow, Killed
  <1>3. /\ body' = [body EXCEPT ![c] = b] /\ gather' = [gather EXCEPT ![c] = None]
        /\ UNCHANGED <<bag, node, craft, lag>>
    BY DEF apply_damage
  <1> HIDE DEF b
  <1>4. body' \in [Characters -> BodyRow] /\ gather' \in [Characters -> GatherSession \cup {None}]
    BY <1>2, <1>3 DEF IInv, Sound
  <1>5. Apart(body', gather', craft')
    BY <1>3 DEF IInv, Sound, Apart
  <1> QED
    BY <1>3, <1>4, <1>5 DEF IInv, Sound

(* A channel that is stopped.                                              *)
LEMMA StopKeeps ==
    ASSUME IInv, NEW c \in Characters, stop_gather(c) \/ stop_craft(c)
    PROVE  IInv'
  <1>1. CASE stop_gather(c)
    <2>1. gather' = [gather EXCEPT ![c] = None] /\ UNCHANGED <<body, bag, node, craft, lag>>
      BY <1>1 DEF stop_gather
    <2> QED
      BY <2>1 DEF IInv, Sound, Apart
  <1>2. CASE stop_craft(c)
    <2>1. craft' = [craft EXCEPT ![c] = None] /\ UNCHANGED <<body, bag, node, gather, lag>>
      BY <1>2 DEF stop_craft
    <2> QED
      BY <2>1 DEF IInv, Sound, Apart
  <1> QED
    BY <1>1, <1>2

(* Whoever is moved stays in what they did.                                *)
LEMMA StrayedIs ==
    /\ \A g \in GatherSession \cup {None} :
          Strayed(g) \in GatherSession \cup {None} /\ (Strayed(g) = None <=> g = None)
    /\ \A k \in CraftSession \cup {None} :
          Strayed(k) \in CraftSession \cup {None} /\ (Strayed(k) = None <=> k = None)
  <1>1. \A g \in GatherSession : [g EXCEPT !.strayed = TRUE] \in GatherSession
    BY GatherParts
  <1>2. \A k \in CraftSession : [k EXCEPT !.strayed = TRUE] \in CraftSession
    BY CraftParts
  <1> QED
    BY <1>1, <1>2, NoneIsNoSession DEF Strayed

(* A knock and the way back from death only stray.                         *)
LEMMA DisplaceKeeps ==
    ASSUME IInv, NEW c \in Characters, displace(c) \/ resurrect(c)
    PROVE  IInv'
  <1> DEFINE g == Strayed(gather[c])
             k == Strayed(craft[c])
             b == [life |-> "alive", walking |-> FALSE, mind |-> Unblock(body[c]).mind]
  <1>1. /\ body \in [Characters -> BodyRow]
        /\ gather \in [Characters -> GatherSession \cup {None}]
        /\ craft \in [Characters -> CraftSession \cup {None}]
        /\ Apart(body, gather, craft)
    BY DEF IInv, Sound
  <1>2. /\ g \in GatherSession \cup {None} /\ (g = None <=> gather[c] = None)
        /\ k \in CraftSession \cup {None} /\ (k = None <=> craft[c] = None)
    BY <1>1, StrayedIs
  <1>3. b \in BodyRow /\ (b.mind = "casting" => body[c].mind = "casting")
    <2>1. /\ Unblock(body[c]) \in BodyRow
          /\ Unblock(body[c]).mind = "casting" => body[c].mind = "casting"
      BY <1>1, UnblockIs
    <2> QED
      BY <2>1 DEF BodyRow
  <1>4. /\ \/ gather' = [gather EXCEPT ![c] = g] /\ craft' = [craft EXCEPT ![c] = k]
           \/ gather' = gather /\ craft' = craft
        /\ UNCHANGED <<bag, node, lag>>
        /\ body' = body \/ body' = [body EXCEPT ![c] = b]
    BY DEF displace, resurrect, Displace
  <1> HIDE DEF g, k, b
  <1>5. /\ body' \in [Characters -> BodyRow]
        /\ gather' \in [Characters -> GatherSession \cup {None}]
        /\ craft' \in [Characters -> CraftSession \cup {None}]
    BY <1>1, <1>2, <1>3, <1>4
  <1>6. Apart(body', gather', craft')
    <2>1. ASSUME NEW d \in Characters, gather'[d] # None
          PROVE  craft'[d] = None /\ body'[d].mind # "casting"
      <3>1. CASE d = c
        <4>1. gather[c] # None
          BY <1>1, <1>2, <1>4, <2>1, <3>1
        <4>2. craft[c] = None /\ body[c].mind # "casting"
          BY <1>1, <4>1 DEF Apart
        <4> QED
          BY <1>1, <1>2, <1>3, <1>4, <3>1, <4>2
      <3>2. CASE d # c
        <4>1. gather'[d] = gather[d] /\ craft'[d] = craft[d] /\ body'[d] = body[d]
          BY <1>1, <1>4, <3>2
        <4> QED
          BY <1>1, <2>1, <4>1 DEF Apart
      <3> QED
        BY <3>1, <3>2
    <2> QED
      BY <2>1 DEF Apart
  <1> QED
    BY <1>4, <1>5, <1>6 DEF IInv, Sound

(* The beginnings.                                                         *)
LEMMA StartGatherKeeps ==
    ASSUME IInv, NEW c \in Characters, NEW n \in Nodes, start_gather(c, n)
    PROVE  IInv'
  <1>1. /\ body \in [Characters -> BodyRow] /\ body[c] \in BodyRow
        /\ node \in [Nodes -> GoodRow] /\ node[n] \in GoodRow
        /\ gather \in [Characters -> GatherSession \cup {None}]
        /\ craft \in [Characters -> CraftSession \cup {None}]
        /\ Apart(body, gather, craft)
    BY DEF IInv, Sound
  <1> DEFINE r == persist_regen(node[n])
             b == Uncast(body[c])
  <1>2. r \in GoodRow
    BY <1>1, RegrownIs
  <1>3. b \in BodyRow /\ b.mind # "casting"
    BY <1>1, UncastIs
  <1>4. PICK time \in GatherTimes :
           gather' = [gather EXCEPT ![c] = [node |-> n, left |-> time, strayed |-> FALSE]]
    BY DEF start_gather
  <1> DEFINE g == [node |-> n, left |-> time, strayed |-> FALSE]
  <1>5. g \in GatherSession
    <2>1. time \in 1..time
      BY ConstantsAre DEF ConstantsAssumed
    <2> QED
      BY <2>1 DEF GatherSession
  <1>6. /\ body' = [body EXCEPT ![c] = b] /\ node' = [node EXCEPT ![n] = r]
        /\ craft' = [craft EXCEPT ![c] = None] /\ gather' = [gather EXCEPT ![c] = g]
        /\ UNCHANGED <<bag, lag>>
    BY <1>4 DEF start_gather
  <1> HIDE DEF r, b, g
  <1>7. /\ body' \in [Characters -> BodyRow] /\ node' \in [Nodes -> GoodRow]
        /\ gather' \in [Characters -> GatherSession \cup {None}]
        /\ craft' \in [Characters -> CraftSession \cup {None}]
    BY <1>1, <1>2, <1>3, <1>5, <1>6
  <1>8. Apart(body', gather', craft')
    BY <1>1, <1>3, <1>6 DEF Apart
  <1> QED
    BY <1>6, <1>7, <1>8 DEF IInv, Sound

(* A craft that begins ends the gather.                                    *)
LEMMA StartCraftKeeps ==
    ASSUME IInv, NEW c \in Characters, NEW q \in Quantities, start_craft(c, q)
    PROVE  IInv'
  <1>1. /\ body \in [Characters -> BodyRow] /\ body[c] \in BodyRow
        /\ gather \in [Characters -> GatherSession \cup {None}]
        /\ craft \in [Characters -> CraftSession \cup {None}]
        /\ Apart(body, gather, craft)
    BY DEF IInv, Sound
  <1> DEFINE b == Uncast(body[c])
             k == [quantity |-> q, left |-> CraftTime * q, strayed |-> FALSE]
  <1>2. b \in BodyRow /\ b.mind # "casting"
    BY <1>1, UncastIs
  <1>3. k \in CraftSession
    <2>1. q \in Nat /\ q > 0 /\ CraftTime \in Nat \ {0}
      BY ConstantsAre DEF ConstantsAssumed, start_craft, preview_craft
    <2>2. CraftTime * q \in Nat /\ CraftTime * q >= 1
      BY <2>1
    <2> QED
      BY <2>2 DEF CraftSession
  <1>4. /\ body' = [body EXCEPT ![c] = b]
        /\ craft' = [craft EXCEPT ![c] = k] /\ gather' = [gather EXCEPT ![c] = None]
        /\ UNCHANGED <<bag, node, lag>>
    BY DEF start_craft
  <1> HIDE DEF b, k
  <1>5. /\ body' \in [Characters -> BodyRow]
        /\ gather' \in [Characters -> GatherSession \cup {None}]
        /\ craft' \in [Characters -> CraftSession \cup {None}]
    BY <1>1, <1>2, <1>3, <1>4
  <1>6. Apart(body', gather', craft')
    BY <1>1, <1>4 DEF Apart
  <1> QED
    BY <1>4, <1>5, <1>6 DEF IInv, Sound

(* The bags.                                                               *)
LEMMA GestureKeeps ==
    ASSUME IInv, NEW c \in Characters,
           \/ \E i \in Items : receive(c, i)
           \/ \E s \in Slots : discard(c, s)
    PROVE  IInv'
  <1>1. bag \in [Characters -> Bag] /\ bag[c] \in Bag
    BY DEF IInv, Sound
  <1>2. PICK b \in Bag : Gesture(c, b)
    <2>1. CASE \E i \in Items : receive(c, i)
      <3>1. PICK i \in Items : receive(c, i)
        BY <2>1
      <3>2. add_stackable(bag[c], i, 1, 1) \in Bag
        BY <1>1, AddStackableSlots
      <3> QED
        BY <3>1, <3>2 DEF receive
    <2>2. CASE \E s \in Slots : discard(c, s)
      <3>1. PICK s \in Slots : discard(c, s)
        BY <2>2
      <3>2. [bag[c] EXCEPT ![s] = Nothing] \in Bag
        BY <1>1 DEF Bag
      <3> QED
        BY <3>1, <3>2 DEF discard
    <2> QED
      BY <2>1, <2>2
  <1>3. bag' = [bag EXCEPT ![c] = b] /\ UNCHANGED <<body, node, gather, craft, lag>>
    BY <1>2 DEF Gesture
  <1>4. bag' \in [Characters -> Bag]
    BY <1>1, <1>3
  <1> QED
    BY <1>3, <1>4 DEF IInv, Sound

-----------------------------------------------------------------------------
(* 11. Time and the reset.                                                 *)

(* Time passes.                                                            *)
Older(r) ==
    [r EXCEPT !.age = IF r.pieces < MAX_PIECES THEN r.age + 1 ELSE r.age,
              !.due = IF r.due = Far THEN Far ELSE Max({r.due - 1, 0})]

(* A node that ages stays scheduled.                                       *)
LEMMA OlderIs ==
    ASSUME NEW r \in GoodRow
    PROVE  Older(r) \in GoodRow /\ Older(r).pieces = r.pieces
  <1>0. MAX_PIECES \in Nat /\ REGEN_INTERVAL \in Nat /\ Far \notin Nat
    BY ConstantsAre DEF ConstantsAssumed
  <1>1. r \in NodeRow /\ r.pieces \in Nat /\ r.pieces <= MAX_PIECES /\ r.age \in Nat
    BY RowParts
  <1>2. r.pieces \in 0..MAX_PIECES
    BY <1>0, <1>1
  <1>3. CASE r.pieces = MAX_PIECES
    <2>1. r.due = Far /\ ~ (r.pieces < MAX_PIECES)
      <3>1. r.due = Far
        BY <1>3, DueIs
      <3>2. ~ (r.pieces < MAX_PIECES)
        BY <1>0, <1>3
      <3> QED
        BY <3>1, <3>2
    <2>2. Older(r) = r
      BY <1>1, <2>1 DEF Older, NodeRow
    <2> QED
      BY <2>2
  <1>4. CASE r.pieces # MAX_PIECES
    <2> DEFINE k == REGEN_INTERVAL - r.age
               a == r.age + 1
               d == Max({r.due - 1, 0})
    <2>1. r.due = Max({k, 0}) /\ r.pieces < MAX_PIECES
      BY <1>0, <1>1, <1>4, DueIs
    <2>2. Max({k, 0}) = IF k <= 0 THEN 0 ELSE k
      BY <1>1, WaitIs
    <2>3. a \in Nat /\ k \in Int
      BY <1>0, <1>1
    <2>4. Max({REGEN_INTERVAL - a, 0}) = IF REGEN_INTERVAL - a <= 0 THEN 0 ELSE REGEN_INTERVAL - a
      BY <2>3, WaitIs
    <2>5. REGEN_INTERVAL - a = k - 1
      BY <1>0, <1>1
    <2> HIDE DEF a, k
    <2>6. r.due = IF k <= 0 THEN 0 ELSE k
      BY <2>1, <2>2
    <2>7. r.due \in Nat
      BY <2>3, <2>6
    <2>8. d = IF r.due - 1 <= 0 THEN 0 ELSE r.due - 1
      BY <2>7, MaxOfTwo
    <2>9. d = Max({REGEN_INTERVAL - a, 0})
      BY <2>3, <2>4, <2>5, <2>6, <2>8
    <2> HIDE DEF d
    <2>10. [pieces |-> r.pieces, age |-> a, due |-> d] \in GoodRow
      BY <1>2, <1>4, <2>3, <2>9, RowMade
    <2>11. r.due # Far
      BY <1>0, <2>7
    <2>12. Older(r) = [pieces |-> r.pieces, age |-> a, due |-> d]
      <3>1. Older(r) = [r EXCEPT !.age = a, !.due = d]
        BY <2>1, <2>11 DEF Older, a, d
      <3> QED
        BY <1>1, <3>1 DEF NodeRow
    <2> QED
      BY <2>10, <2>12
  <1> QED
    BY <1>3, <1>4

(* A node ages, and nothing else.                                          *)
LEMMA ElapseKeeps ==
    ASSUME IInv, Elapse
    PROVE  /\ IInv'
           /\ \A n \in Nodes : node'[n].pieces = node[n].pieces
  <1>1. node \in [Nodes -> GoodRow] /\ lag \in 0..MaxLag \cup {None}
    BY DEF IInv, Sound
  <1>2. node' = [n \in Nodes |-> Older(node[n])]
    BY DEF Elapse, Older
  <1>3. \A n \in Nodes : Older(node[n]) \in GoodRow /\ Older(node[n]).pieces = node[n].pieces
    BY <1>1, OlderIs
  <1>4. node' \in [Nodes -> GoodRow] /\ \A n \in Nodes : node'[n].pieces = node[n].pieces
    BY <1>2, <1>3
  <1>5. lag' \in 0..MaxLag \cup {None}
    <2>1. CASE lag = None
      BY <2>1 DEF Elapse
    <2>2. CASE lag # None
      <3>1. lag \in 0..MaxLag /\ lag < MaxLag /\ lag' = lag + 1
        BY <1>1, <2>2 DEF Elapse
      <3>2. MaxLag \in Nat
        BY ConstantsAre DEF ConstantsAssumed
      <3> QED
        BY <3>1, <3>2
    <2> QED
      BY <2>1, <2>2
  <1>6. UNCHANGED <<body, bag, gather, craft>>
    BY DEF Elapse
  <1> QED
    BY <1>4, <1>5, <1>6 DEF IInv, Sound

(* The reset writes down what is so already, and ends all there is to end. *)
LEMMA ResetKeeps ==
    ASSUME IInv, gm_reset_runtime_state
    PROVE  /\ IInv'
           /\ \A n \in Nodes : node'[n].pieces = node[n].pieces
  <1>1. body \in [Characters -> BodyRow] /\ node \in [Nodes -> GoodRow]
    BY DEF IInv, Sound
  <1>2. ASSUME NEW n \in Nodes
        PROVE  [node[n] EXCEPT !.due = IF node[n].pieces >= MAX_PIECES THEN Far ELSE node[n].due]
                 = node[n]
    <2>1. node[n] \in GoodRow /\ node[n] \in NodeRow /\ node[n].pieces \in Nat
          /\ node[n].pieces <= MAX_PIECES
      BY <1>1, RowParts
    <2>2. node[n].pieces >= MAX_PIECES => node[n].due = Far
      <3>1. MAX_PIECES \in Nat
        BY ConstantsAre DEF ConstantsAssumed
      <3>2. node[n].pieces >= MAX_PIECES => node[n].pieces = MAX_PIECES
        BY <2>1, <3>1
      <3> QED
        BY <2>1, <3>2, DueIs
    <2> QED
      BY <2>1, <2>2 DEF NodeRow
  <1>3. node' = node
    <2>1. node' = [n \in Nodes |-> node[n]]
      BY <1>2 DEF gm_reset_runtime_state
    <2> QED
      BY <1>1, <2>1
  <1>4. \A c \in Characters : [body[c] EXCEPT !.mind = "free"] \in BodyRow
    BY <1>1 DEF BodyRow
  <1>5. body' \in [Characters -> BodyRow]
    BY <1>4 DEF gm_reset_runtime_state
  <1>6. /\ gather' = [c \in Characters |-> None] /\ craft' = [c \in Characters |-> None]
        /\ lag' = None /\ bag' = bag
    BY DEF gm_reset_runtime_state
  <1> QED
    BY <1>3, <1>5, <1>6 DEF IInv, Sound, Apart

-----------------------------------------------------------------------------
(* 12. The tick, and every step.                                           *)

(* The tick.                                                               *)
Tabled == [bag |-> bag, node |-> node, gather |-> gather, craft |-> craft]

CaughtUp(rows) ==
    [n \in Nodes |-> IF rows[n].due = 0 THEN persist_regen(rows[n]) ELSE rows[n]]

(* The clock of the tick.                                                  *)
LEMMA ClockIs ==
    ASSUME IInv
    PROVE  advance_clock \in Nat
  <1>1. MAX_STEP \in Nat /\ MaxLag \in Nat
    BY ConstantsAre DEF ConstantsAssumed
  <1>2. CASE lag = None
    BY <1>2 DEF advance_clock
  <1>3. CASE lag # None
    <2>1. lag \in 0..MaxLag
      BY <1>3 DEF IInv, Sound
    <2>2. lag \in Nat
      BY <1>1, <2>1
    <2>3. Min({lag, MAX_STEP}) = IF lag <= MAX_STEP THEN lag ELSE MAX_STEP
      BY <1>1, <2>2, MinOfTwo
    <2>4. advance_clock = Min({lag, MAX_STEP})
      BY <1>3 DEF advance_clock
    <2> QED
      BY <1>1, <2>2, <2>3, <2>4
  <1> QED
    BY <1>2, <1>3

(* The nodes that are due have caught up.                                  *)
LEMMA CaughtUpIs ==
    ASSUME NEW rows \in [Nodes -> GoodRow]
    PROVE  CaughtUp(rows) \in [Nodes -> GoodRow]
  <1>1. \A n \in Nodes : persist_regen(rows[n]) \in GoodRow
    BY RegrownIs
  <1> QED
    BY <1>1 DEF CaughtUp

(* The tables the channels are worked on.                                  *)
LEMMA TickStarts ==
    ASSUME IInv, NEW strayed, NEW v, v = regen_due_nodes(movement_step(Tabled, strayed))
    PROVE  /\ v \in World /\ v.bag = bag /\ v.node = CaughtUp(node)
           /\ \A c \in Characters : v.gather[c] = None <=> gather[c] = None
           /\ \A c \in Characters : v.craft[c] = None <=> craft[c] = None
  <1>1. /\ bag \in [Characters -> Bag] /\ node \in [Nodes -> GoodRow]
        /\ gather \in [Characters -> GatherSession \cup {None}]
        /\ craft \in [Characters -> CraftSession \cup {None}]
    BY DEF IInv, Sound
  <1> DEFINE gs == [c \in Characters |-> IF c \in strayed THEN Strayed(gather[c]) ELSE gather[c]]
             ks == [c \in Characters |-> IF c \in strayed THEN Strayed(craft[c]) ELSE craft[c]]
  <1>2. v = [bag |-> bag, node |-> CaughtUp(node), gather |-> gs, craft |-> ks]
    BY DEF regen_due_nodes, movement_step, Tabled, CaughtUp
  <1>3. /\ gs \in [Characters -> GatherSession \cup {None}]
        /\ \A c \in Characters : gs[c] = None <=> gather[c] = None
    BY <1>1, StrayedIs
  <1>4. /\ ks \in [Characters -> CraftSession \cup {None}]
        /\ \A c \in Characters : ks[c] = None <=> craft[c] = None
    BY <1>1, StrayedIs
  <1>5. CaughtUp(node) \in [Nodes -> GoodRow]
    BY <1>1, CaughtUpIs
  <1> HIDE DEF gs, ks
  <1>6. v \in World
    BY <1>1, <1>2, <1>3, <1>4, <1>5 DEF World
  <1> QED
    BY <1>2, <1>3, <1>4, <1>6

(* What a tick does: first the nodes that are due catch up, and then the   *)
(* channels move pieces about, whose wealth stays the same.                *)
Ticked ==
    \E v, z \in World :
       /\ v.bag = bag /\ v.node = CaughtUp(node)
       /\ bag' = z.bag /\ node' = z.node
       /\ Total(z) = Total(v)

(* A tick keeps the invariant, and is such a step.                         *)
LEMMA TickKeeps ==
    ASSUME IInv, game_tick
    PROVE  IInv' /\ (UNCHANGED <<bag, node>> \/ Ticked)
  <1>1. advance_clock \in Nat
    BY ClockIs
  <1>2. lag' = 0 /\ lag' \in 0..MaxLag \cup {None}
    <2>1. MaxLag \in Nat /\ lag' = 0
      BY ConstantsAre DEF ConstantsAssumed, game_tick
    <2> QED
      BY <2>1
  <1>3. CASE advance_clock = 0
    <2>1. UNCHANGED <<body, bag, node, gather, craft>>
      BY <1>3 DEF game_tick
    <2> QED
      BY <1>2, <2>1 DEF IInv, Sound
  <1>4. CASE advance_clock # 0
    <2> DEFINE dt == advance_clock
               G == {c \in Characters : gather[c] # None}
    <2>1. PICK walking \in SUBSET Walkers :
             \E strayed \in SUBSET (Walkers \ walking) :
             \E order \in SetToSeqs(G), bonus \in [G -> 0..MaxBonus],
                time \in [G -> GatherTimes] :
             \E w \in {work_step(regen_due_nodes(movement_step(Tabled, strayed)),
                                 dt, walking, order, bonus, time)} :
                /\ body' = [c \in Characters |->
                      reap_the_dead([body[c] EXCEPT !.walking = c \in walking])]
                /\ bag' = w.bag /\ node' = w.node /\ gather' = w.gather /\ craft' = w.craft
      BY <1>4 DEF game_tick, Tabled
    <2>2. PICK strayed \in SUBSET (Walkers \ walking) :
             \E order \in SetToSeqs(G), bonus \in [G -> 0..MaxBonus],
                time \in [G -> GatherTimes] :
             \E w \in {work_step(regen_due_nodes(movement_step(Tabled, strayed)),
                                 dt, walking, order, bonus, time)} :
                /\ body' = [c \in Characters |->
                      reap_the_dead([body[c] EXCEPT !.walking = c \in walking])]
                /\ bag' = w.bag /\ node' = w.node /\ gather' = w.gather /\ craft' = w.craft
      BY <2>1
    <2> DEFINE v == regen_due_nodes(movement_step(Tabled, strayed))
    <2>3. PICK order \in SetToSeqs(G), bonus \in [G -> 0..MaxBonus],
                time \in [G -> GatherTimes] :
             \E w \in {work_step(v, dt, walking, order, bonus, time)} :
                /\ body' = [c \in Characters |->
                      reap_the_dead([body[c] EXCEPT !.walking = c \in walking])]
                /\ bag' = w.bag /\ node' = w.node /\ gather' = w.gather /\ craft' = w.craft
      BY <2>2
    <2> DEFINE z == work_step(v, dt, walking, order, bonus, time)
    <2>4. /\ v \in World /\ v.bag = bag /\ v.node = CaughtUp(node)
          /\ \A c \in Characters : v.gather[c] = None <=> gather[c] = None
          /\ \A c \in Characters : v.craft[c] = None <=> craft[c] = None
      BY TickStarts
    <2>5. /\ body' = [c \in Characters |->
                      reap_the_dead([body[c] EXCEPT !.walking = c \in walking])]
          /\ bag' = z.bag /\ node' = z.node /\ gather' = z.gather /\ craft' = z.craft
      BY <2>3
    <2> HIDE DEF v
    <2>6. G \in SUBSET Characters /\ \A c \in Characters : c \in G <=> v.gather[c] # None
      BY <2>4
    <2>7. dt \in Nat
      BY <1>1
    <2> HIDE DEF dt, G
    <2>8. /\ z \in World /\ Total(z) = Total(v)
          /\ \A c \in Characters : z.gather[c] # None => v.gather[c] # None
          /\ \A c \in Characters : z.craft[c] # None => v.craft[c] # None
      BY <2>4, <2>6, <2>7, WorkIs
    <2> HIDE DEF z
    <2>9. body \in [Characters -> BodyRow] /\ Apart(body, gather, craft)
      BY DEF IInv, Sound
    <2>10. /\ body' \in [Characters -> BodyRow]
           /\ \A c \in Characters : body'[c].mind = body[c].mind
      <3>1. ASSUME NEW c \in Characters
            PROVE  /\ reap_the_dead([body[c] EXCEPT !.walking = c \in walking]) \in BodyRow
                   /\ reap_the_dead([body[c] EXCEPT !.walking = c \in walking]).mind = body[c].mind
        <4> DEFINE b == c \in walking
        <4>1. b \in BOOLEAN /\ body[c] \in BodyRow
          BY <2>9
        <4> HIDE DEF b
        <4>2. /\ reap_the_dead([body[c] EXCEPT !.walking = b]) \in BodyRow
              /\ reap_the_dead([body[c] EXCEPT !.walking = b]).mind = body[c].mind
          BY <4>1 DEF BodyRow, reap_the_dead, Killed
        <4> QED
          BY <4>2 DEF b
      <3> QED
        BY <2>5, <3>1
    <2>11. Apart(body', gather', craft')
      <3>1. ASSUME NEW c \in Characters, gather'[c] # None
            PROVE  craft'[c] = None /\ body'[c].mind # "casting"
        <4>1. gather[c] # None
          BY <2>4, <2>5, <2>8, <3>1
        <4>2. craft[c] = None /\ body[c].mind # "casting"
          BY <2>9, <4>1 DEF Apart
        <4> QED
          BY <2>4, <2>5, <2>8, <2>10, <4>2
      <3> QED
        BY <3>1 DEF Apart
    <2>12. IInv'
      <3>1. /\ bag' \in [Characters -> Bag] /\ node' \in [Nodes -> GoodRow]
            /\ gather' \in [Characters -> GatherSession \cup {None}]
            /\ craft' \in [Characters -> CraftSession \cup {None}]
        BY <2>5, <2>8, WorldParts
      <3> QED
        BY <1>2, <2>10, <2>11, <3>1 DEF IInv, Sound
    <2>13. Ticked
      BY <2>4, <2>5, <2>8 DEF Ticked
    <2> QED
      BY <2>12, <2>13
  <1> QED
    BY <1>3, <1>4

(* Every step keeps the invariant.                                         *)
LEMMA StepKeeps == IInv /\ [Next]_vars => IInv'
  <1> SUFFICES ASSUME IInv, [Next]_vars PROVE IInv'
    OBVIOUS
  <1>1. CASE Elapse
    BY <1>1, ElapseKeeps
  <1>2. CASE game_tick
    BY <1>2, TickKeeps
  <1>3. CASE gm_reset_runtime_state
    BY <1>3, ResetKeeps
  <1>4. ASSUME NEW c \in Characters, NEW n \in Nodes, start_gather(c, n) PROVE IInv'
    BY <1>4, StartGatherKeeps
  <1>5. ASSUME NEW c \in Characters, NEW q \in Quantities, start_craft(c, q) PROVE IInv'
    BY <1>5, StartCraftKeeps
  <1>6. ASSUME NEW c \in Characters, stop_gather(c) \/ stop_craft(c) PROVE IInv'
    BY <1>6, StopKeeps
  <1>7. ASSUME NEW c \in Characters, NEW lasting \in BOOLEAN, cast(c, lasting) PROVE IInv'
    BY <1>7, CastKeeps
  <1>8. ASSUME NEW c \in Characters, end_cast(c) PROVE IInv'
    BY <1>8, EndCastKeeps
  <1>9. ASSUME NEW c \in Characters, NEW frozen \in BOOLEAN, materialize(c, frozen) PROVE IInv'
    BY <1>9, MaterializeKeeps
  <1>10. ASSUME NEW c \in Characters, wear_off(c) PROVE IInv'
    BY <1>10, WearOffKeeps
  <1>11. ASSUME NEW c \in Characters, move_to(c) \/ stop(c) PROVE IInv'
    BY <1>11, WalkKeeps
  <1>12. ASSUME NEW c \in Characters, NEW killed \in BOOLEAN, apply_damage(c, killed) PROVE IInv'
    BY <1>12, DamageKeeps
  <1>13. ASSUME NEW c \in Characters, displace(c) \/ resurrect(c) PROVE IInv'
    BY <1>13, DisplaceKeeps
  <1>14. ASSUME NEW c \in Characters,
                \/ \E i \in Items : receive(c, i)
                \/ \E s \in Slots : discard(c, s)
         PROVE  IInv'
    BY <1>14, GestureKeeps
  <1>15. CASE UNCHANGED vars
    BY <1>15 DEF vars, IInv, Sound
  <1> QED
    BY <1>1, <1>2, <1>3, <1>4, <1>5, <1>6, <1>7, <1>8, <1>9, <1>10, <1>11, <1>12, <1>13,
       <1>14, <1>15 DEF Next

(* The invariant holds always.                                             *)
THEOREM Invariance == Spec => []IInv
  BY InitHolds, StepKeeps, PTL DEF Spec

(* The state is of its types in every reachable state.                     *)
THEOREM TypesHold == Spec => []TypeOK
  BY Invariance, IInvTypes, PTL

(* Whichever of gather, craft and cast begins over another, a gather goes  *)
(* with neither.                                                           *)
THEOREM NobodyHasTwoOccupations == Spec => []OneOccupation
  BY Invariance, IInvOccupations, PTL

(* A node below its maximum is always scheduled to regrow, one interval    *)
(* after it last grew, and a full node never.                              *)
THEOREM NodesAreScheduled == Spec => []RegrowthScheduled
  BY Invariance, IInvSchedules, PTL

-----------------------------------------------------------------------------
(* 13. Wealth.                                                             *)

(* What there is, and what may have grown.                                 *)
Owned(rows, bags) ==
    SumFunctionOnSet(Stock(rows), Nodes) + SumFunctionOnSet(Worths(bags), Characters)

Grown(rows) == [n \in Nodes |-> persist_regen(rows[n]).pieces - rows[n].pieces]

(* The wealth of the model is that of its tables.                          *)
LEMMA WealthIs ==
    /\ Wealth = Owned(node, bag) /\ Wealth' = Owned(node', bag')
    /\ Regrowth = SumFunctionOnSet(Grown(node), Nodes)
  <1>1. ASSUME NEW rows, NEW bags
        PROVE  SumFunction(Stock(rows)) + SumFunction(Worths(bags)) = Owned(rows, bags)
    <2>1. DOMAIN Stock(rows) = Nodes /\ DOMAIN Worths(bags) = Characters
      BY DEF Stock, Worths
    <2> QED
      BY <2>1, SumOfFunction DEF Owned
  <1>2. Wealth = SumFunction(Stock(node)) + SumFunction(Worths(bag))
    BY DEF Wealth, Stock, Worths, Worth
  <1>3. Wealth' = SumFunction(Stock(node')) + SumFunction(Worths(bag'))
    BY DEF Wealth, Stock, Worths, Worth
  <1>4. Regrowth = SumFunction(Grown(node)) /\ DOMAIN Grown(node) = Nodes
    BY DEF Regrowth, Grown
  <1> QED
    BY <1>1, <1>2, <1>3, <1>4, SumOfFunction

(* Rows that only may have caught up hold no less, and no more than is due.*)
LEMMA GrowthIs ==
    ASSUME NEW rows \in [Nodes -> GoodRow], NEW next \in [Nodes -> GoodRow],
           NEW bags \in [Characters -> Bag],
           \A n \in Nodes : \/ next[n].pieces = rows[n].pieces
                            \/ next[n].pieces = persist_regen(rows[n]).pieces
    PROVE  /\ Owned(rows, bags) \in Nat
           /\ Owned(next, bags)
                \in Owned(rows, bags)..(Owned(rows, bags) + SumFunctionOnSet(Grown(rows), Nodes))
  <1> DEFINE f == Stock(rows)
             g == Stock(next)
             d == Grown(rows)
             h == [n \in Nodes |-> f[n] + d[n]]
  <1>1. IsFiniteSet(Nodes)
    BY ConstantsAre DEF ConstantsAssumed
  <1>2. ASSUME NEW n \in Nodes
        PROVE  /\ f[n] \in Int /\ g[n] \in Int /\ d[n] \in Int
               /\ f[n] <= g[n] /\ g[n] <= f[n] + d[n]
    <2> DEFINE p == persist_regen(rows[n]).pieces
    <2>1. f[n] = rows[n].pieces /\ f[n] \in Nat /\ g[n] = next[n].pieces /\ g[n] \in Nat
      BY StockIsNat
    <2>2. p \in rows[n].pieces..MAX_PIECES /\ MAX_PIECES \in Nat
      BY RegrownIs, ConstantsAre DEF ConstantsAssumed
    <2>3. d[n] = p - rows[n].pieces
      BY DEF Grown
    <2>4. g[n] = rows[n].pieces \/ g[n] = p
      BY <2>1
    <2> HIDE DEF p, f, g, d
    <2> QED
      BY <2>1, <2>2, <2>3, <2>4
  <1>3. \A n \in Nodes : h[n] = f[n] + d[n]
    OBVIOUS
  <1> HIDE DEF f, g, d, h
  <1>4. SumFunctionOnSet(f, Nodes) <= SumFunctionOnSet(g, Nodes)
    BY <1>1, <1>2, SumMonotone
  <1>5. SumFunctionOnSet(g, Nodes) <= SumFunctionOnSet(h, Nodes)
    <2>1. \A n \in Nodes : g[n] \in Int /\ h[n] \in Int /\ g[n] <= h[n]
      BY <1>2, <1>3
    <2> QED
      BY <1>1, <2>1, SumMonotone
  <1>6. SumFunctionOnSet(h, Nodes) = SumFunctionOnSet(f, Nodes) + SumFunctionOnSet(d, Nodes)
    BY <1>1, <1>2, <1>3, SumPlus
  <1>7. SumFunctionOnSet(d, Nodes) \in Int
    BY <1>1, <1>2, SumWithout
  <1>8. SumFunctionOnSet(f, Nodes) \in Nat /\ SumFunctionOnSet(g, Nodes) \in Nat
    BY StockIsNat DEF f, g
  <1>9. SumFunctionOnSet(Worths(bags), Characters) \in Nat
    BY WorthsAreNat
  <1> DEFINE a == SumFunctionOnSet(f, Nodes)
             b == SumFunctionOnSet(g, Nodes)
             e == SumFunctionOnSet(d, Nodes)
             w == SumFunctionOnSet(Worths(bags), Characters)
  <1>10. /\ a \in Nat /\ b \in Nat /\ e \in Int /\ w \in Nat /\ a <= b /\ b <= a + e
    BY <1>4, <1>5, <1>6, <1>7, <1>8, <1>9
  <1>11. Owned(rows, bags) = a + w /\ Owned(next, bags) = b + w
    BY DEF Owned, f, g
  <1> HIDE DEF a, b, e, w
  <1>12. a + w \in Nat /\ b + w \in (a + w)..((a + w) + e)
    BY <1>10
  <1> QED
    BY <1>11, <1>12 DEF e, d

(* What a step may do to the wealth.                                       *)
Accounted ==
    UNCHANGED <<node, bag>> \/ UNCHANGED <<node, gather, craft>>
    \/ Wealth' \in Wealth..(Wealth + Regrowth)

(* Rows that may have caught up, and bags as they were, are accounted for. *)
LEMMA CatchUpAccounted ==
    ASSUME IInv, IInv', bag' = bag,
           \A n \in Nodes : \/ node'[n].pieces = node[n].pieces
                            \/ node'[n].pieces = persist_regen(node[n]).pieces
    PROVE  Accounted
  <1>1. /\ bag \in [Characters -> Bag] /\ node \in [Nodes -> GoodRow]
        /\ node' \in [Nodes -> GoodRow]
    BY DEF IInv, Sound
  <1>2. Owned(node', bag)
          \in Owned(node, bag)..(Owned(node, bag) + SumFunctionOnSet(Grown(node), Nodes))
    BY <1>1, GrowthIs
  <1> QED
    BY <1>2, WealthIs DEF Accounted

(* The tick is: what grows is due, and what moves is not lost.             *)
LEMMA TickAccounted ==
    ASSUME IInv, Ticked
    PROVE  Accounted
  <1>1. PICK v \in World, z \in World :
           /\ v.bag = bag /\ v.node = CaughtUp(node)
           /\ bag' = z.bag /\ node' = z.node
           /\ Total(z) = Total(v)
    BY DEF Ticked
  <1>2. bag \in [Characters -> Bag] /\ node \in [Nodes -> GoodRow]
    BY DEF IInv, Sound
  <1>3. CaughtUp(node) \in [Nodes -> GoodRow]
    BY <1>2, CaughtUpIs
  <1>4. \A n \in Nodes : \/ CaughtUp(node)[n].pieces = node[n].pieces
                         \/ CaughtUp(node)[n].pieces = persist_regen(node[n]).pieces
    BY DEF CaughtUp
  <1>5. Owned(CaughtUp(node), bag)
          \in Owned(node, bag)..(Owned(node, bag) + SumFunctionOnSet(Grown(node), Nodes))
    BY <1>2, <1>3, <1>4, GrowthIs
  <1>6. Owned(node', bag') = Owned(CaughtUp(node), bag)
    BY <1>1 DEF Total, Owned
  <1> QED
    BY <1>5, <1>6, WealthIs DEF Accounted

(* Every step is accounted for.                                            *)
LEMMA StepAccounted == IInv /\ [Next]_vars => [Accounted]_<<node, bag>>
  <1> SUFFICES ASSUME IInv, [Next]_vars PROVE Accounted
    OBVIOUS
  <1>0. IInv'
    BY StepKeeps
  <1>1. CASE Elapse
    <2>1. bag' = bag /\ \A n \in Nodes : node'[n].pieces = node[n].pieces
      BY <1>1, ElapseKeeps DEF Elapse
    <2> QED
      BY <1>0, <2>1, CatchUpAccounted
  <1>2. CASE game_tick
    <2>1. UNCHANGED <<bag, node>> \/ Ticked
      BY <1>2, TickKeeps
    <2> QED
      BY <2>1, TickAccounted DEF Accounted
  <1>3. CASE gm_reset_runtime_state
    <2>1. bag' = bag /\ \A n \in Nodes : node'[n].pieces = node[n].pieces
      BY <1>3, ResetKeeps DEF gm_reset_runtime_state
    <2> QED
      BY <1>0, <2>1, CatchUpAccounted
  <1>4. ASSUME NEW c \in Characters, NEW n \in Nodes, start_gather(c, n) PROVE Accounted
    <2>1. bag' = bag /\ node' = [node EXCEPT ![n] = persist_regen(node[n])]
      BY <1>4 DEF start_gather
    <2>2. node \in [Nodes -> GoodRow]
      BY DEF IInv, Sound
    <2>3. \A m \in Nodes : \/ node'[m].pieces = node[m].pieces
                           \/ node'[m].pieces = persist_regen(node[m]).pieces
      BY <2>1, <2>2
    <2> QED
      BY <1>0, <2>1, <2>3, CatchUpAccounted
  <1>5. ASSUME NEW c \in Characters,
               \/ \E i \in Items : receive(c, i)
               \/ \E s \in Slots : discard(c, s)
        PROVE  Accounted
    BY <1>5 DEF receive, discard, Gesture, Accounted
  <1>6. ASSUME NEW c \in Characters,
               \/ \E q \in Quantities : start_craft(c, q)
               \/ \E lasting \in BOOLEAN : cast(c, lasting)
               \/ \E killed \in BOOLEAN : apply_damage(c, killed)
               \/ stop_gather(c) \/ stop_craft(c) \/ displace(c) \/ resurrect(c)
        PROVE  UNCHANGED <<node, bag>>
    BY <1>6 DEF start_craft, cast, apply_damage, stop_gather, stop_craft, displace, resurrect
  <1>7. ASSUME NEW c \in Characters,
               \/ \E frozen \in BOOLEAN : materialize(c, frozen)
               \/ end_cast(c) \/ wear_off(c) \/ move_to(c) \/ stop(c)
        PROVE  UNCHANGED <<node, bag>>
    BY <1>7 DEF materialize, end_cast, wear_off, move_to, stop, Embody
  <1>8. CASE UNCHANGED vars
    BY <1>8 DEF vars, Accounted
  <1>9. ASSUME UNCHANGED <<node, bag>> PROVE Accounted
    BY <1>9 DEF Accounted
  <1> HIDE DEF Accounted
  <1> QED
    BY <1>1, <1>2, <1>3, <1>4, <1>5, <1>6, <1>7, <1>8, <1>9 DEF Next

(* No channel makes or loses a piece: what the bags get the nodes lose,    *)
(* and no more grows than is due.                                          *)
THEOREM ChannelsMakeNothing == Spec => PiecesAccounted
  <1>1. [Accounted]_<<node, bag>>
          => [UNCHANGED <<node, gather, craft>>
              \/ Wealth' \in Wealth..(Wealth + Regrowth)]_<<node, bag>>
    BY DEF Accounted
  <1> QED
    BY <1>1, Invariance, StepAccounted, PTL DEF Spec, PiecesAccounted

-----------------------------------------------------------------------------
(* 14. Rows of piles: a bag is one, and so is what somebody wears.         *)

Row(D) == [D -> Pile \cup {Nothing}]

(* What a place counts for item i.                                         *)
Amount(p, i) == IF p # Nothing /\ p.item = i THEN p.quantity ELSE 0

(* What was p has become q.                                                *)
Exchanged(b, c, p, q) ==
    \A i : count_item(c, i) = count_item(b, i) - Amount(p, i) + Amount(q, i)

(* An amount is a number.                                                  *)
LEMMA AmountIsNat ==
    ASSUME NEW p \in Pile \cup {Nothing}, NEW i
    PROVE  Amount(p, i) \in Nat
  BY PileParts DEF Amount

(* count_item adds up the amounts of a row.                                *)
LEMMA RowCount ==
    ASSUME NEW D, IsFiniteSet(D), NEW b \in Row(D), NEW i
    PROVE  /\ count_item(b, i) = SumFunctionOnSet([x \in D |-> Amount(b[x], i)], D)
           /\ count_item(b, i) \in Nat
  <1> DEFINE H == Holding(b, i)
             f == [x \in H |-> b[x].quantity]
             g == [x \in D |-> Amount(b[x], i)]
  <1>1. DOMAIN b = D /\ H = {x \in D : b[x] # Nothing /\ b[x].item = i} /\ H \in SUBSET D
    BY DEF Row, Holding, Occupied, Free
  <1>2. \A x \in D : g[x] \in Nat
    BY AmountIsNat DEF Row
  <1>3. \A x \in H : f[x] = g[x]
    BY <1>1 DEF Amount
  <1>4. \A x \in D \ H : g[x] = 0
    BY <1>1 DEF Amount
  <1>5. count_item(b, i) = SumFunctionOnSet(f, H)
    BY SumOfFunction DEF count_item
  <1> HIDE DEF H, f, g
  <1>6. \A x \in H : f[x] \in Int /\ g[x] = f[x]
    BY <1>1, <1>2, <1>3
  <1>7. SumFunctionOnSet(g, D) = SumFunctionOnSet(f, H)
    BY <1>1, <1>4, <1>6, SumElsewhere
  <1>8. SumFunctionOnSet(g, D) \in Nat
    BY <1>2, SumNat
  <1> QED
    BY <1>5, <1>7, <1>8 DEF g

(* One place of a row changes.                                             *)
LEMMA RowOneChanged ==
    ASSUME NEW D, IsFiniteSet(D), NEW b \in Row(D), NEW x \in D, NEW p \in Pile \cup {Nothing}
    PROVE  /\ [b EXCEPT ![x] = p] \in Row(D)
           /\ Exchanged(b, [b EXCEPT ![x] = p], b[x], p)
  <1> DEFINE c == [b EXCEPT ![x] = p]
  <1>1. c \in Row(D) /\ c[x] = p /\ \A y \in D \ {x} : c[y] = b[y]
    BY DEF Row
  <1>2. ASSUME NEW i PROVE count_item(c, i) = count_item(b, i) - Amount(b[x], i) + Amount(p, i)
    <2> DEFINE f == [y \in D |-> Amount(b[y], i)]
               g == [y \in D |-> Amount(c[y], i)]
    <2> HIDE DEF c
    <2>1. f[x] = Amount(b[x], i) /\ g[x] = Amount(p, i)
      BY <1>1
    <2>2. \A y \in D : f[y] \in Int /\ g[y] \in Int
      BY <1>1, AmountIsNat DEF Row
    <2>3. \A y \in D \ {x} : f[y] = g[y]
      BY <1>1
    <2>4. count_item(b, i) = SumFunctionOnSet(f, D) /\ count_item(c, i) = SumFunctionOnSet(g, D)
      BY <1>1, RowCount
    <2> HIDE DEF f, g
    <2>5. SumsDifferAt(x, f, g, D)
      BY <2>2, <2>3, SumOneChanged DEF DifferAt
    <2> QED
      BY <2>1, <2>4, <2>5 DEF SumsDifferAt
  <1> QED
    BY <1>1, <1>2 DEF c, Exchanged

(* A bag is a row over its slots.                                          *)
LEMMA BagIsRow == Bag = Row(Slots) /\ IsFiniteSet(Slots)
  BY SlotsAreFinite DEF Bag, Row

(* What a row has in place x, and in the others.                           *)
ChangedAt(b, c, x, p) == c[x] = p /\ \A y \in Slots \ {x} : c[y] = b[y]

(* One slot of a bag changes.                                              *)
LEMMA BagOneChanged ==
    ASSUME NEW b \in Bag, NEW x \in Slots, NEW p \in Pile \cup {Nothing},
           NEW c, c = [b EXCEPT ![x] = p]
    PROVE  /\ c \in Bag
           /\ Exchanged(b, c, b[x], p)
           /\ ChangedAt(b, c, x, p)
  <1>1. b \in Row(Slots) /\ IsFiniteSet(Slots)
    BY BagIsRow
  <1>2. /\ [b EXCEPT ![x] = p] \in Row(Slots)
        /\ Exchanged(b, [b EXCEPT ![x] = p], b[x], p)
    BY <1>1, RowOneChanged
  <1>3. c[x] = p /\ \A y \in Slots \ {x} : c[y] = b[y]
    BY DEF Bag
  <1> QED
    BY <1>2, <1>3, BagIsRow DEF ChangedAt

-----------------------------------------------------------------------------
(* 15. Gestures on a bag.                                                  *)

(* A gesture counts what it counted.                                       *)
SameCounts(b, c) == \A i : count_item(c, i) = count_item(b, i)

(* Each pile is still where it was, or gone.                               *)
Fewer(b, c) == \A s \in Slots : c[s] # Nothing => b[s] # Nothing /\ c[s].id = b[s].id

(* What is left of a pile.                                                 *)
LEMMA DrainedIs ==
    ASSUME NEW p \in Pile, NEW n \in Nat, n <= p.quantity
    PROVE  /\ Drained(p, n) \in Pile \cup {Nothing}
           /\ Drained(p, n) # Nothing => Drained(p, n).id = p.id
           /\ \A i : Amount(Drained(p, n), i) = IF i = p.item THEN p.quantity - n ELSE 0
  <1> DEFINE q == Drained(p, n)
             j == p.item
             k == p.quantity
  <1>1. j \in Items /\ k \in Nat \ {0} /\ k <= Cap(j) /\ Cap(j) \in Nat
    BY PileParts, CapsArePositive DEF CapPositive
  <1>2. CASE n = k
    BY <1>1, <1>2 DEF Drained, Amount
  <1>3. CASE n # k
    <2>1. q = [p EXCEPT !.quantity = k - n]
      BY <1>3 DEF Drained
    <2>2. k - n \in Nat \ {0} /\ k - n <= Cap(j)
      BY <1>1, <1>3
    <2> HIDE DEF q, k
    <2>3. q \in Pile /\ q.item = j /\ q.quantity = k - n /\ q.id = p.id
      BY <2>1, <2>2, PileResized
    <2> HIDE DEF j
    <2>4. \A i : Amount(q, i) = IF i = j THEN k - n ELSE 0
      BY <2>3, NothingIsNoPile DEF Amount
    <2> QED
      BY <2>3, <2>4 DEF q, k, j
  <1> QED
    BY <1>2, <1>3

(* Two slots are exchanged.                                                *)
LEMMA SwapKeeps ==
    ASSUME NEW b \in Bag, NEW from \in Slots, NEW to \in Slots
    PROVE  /\ [b EXCEPT ![from] = b[to], ![to] = b[from]] \in Bag
           /\ SameCounts(b, [b EXCEPT ![from] = b[to], ![to] = b[from]])
  <1> DEFINE c == [b EXCEPT ![from] = b[to], ![to] = b[from]]
             d == [b EXCEPT ![from] = b[to]]
  <1>1. b[from] \in Pile \cup {Nothing} /\ b[to] \in Pile \cup {Nothing}
    BY BagParts
  <1>2. d = [b EXCEPT ![from] = b[to]]
    OBVIOUS
  <1>3. c = [d EXCEPT ![to] = b[from]] /\ d[to] = b[to]
    BY BagParts DEF Bag
  <1> HIDE DEF c, d
  <1>6. d \in Bag /\ Exchanged(b, d, b[from], b[to])
    BY <1>1, <1>2, BagOneChanged
  <1>4. c \in Bag /\ Exchanged(d, c, d[to], b[from])
    BY <1>1, <1>3, <1>6, BagOneChanged
  <1>5. ASSUME NEW i PROVE count_item(c, i) = count_item(b, i)
    <2> DEFINE x == count_item(b, i)
               y == Amount(b[from], i)
               z == Amount(b[to], i)
    <2>1. x \in Nat /\ y \in Nat /\ z \in Nat
      BY <1>1, AmountIsNat, CountIs
    <2>2. count_item(d, i) = x - y + z /\ count_item(c, i) = count_item(d, i) - z + y
      BY <1>3, <1>4, <1>6 DEF Exchanged
    <2> HIDE DEF x, y, z
    <2>3. count_item(c, i) = x
      BY <2>1, <2>2
    <2> QED
      BY <2>3 DEF x
  <1> QED
    BY <1>4, <1>5 DEF c, SameCounts

(* A pile pours into another as far as there is room.                      *)
LEMMA TransferKeeps ==
    ASSUME NEW b \in Bag, NEW from \in Slots, NEW to \in Slots, can_merge_slots(b, from, to)
    PROVE  /\ transfer_stack(b, from, to) \in Bag
           /\ SameCounts(b, transfer_stack(b, from, to))
           /\ Fewer(b, transfer_stack(b, from, to))
  <1> DEFINE p == b[from]
             q == b[to]
             moved == Min({p.quantity, MAX_STACK - q.quantity})
             more == [q EXCEPT !.quantity = q.quantity + moved]
             less == Drained(p, moved)
             c == transfer_stack(b, from, to)
             d == [b EXCEPT ![to] = more]
             j == p.item
  <1>1. /\ p \in Pile /\ q \in Pile /\ from # to /\ DOMAIN b = Slots
        /\ q.item = j /\ j \in Materials /\ q.quantity < MAX_STACK
    BY BagParts DEF can_merge_slots
  <1>2. /\ p.quantity \in Nat \ {0} /\ q.quantity \in Nat \ {0} /\ j \in Items
        /\ p # Nothing /\ q # Nothing
        /\ Cap(j) = MAX_STACK /\ MAX_STACK \in Nat
        /\ p.quantity <= MAX_STACK
    BY <1>1, PileParts, InventoryAssumption DEF Cap
  <1>3. moved \in Nat /\ moved <= p.quantity /\ q.quantity + moved <= MAX_STACK
    <2> DEFINE x == p.quantity
               y == MAX_STACK - q.quantity
    <2>1. x \in Nat /\ y \in Nat /\ moved = Min({x, y})
      BY <1>1, <1>2
    <2> HIDE DEF x, y, moved
    <2>2. moved \in Nat /\ moved <= x /\ moved <= y
      BY <2>1, MinOfTwo
    <2> QED
      BY <1>2, <2>2 DEF x, y
  <1>4. c = [b EXCEPT ![to].quantity = @ + moved, ![from] = Drained(@, moved)]
    BY DEF transfer_stack
  <1> HIDE DEF c, moved
  <1>12. \A s \in Slots : c[s] = IF s = from THEN less ELSE IF s = to THEN more ELSE b[s]
    BY <1>1, <1>4
  <1>13. DOMAIN c = Slots /\ c = [s \in Slots |-> c[s]]
    BY <1>1, <1>4
  <1>5. more \in Pile /\ more.item = j /\ more.quantity = q.quantity + moved /\ more.id = q.id
    <2>1. q.quantity + moved \in Nat \ {0}
      BY <1>2, <1>3
    <2> HIDE DEF p, q, j
    <2> QED
      BY <1>1, <1>2, <1>3, <2>1, PileResized
  <1>6. /\ less \in Pile \cup {Nothing}
        /\ less # Nothing => less.id = p.id
        /\ \A i : Amount(less, i) = IF i = j THEN p.quantity - moved ELSE 0
    BY <1>1, <1>2, <1>3, DrainedIs
  <1> HIDE DEF more, less
  <1>8. c = [d EXCEPT ![from] = less] /\ d[from] = p /\ d = [b EXCEPT ![to] = more]
    BY <1>1, <1>12, <1>13
  <1> HIDE DEF d
  <1>7. d \in Bag /\ Exchanged(b, d, q, more)
    BY <1>5, <1>8, BagOneChanged
  <1>9. c \in Bag /\ Exchanged(d, c, p, less)
    BY <1>6, <1>7, <1>8, BagOneChanged
  <1>10. ASSUME NEW i PROVE count_item(c, i) = count_item(b, i)
    <2>1. count_item(b, i) \in Nat
      BY CountIs
    <2>2. /\ Amount(q, i) = IF i = j THEN q.quantity ELSE 0
          /\ Amount(p, i) = IF i = j THEN p.quantity ELSE 0
          /\ Amount(more, i) = IF i = j THEN q.quantity + moved ELSE 0
          /\ Amount(less, i) = IF i = j THEN p.quantity - moved ELSE 0
      BY <1>1, <1>2, <1>5, <1>6, NothingIsNoPile DEF Amount
    <2> DEFINE x == count_item(b, i)
               u == p.quantity
               v == q.quantity
    <2>3. /\ x \in Nat /\ u \in Nat /\ v \in Nat /\ moved \in Nat
          /\ count_item(d, i) = x - (IF i = j THEN v ELSE 0) + (IF i = j THEN v + moved ELSE 0)
          /\ count_item(c, i) = count_item(d, i) - (IF i = j THEN u ELSE 0)
                                                 + (IF i = j THEN u - moved ELSE 0)
      BY <1>2, <1>3, <1>7, <1>9, <2>1, <2>2 DEF Exchanged
    <2> HIDE DEF x, u, v, j
    <2>4. count_item(c, i) = x
      BY <2>3
    <2> QED
      BY <2>4 DEF x
  <1>11. Fewer(b, c)
    BY <1>1, <1>2, <1>5, <1>6, <1>12 DEF Fewer
  <1> QED
    BY <1>9, <1>10, <1>11 DEF c, SameCounts

(* A pile that arrives in the first free slot.                             *)
LEMMA PutIs ==
    ASSUME NEW b \in Bag, NEW p \in Pile, Free(b) # {}
    PROVE  /\ PutInFirstFree(b, p) \in Bag
           /\ Exchanged(b, PutInFirstFree(b, p), Nothing, p)
           /\ \E s \in Slots : b[s] = Nothing /\ ChangedAt(b, PutInFirstFree(b, p), s, p)
  <1> DEFINE s == Min(Free(b))
             c == PutInFirstFree(b, p)
  <1>1. Free(b) \in SUBSET Slots
    BY BagParts
  <1>2. s \in Free(b)
    <2>1. Free(b) \in SUBSET Int /\ IsFiniteSet(Free(b))
      BY <1>1, SlotsAreFinite
    <2> QED
      BY <2>1, Extremes
  <1>3. s \in Slots /\ b[s] = Nothing /\ p \in Pile \cup {Nothing}
    BY <1>2, BagParts
  <1>4. c = [b EXCEPT ![s] = p]
    BY DEF PutInFirstFree
  <1> HIDE DEF s, c
  <1>5. c \in Bag /\ Exchanged(b, c, b[s], p) /\ ChangedAt(b, c, s, p)
    BY <1>3, <1>4, BagOneChanged
  <1> QED
    BY <1>3, <1>5 DEF c

Renumbered(p, n, q) == [p EXCEPT !.id = n, !.quantity = q]

(* A part of a pile is a pile.                                             *)
LEMMA PileRenumbered ==
    ASSUME NEW p \in Pile, NEW n \in Nat \ {0}, NEW q \in Nat \ {0}, q <= Cap(p.item)
    PROVE  /\ Renumbered(p, n, q) \in Pile
           /\ Renumbered(p, n, q).id = n
           /\ Renumbered(p, n, q).item = p.item
           /\ Renumbered(p, n, q).quantity = q
  BY DEF Pile, Renumbered

(* What a split leaves, and its new pile in slot t.                        *)
Splits(b, c, t, newId) ==
    /\ b[t] = Nothing /\ c[t] # Nothing /\ c[t].id = newId
    /\ \A u \in Slots \ {t} : c[u] # Nothing => b[u] # Nothing /\ c[u].id = b[u].id

(* A part of a stack leaves for the first free slot, under a new id.       *)
LEMMA SplitKeeps ==
    ASSUME NEW b \in Bag, NEW s \in Slots, NEW n, CanSplit(b, s, n), NEW newId \in Nat \ {0}
    PROVE  /\ split_stack(b, s, n, newId) \in Bag
           /\ SameCounts(b, split_stack(b, s, n, newId))
           /\ \E t \in Slots : Splits(b, split_stack(b, s, n, newId), t, newId)
  <1> DEFINE p == b[s]
             k == p.quantity
             less == [p EXCEPT !.quantity = k - n]
             part == [p EXCEPT !.id = newId, !.quantity = n]
             d == [b EXCEPT ![s] = less]
             c == split_stack(b, s, n, newId)
  <1>1. p \in Pile /\ p # Nothing /\ n \in 1..(k - 1) /\ Free(b) # {}
    BY BagParts DEF CanSplit
  <1>2. /\ k \in Nat \ {0} /\ k <= Cap(p.item) /\ p.item \in Items /\ Cap(p.item) \in Nat
    BY <1>1, PileParts, CapsArePositive DEF CapPositive
  <1>3. n \in Nat \ {0} /\ n # k /\ k - n \in Nat \ {0} /\ k - n <= Cap(p.item) /\ n <= Cap(p.item)
    BY <1>1, <1>2
  <1>4. less \in Pile /\ less.item = p.item /\ less.quantity = k - n /\ less.id = p.id
    <2> HIDE DEF p, k
    <2> QED
      BY <1>1, <1>3, PileResized
  <1>5. part \in Pile /\ part.item = p.item /\ part.quantity = n /\ part.id = newId
    <2>1. part = Renumbered(p, newId, n)
      BY DEF Renumbered
    <2> HIDE DEF p, part
    <2> QED
      BY <1>1, <1>3, <2>1, PileRenumbered
  <1>6. c = PutInFirstFree(d, part)
    <2>1. BagAfterTake(b, s, n) = d
      BY <1>3 DEF BagAfterTake
    <2>2. TakenPile(b, s, n, newId) = part
      BY <1>3 DEF TakenPile
    <2> QED
      BY <2>1, <2>2 DEF split_stack
  <1>7. d = [b EXCEPT ![s] = less]
    OBVIOUS
  <1> HIDE DEF c, d, less, part
  <1>9. less # Nothing /\ part # Nothing /\ less \in Pile \cup {Nothing}
    BY <1>4, <1>5, NothingIsNoPile
  <1>8. d \in Bag /\ Exchanged(b, d, p, less) /\ ChangedAt(b, d, s, less)
    BY <1>7, <1>9, BagOneChanged
  <1>10. Free(d) # {}
    <2>1. Free(b) = {t \in Slots : b[t] = Nothing} /\ Free(d) = {t \in Slots : d[t] = Nothing}
      BY <1>8, BagParts
    <2>2. \A t \in Slots : d[t] = Nothing <=> b[t] = Nothing
      BY <1>1, <1>8, <1>9 DEF ChangedAt
    <2>3. Free(d) = Free(b)
      BY <2>1, <2>2
    <2> QED
      BY <1>1, <2>3
  <1>11. /\ c \in Bag /\ Exchanged(d, c, Nothing, part)
         /\ \E t \in Slots : d[t] = Nothing /\ ChangedAt(d, c, t, part)
    BY <1>5, <1>6, <1>8, <1>10, PutIs
  <1>12. ASSUME NEW i PROVE count_item(c, i) = count_item(b, i)
    <2> DEFINE x == count_item(b, i)
               y == count_item(d, i)
               z == count_item(c, i)
               j == p.item
    <2>1. /\ Amount(p, i) = IF i = j THEN k ELSE 0
          /\ Amount(less, i) = IF i = j THEN k - n ELSE 0
          /\ Amount(part, i) = IF i = j THEN n ELSE 0
          /\ Amount(Nothing, i) = 0
      BY <1>1, <1>4, <1>5, <1>9 DEF Amount
    <2>2. /\ y = x - Amount(p, i) + Amount(less, i)
          /\ z = y - Amount(Nothing, i) + Amount(part, i)
      BY <1>8, <1>11 DEF Exchanged
    <2>3. x \in Nat
      BY CountIs
    <2> HIDE DEF x, y, z, j, k, p
    <2>4. z = x
      BY <1>2, <1>3, <2>1, <2>2, <2>3
    <2> QED
      BY <2>4 DEF x, z
  <1>13. PICK t \in Slots : d[t] = Nothing /\ ChangedAt(d, c, t, part)
    BY <1>11
  <1>14. Splits(b, c, t, newId)
    <2>1. t # s /\ b[t] = Nothing
      BY <1>8, <1>9, <1>13 DEF ChangedAt
    <2>2. ASSUME NEW u \in Slots \ {t}, c[u] # Nothing PROVE b[u] # Nothing /\ c[u].id = b[u].id
      BY <1>1, <1>4, <1>8, <1>13, <2>2 DEF ChangedAt
    <2> QED
      BY <1>5, <1>9, <1>13, <2>1, <2>2 DEF Splits, ChangedAt
  <1> QED
    BY <1>11, <1>12, <1>14 DEF c, SameCounts

(* The other piles of an item pour into one.                               *)
LEMMA CombineKeeps ==
    ASSUME NEW b \in Bag, NEW dest \in Slots, b[dest] # Nothing, b[dest].item \in Materials
    PROVE  /\ combine_into(b, dest) \in Bag
           /\ SameCounts(b, combine_into(b, dest))
           /\ Fewer(b, combine_into(b, dest))
  <1> DEFINE p == b[dest]
             j == p.item
             others == Holding(b, j) \ {dest}
             room == MAX_STACK - p.quantity
             held == [t \in others |-> b[t].quantity]
             poured(s) == Portion(room, held, s)
             flow == [s \in others |-> poured(s)]
             total == SumFunction(flow)
             more == [p EXCEPT !.quantity = p.quantity + total]
             c == combine_into(b, dest)
  <1>1. /\ p \in Pile /\ DOMAIN b = Slots /\ others \in SUBSET Slots /\ dest \notin others
        /\ \A s \in others : b[s] \in Pile /\ b[s] # Nothing /\ b[s].item = j
    BY BagParts
  <1>2. /\ p.quantity \in Nat \ {0} /\ j \in Items /\ Cap(j) = MAX_STACK
        /\ MAX_STACK \in Nat /\ p.quantity <= MAX_STACK /\ room \in Nat
    BY <1>1, PileParts, InventoryAssumption DEF Cap
  <1>3. held \in [others -> Nat] /\ \A s \in others : held[s] = b[s].quantity
    BY <1>1, PileParts
  <1>4. \A s \in others : poured(s) \in 0..b[s].quantity /\ b[s].quantity \in Nat
    <2> HIDE DEF others, held, room
    <2>1. \A s \in others : Portion(room, held, s) \in 0..held[s]
      BY <1>1, <1>2, <1>3, PortionIs
    <2> QED
      BY <1>3, <2>1
  <1>5. total = SumFunctionOnSet(flow, others) /\ IsFiniteSet(others)
    BY <1>1, SlotsAreFinite, SumOfFunction
  <1>6. total \in Nat /\ total <= room
    <2>1. \A s \in others : flow[s] = Portion(room, held, s)
      OBVIOUS
    <2> HIDE DEF others, held, room, flow
    <2>2. SumFunctionOnSet(flow, others) = Lesser(room, SumFunctionOnSet(held, others))
      BY <1>1, <1>2, <1>3, <2>1, PortionsSum
    <2>3. SumFunctionOnSet(held, others) \in Nat
      BY <1>3, <1>5, SumNat
    <2> HIDE DEF total
    <2> QED
      BY <1>2, <1>5, <2>2, <2>3 DEF Lesser
  <1>7. c = [s \in Slots |-> IF s = dest THEN more
                             ELSE IF s \in others THEN Drained(b[s], poured(s)) ELSE b[s]]
    BY <1>1 DEF combine_into
  <1>8. more \in Pile /\ more # Nothing /\ more.item = j /\ more.quantity = p.quantity + total
        /\ more.id = p.id
    <2>1. p.quantity + total \in Nat \ {0} /\ p.quantity + total <= Cap(j)
      BY <1>2, <1>6
    <2> HIDE DEF total, p, more, room
    <2>2. more \in Pile /\ more.item = j /\ more.quantity = p.quantity + total /\ more.id = p.id
      BY <1>1, <2>1, PileResized DEF more
    <2> QED
      BY <2>2, NothingIsNoPile
  <1> HIDE DEF c, more, held, room
  <1>9. ASSUME NEW s \in others
        PROVE  /\ c[s] \in Pile \cup {Nothing}
               /\ c[s] # Nothing => c[s].id = b[s].id
               /\ \A i : Amount(c[s], i) = IF i = j THEN b[s].quantity - poured(s) ELSE 0
    <2>1. c[s] = Drained(b[s], poured(s)) /\ s \in Slots
      BY <1>1, <1>7
    <2> DEFINE q == b[s]
               n == poured(s)
    <2>2. q \in Pile /\ q.item = j /\ n \in Nat /\ n <= q.quantity
      BY <1>1, <1>4
    <2> HIDE DEF q, n, j
    <2>3. /\ Drained(q, n) \in Pile \cup {Nothing}
          /\ Drained(q, n) # Nothing => Drained(q, n).id = q.id
          /\ \A i : Amount(Drained(q, n), i) = IF i = q.item THEN q.quantity - n ELSE 0
      BY <2>2, DrainedIs
    <2> QED
      BY <2>1, <2>2, <2>3 DEF q, n
  <1>10. c[dest] = more /\ \A s \in Slots \ (others \cup {dest}) : c[s] = b[s]
    BY <1>1, <1>7
  <1>11. c \in Bag
    <2>1. \A s \in Slots : c[s] \in Pile \cup {Nothing}
      <3>1. TAKE s \in Slots
      <3>2. b[s] \in Pile \cup {Nothing}
        BY BagParts
      <3> HIDE DEF others
      <3> QED
        BY <1>8, <1>9, <1>10, <3>2
    <2> QED
      BY <1>7, <2>1 DEF Bag
  <1>12. Fewer(b, c)
    <2>1. \A s \in Slots : c[s] # Nothing => b[s] # Nothing /\ c[s].id = b[s].id
      <3>1. TAKE s \in Slots
      <3> HIDE DEF others
      <3> QED
        BY <1>1, <1>8, <1>9, <1>10
    <2> QED
      BY <2>1 DEF Fewer
  <1>13. ASSUME NEW i PROVE count_item(c, i) = count_item(b, i)
    <2> DEFINE f == [s \in Slots |-> Amount(b[s], i)]
               g == [s \in Slots |-> Amount(c[s], i)]
               h == [s \in Slots |-> IF s \in others /\ i = j THEN poured(s) ELSE 0]
               e == [s \in Slots |-> g[s] + h[s]]
    <2>1. \A s \in Slots : f[s] \in Nat /\ g[s] \in Nat
      BY <1>11, BagParts, AmountIsNat
    <2>2. \A s \in Slots : h[s] \in Int /\ e[s] \in Int /\ e[s] = g[s] + h[s]
      BY <1>4, <2>1
    <2>3. count_item(b, i) = SumFunctionOnSet(f, Slots) /\ count_item(c, i) = SumFunctionOnSet(g, Slots)
      BY <1>11, BagIsRow, RowCount
    <2> DEFINE moved == IF i = j THEN total ELSE 0
    <2>4. SumFunctionOnSet(h, Slots) = moved
      <3>1. CASE i = j
        <4>1. /\ \A s \in others : flow[s] \in Int /\ h[s] = flow[s]
              /\ \A s \in Slots \ others : h[s] = 0
          BY <1>1, <1>4, <3>1
        <4> HIDE DEF h, others, flow
        <4>3. IsFiniteSet(Slots) /\ others \in SUBSET Slots
          BY <1>1, SlotsAreFinite
        <4>2. SumFunctionOnSet(h, Slots) = SumFunctionOnSet(flow, others)
          BY <4>1, <4>3, SumElsewhere
        <4> QED
          BY <1>5, <3>1, <4>2
      <3>2. CASE i # j
        <4>1. \A s \in Slots : h[s] = 0
          BY <3>2
        <4> HIDE DEF h
        <4>2. SumFunctionOnSet(h, Slots) = 0
          BY <4>1, SlotsAreFinite, SumZero
        <4> QED
          BY <3>2, <4>2
      <3> QED
        BY <3>1, <3>2
    <2>5. /\ f[dest] = IF i = j THEN p.quantity ELSE 0
          /\ e[dest] = IF i = j THEN p.quantity + total ELSE 0
      <3>1. f[dest] = IF i = j THEN p.quantity ELSE 0
        BY DEF Amount
      <3>2. g[dest] = IF i = j THEN p.quantity + total ELSE 0
        BY <1>8, <1>10 DEF Amount
      <3>3. h[dest] = 0
        BY <1>1
      <3> QED
        BY <1>2, <1>6, <3>1, <3>2, <3>3
    <2>6. ASSUME NEW s \in Slots \ {dest} PROVE f[s] = e[s]
      <3>1. CASE s \in others
        <4>1. f[s] = IF i = j THEN b[s].quantity ELSE 0
          BY <1>1, <3>1 DEF Amount
        <4>2. g[s] = IF i = j THEN b[s].quantity - poured(s) ELSE 0
          BY <1>9, <3>1
        <4>3. h[s] = IF i = j THEN poured(s) ELSE 0
          BY <3>1
        <4>4. b[s].quantity \in Nat /\ poured(s) \in Int
          BY <1>4, <3>1
        <4> HIDE DEF poured, others
        <4> QED
          BY <4>1, <4>2, <4>3, <4>4
      <3>2. CASE s \notin others
        <4>1. c[s] = b[s] /\ h[s] = 0
          BY <1>10, <3>2
        <4> QED
          BY <2>1, <4>1
      <3> QED
        BY <3>1, <3>2
    <2> HIDE DEF f, g, h, e, total, j, p
    <2>7. SumFunctionOnSet(e, Slots) = SumFunctionOnSet(g, Slots) + SumFunctionOnSet(h, Slots)
      <3>1. IsFiniteSet(Slots) /\ \A s \in Slots : g[s] \in Int /\ h[s] \in Int /\ e[s] = g[s] + h[s]
        BY <2>1, <2>2, SlotsAreFinite
      <3> QED
        BY <3>1, SumPlus
    <2>8. SumFunctionOnSet(e, Slots) = SumFunctionOnSet(f, Slots) - f[dest] + e[dest]
      <3>1. DifferAt(dest, f, e, Slots)
        BY <2>1, <2>2, <2>6 DEF DifferAt
      <3>2. SumsDifferAt(dest, f, e, Slots)
        BY <3>1, SlotsAreFinite, SumOneChanged
      <3> QED
        BY <3>2 DEF SumsDifferAt
    <2>9. count_item(b, i) \in Nat /\ count_item(c, i) \in Nat
      BY <1>11, CountIs
    <2> DEFINE x == count_item(b, i)
               y == count_item(c, i)
    <2>10. /\ x \in Nat /\ y \in Nat /\ moved \in Nat
           /\ y + moved = x - f[dest] + e[dest]
           /\ f[dest] = (IF i = j THEN p.quantity ELSE 0)
           /\ e[dest] = (IF i = j THEN p.quantity + total ELSE 0)
      BY <1>6, <2>3, <2>4, <2>5, <2>7, <2>8, <2>9
    <2> HIDE DEF x, y
    <2>11. y = x
      BY <1>2, <1>6, <2>10
    <2> QED
      BY <2>11 DEF x, y
  <1> QED
    BY <1>11, <1>12, <1>13 DEF c, SameCounts

-----------------------------------------------------------------------------
(* 16. Instance ids: where a pile can be, and what a change of one owner's *)
(* bag and equipment does to the ids.                                      *)

Place == ({"bag"} \X Owners \X Slots) \cup ({"worn"} \X Owners \X EquipSlots)

At(bags, wears) ==
    [x \in Place |-> IF x[1] = "bag" THEN bags[x[2]][x[3]] ELSE wears[x[2]][x[3]]]

Distinct(A) ==
    \A x, y \in Place : A[x] # Nothing /\ A[y] # Nothing /\ A[x].id = A[y].id => x = y

Below(A, n) == \A x \in Place : A[x] # Nothing => A[x].id \in Nat /\ A[x].id < n

InBag(c, s) == <<"bag", c, s>>
OnBody(c, e) == <<"worn", c, e>>

(* A place is in a bag or on a body.                                       *)
LEMMA PlaceIs ==
    /\ \A c \in Owners, s \in Slots : InBag(c, s) \in Place
    /\ \A c \in Owners, e \in EquipSlots : OnBody(c, e) \in Place
    /\ \A x \in Place : \/ \E c \in Owners, s \in Slots : x = InBag(c, s)
                        \/ \E c \in Owners, e \in EquipSlots : x = OnBody(c, e)
    /\ \A c, d, s, t : InBag(c, s) = InBag(d, t) => c = d /\ s = t
    /\ \A c, d, s, t : OnBody(c, s) = OnBody(d, t) => c = d /\ s = t
    /\ \A c, d, s, t : InBag(c, s) # OnBody(d, t)
  BY DEF Place, InBag, OnBody

(* What is in a place.                                                     *)
LEMMA AtIs ==
    ASSUME NEW bags, NEW wears
    PROVE  /\ \A c \in Owners, s \in Slots : At(bags, wears)[InBag(c, s)] = bags[c][s]
           /\ \A c \in Owners, e \in EquipSlots : At(bags, wears)[OnBody(c, e)] = wears[c][e]
  <1>1. \A c \in Owners, s \in Slots : At(bags, wears)[InBag(c, s)] = bags[c][s]
    BY PlaceIs DEF At, InBag
  <1>2. \A c \in Owners, e \in EquipSlots : At(bags, wears)[OnBody(c, e)] = wears[c][e]
    BY PlaceIs DEF At, OnBody
  <1> QED
    BY <1>1, <1>2

(* Two piles change places.                                                *)
LEMMA SwapDistinct ==
    ASSUME NEW A, NEW B, NEW x \in Place, NEW y \in Place, Distinct(A),
           B[x] = A[y], B[y] = A[x], \A z \in Place \ {x, y} : B[z] = A[z]
    PROVE  Distinct(B)
  <1>1. SUFFICES ASSUME NEW u \in Place, NEW v \in Place,
                        B[u] # Nothing, B[v] # Nothing, B[u].id = B[v].id
                 PROVE  u = v
    BY DEF Distinct
  <1> DEFINE Was(z) == IF z = x THEN y ELSE IF z = y THEN x ELSE z
  <1>2. \A z \in Place : Was(z) \in Place /\ B[z] = A[Was(z)]
    OBVIOUS
  <1>3. Was(u) = Was(v) => u = v
    OBVIOUS
  <1> HIDE DEF Was
  <1> QED
    BY <1>1, <1>2, <1>3 DEF Distinct

(* Piles stay where they are or go, and new ones are numbered from n.      *)
Mints(b, c, n) ==
    /\ \A s \in Slots : c[s] # Nothing /\ b[s] # Nothing => c[s].id = b[s].id
    /\ \A s \in Slots : c[s] # Nothing /\ b[s] = Nothing => c[s].id \in Nat /\ c[s].id >= n
    /\ \A s, t \in Slots : /\ c[s] # Nothing /\ b[s] = Nothing
                           /\ c[t] # Nothing /\ b[t] = Nothing /\ c[s].id = c[t].id
                           => s = t

(* Numbers from above all ids are not given twice.                         *)
LEMMA MintDistinct ==
    ASSUME NEW bags \in [Owners -> Bag], NEW wears, NEW c \in Owners, NEW b \in Bag,
           NEW n \in Nat, Mints(bags[c], b, n),
           Distinct(At(bags, wears)), Below(At(bags, wears), n)
    PROVE  Distinct(At([bags EXCEPT ![c] = b], wears))
  <1> DEFINE A == At(bags, wears)
             next == [bags EXCEPT ![c] = b]
             B == At(next, wears)
             Old(x) == A[x] # Nothing /\ B[x].id = A[x].id
             New(x) == A[x] = Nothing /\ B[x].id \in Nat /\ B[x].id >= n
                       /\ \E s \in Slots : x = InBag(c, s)
  <1>1. next[c] = b /\ \A d \in Owners \ {c} : next[d] = bags[d]
    OBVIOUS
  <1> HIDE DEF next
  <1>2. /\ \A d \in Owners, s \in Slots : A[InBag(d, s)] = bags[d][s]
        /\ \A d \in Owners, s \in Slots : B[InBag(d, s)] = next[d][s]
        /\ \A d \in Owners, e \in EquipSlots : A[OnBody(d, e)] = wears[d][e]
        /\ \A d \in Owners, e \in EquipSlots : B[OnBody(d, e)] = wears[d][e]
    BY AtIs
  <1> HIDE DEF A, B
  <1>3. ASSUME NEW x \in Place, B[x] # Nothing PROVE Old(x) \/ New(x)
    <2>1. CASE \E d \in Owners, e \in EquipSlots : x = OnBody(d, e)
      BY <1>2, <1>3, <2>1
    <2>2. CASE \E d \in Owners, s \in Slots : x = InBag(d, s)
      <3>1. PICK d \in Owners, s \in Slots : x = InBag(d, s)
        BY <2>2
      <3>2. CASE d = c
        <4>1. A[x] = bags[c][s] /\ B[x] = b[s]
          BY <1>1, <1>2, <3>1, <3>2
        <4> QED
          BY <1>3, <3>1, <3>2, <4>1 DEF Mints
      <3>3. CASE d # c
        <4>1. A[x] = B[x]
          BY <1>1, <1>2, <3>1, <3>3
        <4> QED
          BY <1>3, <4>1
      <3> QED
        BY <3>2, <3>3
    <2> QED
      BY <2>1, <2>2, PlaceIs
  <1>4. SUFFICES ASSUME NEW x \in Place, NEW y \in Place,
                        B[x] # Nothing, B[y] # Nothing, B[x].id = B[y].id
                 PROVE  x = y
    BY DEF Distinct, B, next
  <1>5. Distinct(A) /\ Below(A, n)
    BY DEF A
  <1>6. CASE Old(x) /\ Old(y)
    BY <1>4, <1>5, <1>6 DEF Distinct
  <1>7. CASE Old(x) /\ New(y)
    <2>1. A[x].id \in Nat /\ A[x].id < n
      BY <1>5, <1>7 DEF Below
    <2> QED
      BY <1>4, <1>7, <2>1
  <1>8. CASE New(x) /\ Old(y)
    <2>1. A[y].id \in Nat /\ A[y].id < n
      BY <1>5, <1>8 DEF Below
    <2> QED
      BY <1>4, <1>8, <2>1
  <1>9. CASE New(x) /\ New(y)
    <2>1. PICK s \in Slots, t \in Slots : x = InBag(c, s) /\ y = InBag(c, t)
      BY <1>9
    <2>2. A[x] = bags[c][s] /\ A[y] = bags[c][t] /\ B[x] = b[s] /\ B[y] = b[t]
      BY <1>1, <1>2, <2>1
    <2>3. s = t
      BY <1>4, <1>9, <2>2 DEF Mints
    <2> QED
      BY <2>1, <2>3
  <1> QED
    BY <1>3, <1>4, <1>6, <1>7, <1>8, <1>9

(* Fewer piles are still below.                                            *)
LEMMA FewerBelow ==
    ASSUME NEW bags \in [Owners -> Bag], NEW wears, NEW c \in Owners, NEW b \in Bag,
           NEW n \in Nat, Fewer(bags[c], b), Below(At(bags, wears), n)
    PROVE  /\ Mints(bags[c], b, n)
           /\ Below(At([bags EXCEPT ![c] = b], wears), n)
  <1> DEFINE A == At(bags, wears)
             next == [bags EXCEPT ![c] = b]
             B == At(next, wears)
  <1>1. next[c] = b /\ \A d \in Owners \ {c} : next[d] = bags[d]
    OBVIOUS
  <1> HIDE DEF next
  <1>2. /\ \A d \in Owners, s \in Slots : A[InBag(d, s)] = bags[d][s]
        /\ \A d \in Owners, s \in Slots : B[InBag(d, s)] = next[d][s]
        /\ \A d \in Owners, e \in EquipSlots : A[OnBody(d, e)] = wears[d][e]
        /\ \A d \in Owners, e \in EquipSlots : B[OnBody(d, e)] = wears[d][e]
    BY AtIs
  <1> HIDE DEF A, B
  <1>3. ASSUME NEW x \in Place, B[x] # Nothing PROVE A[x] # Nothing /\ B[x].id = A[x].id
    <2>1. CASE \E d \in Owners, e \in EquipSlots : x = OnBody(d, e)
      BY <1>2, <1>3, <2>1
    <2>2. CASE \E d \in Owners, s \in Slots : x = InBag(d, s)
      <3>1. PICK d \in Owners, s \in Slots : x = InBag(d, s)
        BY <2>2
      <3>2. CASE d = c
        BY <1>1, <1>2, <1>3, <3>1, <3>2 DEF Fewer
      <3>3. CASE d # c
        BY <1>1, <1>2, <1>3, <3>1, <3>3
      <3> QED
        BY <3>2, <3>3
    <2> QED
      BY <2>1, <2>2, PlaceIs
  <1>4. Below(B, n)
    <2>1. Below(A, n)
      BY DEF A
    <2> QED
      BY <1>3, <2>1 DEF Below
  <1>5. Mints(bags[c], b, n)
    BY DEF Mints, Fewer
  <1> QED
    BY <1>4, <1>5 DEF B, next

(* What add_stackable opens is numbered from nextId, apart.                *)
LEMMA AddMints ==
    ASSUME NEW b \in Bag, NEW i \in Items, NEW n \in Nat, NEW nextId \in Nat \ {0}
    PROVE  Mints(b, add_stackable(b, i, n, nextId), nextId)
  <1> DEFINE c == add_stackable(b, i, n, nextId)
  <1>1. /\ \A s \in Holding(b, i) : c[s].id = b[s].id
        /\ \A s \in Occupied(b) \ Holding(b, i) : c[s] = b[s]
        /\ \A s \in Free(b) : c[s] # Nothing => c[s].id = nextId + Rank(b, s)
    BY AddStackableSlots
  <1> HIDE DEF c
  <1>2. /\ Free(b) = {s \in Slots : b[s] = Nothing}
        /\ Occupied(b) = {s \in Slots : b[s] # Nothing}
    BY BagParts
  <1>3. /\ \A s \in Slots : Rank(b, s) \in Nat
        /\ \A s, t \in Free(b) : s # t => Rank(b, s) # Rank(b, t)
    BY RanksDiffer
  <1>4. \A s \in Slots : c[s] # Nothing /\ b[s] # Nothing => c[s].id = b[s].id
    BY <1>1, <1>2
  <1>5. \A s \in Slots : c[s] # Nothing /\ b[s] = Nothing => c[s].id \in Nat /\ c[s].id >= nextId
    <2>1. TAKE s \in Slots
    <2>2. SUFFICES ASSUME c[s] # Nothing, b[s] = Nothing PROVE c[s].id \in Nat /\ c[s].id >= nextId
      OBVIOUS
    <2>3. c[s].id = nextId + Rank(b, s) /\ Rank(b, s) \in Nat
      BY <1>1, <1>2, <1>3, <2>2
    <2> QED
      BY <2>3
  <1>6. ASSUME NEW s \in Slots, NEW t \in Slots, c[s] # Nothing, b[s] = Nothing,
               c[t] # Nothing, b[t] = Nothing, c[s].id = c[t].id
        PROVE  s = t
    <2>1. s \in Free(b) /\ t \in Free(b)
      BY <1>2, <1>6
    <2>2. nextId + Rank(b, s) = nextId + Rank(b, t) /\ Rank(b, s) \in Nat /\ Rank(b, t) \in Nat
      BY <1>1, <1>3, <1>6, <2>1
    <2>3. Rank(b, s) = Rank(b, t)
      BY <2>2
    <2> QED
      BY <1>3, <2>1, <2>3
  <1> QED
    BY <1>4, <1>5, <1>6 DEF Mints, c

-----------------------------------------------------------------------------
(* 17. The ledger.                                                         *)

(* The image of a finite set is finite.                                    *)
LEMMA FiniteImage ==
    ASSUME NEW S, IsFiniteSet(S), NEW f
    PROVE  IsFiniteSet({f[x] : x \in S})
  <1> DEFINE P == {T \in SUBSET S : IsFiniteSet({f[x] : x \in T})}
  <1>1. {} \in P
    <2>1. {f[x] : x \in {}} = {}
      OBVIOUS
    <2> QED
      BY <2>1, FS_EmptySet
  <1>2. ASSUME NEW T \in SUBSET S, NEW x \in S, T \in P PROVE T \cup {x} \in P
    <2> DEFINE im == {f[y] : y \in T}
    <2>1. {f[y] : y \in T \cup {x}} = im \cup {f[x]}
      OBVIOUS
    <2>2. IsFiniteSet(im)
      BY <1>2
    <2> HIDE DEF im
    <2>3. IsFiniteSet(im \cup {f[x]})
      BY <2>2, FS_AddElement
    <2> QED
      BY <2>1, <2>3
  <1>3. S \in P
    <2> HIDE DEF P
    <2> QED
      BY <1>1, <1>2, SetInduction
  <1> QED
    BY <1>3

Wear ==
    {w \in Row(EquipSlots) : \A e \in EquipSlots :
        w[e] # Nothing => EquippableInto[w[e].item] = e}

(* What the tables are.                                                    *)
Tables(bags, wears) == bags \in [Owners -> Bag] /\ wears \in [Owners -> Wear]

(* ItemsTypeOK, of the tables.                                             *)
LEMMA TypesAre ==
    ItemsTypeOK <=> Tables(inventory, worn) /\ supply \in [Items -> Nat]
  <1>1. ASSUME ItemsTypeOK PROVE Tables(inventory, worn) /\ supply \in [Items -> Nat]
    BY <1>1 DEF ItemsTypeOK, Tables, Wear, Row
  <1>2. ASSUME Tables(inventory, worn), supply \in [Items -> Nat] PROVE ItemsTypeOK
    BY <1>2 DEF ItemsTypeOK, Tables, Wear, Row
  <1> QED
    BY <1>1, <1>2

(* InstancesDistinct, of the places.                                       *)
NoIdTwice(bags, wears) ==
    \A c, d \in Owners :
        /\ \A s \in Occupied(bags[c]), t \in Occupied(bags[d]) :
              bags[c][s].id = bags[d][t].id => c = d /\ s = t
        /\ \A s \in Occupied(wears[c]), t \in Occupied(wears[d]) :
              wears[c][s].id = wears[d][t].id => c = d /\ s = t
        /\ IdsIn(bags[c]) \cap IdsIn(wears[d]) = {}

(* The two ways to say that no id is given twice.                          *)
LEMMA DistinctIs ==
    ASSUME NEW bags, NEW wears, Tables(bags, wears)
    PROVE  NoIdTwice(bags, wears) <=> Distinct(At(bags, wears))
  <1> DEFINE A == At(bags, wears)
  <1>1. /\ \A c \in Owners : Occupied(bags[c]) = {s \in Slots : bags[c][s] # Nothing}
        /\ \A c \in Owners : Occupied(wears[c]) = {e \in EquipSlots : wears[c][e] # Nothing}
    BY DEF Tables, Wear, Row, Bag, Occupied, Free
  <1>2. /\ \A c \in Owners, s \in Slots : InBag(c, s) \in Place /\ A[InBag(c, s)] = bags[c][s]
        /\ \A c \in Owners, e \in EquipSlots :
              OnBody(c, e) \in Place /\ A[OnBody(c, e)] = wears[c][e]
    BY AtIs, PlaceIs
  <1> HIDE DEF A
  <1>3. ASSUME Distinct(A) PROVE NoIdTwice(bags, wears)
    <2>1. SUFFICES ASSUME NEW c \in Owners, NEW d \in Owners
                   PROVE  /\ \A s \in Occupied(bags[c]), t \in Occupied(bags[d]) :
                                bags[c][s].id = bags[d][t].id => c = d /\ s = t
                          /\ \A s \in Occupied(wears[c]), t \in Occupied(wears[d]) :
                                wears[c][s].id = wears[d][t].id => c = d /\ s = t
                          /\ IdsIn(bags[c]) \cap IdsIn(wears[d]) = {}
      BY DEF NoIdTwice
    <2>2. \A s \in Occupied(bags[c]), t \in Occupied(bags[d]) :
              bags[c][s].id = bags[d][t].id => c = d /\ s = t
      BY <1>1, <1>2, <1>3, PlaceIs DEF Distinct
    <2>3. \A s \in Occupied(wears[c]), t \in Occupied(wears[d]) :
              wears[c][s].id = wears[d][t].id => c = d /\ s = t
      BY <1>1, <1>2, <1>3, PlaceIs DEF Distinct
    <2>4. ASSUME NEW n \in IdsIn(bags[c]), n \in IdsIn(wears[d]) PROVE FALSE
      <3>1. PICK s \in Slots : bags[c][s] # Nothing /\ bags[c][s].id = n
        BY <1>1 DEF IdsIn
      <3>2. PICK e \in EquipSlots : wears[d][e] # Nothing /\ wears[d][e].id = n
        BY <1>1, <2>4 DEF IdsIn
      <3>3. InBag(c, s) = OnBody(d, e)
        BY <1>2, <1>3, <3>1, <3>2 DEF Distinct
      <3> QED
        BY <3>3, PlaceIs
    <2> QED
      BY <2>2, <2>3, <2>4
  <1>4. ASSUME NoIdTwice(bags, wears) PROVE Distinct(A)
    <2>1. SUFFICES ASSUME NEW x \in Place, NEW y \in Place,
                          A[x] # Nothing, A[y] # Nothing, A[x].id = A[y].id
                   PROVE  x = y
      BY DEF Distinct
    <2> DEFINE Bagged(z) == \E c \in Owners, s \in Slots : z = InBag(c, s)
               Worn(z) == \E c \in Owners, e \in EquipSlots : z = OnBody(c, e)
    <2>2. ASSUME NEW c \in Owners, NEW s \in Slots, NEW d \in Owners, NEW e \in EquipSlots,
                 bags[c][s] # Nothing, wears[d][e] # Nothing, bags[c][s].id = wears[d][e].id
          PROVE  FALSE
      <3>1. bags[c][s].id \in IdsIn(bags[c]) /\ wears[d][e].id \in IdsIn(wears[d])
        BY <1>1, <2>2 DEF IdsIn
      <3> QED
        BY <1>4, <2>2, <3>1 DEF NoIdTwice
    <2>3. CASE Bagged(x) /\ Bagged(y)
      <3>1. PICK c \in Owners, s \in Slots : x = InBag(c, s)
        BY <2>3
      <3>2. PICK d \in Owners, t \in Slots : y = InBag(d, t)
        BY <2>3
      <3>3. c = d /\ s = t
        BY <1>1, <1>2, <1>4, <2>1, <3>1, <3>2 DEF NoIdTwice
      <3> QED
        BY <3>1, <3>2, <3>3
    <2>4. CASE Worn(x) /\ Worn(y)
      <3>1. PICK c \in Owners, s \in EquipSlots : x = OnBody(c, s)
        BY <2>4
      <3>2. PICK d \in Owners, t \in EquipSlots : y = OnBody(d, t)
        BY <2>4
      <3>3. c = d /\ s = t
        BY <1>1, <1>2, <1>4, <2>1, <3>1, <3>2 DEF NoIdTwice
      <3> QED
        BY <3>1, <3>2, <3>3
    <2>5. CASE Bagged(x) /\ Worn(y)
      BY <1>2, <2>1, <2>2, <2>5
    <2>6. CASE Worn(x) /\ Bagged(y)
      BY <1>2, <2>1, <2>2, <2>6
    <2>7. (Bagged(x) \/ Worn(x)) /\ (Bagged(y) \/ Worn(y))
      BY PlaceIs
    <2> HIDE DEF Bagged, Worn
    <2> QED
      BY <2>3, <2>4, <2>5, <2>6, <2>7
  <1> QED
    BY <1>3, <1>4 DEF A

(* The scan is above every id.                                             *)
LEMMA NextIdIsAbove ==
    ASSUME Tables(inventory, worn)
    PROVE  /\ next_instance_id \in Nat \ {0}
           /\ Below(At(inventory, worn), next_instance_id)
  <1> DEFINE ids == [c \in Owners |-> IdsIn(inventory[c]) \cup IdsIn(worn[c])]
             all == {ids[c] : c \in Owners}
             used == {0} \cup UNION all
  <1>1. next_instance_id = 1 + Max(used)
    <2>1. UsedIds = UNION all
      BY DEF UsedIds
    <2> HIDE DEF all
    <2> QED
      BY <2>1 DEF next_instance_id
  <1>2. ASSUME NEW D, IsFiniteSet(D), NEW b \in Row(D)
        PROVE  IsFiniteSet(IdsIn(b)) /\ IdsIn(b) \subseteq Nat
               /\ \A s \in D : b[s] # Nothing => b[s].id \in IdsIn(b)
    <2> DEFINE O == Occupied(b)
               f == [s \in O |-> b[s].id]
    <2>1. O = {s \in D : b[s] # Nothing} /\ O \in SUBSET D
      BY <1>2 DEF Row, Occupied, Free
    <2>2. IdsIn(b) = {f[s] : s \in O}
      BY DEF IdsIn
    <2>3. IsFiniteSet(O)
      BY <1>2, <2>1, FS_Subset
    <2>4. \A s \in O : b[s] \in Pile
      BY <1>2, <2>1 DEF Row
    <2>5. \A s \in O : f[s] \in Nat /\ f[s] = b[s].id
      BY <2>4, PileParts
    <2> HIDE DEF O, f
    <2>6. IsFiniteSet({f[s] : s \in O})
      BY <2>3, FiniteImage
    <2> QED
      BY <2>1, <2>2, <2>5, <2>6
  <1>3. ASSUME NEW c \in Owners
        PROVE  /\ IsFiniteSet(ids[c]) /\ ids[c] \subseteq Nat
               /\ \A s \in Slots : inventory[c][s] # Nothing => inventory[c][s].id \in ids[c]
               /\ \A e \in EquipSlots : worn[c][e] # Nothing => worn[c][e].id \in ids[c]
    <2> DEFINE b == inventory[c]
               w == worn[c]
    <2>1. b \in Row(Slots) /\ w \in Row(EquipSlots) /\ IsFiniteSet(Slots) /\ IsFiniteSet(EquipSlots)
      BY BagIsRow, ItemsAssumption DEF Tables, Wear
    <2>2. ids[c] = IdsIn(b) \cup IdsIn(w)
      OBVIOUS
    <2> HIDE DEF b, w, ids
    <2>3. /\ IsFiniteSet(IdsIn(b)) /\ IdsIn(b) \subseteq Nat
          /\ \A s \in Slots : b[s] # Nothing => b[s].id \in IdsIn(b)
      BY <1>2, <2>1
    <2>4. /\ IsFiniteSet(IdsIn(w)) /\ IdsIn(w) \subseteq Nat
          /\ \A s \in EquipSlots : w[s] # Nothing => w[s].id \in IdsIn(w)
      BY <1>2, <2>1
    <2>5. IsFiniteSet(ids[c])
      BY <2>2, <2>3, <2>4, FS_Union
    <2> QED
      BY <2>2, <2>3, <2>4, <2>5 DEF b, w
  <1>4. IsFiniteSet(used) /\ used \in SUBSET Int /\ used # {} /\ used \subseteq Nat
    <2>1. IsFiniteSet(all)
      <3> HIDE DEF ids
      <3> QED
        BY ItemsAssumption, FiniteImage
    <2>2. \A T \in all : IsFiniteSet(T) /\ T \subseteq Nat
      BY <1>3
    <2> HIDE DEF all
    <2>3. IsFiniteSet(UNION all)
      BY <2>1, <2>2, FS_UNION
    <2>4. IsFiniteSet(used)
      BY <2>3, FS_Singleton, FS_Union
    <2> QED
      BY <2>2, <2>4
  <1> DEFINE top == Max(used)
  <1>5. top \in Nat /\ \A n \in used : n <= top
    <2> HIDE DEF used
    <2> QED
      BY <1>4, Extremes
  <1>6. \A c \in Owners : ids[c] \subseteq used
    OBVIOUS
  <1> HIDE DEF ids, all, used, top
  <1>7. next_instance_id \in Nat \ {0} /\ \A n \in used : n \in Nat /\ n < next_instance_id
    <2>1. next_instance_id = 1 + top
      BY <1>1 DEF top
    <2>2. \A n \in used : n \in Nat
      BY <1>4
    <2> QED
      BY <1>5, <2>1, <2>2
  <1>8. Below(At(inventory, worn), next_instance_id)
    <2> DEFINE A == At(inventory, worn)
    <2>1. /\ \A c \in Owners, s \in Slots : A[InBag(c, s)] = inventory[c][s]
          /\ \A c \in Owners, e \in EquipSlots : A[OnBody(c, e)] = worn[c][e]
      BY AtIs
    <2> HIDE DEF A
    <2>2. ASSUME NEW x \in Place, A[x] # Nothing PROVE A[x].id \in used
      <3>1. CASE \E c \in Owners, s \in Slots : x = InBag(c, s)
        BY <1>3, <1>6, <2>1, <2>2, <3>1
      <3>2. CASE \E c \in Owners, e \in EquipSlots : x = OnBody(c, e)
        BY <1>3, <1>6, <2>1, <2>2, <3>2
      <3> QED
        BY <3>1, <3>2, PlaceIs
    <2> QED
      BY <1>7, <2>2 DEF Below, A
  <1> QED
    BY <1>7, <1>8

(* The pieces of item i each owner has.                                    *)
Stored(bags, wears, i) ==
    [c \in Owners |-> count_item(bags[c], i) + count_item(wears[c], i)]

(* Existing adds them up.                                                  *)
LEMMA ExistingIs ==
    ASSUME NEW i
    PROVE  Existing(i) = SumFunctionOnSet(Stored(inventory, worn, i), Owners)
  <1>1. DOMAIN Stored(inventory, worn, i) = Owners
    BY DEF Stored
  <1>2. Existing(i) = SumFunction(Stored(inventory, worn, i))
    BY DEF Existing, Stored
  <1> QED
    BY <1>1, <1>2, SumOfFunction

(* They are numbers.                                                       *)
LEMMA StoredIsNat ==
    ASSUME NEW bags, NEW wears, Tables(bags, wears), NEW i
    PROVE  /\ \A c \in Owners : /\ count_item(bags[c], i) \in Nat
                               /\ count_item(wears[c], i) \in Nat
                               /\ Stored(bags, wears, i)[c] \in Nat
           /\ SumFunctionOnSet(Stored(bags, wears, i), Owners) \in Nat
  <1>1. ASSUME NEW c \in Owners
        PROVE  count_item(bags[c], i) \in Nat /\ count_item(wears[c], i) \in Nat
    <2>1. bags[c] \in Bag /\ wears[c] \in Row(EquipSlots)
      BY DEF Tables, Wear
    <2> QED
      BY <2>1, CountIs, RowCount, ItemsAssumption
  <1>2. \A c \in Owners : Stored(bags, wears, i)[c] \in Nat
    BY <1>1 DEF Stored
  <1>3. SumFunctionOnSet(Stored(bags, wears, i), Owners) \in Nat
    BY <1>2, ItemsAssumption, SumNat
  <1> QED
    BY <1>1, <1>2, <1>3

(* The row of owner c has become r.                                        *)
Becomes(rows, rows2, c, r) == rows2 = [rows EXCEPT ![c] = r]

(* One owner's bag and equipment change.                                   *)
LEMMA StoredOneChanged ==
    ASSUME NEW bags, NEW wears, Tables(bags, wears), NEW c \in Owners,
           NEW b \in Bag, NEW w \in Wear, NEW i,
           NEW bags2, Becomes(bags, bags2, c, b), NEW wears2, Becomes(wears, wears2, c, w)
    PROVE  /\ Tables(bags2, wears2)
           /\ SumFunctionOnSet(Stored(bags2, wears2, i), Owners)
                = SumFunctionOnSet(Stored(bags, wears, i), Owners)
                    - (count_item(bags[c], i) + count_item(wears[c], i))
                    + (count_item(b, i) + count_item(w, i))
  <1>1. /\ Tables(bags2, wears2) /\ bags2[c] = b /\ wears2[c] = w
        /\ \A d \in Owners \ {c} : bags2[d] = bags[d] /\ wears2[d] = wears[d]
    BY DEF Tables, Becomes
  <1> DEFINE f == Stored(bags, wears, i)
             g == Stored(bags2, wears2, i)
  <1>2. \A d \in Owners : f[d] \in Int /\ g[d] \in Int
    <2>1. \A d \in Owners : f[d] \in Nat
      BY StoredIsNat
    <2>2. \A d \in Owners : g[d] \in Nat
      BY <1>1, StoredIsNat
    <2> HIDE DEF f, g
    <2> QED
      BY <2>1, <2>2
  <1>3. \A d \in Owners \ {c} : f[d] = g[d]
    BY <1>1 DEF Stored
  <1>4. /\ f[c] = count_item(bags[c], i) + count_item(wears[c], i)
        /\ g[c] = count_item(b, i) + count_item(w, i)
    BY <1>1 DEF Stored
  <1> HIDE DEF f, g
  <1>5. SumsDifferAt(c, f, g, Owners)
    BY <1>2, <1>3, ItemsAssumption, SumOneChanged DEF DifferAt
  <1> QED
    BY <1>1, <1>4, <1>5 DEF SumsDifferAt, f, g

-----------------------------------------------------------------------------
(* 18. What a step of one owner does.                                      *)

LedgerInv == ItemsInv /\ PiecesConserved

(* What the invariant says of the tables.                                  *)
LEMMA LedgerParts ==
    ASSUME LedgerInv
    PROVE  /\ Tables(inventory, worn) /\ supply \in [Items -> Nat]
           /\ Distinct(At(inventory, worn))
           /\ \A i \in Items : SumFunctionOnSet(Stored(inventory, worn, i), Owners) = supply[i]
           /\ \A c \in Owners : inventory[c] \in Bag /\ worn[c] \in Wear
  <1>1. Tables(inventory, worn) /\ supply \in [Items -> Nat]
    BY TypesAre DEF LedgerInv, ItemsInv
  <1>2. Distinct(At(inventory, worn))
    <2>1. NoIdTwice(inventory, worn)
      BY DEF LedgerInv, ItemsInv, InstancesDistinct, NoIdTwice
    <2> QED
      BY <1>1, <2>1, DistinctIs
  <1>3. \A i \in Items : SumFunctionOnSet(Stored(inventory, worn, i), Owners) = supply[i]
    BY ExistingIs DEF LedgerInv, PiecesConserved
  <1>4. \A c \in Owners : inventory[c] \in Bag /\ worn[c] \in Wear
    BY <1>1 DEF Tables
  <1> QED
    BY <1>1, <1>2, <1>3, <1>4

(* Nothing is in an empty row.                                             *)
LEMMA EmptyRow ==
    ASSUME NEW D, IsFiniteSet(D), NEW b, b = [x \in D |-> Nothing]
    PROVE  b \in Row(D) /\ \A i : count_item(b, i) = 0
  <1>1. b \in Row(D)
    BY DEF Row
  <1>2. ASSUME NEW i PROVE count_item(b, i) = 0
    <2> DEFINE f == [x \in D |-> Amount(b[x], i)]
    <2>1. \A x \in D : f[x] = 0
      BY DEF Amount
    <2>2. count_item(b, i) = SumFunctionOnSet(f, D)
      BY <1>1, RowCount
    <2> HIDE DEF f
    <2>3. SumFunctionOnSet(f, D) = 0
      BY <2>1, SumZero
    <2> QED
      BY <2>2, <2>3
  <1> QED
    BY <1>1, <1>2

(* Nothing is owned at first.                                              *)
LEMMA LedgerStarts == ItemsInit => LedgerInv
  <1> SUFFICES ASSUME ItemsInit PROVE LedgerInv
    OBVIOUS
  <1>1. /\ inventory = [c \in Owners |-> EmptyInventory]
        /\ worn = [c \in Owners |-> [e \in EquipSlots |-> Nothing]]
        /\ supply = [i \in Items |-> 0]
    BY DEF ItemsInit
  <1>2. EmptyInventory \in Bag /\ \A i : count_item(EmptyInventory, i) = 0
    <2>1. EmptyInventory = [s \in Slots |-> Nothing]
      BY DEF EmptyInventory
    <2> QED
      BY <2>1, BagIsRow, EmptyRow
  <1> DEFINE bare == [e \in EquipSlots |-> Nothing]
  <1>3. bare \in Wear /\ \A i : count_item(bare, i) = 0
    <2>1. bare \in Row(EquipSlots) /\ \A i : count_item(bare, i) = 0
      BY EmptyRow, ItemsAssumption
    <2>2. \A e \in EquipSlots : bare[e] = Nothing
      OBVIOUS
    <2> QED
      BY <2>1, <2>2 DEF Wear
  <1>4. \A c \in Owners : worn[c] = bare
    BY <1>1
  <1> HIDE DEF bare
  <1>5. Tables(inventory, worn)
    <2>1. worn = [c \in Owners |-> bare]
      BY <1>1 DEF bare
    <2> QED
      BY <1>1, <1>2, <1>3, <2>1 DEF Tables
  <1>6. ItemsTypeOK
    BY <1>1, <1>5, TypesAre
  <1>7. InstancesDistinct
    <2>1. \A c \in Owners : Occupied(inventory[c]) = {} /\ Occupied(worn[c]) = {}
      BY <1>1 DEF Occupied, Free, EmptyInventory
    <2> QED
      BY <2>1 DEF InstancesDistinct, IdsIn
  <1>8. PiecesConserved
    <2>1. ASSUME NEW i \in Items PROVE Existing(i) = supply[i]
      <3> DEFINE f == Stored(inventory, worn, i)
      <3>1. \A c \in Owners : f[c] = 0
        BY <1>1, <1>2, <1>3, <1>4 DEF Stored
      <3>2. Existing(i) = SumFunctionOnSet(f, Owners)
        BY ExistingIs
      <3> HIDE DEF f
      <3>3. SumFunctionOnSet(f, Owners) = 0
        BY <3>1, ItemsAssumption, SumZero
      <3> QED
        BY <1>1, <3>2, <3>3
    <2> QED
      BY <2>1 DEF PiecesConserved
  <1> QED
    BY <1>6, <1>7, <1>8 DEF LedgerInv, ItemsInv

(* What owner c counts of item i, with bag b and equipment w.              *)
Counted(b, w, i) == count_item(b, i) + count_item(w, i)

(* The ledger notes what the bag and the equipment of c gain or lose.      *)
Noted(c, b, w) ==
    \A i \in Items : supply'[i] = supply[i] - Counted(inventory[c], worn[c], i) + Counted(b, w, i)

(* A step of one owner that is noted keeps the ledger.                     *)
LEMMA OwnerStep ==
    ASSUME LedgerInv, NEW c \in Owners, NEW b \in Bag, NEW w \in Wear,
           inventory' = [inventory EXCEPT ![c] = b], worn' = [worn EXCEPT ![c] = w],
           supply' = [i \in Items |-> supply'[i]], Noted(c, b, w),
           Distinct(At(inventory', worn'))
    PROVE  LedgerInv'
  <1>1. /\ Tables(inventory, worn) /\ supply \in [Items -> Nat]
        /\ \A i \in Items : SumFunctionOnSet(Stored(inventory, worn, i), Owners) = supply[i]
    BY LedgerParts
  <1>2. ASSUME NEW i \in Items
        PROVE  /\ Tables(inventory', worn')
               /\ SumFunctionOnSet(Stored(inventory', worn', i), Owners) = supply'[i]
    <2> DEFINE bags2 == inventory'
               wears2 == worn'
               x == Counted(inventory[c], worn[c], i)
               y == Counted(b, w, i)
    <2>1. Becomes(inventory, bags2, c, b) /\ Becomes(worn, wears2, c, w)
      BY DEF Becomes
    <2>2. supply'[i] = supply[i] - x + y
      BY DEF Noted
    <2> HIDE DEF bags2, wears2
    <2>5. /\ x = count_item(inventory[c], i) + count_item(worn[c], i)
          /\ y = count_item(b, i) + count_item(w, i)
      BY DEF Counted
    <2> HIDE DEF x, y
    <2>6. /\ Tables(bags2, wears2)
          /\ SumFunctionOnSet(Stored(bags2, wears2, i), Owners)
                = SumFunctionOnSet(Stored(inventory, worn, i), Owners)
                    - (count_item(inventory[c], i) + count_item(worn[c], i))
                    + (count_item(b, i) + count_item(w, i))
      BY <1>1, <2>1, StoredOneChanged
    <2>3. /\ Tables(bags2, wears2)
          /\ SumFunctionOnSet(Stored(bags2, wears2, i), Owners)
                = SumFunctionOnSet(Stored(inventory, worn, i), Owners) - x + y
      BY <2>5, <2>6
    <2>4. SumFunctionOnSet(Stored(bags2, wears2, i), Owners) = supply'[i]
      BY <1>1, <2>2, <2>3
    <2> QED
      BY <2>3, <2>4 DEF bags2, wears2
  <1>3. Tables(inventory', worn')
    BY <1>1 DEF Tables
  <1>4. ASSUME NEW i \in Items PROVE supply'[i] \in Nat
    <2>1. SumFunctionOnSet(Stored(inventory', worn', i), Owners) \in Nat
      BY <1>3, StoredIsNat
    <2> QED
      BY <1>2, <2>1
  <1>5. supply' \in [Items -> Nat]
    BY <1>4
  <1>6. ItemsTypeOK'
    BY <1>3, <1>5 DEF ItemsTypeOK, Tables, Wear, Row
  <1>7. InstancesDistinct'
    <2>1. NoIdTwice(inventory', worn')
      BY <1>3, DistinctIs
    <2> QED
      BY <2>1 DEF NoIdTwice, InstancesDistinct
  <1>8. PiecesConserved'
    <2>1. ASSUME NEW i \in Items PROVE Existing(i)' = supply'[i]
      <3> DEFINE f == Stored(inventory', worn', i)
      <3>1. Existing(i)' = SumFunction(f)
        BY DEF Existing, Stored
      <3>2. DOMAIN f = Owners
        BY DEF Stored
      <3>3. SumFunctionOnSet(f, Owners) = supply'[i]
        BY <1>2
      <3> HIDE DEF f
      <3> QED
        BY <3>1, <3>2, <3>3, SumOfFunction
    <2> QED
      BY <2>1 DEF PiecesConserved
  <1> QED
    BY <1>6, <1>7, <1>8 DEF LedgerInv, ItemsInv

(* A step on one bag alone.                                                *)
LEMMA BagStep ==
    ASSUME LedgerInv, NEW c \in Owners, NEW b \in Bag, SetBag(c, b), worn' = worn,
           supply' = [i \in Items |-> supply'[i]],
           \A i \in Items : supply'[i] = supply[i] - count_item(inventory[c], i) + count_item(b, i),
           Distinct(At([inventory EXCEPT ![c] = b], worn))
    PROVE  LedgerInv'
  <1>1. /\ Tables(inventory, worn) /\ supply \in [Items -> Nat]
        /\ inventory[c] \in Bag /\ worn[c] \in Wear
    BY LedgerParts
  <1>2. inventory' = [inventory EXCEPT ![c] = b] /\ worn' = [worn EXCEPT ![c] = worn[c]]
    BY <1>1 DEF SetBag, Tables
  <1>3. Noted(c, b, worn[c])
    <2>1. ASSUME NEW i \in Items
          PROVE  supply'[i] = supply[i] - Counted(inventory[c], worn[c], i) + Counted(b, worn[c], i)
      <3> DEFINE x == count_item(inventory[c], i)
                 y == count_item(b, i)
                 z == count_item(worn[c], i)
      <3>1. x \in Nat /\ y \in Nat /\ z \in Nat /\ supply[i] \in Nat
        BY <1>1, CountIs, StoredIsNat
      <3>2. supply'[i] = supply[i] - x + y
        OBVIOUS
      <3> HIDE DEF x, y, z
      <3>3. supply'[i] = supply[i] - (x + z) + (y + z)
        BY <3>1, <3>2
      <3> QED
        BY <3>3 DEF Counted, x, y, z
    <2> QED
      BY <2>1 DEF Noted
  <1>4. Distinct(At(inventory', worn'))
    BY <1>2
  <1> QED
    BY <1>1, <1>2, <1>3, <1>4, OwnerStep

(* A gesture on one bag that the ledger need not note.                     *)
LEMMA GestureStep ==
    ASSUME LedgerInv, NEW c \in Owners, NEW b \in Bag, SetBag(c, b), UNCHANGED <<worn, supply>>,
           SameCounts(inventory[c], b), Distinct(At([inventory EXCEPT ![c] = b], worn))
    PROVE  LedgerInv'
  <1>1. supply \in [Items -> Nat] /\ inventory[c] \in Bag
    BY LedgerParts
  <1>2. supply' = [i \in Items |-> supply'[i]]
    BY <1>1
  <1>3. ASSUME NEW i \in Items
        PROVE  supply'[i] = supply[i] - count_item(inventory[c], i) + count_item(b, i)
    <2>1. count_item(inventory[c], i) \in Nat /\ supply[i] \in Nat /\ supply'[i] = supply[i]
      BY <1>1, CountIs
    <2>2. count_item(b, i) = count_item(inventory[c], i)
      BY DEF SameCounts
    <2> QED
      BY <2>1, <2>2
  <1>4. worn' = worn
    OBVIOUS
  <1> QED
    BY <1>2, <1>3, <1>4, BagStep

(* New piles under new numbers leave the ids distinct.                      *)
LEMMA MintStep ==
    ASSUME LedgerInv, NEW c \in Owners, NEW b \in Bag, Mints(inventory[c], b, next_instance_id)
    PROVE  Distinct(At([inventory EXCEPT ![c] = b], worn))
  <1>1. /\ Tables(inventory, worn) /\ Distinct(At(inventory, worn))
        /\ inventory \in [Owners -> Bag]
    BY LedgerParts DEF Tables
  <1>2. next_instance_id \in Nat /\ Below(At(inventory, worn), next_instance_id)
    BY <1>1, NextIdIsAbove
  <1> QED
    BY <1>1, <1>2, MintDistinct

(* Fewer piles leave the ids distinct.                                     *)
LEMMA FewerStep ==
    ASSUME LedgerInv, NEW c \in Owners, NEW b \in Bag, Fewer(inventory[c], b)
    PROVE  Distinct(At([inventory EXCEPT ![c] = b], worn))
  <1>1. Mints(inventory[c], b, next_instance_id)
    BY DEF Fewer, Mints
  <1> QED
    BY <1>1, MintStep

-----------------------------------------------------------------------------
(* 19. The gestures keep the ledger.                                       *)

(* A grant is noted for what fits.                                         *)
LEMMA GrantKeeps ==
    ASSUME LedgerInv, NEW c \in Owners, NEW i \in Items, NEW n \in Nat, grant_items(c, i, n)
    PROVE  LedgerInv'
  <1> DEFINE had == inventory[c]
             room == space_for(had, i)
             next == next_instance_id
             b == add_stackable(had, i, n, next)
             placed == Min({n, room})
  <1>1. had \in Bag /\ supply \in [Items -> Nat] /\ Tables(inventory, worn)
    BY LedgerParts
  <1>2. next \in Nat \ {0} /\ room \in Nat
    BY <1>1, NextIdIsAbove, SpaceIs
  <1>3. /\ SetBag(c, b) /\ worn' = worn
        /\ supply' = [supply EXCEPT ![i] = supply[i] + placed]
    BY DEF grant_items
  <1>4. b \in Bag /\ Mints(had, b, next)
    <2> HIDE DEF had, next
    <2> QED
      BY <1>1, <1>2, AddStackableSlots, AddMints
  <1>5. /\ count_item(b, i) = count_item(had, i) + Lesser(n, room)
        /\ \A j : j # i => count_item(b, j) = count_item(had, j)
    <2> HIDE DEF had, next
    <2> QED
      BY <1>1, <1>2, AnnouncedSpaceIsExact
  <1>6. placed = Lesser(n, room) /\ placed \in Nat
    <2> HIDE DEF room
    <2> QED
      BY <1>2, MinOfTwo DEF Lesser
  <1>7. Distinct(At([inventory EXCEPT ![c] = b], worn))
    BY <1>4, MintStep
  <1> HIDE DEF b, placed, room
  <1>8. ASSUME NEW j \in Items
        PROVE  supply'[j] = supply[j] - count_item(had, j) + count_item(b, j)
    <2>1. /\ count_item(had, j) \in Nat /\ supply[j] \in Nat
          /\ supply'[j] = IF j = i THEN supply[i] + placed ELSE supply[j]
      BY <1>1, <1>3, CountIs
    <2> HIDE DEF had
    <2> QED
      BY <1>5, <1>6, <2>1
  <1>9. supply' = [j \in Items |-> supply'[j]]
    BY <1>1, <1>3
  <1> QED
    BY <1>3, <1>4, <1>7, <1>8, <1>9, BagStep

(* A pile that moves is poured into another or changes places with it.     *)
LEMMA MoveKeeps ==
    ASSUME LedgerInv, NEW c \in Owners, NEW from \in Slots, NEW to \in Slots,
           move_item(c, from, to)
    PROVE  LedgerInv'
  <1> DEFINE had == inventory[c]
             b == move_or_merge(had, from, to)
  <1>1. /\ had \in Bag /\ Tables(inventory, worn) /\ Distinct(At(inventory, worn))
        /\ inventory \in [Owners -> Bag]
    BY LedgerParts DEF Tables
  <1>2. SetBag(c, b) /\ UNCHANGED <<worn, supply>>
    BY DEF move_item
  <1>3. CASE can_merge_slots(had, from, to)
    <2>1. b = transfer_stack(had, from, to)
      BY <1>3 DEF move_or_merge
    <2>2. b \in Bag /\ SameCounts(had, b) /\ Fewer(had, b)
      BY <1>1, <1>3, <2>1, TransferKeeps
    <2> HIDE DEF b
    <2>3. Distinct(At([inventory EXCEPT ![c] = b], worn))
      BY <2>2, FewerStep
    <2> QED
      BY <1>2, <2>2, <2>3, GestureStep
  <1>4. CASE ~ can_merge_slots(had, from, to)
    <2>1. b = [had EXCEPT ![from] = had[to], ![to] = had[from]]
      BY <1>4 DEF move_or_merge
    <2>2. b \in Bag /\ SameCounts(had, b)
      <3> HIDE DEF b, had
      <3>1. /\ [had EXCEPT ![from] = had[to], ![to] = had[from]] \in Bag
            /\ SameCounts(had, [had EXCEPT ![from] = had[to], ![to] = had[from]])
        BY <1>1, SwapKeeps
      <3> QED
        BY <2>1, <3>1
    <2>3. b[from] = had[to] /\ b[to] = had[from] /\ \A s \in Slots \ {from, to} : b[s] = had[s]
      BY <1>1, <2>1, BagParts
    <2> HIDE DEF b
    <2> DEFINE next == [inventory EXCEPT ![c] = b]
               A == At(inventory, worn)
               B == At(next, worn)
               x == InBag(c, from)
               y == InBag(c, to)
    <2>4. next[c] = b /\ \A d \in Owners \ {c} : next[d] = inventory[d]
      BY <1>1
    <2> HIDE DEF next
    <2>5. /\ \A d \in Owners, s \in Slots : A[InBag(d, s)] = inventory[d][s]
          /\ \A d \in Owners, s \in Slots : B[InBag(d, s)] = next[d][s]
          /\ \A d \in Owners, e \in EquipSlots : A[OnBody(d, e)] = worn[d][e]
          /\ \A d \in Owners, e \in EquipSlots : B[OnBody(d, e)] = worn[d][e]
      BY AtIs
    <2> HIDE DEF A, B
    <2>6. x \in Place /\ y \in Place
      BY PlaceIs
    <2>7. B[x] = A[y] /\ B[y] = A[x]
      BY <2>3, <2>4, <2>5
    <2>8. ASSUME NEW z \in Place \ {x, y} PROVE B[z] = A[z]
      <3>1. CASE \E d \in Owners, s \in Slots : z = InBag(d, s)
        BY <2>3, <2>4, <2>5, <2>8, <3>1
      <3>2. CASE \E d \in Owners, e \in EquipSlots : z = OnBody(d, e)
        BY <2>5, <3>2
      <3> QED
        BY <3>1, <3>2, PlaceIs
    <2>9. Distinct(B)
      <3>1. Distinct(A)
        BY <1>1 DEF A
      <3> HIDE DEF x, y
      <3> QED
        BY <2>6, <2>7, <2>8, <3>1, SwapDistinct
    <2>10. Distinct(At([inventory EXCEPT ![c] = b], worn))
      BY <2>9 DEF B, next
    <2> QED
      BY <1>2, <2>2, <2>10, GestureStep
  <1> QED
    BY <1>3, <1>4

(* A split opens a pile under the next number.                             *)
LEMMA SplitStepKeeps ==
    ASSUME LedgerInv, NEW c \in Owners, NEW s \in Slots, NEW n, split_item(c, s, n)
    PROVE  LedgerInv'
  <1> DEFINE had == inventory[c]
             next == next_instance_id
             b == split_stack(had, s, n, next)
  <1>1. had \in Bag /\ Tables(inventory, worn)
    BY LedgerParts
  <1>2. CanSplit(had, s, n) /\ SetBag(c, b) /\ UNCHANGED <<worn, supply>>
    BY DEF split_item
  <1>3. next \in Nat \ {0}
    BY <1>1, NextIdIsAbove
  <1>4. b \in Bag /\ SameCounts(had, b) /\ \E t \in Slots : Splits(had, b, t, next)
    <2> HIDE DEF had, next
    <2> QED
      BY <1>1, <1>2, <1>3, SplitKeeps
  <1> HIDE DEF b
  <1>5. Mints(had, b, next)
    <2>1. PICK t \in Slots : Splits(had, b, t, next)
      BY <1>4
    <2> HIDE DEF had, next
    <2>2. /\ had[t] = Nothing /\ b[t] # Nothing /\ b[t].id = next
          /\ \A u \in Slots \ {t} : b[u] # Nothing => had[u] # Nothing /\ b[u].id = had[u].id
      BY <2>1 DEF Splits
    <2> QED
      BY <1>3, <2>2 DEF Mints
  <1>6. Distinct(At([inventory EXCEPT ![c] = b], worn))
    BY <1>4, <1>5, MintStep
  <1> QED
    BY <1>2, <1>4, <1>6, GestureStep

(* Piles that pour into one of them.                                       *)
LEMMA CombineStepKeeps ==
    ASSUME LedgerInv, NEW c \in Owners, NEW s \in Slots, combine_item(c, s)
    PROVE  LedgerInv'
  <1> DEFINE had == inventory[c]
             b == combine_into(had, s)
  <1>1. had \in Bag
    BY LedgerParts
  <1>2. /\ had[s] # Nothing /\ had[s].item \in Materials
        /\ SetBag(c, b) /\ UNCHANGED <<worn, supply>>
    BY DEF combine_item
  <1>3. b \in Bag /\ SameCounts(had, b) /\ Fewer(had, b)
    <2> HIDE DEF had
    <2> QED
      BY <1>1, <1>2, CombineKeeps
  <1> HIDE DEF b
  <1>4. Distinct(At([inventory EXCEPT ![c] = b], worn))
    BY <1>3, FewerStep
  <1> QED
    BY <1>2, <1>3, <1>4, GestureStep

(* A change of clothes: slot s of the bag and place e of the equipment     *)
(* exchange what they hold.                                                *)
Dresses(c, s, e, b) ==
    /\ ChangedAt(inventory[c], b, s, worn[c][e]) /\ SetBag(c, b)
    /\ worn' = [worn EXCEPT ![c] = [worn[c] EXCEPT ![e] = inventory[c][s]]]
    /\ supply' = supply

(* A slot of the bag and one of the equipment are exchanged.               *)
LEMMA DressKeeps ==
    ASSUME LedgerInv, NEW c \in Owners, NEW s \in Slots, NEW e \in EquipSlots, NEW b \in Bag,
           inventory[c][s] # Nothing => EquippableInto[inventory[c][s].item] = e,
           Dresses(c, s, e, b)
    PROVE  LedgerInv'
  <1> DEFINE had == inventory[c]
             wore == worn[c]
             p == had[s]
             q == wore[e]
             w == [wore EXCEPT ![e] = p]
  <1>1. /\ had \in Bag /\ Tables(inventory, worn) /\ Distinct(At(inventory, worn))
        /\ wore \in Wear /\ wore \in Row(EquipSlots)
        /\ inventory \in [Owners -> Bag] /\ worn \in [Owners -> Wear]
        /\ supply \in [Items -> Nat]
    BY LedgerParts DEF Tables, Wear
  <1>2. /\ b[s] = q /\ \A t \in Slots \ {s} : b[t] = had[t]
        /\ inventory' = [inventory EXCEPT ![c] = b]
        /\ worn' = [worn EXCEPT ![c] = w] /\ supply' = supply
    BY DEF Dresses, ChangedAt, SetBag
  <1>3. p \in Pile \cup {Nothing} /\ q \in Pile \cup {Nothing}
    BY <1>1, BagParts DEF Row
  <1>4. w[e] = p /\ \A d \in EquipSlots \ {e} : w[d] = wore[d]
    BY <1>1 DEF Row
  <1>5. b = [had EXCEPT ![s] = q]
    BY <1>1, <1>2 DEF Bag
  <1>6. Exchanged(had, b, p, q)
    <2> HIDE DEF q
    <2>1. Exchanged(had, b, had[s], q)
      <3> HIDE DEF had
      <3> QED
        BY <1>1, <1>3, <1>5, BagOneChanged
    <2> QED
      BY <2>1
  <1>7. w \in Row(EquipSlots) /\ Exchanged(wore, w, q, p)
    <2> DEFINE u == [wore EXCEPT ![e] = p]
    <2> HIDE DEF p, wore
    <2>1. u \in Row(EquipSlots) /\ Exchanged(wore, u, wore[e], p)
      BY <1>1, <1>3, ItemsAssumption, RowOneChanged
    <2> QED
      BY <2>1
  <1>8. w \in Wear
    <2>1. \A d \in EquipSlots : w[d] # Nothing => EquippableInto[w[d].item] = d
      <3>1. \A d \in EquipSlots : wore[d] # Nothing => EquippableInto[wore[d].item] = d
        BY <1>1 DEF Wear
      <3>2. p # Nothing => EquippableInto[p.item] = e
        OBVIOUS
      <3> HIDE DEF w, p, wore
      <3> QED
        BY <1>4, <3>1, <3>2
    <2> QED
      BY <1>7, <2>1 DEF Wear
  <1> HIDE DEF w
  <1>9. Noted(c, b, w)
    <2>1. ASSUME NEW i \in Items
          PROVE  supply'[i] = supply[i] - Counted(had, wore, i) + Counted(b, w, i)
      <3> DEFINE x == count_item(had, i)
                 y == count_item(wore, i)
                 pn == Amount(p, i)
                 qn == Amount(q, i)
      <3>1. x \in Nat /\ y \in Nat /\ pn \in Nat /\ qn \in Nat /\ supply[i] \in Nat
        <4>1. x \in Nat /\ y \in Nat
          BY <1>1, StoredIsNat
        <4>2. pn \in Nat /\ qn \in Nat
          <5> HIDE DEF p, q
          <5> QED
            BY <1>3, AmountIsNat
        <4> QED
          BY <1>1, <4>1, <4>2
      <3>2. count_item(b, i) = x - pn + qn /\ count_item(w, i) = y - qn + pn
        BY <1>6, <1>7 DEF Exchanged
      <3>3. supply'[i] = supply[i]
        BY <1>2
      <3>4. Counted(had, wore, i) = x + y /\ Counted(b, w, i) = count_item(b, i) + count_item(w, i)
        BY DEF Counted
      <3> HIDE DEF x, y, pn, qn, had, wore
      <3> QED
        BY <3>1, <3>2, <3>3, <3>4
    <2> QED
      BY <2>1 DEF Noted
  <1>10. Distinct(At(inventory', worn'))
    <2> DEFINE bags2 == inventory'
               wears2 == worn'
               A == At(inventory, worn)
               B == At(bags2, wears2)
               x == InBag(c, s)
               y == OnBody(c, e)
    <2>1. /\ bags2[c] = b /\ \A d \in Owners \ {c} : bags2[d] = inventory[d]
          /\ wears2[c] = w /\ \A d \in Owners \ {c} : wears2[d] = worn[d]
      BY <1>1, <1>2
    <2> HIDE DEF bags2, wears2
    <2>2. /\ \A d \in Owners, t \in Slots : A[InBag(d, t)] = inventory[d][t]
          /\ \A d \in Owners, t \in Slots : B[InBag(d, t)] = bags2[d][t]
          /\ \A d \in Owners, k \in EquipSlots : A[OnBody(d, k)] = worn[d][k]
          /\ \A d \in Owners, k \in EquipSlots : B[OnBody(d, k)] = wears2[d][k]
      BY AtIs
    <2> HIDE DEF A, B
    <2>3. x \in Place /\ y \in Place
      BY PlaceIs
    <2>4. B[x] = A[y] /\ B[y] = A[x]
      BY <1>2, <1>4, <2>1, <2>2
    <2>5. ASSUME NEW z \in Place \ {x, y} PROVE B[z] = A[z]
      <3>1. CASE \E d \in Owners, t \in Slots : z = InBag(d, t)
        BY <1>2, <2>1, <2>2, <2>5, <3>1
      <3>2. CASE \E d \in Owners, k \in EquipSlots : z = OnBody(d, k)
        BY <1>4, <2>1, <2>2, <2>5, <3>2
      <3> QED
        BY <3>1, <3>2, PlaceIs
    <2>6. Distinct(A)
      BY <1>1 DEF A
    <2>7. Distinct(B)
      <3> HIDE DEF x, y
      <3> QED
        BY <2>3, <2>4, <2>5, <2>6, SwapDistinct
    <2> QED
      BY <2>7 DEF B, bags2, wears2
  <1>11. supply' = [i \in Items |-> supply'[i]]
    BY <1>1, <1>2
  <1> QED
    BY <1>2, <1>8, <1>9, <1>10, <1>11, OwnerStep

(* An item is put on; what was worn takes its slot.                        *)
LEMMA EquipKeeps ==
    ASSUME LedgerInv, NEW c \in Owners, NEW s \in Slots, equip_item(c, s)
    PROVE  LedgerInv'
  <1> DEFINE had == inventory[c]
             wore == worn[c]
             p == had[s]
             e == EquippableInto[p.item]
             q == wore[e]
             b == [had EXCEPT ![s] = q]
  <1>1. had \in Bag /\ wore \in Row(EquipSlots) /\ worn \in [Owners -> Wear]
    BY LedgerParts DEF Tables, Wear
  <1>2. /\ p # Nothing /\ e # Nothing /\ worn' = [worn EXCEPT ![c][e] = p]
        /\ SetBag(c, b) /\ supply' = supply
    BY DEF equip_item
  <1>3. e \in EquipSlots
    <2>1. p.item \in Items
      BY <1>1, <1>2, BagParts, PileParts
    <2> QED
      BY <1>2, <2>1, ItemsAssumption
  <1>4. worn' = [worn EXCEPT ![c] = [wore EXCEPT ![e] = p]]
    BY <1>1, <1>2
  <1>5. q \in Pile \cup {Nothing}
    <2> HIDE DEF wore, e
    <2> QED
      BY <1>1, <1>3 DEF Row
  <1>6. b \in Bag /\ ChangedAt(had, b, s, q)
    <2> HIDE DEF had, q
    <2> QED
      BY <1>1, <1>5, BagOneChanged
  <1>7. Dresses(c, s, e, b)
    BY <1>2, <1>4, <1>6 DEF Dresses
  <1>8. inventory[c][s] # Nothing => EquippableInto[inventory[c][s].item] = e
    OBVIOUS
  <1> HIDE DEF b, e
  <1> QED
    BY <1>3, <1>6, <1>7, <1>8, DressKeeps

(* An item is taken off, into a free slot.                                 *)
LEMMA UnequipKeeps ==
    ASSUME LedgerInv, NEW c \in Owners, NEW e \in EquipSlots, unequip_item(c, e)
    PROVE  LedgerInv'
  <1> DEFINE had == inventory[c]
             wore == worn[c]
             q == wore[e]
             b == PutInFirstFree(had, q)
  <1>1. had \in Bag /\ wore \in Row(EquipSlots) /\ worn \in [Owners -> Wear]
    BY LedgerParts DEF Tables, Wear
  <1>2. /\ q # Nothing /\ Free(had) # {} /\ SetBag(c, b)
        /\ worn' = [worn EXCEPT ![c][e] = Nothing] /\ supply' = supply
    BY DEF unequip_item
  <1>3. q \in Pile
    BY <1>1, <1>2 DEF Row
  <1>4. b \in Bag /\ \E s \in Slots : had[s] = Nothing /\ ChangedAt(had, b, s, q)
    <2> HIDE DEF had, q
    <2> QED
      BY <1>1, <1>2, <1>3, PutIs
  <1> HIDE DEF b
  <1>5. PICK s \in Slots : had[s] = Nothing /\ ChangedAt(had, b, s, q)
    BY <1>4
  <1>6. worn' = [worn EXCEPT ![c] = [wore EXCEPT ![e] = had[s]]]
    BY <1>1, <1>2, <1>5
  <1>7. Dresses(c, s, e, b)
    BY <1>2, <1>5, <1>6 DEF Dresses
  <1> QED
    BY <1>4, <1>5, <1>7, DressKeeps

(* What is destroyed is noted.                                             *)
LEMMA DestroyKeeps ==
    ASSUME LedgerInv, NEW c \in Owners, NEW s \in Slots, destroy_item(c, s)
    PROVE  LedgerInv'
  <1> DEFINE had == inventory[c]
             p == had[s]
             b == [had EXCEPT ![s] = Nothing]
  <1>1. had \in Bag /\ supply \in [Items -> Nat]
    BY LedgerParts
  <1>2. /\ p # Nothing /\ SetBag(c, b) /\ worn' = worn
        /\ supply' = [supply EXCEPT ![p.item] = supply[p.item] - p.quantity]
    BY DEF destroy_item
  <1>3. p \in Pile /\ p.item \in Items /\ p.quantity \in Nat
    BY <1>1, <1>2, BagParts, PileParts
  <1>4. b \in Bag /\ Exchanged(had, b, p, Nothing) /\ ChangedAt(had, b, s, Nothing)
    <2>1. /\ b \in Bag /\ Exchanged(had, b, had[s], Nothing)
          /\ ChangedAt(had, b, s, Nothing)
      <3> HIDE DEF had
      <3> QED
        BY <1>1, BagOneChanged
    <2> QED
      BY <2>1
  <1> HIDE DEF b
  <1>5. Distinct(At([inventory EXCEPT ![c] = b], worn))
    <2>1. Fewer(had, b)
      BY <1>4 DEF Fewer, ChangedAt
    <2> QED
      BY <1>4, <2>1, FewerStep
  <1>6. ASSUME NEW i \in Items
        PROVE  supply'[i] = supply[i] - count_item(had, i) + count_item(b, i)
    <2>1. /\ supply'[i] = supply[i] - (IF i = p.item THEN p.quantity ELSE 0)
          /\ supply[i] \in Nat
      BY <1>1, <1>2, <1>3
    <2>2. Amount(p, i) = (IF i = p.item THEN p.quantity ELSE 0) /\ Amount(Nothing, i) = 0
      BY <1>2 DEF Amount
    <2>3. count_item(b, i) = count_item(had, i) - Amount(p, i) + Amount(Nothing, i)
      BY <1>4 DEF Exchanged
    <2>4. count_item(had, i) \in Nat
      BY <1>1, CountIs
    <2> HIDE DEF had, p
    <2> QED
      BY <1>3, <2>1, <2>2, <2>3, <2>4
  <1>7. supply' = [i \in Items |-> supply'[i]]
    BY <1>1, <1>2
  <1> QED
    BY <1>2, <1>4, <1>5, <1>6, <1>7, BagStep

(* A craft counts its ingredient less and its output more; what it makes   *)
(* is numbered from the scan made before.                                  *)
LEMMA CraftKeeps ==
    ASSUME LedgerInv, NEW c \in Owners, NEW r \in Recipes, NEW n \in Nat,
           complete_channel(c, r, n)
    PROVE  LedgerInv'
  <1> DEFINE had == inventory[c]
             o == r.output
             g == r.ingredient
             k == r.need * n
             d == remove_item_amount(had, g, k)
             next == next_instance_id
             b == add_stackable(d, o, n, next)
  <1>1. /\ had \in Bag /\ supply \in [Items -> Nat] /\ Tables(inventory, worn)
        /\ Distinct(At(inventory, worn)) /\ inventory \in [Owners -> Bag]
    BY LedgerParts DEF Tables
  <1>2. /\ o \in Items /\ g \in Items /\ k \in Nat
    <2>1. o \in Items /\ g \in Items /\ r.need \in Nat
      BY ItemsAssumption
    <2> QED
      BY <2>1
  <1>3. /\ count_item(had, g) >= k /\ space_for(d, o) >= n
        /\ SetBag(c, b) /\ worn' = worn
        /\ supply' = [supply EXCEPT ![o] = @ + n, ![g] = @ - k]
    BY DEF complete_channel, preview_craft, apply_craft
  <1>4. next \in Nat \ {0} /\ Below(At(inventory, worn), next)
    BY <1>1, NextIdIsAbove
  <1> HIDE DEF k
  <1>5. count_item(had, g) \in Nat /\ k <= count_item(had, g)
    BY <1>1, <1>2, <1>3, CountIs
  <1>6. /\ d \in Bag /\ count_item(d, g) = count_item(had, g) - k
        /\ \A j : j # g => count_item(d, j) = count_item(had, j)
        /\ Fewer(had, d)
    <2> HIDE DEF had, g
    <2>1. /\ d \in Bag /\ count_item(d, g) = count_item(had, g) - k
          /\ \A j : j # g => count_item(d, j) = count_item(had, j)
          /\ \A s \in Slots : d[s] # Nothing => had[s] # Nothing /\ d[s].id = had[s].id
      BY <1>1, <1>2, <1>5, RemoveIs
    <2> QED
      BY <2>1 DEF Fewer
  <1> HIDE DEF d
  <1>7. space_for(d, o) \in Nat /\ n <= space_for(d, o)
    <2>1. space_for(d, o) \in Nat
      BY <1>2, <1>6, SpaceIs
    <2> QED
      BY <1>3, <2>1
  <1>8. /\ b \in Bag /\ Mints(d, b, next)
        /\ count_item(b, o) = count_item(d, o) + n
        /\ \A j : j # o => count_item(b, j) = count_item(d, j)
    <2> HIDE DEF o, next
    <2> QED
      BY <1>2, <1>4, <1>6, <1>7, AddStackableSlots, AddMints, AddStackableCounts
  <1> HIDE DEF b
  <1>9. Distinct(At([inventory EXCEPT ![c] = b], worn))
    <2> DEFINE mid == [inventory EXCEPT ![c] = d]
    <2>1. mid \in [Owners -> Bag] /\ mid[c] = d
      BY <1>1, <1>6
    <2>2. Distinct(At(mid, worn))
      BY <1>6, FewerStep
    <2>3. Below(At(mid, worn), next)
      <3> HIDE DEF next
      <3> QED
        BY <1>1, <1>4, <1>6, FewerBelow
    <2>4. [mid EXCEPT ![c] = b] = [inventory EXCEPT ![c] = b]
      OBVIOUS
    <2> HIDE DEF mid, next
    <2>5. Distinct(At([mid EXCEPT ![c] = b], worn))
      BY <1>4, <1>8, <2>1, <2>2, <2>3, MintDistinct
    <2> QED
      BY <2>4, <2>5
  <1>10. ASSUME NEW i \in Items
         PROVE  supply'[i] = supply[i] - count_item(had, i) + count_item(b, i)
    <2> DEFINE x == count_item(had, i)
    <2> HIDE DEF o, g
    <2>1. /\ supply'[i] = supply[i] + (IF i = o THEN n ELSE 0) - (IF i = g THEN k ELSE 0)
          /\ supply[i] \in Nat
      BY <1>1, <1>2, <1>3
    <2>2. x \in Nat
      BY <1>1, CountIs
    <2>3. count_item(d, i) = x - (IF i = g THEN k ELSE 0)
      BY <1>6, <2>2
    <2>4. count_item(b, i) = count_item(d, i) + (IF i = o THEN n ELSE 0)
      BY <1>2, <1>8, <2>2, <2>3
    <2> HIDE DEF x
    <2>5. supply'[i] = supply[i] - x + count_item(b, i)
      BY <1>2, <2>1, <2>2, <2>3, <2>4
    <2> QED
      BY <2>5 DEF x
  <1>11. supply' = [i \in Items |-> supply'[i]]
    BY <1>1, <1>3
  <1> QED
    BY <1>3, <1>8, <1>9, <1>10, <1>11, BagStep

(* The ledger invariant is inductive.                                      *)
LEMMA LedgerKeeps == LedgerInv /\ [ItemsNext]_itemsVars => LedgerInv'
  <1> SUFFICES ASSUME LedgerInv, [ItemsNext]_itemsVars PROVE LedgerInv'
    OBVIOUS
  <1>1. CASE ItemsNext
    <2>1. PICK c \in Owners :
            \/ \E i \in Items, n \in 1..MaxPieces : grant_items(c, i, n)
            \/ \E from, to \in Slots : move_item(c, from, to)
            \/ \E s \in Slots, n \in 1..MAX_STACK : split_item(c, s, n)
            \/ \E s \in Slots : combine_item(c, s)
            \/ \E s \in Slots : equip_item(c, s)
            \/ \E e \in EquipSlots : unequip_item(c, e)
            \/ \E s \in Slots : destroy_item(c, s)
            \/ \E r \in Recipes, n \in 1..MaxPieces : complete_channel(c, r, n)
      BY <1>1 DEF ItemsNext
    <2>2. CASE \E i \in Items, n \in 1..MaxPieces : grant_items(c, i, n)
      <3>1. PICK i \in Items, n \in 1..MaxPieces : grant_items(c, i, n)
        BY <2>2
      <3>2. n \in Nat
        OBVIOUS
      <3> QED
        BY <3>1, <3>2, GrantKeeps
    <2>3. CASE \E from, to \in Slots : move_item(c, from, to)
      BY <2>3, MoveKeeps
    <2>4. CASE \E s \in Slots, n \in 1..MAX_STACK : split_item(c, s, n)
      BY <2>4, SplitStepKeeps
    <2>5. CASE \E s \in Slots : combine_item(c, s)
      BY <2>5, CombineStepKeeps
    <2>6. CASE \E s \in Slots : equip_item(c, s)
      BY <2>6, EquipKeeps
    <2>7. CASE \E e \in EquipSlots : unequip_item(c, e)
      BY <2>7, UnequipKeeps
    <2>8. CASE \E s \in Slots : destroy_item(c, s)
      BY <2>8, DestroyKeeps
    <2>9. CASE \E r \in Recipes, n \in 1..MaxPieces : complete_channel(c, r, n)
      <3>1. PICK r \in Recipes, n \in 1..MaxPieces : complete_channel(c, r, n)
        BY <2>9
      <3>2. n \in Nat
        OBVIOUS
      <3> QED
        BY <3>1, <3>2, CraftKeeps
    <2> QED
      BY <2>1, <2>2, <2>3, <2>4, <2>5, <2>6, <2>7, <2>8, <2>9
  <1>2. CASE UNCHANGED itemsVars
    <2>1. inventory' = inventory /\ worn' = worn /\ supply' = supply
      BY <1>2 DEF itemsVars
    <2>2. ItemsTypeOK' /\ InstancesDistinct'
      BY <2>1 DEF LedgerInv, ItemsInv, ItemsTypeOK, InstancesDistinct
    <2>3. PiecesConserved'
      BY <2>1 DEF LedgerInv, PiecesConserved, Existing
    <2> QED
      BY <2>2, <2>3 DEF LedgerInv, ItemsInv
  <1> QED
    BY <1>1, <1>2

(* The types, the ids and the pieces hold together: none of the three is   *)
(* inductive alone (items.rs, sim/crafting.rs and components.rs).          *)
THEOREM LedgerInvariance == ItemsSpec => []LedgerInv
  BY LedgerStarts, LedgerKeeps, PTL DEF ItemsSpec

(* No two piles have one id, in whatever bag or on whatever body, whatever *)
(* was granted, moved, split, combined, worn, destroyed or crafted         *)
(* (items.rs next_instance_id).                                            *)
THEOREM InstanceIdsDiffer == ItemsSpec => []ItemsInv
  <1>1. LedgerInv => ItemsInv
    BY DEF LedgerInv
  <1> QED
    BY LedgerInvariance, <1>1, PTL

(* The pieces in bags and equipment are those the ledger of grants,        *)
(* destructions and recipes says: no gesture makes or loses one            *)
(* (components.rs transfer_stack, combine_into, add_stackable,             *)
(* remove_item_amount).                                                    *)
THEOREM GesturesConservePieces == ItemsSpec => []PiecesConserved
  <1>1. LedgerInv => PiecesConserved
    BY DEF LedgerInv
  <1> QED
    BY LedgerInvariance, <1>1, PTL

==============================================================================
