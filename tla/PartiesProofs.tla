--------------------------- MODULE PartiesProofs ---------------------------
(***************************************************************************)
(* Proofs about the party tables for every number of characters, every     *)
(* party size and any bound on the counters.                               *)
(*                                                                         *)
(* The core is IInv.  RosterConsistent is not inductive alone: when a      *)
(* leader departs, promote_leader must find a member (EldestExists), and   *)
(* the id of a new party must have no member yet (IdsUsed).  That the      *)
(* leader is strictly the longest-tenured member needs distinct joined_at  *)
(* values in the past of the clock (StampsOrdered).                        *)
(*                                                                         *)
(* The refinement rests on the same: since the leader has strictly the     *)
(* smallest joined_at, a party's queue is its members InOrder of           *)
(* joined_at, before and after each step, and what a call does to the      *)
(* members it does to their order.                                         *)
(***************************************************************************)
EXTENDS PartiesRefinement, FiniteSetTheorems, TLAPS

USE PartyAssumption DEF PartyIds, NoParty

(* promote_leader returns one of the candidates, with the least joined_at. *)
LEMMA PromoteLeaderIsEldest ==
    ASSUME EldestExists, NEW S \in SUBSET Characters, S # {}
    PROVE  /\ PromoteLeader(S) \in S
           /\ \A d \in S : joinedAt[PromoteLeader(S)] <= joinedAt[d]
BY DEF EldestExists, PromoteLeader

(* The seat after a departure is empty with the party, or taken by one of  *)
(* those who remain.                                                       *)
LEMMA LeaderAfterRemains ==
    ASSUME TypeOK, EldestExists, RosterConsistent,
           NEW c \in Characters, NEW p \in PartyIds, c \in Members(p)
    PROVE  /\ Members(p) \ {c} = {} => LeaderAfter(c, p) = NoOne
           /\ Members(p) \ {c} # {} => LeaderAfter(c, p) \in Members(p) \ {c}
           /\ LeaderAfter(c, p) \in Characters \cup {NoOne}
<1> DEFINE remaining == Members(p) \ {c}
<1>1. CASE remaining = {}
  BY <1>1 DEF LeaderAfter
<1>2. CASE remaining # {} /\ leader[p] = c
  <2>1. LeaderAfter(c, p) = PromoteLeader(remaining)
    BY <1>2 DEF LeaderAfter
  <2>2. remaining \in SUBSET Characters
    BY DEF Members
  <2>3. PromoteLeader(remaining) \in remaining
    BY <1>2, <2>2, PromoteLeaderIsEldest
  <2> QED BY <1>2, <2>1, <2>2, <2>3
<1>3. CASE remaining # {} /\ leader[p] # c
  <2>1. LeaderAfter(c, p) = leader[p]
    BY <1>3 DEF LeaderAfter
  <2>2. leader[p] \in Members(p)
    BY <1>3 DEF RosterConsistent, PartyExists
  <2> QED BY <1>3, <2>1, <2>2 DEF Members
<1> QED BY <1>1, <1>2, <1>3

(* A request that a reducer inserts is a party_request row. *)
LEMMA RequestIsTyped ==
    ASSUME NEW p \in PartyIds, NEW a \in Characters, NEW b \in Characters,
           NEW k \in RequestKinds
    PROVE  [party_id |-> p, kind |-> k, initiator |-> a, recipient |-> b]
             \in PartyRequest
BY DEF PartyRequest

(* Whoever a request admits is a character. *)
LEMMA NewMemberIsTyped ==
    ASSUME TypeOK, NEW r \in requests
    PROVE  NewMemberOnAccept(r) \in Characters /\ r.party_id \in PartyIds
BY DEF TypeOK, PartyRequest, NewMemberOnAccept

(* Whatever stamp a row gets or loses, every group still has an eldest: the *)
(* eldest of the others or the character itself.                           *)
LEMMA EldestAfterUpdate ==
    ASSUME TypeOK, EldestExists, NEW c \in Characters, NEW v \in Nat,
           joinedAt' = [joinedAt EXCEPT ![c] = v]
    PROVE  EldestExists'
<1> SUFFICES ASSUME NEW S \in SUBSET Characters, S # {}
             PROVE  \E e \in S : \A d \in S : joinedAt'[e] <= joinedAt'[d]
  BY DEF EldestExists
<1>1. \A d \in Characters : joinedAt[d] \in Nat /\ joinedAt'[d] \in Nat
  BY DEF TypeOK
<1>2. joinedAt'[c] = v /\ \A d \in Characters \ {c} : joinedAt'[d] = joinedAt[d]
  BY DEF TypeOK
<1>3. CASE S \ {c} = {}
  <2>1. S = {c}
    BY <1>3
  <2> QED BY <2>1, <1>1
<1>4. CASE S \ {c} # {}
  <2>1. PICK m \in S \ {c} : \A d \in S \ {c} : joinedAt[m] <= joinedAt[d]
    BY <1>4 DEF EldestExists
  <2>2. CASE c \in S /\ v < joinedAt[m]
    BY <2>1, <2>2, <1>1, <1>2
  <2>3. CASE c \notin S \/ joinedAt[m] <= v
    BY <2>1, <2>3, <1>1, <1>2
  <2> QED BY <1>1, <2>1, <2>2, <2>3
<1> QED BY <1>3, <1>4

(* What a call that touches no roster has to keep besides the types. *)
RosterInv ==
    /\ EldestExists
    /\ StampsOrdered
    /\ IdsUsed
    /\ RosterConsistent
    /\ LeaderIsLongestTenured

LEMMA RosterUntouched ==
    ASSUME RosterInv, UNCHANGED <<leader, partyOf, joinedAt, lastParty, clock>>
    PROVE  RosterInv'
BY DEF RosterInv, EldestExists, StampsOrdered, IdsUsed, RosterConsistent,
       LeaderIsLongestTenured, InParty, Members, PartyExists

(* A character in no party enters one: a new one that it leads, or one that *)
(* exists.                                                                 *)
LEMMA RosterAfterInsert ==
    ASSUME IInv, TypeOK', NEW c \in Characters, NEW p \in PartyIds,
           ~InParty(c), InsertMember(c, p),
           \/ /\ lastParty' = lastParty + 1
              /\ p = lastParty'
              /\ leader' = [leader EXCEPT ![p] = c]
           \/ PartyExists(p) /\ UNCHANGED <<leader, lastParty>>
    PROVE  RosterInv'
<1>1. clock \in Nat /\ clock' = clock + 1 /\ clock' \in Nat
  BY DEF IInv, TypeOK, InsertMember
<1>2. partyOf'[c] = p /\ \A d \in Characters \ {c} : partyOf'[d] = partyOf[d]
  BY DEF IInv, TypeOK, InsertMember
<1>3. joinedAt'[c] = clock' /\ \A d \in Characters \ {c} : joinedAt'[d] = joinedAt[d]
  BY DEF IInv, TypeOK, InsertMember
<1>4. \A d \in Characters : joinedAt[d] \in Nat
  BY DEF IInv, TypeOK
<1>5. /\ Members(p)' = Members(p) \cup {c}
      /\ \A q \in PartyIds \ {p} : Members(q)' = Members(q)
  BY <1>2 DEF Members, InParty
<1>6. EldestExists'
  BY <1>1, EldestAfterUpdate DEF IInv, InsertMember
<1>7. StampsOrdered'
  BY <1>1, <1>2, <1>3, <1>4 DEF IInv, StampsOrdered, InParty
<1>8. IdsUsed'
  BY DEF IInv, TypeOK, IdsUsed, PartyExists
<1>9. \A d \in Characters : InParty(d) => joinedAt[d] < clock'
  BY <1>1, <1>4 DEF IInv, StampsOrdered
<1>10. CASE /\ lastParty' = lastParty + 1
            /\ p = lastParty'
            /\ leader' = [leader EXCEPT ![p] = c]
  <2>1. ~PartyExists(p)
    BY <1>10 DEF IInv, TypeOK, IdsUsed
  <2>2. Members(p)' = {c}
    BY <2>1, <1>5 DEF IInv, RosterConsistent
  <2>3. leader'[p] = c /\ \A q \in PartyIds \ {p} : leader'[q] = leader[q]
    BY <1>10 DEF IInv, TypeOK
  <2>4. RosterConsistent'
    BY <1>5, <2>2, <2>3 DEF IInv, RosterConsistent, PartyExists
  <2>5. \A q \in PartyIds \ {p} : \A d \in Members(q) : d # c
    BY DEF Members, InParty
  <2>6. \A q \in PartyIds \ {p} : leader[q] \in Members(q) \/ Members(q) = {}
    BY DEF IInv, RosterConsistent
  <2>7. LeaderIsLongestTenured'
    BY <1>3, <1>5, <2>2, <2>3, <2>5, <2>6
       DEF IInv, LeaderIsLongestTenured, Members
  <2> QED BY <1>6, <1>7, <1>8, <2>4, <2>7 DEF RosterInv
<1>11. CASE PartyExists(p) /\ UNCHANGED <<leader, lastParty>>
  <2>1. leader[p] \in Members(p) /\ leader[p] # c
    BY <1>11 DEF IInv, RosterConsistent, Members, InParty
  <2>2. RosterConsistent'
    BY <1>5, <1>11, <2>1 DEF IInv, RosterConsistent, PartyExists
  <2>3. \A q \in PartyIds : leader[q] \in Members(q) \/ Members(q) = {}
    BY DEF IInv, RosterConsistent
  <2>4. \A q \in PartyIds : \A d \in Members(q) :
          d # c /\ d \in Characters /\ InParty(d)
    BY DEF Members, InParty
  <2>5. ASSUME NEW q \in PartyIds, NEW d \in Members(q)' \ {leader'[q]}
        PROVE  joinedAt'[leader'[q]] < joinedAt'[d]
    <3>1. CASE d = c
      <4>1. q = p
        BY <3>1, <1>5, <2>4
      <4> QED BY <3>1, <4>1, <1>3, <1>9, <1>11, <2>1, <2>4
    <3>2. CASE d # c
      <4>1. d \in Members(q) \ {leader[q]}
        BY <3>2, <1>5, <1>11
      <4>2. leader[q] \in Members(q)
        BY <4>1, <2>3
      <4>3. joinedAt[leader[q]] < joinedAt[d]
        BY <4>1 DEF IInv, LeaderIsLongestTenured
      <4> QED BY <4>1, <4>2, <4>3, <1>3, <1>11, <2>4
    <3> QED BY <3>1, <3>2
  <2>6. LeaderIsLongestTenured'
    BY <2>5 DEF LeaderIsLongestTenured
  <2> QED BY <1>6, <1>7, <1>8, <2>2, <2>6 DEF RosterInv
<1> QED BY <1>10, <1>11

(* A member goes, by leaving or by deletion, and the seat follows. *)
LEMMA RosterAfterDelete ==
    ASSUME IInv, NEW c \in Characters, InParty(c), DeleteMember(c),
           leader' = [leader EXCEPT ![partyOf[c]] = LeaderAfter(c, partyOf[c])],
           UNCHANGED <<lastParty, clock>>
    PROVE  RosterInv'
<1>1. PICK p \in PartyIds : p = partyOf[c] /\ c \in Members(p)
  BY DEF IInv, TypeOK, InParty, Members
<1>2. partyOf'[c] = NoParty /\ \A d \in Characters \ {c} : partyOf'[d] = partyOf[d]
  BY <1>1 DEF IInv, TypeOK, DeleteMember
<1>3. \A d \in Characters \ {c} : joinedAt'[d] = joinedAt[d]
  BY DEF IInv, TypeOK, DeleteMember
<1>4. /\ Members(p)' = Members(p) \ {c}
      /\ \A q \in PartyIds \ {p} : Members(q)' = Members(q)
  BY <1>1, <1>2 DEF Members
<1>5. /\ leader'[p] = LeaderAfter(c, p)
      /\ \A q \in PartyIds \ {p} : leader'[q] = leader[q]
  BY <1>1 DEF IInv, TypeOK
<1>6. /\ Members(p) \ {c} = {} => LeaderAfter(c, p) = NoOne
      /\ Members(p) \ {c} # {} => LeaderAfter(c, p) \in Members(p) \ {c}
  BY <1>1, LeaderAfterRemains DEF IInv
<1>7. EldestExists'
  BY EldestAfterUpdate, 0 \in Nat DEF IInv, DeleteMember
<1>8. StampsOrdered'
  BY <1>2, <1>3 DEF IInv, StampsOrdered, InParty
<1>9. IdsUsed'
  <2>1. PartyExists(p)
    BY <1>1 DEF IInv, RosterConsistent
  <2> QED BY <2>1, <1>5 DEF IInv, IdsUsed, PartyExists
<1>10. RosterConsistent'
  <2>1. NoOne \notin Members(p)
    BY DEF Members
  <2> QED BY <2>1, <1>4, <1>5, <1>6 DEF IInv, RosterConsistent, PartyExists
<1>11. ASSUME NEW q \in PartyIds, NEW d \in Members(q)' \ {leader'[q]}
       PROVE  joinedAt'[leader'[q]] < joinedAt'[d]
  <2>1. \A e \in Characters : joinedAt[e] \in Nat
    BY DEF IInv, TypeOK
  <2>2. leader[q] \in Members(q) /\ d \in Members(q) /\ d # c
    BY <1>2, <1>4 DEF IInv, RosterConsistent, Members
  <2>3. Members(q) \subseteq Characters
    BY DEF Members
  <2>4. CASE q # p \/ leader[q] # c
    <3>1. leader'[q] = leader[q] /\ leader[q] # c
      <4>1. CASE q # p
        BY <4>1, <1>1, <1>5, <2>2 DEF Members
      <4>2. CASE q = p /\ leader[q] # c
        <5>1. Members(p) \ {c} # {}
          BY <4>2, <2>2
        <5> QED BY <4>2, <5>1, <1>5 DEF LeaderAfter
      <4> QED BY <2>4, <4>1, <4>2
    <3> QED BY <3>1, <2>2, <2>3, <1>3 DEF IInv, LeaderIsLongestTenured
  <2>5. CASE q = p /\ leader[q] = c
    <3> DEFINE remaining == Members(p) \ {c}
    <3>1. remaining \in SUBSET Characters /\ d \in remaining
      BY <2>2, <2>3, <2>5
    <3>2. leader'[q] = PromoteLeader(remaining)
      BY <3>1, <2>5, <1>5 DEF LeaderAfter
    <3>3. leader'[q] \in remaining /\ joinedAt[leader'[q]] <= joinedAt[d]
      BY <3>1, <3>2, PromoteLeaderIsEldest DEF IInv
    <3>4. joinedAt[leader'[q]] # joinedAt[d]
      BY <3>1, <3>3 DEF IInv, StampsOrdered, Members, InParty
    <3> QED BY <3>1, <3>3, <3>4, <2>1, <1>3
  <2> QED BY <2>4, <2>5
<1>12. LeaderIsLongestTenured'
  BY <1>11 DEF LeaderIsLongestTenured
<1> QED BY <1>7, <1>8, <1>9, <1>10, <1>12 DEF RosterInv

----------------------------------------------------------------------------
(* Every reducer call keeps the inductive invariant. *)
LEMMA NextKeepsIInv == IInv /\ [Next]_vars => IInv'
<1> SUFFICES ASSUME IInv, [Next]_vars PROVE TypeOK' /\ RosterInv'
  BY DEF IInv, RosterInv
<1> USE DEF IInv
<1>0. RosterInv
  BY DEF RosterInv
<1>1. ASSUME NEW c \in Characters, NewCharacter(c)
      PROVE  TypeOK' /\ RosterInv'
  BY <1>0, <1>1, RosterUntouched DEF NewCharacter, TypeOK
<1>2. ASSUME NEW actor \in Characters, NEW target \in Characters,
             InviteFounding(actor, target)
      PROVE  TypeOK' /\ RosterInv'
  <2> DEFINE p == lastParty + 1
  <2>1. p \in PartyIds
    BY <1>2 DEF InviteFounding, TypeOK
  <2>2. InviteRequest(p, actor, target) \in PartyRequest
    BY <2>1, RequestIsTyped DEF InviteRequest, RequestKinds
  <2>3. TypeOK'
    BY <1>2, <2>1, <2>2 DEF InviteFounding, InsertMember, TypeOK
  <2> QED BY <1>2, <2>1, <2>3, RosterAfterInsert DEF InviteFounding
<1>3. ASSUME NEW actor \in Characters, NEW target \in Characters,
             InviteAsLeader(actor, target)
      PROVE  TypeOK' /\ RosterInv'
  <2>1. partyOf[actor] \in PartyIds
    BY <1>3 DEF InviteAsLeader, Leads
  <2>2. InviteRequest(partyOf[actor], actor, target) \in PartyRequest
    BY <2>1, RequestIsTyped DEF InviteRequest, RequestKinds
  <2>3. TypeOK'
    BY <1>3, <2>2 DEF InviteAsLeader, TypeOK
  <2> QED BY <1>0, <1>3, <2>3, RosterUntouched DEF InviteAsLeader
<1>4. ASSUME NEW actor \in Characters, NEW target \in Characters,
             party_join(actor, target)
      PROVE  TypeOK' /\ RosterInv'
  <2>1. PICK p \in PartyIds :
          requests' = requests \cup
            {[party_id |-> p, kind |-> "JoinRequest",
              initiator |-> actor, recipient |-> target]}
    BY <1>4 DEF party_join
  <2>2. "JoinRequest" \in RequestKinds
    BY DEF RequestKinds
  <2>3. [party_id |-> p, kind |-> "JoinRequest",
         initiator |-> actor, recipient |-> target] \in PartyRequest
    BY <2>2, RequestIsTyped
  <2>4. TypeOK'
    BY <1>4, <2>1, <2>3 DEF party_join, TypeOK
  <2> QED BY <1>0, <1>4, <2>4, RosterUntouched DEF party_join
<1>5. ASSUME NEW actor \in Characters, NEW target \in Characters,
             party_accept(actor, target)
      PROVE  TypeOK' /\ RosterInv'
  <2>1. PICK r \in requests :
          /\ StillValid(r)
          /\ InsertMember(NewMemberOnAccept(r), r.party_id)
          /\ requests' = requests \ {r}
          /\ UNCHANGED <<players, leader, lastParty>>
    BY <1>5 DEF party_accept, Actionable
  <2>2. NewMemberOnAccept(r) \in Characters /\ r.party_id \in PartyIds
    BY NewMemberIsTyped
  <2>3. TypeOK'
    BY <2>1, <2>2 DEF InsertMember, TypeOK
  <2> QED BY <2>1, <2>2, <2>3, RosterAfterInsert DEF StillValid
<1>6. ASSUME NEW actor \in Characters, NEW target \in Characters,
             party_decline(actor, target)
      PROVE  TypeOK' /\ RosterInv'
  <2>1. TypeOK'
    BY <1>6 DEF party_decline, TypeOK
  <2> QED BY <1>0, <1>6, <2>1, RosterUntouched DEF party_decline
<1>7. ASSUME NEW actor \in Characters, party_leave(actor)
      PROVE  TypeOK' /\ RosterInv'
  <2>1. partyOf[actor] \in PartyIds /\ actor \in Members(partyOf[actor])
    BY <1>7 DEF party_leave, InParty, TypeOK, Members
  <2>2. LeaderAfter(actor, partyOf[actor]) \in Characters \cup {NoOne}
    BY <2>1, LeaderAfterRemains
  <2>3. requests' \subseteq requests
    BY <1>7 DEF party_leave
  <2>4. leader' \in [PartyIds -> Characters \cup {NoOne}]
    BY <1>7, <2>1, <2>2 DEF party_leave, TypeOK
  <2>5. /\ partyOf' \in [Characters -> PartyIds \cup {NoParty}]
        /\ joinedAt' \in [Characters -> 0 .. MaxClock]
    BY <1>7 DEF party_leave, DeleteMember, TypeOK
  <2>6. TypeOK'
    BY <1>7, <2>3, <2>4, <2>5 DEF party_leave, TypeOK
  <2> QED BY <1>7, <2>6, RosterAfterDelete DEF party_leave
<1>8. ASSUME NEW c \in Characters, delete_character(c)
      PROVE  TypeOK' /\ RosterInv'
  <2>1. CASE InParty(c)
    <3>1. partyOf[c] \in PartyIds /\ c \in Members(partyOf[c])
      BY <2>1 DEF InParty, TypeOK, Members
    <3>2. LeaderAfter(c, partyOf[c]) \in Characters \cup {NoOne}
      BY <3>1, LeaderAfterRemains
    <3>3. leader' \in [PartyIds -> Characters \cup {NoOne}]
      BY <1>8, <2>1, <3>1, <3>2 DEF delete_character, TypeOK
    <3>4. /\ partyOf' \in [Characters -> PartyIds \cup {NoParty}]
          /\ joinedAt' \in [Characters -> 0 .. MaxClock]
      BY <1>8 DEF delete_character, DeleteMember, TypeOK
    <3>5. TypeOK'
      BY <1>8, <3>3, <3>4 DEF delete_character, TypeOK
    <3> QED BY <1>8, <2>1, <3>5, RosterAfterDelete DEF delete_character
  <2>2. CASE ~InParty(c)
    <3>1. TypeOK'
      BY <1>8, <2>2 DEF delete_character, DeleteMember, TypeOK
    <3>2. partyOf' = partyOf
      BY <1>8, <2>2 DEF delete_character, DeleteMember, TypeOK, InParty
    <3>3. \A d \in Characters : InParty(d) => joinedAt'[d] = joinedAt[d]
      BY <1>8, <2>2 DEF delete_character, DeleteMember, TypeOK
    <3>4. EldestExists'
      BY <1>8, EldestAfterUpdate, 0 \in Nat DEF delete_character, DeleteMember
    <3>5. StampsOrdered'
      BY <1>8, <3>2, <3>3 DEF delete_character, StampsOrdered, InParty
    <3>6. leader' = leader /\ lastParty' = lastParty
      BY <1>8, <2>2 DEF delete_character
    <3>7. IdsUsed' /\ RosterConsistent'
      BY <3>2, <3>6 DEF IdsUsed, RosterConsistent, PartyExists, Members
    <3>8. \A p \in PartyIds : \A d \in Members(p) :
            d \in Characters /\ InParty(d) /\ leader[p] \in Members(p)
      BY DEF RosterConsistent, Members, InParty
    <3>9. LeaderIsLongestTenured'
      BY <3>2, <3>3, <3>6, <3>8 DEF LeaderIsLongestTenured, Members
    <3> QED BY <3>1, <3>4, <3>5, <3>7, <3>9 DEF RosterInv
  <2> QED BY <2>1, <2>2
<1>9. CASE UNCHANGED vars
  <2>1. TypeOK'
    BY <1>9 DEF vars, TypeOK
  <2> QED BY <1>0, <1>9, <2>1, RosterUntouched DEF vars
<1> QED
  BY <1>1, <1>2, <1>3, <1>4, <1>5, <1>6, <1>7, <1>8, <1>9 DEF Next

LEMMA InitIInv == Init => IInv
BY DEF Init, IInv, TypeOK, EldestExists, StampsOrdered, IdsUsed,
       RosterConsistent, LeaderIsLongestTenured, InParty, Members, PartyExists

(* In every reachable state the tables are well typed, a party has a row   *)
(* exactly while it has members, and the longest-tenured of them leads it. *)
THEOREM Invariance == Spec => []IInv
<1> QED BY InitIInv, NextKeepsIInv, PTL DEF Spec

(* No reachable state has a member row of a deleted party, an empty party  *)
(* or a leader who is not a member.                                        *)
THEOREM RosterIsConsistent == Spec => []RosterConsistent
<1>1. IInv => RosterConsistent
  BY DEF IInv
<1> QED BY <1>1, Invariance, PTL

(* Whatever the order of joins and departures, the leader of a party is    *)
(* the member with strictly the smallest joined_at.                        *)
THEOREM LeaderTenure == Spec => []LeaderIsLongestTenured
<1>1. IInv => LeaderIsLongestTenured
  BY DEF IInv
<1> QED BY <1>1, Invariance, PTL

----------------------------------------------------------------------------
(* The size of a party.                                                    *)

LEMMA MembersFinite ==
    ASSUME NEW p \in PartyIds
    PROVE  /\ IsFiniteSet(Members(p))
           /\ Cardinality(Members(p)) \in Nat
<1>1. Members(p) \subseteq Characters
  BY DEF Members
<1>2. IsFiniteSet(Members(p))
  BY <1>1, FS_Subset
<1> QED BY <1>2, FS_CardinalityType

(* A roster that only loses members stays within the cap. *)
LEMMA SmallerRoster ==
    ASSUME NEW p \in PartyIds, Members(p)' \subseteq Members(p),
           Cardinality(Members(p)) <= MAX_PARTY_SIZE
    PROVE  Cardinality(Members(p)') <= MAX_PARTY_SIZE
<1>1. /\ IsFiniteSet(Members(p))
      /\ Cardinality(Members(p)) \in Nat
  BY MembersFinite
<1>2. /\ IsFiniteSet(Members(p)')
      /\ Cardinality(Members(p)') <= Cardinality(Members(p))
  BY <1>1, FS_Subset
<1>3. Cardinality(Members(p)') \in Nat
  BY <1>2, FS_CardinalityType
<1> QED BY <1>1, <1>2, <1>3

(* A member enters a party that is not full. *)
LEMMA RosterWithNewcomer ==
    ASSUME TypeOK, PartySizeBounded, NEW c \in Characters, NEW p \in PartyIds,
           InsertMember(c, p), ~party_is_full(p)
    PROVE  PartySizeBounded'
<1> SUFFICES ASSUME NEW q \in PartyIds
             PROVE  Cardinality(Members(q)') <= MAX_PARTY_SIZE
  BY DEF PartySizeBounded
<1>1. partyOf' = [partyOf EXCEPT ![c] = p]
  BY DEF InsertMember
<1>2. CASE q # p
  <2>1. Members(q)' \subseteq Members(q)
    BY <1>1, <1>2 DEF Members, TypeOK
  <2> QED BY <2>1, SmallerRoster DEF PartySizeBounded
<1>3. CASE q = p
  <2>1. Members(p)' = Members(p) \cup {c}
    BY <1>1 DEF Members, TypeOK
  <2>2. IsFiniteSet(Members(p)) /\ Cardinality(Members(p)) \in Nat
    BY MembersFinite
  <2>3. /\ Cardinality(Members(p) \cup {c}) \in Nat
        /\ Cardinality(Members(p) \cup {c}) <= Cardinality(Members(p)) + 1
    <3>1. Cardinality(Members(p) \cup {c}) =
            IF c \in Members(p) THEN Cardinality(Members(p))
                                ELSE Cardinality(Members(p)) + 1
      BY <2>2, FS_AddElement
    <3> QED BY <2>2, <3>1
  <2>4. Cardinality(Members(p)) < MAX_PARTY_SIZE
    BY <2>2 DEF party_is_full
  <2> QED BY <1>3, <2>1, <2>2, <2>3, <2>4
<1> QED BY <1>2, <1>3

LEMMA NextKeepsSize ==
    IInv /\ PartySizeBounded /\ [Next]_vars => PartySizeBounded'
<1> SUFFICES ASSUME IInv, PartySizeBounded, [Next]_vars
             PROVE  PartySizeBounded'
  OBVIOUS
<1> USE DEF IInv
<1>1. CASE \A p \in PartyIds : Members(p)' \subseteq Members(p)
  BY <1>1, SmallerRoster DEF PartySizeBounded
<1>2. ASSUME NEW c \in Characters, NewCharacter(c)
      PROVE  PartySizeBounded'
  BY <1>1, <1>2 DEF NewCharacter, Members
<1>3. ASSUME NEW actor \in Characters, NEW target \in Characters,
             InviteFounding(actor, target)
      PROVE  PartySizeBounded'
  <2>1. PICK p \in PartyIds : p = lastParty + 1 /\ InsertMember(actor, p)
    BY <1>3 DEF InviteFounding, TypeOK
  <2>2. ~PartyExists(p)
    BY <2>1 DEF TypeOK, IdsUsed
  <2>3. Members(p) = {}
    BY <2>2 DEF RosterConsistent
  <2>4. ~party_is_full(p)
    BY <2>3, FS_EmptySet DEF party_is_full
  <2> QED BY <2>1, <2>4, RosterWithNewcomer
<1>4. ASSUME NEW actor \in Characters, NEW target \in Characters,
             \/ InviteAsLeader(actor, target)
             \/ party_join(actor, target)
             \/ party_decline(actor, target)
      PROVE  PartySizeBounded'
  BY <1>1, <1>4 DEF InviteAsLeader, party_join, party_decline, Members
<1>5. ASSUME NEW actor \in Characters, NEW target \in Characters,
             party_accept(actor, target)
      PROVE  PartySizeBounded'
  <2>1. PICK r \in requests :
          StillValid(r) /\ InsertMember(NewMemberOnAccept(r), r.party_id)
    BY <1>5 DEF party_accept, Actionable
  <2> QED BY <2>1, NewMemberIsTyped, RosterWithNewcomer DEF StillValid
<1>6. ASSUME NEW c \in Characters, party_leave(c) \/ delete_character(c)
      PROVE  PartySizeBounded'
  BY <1>1, <1>6
     DEF party_leave, delete_character, DeleteMember, Members, TypeOK
<1>7. CASE UNCHANGED vars
  BY <1>1, <1>7 DEF vars, Members
<1> QED BY <1>2, <1>3, <1>4, <1>5, <1>6, <1>7 DEF Next

(* No party ever has more than MAX_PARTY_SIZE members, whatever requests    *)
(* were pending when it filled up.                                          *)
THEOREM SizeBounded == Spec => []PartySizeBounded
<1>1. Init => PartySizeBounded
  <2> SUFFICES ASSUME Init, NEW p \in PartyIds
               PROVE  Cardinality(Members(p)) <= MAX_PARTY_SIZE
    BY DEF PartySizeBounded
  <2>1. Members(p) = {}
    BY DEF Init, Members
  <2> QED BY <2>1, FS_EmptySet
<1> QED BY <1>1, NextKeepsSize, Invariance, PTL DEF Spec

----------------------------------------------------------------------------
(* Requests.                                                               *)

(* A request inserted without a pending conflict shares its recipient with *)
(* no other, and crosses none.                                             *)
LEMMA NewRequestUnambiguous ==
    ASSUME RequestsUnambiguous, NEW r, r.initiator # r.recipient,
           ~PendingConflict(r.initiator, r.recipient),
           requests' = requests \cup {r}
    PROVE  RequestsUnambiguous'
BY DEF RequestsUnambiguous, PendingConflict

LEMMA NextKeepsRequests ==
    RequestsUnambiguous /\ [Next]_vars => RequestsUnambiguous'
<1> SUFFICES ASSUME RequestsUnambiguous, [Next]_vars
             PROVE  RequestsUnambiguous'
  OBVIOUS
<1>1. CASE requests' \subseteq requests
  BY <1>1 DEF RequestsUnambiguous
<1>2. ASSUME NEW actor \in Characters, NEW target \in Characters,
             InviteFounding(actor, target)
      PROVE  RequestsUnambiguous'
  <2> DEFINE r == InviteRequest(lastParty + 1, actor, target)
  <2>1. r.initiator = actor /\ r.recipient = target
    BY DEF InviteRequest
  <2> QED BY <1>2, <2>1, NewRequestUnambiguous DEF InviteFounding, MayInvite
<1>3. ASSUME NEW actor \in Characters, NEW target \in Characters,
             InviteAsLeader(actor, target)
      PROVE  RequestsUnambiguous'
  <2> DEFINE r == InviteRequest(partyOf[actor], actor, target)
  <2>1. r.initiator = actor /\ r.recipient = target
    BY DEF InviteRequest
  <2> QED BY <1>3, <2>1, NewRequestUnambiguous DEF InviteAsLeader, MayInvite
<1>4. ASSUME NEW actor \in Characters, NEW target \in Characters,
             party_join(actor, target)
      PROVE  RequestsUnambiguous'
  <2>1. PICK r :
          /\ r.initiator = actor /\ r.recipient = target
          /\ requests' = requests \cup {r}
    BY <1>4 DEF party_join
  <2> QED BY <1>4, <2>1, NewRequestUnambiguous DEF party_join
<1>5. ASSUME NEW actor \in Characters, NEW target \in Characters,
             party_accept(actor, target) \/ party_decline(actor, target)
      PROVE  RequestsUnambiguous'
  BY <1>1, <1>5 DEF party_accept, party_decline
<1>6. ASSUME NEW c \in Characters,
             NewCharacter(c) \/ party_leave(c) \/ delete_character(c)
      PROVE  RequestsUnambiguous'
  BY <1>1, <1>6 DEF NewCharacter, party_leave, delete_character
<1>7. CASE UNCHANGED vars
  BY <1>1, <1>7 DEF vars
<1> QED BY <1>2, <1>3, <1>4, <1>5, <1>6, <1>7 DEF Next

(* party_accept and party_decline never have two requests to choose from.  *)
THEOREM Unambiguous == Spec => []RequestsUnambiguous
<1>1. Init => RequestsUnambiguous
  BY DEF Init, RequestsUnambiguous
<1> QED BY <1>1, NextKeepsRequests, PTL DEF Spec

LEMMA NextKeepsNoGhosts == IInv /\ NoGhosts /\ [Next]_vars => NoGhosts'
<1> SUFFICES ASSUME TypeOK, NoGhosts, [Next]_vars PROVE NoGhosts'
  BY DEF IInv
<1>1. ASSUME NEW c \in Characters, NewCharacter(c)
      PROVE  NoGhosts'
  BY <1>1 DEF NewCharacter, NoGhosts, InParty
<1>2. ASSUME NEW actor \in Characters, NEW target \in Characters,
             InviteFounding(actor, target) \/ InviteAsLeader(actor, target)
      PROVE  NoGhosts'
  BY <1>2 DEF InviteFounding, InviteAsLeader, MayInvite, InviteRequest,
              InsertMember, NoGhosts, InParty, TypeOK
<1>3. ASSUME NEW actor \in Characters, NEW target \in Characters,
             party_join(actor, target)
      PROVE  NoGhosts'
  <2>1. PICK r :
          /\ r.initiator = actor /\ r.recipient = target
          /\ requests' = requests \cup {r}
    BY <1>3 DEF party_join
  <2> QED BY <1>3, <2>1 DEF party_join, NoGhosts, InParty
<1>4. ASSUME NEW actor \in Characters, NEW target \in Characters,
             party_accept(actor, target)
      PROVE  NoGhosts'
  <2>1. PICK r \in requests :
          /\ r.initiator = target /\ r.recipient = actor
          /\ {actor, target} \subseteq players
          /\ InsertMember(NewMemberOnAccept(r), r.party_id)
          /\ requests' = requests \ {r}
          /\ players' = players
    BY <1>4 DEF party_accept, Actionable
  <2>2. NewMemberOnAccept(r) \in players
    BY <2>1 DEF NewMemberOnAccept
  <2> QED BY <2>1, <2>2 DEF InsertMember, NoGhosts, InParty, TypeOK
<1>5. ASSUME NEW actor \in Characters, NEW target \in Characters,
             party_decline(actor, target)
      PROVE  NoGhosts'
  BY <1>5 DEF party_decline, NoGhosts, InParty
<1>6. ASSUME NEW c \in Characters, party_leave(c)
      PROVE  NoGhosts'
  BY <1>6 DEF party_leave, DeleteMember, NoGhosts, InParty, TypeOK
<1>7. ASSUME NEW c \in Characters, delete_character(c)
      PROVE  NoGhosts'
  BY <1>7 DEF delete_character, DeleteMember, RequestsNaming, NoGhosts,
              InParty, TypeOK
<1>8. CASE UNCHANGED vars
  BY <1>8 DEF vars, NoGhosts, InParty
<1> QED BY <1>1, <1>2, <1>3, <1>4, <1>5, <1>6, <1>7, <1>8 DEF Next

(* No table of the party system ever names a deleted character.            *)
THEOREM Ghostless == Spec => []NoGhosts
<1>1. Init => NoGhosts
  BY DEF Init, NoGhosts, InParty
<1> QED BY <1>1, NextKeepsNoGhosts, Invariance, PTL DEF Spec

(* A member is never carried into another party by an old request.         *)
THEOREM Unpoachable == Spec => NoPoaching
<1> DEFINE Step == \A c \in Characters :
                      InParty(c) => partyOf'[c] \in {partyOf[c], NoParty}
<1>1. IInv /\ [Next]_vars => [Step]_vars
  <2> SUFFICES ASSUME IInv, [Next]_vars PROVE Step \/ UNCHANGED vars
    OBVIOUS
  <2>1. ASSUME NEW c \in Characters, NEW p, InsertMember(c, p), ~InParty(c)
        PROVE  Step
    BY <2>1 DEF InsertMember, InParty, IInv, TypeOK
  <2>2. ASSUME NEW c \in Characters, DeleteMember(c)
        PROVE  Step
    BY <2>2 DEF DeleteMember, InParty, IInv, TypeOK
  <2>3. ASSUME NEW actor \in Characters, NEW target \in Characters,
               InviteFounding(actor, target)
        PROVE  Step
    BY <2>1, <2>3 DEF InviteFounding
  <2>4. ASSUME NEW actor \in Characters, NEW target \in Characters,
               party_accept(actor, target)
        PROVE  Step
    <3>1. PICK r \in requests :
            StillValid(r) /\ InsertMember(NewMemberOnAccept(r), r.party_id)
      BY <2>4 DEF party_accept, Actionable
    <3>2. NewMemberOnAccept(r) \in Characters
      BY NewMemberIsTyped DEF IInv
    <3> QED BY <2>1, <3>1, <3>2 DEF StillValid
  <2>5. ASSUME NEW actor \in Characters, NEW target \in Characters,
               \/ InviteAsLeader(actor, target)
               \/ party_join(actor, target)
               \/ party_decline(actor, target)
        PROVE  Step
    BY <2>5 DEF InviteAsLeader, party_join, party_decline
  <2>6. ASSUME NEW c \in Characters,
               NewCharacter(c) \/ party_leave(c) \/ delete_character(c)
        PROVE  Step
    BY <2>2, <2>6 DEF NewCharacter, party_leave, delete_character
  <2> QED BY <2>3, <2>4, <2>5, <2>6 DEF Next
<1> QED BY <1>1, Invariance, PTL DEF Spec, NoPoaching

(* Whoever appears in a roster founded the party, answered an invite to it, *)
(* or had asked to join it.                                                 *)
THEOREM Consent == Spec => MutualConsent
<1> DEFINE Agreed(c) ==
        \/ partyOf'[c] > lastParty /\ leader'[partyOf'[c]] = c
        \/ \E r \in requests \ requests' :
              /\ r.party_id = partyOf'[c]
              /\ c = IF r.kind = "Invite" THEN r.recipient ELSE r.initiator
           Step == \A c \in Characters :
                      partyOf'[c] # partyOf[c] /\ partyOf'[c] # NoParty => Agreed(c)
<1>1. IInv /\ [Next]_vars => [Step]_vars
  <2> SUFFICES ASSUME IInv, [Next]_vars PROVE Step \/ UNCHANGED vars
    OBVIOUS
  <2>1. ASSUME NEW d \in Characters, NEW p, InsertMember(d, p)
        PROVE  /\ partyOf'[d] = p
               /\ \A c \in Characters : c # d => partyOf'[c] = partyOf[c]
    BY <2>1 DEF InsertMember, IInv, TypeOK
  <2>2. ASSUME NEW d \in Characters, DeleteMember(d)
        PROVE  Step
    BY <2>2 DEF DeleteMember, IInv, TypeOK
  <2>3. ASSUME NEW actor \in Characters, NEW target \in Characters,
               InviteFounding(actor, target)
        PROVE  Step
    <3>1. InsertMember(actor, lastParty + 1)
      BY <2>3 DEF InviteFounding
    <3>2. lastParty + 1 \in PartyIds /\ lastParty \in Nat
      BY <2>3 DEF InviteFounding, IInv, TypeOK, PartyIds
    <3>3. leader'[lastParty + 1] = actor
      BY <2>3, <3>2 DEF InviteFounding, IInv, TypeOK
    <3>4. Agreed(actor)
      BY <2>1, <3>1, <3>2, <3>3
    <3> QED BY <2>1, <3>1, <3>4
  <2>4. ASSUME NEW actor \in Characters, NEW target \in Characters,
               party_accept(actor, target)
        PROVE  Step
    <3>1. PICK r \in requests : /\ InsertMember(NewMemberOnAccept(r), r.party_id)
                                /\ requests' = requests \ {r}
      BY <2>4 DEF party_accept, Actionable
    <3>2. NewMemberOnAccept(r) \in Characters
      BY NewMemberIsTyped DEF IInv
    <3>3. partyOf'[NewMemberOnAccept(r)] = r.party_id
      BY <2>1, <3>1, <3>2
    <3>4. Agreed(NewMemberOnAccept(r))
      <4>1. r \in requests \ requests'
        BY <3>1
      <4> QED BY <3>3, <4>1 DEF NewMemberOnAccept
    <3> QED BY <2>1, <3>1, <3>2, <3>4
  <2>5. ASSUME NEW actor \in Characters, NEW target \in Characters,
               \/ InviteAsLeader(actor, target)
               \/ party_join(actor, target)
               \/ party_decline(actor, target)
        PROVE  Step
    BY <2>5 DEF InviteAsLeader, party_join, party_decline
  <2>6. ASSUME NEW c \in Characters,
               NewCharacter(c) \/ party_leave(c) \/ delete_character(c)
        PROVE  Step
    BY <2>2, <2>6 DEF NewCharacter, party_leave, delete_character
  <2> QED BY <2>3, <2>4, <2>5, <2>6 DEF Next
<1> QED BY <1>1, Invariance, PTL DEF Spec, MutualConsent

----------------------------------------------------------------------------
(* Queues.                                                                 *)

(* The queue of the characters of M in order of their stamps. *)
InOrder(M, stamp) ==
    [members |-> M,
     ahead |-> {pair \in M \X M : stamp[pair[1]] < stamp[pair[2]]}]

(* A leader with strictly the least stamp stands where its stamp puts it. *)
LEMMA LeaderFirstIsInOrder ==
    ASSUME NEW M, NEW l \in M, NEW stamp, \A c \in M : stamp[c] \in Nat,
           \A c \in M \ {l} : stamp[l] < stamp[c]
    PROVE  {pair \in M \X M :
               /\ pair[1] # pair[2]
               /\ \/ pair[1] = l
                  \/ pair[2] # l /\ stamp[pair[1]] < stamp[pair[2]]}
             = {pair \in M \X M : stamp[pair[1]] < stamp[pair[2]]}
<1>1. ASSUME NEW a \in M, NEW b \in M
      PROVE  (a # b /\ (a = l \/ (b # l /\ stamp[a] < stamp[b])))
               <=> stamp[a] < stamp[b]
  <2>1. stamp[a] \in Nat /\ stamp[b] \in Nat /\ stamp[l] \in Nat
    OBVIOUS
  <2>2. CASE a = l /\ b = l
    BY <2>1, <2>2
  <2>3. CASE a = l /\ b # l
    BY <2>3
  <2>4. CASE a # l /\ b = l
    <3>1. stamp[l] < stamp[a]
      BY <2>4
    <3> QED BY <2>1, <2>4, <3>1
  <2>5. CASE a # l /\ b # l
    BY <2>1, <2>5
  <2> QED BY <2>2, <2>3, <2>4, <2>5
<1>2. ASSUME NEW pair \in M \X M
      PROVE  pair[1] \in M /\ pair[2] \in M
  OBVIOUS
<1> QED BY <1>1, <1>2

(* Whoever is stamped last enters at the tail. *)
LEMMA EnteringInOrder ==
    ASSUME NEW M, NEW c, c \notin M, NEW old, NEW new,
           \A d \in M : new[d] = old[d] /\ old[d] \in Nat /\ old[d] < new[c],
           new[c] \in Nat
    PROVE  InOrder(M \cup {c}, new) =
             [members |-> InOrder(M, old).members \cup {c},
              ahead |-> InOrder(M, old).ahead \cup (InOrder(M, old).members \X {c})]
<1> DEFINE N == M \cup {c}
           after == {pair \in N \X N : new[pair[1]] < new[pair[2]]}
           before == {pair \in M \X M : old[pair[1]] < old[pair[2]]}
<1>1. ASSUME NEW a \in N, NEW b \in N
      PROVE  <<a, b>> \in after <=> <<a, b>> \in before \cup (M \X {c})
  <2>1. <<a, b>> \in after <=> new[a] < new[b]
    OBVIOUS
  <2>2. <<a, b>> \in before <=> a \in M /\ b \in M /\ old[a] < old[b]
    OBVIOUS
  <2>3. <<a, b>> \in M \X {c} <=> a \in M /\ b = c
    OBVIOUS
  <2>4. CASE a \in M /\ b \in M
    BY <2>1, <2>2, <2>3, <2>4
  <2>5. CASE a \in M /\ b = c
    BY <2>1, <2>3, <2>5
  <2>6. CASE a = c /\ b \in M
    <3>1. ~(new[a] < new[b])
      BY <2>6
    <3> QED BY <2>1, <2>2, <2>3, <2>6, <3>1
  <2>7. CASE a = c /\ b = c
    BY <2>1, <2>2, <2>3, <2>7
  <2> QED BY <2>4, <2>5, <2>6, <2>7
<1>2. after \subseteq N \X N /\ before \cup (M \X {c}) \subseteq N \X N
  OBVIOUS
<1>3. after = before \cup (M \X {c})
  <2> HIDE DEF after, before
  <2>1. ASSUME NEW pair \in N \X N
        PROVE  pair \in after <=> pair \in before \cup (M \X {c})
    <3>1. pair[1] \in N /\ pair[2] \in N /\ pair = <<pair[1], pair[2]>>
      OBVIOUS
    <3> HIDE DEF N
    <3> QED BY <1>1, <3>1
  <2> QED BY <1>2, <2>1
<1> QED BY <1>3 DEF InOrder

LEMMA AloneInOrder ==
    ASSUME NEW c, NEW stamp, stamp[c] \in Nat
    PROVE  InOrder({c}, stamp) = [members |-> {c}, ahead |-> {}]
<1>1. {pair \in {c} \X {c} : stamp[pair[1]] < stamp[pair[2]]} = {}
  OBVIOUS
<1> QED BY <1>1 DEF InOrder

(* The queue of a party is its members in order of joined_at. *)
LEMMA QueueIsInOrder ==
    ASSUME IInv, NEW p \in PartyIds, PartyExists(p)
    PROVE  Queue(p) = InOrder(Members(p), joinedAt)
<1>1. leader[p] \in Members(p)
  BY DEF IInv, RosterConsistent
<1>2. InLine(p) = Members(p)
  BY <1>1 DEF InLine
<1>3. \A c \in Members(p) : joinedAt[c] \in Nat
  BY DEF IInv, TypeOK, Members
<1>4. \A c \in Members(p) \ {leader[p]} : joinedAt[leader[p]] < joinedAt[c]
  BY DEF IInv, LeaderIsLongestTenured
<1>5. {pair \in Members(p) \X Members(p) : Precedes(p, pair[1], pair[2])}
        = {pair \in Members(p) \X Members(p) :
              joinedAt[pair[1]] < joinedAt[pair[2]]}
  BY <1>1, <1>3, <1>4, LeaderFirstIsInOrder DEF Precedes
<1> QED BY <1>2, <1>5 DEF Queue, InOrder

LEMMA QueueIsInOrderAfter ==
    ASSUME IInv', NEW p \in PartyIds, PartyExists(p)'
    PROVE  Queue(p)' = InOrder(Members(p)', joinedAt')
<1>1. leader'[p] \in Members(p)'
  BY DEF IInv, RosterConsistent
<1>2. InLine(p)' = Members(p)'
  BY <1>1 DEF InLine
<1>3. \A c \in Members(p)' : joinedAt'[c] \in Nat
  BY DEF IInv, TypeOK, Members
<1>4. \A c \in Members(p)' \ {leader'[p]} : joinedAt'[leader'[p]] < joinedAt'[c]
  BY DEF IInv, LeaderIsLongestTenured
<1>5. {pair \in Members(p)' \X Members(p)' : Precedes(p, pair[1], pair[2])'}
        = {pair \in Members(p)' \X Members(p)' :
              joinedAt'[pair[1]] < joinedAt'[pair[2]]}
  BY <1>1, <1>3, <1>4, LeaderFirstIsInOrder DEF Precedes
<1> QED BY <1>2, <1>5 DEF Queue, InOrder

(* Two parties never stand in the same queue: nobody is in both. *)
LEMMA QueuesDiffer ==
    ASSUME IInv, NEW p \in PartyIds, NEW q \in PartyIds, p # q,
           PartyExists(p), PartyExists(q)
    PROVE  Queue(p) # Queue(q)
<1>1. Queue(p).members = Members(p) /\ Queue(q).members = Members(q)
  BY QueueIsInOrder DEF InOrder
<1>2. Members(p) # {} /\ Members(p) \cap Members(q) = {}
  BY DEF IInv, RosterConsistent, Members
<1> QED BY <1>1, <1>2

(* A call that concerns the party p leaves the queues of the others. *)
LEMMA OneQueueMoves ==
    ASSUME IInv, NEW p \in PartyIds,
           \A q \in PartyIds \ {p} :
              /\ PartyExists(q)' <=> PartyExists(q)
              /\ PartyExists(q) => Queue(q)' = Queue(q)
    PROVE  Queues' = (IF PartyExists(p) THEN Queues \ {Queue(p)} ELSE Queues)
                      \cup (IF PartyExists(p)' THEN {Queue(p)'} ELSE {})
<1> DEFINE Others == {Queue(q) : q \in {r \in PartyIds \ {p} : PartyExists(r)}}
<1>1. Queues = Others \cup (IF PartyExists(p) THEN {Queue(p)} ELSE {})
  BY DEF Queues
<1>2. Queues' = Others \cup (IF PartyExists(p)' THEN {Queue(p)'} ELSE {})
  BY DEF Queues
<1>3. PartyExists(p) => Queue(p) \notin Others
  BY QueuesDiffer
<1> QED BY <1>1, <1>2, <1>3

(* The rows of the others say the same queue. *)
LEMMA SameRowsSameQueue ==
    ASSUME NEW q \in PartyIds, leader'[q] = leader[q],
           InLine(q)' = InLine(q), \A c \in InLine(q) : joinedAt'[c] = joinedAt[c]
    PROVE  /\ PartyExists(q)' <=> PartyExists(q)
           /\ Queue(q)' = Queue(q)
<1>1. \A pair \in InLine(q) \X InLine(q) :
         Precedes(q, pair[1], pair[2])' <=> Precedes(q, pair[1], pair[2])
  BY DEF Precedes
<1> QED BY <1>1 DEF PartyExists, Queue

LEMMA QueuesUntouched ==
    ASSUME UNCHANGED <<leader, partyOf, joinedAt>>
    PROVE  UNCHANGED Queues
BY DEF Queues, Queue, InLine, Precedes, Members, PartyExists

LEMMA OthersKeepTheirQueue ==
    ASSUME IInv, NEW c \in Characters, NEW q \in PartyIds,
           leader'[q] = leader[q], partyOf[c] # q, partyOf'[c] # q,
           \A d \in Characters \ {c} :
              partyOf'[d] = partyOf[d] /\ joinedAt'[d] = joinedAt[d]
    PROVE  /\ PartyExists(q)' <=> PartyExists(q)
           /\ PartyExists(q) => Queue(q)' = Queue(q)
<1>1. Members(q)' = Members(q) /\ c \notin Members(q) /\ Members(q) \subseteq Characters
  BY DEF Members
<1>2. CASE PartyExists(q)
  <2>1. leader[q] \in Members(q)
    BY <1>2 DEF IInv, RosterConsistent
  <2>2. InLine(q)' = InLine(q) /\ InLine(q) \subseteq Characters \ {c}
    BY <1>1, <2>1 DEF InLine
  <2>3. \A d \in InLine(q) : joinedAt'[d] = joinedAt[d]
    BY <2>2
  <2> QED BY <1>2, <2>2, <2>3, SameRowsSameQueue
<1>3. CASE ~PartyExists(q)
  BY <1>3 DEF PartyExists
<1> QED BY <1>2, <1>3

(* Who has no member row stands in no queue. *)
LEMMA NoRowMeansFree ==
    ASSUME IInv, NEW c \in Characters, ~InParty(c)
    PROVE  Roster!Free(c)
<1>1. ASSUME NEW p \in PartyIds, PartyExists(p)
      PROVE  c \notin Queue(p).members
  <2>1. Queue(p).members = Members(p)
    BY <1>1, QueueIsInOrder DEF InOrder
  <2> QED BY <2>1 DEF Members, InParty
<1> QED BY <1>1 DEF Roster!Free, Queues

(* Founding: the founder stands alone in a new queue. *)
LEMMA FoundingIsFound ==
    ASSUME IInv, IInv', NEW actor \in Characters, NEW target \in Characters,
           InviteFounding(actor, target)
    PROVE  Roster!Found(actor)
<1>1. PICK p \in PartyIds :
        /\ p = lastParty + 1
        /\ leader' = [leader EXCEPT ![p] = actor]
        /\ partyOf' = [partyOf EXCEPT ![actor] = p]
        /\ joinedAt' = [joinedAt EXCEPT ![actor] = clock + 1]
  <2>1. lastParty + 1 \in PartyIds
    BY DEF InviteFounding, IInv, TypeOK
  <2> HIDE DEF PartyIds
  <2> QED BY <2>1 DEF InviteFounding, InsertMember
<1>2. ~PartyExists(p) /\ Members(p) = {}
  BY <1>1 DEF IInv, TypeOK, IdsUsed, RosterConsistent
<1>3. ~InParty(actor)
  BY DEF InviteFounding
<1>4. PartyExists(p)' /\ Members(p)' = {actor}
  BY <1>1, <1>2 DEF IInv, TypeOK, PartyExists, Members
<1>5. Queue(p)' = [members |-> {actor}, ahead |-> {}]
  <2>1. joinedAt'[actor] \in Nat
    BY DEF IInv, TypeOK
  <2> QED BY <1>4, <2>1, QueueIsInOrderAfter, AloneInOrder
<1>6. \A q \in PartyIds \ {p} :
        /\ PartyExists(q)' <=> PartyExists(q)
        /\ PartyExists(q) => Queue(q)' = Queue(q)
  <2> SUFFICES ASSUME NEW q \in PartyIds \ {p}
               PROVE  /\ PartyExists(q)' <=> PartyExists(q)
                      /\ PartyExists(q) => Queue(q)' = Queue(q)
    OBVIOUS
  <2>1. leader'[q] = leader[q] /\ partyOf[actor] # q /\ partyOf'[actor] # q
    BY <1>1, <1>3 DEF IInv, TypeOK, InParty
  <2>2. \A d \in Characters \ {actor} :
          partyOf'[d] = partyOf[d] /\ joinedAt'[d] = joinedAt[d]
    BY <1>1 DEF IInv, TypeOK
  <2> QED BY <2>1, <2>2, OthersKeepTheirQueue
<1>7. Queues' = Queues \cup {[members |-> {actor}, ahead |-> {}]}
  BY <1>2, <1>4, <1>5, <1>6, OneQueueMoves
<1> QED BY <1>3, <1>7, NoRowMeansFree DEF Roster!Found

(* PartyRoster counts as Parties does: each instance of FiniteSets has a *)
(* name of its own for the one definition.                               *)
LEMMA SameCount ==
    ASSUME NEW S
    PROVE  Roster!Cardinality(S) = Cardinality(S)
BY DEF Roster!Cardinality, Cardinality

(* Accepting: the newcomer enters at the tail. *)
LEMMA AcceptingIsEnter ==
    ASSUME IInv, IInv', NEW c \in Characters, NEW p \in PartyIds,
           ~InParty(c), PartyExists(p), ~party_is_full(p), InsertMember(c, p),
           UNCHANGED leader
    PROVE  Queue(p) \in Queues /\ Roster!Enter(c, Queue(p))
<1>1. /\ clock \in Nat
      /\ partyOf' = [partyOf EXCEPT ![c] = p]
      /\ joinedAt' = [joinedAt EXCEPT ![c] = clock + 1]
  BY DEF InsertMember, IInv, TypeOK
<1>2. /\ partyOf'[c] = p /\ joinedAt'[c] = clock + 1
      /\ \A d \in Characters \ {c} :
           partyOf'[d] = partyOf[d] /\ joinedAt'[d] = joinedAt[d]
  BY <1>1 DEF IInv, TypeOK
<1>3. c \notin Members(p) /\ Members(p)' = Members(p) \cup {c}
  BY <1>2 DEF Members, InParty
<1>4. \A d \in Members(p) :
        joinedAt'[d] = joinedAt[d] /\ joinedAt[d] \in Nat /\ joinedAt[d] < joinedAt'[c]
  <2>1. \A d \in Members(p) : d \in Characters \ {c} /\ InParty(d)
    BY <1>3 DEF Members, InParty
  <2>2. \A d \in Members(p) : joinedAt[d] \in Nat /\ joinedAt[d] <= clock
    BY <2>1 DEF IInv, TypeOK, StampsOrdered
  <2> QED BY <1>1, <1>2, <2>1, <2>2
<1>5. PartyExists(p)'
  BY DEF PartyExists
<1>6. /\ Queue(p) = InOrder(Members(p), joinedAt)
      /\ Queue(p)' = InOrder(Members(p) \cup {c}, joinedAt')
  BY <1>3, <1>5, QueueIsInOrder, QueueIsInOrderAfter
<1>7. Queue(p)' = [members |-> Queue(p).members \cup {c},
                   ahead |-> Queue(p).ahead \cup (Queue(p).members \X {c})]
  <2>1. joinedAt'[c] \in Nat
    BY <1>1, <1>2
  <2>2. InOrder(Members(p) \cup {c}, joinedAt') =
          [members |-> InOrder(Members(p), joinedAt).members \cup {c},
           ahead |-> InOrder(Members(p), joinedAt).ahead
                       \cup (InOrder(Members(p), joinedAt).members \X {c})]
    BY <1>3, <1>4, <2>1, EnteringInOrder
  <2> QED BY <1>6, <2>2
<1>8. \A q \in PartyIds \ {p} :
        /\ PartyExists(q)' <=> PartyExists(q)
        /\ PartyExists(q) => Queue(q)' = Queue(q)
  BY <1>2, OthersKeepTheirQueue DEF InParty
<1>9. Queues' = (Queues \ {Queue(p)}) \cup {Queue(p)'}
  BY <1>5, <1>8, OneQueueMoves
<1>10. Cardinality(Queue(p).members) < MAX_PARTY_SIZE
  <2>1. Queue(p).members = Members(p)
    BY <1>6 DEF InOrder
  <2>2. Cardinality(Members(p)) < MAX_PARTY_SIZE
    BY MembersFinite DEF party_is_full
  <2> QED BY <2>1, <2>2
<1>11. Queue(p) \in Queues
  BY DEF Queues
<1>12. Roster!Free(c)
  BY NoRowMeansFree
<1>13. Queues' = (Queues \ {Queue(p)}) \cup
          {[members |-> Queue(p).members \cup {c},
            ahead |-> Queue(p).ahead \cup (Queue(p).members \X {c})]}
  BY <1>7, <1>9
<1>14. Roster!Cardinality(Queue(p).members) < MAX_PARTY_SIZE
  BY <1>10, SameCount
<1> QED BY <1>11, <1>12, <1>13, <1>14 DEF Roster!Enter

(* Leaving and deleting: the member steps out of its queue. *)
LEMMA LeavingIsDepart ==
    ASSUME IInv, IInv', NEW c \in Characters, InParty(c), DeleteMember(c),
           leader' = [leader EXCEPT ![partyOf[c]] = LeaderAfter(c, partyOf[c])]
    PROVE  \E q \in Queues : Roster!Depart(c, q)
<1>1. PICK p \in PartyIds : p = partyOf[c] /\ c \in Members(p)
  BY DEF IInv, TypeOK, InParty, Members
<1>2. PartyExists(p)
  BY <1>1 DEF IInv, RosterConsistent
<1>3. /\ partyOf'[c] = NoParty
      /\ \A d \in Characters \ {c} :
           partyOf'[d] = partyOf[d] /\ joinedAt'[d] = joinedAt[d]
  BY DEF DeleteMember, IInv, TypeOK
<1> DEFINE rest == Members(p) \ {c}
<1>4. Members(p)' = rest /\ rest \subseteq Characters \ {c}
  BY <1>1, <1>3 DEF Members
<1>5. PartyExists(p)' <=> rest # {}
  BY <1>4 DEF IInv, RosterConsistent
<1>6. Queue(p) = InOrder(Members(p), joinedAt) /\ Queue(p).members = Members(p)
  BY <1>2, QueueIsInOrder DEF InOrder
<1>7. ASSUME rest # {}
      PROVE  Queue(p)' = [members |-> rest, ahead |-> Queue(p).ahead \cap (rest \X rest)]
  <2>1. Queue(p)' = InOrder(rest, joinedAt')
    BY <1>4, <1>5, <1>7, QueueIsInOrderAfter
  <2>2. rest \subseteq Members(p) /\ \A d \in rest : joinedAt'[d] = joinedAt[d]
    BY <1>3, <1>4
  <2>3. InOrder(rest, joinedAt') =
          [members |-> rest,
           ahead |-> InOrder(Members(p), joinedAt).ahead \cap (rest \X rest)]
    <3>1. rest \in SUBSET Members(p)
      OBVIOUS
    <3>2. \A d \in rest : joinedAt'[d] = joinedAt[d]
      BY <2>2
    <3> HIDE DEF rest
    <3>3. {pair \in rest \X rest : joinedAt'[pair[1]] < joinedAt'[pair[2]]}
            = {pair \in Members(p) \X Members(p) : joinedAt[pair[1]] < joinedAt[pair[2]]}
                \cap (rest \X rest)
      BY <3>1, <3>2
    <3> QED BY <3>3 DEF InOrder
  <2> QED BY <1>6, <2>1, <2>3
<1>8. \A q \in PartyIds \ {p} :
        /\ PartyExists(q)' <=> PartyExists(q)
        /\ PartyExists(q) => Queue(q)' = Queue(q)
  <2> SUFFICES ASSUME NEW q \in PartyIds \ {p}
               PROVE  /\ PartyExists(q)' <=> PartyExists(q)
                      /\ PartyExists(q) => Queue(q)' = Queue(q)
    OBVIOUS
  <2>1. leader'[q] = leader[q] /\ partyOf[c] # q /\ partyOf'[c] # q
    BY <1>1, <1>3 DEF IInv, TypeOK
  <2> QED BY <1>3, <2>1, OthersKeepTheirQueue
<1>9. Queues' = (Queues \ {Queue(p)})
                  \cup (IF PartyExists(p)' THEN {Queue(p)'} ELSE {})
  BY <1>2, <1>8, OneQueueMoves
<1>10. Queue(p) \in Queues
  BY <1>2 DEF Queues
<1>11. Roster!Depart(c, Queue(p))
  <2>1. Queue(p).members \ {c} = rest /\ c \in Queue(p).members
    BY <1>1, <1>6
  <2>2. Queues' = IF rest = {} THEN Queues \ {Queue(p)}
                  ELSE (Queues \ {Queue(p)}) \cup
                         {[members |-> rest, ahead |-> Queue(p).ahead \cap (rest \X rest)]}
    BY <1>5, <1>7, <1>9
  <2> HIDE DEF rest
  <2> QED BY <2>1, <2>2 DEF Roster!Depart
<1> QED BY <1>10, <1>11

(* The deletion of a character in no party moves no queue. *)
LEMMA StrangersMoveNoQueue ==
    ASSUME IInv, NEW c \in Characters, ~InParty(c), DeleteMember(c), UNCHANGED leader
    PROVE  UNCHANGED Queues
<1>1. /\ partyOf'[c] = NoParty
      /\ \A d \in Characters \ {c} :
           partyOf'[d] = partyOf[d] /\ joinedAt'[d] = joinedAt[d]
  BY DEF DeleteMember, IInv, TypeOK
<1>2. \A q \in PartyIds :
        /\ PartyExists(q)' <=> PartyExists(q)
        /\ PartyExists(q) => Queue(q)' = Queue(q)
  BY <1>1, OthersKeepTheirQueue DEF InParty
<1> QED BY <1>2 DEF Queues

(* Every call is a step of the queues, or changes none. *)
LEMMA StepIsRosters == IInv /\ [Next]_vars => [Roster!Next]_Queues
<1> SUFFICES ASSUME IInv, [Next]_vars
             PROVE  Roster!Next \/ UNCHANGED Queues
  OBVIOUS
<1>0. IInv'
  BY NextKeepsIInv
<1>1. ASSUME NEW c \in Characters, NewCharacter(c)
      PROVE  UNCHANGED Queues
  BY <1>1, QueuesUntouched DEF NewCharacter
<1>2. ASSUME NEW actor \in Characters, NEW target \in Characters,
             InviteFounding(actor, target)
      PROVE  Roster!Next
  BY <1>0, <1>2, FoundingIsFound DEF Roster!Next
<1>3. ASSUME NEW actor \in Characters, NEW target \in Characters,
             \/ InviteAsLeader(actor, target)
             \/ party_join(actor, target)
             \/ party_decline(actor, target)
      PROVE  UNCHANGED Queues
  BY <1>3, QueuesUntouched DEF InviteAsLeader, party_join, party_decline
<1>4. ASSUME NEW actor \in Characters, NEW target \in Characters,
             party_accept(actor, target)
      PROVE  Roster!Next
  <2>1. PICK r \in requests :
          /\ StillValid(r)
          /\ InsertMember(NewMemberOnAccept(r), r.party_id)
          /\ UNCHANGED leader
    BY <1>4 DEF party_accept, Actionable
  <2>2. NewMemberOnAccept(r) \in Characters /\ r.party_id \in PartyIds
    BY NewMemberIsTyped DEF IInv
  <2>3. \E q \in Queues : Roster!Enter(NewMemberOnAccept(r), q)
    BY <1>0, <2>1, <2>2, AcceptingIsEnter DEF StillValid
  <2> QED BY <2>2, <2>3 DEF Roster!Next
<1>5. ASSUME NEW c \in Characters, party_leave(c) \/ delete_character(c)
      PROVE  Roster!Next \/ UNCHANGED Queues
  <2>1. CASE InParty(c)
    <3>1. \E q \in Queues : Roster!Depart(c, q)
      BY <1>0, <1>5, <2>1, LeavingIsDepart DEF party_leave, delete_character
    <3> QED BY <3>1 DEF Roster!Next
  <2>2. CASE ~InParty(c)
    <3>1. delete_character(c)
      BY <1>5, <2>2 DEF party_leave
    <3>2. leader' = leader /\ DeleteMember(c)
      BY <2>2, <3>1 DEF delete_character
    <3> QED BY <2>2, <3>2, StrangersMoveNoQueue
  <2> QED BY <2>1, <2>2
<1>6. CASE UNCHANGED vars
  BY <1>6, QueuesUntouched DEF vars
<1> QED BY <1>1, <1>2, <1>3, <1>4, <1>5, <1>6 DEF Next

(* The party tables implement PartyRoster: founding, accepting, leaving and *)
(* deleting move one queue as its members move, and no other call moves any. *)
THEOREM PartiesAreQueues == Spec => ImplementsRoster
<1>1. Init => Roster!Init
  BY DEF Init, Roster!Init, Queues, PartyExists
<1> QED BY <1>1, StepIsRosters, Invariance, PTL
        DEF Spec, ImplementsRoster, Roster!Spec

============================================================================
