-------------------------- MODULE LifecycleProofs --------------------------
(***************************************************************************)
(* Proofs about sessions, for any number of connections, identities,       *)
(* accounts and characters.  Two identities never play the same character, *)
(* and a session plays only characters of its account.  Both rest on       *)
(* NamedWasBorn: the id of a new character is in nobody's session yet. And *)
(* no account outgrows its cap.                                            *)
(***************************************************************************)
EXTENDS Lifecycle, FiniteSetTheorems, TLAPS

USE LifecycleAssumption

IInv ==
    /\ TypeOK
    /\ OneSessionPerCharacter
    /\ SessionWithinAccount
    /\ NamedWasBorn

(* The part of IInv that speaks of sessions and owners. *)
SessionInv == OneSessionPerCharacter /\ SessionWithinAccount /\ NamedWasBorn

LEMMA ActiveIsTyped ==
    ASSUME TypeOK, NEW i \in Identities
    PROVE  /\ active_character(i) \in Characters \cup {None}
           /\ active_character(i) # None =>
                active_character(i) = sessChar[i] /\ Exists(sessChar[i])
BY DEF TypeOK, active_character

(* Calls that only touch presence or connections. *)
LEMMA SessionsUntouched ==
    ASSUME SessionInv, UNCHANGED <<sessAccount, sessChar, owner>>
    PROVE  SessionInv'
BY DEF SessionInv, OneSessionPerCharacter, SessionWithinAccount, NamedWasBorn,
       active_character, Exists

(* One session is deleted, re-bound, or loses its character. *)
LEMMA SessionCleared ==
    ASSUME IInv, NEW i \in Identities, NEW a \in Accounts \cup {None},
           NEW c \in {None, sessChar[i]},
           sessAccount' = [sessAccount EXCEPT ![i] = a],
           sessChar' = [sessChar EXCEPT ![i] = c],
           c # None => a = sessAccount[i],
           owner' = owner
    PROVE  SessionInv'
<1>1. \A j \in Identities : sessChar'[j] \in {None, sessChar[j]}
  BY DEF IInv, TypeOK
<1>2. \A j \in Identities : sessChar'[j] # None => sessAccount'[j] = sessAccount[j]
  BY DEF IInv, TypeOK
<1>3. OneSessionPerCharacter'
  BY <1>1 DEF IInv, OneSessionPerCharacter
<1>4. SessionWithinAccount'
  BY <1>1, <1>2 DEF IInv, SessionWithinAccount, active_character, Exists
<1>5. NamedWasBorn'
  BY <1>1 DEF IInv, NamedWasBorn
<1> QED BY <1>3, <1>4, <1>5 DEF SessionInv

(* An identity selects a character that no other session names, its own or *)
(* one that it creates.                                                    *)
LEMMA SessionSelects ==
    ASSUME IInv, NEW i \in Identities, NEW c \in Characters,
           sessAccount[i] # None,
           \A j \in Identities \ {i} : sessChar[j] # c,
           set_active_character(i, c),
           sessAccount' = sessAccount,
           \/ owner' = owner /\ owner[c] = sessAccount[i]
           \/ owner' = [owner EXCEPT ![c] = sessAccount[i]]
    PROVE  SessionInv'
<1>1. sessChar'[i] = c /\ \A j \in Identities \ {i} : sessChar'[j] = sessChar[j]
  BY DEF IInv, TypeOK, set_active_character
<1>2. owner'[c] = sessAccount[i] /\ \A d \in Characters \ {c} : owner'[d] = owner[d]
  BY DEF IInv, TypeOK
<1>3. sessAccount[i] \in Accounts
  BY DEF IInv, TypeOK
<1>4. OneSessionPerCharacter'
  BY <1>1 DEF IInv, OneSessionPerCharacter
<1>5. \A j \in Identities \ {i} : sessChar[j] \in (Characters \ {c}) \cup {None}
  BY DEF IInv, TypeOK
<1>6. SessionWithinAccount'
  BY <1>1, <1>2, <1>3, <1>5
     DEF IInv, SessionWithinAccount, active_character, Exists
<1>7. NamedWasBorn'
  BY <1>1, <1>2, <1>3, <1>5 DEF IInv, NamedWasBorn
<1> QED BY <1>4, <1>6, <1>7 DEF SessionInv

----------------------------------------------------------------------------
LEMMA NextKeepsIInv == IInv /\ [Next]_vars => IInv'
<1> SUFFICES ASSUME IInv, [Next]_vars PROVE TypeOK' /\ SessionInv'
  BY DEF IInv, SessionInv
<1>0. TypeOK /\ SessionInv
  BY DEF IInv, SessionInv
<1>1. ASSUME NEW k \in Conns, NEW i \in Identities, Connect(k, i)
      PROVE  TypeOK' /\ SessionInv'
  <2>1. TypeOK'
    BY <1>0, <1>1, ActiveIsTyped DEF Connect, MarkOnline, TypeOK
  <2> QED BY <1>0, <1>1, <2>1, SessionsUntouched DEF Connect
<1>2. ASSUME NEW k \in Conns, Disconnect(k)
      PROVE  TypeOK' /\ SessionInv'
  <2>1. conn[k] \in Identities
    BY <1>0, <1>2 DEF Disconnect, Open, TypeOK
  <2>2. TypeOK'
    BY <1>0, <1>2, <2>1, ActiveIsTyped DEF Disconnect, MarkOffline, TypeOK
  <2> QED BY <1>2, <2>1, <2>2, SessionCleared DEF Disconnect
<1>3. ASSUME NEW k \in Conns, NEW a \in Accounts, register(k, a) \/ login(k, a)
      PROVE  TypeOK' /\ SessionInv'
  <2>1. conn[k] \in Identities
    BY <1>0, <1>3 DEF register, login, Open, TypeOK
  <2>2. TypeOK'
    BY <1>0, <1>3, <2>1 DEF register, login, bind_session, TypeOK
  <2>3. PICK c \in {None, sessChar[conn[k]]} :
          /\ sessAccount' = [sessAccount EXCEPT ![conn[k]] = a]
          /\ sessChar' = [sessChar EXCEPT ![conn[k]] = c]
          /\ c # None => a = sessAccount[conn[k]]
    BY <1>0, <1>3, <2>1 DEF register, login, bind_session, TypeOK
  <2>4. owner' = owner
    BY <1>3 DEF register, login
  <2> QED BY <2>1, <2>2, <2>3, <2>4, SessionCleared
<1>4. ASSUME NEW k \in Conns, logout(k)
      PROVE  TypeOK' /\ SessionInv'
  <2>1. conn[k] \in Identities
    BY <1>0, <1>4 DEF logout, Open, TypeOK
  <2>2. TypeOK'
    BY <1>0, <1>4, <2>1 DEF logout, TypeOK
  <2> QED BY <1>4, <2>1, <2>2, SessionCleared DEF logout
<1>5. ASSUME NEW k \in Conns, NEW c \in Characters, JoinExisting(k, c)
      PROVE  TypeOK' /\ SessionInv'
  <2>1. conn[k] \in Identities
    BY <1>0, <1>5 DEF JoinExisting, Open, TypeOK
  <2>2. TypeOK'
    BY <1>0, <1>5, <2>1
       DEF JoinExisting, set_active_character, MarkOnline, TypeOK
  <2> QED BY <1>5, <2>1, <2>2, SessionSelects
          DEF JoinExisting, MaySelect, already_played
<1>6. ASSUME NEW k \in Conns, NEW c \in Characters, JoinNew(k, c)
      PROVE  TypeOK' /\ SessionInv'
  <2>1. conn[k] \in Identities
    BY <1>0, <1>6 DEF JoinNew, Open, TypeOK
  <2>2. TypeOK'
    BY <1>0, <1>6, <2>1
       DEF JoinNew, set_active_character, MarkOnline, TypeOK
  <2>3. \A j \in Identities : sessChar[j] # c
    BY <1>0, <1>6 DEF JoinNew, SessionInv, NamedWasBorn, TypeOK
  <2> QED BY <1>6, <2>1, <2>2, <2>3, SessionSelects DEF JoinNew
<1>7. ASSUME NEW k \in Conns, leave(k)
      PROVE  TypeOK' /\ SessionInv'
  <2>1. conn[k] \in Identities
    BY <1>0, <1>7 DEF leave, Open, TypeOK
  <2>2. active_character(conn[k]) \in Characters
    BY <1>0, <1>7, <2>1, ActiveIsTyped DEF leave
  <2>3. TypeOK'
    BY <1>0, <1>7, <2>1, <2>2
       DEF leave, set_active_character, MarkOffline, TypeOK
  <2>4. sessAccount' = [sessAccount EXCEPT ![conn[k]] = sessAccount[conn[k]]]
    BY <1>0, <1>7, <2>1 DEF leave, TypeOK
  <2>5. sessAccount[conn[k]] \in Accounts \cup {None}
    BY <1>0, <2>1 DEF TypeOK
  <2> QED BY <1>7, <2>1, <2>3, <2>4, <2>5, SessionCleared
          DEF leave, set_active_character
<1>8. ASSUME NEW k \in Conns, NEW c \in Characters, delete_character(k, c)
      PROVE  TypeOK' /\ SessionInv'
  <2>1. conn[k] \in Identities
    BY <1>0, <1>8 DEF delete_character, Open, TypeOK
  <2>2. TypeOK'
    BY <1>0, <1>8, <2>1 DEF delete_character, TypeOK
  <2>3. \A j \in Identities : sessChar'[j] \in {None, sessChar[j]}
    BY <1>0, <1>8, <2>1 DEF delete_character, TypeOK
  <2>4. owner'[c] = "gone" /\ \A d \in Characters \ {c} : owner'[d] = owner[d]
    BY <1>0, <1>8 DEF delete_character, TypeOK
  <2>5. sessAccount' = sessAccount
    BY <1>8 DEF delete_character
  <2>6. OneSessionPerCharacter'
    BY <1>0, <2>3 DEF SessionInv, OneSessionPerCharacter
  <2>7. \A j \in Identities : sessChar[j] \in Characters \cup {None}
    BY <1>0 DEF TypeOK
  <2>8. SessionWithinAccount'
    BY <1>0, <2>3, <2>4, <2>5, <2>7
       DEF SessionInv, SessionWithinAccount, active_character, Exists
  <2>9. NamedWasBorn'
    BY <1>0, <2>3, <2>4, <2>7 DEF SessionInv, NamedWasBorn
  <2> QED BY <2>2, <2>6, <2>8, <2>9 DEF SessionInv
<1>9. ASSUME NEW k \in Conns, heartbeat(k)
      PROVE  TypeOK' /\ SessionInv'
  <2>1. conn[k] \in Identities
    BY <1>0, <1>9 DEF heartbeat, Open, TypeOK
  <2>2. TypeOK'
    BY <1>0, <1>9, <2>1, ActiveIsTyped DEF heartbeat, MarkOnline, TypeOK
  <2> QED BY <1>0, <1>9, <2>2, SessionsUntouched DEF heartbeat
<1>10. CASE Crash \/ expire_stale_presence \/ \E c \in Characters : Lapse(c)
  <2>1. TypeOK'
    BY <1>0, <1>10 DEF Crash, expire_stale_presence, Lapse, TypeOK
  <2>2. UNCHANGED <<sessAccount, sessChar, owner>>
    BY <1>10 DEF Crash, expire_stale_presence, Lapse
  <2> QED BY <1>0, <2>1, <2>2, SessionsUntouched
<1>11. CASE UNCHANGED vars
  <2>1. TypeOK'
    BY <1>0, <1>11 DEF vars, TypeOK
  <2> QED BY <1>0, <1>11, <2>1, SessionsUntouched DEF vars
<1> QED BY <1>1, <1>2, <1>3, <1>4, <1>5, <1>6, <1>7, <1>8, <1>9, <1>10, <1>11
        DEF Next

LEMMA InitIInv == Init => IInv
BY DEF Init, IInv, TypeOK, OneSessionPerCharacter, SessionWithinAccount,
       NamedWasBorn, active_character

(* The session invariants hold in every reachable state.                   *)
THEOREM Invariance == Spec => []IInv
<1> QED BY InitIInv, NextKeepsIInv, PTL DEF Spec

(* No character is ever the active character of two sessions.              *)
THEOREM ExclusivePlay == Spec => []OneSessionPerCharacter
<1>1. IInv => OneSessionPerCharacter
  BY DEF IInv
<1> QED BY <1>1, Invariance, PTL

(* No session ever plays a character of another account.                   *)
THEOREM PlayWithinAccount == Spec => []SessionWithinAccount
<1>1. IInv => SessionWithinAccount
  BY DEF IInv
<1> QED BY <1>1, Invariance, PTL

----------------------------------------------------------------------------
(* The character cap.                                                      *)

LEMMA RosterFinite ==
    ASSUME NEW a \in Accounts
    PROVE  /\ IsFiniteSet(Roster(a))
           /\ Cardinality(Roster(a)) \in Nat
<1>1. Roster(a) \subseteq Characters
  BY DEF Roster
<1>2. IsFiniteSet(Roster(a))
  BY <1>1, FS_Subset
<1> QED BY <1>2, FS_CardinalityType

(* Nobody enters a roster. *)
LEMMA CapWithoutNewcomer ==
    ASSUME CharacterCap, \A a \in Accounts : Roster(a)' \subseteq Roster(a)
    PROVE  CharacterCap'
<1> SUFFICES ASSUME NEW a \in Accounts
             PROVE  Cardinality(Roster(a)') <= MAX_CHARACTERS_PER_ACCOUNT
  BY DEF CharacterCap
<1>1. IsFiniteSet(Roster(a)) /\ Cardinality(Roster(a)) \in Nat
  BY RosterFinite
<1>2. IsFiniteSet(Roster(a)') /\ Cardinality(Roster(a)') <= Cardinality(Roster(a))
  BY <1>1, FS_Subset
<1>3. Cardinality(Roster(a)') \in Nat
  BY <1>2, FS_CardinalityType
<1> QED BY <1>1, <1>2, <1>3 DEF CharacterCap

(* A character is created in an account below its cap. *)
LEMMA CapWithNewcomer ==
    ASSUME TypeOK, CharacterCap, NEW a \in Accounts, NEW c \in Characters,
           ~at_character_cap(a), owner' = [owner EXCEPT ![c] = a]
    PROVE  CharacterCap'
<1> SUFFICES ASSUME NEW b \in Accounts
             PROVE  Cardinality(Roster(b)') <= MAX_CHARACTERS_PER_ACCOUNT
  BY DEF CharacterCap
<1>1. IsFiniteSet(Roster(b)) /\ Cardinality(Roster(b)) \in Nat
  BY RosterFinite
<1>2. CASE b = a
  <2>1. Roster(a)' = Roster(a) \cup {c}
    BY DEF Roster, TypeOK
  <2>2. Cardinality(Roster(a) \cup {c}) =
          IF c \in Roster(a) THEN Cardinality(Roster(a)) ELSE Cardinality(Roster(a)) + 1
    BY <1>1, <1>2, FS_AddElement
  <2>3. Cardinality(Roster(a)) < MAX_CHARACTERS_PER_ACCOUNT
    BY <1>1, <1>2 DEF at_character_cap
  <2> QED BY <1>1, <1>2, <2>1, <2>2, <2>3
<1>3. CASE b # a
  <2>1. Roster(b)' \subseteq Roster(b)
    BY <1>3 DEF Roster, TypeOK
  <2>2. IsFiniteSet(Roster(b)') /\ Cardinality(Roster(b)') <= Cardinality(Roster(b))
    BY <1>1, <2>1, FS_Subset
  <2>3. Cardinality(Roster(b)') \in Nat
    BY <2>2, FS_CardinalityType
  <2> QED BY <1>1, <2>2, <2>3 DEF CharacterCap
<1> QED BY <1>2, <1>3

LEMMA NextKeepsCap == IInv /\ CharacterCap /\ [Next]_vars => CharacterCap'
<1> SUFFICES ASSUME IInv, CharacterCap, [Next]_vars PROVE CharacterCap'
  OBVIOUS
<1> USE DEF IInv
<1>1. CASE UNCHANGED owner
  BY <1>1, CapWithoutNewcomer DEF Roster
<1>2. ASSUME NEW k \in Conns, NEW c \in Characters, JoinNew(k, c)
      PROVE  CharacterCap'
  <2>1. sessAccount[conn[k]] \in Accounts
    BY <1>2 DEF JoinNew, Open, TypeOK
  <2> QED BY <1>2, <2>1, CapWithNewcomer DEF JoinNew
<1>3. ASSUME NEW k \in Conns, NEW c \in Characters, delete_character(k, c)
      PROVE  CharacterCap'
  <2>1. owner' = [owner EXCEPT ![c] = "gone"]
    BY <1>3 DEF delete_character
  <2>2. \A a \in Accounts : Roster(a)' \subseteq Roster(a)
    BY <2>1 DEF Roster, TypeOK
  <2> QED BY <2>2, CapWithoutNewcomer
<1>4. ASSUME NEW k \in Conns,
             \/ Disconnect(k) \/ logout(k) \/ leave(k) \/ heartbeat(k)
             \/ \E i \in Identities : Connect(k, i)
             \/ \E a \in Accounts : register(k, a) \/ login(k, a)
             \/ \E c \in Characters : JoinExisting(k, c)
      PROVE  UNCHANGED owner
  BY <1>4 DEF Disconnect, logout, leave, heartbeat, Connect, register, login,
              JoinExisting
<1>5. CASE expire_stale_presence \/ Crash \/ \E c \in Characters : Lapse(c)
  BY <1>1, <1>5 DEF expire_stale_presence, Crash, Lapse
<1>6. CASE UNCHANGED vars
  BY <1>1, <1>6 DEF vars
<1> QED BY <1>1, <1>2, <1>3, <1>4, <1>5, <1>6 DEF Next

(* No account ever holds more characters than the cap, on however many      *)
(* connections they are created.                                            *)
THEOREM RostersWithinCap == Spec => []CharacterCap
<1>1. Init => CharacterCap
  <2> SUFFICES ASSUME Init, NEW a \in Accounts
               PROVE  Cardinality(Roster(a)) <= MAX_CHARACTERS_PER_ACCOUNT
    BY DEF CharacterCap
  <2>1. Roster(a) = {}
    BY DEF Init, Roster
  <2> QED BY <2>1, FS_EmptySet
<1> QED BY <1>1, NextKeepsCap, Invariance, PTL DEF Spec

============================================================================
