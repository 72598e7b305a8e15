------------------------------ MODULE Parties ------------------------------
(***************************************************************************)
(* Player parties: the five reducers of reducers/parties.rs and the clean- *)
(* up that the deletion of a character performs in the same tables.        *)
(*                                                                         *)
(* A reducer is one serializable transaction, and one that returns Err     *)
(* leaves the tables as it found them, the rows it deleted on the way      *)
(* included.  A call is therefore one action; the calls that are refused   *)
(* are no step at all, and so are party_accept's two "stale" branches,     *)
(* which delete the request and then return Err.                           *)
(*                                                                         *)
(* Rows are abstracted as follows.                                         *)
(*  - party: leader[p] is NoOne when no row has the id p.  Ids are         *)
(*    auto_inc, hence never used twice.                                    *)
(*  - party_member: partyOf[c] is NoParty when c has no row; joinedAt[c]   *)
(*    is then 0.                                                           *)
(*  - party_request: a set of records.  The row id is left out: no two     *)
(*    live rows have the same initiator and recipient (RequestsUnambiguous).*)
(*  - ctx.timestamp: a clock that advances with every row that stores it   *)
(*    and is compared (joined_at).                                         *)
(***************************************************************************)
EXTENDS Integers, FiniteSets

CONSTANTS
    Characters,       \* character ids
    MAX_PARTY_SIZE,   \* lib.rs: 5
    NoOne,            \* no leader: the party has no row
    MaxParties,       \* bound: parties ever created
    MaxClock          \* bound: party_member rows ever inserted

ASSUME PartyAssumption ==
    /\ IsFiniteSet(Characters)
    /\ NoOne \notin Characters
    /\ MAX_PARTY_SIZE \in Nat \ {0}
    /\ MaxParties \in Nat
    /\ MaxClock \in Nat

VARIABLES
    players,     \* characters that exist (a player row)
    leader,      \* party.leader
    partyOf,     \* party_member.party_id
    joinedAt,    \* party_member.joined_at
    requests,    \* party_request
    lastParty,   \* the auto_inc counter of party.party_id
    clock        \* the last joined_at handed out

vars == <<players, leader, partyOf, joinedAt, requests, lastParty, clock>>

NoParty == 0
PartyIds == 1 .. MaxParties
RequestKinds == {"Invite", "JoinRequest"}

PartyRequest == [party_id : PartyIds, kind : RequestKinds,
                 initiator : Characters, recipient : Characters]

TypeOK ==
    /\ players \subseteq Characters
    /\ leader \in [PartyIds -> Characters \cup {NoOne}]
    /\ partyOf \in [Characters -> PartyIds \cup {NoParty}]
    /\ joinedAt \in [Characters -> 0 .. MaxClock]
    /\ requests \subseteq PartyRequest
    /\ lastParty \in 0 .. MaxParties
    /\ clock \in 0 .. MaxClock

----------------------------------------------------------------------------
(* Lookups.                                                                *)

InParty(c) == partyOf[c] # NoParty
Members(p) == {c \in Characters : partyOf[c] = p}
PartyExists(p) == leader[p] # NoOne
Leads(c, p) == p \in PartyIds /\ leader[p] = c

(* Mutant: the cap is compared with >. *)
party_is_full_off_by_one(p) == Cardinality(Members(p)) > MAX_PARTY_SIZE

party_is_full(p) == Cardinality(Members(p)) >= MAX_PARTY_SIZE

(* The request `actor` may accept or decline from `target`. *)
Actionable(actor, target) ==
    {r \in requests : r.recipient = actor /\ r.initiator = target}

(* Mutant: the crossing request of the opposite direction is not looked for. *)
PendingConflictOneWay(actor, recipient) ==
    \E r \in requests : r.recipient = recipient

(* Either the recipient's inbox is not empty, or a request already connects *)
(* the two characters, in whichever direction.                              *)
PendingConflict(actor, recipient) ==
    \E r \in requests :
        \/ r.recipient = recipient
        \/ r.initiator = actor /\ r.recipient = recipient
        \/ r.initiator = recipient /\ r.recipient = actor

(* Mutant: whoever accepts joins. *)
NewMemberOnAcceptActor(r) == r.recipient

(* An invite admits its recipient, a join request its initiator. *)
NewMemberOnAccept(r) ==
    IF r.kind = "Invite" THEN r.recipient ELSE r.initiator

(* The longest-tenured of the characters in S. *)
PromoteLeader(S) ==
    CHOOSE c \in S : \A d \in S : joinedAt[c] <= joinedAt[d]

----------------------------------------------------------------------------
Init ==
    /\ players = {}
    /\ leader = [p \in PartyIds |-> NoOne]
    /\ partyOf = [c \in Characters |-> NoParty]
    /\ joinedAt = [c \in Characters |-> 0]
    /\ requests = {}
    /\ lastParty = 0
    /\ clock = 0

(* Inserts the party_member row of c. *)
InsertMember(c, p) ==
    /\ clock < MaxClock
    /\ clock' = clock + 1
    /\ partyOf' = [partyOf EXCEPT ![c] = p]
    /\ joinedAt' = [joinedAt EXCEPT ![c] = clock + 1]

DeleteMember(c) ==
    /\ partyOf' = [partyOf EXCEPT ![c] = NoParty]
    /\ joinedAt' = [joinedAt EXCEPT ![c] = 0]

(* lifecycle::join with a name nobody has: a character of a fresh id. *)
NewCharacter(c) ==
    /\ c \notin players
    /\ players' = players \cup {c}
    /\ UNCHANGED <<leader, partyOf, joinedAt, requests, lastParty, clock>>

InviteRequest(p, actor, target) ==
    [party_id |-> p, kind |-> "Invite", initiator |-> actor, recipient |-> target]

MayInvite(actor, target) ==
    /\ {actor, target} \subseteq players
    /\ actor # target
    /\ ~InParty(target)
    /\ ~PendingConflict(actor, target)

(* party_invite by a character in no party: founds one and leads it. *)
InviteFounding(actor, target) ==
    /\ MayInvite(actor, target)
    /\ ~InParty(actor)
    /\ lastParty < MaxParties
    /\ lastParty' = lastParty + 1
    /\ leader' = [leader EXCEPT ![lastParty + 1] = actor]
    /\ InsertMember(actor, lastParty + 1)
    /\ requests' = requests \cup {InviteRequest(lastParty + 1, actor, target)}
    /\ UNCHANGED players

(* party_invite by the leader of a party that is not full. *)
InviteAsLeader(actor, target) ==
    /\ MayInvite(actor, target)
    /\ InParty(actor)
    /\ Leads(actor, partyOf[actor])
    /\ ~party_is_full(partyOf[actor])
    /\ requests' = requests \cup {InviteRequest(partyOf[actor], actor, target)}
    /\ UNCHANGED <<players, leader, partyOf, joinedAt, lastParty, clock>>

party_join(actor, target) ==
    \E p \in PartyIds :
        /\ {actor, target} \subseteq players
        /\ actor # target
        /\ ~InParty(actor)
        /\ Leads(target, p)
        /\ ~party_is_full(p)
        /\ ~PendingConflict(actor, target)
        /\ requests' = requests \cup
              {[party_id |-> p, kind |-> "JoinRequest",
                initiator |-> actor, recipient |-> target]}
        /\ UNCHANGED <<players, leader, partyOf, joinedAt, lastParty, clock>>

(* The party, its room and the newcomer's freedom are checked again: all   *)
(* three may have changed since the request was made.                      *)
StillValid(r) ==
    /\ PartyExists(r.party_id)
    /\ ~InParty(NewMemberOnAccept(r))
    /\ ~party_is_full(r.party_id)

party_accept(actor, target) ==
    \E r \in Actionable(actor, target) :
        /\ {actor, target} \subseteq players
        /\ StillValid(r)
        /\ InsertMember(NewMemberOnAccept(r), r.party_id)
        /\ requests' = requests \ {r}
        /\ UNCHANGED <<players, leader, lastParty>>

party_decline(actor, target) ==
    \E r \in Actionable(actor, target) :
        /\ {actor, target} \subseteq players
        /\ requests' = requests \ {r}
        /\ UNCHANGED <<players, leader, partyOf, joinedAt, lastParty, clock>>

(* Mutant: the seat is vacated with the last member and never handed over. *)
LeaderAfterNoPromotion(c, p) == IF Members(p) = {c} THEN NoOne ELSE leader[p]

(* The seat of a party that loses a member: vacated with the last member,  *)
(* handed over by the leader, kept otherwise.                              *)
LeaderAfter(c, p) ==
    LET remaining == Members(p) \ {c}
    IN  IF remaining = {} THEN NoOne
        ELSE IF leader[p] = c THEN PromoteLeader(remaining)
        ELSE leader[p]

RequestsOf(p) == {r \in requests : r.party_id = p}

party_leave(actor) ==
    LET p == partyOf[actor]
    IN  /\ actor \in players
        /\ InParty(actor)
        /\ DeleteMember(actor)
        /\ leader' = [leader EXCEPT ![p] = LeaderAfter(actor, p)]
        /\ requests' = IF Members(p) = {actor} THEN requests \ RequestsOf(p)
                                               ELSE requests
        /\ UNCHANGED <<players, lastParty, clock>>

(* Mutant: the requests addressed to the character are forgotten. *)
RequestsNamingSent(c) == {r \in requests : c = r.initiator}

RequestsNaming(c) == {r \in requests : c \in {r.initiator, r.recipient}}

(* delete_character, through forget_deleted_character.  A party emptied    *)
(* this way goes without the requests that other characters made for it.   *)
delete_character(c) ==
    LET p == partyOf[c]
    IN  /\ c \in players
        /\ players' = players \ {c}
        /\ requests' = requests \ RequestsNaming(c)
        /\ DeleteMember(c)
        /\ leader' = IF InParty(c) THEN [leader EXCEPT ![p] = LeaderAfter(c, p)]
                                   ELSE leader
        /\ UNCHANGED <<lastParty, clock>>

Next ==
    \/ \E c \in Characters : \/ NewCharacter(c)
                             \/ party_leave(c)
                             \/ delete_character(c)
    \/ \E actor, target \in Characters : \/ InviteFounding(actor, target)
                                         \/ InviteAsLeader(actor, target)
                                         \/ party_join(actor, target)
                                         \/ party_accept(actor, target)
                                         \/ party_decline(actor, target)

Spec == Init /\ [][Next]_vars

----------------------------------------------------------------------------
(* Properties.                                                             *)

(* A party has a row exactly while it has members, and the character in    *)
(* its leader column is one of them: no reducer leaves a member row that   *)
(* points at a deleted party, an empty party, or a leader who is elsewhere *)
(* (plans/party-system.md:90, tables.rs:371).                              *)
RosterConsistent ==
    \A p \in PartyIds :
        /\ PartyExists(p) <=> Members(p) # {}
        /\ PartyExists(p) => leader[p] \in Members(p)

(* No sequence of invites, join requests and late accepts takes a party    *)
(* past MAX_PARTY_SIZE, however full it became while they were pending.    *)
PartySizeBounded ==
    \A p \in PartyIds : Cardinality(Members(p)) <= MAX_PARTY_SIZE

(* The leader is always the member who joined first: the founder, and      *)
(* after each departure of a leader the longest-tenured of those who       *)
(* remain, with strictly the smallest joined_at.                           *)
LeaderIsLongestTenured ==
    \A p \in PartyIds :
        \A c \in Members(p) \ {leader[p]} : joinedAt[leader[p]] < joinedAt[c]

(* The rest of the inductive invariant of PartiesProofs: what the timestamps *)
(* and the ids of live rows have to do with their counters.  The first part  *)
(* says that promote_leader finds someone to promote whoever remains.        *)
EldestExists ==
    \A S \in SUBSET Characters :
        S # {} => \E c \in S : \A d \in S : joinedAt[c] <= joinedAt[d]

StampsOrdered ==
    /\ \A c \in Characters : InParty(c) => joinedAt[c] <= clock
    /\ \A c, d \in Characters :
          InParty(c) /\ InParty(d) /\ c # d => joinedAt[c] # joinedAt[d]

IdsUsed == \A p \in PartyIds : PartyExists(p) => p <= lastParty

IInv ==
    /\ TypeOK
    /\ EldestExists
    /\ StampsOrdered
    /\ IdsUsed
    /\ RosterConsistent
    /\ LeaderIsLongestTenured

(* "Whichever pending request exists between the sender and <name>" names  *)
(* at most one request: an inbox never holds two, and no two requests      *)
(* connect the same characters in opposite directions (tables.rs:424).     *)
RequestsUnambiguous ==
    \A r, s \in requests :
        r # s => /\ r.recipient # s.recipient
                 /\ ~(r.recipient = s.initiator /\ s.recipient = r.initiator)

(* A deleted character is named by no member row, leader column or         *)
(* request: every pending request can still be answered, since both names  *)
(* it takes to accept or decline it resolve to a player.                   *)
NoGhosts ==
    /\ \A c \in Characters : InParty(c) => c \in players
    /\ \A r \in requests : {r.initiator, r.recipient} \subseteq players

(* A member is never moved to another party: whoever appears in a roster   *)
(* was in none, even when the request that admits them was made before     *)
(* they joined a party elsewhere.                                          *)
NoPoaching ==
    [][\A c \in Characters :
         InParty(c) => partyOf'[c] \in {partyOf[c], NoParty}]_vars

(* Nobody is put into a party by another's act alone: a character who      *)
(* appears in a roster either founds that party, or answers an invite to   *)
(* it, or had asked to join it (plans/party-system.md:161).                *)
MutualConsent ==
    [][\A c \in Characters :
         partyOf'[c] # partyOf[c] /\ partyOf'[c] # NoParty =>
            \/ partyOf'[c] > lastParty /\ leader'[partyOf'[c]] = c
            \/ \E r \in requests \ requests' :
                  /\ r.party_id = partyOf'[c]
                  /\ c = IF r.kind = "Invite" THEN r.recipient
                                             ELSE r.initiator]_vars

============================================================================
