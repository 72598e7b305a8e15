------------------------- MODULE PartiesRefinement -------------------------
(***************************************************************************)
(* The party tables implement PartyRoster: a party's queue is its leader   *)
(* followed by the other members by ascending joined_at.  The leader comes *)
(* first whatever its joined_at, so the refinement fails if a departure    *)
(* promotes anyone but the next in line.                                   *)
(***************************************************************************)
EXTENDS Parties

InLine(p) == Members(p) \cup {leader[p]}

(* c stands ahead of d in the queue of p. *)
Precedes(p, c, d) ==
    /\ c # d
    /\ c = leader[p] \/ (d # leader[p] /\ joinedAt[c] < joinedAt[d])

Queue(p) ==
    [members |-> InLine(p),
     ahead |-> {pair \in InLine(p) \X InLine(p) : Precedes(p, pair[1], pair[2])}]

Queues == {Queue(p) : p \in {q \in PartyIds : PartyExists(q)}}

Roster == INSTANCE PartyRoster WITH rosters <- Queues

(* Founding, accepting, leaving and deleting are the steps of a queue of   *)
(* members led by its head; every other call changes no queue.             *)
ImplementsRoster == Roster!Spec

============================================================================
