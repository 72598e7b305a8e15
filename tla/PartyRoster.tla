---------------------------- MODULE PartyRoster ----------------------------
(***************************************************************************)
(* What a party is, without the requests, ids and timestamps it is kept    *)
(* with: a queue of members in order of tenure, whose head leads.          *)
(* Characters found a party, enter one at the tail while it has room, and  *)
(* depart from wherever they stand; the head's departure makes the next in *)
(* line the leader, and a queue that empties is gone.                      *)
(*                                                                         *)
(* A queue is the set of those in it and the pairs of one who stands ahead *)
(* of another; the head is who stands ahead of everyone else.              *)
(***************************************************************************)
EXTENDS Naturals, FiniteSets

CONSTANTS Characters, MAX_PARTY_SIZE

VARIABLE rosters    \* a set of queues

Free(c) == \A q \in rosters : c \notin q.members

Init == rosters = {}

Found(c) ==
    /\ Free(c)
    /\ rosters' = rosters \cup {[members |-> {c}, ahead |-> {}]}

Enter(c, q) ==
    /\ Free(c)
    /\ Cardinality(q.members) < MAX_PARTY_SIZE
    /\ rosters' = (rosters \ {q}) \cup
          {[members |-> q.members \cup {c}, ahead |-> q.ahead \cup (q.members \X {c})]}

Depart(c, q) ==
    LET rest == q.members \ {c}
    IN  /\ c \in q.members
        /\ rosters' =
              IF rest = {} THEN rosters \ {q}
              ELSE (rosters \ {q}) \cup
                      {[members |-> rest, ahead |-> q.ahead \cap (rest \X rest)]}

Next ==
    \E c \in Characters :
        \/ Found(c)
        \/ \E q \in rosters : Enter(c, q) \/ Depart(c, q)

Spec == Init /\ [][Next]_rosters

============================================================================
