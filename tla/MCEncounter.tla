---------------------------- MODULE MCEncounter -----------------------------
(* Instances of Encounter for TLC.                                         *)
EXTENDS Encounter

CONSTANTS ann, guard, dragon

OnePlayer == {ann}
OneEnemy == {guard}
OneBoss == {dragon}

Sticks == [e \in Enemies |-> "Sticky"]
Healths == [m \in Mobs |-> IF m = dragon THEN 3 ELSE 1]
Respawns == [m \in Mobs |-> 2]
StunOrNothing == {{}, {"moving", "casting"}}

=============================================================================
