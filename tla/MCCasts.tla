------------------------------ MODULE MCCasts -------------------------------
(* Instances of Casts for TLC.                                             *)
EXTENDS Casts, TLC

CONSTANTS ann, wolf, lunge, storm, flick

OneCharacter == {ann}
OneCreature == {wolf}

ThreeAbilities == {lunge, storm, flick}

Kinds == [a \in Abilities |-> CASE a = lunge -> "CastTime"
                                [] a = storm -> "Channeling"
                                [] a = flick -> "Instant"]
RequiredTimes == [a \in Abilities |-> IF a = storm THEN 3 ELSE 2]
Intervals == [a \in Abilities |-> 2]
Cooldowns == [a \in Abilities |-> MaxStep + 1]
Lunge == {lunge}
Storm == {storm}
LungeStuns == [a \in Abilities |-> IF a = lunge THEN "Stun" ELSE None]
JustStun == {"Stun"}
ForTwo == [k \in Controls |-> 2]

ArmedOrNot == {Abilities, {}}

=============================================================================
