------------------------------ MODULE MCItems ------------------------------
(* Instances of Items for TLC.                                             *)
EXTENDS Items, TLC

CONSTANTS wood, staff, weapon, hero, squire

TwoCharacters == {hero, squire}
SwapCharacters == Permutations(TwoCharacters)

TwoItems == {wood, staff}
OneMaterial == {wood}
OneEquipSlot == {weapon}
StaffIsAWeapon == [i \in TwoItems |-> IF i = staff THEN weapon ELSE Nothing]

(* A staff takes two pieces of wood. *)
StaffRecipe == {[output |-> staff, ingredient |-> wood, need |-> 2]}

============================================================================
