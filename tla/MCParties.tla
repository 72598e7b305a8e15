----------------------------- MODULE MCParties -----------------------------
(* Instances of Parties for TLC.                                           *)
EXTENDS PartiesRefinement, TLC

CONSTANTS c1, c2, c3, c4

FourCharacters == {c1, c2, c3, c4}

(* Character ids are only compared for equality. *)
Symmetry == Permutations(Characters)

============================================================================
