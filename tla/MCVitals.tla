------------------------------ MODULE MCVitals -----------------------------
(* Instances of Vitals for TLC.                                            *)
EXTENDS Vitals, TLC

CONSTANTS p1, p2, wolf, sword, helm, b1, b2, b3

OnePlayer == {p1}
TwoPlayers == {p1, p2}
OneCreature == {wolf}
NoPiece == {}
OnePiece == {sword}
TwoPieces == {sword, helm}
OneBag == {b1}
TwoBags == {b1, b2}
ThreeBags == {b1, b2, b3}

(* The first player starts with one piece, the second with the other.      *)
Start == [p \in Players |-> Pieces \cap IF p = p1 THEN {sword} ELSE {helm}]

Symmetry == Permutations(Bags)

=============================================================================
