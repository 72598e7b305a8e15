------------------------------ MODULE MCMarket -----------------------------
(* Instances of Market for TLC.                                            *)
EXTENDS Market, TLC

CONSTANTS c1, c2, c3, m1, m2, wood

ThreeCharacters == {c1, c2, c3}
TwoMarkets == {m1, m2}
OneItem == {wood}

(* With the account's tenth of the price, half of it in one market and a   *)
(* quarter in the other: a price of 2 costs a fee of 1 here and none there. *)
Fees == [m \in Markets |-> IF m = m1 THEN 4000 ELSE 1500]

Symmetry == Permutations(Characters)

============================================================================
