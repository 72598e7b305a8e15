---------------------------- MODULE MCLifecycle ----------------------------
(* Instances of Lifecycle for TLC.                                         *)
EXTENDS Lifecycle

CONSTANTS k1, k2, i1, i2, a1, a2, c1, c2, c3

TwoConns == {k1, k2}
TwoIdentities == {i1, i2}
TwoAccounts == {a1, a2}
ThreeCharacters == {c1, c2, c3}

============================================================================
