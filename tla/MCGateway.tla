----------------------------- MODULE MCGateway -----------------------------
(* Instances of Gateway for TLC.                                           *)
EXTENDS Gateway

CONSTANTS c1, c2, r1, r2, a1, s1, s2, k1

TwoConns == {c1, c2}
OneRequest == {r1}
TwoRequests == {r1, r2}
OneAccount == {a1}
TwoCookies == {s1, s2}
OneKey == {k1}

(* Nothing but equality is asked of any of them. *)
Symmetry ==
    Permutations(Conns) \cup Permutations(Requests) \cup Permutations(Cookies)

============================================================================
