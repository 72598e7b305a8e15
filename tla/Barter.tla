------------------------------- MODULE Barter ------------------------------
(***************************************************************************)
(* What a market promises, without its order books, escrow or bags: every  *)
(* character has gold and goods, and a trade is one indivisible step that  *)
(* hands goods over against the whole price, part of which may be burned   *)
(* as a fee.  Listing, bidding and cancelling change nobody's fortune.     *)
(***************************************************************************)
EXTENDS Integers

CONSTANTS Characters, Items

VARIABLES gold, goods, alive

vars == <<gold, goods, alive>>

Init ==
    /\ gold = [c \in Characters |-> 0]
    /\ goods = [c \in Characters |-> [i \in Items |-> 0]]
    /\ alive = Characters

Earn(c) ==
    /\ c \in alive
    /\ gold'[c] > gold[c]
    /\ gold' = [gold EXCEPT ![c] = gold'[c]]
    /\ UNCHANGED <<goods, alive>>

Find(c, i) ==
    /\ c \in alive
    /\ goods'[c][i] > goods[c][i]
    /\ goods' = [goods EXCEPT ![c][i] = goods'[c][i]]
    /\ UNCHANGED <<gold, alive>>

(* The buyer pays the price of what it gets and the seller gets what the   *)
(* fee leaves, at least one piece of gold.                                 *)
Trade(seller, buyer, i) ==
    LET n == goods[seller][i] - goods'[seller][i]
        price == gold[buyer] - gold'[buyer]
        paid == gold'[seller] - gold[seller]
    IN  /\ seller # buyer
        /\ {seller, buyer} \subseteq alive
        /\ n > 0
        /\ 0 < paid /\ paid <= price
        /\ goods' = [goods EXCEPT ![seller][i] = @ - n, ![buyer][i] = @ + n]
        /\ gold' = [gold EXCEPT ![seller] = @ + paid, ![buyer] = @ - price]
        /\ UNCHANGED alive

(* A deleted character loses its purse and its bag; what it had in escrow  *)
(* stays on its name.                                                      *)
Vanish(c) ==
    /\ c \in alive
    /\ alive' = alive \ {c}
    /\ gold'[c] <= gold[c]
    /\ gold' = [gold EXCEPT ![c] = gold'[c]]
    /\ \A i \in Items : goods'[c][i] <= goods[c][i]
    /\ goods' = [goods EXCEPT ![c] = goods'[c]]

Next ==
    \/ \E c \in Characters : Earn(c) \/ Vanish(c)
    \/ \E c \in Characters, i \in Items : Find(c, i)
    \/ \E seller, buyer \in Characters, i \in Items : Trade(seller, buyer, i)

Spec == Init /\ [][Next]_vars

============================================================================
