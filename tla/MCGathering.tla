---------------------------- MODULE MCGathering -----------------------------
(* Instances of Gathering for TLC.                                         *)
EXTENDS Gathering, TLC

CONSTANTS wood, staff, oak, ann, bob

TwoCharacters == {ann, bob}
OneNode == {oak}
TwoItems == {wood, staff}
OneMaterial == {wood}

(* A staff takes two pieces of wood. *)
StaffRecipe == [output |-> staff, ingredient |-> wood, need |-> 2]

One == {1}
Two == {2}

(* A bound on what TLC explores: one character at a time crafts, walks,    *)
(* casts, is under a control, spent or dead.  The other one gathers and    *)
(* rearranges its bag meanwhile.                                           *)
AtEase(c) ==
    /\ body[c] = [life |-> "alive", walking |-> FALSE, mind |-> "free"]
    /\ craft[c] = None

OneAtATime == \A c, d \in Characters : c # d => AtEase(c) \/ AtEase(d)

Symmetry == Permutations(Characters)

=============================================================================
