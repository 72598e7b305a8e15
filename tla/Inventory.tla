----------------------------- MODULE Inventory -----------------------------
(***************************************************************************)
(* The bag of a character (gameplay items/components.rs, Inventory): a     *)
(* fixed row of slots, each empty or holding a pile.  Materials stack up   *)
(* to MAX_STACK in a slot, every other item takes a slot of its own.       *)
(*                                                                         *)
(* These operators have no state.  The code fills, drains and pours slot   *)
(* by slot in index order; Portion says in closed form what a slot gets    *)
(* when an amount is spread that way, and the operators are built on it.   *)
(*                                                                         *)
(* Left out of a pile: abilities and inscriptions.  An inscribed copy does *)
(* not merge, but only weapons and armor are inscribed and they never      *)
(* stack anyway.                                                           *)
(***************************************************************************)
EXTENDS Integers, FiniteSets, FiniteSetsExt

CONSTANTS
    Items,                \* catalogue ids
    Materials,            \* items of ItemCategory::Material
    INVENTORY_CAPACITY,   \* components.rs: 30
    MAX_STACK,            \* components.rs: 200
    Nothing               \* an empty slot

ASSUME InventoryAssumption ==
    /\ Materials \subseteq Items
    /\ INVENTORY_CAPACITY \in Nat \ {0}
    /\ MAX_STACK \in Nat \ {0}

Slots == 1..INVENTORY_CAPACITY
Cap(i) == IF i \in Materials THEN MAX_STACK ELSE 1

(* A pile the bag can hold: a quantity within the cap of its item. *)
Pile ==
    {p \in [id : Nat \ {0}, item : Items, quantity : Nat \ {0}] : p.quantity <= Cap(p.item)}

ASSUME NothingIsNoPile == Nothing \notin Pile

Bag == [Slots -> Pile \cup {Nothing}]

EmptyInventory == [s \in Slots |-> Nothing]

Free(b) == {s \in DOMAIN b : b[s] = Nothing}
Occupied(b) == DOMAIN b \ Free(b)
Holding(b, i) == {s \in Occupied(b) : b[s].item = i}
IdsIn(b) == {b[s].id : s \in Occupied(b)}

count_item(b, i) == SumFunction([s \in Holding(b, i) |-> b[s].quantity])

----------------------------------------------------------------------------
Clamp(n, low, high) == Max({low, Min({n, high})})

(* n pieces are spread over the slots of limit in index order, each taking *)
(* as much as its limit allows: what slot s takes, and what is left over.  *)
Portion(n, limit, s) ==
    LET before == SumFunctionOnSet(limit, {t \in DOMAIN limit : t < s})
    IN  Clamp(n - before, 0, limit[s])

Leftover(n, limit) == Max({0, n - SumFunction(limit)})

(* What the piles of item i can still take; nothing when i does not stack. *)
Rooms(b, i) == [s \in Holding(b, i) |-> Cap(i) - b[s].quantity]

FreeRooms(b, i) == [s \in Free(b) |-> Cap(i)]

space_for(b, i) == SumFunction(Rooms(b, i)) + Cap(i) * Cardinality(Free(b))

(* Puts up to n pieces of i in the bag: open piles first, then new piles   *)
(* in the free slots, numbered from nextId.                                *)
add_stackable(b, i, n, nextId) ==
    LET rest == Leftover(n, Rooms(b, i))
        rank(s) == Cardinality({t \in Free(b) : t < s})
    IN  [s \in DOMAIN b |->
            IF s \in Holding(b, i)
              THEN [b[s] EXCEPT !.quantity = @ + Portion(n, Rooms(b, i), s)]
            ELSE IF s \in Free(b) /\ Portion(rest, FreeRooms(b, i), s) > 0
              THEN [id |-> nextId + rank(s), item |-> i,
                    quantity |-> Portion(rest, FreeRooms(b, i), s)]
            ELSE b[s]]

(* Puts an existing pile in the first free slot. *)
PutInFirstFree(b, p) == [b EXCEPT ![Min(Free(b))] = p]

----------------------------------------------------------------------------
(* n pieces can leave slot s: the whole pile, or part of a stack. *)
CanTake(b, s, n) ==
    /\ b[s] # Nothing
    /\ n \in 1..b[s].quantity
    /\ n < b[s].quantity => b[s].item \in Materials

(* The pile that leaves: a part gets the new id, a whole pile keeps its own. *)
TakenPile(b, s, n, newId) ==
    IF n = b[s].quantity THEN b[s] ELSE [b[s] EXCEPT !.id = newId, !.quantity = n]

BagAfterTake(b, s, n) ==
    IF n = b[s].quantity THEN [b EXCEPT ![s] = Nothing]
                         ELSE [b EXCEPT ![s].quantity = @ - n]

CanSplit(b, s, n) ==
    /\ b[s] # Nothing
    /\ b[s].item \in Materials
    /\ n \in 1..(b[s].quantity - 1)
    /\ Free(b) # {}

split_stack(b, s, n, newId) ==
    PutInFirstFree(BagAfterTake(b, s, n), TakenPile(b, s, n, newId))

(* What is left of a pile that n pieces leave. *)
Drained(p, n) == IF n = p.quantity THEN Nothing ELSE [p EXCEPT !.quantity = @ - n]

can_merge_slots(b, from, to) ==
    /\ from # to
    /\ {from, to} \subseteq Occupied(b)
    /\ b[from].item = b[to].item
    /\ b[from].item \in Materials
    /\ b[to].quantity < MAX_STACK

(* Mutant: everything moves, whatever room there is. *)
transfer_stack_uncapped(b, from, to) ==
    [b EXCEPT ![to].quantity = @ + b[from].quantity, ![from] = Nothing]

(* As much of the source moves as the target has room for. *)
transfer_stack(b, from, to) ==
    LET moved == Min({b[from].quantity, MAX_STACK - b[to].quantity})
    IN  [b EXCEPT ![to].quantity = @ + moved, ![from] = Drained(@, moved)]

(* A move merges where it can and swaps where it cannot. *)
move_or_merge(b, from, to) ==
    IF can_merge_slots(b, from, to) THEN transfer_stack(b, from, to)
                                    ELSE [b EXCEPT ![from] = b[to], ![to] = b[from]]

(* The other piles of the item pour into dest, in index order. *)
combine_into(b, dest) ==
    LET others == Holding(b, b[dest].item) \ {dest}
        room == MAX_STACK - b[dest].quantity
        poured(s) == Portion(room, [t \in others |-> b[t].quantity], s)
        total == SumFunction([s \in others |-> poured(s)])
    IN  [s \in DOMAIN b |->
            IF s = dest THEN [b[s] EXCEPT !.quantity = @ + total]
            ELSE IF s \in others THEN Drained(b[s], poured(s))
            ELSE b[s]]

(* n pieces of i are consumed from the first piles that hold it. *)
remove_item_amount(b, i, n) ==
    LET held == [t \in Holding(b, i) |-> b[t].quantity]
    IN  [s \in DOMAIN b |->
            IF s \in Holding(b, i) THEN Drained(b[s], Portion(n, held, s)) ELSE b[s]]

----------------------------------------------------------------------------
(* A recipe r makes one output of need pieces of its ingredient.           *)

(* Mutant: a slot that ingredients leave counts as free, though some stay. *)
preview_craft_counting_used_slots(b, r, n) ==
    LET left == remove_item_amount(b, r.ingredient, r.need * n)
        used == {s \in Holding(b, r.ingredient) : left[s] # b[s]}
    IN  /\ n > 0
        /\ count_item(b, r.ingredient) >= r.need * n
        /\ Cardinality(Free(b) \cup used) >= n

(* The ingredients are there, and the bag has room for the output once     *)
(* they are gone.                                                          *)
preview_craft(b, r, n) ==
    /\ n > 0
    /\ count_item(b, r.ingredient) >= r.need * n
    /\ space_for(remove_item_amount(b, r.ingredient, r.need * n), r.output) >= n

(* The ingredients of n outputs go and the outputs come, from nextId.      *)
apply_craft(b, r, n, nextId) ==
    add_stackable(remove_item_amount(b, r.ingredient, r.need * n), r.output, n, nextId)

============================================================================
