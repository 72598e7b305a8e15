------------------------------- MODULE Items -------------------------------
(***************************************************************************)
(* Bags and equipment (reducers/items.rs) and what crafting does to a bag  *)
(* when a channel completes (sim/crafting.rs).                             *)
(*                                                                         *)
(* Piles are not rows: they live inside the slots of the inventory and     *)
(* equipment tables, so the database issues no ids for them and every      *)
(* mint scans for the highest id in use (next_instance_id).                *)
(*                                                                         *)
(* Left out: proximity to the vendor and the station, inscriptions and     *)
(* ability picks, and the effective stats, which are recomputed             *)
(* from the equipment on every change.  A pile can also be listed, which   *)
(* is in Market, or in the loot of the dead, which is not modelled.        *)
(***************************************************************************)
EXTENDS Inventory

CONSTANTS
    Owners,           \* the characters: they own bags and equipment
    EquipSlots,
    EquippableInto,   \* [Items -> EquipSlots \cup {Nothing}]
    Recipes,          \* records [output, ingredient, need]
    MaxPieces,        \* bound: pieces of an item that exist
    MaxId             \* bound: ids in use

ASSUME ItemsAssumption ==
    /\ IsFiniteSet(Owners) /\ IsFiniteSet(EquipSlots)
    /\ EquippableInto \in [Items -> EquipSlots \cup {Nothing}]
    /\ \A i \in Materials : EquippableInto[i] = Nothing
    /\ Recipes \subseteq [output : Items, ingredient : Items, need : Nat \ {0}]
    /\ {MaxPieces, MaxId} \subseteq Nat

VARIABLES
    inventory,   \* inventory.slots of a character
    worn,        \* equipment.slots of a character
    supply       \* ledger: the pieces of each item granted and not consumed

itemsVars == <<inventory, worn, supply>>

ItemsTypeOK ==
    /\ inventory \in [Owners -> Bag]
    /\ worn \in [Owners -> [EquipSlots -> Pile \cup {Nothing}]]
    /\ \A c \in Owners, e \in EquipSlots :
          worn[c][e] # Nothing => EquippableInto[worn[c][e].item] = e
    /\ supply \in [Items -> Nat]

----------------------------------------------------------------------------
(* Mutant: the scan forgets what is worn. *)
UsedIdsInBags == UNION {IdsIn(inventory[c]) : c \in Owners}

UsedIds == UNION {IdsIn(inventory[c]) \cup IdsIn(worn[c]) : c \in Owners}

next_instance_id == 1 + Max({0} \cup UsedIds)

ItemsInit ==
    /\ inventory = [c \in Owners |-> EmptyInventory]
    /\ worn = [c \in Owners |-> [e \in EquipSlots |-> Nothing]]
    /\ supply = [i \in Items |-> 0]

SetBag(c, b) == inventory' = [inventory EXCEPT ![c] = b]

(* The whole amount or as much as fits; refused when nothing does. *)
grant_items(c, i, n) ==
    LET placed == Min({n, space_for(inventory[c], i)})
        b == add_stackable(inventory[c], i, n, next_instance_id)
    IN  /\ n > 0 /\ placed > 0
        /\ supply[i] + n <= MaxPieces
        /\ IdsIn(b) \subseteq 1..MaxId
        /\ SetBag(c, b)
        /\ supply' = [supply EXCEPT ![i] = @ + placed]
        /\ UNCHANGED worn

move_item(c, from, to) ==
    /\ SetBag(c, move_or_merge(inventory[c], from, to))
    /\ UNCHANGED <<worn, supply>>

split_item(c, s, n) ==
    /\ CanSplit(inventory[c], s, n)
    /\ next_instance_id <= MaxId
    /\ SetBag(c, split_stack(inventory[c], s, n, next_instance_id))
    /\ UNCHANGED <<worn, supply>>

combine_item(c, s) ==
    /\ inventory[c][s] # Nothing
    /\ inventory[c][s].item \in Materials
    /\ SetBag(c, combine_into(inventory[c], s))
    /\ UNCHANGED <<worn, supply>>

(* What was worn takes the slot the new item leaves. *)
equip_item(c, s) ==
    LET p == inventory[c][s]
    IN  /\ p # Nothing
        /\ EquippableInto[p.item] # Nothing
        /\ worn' = [worn EXCEPT ![c][EquippableInto[p.item]] = p]
        /\ SetBag(c, [inventory[c] EXCEPT ![s] = worn[c][EquippableInto[p.item]]])
        /\ UNCHANGED supply

unequip_item(c, e) ==
    /\ worn[c][e] # Nothing
    /\ Free(inventory[c]) # {}
    /\ SetBag(c, PutInFirstFree(inventory[c], worn[c][e]))
    /\ worn' = [worn EXCEPT ![c][e] = Nothing]
    /\ UNCHANGED supply

destroy_item(c, s) ==
    /\ inventory[c][s] # Nothing
    /\ SetBag(c, [inventory[c] EXCEPT ![s] = Nothing])
    /\ supply' = [supply EXCEPT ![inventory[c][s].item] = @ - inventory[c][s].quantity]
    /\ UNCHANGED worn

(* The end of a crafting channel; the ids are scanned before the           *)
(* ingredients leave.                                                      *)
complete_channel(c, r, n) ==
    LET b == apply_craft(inventory[c], r, n, next_instance_id)
    IN  /\ preview_craft(inventory[c], r, n)
        /\ supply[r.output] + n <= MaxPieces
        /\ IdsIn(b) \subseteq 1..MaxId
        /\ SetBag(c, b)
        /\ supply' = [supply EXCEPT ![r.output] = @ + n, ![r.ingredient] = @ - r.need * n]
        /\ UNCHANGED worn

ItemsNext ==
    \E c \in Owners :
        \/ \E i \in Items, n \in 1..MaxPieces : grant_items(c, i, n)
        \/ \E from, to \in Slots : move_item(c, from, to)
        \/ \E s \in Slots, n \in 1..MAX_STACK : split_item(c, s, n)
        \/ \E s \in Slots : combine_item(c, s)
        \/ \E s \in Slots : equip_item(c, s)
        \/ \E e \in EquipSlots : unequip_item(c, e)
        \/ \E s \in Slots : destroy_item(c, s)
        \/ \E r \in Recipes, n \in 1..MaxPieces : complete_channel(c, r, n)

ItemsSpec == ItemsInit /\ [][ItemsNext]_itemsVars

----------------------------------------------------------------------------
(* No two piles have one id, wherever they are: the scan for the next id   *)
(* sees every bag and all that is worn, a grant that opens several slots   *)
(* numbers them apart, and a pile that moves takes its id with it          *)
(* (items.rs next_instance_id, components.rs add_stackable, split_stack).  *)
InstancesDistinct ==
    \A c, d \in Owners :
        /\ \A s \in Occupied(inventory[c]), t \in Occupied(inventory[d]) :
              inventory[c][s].id = inventory[d][t].id => c = d /\ s = t
        /\ \A s \in Occupied(worn[c]), t \in Occupied(worn[d]) :
              worn[c][s].id = worn[d][t].id => c = d /\ s = t
        /\ IdsIn(inventory[c]) \cap IdsIn(worn[d]) = {}

(* The types hold with it: it takes both, and the account of the pieces    *)
(* below, to show any of them of the next state.                           *)
ItemsInv == ItemsTypeOK /\ InstancesDistinct

(* The pieces of item i that exist, in bags and worn. *)
Existing(i) ==
    SumFunction([c \in Owners |-> count_item(inventory[c], i) + count_item(worn[c], i)])

(* No gesture on a bag makes or loses a piece: whatever is merged, split,  *)
(* combined, swapped in or out of the equipment or consumed by a recipe,   *)
(* the pieces in bags and equipment are those the ledger of grants,        *)
(* destructions and recipes says (components.rs transfer_stack,            *)
(* combine_into, remove_item_amount, add_stackable; items.rs equip_item).  *)
PiecesConserved == \A i \in Items : Existing(i) = supply[i]

============================================================================
