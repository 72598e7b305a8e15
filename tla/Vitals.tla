------------------------------- MODULE Vitals ------------------------------
(***************************************************************************)
(* Life, death and what a corpse drops: sim/combat.rs, sim/loot.rs,        *)
(* sim/movement.rs, the timers of sim/status.rs, and the reducers a player *)
(* may call around them (respawn, move_to, stop, leave, the loot takes).   *)
(*                                                                         *)
(* An entity is one record: the columns of game_entity and entity_stats    *)
(* that matter here, and how many ticks its slow, its burn (damage over    *)
(* time) and its mend (heal over time) still run.                          *)
(* A player drops all it has when it dies and waits for `respawn'; a       *)
(* creature drops gold and comes back on a timer.  game_tick is one        *)
(* transaction made of the steps of every system in order; what its spells *)
(* and AI steps do to an entity is resolve_bundle, before or after it.     *)
(*                                                                         *)
(* Left out: shields, mana, bosses, movement locks, and everything that    *)
(* changes max_health.  "Idle" stands for the states Idle and Moving.      *)
(***************************************************************************)
EXTENDS Naturals, FiniteSets, Functions, FiniteSetsExt

CONSTANTS
    Players,
    Creatures,
    Pieces,        \* item instances; a piece is never divided here
    Gear,          \* [Players -> SUBSET Pieces]: what each starts with
    Bags,          \* ids for loot bags, free again when the bag is gone
    NoBag,
    MaxHealth,
    StatusTicks,   \* duration of a slow, a burn or a mend; 0 disables them
    RespawnTicks,  \* a creature's respawn delay
    Slots,         \* inventory capacity
    MaxGold,       \* u64::MAX
    MaxRoll,       \* most gold a creature drops
    MaxWealth      \* bound: gold in the world

Entities == Players \cup Creatures

ASSUME VitalsAssumption ==
    /\ IsFiniteSet(Bags) /\ IsFiniteSet(Pieces)
    /\ IsFiniteSet(Players) /\ IsFiniteSet(Creatures)
    /\ Players \cap Creatures = {}
    /\ Gear \in [Players -> SUBSET Pieces]
    /\ \A p \in Players : Cardinality(Gear[p]) <= Slots
    /\ \A p, q \in Players : p # q => Gear[p] \cap Gear[q] = {}
    /\ {StatusTicks, Slots, MaxGold, MaxRoll, MaxWealth} \subseteq Nat
    /\ MaxHealth \in Nat \ {0} /\ RespawnTicks \in Nat \ {0, 1}
    /\ Cardinality(Bags) >= Cardinality(Pieces) + MaxWealth

VARIABLES
    vitals,   \* game_entity, entity_stats and the statuses, by entity
    active,   \* the players whose character a session plays
    carried,  \* the pieces in a player's bag and on its body
    purse,    \* character_wallet.gold
    bags      \* loot_bag with its slots

vars == <<vitals, active, carried, purse, bags>>

EntityRow ==
    [state : {"Idle", "Dead"}, health : 0..MaxHealth,
     slow : 0..StatusTicks, burn : 0..StatusTicks, mend : 0..StatusTicks,
     speed : {"full", "halved"}, walking : BOOLEAN, home : BOOLEAN,
     respawnIn : 0..RespawnTicks]

LootBag == [gold : 0..MaxRoll, items : SUBSET Pieces, due : BOOLEAN]

ASSUME NoBagIsNoLootBag == NoBag \notin LootBag

Rested ==
    [state |-> "Idle", health |-> MaxHealth, slow |-> 0, burn |-> 0, mend |-> 0,
     speed |-> "full", walking |-> FALSE, home |-> TRUE, respawnIn |-> 0]

Init ==
    /\ vitals = [e \in Entities |-> Rested]
    /\ active = Players
    /\ carried = Gear
    /\ purse = [p \in Players |-> 0]
    /\ bags = [b \in Bags |-> NoBag]

Wealth ==
    SumFunction(purse)
    + SumFunction([b \in Bags |-> IF bags[b] = NoBag THEN 0 ELSE bags[b].gold])

-----------------------------------------------------------------------------
(* One entity's row, v.                                                    *)

IsAlive(v) == v.state # "Dead" /\ v.health > 0

(* game_entity.speed as the effective stats have it.                       *)
Derived(v) == IF v.slow > 0 THEN "halved" ELSE "full"

recalculate_effective_stats(v) == [v EXCEPT !.speed = Derived(v)]

(* drop_player rebuilds the stats of a corpse that had something to drop.  *)
kill(e, v) ==
    [v EXCEPT !.state = "Dead", !.walking = FALSE,
              !.respawnIn = IF e \in Creatures THEN RespawnTicks ELSE 0,
              !.speed = IF e \in Players /\ carried[e] # {}
                        THEN Derived(v) ELSE @]

apply_damage(e, v, amount) ==
    LET left == IF v.health > amount THEN v.health - amount ELSE 0
        hurt == [v EXCEPT !.health = left]
    IN  IF v.state = "Dead" THEN v ELSE IF left = 0 THEN kill(e, hurt) ELSE hurt

apply_healing(v, amount) ==
    IF v.state = "Dead" THEN v
    ELSE [v EXCEPT !.health = IF @ + amount < MaxHealth THEN @ + amount ELSE MaxHealth]

(* A status lands on a corpse as well.                                     *)
apply_status(v, status) ==
    IF StatusTicks = 0 \/ status = "none" THEN v
    ELSE IF status = "slow"
    THEN recalculate_effective_stats([v EXCEPT !.slow = StatusTicks])
    ELSE IF status = "burn" THEN [v EXCEPT !.burn = StatusTicks]
    ELSE [v EXCEPT !.mend = StatusTicks]

(* Mutants: the statuses survive; only the health comes back.              *)
resurrect_keeping_statuses(v) ==
    [v EXCEPT !.state = "Idle", !.health = MaxHealth,
              !.walking = FALSE, !.home = TRUE, !.respawnIn = 0]

resurrect_healing_only(v) == [v EXCEPT !.health = MaxHealth, !.respawnIn = 0]

(* The last write of resurrect copies the row its caller had read, speed   *)
(* included, over what clearing the statuses had written.                  *)
resurrect(v) ==
    [v EXCEPT !.state = "Idle", !.health = MaxHealth,
              !.slow = 0, !.burn = 0, !.mend = 0,
              !.walking = FALSE, !.home = TRUE, !.respawnIn = 0]

(* Mutant: no sweep.                                                       *)
reap_nobody(e, v) == v

reap_the_dead(e, v) ==
    IF v.state # "Dead" /\ v.health = 0 THEN kill(e, v) ELSE v

(* Mutant: the countdown is never written back.                            *)
tick_respawns_counting_nothing(e, v) ==
    IF e \in Creatures /\ v.state = "Dead" /\ v.respawnIn <= 1 THEN resurrect(v) ELSE v

tick_respawns(e, v) ==
    IF e \in Players \/ v.state # "Dead" THEN v
    ELSE IF v.respawnIn > 1 THEN [v EXCEPT !.respawnIn = @ - 1]
    ELSE resurrect(v)

-----------------------------------------------------------------------------
(* Loot bags.                                                              *)

Roll == 0..MaxRoll

Drops(e, roll) ==
    [gold  |-> IF e \in Creatures THEN roll[e] ELSE 0,
     items |-> IF e \in Players THEN carried[e] ELSE {},
     due   |-> FALSE]

IsEmpty(bag) == bag.gold = 0 /\ bag.items = {}

(* on_death for each of the dead, over the bags that stay.                 *)
BagsAfter(stay, dead, roll) ==
    LET dropping == {e \in dead : ~ IsEmpty(Drops(e, roll))}
        id == CHOOSE f \in Injection(dropping, {b \in Bags : bags[b] = NoBag}) : TRUE
    IN  [b \in Bags |->
            IF \E e \in dropping : id[e] = b
            THEN Drops(CHOOSE e \in dropping : id[e] = b, roll)
            ELSE stay[b]]

(* Mutant: the corpse keeps what it dropped.                               *)
CarriedAfter_keeping(dead) == carried

CarriedAfter(dead) == [p \in Players |-> IF p \in dead THEN {} ELSE carried[p]]

(* What the dead creatures roll, within the bound.                         *)
Rolls(dead) ==
    {roll \in [dead \cap Creatures -> Roll] :
        Wealth + SumFunction(roll) <= MaxWealth}

maybe_despawn(bag) == IF IsEmpty(bag) THEN NoBag ELSE bag

require_open_bag(p, b) ==
    /\ p \in active /\ vitals[p].state # "Dead"
    /\ bags[b] # NoBag /\ ~ bags[b].due

(* Mutant: no look at the free slots.                                      *)
loot_take_unbounded(p, b, x) ==
    /\ require_open_bag(p, b)
    /\ x \in bags[b].items
    /\ carried' = [carried EXCEPT ![p] = @ \cup {x}]
    /\ bags' = [bags EXCEPT ![b] = maybe_despawn([bags[b] EXCEPT !.items = @ \ {x}])]
    /\ UNCHANGED <<vitals, active, purse>>

loot_take(p, b, x) ==
    /\ require_open_bag(p, b)
    /\ x \in bags[b].items
    /\ Cardinality(carried[p]) < Slots
    /\ carried' = [carried EXCEPT ![p] = @ \cup {x}]
    /\ bags' = [bags EXCEPT ![b] = maybe_despawn([bags[b] EXCEPT !.items = @ \ {x}])]
    /\ UNCHANGED <<vitals, active, purse>>

(* Mutant: the bag keeps its gold.                                         *)
loot_take_gold_leaving_it(p, b) ==
    /\ require_open_bag(p, b)
    /\ bags[b].gold > 0
    /\ purse[p] + bags[b].gold <= MaxGold
    /\ purse' = [purse EXCEPT ![p] = @ + bags[b].gold]
    /\ UNCHANGED <<vitals, active, carried, bags>>

loot_take_gold(p, b) ==
    /\ require_open_bag(p, b)
    /\ bags[b].gold > 0
    /\ purse[p] + bags[b].gold <= MaxGold
    /\ purse' = [purse EXCEPT ![p] = @ + bags[b].gold]
    /\ bags' = [bags EXCEPT ![b] = maybe_despawn([bags[b] EXCEPT !.gold = 0])]
    /\ UNCHANGED <<vitals, active, carried>>

(* Mutant: the bag goes with what did not fit in it.                       *)
loot_take_all_and_despawn(p, b) ==
    /\ require_open_bag(p, b)
    /\ purse[p] + bags[b].gold <= MaxGold
    /\ \E x \in bags[b].items :
        carried' = [carried EXCEPT ![p] =
                        IF Cardinality(@) < Slots THEN @ \cup {x} ELSE @]
    /\ bags' = [bags EXCEPT ![b] = NoBag]
    /\ purse' = [purse EXCEPT ![p] = @ + bags[b].gold]
    /\ UNCHANGED <<vitals, active>>

(* Gold that does not fit aborts the whole call; pieces that do not fit    *)
(* stay behind.                                                            *)
loot_take_all(p, b) ==
    /\ require_open_bag(p, b)
    /\ purse[p] + bags[b].gold <= MaxGold
    /\ \E taken \in SUBSET bags[b].items :
        /\ Cardinality(taken) =
             Min({Cardinality(bags[b].items),
                  IF Slots > Cardinality(carried[p]) THEN Slots - Cardinality(carried[p])
                  ELSE 0})
        /\ carried' = [carried EXCEPT ![p] = @ \cup taken]
        /\ bags' = [bags EXCEPT ![b] =
                        maybe_despawn([bags[b] EXCEPT !.gold = 0, !.items = @ \ taken])]
    /\ purse' = [purse EXCEPT ![p] = @ + bags[b].gold]
    /\ UNCHANGED <<vitals, active>>

(* The deadline of a bag passes; the next tick sweeps it.                  *)
Elapse(b) ==
    /\ bags[b] # NoBag /\ ~ bags[b].due
    /\ bags' = [bags EXCEPT ![b].due = TRUE]
    /\ UNCHANGED <<vitals, active, carried, purse>>

-----------------------------------------------------------------------------
(* Reducers on the player's own row.                                       *)

SetRow(p, v) ==
    /\ vitals' = [vitals EXCEPT ![p] = v]
    /\ UNCHANGED <<carried, purse, bags>>

move_to(p) ==
    /\ p \in active /\ vitals[p].state # "Dead"
    /\ SetRow(p, [vitals[p] EXCEPT !.walking = TRUE])
    /\ UNCHANGED active

stop(p) ==
    /\ p \in active
    /\ SetRow(p, [vitals[p] EXCEPT !.walking = FALSE, !.state = "Idle"])
    /\ UNCHANGED active

respawn(p) ==
    /\ p \in active
    /\ vitals[p].state = "Dead" \/ vitals[p].health = 0
    /\ SetRow(p, resurrect(vitals[p]))
    /\ UNCHANGED active

(* Also what client_disconnected does to the character.                    *)
leave(p) ==
    /\ p \in active
    /\ SetRow(p, [vitals[p] EXCEPT !.walking = FALSE, !.state = "Idle"])
    /\ active' = active \ {p}

join(p) ==
    /\ p \notin active
    /\ active' = active \cup {p}
    /\ UNCHANGED <<vitals, carried, purse, bags>>

-----------------------------------------------------------------------------
(* What an ability delivers: a blow or a heal, then its statuses.          *)

Bundles ==
    [kind : {"damage", "heal"}, amount : 1..MaxHealth,
     status : {"none", "slow", "burn", "mend"}]

Hit(e, v, bundle) ==
    LET struck == IF bundle.kind = "damage" THEN apply_damage(e, v, bundle.amount)
                  ELSE apply_healing(v, bundle.amount)
    IN  apply_status(struck, bundle.status)

(* Targets are alive and, if players, were online when they were chosen: a *)
(* projectile still finds one that left since.  Creatures are not healed.  *)
resolve_bundle(e, bundle) ==
    LET hit  == Hit(e, vitals[e], bundle)
        dead == {e} \cap {d \in Entities : hit.state = "Dead"}
    IN  /\ IsAlive(vitals[e])
        /\ bundle.kind = "heal" \/ bundle.status = "mend" => e \in Players
        /\ vitals' = [vitals EXCEPT ![e] = hit]
        /\ \E roll \in Rolls(dead) : bags' = BagsAfter(bags, dead, roll)
        /\ carried' = CarriedAfter(dead)
        /\ UNCHANGED <<active, purse>>

-----------------------------------------------------------------------------
(* The tick.                                                               *)

status_step(v) ==
    LET rest == [v EXCEPT !.slow = IF @ > 0 THEN @ - 1 ELSE 0,
                          !.burn = IF @ > 0 THEN @ - 1 ELSE 0,
                          !.mend = IF @ > 0 THEN @ - 1 ELSE 0]
    IN  IF 1 \in {v.slow, v.burn, v.mend} THEN recalculate_effective_stats(rest) ELSE rest

(* Arrived, blocked, off the map or still going, on the spot or not.       *)
movement_step(v, outcome) ==
    IF v.state = "Dead" \/ ~ v.walking THEN v
    ELSE [v EXCEPT !.walking = outcome.walking, !.home = @ /\ ~ outcome.moved]

Outcomes == [walking : BOOLEAN, moved : BOOLEAN]

(* A burn hurts and a mend heals when its own interval is due, in the      *)
(* order of the table.                                                     *)
Due == {<<"none", "none">>, <<"burn", "none">>, <<"mend", "none">>,
        <<"burn", "mend">>, <<"mend", "burn">>}

fire(e, v, effect) ==
    IF effect = "burn" /\ v.burn > 0 THEN apply_damage(e, v, 1)
    ELSE IF effect = "mend" /\ v.mend > 0 THEN apply_healing(v, 1)
    ELSE v

tick_periodic_effects(e, v, due) == fire(e, fire(e, v, due[1]), due[2])

loot_step == [b \in Bags |-> IF bags[b] # NoBag /\ bags[b].due THEN NoBag ELSE bags[b]]

(* A corpse stays one when its player's presence expires; a session that   *)
(* plays it goes on (whose presence is stale is for Lifecycle to say).     *)
expire_stale_presence(v) == [v EXCEPT !.walking = FALSE]

game_tick ==
    \E outcome \in [{p \in Players : vitals[p].walking} -> Outcomes],
       due \in [{e \in Entities : vitals[e].burn > 1 \/ vitals[e].mend > 1} -> Due],
       stale \in SUBSET Players :
        LET effects(e) == IF e \in DOMAIN due THEN due[e] ELSE <<"none", "none">>
            walked(e) == IF e \in DOMAIN outcome
                         THEN movement_step(status_step(vitals[e]), outcome[e])
                         ELSE status_step(vitals[e])
            reaped == [e \in Entities |->
                reap_the_dead(e, tick_periodic_effects(e, walked(e), effects(e)))]
            dead == {e \in Entities : vitals[e].state # "Dead" /\ reaped[e].state = "Dead"}
        IN  /\ vitals' = [e \in Entities |->
                    IF e \in stale THEN expire_stale_presence(tick_respawns(e, reaped[e]))
                    ELSE tick_respawns(e, reaped[e])]
            /\ \E roll \in Rolls(dead) : bags' = BagsAfter(loot_step, dead, roll)
            /\ carried' = CarriedAfter(dead)
            /\ UNCHANGED <<active, purse>>

Next ==
    \/ game_tick
    \/ \E e \in Entities, bundle \in Bundles : resolve_bundle(e, bundle)
    \/ \E p \in Players : move_to(p) \/ stop(p) \/ respawn(p) \/ leave(p) \/ join(p)
    \/ \E p \in Players, b \in Bags :
        \/ \E x \in Pieces : loot_take(p, b, x)
        \/ loot_take_gold(p, b)
        \/ loot_take_all(p, b)
    \/ \E b \in Bags : Elapse(b)

Spec == Init /\ [][Next]_vars

(* The schedule of the tick is a table row: the host runs it again.        *)
FairSpec == Spec /\ WF_vars(game_tick)

-----------------------------------------------------------------------------
TypeOK ==
    /\ vitals \in [Entities -> EntityRow]
    /\ active \subseteq Players
    /\ carried \in [Players -> SUBSET Pieces]
    /\ \A p \in Players : Cardinality(carried[p]) <= Slots
    /\ purse \in [Players -> 0..MaxGold]
    /\ bags \in [Bags -> LootBag \cup {NoBag}]

(* A corpse never has health: no heal, burn, mend, respawn or departure    *)
(* leaves a character alive by health and dead by state (combat.rs         *)
(* apply_healing).                                                         *)
CorpsesHaveNoHealth == \A e \in Entities : vitals[e].state = "Dead" => vitals[e].health = 0

(* After a tick the state and the health of every entity agree, whatever   *)
(* was written to either since the tick before (combat.rs reap_the_dead).  *)
TickSettles ==
    [][\/ \A e \in Entities : vitals'[e].state = "Dead" <=> vitals'[e].health = 0
       \/ ~ game_tick]_vars

Held(x) ==
    \/ \E p \in Players : x \in carried[p]
    \/ \E b \in Bags : bags[b] # NoBag /\ x \in bags[b].items

(* A piece is in one place: dying twice, or two players taking from one    *)
(* bag, never copies it.                                                   *)
PieceOnce ==
    \A x \in Pieces :
        Cardinality({p \in Players : x \in carried[p]})
        + Cardinality({b \in Bags : bags[b] # NoBag /\ x \in bags[b].items}) <= 1

(* A piece leaves the world only with a bag past its deadline.             *)
OnlyCrumbledPiecesVanish ==
    [][\A x \in Pieces : Held(x) /\ ~ Held(x)' =>
            \E b \in Bags : bags[b] # NoBag /\ bags[b].due /\ x \in bags[b].items]_vars

(* Gold enters the world only as the one roll of a creature's death: a     *)
(* creature that dies once never pays twice.                               *)
GoldFromKills ==
    [][Wealth' <= Wealth + MaxRoll * Cardinality(
            {c \in Creatures : vitals[c].state # "Dead" /\ vitals'[c].state = "Dead"})]_vars

(* Who comes back from the dead comes back whole, unburdened and at home   *)
(* (combat.rs resurrect).                                                  *)
BackWhole ==
    [][\A e \in Entities :
        vitals[e].state = "Dead" /\ IsAlive(vitals'[e]) =>
            vitals'[e] = [Rested EXCEPT !.speed = vitals'[e].speed]]_vars

(* A dead creature comes back.                                             *)
CreaturesReturn ==
    \A c \in Creatures : vitals[c].state = "Dead" ~> vitals[c].state # "Dead"

(* game_entity.speed is what the effective stats say: "the *only* place    *)
(* that writes it" (combat.rs recalculate_effective_stats).                *)
SpeedIsDerived == \A e \in Entities : vitals[e].speed = Derived(vitals[e])

=============================================================================
