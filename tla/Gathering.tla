------------------------------ MODULE Gathering ------------------------------
(***************************************************************************)
(* Gathering and crafting channels: reducers/gathering.rs,                 *)
(* sim/gathering.rs, reducers/crafting.rs, sim/crafting.rs and what the    *)
(* rest of the module does to them.                                        *)
(*                                                                         *)
(* Resource nodes are shared: any number of characters channel on one      *)
(* node, and what is left of it is decided when a channel completes.  A    *)
(* node below its maximum keeps the time of its last regrowth and the time *)
(* of its next; both are kept here relative to now.  Between the ticks the *)
(* players go on rearranging their bags, walking, casting and dying.       *)
(*                                                                         *)
(* Ranges are left out: who has not strayed from where a channel began is  *)
(* still in range, and who has is interrupted.  A mind is free, casting or *)
(* blocked: a control that forbids casting ends the cast (see Casts), so   *)
(* one never casts blocked.  Who stops when dead is spent: idle by state,  *)
(* without health, and free to move and work until the sweep of the next   *)
(* tick.  The other steps of the tick before the movement and after the    *)
(* crafts are actions of their own, before or after the tick.              *)
(* Every pile is minted from 1 here: instance ids are Items' subject.      *)
(***************************************************************************)
EXTENDS Inventory, SequencesExt

CONSTANTS
    Characters,
    Nodes,
    Yield,            \* yield_item of the nodes
    Recipe,           \* what is crafted of it: [output, ingredient, need]
    MAX_PIECES,       \* max_pieces of a node
    REGEN_INTERVAL,   \* regen_interval_seconds, in time units
    REGEN_AMOUNT,
    YIELD_AMOUNT,
    MaxBonus,         \* the most bonus_extra_pieces can roll
    GatherTimes,      \* what channel_duration may say of a gather
    CraftTime,        \* channel_seconds of the recipe
    Quantities,       \* the quantities asked of start_craft
    MAX_STEP,         \* MAX_STEP_SECONDS
    MaxLag,           \* bound: time between two ticks
    MaxAge,           \* bound: age of a node when the clock is or was reset
    Far,              \* far_future
    None

ASSUME GatheringAssumption ==
    /\ IsFiniteSet(Characters) /\ IsFiniteSet(Nodes)
    /\ Yield \in Materials
    /\ Recipe \in [output : Items \ Materials, ingredient : {Yield}, need : Nat \ {0}]
    /\ {MAX_PIECES, REGEN_INTERVAL, REGEN_AMOUNT, YIELD_AMOUNT, CraftTime,
        MAX_STEP, MaxLag, MaxAge} \subseteq Nat \ {0}
    /\ MaxBonus \in Nat
    /\ GatherTimes \subseteq Nat \ {0}
    /\ Quantities \subseteq Nat
    /\ Far \notin Nat

VARIABLES
    body,     \* game_entity and what holds its mind, by character
    bag,      \* inventory
    node,     \* resource_node
    gather,   \* gather_session, None without a row
    craft,    \* craft_session, None without a row
    lag       \* time since tick_stats.last_tick, None without a row

vars == <<body, bag, node, gather, craft, lag>>

(* A row of resource_node, and of the two session tables.                  *)
NodeRow == [pieces : 0..MAX_PIECES, age : Nat, due : 0..REGEN_INTERVAL \cup {Far}]

GatherSession ==
    [node : Nodes, left : UNION {1..time : time \in GatherTimes}, strayed : BOOLEAN]

CraftSession ==
    {session \in [quantity : Quantities, left : Nat, strayed : BOOLEAN] :
        session.left \in 1..(CraftTime * session.quantity)}

ASSUME NoneIsNoSession == None \notin GatherSession \cup CraftSession

TypeOK ==
    /\ body \in [Characters ->
          [life : {"alive", "spent", "dead"}, walking : BOOLEAN,
           mind : {"free", "casting", "blocked"}]]
    /\ bag \in [Characters -> Bag]
    /\ node \in [Nodes -> NodeRow]
    /\ gather \in [Characters -> GatherSession \cup {None}]
    /\ craft \in [Characters -> CraftSession \cup {None}]
    /\ lag \in 0..MaxLag \cup {None}

Init ==
    /\ body = [c \in Characters |-> [life |-> "alive", walking |-> FALSE, mind |-> "free"]]
    /\ bag = [c \in Characters |-> EmptyInventory]
    /\ node = [n \in Nodes |-> [pieces |-> MAX_PIECES, age |-> 0, due |-> Far]]
    /\ gather = [c \in Characters |-> None]
    /\ craft = [c \in Characters |-> None]
    /\ lag = None

-----------------------------------------------------------------------------
(* How a node grows.                                                       *)

next_regen_at(age, pieces) ==
    IF pieces >= MAX_PIECES THEN Far ELSE Max({REGEN_INTERVAL - age, 0})

(* Every whole interval since the last regrowth counts, and the rest of    *)
(* the time stays on the node.                                             *)
persist_regen(n) ==
    LET pieces == Min({n.pieces + (n.age \div REGEN_INTERVAL) * REGEN_AMOUNT, MAX_PIECES})
        age == n.age % REGEN_INTERVAL
    IN  IF n.pieces >= MAX_PIECES THEN [n EXCEPT !.due = Far]
        ELSE [pieces |-> pieces, age |-> age, due |-> next_regen_at(age, pieces)]

(* Mutant: a full node that is gathered from is not scheduled to regrow.   *)
persist_after_harvest_unscheduled(n, remaining) == [n EXCEPT !.pieces = remaining]

(* A node starts to regrow when it stops being full.                       *)
persist_after_harvest(n, remaining) ==
    IF n.pieces >= MAX_PIECES
    THEN [pieces |-> remaining, age |-> 0, due |-> next_regen_at(0, remaining)]
    ELSE [n EXCEPT !.pieces = remaining]

-----------------------------------------------------------------------------
(* The reducers.                                                           *)

CanWork(c) == body[c].life # "dead" /\ body[c].mind # "blocked"

Uncast(b) == [b EXCEPT !.mind = IF @ = "casting" THEN "free" ELSE @]

Unblock(b) == [b EXCEPT !.mind = IF @ = "blocked" THEN "free" ELSE @]

(* Mutant: a craft goes on beside the gather.                              *)
start_gather_beside(c, n) ==
    LET grown == persist_regen(node[n])
    IN  /\ CanWork(c)
        /\ grown.pieces > 0
        /\ space_for(bag[c], Yield) > 0
        /\ body' = [body EXCEPT ![c] = Uncast(@)]
        /\ node' = [node EXCEPT ![n] = grown]
        /\ \E time \in GatherTimes :
              gather' = [gather EXCEPT ![c] = [node |-> n, left |-> time, strayed |-> FALSE]]
        /\ UNCHANGED <<bag, craft, lag>>

(* The node first catches up with what grew since the last tick.           *)
start_gather(c, n) ==
    LET grown == persist_regen(node[n])
    IN  /\ CanWork(c)
        /\ grown.pieces > 0
        /\ space_for(bag[c], Yield) > 0
        /\ body' = [body EXCEPT ![c] = Uncast(@)]
        /\ node' = [node EXCEPT ![n] = grown]
        /\ \E time \in GatherTimes :
              gather' = [gather EXCEPT ![c] = [node |-> n, left |-> time, strayed |-> FALSE]]
        /\ craft' = [craft EXCEPT ![c] = None]
        /\ UNCHANGED <<bag, lag>>

start_craft(c, quantity) ==
    /\ CanWork(c)
    /\ preview_craft(bag[c], Recipe, quantity)
    /\ body' = [body EXCEPT ![c] = Uncast(@)]
    /\ gather' = [gather EXCEPT ![c] = None]
    /\ craft' = [craft EXCEPT ![c] =
          [quantity |-> quantity, left |-> CraftTime * quantity, strayed |-> FALSE]]
    /\ UNCHANGED <<bag, node, lag>>

stop_gather(c) ==
    /\ gather' = [gather EXCEPT ![c] = None]
    /\ UNCHANGED <<body, bag, node, craft, lag>>

stop_craft(c) ==
    /\ craft' = [craft EXCEPT ![c] = None]
    /\ UNCHANGED <<body, bag, node, gather, lag>>

(* cancel_active_cast drops the gather of whoever casts, not the craft:    *)
(* that one is left to the tick, and lives if the cast is over by then.    *)
cast(c, lasting) ==
    /\ CanWork(c)
    /\ body' = [body EXCEPT ![c].mind = IF lasting THEN "casting" ELSE "free",
                            ![c].walking = @ /\ ~ lasting]
    /\ gather' = [gather EXCEPT ![c] = None]
    /\ UNCHANGED <<bag, node, craft, lag>>

Embody(c, b) == body' = [body EXCEPT ![c] = b] /\ UNCHANGED <<bag, node, gather, craft, lag>>

end_cast(c) == Embody(c, Uncast(body[c]))

(* A stun or a silence lands, and wears off.                               *)
materialize(c, frozen) ==
    Embody(c, [body[c] EXCEPT !.mind = "blocked", !.walking = @ /\ ~ frozen])

wear_off(c) == Embody(c, Unblock(body[c]))

move_to(c) == body[c].life # "dead" /\ Embody(c, [body[c] EXCEPT !.walking = TRUE])

(* Also what leave does; neither looks at the state it overwrites.         *)
stop(c) ==
    Embody(c, [body[c] EXCEPT !.walking = FALSE, !.life = IF @ = "dead" THEN "spent" ELSE @])

Killed(b) == [b EXCEPT !.life = "dead", !.walking = FALSE]

reap_the_dead(b) == IF b.life = "spent" THEN Killed(b) ELSE b

(* A blow takes the hands off the node, deadly or not; it is always deadly *)
(* to the spent.                                                           *)
apply_damage(c, killed) ==
    /\ body[c].life # "dead"
    /\ body[c].life = "spent" => killed
    /\ body' = [body EXCEPT ![c] = IF killed THEN Killed(@) ELSE @]
    /\ gather' = [gather EXCEPT ![c] = None]
    /\ UNCHANGED <<bag, node, craft, lag>>

Strayed(session) == IF session = None THEN None ELSE [session EXCEPT !.strayed = TRUE]

(* A knock, a dash, or the way to the spawn point.                         *)
Displace(c) ==
    /\ gather' = [gather EXCEPT ![c] = Strayed(@)]
    /\ craft' = [craft EXCEPT ![c] = Strayed(@)]

displace(c) == Displace(c) /\ UNCHANGED <<body, bag, node, lag>>

(* Controls go, a cast stays; the spawn point may be where one lies.       *)
resurrect(c) ==
    /\ body[c].life # "alive"
    /\ body' = [body EXCEPT ![c] =
          [life |-> "alive", walking |-> FALSE, mind |-> Unblock(@).mind]]
    /\ Displace(c) \/ UNCHANGED <<gather, craft>>
    /\ UNCHANGED <<bag, node, lag>>

(* Trades, loot and the other gestures on a bag.                           *)
Gesture(c, b) == bag' = [bag EXCEPT ![c] = b] /\ UNCHANGED <<body, node, gather, craft, lag>>

receive(c, i) == space_for(bag[c], i) > 0 /\ Gesture(c, add_stackable(bag[c], i, 1, 1))

discard(c, s) == bag[c][s] # Nothing /\ Gesture(c, [bag[c] EXCEPT ![s] = Nothing])

(* A game master resets the runtime state: sessions, casts, controls and   *)
(* the tick's clock go, and the nodes are seeded over their rows.          *)
gm_reset_runtime_state ==
    /\ \A n \in Nodes : node[n].age <= MaxAge
    /\ body' = [c \in Characters |-> [body[c] EXCEPT !.mind = "free"]]
    /\ gather' = [c \in Characters |-> None]
    /\ craft' = [c \in Characters |-> None]
    /\ node' = [n \in Nodes |->
          [node[n] EXCEPT !.due = IF node[n].pieces >= MAX_PIECES THEN Far ELSE @]]
    /\ lag' = None
    /\ UNCHANGED bag

-----------------------------------------------------------------------------
(* The tick.                                                               *)

(* Time passes; the age of a full node is never read.                      *)
Elapse ==
    /\ IF lag = None THEN \A n \in Nodes : node[n].age < MaxAge ELSE lag < MaxLag
    /\ node' = [n \in Nodes |->
          [node[n] EXCEPT !.age = IF node[n].pieces < MAX_PIECES THEN @ + 1 ELSE @,
                          !.due = IF @ = Far THEN Far ELSE Max({@ - 1, 0})]]
    /\ lag' = IF lag = None THEN None ELSE lag + 1
    /\ UNCHANGED <<body, bag, gather, craft>>

(* No tick before to measure against, no time; a stall counts for a step.  *)
advance_clock == IF lag = None THEN 0 ELSE Min({lag, MAX_STEP})

regen_due_nodes(w) ==
    [w EXCEPT !.node = [n \in Nodes |->
        IF w.node[n].due = 0 THEN persist_regen(w.node[n]) ELSE w.node[n]]]

Interrupted(c, session, walking) ==
    body[c].life = "dead" \/ body[c].mind # "free" \/ c \in walking \/ session.strayed

(* What one completed channel takes from the node and puts in the bag.     *)
resolve_gather(n, space, bonus) == Min({YIELD_AMOUNT + bonus, n.pieces, space})

(* Mutant: a channel that starts over starts where it stood.               *)
complete_gather_overdue(w, c, n, bonus, time) ==
    LET space == space_for(w.bag[c], Yield)
        granted == resolve_gather(w.node[n], space, bonus)
        remaining == w.node[n].pieces - granted
    IN  IF granted = 0 THEN [w EXCEPT !.gather[c] = None]
        ELSE [w EXCEPT
            !.bag[c] = add_stackable(@, Yield, granted, 1),
            !.node[n] = persist_after_harvest(@, remaining),
            !.gather[c] = IF remaining = 0 \/ space = granted THEN None
                          ELSE [@ EXCEPT !.left = 0]]

(* A channel that granted all it could while node and bag had more to give *)
(* starts over.                                                            *)
complete_gather(w, c, n, bonus, time) ==
    LET space == space_for(w.bag[c], Yield)
        granted == resolve_gather(w.node[n], space, bonus)
        remaining == w.node[n].pieces - granted
    IN  IF granted = 0 THEN [w EXCEPT !.gather[c] = None]
        ELSE [w EXCEPT
            !.bag[c] = add_stackable(@, Yield, granted, 1),
            !.node[n] = persist_after_harvest(@, remaining),
            !.gather[c] = IF remaining = 0 \/ space = granted THEN None
                          ELSE [@ EXCEPT !.left = time]]

advance_gather(w, c, dt, walking, bonus, time) ==
    LET session == w.gather[c]
    IN  IF Interrupted(c, session, walking) \/ w.node[session.node].pieces = 0
        THEN [w EXCEPT !.gather[c] = None]
        ELSE IF dt < session.left THEN [w EXCEPT !.gather[c].left = @ - dt]
        ELSE complete_gather(w, c, session.node, bonus, time)

(* Mutant: the preview of start_craft is relied on.                        *)
complete_craft_unchecked(w, c) ==
    LET quantity == w.craft[c].quantity
    IN  [w EXCEPT !.craft[c] = None, !.bag[c] = apply_craft(@, Recipe, quantity, 1)]

(* The craft is previewed again on the bag as it is by now.                *)
complete_craft(w, c) ==
    LET quantity == w.craft[c].quantity
    IN  [w EXCEPT !.craft[c] = None,
                  !.bag[c] = IF preview_craft(@, Recipe, quantity) THEN apply_craft(@, Recipe, quantity, 1) ELSE @]

advance_craft(w, c, dt, walking) ==
    LET session == w.craft[c]
    IN  IF Interrupted(c, session, walking) THEN [w EXCEPT !.craft[c] = None]
        ELSE IF dt < session.left THEN [w EXCEPT !.craft[c].left = @ - dt]
        ELSE complete_craft(w, c)

Walkers == {c \in Characters : body[c].walking /\ body[c].life # "dead"}

(* Whoever has arrived has strayed, or else walked less than a hair.       *)
movement_step(w, strayed) ==
    [w EXCEPT
        !.gather = [c \in Characters |->
            IF c \in strayed THEN Strayed(w.gather[c]) ELSE w.gather[c]],
        !.craft = [c \in Characters |->
            IF c \in strayed THEN Strayed(w.craft[c]) ELSE w.craft[c]]]

(* Mutant: all gathers on the nodes as the tick found them.                *)
work_step_collected(w, dt, walking, order, bonus, time) ==
    LET one(x, c) == advance_gather([x EXCEPT !.node = w.node], c, dt, walking, bonus[c], time[c])
        gathered == FoldLeft(one, w, order)
        other(c, x) == advance_craft(x, c, dt, walking)
    IN  FoldSet(other, gathered, {c \in Characters : gathered.craft[c] # None})

(* All gathers in some order, each on the node as the ones before it left  *)
(* it, and then all crafts.                                                *)
work_step(w, dt, walking, order, bonus, time) ==
    LET one(x, c) == advance_gather(x, c, dt, walking, bonus[c], time[c])
        gathered == FoldLeft(one, w, order)
        other(c, x) == advance_craft(x, c, dt, walking)
    IN  FoldSet(other, gathered, {c \in Characters : gathered.craft[c] # None})

game_tick ==
    LET dt == advance_clock
        gatherers == {c \in Characters : gather[c] # None}
        Tables == [bag |-> bag, node |-> node, gather |-> gather, craft |-> craft]
    IN  /\ lag # 0
        /\ lag' = 0
        /\ IF dt = 0 THEN UNCHANGED <<body, bag, node, gather, craft>> ELSE
           \E walking \in SUBSET Walkers : \E strayed \in SUBSET (Walkers \ walking) :
           \E order \in SetToSeqs(gatherers), bonus \in [gatherers -> 0..MaxBonus],
              time \in [gatherers -> GatherTimes] :
           \E w \in {work_step(regen_due_nodes(movement_step(Tables, strayed)),
                               dt, walking, order, bonus, time)} :
              /\ body' = [c \in Characters |->
                    reap_the_dead([body[c] EXCEPT !.walking = c \in walking])]
              /\ bag' = w.bag /\ node' = w.node /\ gather' = w.gather /\ craft' = w.craft

Next ==
    \/ Elapse
    \/ game_tick
    \/ gm_reset_runtime_state
    \/ \E c \in Characters :
          \/ \E n \in Nodes : start_gather(c, n)
          \/ \E quantity \in Quantities : start_craft(c, quantity)
          \/ stop_gather(c)
          \/ stop_craft(c)
          \/ \E lasting \in BOOLEAN : cast(c, lasting)
          \/ end_cast(c)
          \/ \E frozen \in BOOLEAN : materialize(c, frozen)
          \/ wear_off(c)
          \/ move_to(c)
          \/ stop(c)
          \/ \E killed \in BOOLEAN : apply_damage(c, killed)
          \/ resurrect(c)
          \/ displace(c)
          \/ \E i \in Items : receive(c, i)
          \/ \E s \in Slots : discard(c, s)

Spec == Init /\ [][Next]_vars

-----------------------------------------------------------------------------
(* Everything in pieces of the yield: in the nodes, in the bags, and in    *)
(* what was made of them.                                                  *)
Wealth ==
    SumFunction([n \in Nodes |-> node[n].pieces])
    + SumFunction([c \in Characters |->
          count_item(bag[c], Yield) + Recipe.need * count_item(bag[c], Recipe.output)])

Regrowth == SumFunction([n \in Nodes |-> persist_regen(node[n]).pieces - node[n].pieces])

(* Channels make and lose nothing: however many complete on one node in a  *)
(* tick, whatever became of the bags since they began, the bags get what   *)
(* the nodes lose, a craft delivers its whole batch or takes nothing, and  *)
(* no more grows than is due (gathering.rs:329, crafting.rs:160).          *)
PiecesAccounted ==
    [][UNCHANGED <<node, gather, craft>>
       \/ Wealth' \in Wealth..(Wealth + Regrowth)]_<<node, bag>>

(* Nobody has two occupations: whichever of the gather, the craft and the  *)
(* cast is begun over another, in whatever order, a gather goes with       *)
(* neither (gathering.rs:78, crafting.rs:98, spells.rs:618).               *)
OneOccupation ==
    \A c \in Characters :
        gather[c] # None => craft[c] = None /\ body[c].mind # "casting"

(* The tick looks only at nodes whose next regrowth has come              *)
(* (regen_due_nodes), so a node below its maximum must always be scheduled *)
(* one interval after its last regrowth, and a full one never, whichever   *)
(* of harvest, catch-up and reset wrote the row last (gathering.rs:92,     *)
(* gathering.rs:164, world.rs:388).                                        *)
RegrowthScheduled ==
    \A n \in Nodes :
        node[n].due = IF node[n].pieces = MAX_PIECES THEN Far
                      ELSE Max({REGEN_INTERVAL - node[n].age, 0})

=============================================================================
