------------------------------- MODULE Casts --------------------------------
(***************************************************************************)
(* Wind-ups, channels, cooldowns and crowd control: reducers/spells.rs,    *)
(* the cast half of sim/spells.rs, sim/crowd_control.rs, and what the      *)
(* creatures' AI asks of them.                                             *)
(*                                                                         *)
(* A press opens at most one cast_state per entity.  The tick collects     *)
(* every cast first and then takes them one by one, in the order of the    *)
(* table: each looks at its caster as the casts before it have left it,    *)
(* but carries on from the row collected.  Casts found over are ended      *)
(* after the loop.  So two duelists may interrupt each other in one tick.  *)
(*                                                                         *)
(* A control is a status with its child in crowd_control; the two are      *)
(* written together and are one timer here.  The bags of effects that come *)
(* from projectiles, areas and other systems are `resolve_bundle', before  *)
(* or after the tick.  Left out: mana, ranges, targeting, facing, health   *)
(* above zero, abilities that strike their own caster, and cleansing,      *)
(* which no ability of the content does.                                   *)
(***************************************************************************)
EXTENDS Naturals, Sequences, FiniteSets, SequencesExt

CONSTANTS
    Characters,
    Creatures,
    Abilities,
    Kind,           \* [Abilities -> {"Instant", "CastTime", "Channeling"}]
    Required,       \* required_seconds of a cast, in time units
    Interval,       \* tick_interval_seconds of a channel
    Cooldown,       \* base_params().cooldown
    MoveInterrupts, \* channels that end when their caster moves
    Lethal,         \* abilities whose blow kills
    Control,        \* [Abilities -> Controls \cup {None}]: what a blow applies
    Controls,       \* the kinds of crowd control
    ControlTime,    \* [Controls -> Nat]: duration of the status
    Kit,            \* the abilities of a creature
    Loadouts,       \* the sets of abilities equipment may offer
    MaxStep,        \* MAX_STEP_SECONDS
    None

Entities == Characters \cup Creatures

ASSUME CastsAssumption ==
    /\ IsFiniteSet(Characters) /\ IsFiniteSet(Creatures) /\ Characters \cap Creatures = {}
    /\ Kind \in [Abilities -> {"Instant", "CastTime", "Channeling"}]
    /\ {Required, Interval, Cooldown} \subseteq [Abilities -> Nat \ {0}]
    /\ MoveInterrupts \cup Lethal \subseteq Abilities
    /\ Control \in [Abilities -> Controls \cup {None}]
    /\ Controls \subseteq {"Stun", "Root", "Silence"}
    /\ ControlTime \in [Controls -> Nat \ {0}]
    /\ Kit \subseteq Abilities
    /\ Loadouts \subseteq SUBSET Abilities
    /\ MaxStep \in Nat \ {0}
    /\ \A a \in Abilities : Cooldown[a] > MaxStep
    /\ None \notin BOOLEAN

VARIABLES
    entity,    \* game_entity, its statuses and its equipment, by entity
    cast,      \* cast_state, None without a row
    cooldown,  \* cooldown: the time left of each ability, 0 without a row
    told,      \* cast_ended: the events of the last step
    fired      \* the casts that took effect in the last step

vars == <<entity, cast, cooldown, told, fired>>

Row == [dead : BOOLEAN, walking : BOOLEAN, worn : Loadouts \cup {Kit}, control : [Controls -> Nat]]

CastState == [ability : Abilities, elapsed : Nat, acc : Nat, away : BOOLEAN]

ASSUME NoneIsNoCast == None \notin CastState

Ended == [ability : Abilities, interrupted : BOOLEAN]

TypeOK ==
    /\ entity \in [Entities -> Row]
    /\ \A e \in Entities, k \in Controls : entity[e].control[k] <= ControlTime[k]
    /\ cast \in [Entities -> CastState \cup {None}]
    /\ \A e \in Entities :
          cast[e] # None =>
             /\ Kind[cast[e].ability] # "Instant"
             /\ cast[e].elapsed < Required[cast[e].ability]
             /\ Kind[cast[e].ability] = "Channeling" /\ cast[e].elapsed > 0
                  => cast[e].acc < Interval[cast[e].ability]
    /\ cooldown \in [Entities -> [Abilities -> Nat]]
    /\ \A e \in Entities, a \in Abilities : cooldown[e][a] <= Cooldown[a]
    /\ told \in [Entities -> Seq(Ended)]
    /\ fired \subseteq Entities \X Abilities

Init ==
    /\ \E worn \in [Characters -> Loadouts] :
          entity = [e \in Entities |->
             [dead |-> FALSE, walking |-> FALSE, control |-> [k \in Controls |-> 0],
              worn |-> IF e \in Creatures THEN Kit ELSE worn[e]]]
    /\ cast = [e \in Entities |-> None]
    /\ cooldown = [e \in Entities |-> [a \in Abilities |-> 0]]
    /\ told = [e \in Entities |-> <<>>]
    /\ fired = {}

-----------------------------------------------------------------------------
(* A reducer or a tick works on one view of the tables and commits it;     *)
(* ending holds what the tick has found over: whether by an interruption.  *)

Tables ==
    [entity |-> entity, cast |-> cast, cooldown |-> cooldown, fired |-> {},
     told |-> [e \in Entities |-> <<>>], ending |-> [e \in Entities |-> None]]

Commit(w) ==
    /\ entity' = w.entity /\ cast' = w.cast /\ cooldown' = w.cooldown
    /\ told' = w.told /\ fired' = w.fired

BlocksCasting == {"Stun", "Silence"}
BlocksMovement == {"Stun", "Root"}

Under(w, e, kinds) == \E k \in Controls \cap kinds : w.entity[e].control[k] > 0

casting_blocked(w, e) == Under(w, e, BlocksCasting)
is_movement_blocked(w, e) == Under(w, e, BlocksMovement)

end_cast(w, e, a, interrupted) ==
    [w EXCEPT !.cast[e] = None,
              !.told[e] = Append(@, [ability |-> a, interrupted |-> interrupted])]

cancel_cast(w, e) ==
    IF w.cast[e] = None THEN w ELSE end_cast(w, e, w.cast[e].ability, TRUE)

freeze(w, e) == [w EXCEPT !.entity[e].walking = FALSE]

Enforce(w, e, kind) ==
    LET gagged == IF kind \in BlocksCasting THEN cancel_cast(w, e) ELSE w
    IN  IF kind \in BlocksMovement THEN freeze(gagged, e) ELSE gagged

(* Mutant: the gate waits for the tick.                                    *)
materialize_lazily(w, e, kind) == [w EXCEPT !.entity[e].control[kind] = ControlTime[kind]]

(* A control lands, or is refreshed, and bites at once.                    *)
materialize(w, e, kind) ==
    Enforce([w EXCEPT !.entity[e].control[kind] = ControlTime[kind]], e, kind)

kill(w, e) == [w EXCEPT !.entity[e].dead = TRUE, !.entity[e].walking = FALSE]

(* What a blow does to the victim; a status lands on a corpse as well.     *)
Struck(w, v, lethal, kind) ==
    LET hurt == IF lethal THEN kill(w, v) ELSE w
    IN  IF kind = None THEN hurt ELSE materialize(hurt, v, kind)

(* What Op does to each of S.  Op changes the row, the cast and the events *)
(* of the entity it is given and nothing else, so their order is unseen.   *)
ToEach(w, S, Op(_, _)) ==
    IF S = {} THEN w
    ELSE [w EXCEPT
            !.entity = [e \in Entities |-> IF e \in S THEN Op(w, e).entity[e] ELSE w.entity[e]],
            !.cast   = [e \in Entities |-> IF e \in S THEN Op(w, e).cast[e] ELSE w.cast[e]],
            !.told   = [e \in Entities |-> IF e \in S THEN Op(w, e).told[e] ELSE w.told[e]]]

(* The effects of one fire on those it finds alive in its reach.           *)
fire(w, e, a, reach) ==
    LET hit(x, v) == Struck(x, v, a \in Lethal, Control[a])
    IN  [ToEach(w, {v \in reach : ~ w.entity[v].dead}, hit)
            EXCEPT !.fired = @ \cup {<<e, a>>}]

(* Starting a cooldown replaces the timer that ran.                        *)
start_cooldown(w, e, a) == [w EXCEPT !.cooldown[e][a] = Cooldown[a]]

-----------------------------------------------------------------------------
(* The reducers of a player and the requests of the AI.                    *)

(* The AI looks for a cast before it asks for one; a player's press        *)
(* replaces the cast it was on.                                            *)
CanPress(e, a) ==
    /\ ~ entity[e].dead
    /\ a \in entity[e].worn
    /\ cooldown[e][a] = 0
    /\ ~ casting_blocked(Tables, e)
    /\ e \in Creatures => cast[e] = None

Open(w, e, a, armed) ==
    [w EXCEPT !.cast[e] = [ability |-> a, elapsed |-> 0, acc |-> armed, away |-> FALSE]]

(* cast_weapon, armor_cast and request_catalog_ability.  An instant is     *)
(* cast on the walk; a cast or a channel plants its caster, and a channel  *)
(* starts its cooldown, armed to strike on its first tick.                 *)
press(e, a, reach) ==
    LET freed == cancel_cast(Tables, e)
        planted == freeze(freed, e)
    IN  /\ CanPress(e, a)
        /\ Kind[a] # "Instant" => reach = {}
        /\ Commit(CASE Kind[a] = "Instant" ->
                         start_cooldown(fire(freed, e, a, reach), e, a)
                    [] Kind[a] = "CastTime" -> Open(planted, e, a, 0)
                    [] Kind[a] = "Channeling" ->
                         Open(start_cooldown(planted, e, a), e, a, Interval[a]))

(* A released channel has run its course; a released wind-up is cancelled. *)
release_cast(e) ==
    /\ cast[e] # None
    /\ Commit(end_cast(Tables, e, cast[e].ability, Kind[cast[e].ability] # "Channeling"))

(* The AI hands out no destination to a creature that casts.               *)
move_to(e) ==
    /\ ~ entity[e].dead
    /\ ~ is_movement_blocked(Tables, e)
    /\ e \in Creatures => cast[e] = None
    /\ Commit([Tables EXCEPT !.entity[e].walking = TRUE])

stop(e) == Commit(freeze(Tables, e))

(* Equipment and ability selection change at any time, casting or not.     *)
equip(e, worn) == Commit([Tables EXCEPT !.entity[e].worn = worn])

(* A blow or a control from a projectile, an area, a poison or the AI.     *)
resolve_bundle(e, lethal, kind) ==
    /\ ~ entity[e].dead
    /\ Commit(Struck(Tables, e, lethal, kind))

(* Back at the spawn point, away from wherever a cast was begun unless it  *)
(* was begun there.  The cast itself is left to the tick.                  *)
resurrect(e, away) ==
    /\ entity[e].dead
    /\ cast[e] = None => ~ away
    /\ Commit([Tables EXCEPT
          !.entity[e] = [@ EXCEPT !.dead = FALSE, !.walking = FALSE,
                                  !.control = [k \in Controls |-> 0]],
          !.cast[e] = IF away THEN [@ EXCEPT !.away = TRUE] ELSE @])

(* The sweep deletes the cast of a player timed out, without an event.     *)
expire_stale_presence(e) ==
    Commit([Tables EXCEPT !.entity[e].walking = FALSE, !.cast[e] = None])

-----------------------------------------------------------------------------
(* The steps of game_tick; dt is the time since the last one.              *)

Less(n, dt) == IF n > dt THEN n - dt ELSE 0

status_step(w, dt) ==
    [w EXCEPT !.entity = [e \in Entities |->
        [w.entity[e] EXCEPT !.control = [k \in Controls |-> Less(@[k], dt)]]]]

(* Cancels every cast and clears every destination a control forbids.      *)
crowd_control_step(w) ==
    LET caught(e) == w.cast[e] # None /\ casting_blocked(w, e)
        held(e) == w.entity[e].walking /\ is_movement_blocked(w, e)
        gagged == ToEach(w, {e \in Entities : caught(e)}, cancel_cast)
    IN  ToEach(gagged, {e \in Entities : held(e)}, freeze)

Walkers(w) == {e \in Entities : w.entity[e].walking /\ ~ w.entity[e].dead}

(* A walker gets away from where it began its cast or not, and has arrived *)
(* or walks on.                                                            *)
movement_step(w, away, arrived) ==
    [w EXCEPT
        !.entity = [e \in Entities |->
            IF e \in arrived THEN [w.entity[e] EXCEPT !.walking = FALSE] ELSE w.entity[e]],
        !.cast = [e \in Entities |->
            IF e \in away THEN [w.cast[e] EXCEPT !.away = TRUE] ELSE w.cast[e]]]

MovementCancels(a) == Kind[a] = "CastTime" \/ a \in MoveInterrupts

(* One cast, from its row as collected.  A fire resolves the equipment     *)
(* anew: a wind-up that can no longer resolve is interrupted and starts no *)
(* cooldown, a channel skips the beat.                                     *)
Resolves(w, e, a) == a \in w.entity[e].worn

(* Mutants: the cooldown starts whether the fire resolves or not; the      *)
(* failure is not noted.                                                   *)
CompleteCastTime_cooling(w, e, c, reach) ==
    [start_cooldown(IF Resolves(w, e, c.ability) THEN fire(w, e, c.ability, reach) ELSE w,
                    e, c.ability) EXCEPT !.ending[e] = ~ Resolves(w, e, c.ability)]

CompleteCastTime_unfailing(w, e, c, reach) ==
    IF Resolves(w, e, c.ability)
    THEN [start_cooldown(fire(w, e, c.ability, reach), e, c.ability) EXCEPT !.ending[e] = FALSE]
    ELSE [w EXCEPT !.ending[e] = FALSE]

CompleteCastTime(w, e, c, reach) ==
    IF Resolves(w, e, c.ability)
    THEN [start_cooldown(fire(w, e, c.ability, reach), e, c.ability) EXCEPT !.ending[e] = FALSE]
    ELSE [w EXCEPT !.ending[e] = TRUE]

(* The while loop over the accumulator strikes once per whole interval.    *)
Beats(c, dt) == (c.acc + dt) \div Interval[c.ability]

(* Mutants: the row is written back as it was collected; the accumulator   *)
(* of a channel keeps the beats it has struck.                             *)
KeepCasting_unmoved(w, e, c, dt) == [w EXCEPT !.cast[e] = c]

KeepCasting_undrained(w, e, c, dt) ==
    [w EXCEPT !.cast[e] = [c EXCEPT !.elapsed = @ + dt,
        !.acc = IF Kind[c.ability] = "Channeling" THEN @ + dt ELSE @]]

KeepCasting(w, e, c, dt) ==
    [w EXCEPT !.cast[e] = [c EXCEPT !.elapsed = @ + dt,
        !.acc = IF Kind[c.ability] = "Channeling" THEN (@ + dt) % Interval[c.ability] ELSE @]]

AdvanceChannel(w, e, c, dt, reach) ==
    LET beaten == IF Beats(c, dt) > 0 /\ Resolves(w, e, c.ability)
                  THEN fire(w, e, c.ability, reach) ELSE w
    IN  IF c.elapsed + dt >= Required[c.ability]
        THEN [beaten EXCEPT !.ending[e] = FALSE]
        ELSE KeepCasting(beaten, e, c, dt)

advance(w, e, c, dt, reach) ==
    IF \/ w.entity[e].dead \/ casting_blocked(w, e)
       \/ MovementCancels(c.ability) /\ c.away
    THEN [w EXCEPT !.ending[e] = TRUE]
    ELSE IF Kind[c.ability] = "Channeling" THEN AdvanceChannel(w, e, c, dt, reach)
    ELSE IF c.elapsed + dt >= Required[c.ability] THEN CompleteCastTime(w, e, c, reach)
    ELSE KeepCasting(w, e, c, dt)

Casters(w) == {e \in Entities : w.cast[e] # None}

(* The tables after the first n casts of an order.                         *)
Advanced(w, dt, order, reach) ==
    LET after[n \in 0..Len(order)] ==
            IF n = 0 THEN w
            ELSE advance(after[n - 1], order[n], w.cast[order[n]], dt, reach[order[n]])
    IN  after

(* All casts in some order, then the end of those found over.              *)
advance_casts(w, dt, order, reach) ==
    LET done == Advanced(w, dt, order, reach)[Len(order)]
        last(x, e) == end_cast(x, e, w.cast[e].ability, x.ending[e])
    IN  ToEach(done, {e \in Entities : done.ending[e] # None}, last)

tick_cooldowns(w, dt) ==
    [w EXCEPT !.cooldown = [e \in Entities |->
        [a \in Abilities |-> Less(w.cooldown[e][a], dt)]]]

game_tick(dt) ==
    \E gated \in {crowd_control_step(status_step(Tables, dt))} :
    \E arrived \in SUBSET Walkers(gated), away \in SUBSET (Walkers(gated) \cap Casters(gated)) :
    \E walked \in {movement_step(gated, away, arrived)} :
    \E order \in SetToSeqs(Casters(walked)), reach \in [Casters(walked) -> SUBSET Entities] :
        /\ \A e \in Casters(walked) : e \notin reach[e]
        /\ \E spelled \in {advance_casts(walked, dt, order, reach)} :
              Commit(tick_cooldowns(spelled, dt))

Tick == \E dt \in 1..MaxStep : game_tick(dt)

Next ==
    \/ Tick
    \/ \E e \in Entities :
          \/ \E a \in Abilities, reach \in SUBSET (Entities \ {e}) : press(e, a, reach)
          \/ move_to(e)
          \/ stop(e)
          \/ \E lethal \in BOOLEAN, kind \in Controls \cup {None} :
                resolve_bundle(e, lethal, kind)
          \/ \E away \in BOOLEAN : resurrect(e, away)
    \/ \E e \in Characters :
          \/ release_cast(e)
          \/ \E worn \in Loadouts : equip(e, worn)
          \/ expire_stale_presence(e)

Spec == Init /\ [][Next]_vars

(* game_tick is a scheduled reducer: the database runs it again and again. *)
FairSpec == Spec /\ WF_vars(Tick)

-----------------------------------------------------------------------------
(* Nobody casts while a control forbids it and nobody walks while one      *)
(* forbids that, between any two transactions: whoever is silenced in the  *)
(* middle of a tick does not carry a cast over it, whichever of the two    *)
(* duelists the loop took first (spells.rs:1054, crowd_control.rs:155).    *)
ControlsHold ==
    \A e \in Entities :
        /\ casting_blocked(Tables, e) => cast[e] = None
        /\ is_movement_blocked(Tables, e) => ~ entity[e].walking

(* An instant or a wind-up takes effect only when its ability was not      *)
(* cooling down, and its cooldown starts exactly when it takes effect: an  *)
(* interrupted or unresolvable one costs no cooldown (spells.rs:1107).     *)
CooldownIffFired ==
    [][\A e \in Entities, a \in Abilities :
          Kind[a] # "Channeling" =>
             (<<e, a>> \in fired' <=> cooldown[e][a] = 0 /\ cooldown'[e][a] > 0)]_vars

(* The last word of a step about a cast is the truth: a wind-up is told    *)
(* completed if and only if it took effect, and only a player timed out    *)
(* loses its cast untold.  The client starts the cooldown it shows from    *)
(* this event (cast_bar.rs:153).                                           *)
EndsAreTold ==
    [][\A e \in Entities :
          cast[e] # None /\ cast'[e] = None =>
             \/ /\ told'[e] # <<>>
                /\ Last(told'[e]).ability = cast[e].ability
                /\ Kind[cast[e].ability] = "CastTime" =>
                      (Last(told'[e]).interrupted <=> <<e, cast[e].ability>> \notin fired')
             \/ e \in Characters /\ expire_stale_presence(e)]_vars

(* No cast runs for ever: while the scheduler runs the tick, every entity  *)
(* is again and again without a cast or told of the end of one, however    *)
(* it is struck, stripped or revived (spells.rs:1254).                     *)
CastsRunOut == \A e \in Entities : []<>(cast[e] = None \/ told[e] # <<>>)

=============================================================================
