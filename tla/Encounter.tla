----------------------------- MODULE Encounter ------------------------------
(***************************************************************************)
(* Enemies, the boss and its fight: sim/ai.rs, with what combat.rs,        *)
(* crowd_control.rs, spells.rs and lifecycle.rs do to the same rows.       *)
(*                                                                         *)
(* The AI is the last step of game_tick.  It collects the row of every     *)
(* living mob, lets the enemies take their turns, then the boss, and       *)
(* writes each pose from the row collected.  In the content an enemy winds *)
(* up what it casts and the one boss casts instants, so that only the last *)
(* turn strikes others: the assumptions and the turns below say so.        *)
(*                                                                         *)
(* Who is alive and online, who stands in the ring or in reach, and what   *)
(* ability is ready are inputs of a tick: whoever walks, dies or leaves    *)
(* between two ticks may have done so.  A blow has one source a tick.      *)
(* Amounts of threat are left out: the highest is one of those on record.  *)
(* So are facing, mana, cooldowns, healing of creatures (there is none),   *)
(* loot (see Vitals) and channels (see Casts).                             *)
(***************************************************************************)
EXTENDS Naturals, FiniteSets

CONSTANTS
    Players,
    Enemies,
    Bosses,
    Policy,         \* [Enemies -> {"Nearest", "Sticky", "Table"}]
    Passive,        \* the enemies that do not acquire by proximity
    MaxHealth,      \* [Mobs -> Nat]
    RespawnTicks,   \* [Mobs -> Nat]
    AerialHealth,   \* AERIAL_HP_FRACTION of a boss's health
    BerserkHealth,  \* BERSERK_HP_FRACTION of it
    BerserkTicks,   \* BERSERK_TIMER_SECONDS
    Controls,       \* what a control blocks: sets of "moving" and "casting"
    ControlTicks,   \* its duration
    None

Mobs == Enemies \cup Bosses

ASSUME EncounterAssumption ==
    /\ Enemies \cap Bosses = {} /\ Players \cap Mobs = {}
    /\ \A b, c \in Bosses : b = c
    /\ Policy \in [Enemies -> {"Nearest", "Sticky", "Table"}]
    /\ Passive \subseteq Enemies
    /\ MaxHealth \in [Mobs -> Nat \ {0}]
    /\ RespawnTicks \in [Mobs -> Nat \ {0, 1}]
    /\ {AerialHealth, BerserkHealth} \subseteq Nat
    /\ BerserkHealth <= AerialHealth
    /\ \A b \in Bosses : AerialHealth < MaxHealth[b]
    /\ BerserkTicks \in Nat \ {0, 1}
    /\ {} \in Controls /\ Controls \subseteq SUBSET {"moving", "casting"}
    /\ ControlTicks \in Nat \ {0}
    /\ None \notin Players \cup Bosses

VARIABLE mob   \* game_entity, entity_stats, controls, cast_state, threat, boss_state

Phases == {"Idle", "PhaseOne", "PhaseTwo", "Enraged"}

Row ==
    [dead : BOOLEAN, health : Nat, respawnIn : Nat,
     walking : BOOLEAN,                       \* move_target is set
     casting : BOOLEAN,                       \* it has a cast_state
     blocked : [{"moving", "casting"} -> 0..ControlTicks],
     threat : SUBSET (Players \cup Mobs),     \* whom its threat rows name
     phase : Phases, engaged : BOOLEAN, engagedTicks : Nat]

(* A mob as the world is seeded with it.                                   *)
Seeded(m) ==
    [dead |-> FALSE, health |-> MaxHealth[m], respawnIn |-> 0, walking |-> FALSE,
     casting |-> FALSE, blocked |-> [a \in {"moving", "casting"} |-> 0],
     threat |-> {}, phase |-> "Idle", engaged |-> FALSE, engagedTicks |-> 0]

Init == mob = [m \in Mobs |-> Seeded(m)]

-----------------------------------------------------------------------------
(* What happens to one row, v.                                             *)

threat_policy_for(m) == IF m \in Bosses THEN "Table" ELSE Policy[m]

accrue_threat(m, v, source) ==
    CASE threat_policy_for(m) = "Nearest" -> v
      [] threat_policy_for(m) = "Sticky"  -> [v EXCEPT !.threat = IF @ = {} THEN {source} ELSE @]
      [] threat_policy_for(m) = "Table"   -> [v EXCEPT !.threat = @ \cup {source}]

kill(m, v) ==
    [v EXCEPT !.dead = TRUE, !.walking = FALSE, !.respawnIn = RespawnTicks[m]]

(* The killing blow is remembered as well.                                 *)
apply_damage(m, v, source, amount) ==
    LET hurt == [v EXCEPT !.health = IF @ > amount THEN @ - amount ELSE 0]
    IN  IF v.dead THEN v
        ELSE accrue_threat(m, IF hurt.health = 0 THEN kill(m, hurt) ELSE hurt, source)

(* A control bites when it lands, and again in every tick while it runs.   *)
Enforce(v, what) ==
    [v EXCEPT !.walking = @ /\ "moving" \notin what,
              !.casting = @ /\ "casting" \notin what]

materialize(v, what) ==
    Enforce([v EXCEPT !.blocked =
                [a \in DOMAIN @ |-> IF a \in what THEN ControlTicks ELSE @[a]]], what)

Struck(m, v, source, amount, what) == materialize(apply_damage(m, v, source, amount), what)

(* Only for a boss: the fight is over, and forgotten.                      *)
reset_boss_encounter(m, v) ==
    IF m \in Bosses
    THEN [v EXCEPT !.phase = "Idle", !.engaged = FALSE, !.engagedTicks = 0, !.threat = {}]
    ELSE v

(* Mutant: only the vitals come back, as they once did.                    *)
resurrect_mid_fight(m, v) ==
    [v EXCEPT !.dead = FALSE, !.health = MaxHealth[m], !.respawnIn = 0, !.walking = FALSE,
              !.blocked = [a \in DOMAIN @ |-> 0]]

resurrect(m, v) ==
    [reset_boss_encounter(m, v)
        EXCEPT !.dead = FALSE, !.health = MaxHealth[m], !.respawnIn = 0, !.walking = FALSE,
               !.blocked = [a \in DOMAIN @ |-> 0]]

-----------------------------------------------------------------------------
(* A row through the steps of the tick that come before the AI: the set of *)
(* rows it may have become.                                                *)

status_step(v) == [v EXCEPT !.blocked = [a \in DOMAIN @ |-> IF @[a] > 0 THEN @[a] - 1 ELSE 0]]

crowd_control_step(v) == Enforce(v, {a \in DOMAIN v.blocked : v.blocked[a] > 0})

(* It arrives, or walks on.                                                *)
movement_step(v) ==
    {v} \cup IF v.walking /\ ~ v.dead THEN {[v EXCEPT !.walking = FALSE]} ELSE {}

(* A wind-up completes or goes on; a corpse's is cancelled.                *)
advance_casts(v) ==
    {[v EXCEPT !.casting = FALSE]} \cup IF v.dead THEN {} ELSE {v}

(* Struck by a spell, a projectile, an area or a poison, or by nothing.    *)
combat_step(m, v) ==
    {v} \cup {Struck(m, v, source, 1, what) :
                 source \in (Players \cup Mobs) \ {m}, what \in Controls}

tick_respawns(m, v) ==
    IF ~ v.dead THEN v
    ELSE IF v.respawnIn > 1 THEN [v EXCEPT !.respawnIn = @ - 1]
    ELSE resurrect(m, v)

Before(m, v) ==
    UNION {UNION {{tick_respawns(m, s) : s \in combat_step(m, c)} : c \in advance_casts(w)}
              : w \in movement_step(crowd_control_step(status_step(v)))}

-----------------------------------------------------------------------------
(* The AI.  row is the game_entity collected at the start of the step; v   *)
(* is what the tables hold by the time of this mob's turn.                 *)

gate_movement(v, walk) == walk /\ v.blocked["moving"] = 0 /\ ~ v.casting

(* write_pose updates `..entity', all columns of the row collected; it     *)
(* skips the write when neither facing nor destination changes.            *)
write_pose(row, v, walk) ==
    {[v EXCEPT !.dead = row.dead, !.respawnIn = row.respawnIn, !.walking = walk]}
    \cup IF walk = row.walking THEN {v} ELSE {}

Poses(row, v) == UNION {write_pose(row, v, gate_movement(v, walk)) : walk \in BOOLEAN}

can_start_cast(v) == v.blocked["casting"] = 0 /\ ~ v.casting

(* An enemy's ability is a wind-up; it plants its caster.                  *)
try_attack(v) ==
    {v} \cup IF can_start_cast(v) THEN {[v EXCEPT !.walking = FALSE, !.casting = TRUE]} ELSE {}

(* Whom an enemy may fight when these players live: those on its record    *)
(* first, if its policy keeps one, or one that came near, or nobody.       *)
Targets(m, v, living) ==
    LET kept == IF Policy[m] = "Nearest" THEN {} ELSE v.threat \cap living
    IN  IF kept # {} THEN kept
        ELSE {None} \cup IF m \in Passive THEN {} ELSE living

(* A sticky enemy keeps the one it chose, and nobody when it finds nobody. *)
select_enemy_target(m, v, target) ==
    IF Policy[m] # "Sticky" THEN v
    ELSE [v EXCEPT !.threat = IF target = None THEN {} ELSE {target}]

(* Leashed, it forgets everyone and goes home.                             *)
step_enemy(m, row, v, living) ==
    IF row.dead THEN {v}
    ELSE Poses(row, [v EXCEPT !.threat = {}])
         \cup UNION {
             LET posed == Poses(row, select_enemy_target(m, v, target))
             IN  IF target = None THEN posed ELSE UNION {try_attack(p) : p \in posed}
             : target \in Targets(m, v, living)}

(* Mutant: no enrage timer.                                                *)
advance_phase_untimed(v) ==
    LET fighting == v.phase \in {"PhaseOne", "PhaseTwo"}
        ticks == IF fighting /\ v.engagedTicks < BerserkTicks
                 THEN v.engagedTicks + 1 ELSE v.engagedTicks
    IN  [v EXCEPT !.engagedTicks = ticks,
            !.phase = IF fighting /\ v.health <= BerserkHealth THEN "Enraged"
                      ELSE IF v.phase = "PhaseOne" /\ v.health <= AerialHealth THEN "PhaseTwo"
                      ELSE @]

(* Health first: a boss that is low enough to fly takes off, and enrages   *)
(* by the timer one tick later.                                            *)
advance_phase(v) ==
    LET fighting == v.phase \in {"PhaseOne", "PhaseTwo"}
        ticks == IF fighting THEN v.engagedTicks + 1 ELSE v.engagedTicks
    IN  [v EXCEPT !.engagedTicks = ticks,
            !.phase = IF fighting /\ v.health <= BerserkHealth THEN "Enraged"
                      ELSE IF v.phase = "PhaseOne" /\ v.health <= AerialHealth THEN "PhaseTwo"
                      ELSE IF fighting /\ ticks >= BerserkTicks THEN "Enraged"
                      ELSE @]

(* A flying boss stays where it is; one that stands on its target writes   *)
(* nothing.                                                                *)
chase(row, v) ==
    {v} \cup IF v.phase = "PhaseTwo" THEN write_pose(row, v, FALSE) ELSE Poses(row, v)

engage(v) ==
    IF v.engaged THEN v
    ELSE [v EXCEPT !.engaged = TRUE, !.phase = "PhaseOne", !.engagedTicks = 0]

(* ring: the living players inside the arena.                              *)
step_boss(row, v, ring) ==
    IF row.dead \/ (~ v.engaged /\ ring = {}) THEN {v}
    ELSE IF ring = {} THEN {advance_phase(v)}
    ELSE chase(row, advance_phase(engage(v)))

(* What a boss casts strikes at once, the enemies that stand in it too.    *)
CanStrike(b) == ~ mob'[b].dead /\ can_start_cast(mob'[b])

Bitten(m, v, by) == IF by = None THEN v ELSE apply_damage(m, v, by, 1)

(* Mutant: the boss first.                                                 *)
EnemyTurn_last(m, row, living, by) == step_enemy(m, row, Bitten(m, row, by), living)

(* The turn of an enemy, and then what the boss does to it in its own.     *)
EnemyTurn(m, row, living, by) == {Bitten(m, v, by) : v \in step_enemy(m, row, row, living)}

Turn(m, row, living, ring, struck) ==
    IF m \in Enemies THEN EnemyTurn(m, row, living, struck[m]) ELSE step_boss(row, row, ring)

(* Sets of pairs of a mob and a row it may have.                           *)
Collected == UNION {{<<m, row>> : row \in Before(m, mob[m])} : m \in Mobs}

Turns(rows, living, ring, struck) ==
    UNION {{<<mr[1], v>> : v \in Turn(mr[1], mr[2], living, ring, struck)} : mr \in rows}

game_tick ==
    \E rows \in {Collected}, living \in SUBSET Players :
    \E ring \in SUBSET living :
    \E struck \in [Enemies -> {None} \cup IF ring = {} THEN {} ELSE Bosses] :
    \E turns \in {Turns(rows, living, ring, struck)} :
        /\ mob' \in [Mobs -> {mv[2] : mv \in turns}]
        /\ \A m \in Mobs : <<m, mob'[m]>> \in turns
        /\ \A e \in Enemies : struck[e] # None => CanStrike(struck[e])

-----------------------------------------------------------------------------
(* Between two ticks: a player's instant, and the reducers that sweep.     *)

cast_weapon(p, m, amount, what) ==
    /\ ~ mob[m].dead
    /\ mob' = [mob EXCEPT ![m] = Struck(m, @, p, amount, what)]

delete_character(p) ==
    mob' = [m \in Mobs |-> [mob[m] EXCEPT !.threat = @ \ {p}]]

(* gm_reset_runtime_state, gm_reseed_world and init: the mobs are deleted  *)
(* and the world is seeded with new ones.                                  *)
clear_runtime_state == mob' = [m \in Mobs |-> Seeded(m)]

Next ==
    \/ game_tick
    \/ \E p \in Players, m \in Mobs, what \in Controls :
          \E amount \in 1..MaxHealth[m] : cast_weapon(p, m, amount, what)
    \/ \E p \in Players : delete_character(p)
    \/ clear_runtime_state

Spec == Init /\ [][Next]_mob

(* game_tick is a scheduled reducer: the database runs it again and again. *)
FairSpec == Spec /\ WF_mob(game_tick)

-----------------------------------------------------------------------------
TypeOK ==
    /\ mob \in [Mobs -> Row]
    /\ \A m \in Mobs : mob[m].health <= MaxHealth[m] /\ mob[m].engagedTicks <= BerserkTicks + 1

(* State and health agree and a corpse stays where it fell: no pose is     *)
(* written over a death that came after the row was collected (ai.rs:110). *)
CorpsesLieStill ==
    \A m \in Mobs :
        /\ mob[m].dead <=> mob[m].health = 0
        /\ mob[m].dead => ~ mob[m].walking

(* The AI hands no destination to a mob that casts, which would interrupt  *)
(* the cast (ai.rs gate_movement), and none to one that is rooted.         *)
CastsStandStill ==
    \A m \in Mobs :
        /\ mob[m].casting => ~ mob[m].walking /\ mob[m].blocked["casting"] = 0
        /\ mob[m].blocked["moving"] > 0 => ~ mob[m].walking

(* A sticky enemy holds one grudge and one that fights the nearest none,   *)
(* whoever strikes it between its choices (ai.rs accrue_threat).           *)
OneGrudge ==
    \A e \in Enemies :
        /\ Policy[e] = "Nearest" => mob[e].threat = {}
        /\ Policy[e] = "Sticky" => \A x, y \in mob[e].threat : x = y

(* Only a boss fights, and it is in a phase exactly when its fight is on;  *)
(* the timer has not begun before, and is never overdue in a phase that it *)
(* ends.                                                                   *)
FightsAreOn ==
    \A m \in Mobs :
        /\ mob[m].engaged <=> mob[m].phase # "Idle"
        /\ ~ mob[m].engaged => mob[m].engagedTicks = 0
        /\ mob[m].engaged => m \in Bosses
        /\ mob[m].phase = "PhaseOne" => mob[m].engagedTicks < BerserkTicks
        /\ mob[m].phase = "PhaseTwo" => mob[m].engagedTicks <= BerserkTicks

(* The rows of the mobs agree with each other between any two              *)
(* transactions: the inductive invariant.                                  *)
IInv ==
    /\ TypeOK
    /\ CorpsesLieStill
    /\ CastsStandStill
    /\ OneGrudge
    /\ FightsAreOn

Later ==
    [p \in Phases |-> CASE p = "Idle" -> Phases
                        [] p = "PhaseOne" -> Phases \ {"Idle"}
                        [] p = "PhaseTwo" -> {"PhaseTwo", "Enraged"}
                        [] p = "Enraged" -> {"Enraged"}]

Fresh(b) == mob'[b].threat = {} /\ mob'[b].phase \in {"Idle", "PhaseOne"} /\ mob'[b].engagedTicks <= 1

(* A fight runs forward: it is not left, its phase and its timer never go  *)
(* back, and nobody who hurt the boss is forgotten before it has died,     *)
(* unless the character is deleted; and when it comes back the fight       *)
(* begins anew (ai.rs advance_phase, combat.rs reset_boss_encounter).      *)
FightsRunForward ==
    [][\A b \in Bosses :
          \/ clear_runtime_state
          \/ mob[b].dead /\ ~ mob'[b].dead /\ Fresh(b)
          \/ /\ mob[b].dead => mob'[b].dead
             /\ mob[b].engaged => mob'[b].engaged
             /\ mob'[b].phase \in Later[mob[b].phase]
             /\ mob'[b].engagedTicks >= mob[b].engagedTicks
             /\ \A x \in mob[b].threat \ mob'[b].threat : x \in Players /\ delete_character(x)]_mob

(* The hard enrage: a fight comes to rage or death, or the world is        *)
(* cleared, whether or not anybody is left in the ring (ai.rs:476).        *)
EnrageComes ==
    \A b \in Bosses :
        mob[b].engaged ~> (mob[b].phase = "Enraged" \/ mob[b].dead \/ ~ mob[b].engaged)

=============================================================================
